---------------------------- MODULE MCLongTermMemory ----------------------------
(* One fact of one topic, learnt by both sessions: two rows of it make a   *)
(* cluster, and the fact of a merge may be one of its sources'.  Of two    *)
(* cacheable operations, the rates are public.                             *)
EXTENDS LongTermMemory

MCTopic == [f \in Fact |-> "weather"]
================================================================================
