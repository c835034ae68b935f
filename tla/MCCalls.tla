-------------------------------- MODULE MCCalls --------------------------------
(***************************************************************************)
(* Calls to the outside, of models and of tools, which share no state: a   *)
(* behaviour makes calls of the one kind.  Two callers of a model nobody   *)
(* hints at with a fallback; or two calls of a tool that writes and is     *)
(* limited to one a minute, or one call of any other tool.                 *)
(***************************************************************************)
EXTENDS LlmCalls, ToolCalls, TLC

CONSTANTS post1, post2

MCChain == <<"lost", "large", "plain">>
MCPrompts == {<<1>>, <<1, 1, 1, 9>>, <<2, 1, 2>>}

ASSUME CallsAssumption == LlmAssumption

--------------------------------------------------------------------------------
(* A read, a write that is limited and checked, a write whose provider     *)
(* knows the idempotency key, and a tool of an MCP server.                 *)
MCToolOf == [c \in ToolCall |-> IF c \in {post1, post2} THEN "post" ELSE c]
MCBatches == {{}, {post1, post2}, {"get"}, {"put"}, {"mcp"}}
MCRetries == [t \in Tool |-> 2]
MCRate == [t \in Tool |-> IF t = "post" THEN 1 ELSE 0]

(* The two callers, and the two calls of a tool, are alike.                *)
MCTwins == Permutations(Call) \cup Permutations({post1, post2})

CallsInit == Init /\ ToolInit

CallsNext ==
    \/ wanted = {} /\ Next /\ UNCHANGED toolVars
    \/ wanted # {} /\ ToolNext /\ UNCHANGED vars

CallsSpec == CallsInit /\ [][CallsNext]_<<vars, toolVars>>
================================================================================
