----------------------------- MODULE MCConversation -----------------------------
(***************************************************************************)
(* Two requests to one session.                                            *)
(***************************************************************************)
EXTENDS Conversation

ASSUME RequestsAssumption == ConversationAssumption
=============================================================================
