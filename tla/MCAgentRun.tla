----------------------------- MODULE MCAgentRun -----------------------------
(***************************************************************************)
(* A small instance of AgentRun for TLC: a call a person or the reviewer   *)
(* may grant, one no grant can cover and the toolkit's own rule lets       *)
(* through in auto mode, and one its policy blocks.                        *)
(***************************************************************************)
EXTENDS AgentRun

CONSTANTS write, look, deny, key

KeyOfCall == [c \in Calls |-> IF c = write THEN key ELSE NoKey]
Policies == [c \in Calls |-> IF c = deny THEN "block" ELSE "review"]
Replies == {<<write>>, <<look, write>>, <<look, deny>>}

=============================================================================
