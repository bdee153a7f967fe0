---------------------------- MODULE MCStudioCore ----------------------------
(***************************************************************************)
(* A small instance of StudioCore for TLC.                                 *)
(***************************************************************************)
EXTENDS StudioCore

CONSTANTS p1, p2, c1, outside

TwoPlugins == <<p1, p2>>
\* The Plugin that starts first, and stops last, contributes to the other's hook.
Owners == [c \in Contributions |-> p1]
Targets == [c \in Contributions |-> p2]
=============================================================================
