------------------------ MODULE MCDispatchLifecycle ------------------------
(***************************************************************************)
(* Small instances of DispatchLifecycle for TLC.                           *)
(***************************************************************************)
EXTENDS DispatchLifecycle

CONSTANTS d1, d2, s1, s2, a1, a2

\* One dispatch names the first session, one goes to the active session.
MixedTargets == [d \in Dispatches |-> IF d = d1 THEN s1 ELSE NoSession]
=============================================================================
