-------------------------- MODULE MCTriggerPlugin --------------------------
(***************************************************************************)
(* Small instances of TriggerPlugin for TLC.                               *)
(***************************************************************************)
EXTENDS TriggerPlugin, TLC

CONSTANTS k1, i1, i2, u1, u2, events, request

\* One Studio that ends and is started again beside one that stays up.
TwoLives == u1 :> 2 @@ u2 :> 1

Symmetry == Permutations(Deliveries)
=============================================================================
