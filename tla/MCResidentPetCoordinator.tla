---------------------- MODULE MCResidentPetCoordinator ----------------------
(***************************************************************************)
(* Small instances of ResidentPetCoordinator for TLC.                      *)
(***************************************************************************)
EXTENDS ResidentPetCoordinator, TLC

CONSTANTS d1, d2, d3, d4, s1, s2, k1, k2, c1, c2

\* Three dispatches bound to s1, of which the third may be preferred to the
\* second when the first runs, and one following the Pet.
MixedTargets == d1 :> s1 @@ d2 :> s1 @@ d3 :> s1 @@ d4 :> NoSession
MixedScopes == d1 :> k1 @@ d2 :> k2 @@ d3 :> k1 @@ d4 :> NoScope

\* One dispatch for each session, and one following the Pet.
SpreadTargets == d1 :> s1 @@ d2 :> s2 @@ d4 :> NoSession
SpreadScopes == d1 :> k1 @@ d2 :> k2 @@ d4 :> NoScope

=============================================================================
