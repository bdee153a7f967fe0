---------------------------- MODULE MCStudioPets ----------------------------
(***************************************************************************)
(* Small instances of StudioPets for TLC.                                  *)
(***************************************************************************)
EXTENDS StudioPets, TLC

CONSTANTS p1, p2, create1, again1, create2, rename1

\* Creations of one Pet, a creation of another, and a rename.
RequestPets == create1 :> p1 @@ again1 :> p1 @@ create2 :> p2
               @@ rename1 :> p1
=============================================================================
