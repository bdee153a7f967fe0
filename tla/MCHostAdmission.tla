-------------------------- MODULE MCHostAdmission --------------------------
(***************************************************************************)
(* Small instances of HostAdmission for TLC.                               *)
(***************************************************************************)
EXTENDS HostAdmission, TLC

CONSTANTS m1, m2, c1, c2, s1, s2, v1
=============================================================================
