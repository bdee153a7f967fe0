------------------------- MODULE MCSchedulerPlugin -------------------------
(***************************************************************************)
(* Small instances of SchedulerPlugin for TLC.                             *)
(***************************************************************************)
EXTENDS SchedulerPlugin

CONSTANTS a1, a2, u1, u2
=============================================================================
