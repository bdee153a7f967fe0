------------------------- MODULE MCCheckpointStore -------------------------
(***************************************************************************)
(* Small instances of CheckpointStore for TLC.                             *)
(***************************************************************************)
EXTENDS CheckpointStore

CONSTANTS put1, put2, ask2, task2, gc1, list1, a, b, c, d, k1, k2

\* Both writes, an interrupt and one of a sibling task, are for the second
\* checkpoint.
Checkpointed == [t \in Puts \cup Writes |-> IF t = put1 THEN 1 ELSE 2]
\* The checkpoints share an object, and the interrupt holds what only the first
\* checkpoint refers to otherwise.
Contents == <<{a, b}, {b, c}>>
WriteKeys == [t \in Writes |-> IF t = task2 THEN k2 ELSE k1]
WriteValues == [t \in Writes |-> IF t = ask2 THEN a ELSE d]
=============================================================================
