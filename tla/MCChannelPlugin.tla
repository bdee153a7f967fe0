-------------------------- MODULE MCChannelPlugin --------------------------
(***************************************************************************)
(* A small instance of ChannelPlugin for TLC.                              *)
(***************************************************************************)
EXTENDS ChannelPlugin

CONSTANTS h1, h2, worker, tester, add1, remove1, remove2, run1, run2, post1, post2, m1

\* Two humans remove each other, and the Studio adds the tester.
Whom == [m \in Changes |-> CASE m = remove1 -> h2 [] m = remove2 -> h1 [] m = add1 -> tester]
By == [m \in Changes |-> CASE m = remove1 -> h1 [] m = remove2 -> h2 [] m = add1 -> Studio]
\* Two runs of the worker; the first one's message, received twice, mentions the tester.
Message == [p \in Posts |-> m1]
From == [p \in Posts |-> run1]
Runner == [r \in Runs |-> IF r \in Posts THEN tester ELSE worker]
=============================================================================
