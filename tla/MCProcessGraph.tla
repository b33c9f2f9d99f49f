--------------------------- MODULE MCProcessGraph ---------------------------
(* Constants for model checking ProcessGraph.                              *)
EXTENDS ProcessGraph, TLC

CONSTANTS r1, r2, r3, h1, h2, gui, osc

Symmetry == Permutations(Helpers) \cup Permutations(Editors)

\* Two sources and the bus they feed.
Join == [ order |-> <<r1, r2, r3>>,
          feeds |-> {<<r1, r3>>, <<r2, r3>>},
          fedBy |-> [r \in {r1, r2, r3} |-> IF r = r3 THEN {r1, r2} ELSE {}] ]

\* One source for two routes that feed nobody.
Fork == [ order |-> <<r1, r2, r3>>,
          feeds |-> {<<r1, r2>>, <<r1, r3>>},
          fedBy |-> [r \in {r1, r2, r3} |-> IF r = r1 THEN {} ELSE {r1}] ]

\* Two routes that feed each other: the connection against the list order
\* is dropped.
Loop == [ order |-> <<r1, r2>>,
          feeds |-> {<<r1, r2>>, <<r2, r1>>},
          fedBy |-> [r \in {r1, r2} |-> IF r = r1 THEN {r2} ELSE {r1}] ]

\* A bus with an input, whose output is also connected to its own input.
SelfFed == [ order |-> <<r1, r2>>, feeds |-> {<<r1, r2>>, <<r2, r2>>},
             fedBy |-> [r \in {r1, r2} |-> IF r = r2 THEN {r1} ELSE {}] ]

JoinOnly == {Join}
ForkAndLoop == {Fork, Loop}
SelfFedInputs == {SelfFed}
=============================================================================
