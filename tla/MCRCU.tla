------------------------------- MODULE MCRCU -------------------------------
(* The instances of RCU that TLC checks.                                   *)
EXTENDS RCU

CONSTANTS r1, r2, w1, w2, c1, c2

TwoReaders == {r1, r2}
OneReader == {r1}
TwoWriters == {w1, w2}
OneKeeper == {w2}
TwoCells == {c1, c2}
=============================================================================
