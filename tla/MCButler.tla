------------------------------ MODULE MCButler ------------------------------
(* Constants for model checking Butler.                                    *)
EXTENDS Butler

StopBits == {"Stop"}
LocateBits == {"Locate"}
ReverseBits == {"Reverse"}
OverWriteBits == {"OverWrite"}
CurveBits == {"CurveRealloc"}

SomeRequests == {StopBits, LocateBits, OverWriteBits, CurveBits, ReverseBits}
Locates == {LocateBits}
StopsAndLocates == {StopBits, LocateBits}
FewRequests == {StopBits, LocateBits, OverWriteBits}
=============================================================================
