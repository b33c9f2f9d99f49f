----------------------------- MODULE MCTransport -----------------------------
(* Constants for model checking Transport.                                 *)
EXTENDS Transport

Now(type, target, on) == Event(type, "Add", Immediate, target, on)
Stop == Now("Speed", 0, FALSE)
Play == Now("Speed", 0, TRUE)
LocateTo(f) == Now("Locate", f, FALSE)
RollFrom(f) == Now("LocateRoll", f, TRUE)
Loop(on) == Now("SetLoop", 0, on)
PlayRanges(on) == Now("SetPlayRange", 0, on)
OverwriteBuffers == Now("Overwrite", 0, TRUE)
PunchAt(type, f) == Event(type, "Replace", f, 0, FALSE)

AllRequests == {Stop, Play, LocateTo(3), LocateTo(6), RollFrom(4), Loop(TRUE),
                Loop(FALSE), PlayRanges(TRUE), PlayRanges(FALSE),
                OverwriteBuffers, PunchAt("PunchOut", 2), PunchAt("PunchIn", 2)}
QueueRequests == {Stop, Play, Loop(TRUE), OverwriteBuffers, PunchAt("PunchIn", 2)}
SevenCells == 1 .. 7
TwoRanges == << <<0, 3>>, <<4, 6>> >>
OneRange == << <<1, 3>> >>
=============================================================================
