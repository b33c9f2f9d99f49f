-------------------------- MODULE DiskStreamProofs --------------------------
(***************************************************************************)
(* For rings, chunks, blocks and latencies of any size: the playback ring  *)
(* is read ahead without a gap (ReadAheadHolds), every field is of its     *)
(* type (TypeCorrect), and what is captured reaches the file in order and  *)
(* becomes the regions it should (TakeInOrder, RegionsAsRecorded), with no *)
(* exceptions but those that CapturedInOrder and StopKeepsTake name.       *)
(***************************************************************************)
EXTENDS DiskStream, SequenceTheorems, WellFoundedInduction, TLAPS

R == INSTANCE RingBufferProofs WITH Size <- PlaybackSize

(* What RingBufferProofs shows, of the playback ring.                      *)
LEMMA Cells == R!HasCells
BY SizesAssumption DEF R!HasCells

(* One cell is neither to be read nor to be written.                       *)
LEMMA Spaces ==
    ASSUME NEW r \in P!Positions, NEW w \in P!Positions
    PROVE  /\ P!ReadSpace(r, w) \in 0 .. PlaybackSize - 1
           /\ P!WriteSpace(r, w) = PlaybackSize - 1 - P!ReadSpace(r, w)
BY Cells, R!SpacesAddUp DEF P!Positions, R!Positions, P!ReadSpace, R!ReadSpace,
                            P!WriteSpace, R!WriteSpace

(* What the reader takes goes from the one space to the other,             *)
LEMMA Reading ==
    ASSUME NEW r \in P!Positions, NEW w \in P!Positions, NEW n \in 0 .. P!ReadSpace(r, w)
    PROVE  /\ P!ReadSpace(P!Advanced(r, n), w) = P!ReadSpace(r, w) - n
           /\ P!WriteSpace(P!Advanced(r, n), w) = P!WriteSpace(r, w) + n
BY Cells, R!AfterReading DEF P!Positions, R!Positions, P!ReadSpace, R!ReadSpace,
     P!WriteSpace, R!WriteSpace, P!Advanced, R!Advanced

(* and so does what the writer adds.                                       *)
LEMMA Writing ==
    ASSUME NEW r \in P!Positions, NEW w \in P!Positions, NEW n \in 0 .. P!WriteSpace(r, w)
    PROVE  /\ P!ReadSpace(r, P!Advanced(w, n)) = P!ReadSpace(r, w) + n
           /\ P!WriteSpace(r, P!Advanced(w, n)) = P!WriteSpace(r, w) - n
BY Cells, R!AfterWriting DEF P!Positions, R!Positions, P!ReadSpace, R!ReadSpace,
     P!WriteSpace, R!WriteSpace, P!Advanced, R!Advanced

(* A position stays in the ring, however far it goes,                      *)
LEMMA Around ==
    ASSUME NEW p \in P!Positions, NEW n \in Int
    PROVE  P!Advanced(p, n) \in P!Positions
BY SizesAssumption DEF P!Positions, P!Advanced

(* and at the end it goes on at cell 0.                                    *)
LEMMA ToTheEnd ==
    ASSUME NEW p \in P!Positions, NEW n \in Nat, p + n = PlaybackSize
    PROVE  P!Advanced(p, n) = 0
BY SizesAssumption DEF P!Positions, P!Advanced

(* Two steps are one.                                                      *)
LEMMA TwoSteps ==
    ASSUME NEW p \in P!Positions, NEW n \in 0 .. PlaybackSize, NEW k \in 0 .. PlaybackSize - n
    PROVE  P!Advanced(P!Advanced(p, n), k) = P!Advanced(p, n + k)
BY Cells, R!Further DEF P!Positions, R!Positions, P!Advanced, R!Advanced

(* What is copied into one part is what is read after the rest.            *)
LEMMA Part ==
    ASSUME NEW r \in P!Positions, NEW w \in P!Positions, NEW n \in 0 .. P!WriteSpace(r, w),
           NEW cell, NEW first \in Int, NEW part, part.at \in Int,
           n > 0 => part.at = w, w + n <= PlaybackSize,
           NEW k \in 0 .. P!ReadSpace(r, P!Advanced(w, n)) - 1
    PROVE  P!Stored(cell, part, n, first)[P!Advanced(r, k)] =
             IF k < P!ReadSpace(r, w) THEN cell[P!Advanced(r, k)]
                                      ELSE first + k - P!ReadSpace(r, w)
<1>1. R!Positions = P!Positions
  BY DEF P!Positions, R!Positions
<1>2. \A a, b : R!ReadSpace(a, b) = P!ReadSpace(a, b) /\ R!WriteSpace(a, b) = P!WriteSpace(a, b)
                /\ R!Advanced(a, b) = P!Advanced(a, b)
  BY DEF P!ReadSpace, R!ReadSpace, P!WriteSpace, R!WriteSpace, P!Advanced, R!Advanced
<1>3. R!Stored(cell, part, n, first) = P!Stored(cell, part, n, first)
  BY DEF P!Positions, R!Positions, P!Stored, R!Stored
<1> QED
  BY <1>1, <1>2, <1>3, Cells, R!PartIsRead

(* A write vector ends at the end of the ring, or is in one part.          *)
LEMMA WhatWasSeen ==
    ASSUME NEW r \in P!Positions, NEW w \in P!Positions
    PROVE  LET seen == P!WriteVector(r, w)
           IN  /\ seen = <<[at |-> w, len |-> seen[1].len], [at |-> 0, len |-> seen[2].len]>>
               /\ seen[1].len + seen[2].len = P!WriteSpace(r, w)
               /\ seen[1].len \in Nat /\ seen[2].len \in Nat
               /\ w + seen[1].len <= PlaybackSize
               /\ seen[2].len > 0 => w + seen[1].len = PlaybackSize
<1>1. P!WriteSpace(r, w) \in 0 .. PlaybackSize - 1
  BY Spaces, SizesAssumption
<1>2. P!WriteVector(r, w) = P!Vector(w, P!WriteSpace(r, w))
  BY DEF P!WriteVector
<1>3. ASSUME NEW n \in 0 .. PlaybackSize - 1
      PROVE  LET seen == P!Vector(w, n)
             IN  /\ seen[1].len + seen[2].len = n
                 /\ seen[1].len \in Nat /\ seen[2].len \in Nat
                 /\ w + seen[1].len <= PlaybackSize
                 /\ seen[2].len > 0 => w + seen[1].len = PlaybackSize
  BY Cells, R!VectorGoesRound DEF P!Positions, R!Positions, P!Vector, R!Vector
<1>4. ASSUME NEW n \in 0 .. PlaybackSize - 1
      PROVE  LET seen == P!Vector(w, n)
             IN  seen = <<[at |-> w, len |-> seen[1].len], [at |-> 0, len |-> seen[2].len]>>
  BY DEF P!Vector
<1> QED
  BY <1>1, <1>2, <1>3, <1>4

-----------------------------------------------------------------------------
(* Recording does not move what is played.  The types of the two records,  *)
(* and what most steps keep of a stream:                                   *)
Transports == [rolling : BOOLEAN, rec : BOOLEAN]
Infos == Seq([start : Int, frames : Int])
Streams == [playback_sample : Int, file_frame : Int, first : Int, last : Int, start : Int,
            captured : Int, recording : BOOLEAN, was : Transports,
            infos : Infos, owFrame : Int,
            owOffset : P!Positions, overwrite : BOOLEAN]
Moments == [frame : Int, rolling : BOOLEAN, rec : BOOLEAN,
            declick : {"none", "stop", "locate"}, declicked : BOOLEAN, target : Int,
            roll : BOOLEAN, pendingCapture : BOOLEAN, stopOnce : Int,
            work : SUBSET {"Stop", "Locate", "Roll", "OverWrite"}, requested : BOOLEAN]

Kept(e, f) ==
    /\ f \in Streams
    /\ f.playback_sample = e.playback_sample /\ f.file_frame = e.file_frame

(* check_record_status, to begin with                                      *)
LEMMA CheckKeeps ==
    ASSUME NEW e \in Streams, NEW s \in Moments
    PROVE  Kept(e, CheckRecordStatus(e, s))
<1> DEFINE now == [rolling |-> s.rolling, rec |-> s.rec]
           f == [e EXCEPT !.was = now]
           end == s.frame + Alignment
<1>1. end \in Int /\ MaxFrames \in Int /\ s.frame \in Int
  BY LatencyAssumption, FramesAssumption DEF Alignment, Greatest, Moments
<1>2. now \in Transports
  BY DEF Moments, Transports
<1>3. CheckRecordStatus(e, s) \in {e, f, [f EXCEPT !.last = end],
          [f EXCEPT !.first = end, !.last = MaxFrames, !.start = s.frame]}
  BY DEF CheckRecordStatus
<1> HIDE DEF now, end
<1>4. Kept(e, e) /\ Kept(e, f)
  BY <1>2 DEF Kept, Streams
<1>5. Kept(e, [f EXCEPT !.last = end])
  BY <1>1, <1>2 DEF Kept, Streams
<1>6. Kept(e, [f EXCEPT !.first = end, !.last = MaxFrames, !.start = s.frame])
  BY <1>1, <1>2 DEF Kept, Streams
<1> QED
  BY <1>3, <1>4, <1>5, <1>6

(* The first frame of a capture                                            *)
LEMMA StartKeeps ==
    ASSUME NEW e \in Streams, NEW n \in Int, NEW b \in BOOLEAN
    PROVE  Kept(e, [e EXCEPT !.captured = n, !.recording = b])
BY DEF Kept, Streams

(* A capture that is put on the list                                       *)
LEMMA ListKeeps ==
    ASSUME NEW e \in Streams, NEW infos \in Infos, NEW n \in Int
    PROVE  Kept(e, [e EXCEPT !.infos = infos, !.captured = n])
BY DEF Kept, Streams

(* finish_capture                                                          *)
LEMMA FinishKeeps ==
    ASSUME NEW e \in Streams
    PROVE  Kept(e, FinishCapture(e))
<1> DEFINE f == [e EXCEPT !.recording = FALSE, !.first = MaxFrames, !.last = MaxFrames]
           infos == Append(f.infos, [start |-> e.start, frames |-> e.captured])
           g == [f EXCEPT !.infos = infos, !.captured = 0]
<1>0. MaxFrames \in Int
  BY FramesAssumption
<1>1. Kept(e, f)
  BY <1>0 DEF Kept, Streams
<1>2. f.infos \in Infos
  BY <1>1 DEF Kept, Streams
<1>3. [start |-> e.start, frames |-> e.captured] \in [start : Int, frames : Int]
  BY DEF Streams
<1>4. infos \in Infos
  BY <1>2, <1>3, AppendProperties DEF Infos
<1> HIDE DEF f, infos
<1>5. Kept(f, g)
  <2>1. f \in Streams
    BY <1>1 DEF Kept
  <2>2. 0 \in Int
    OBVIOUS
  <2> QED
    BY <2>1, <2>2, <1>4, ListKeeps, Zenon
<1>6. FinishCapture(e) \in {f, g}
  BY DEF FinishCapture, f, infos
<1> QED
  BY <1>1, <1>5, <1>6 DEF Kept

(* The beginning of process, as far as the ranges,                         *)
LEMMA CheckedKeeps ==
    ASSUME d \in Streams, t \in Moments
    PROVE  Kept(d, Checked)
<1> DEFINE e == CheckRecordStatus(d, t)
           f == [e EXCEPT !.last = Last(e)]
<1>1. Kept(d, e)
  BY CheckKeeps
<1>2. Last(e) \in Int
  BY <1>1, FramesAssumption DEF Kept, Streams, Last
<1>3. Checked = f
  BY DEF Checked
<1> HIDE DEF e
<1>4. Kept(e, f)
  BY <1>1, <1>2 DEF Kept, Streams
<1> QED
  BY <1>1, <1>3, <1>4 DEF Kept

(* and as far as the buffers                                               *)
LEMMA PreparedKeeps ==
    ASSUME d \in Streams, t \in Moments, NEW n
    PROVE  Kept(d, Prepared(n))
<1> DEFINE g == [Checked EXCEPT !.captured = 0, !.recording = TRUE]
<1>1. Kept(d, Checked) /\ Checked \in Streams
  BY CheckedKeeps DEF Kept
<1>2. Kept(Checked, FinishCapture(Checked))
  BY <1>1, FinishKeeps
<1>3. Kept(Checked, g)
  <2>1. 0 \in Int /\ TRUE \in BOOLEAN
    OBVIOUS
  <2> QED
    BY <1>1, <2>1, StartKeeps, Zenon
<1>4. Prepared(n) \in {Checked, FinishCapture(Checked), g}
  BY DEF Prepared
<1> QED
  BY <1>1, <1>2, <1>3, <1>4 DEF Kept

(* The list of captures, when the regions are made                         *)
LEMMA ForgetKeeps ==
    ASSUME NEW e \in Streams, NEW infos \in Infos
    PROVE  Kept(e, [e EXCEPT !.infos = infos])
BY DEF Kept, Streams

At(f, position, next) ==
    f \in Streams /\ f.playback_sample = position /\ f.file_frame = next

(* overwrite_existing_buffers is done once for each request.               *)
LEMMA DoneKeeps ==
    ASSUME NEW e \in Streams, NEW b \in BOOLEAN, NEW n \in Int, NEW p \in P!Positions
    PROVE  At([e EXCEPT !.overwrite = b, !.owFrame = n, !.owOffset = p],
              e.playback_sample, e.file_frame)
BY DEF At, Streams

(* commit moves the position, and what is read next stays.                 *)
LEMMA PlayMoves ==
    ASSUME NEW e \in Streams, NEW n \in Int, NEW m \in Int
    PROVE  At([e EXCEPT !.playback_sample = n, !.captured = m], n, e.file_frame)
BY DEF At, Streams

(* A cycle records a number of frames.                                     *)
LEMMA CountIsInt ==
    ASSUME d \in Streams, t \in Moments, NEW n \in Int
    PROVE  Recorded(n).count \in Int
<1>1. Checked \in Streams /\ t.frame \in Int
  BY CheckedKeeps DEF Kept, Moments
<1> QED
  BY <1>1 DEF Recorded, RecordRange, Streams

(* A cycle moves the transport.                                            *)
LEMMA Moved ==
    ASSUME t \in Moments, NEW n \in Int
    PROVE  Declicking([t EXCEPT !.frame = @ + n]) \in Moments
<1>1. [t EXCEPT !.frame = @ + n] \in Moments
  BY DEF Moments
<1>2. \A s \in Moments : [s EXCEPT !.declicked = s.declick # "none"] \in Moments
  BY DEF Moments
<1> QED
  BY <1>1, <1>2 DEF Declicking

Bits == SUBSET {"Stop", "Locate", "Roll", "OverWrite"}

(* Work is a set of bits.                                                  *)
LEMMA Scheduled ==
    ASSUME NEW s \in Moments, NEW bits \in Bits
    PROVE  ScheduleWork(s, bits) \in Moments
<1>1. ASSUME NEW b \in Bits, NEW r \in BOOLEAN
      PROVE  [s EXCEPT !.work = b, !.requested = r] \in Moments
  BY DEF Moments, Bits
<1>2. s.work \cup bits \in Bits /\ TRUE \in BOOLEAN
  BY DEF Moments, Bits
<1>3. ScheduleWork(s, bits) = [s EXCEPT !.work = s.work \cup bits, !.requested = TRUE]
  BY DEF ScheduleWork
<1> QED
  BY <1>1, <1>2, <1>3, Zenon

(* No declick is pending any more.                                         *)
LEMMA ClearedIs ==
    ASSUME NEW s \in Moments
    PROVE  NoDeclick(s) \in Moments
<1>1. ASSUME NEW e \in {"none", "stop", "locate"}, NEW b \in BOOLEAN, NEW n \in Int,
             NEW c \in BOOLEAN
      PROVE  [s EXCEPT !.declick = e, !.declicked = b, !.target = n, !.roll = c] \in Moments
  BY DEF Moments
<1>2. "none" \in {"none", "stop", "locate"} /\ FALSE \in BOOLEAN /\ 0 \in Int
  OBVIOUS
<1> QED
  BY <1>1, <1>2, Zenon DEF NoDeclick

(* realtime_stop                                                           *)
LEMMA Stopped ==
    ASSUME NEW s \in Moments
    PROVE  RealtimeStop(s) \in Moments
<1> DEFINE u == ScheduleWork(NoDeclick(s), {"Stop"})
           frame == IF s.rec THEN Back(u.frame, Greatest(OutputLatency, Block)) ELSE u.frame
<1>1. u \in Moments
  BY ClearedIs, Scheduled DEF Bits
<1>2. frame \in Int
  BY <1>1, SizesAssumption, LatencyAssumption DEF Moments, Back, Greatest
<1>3. ASSUME NEW v \in Moments, NEW f \in Int, NEW b \in BOOLEAN, NEW c \in BOOLEAN,
             NEW e \in BOOLEAN, NEW n \in Int
      PROVE  [v EXCEPT !.frame = f, !.rolling = b, !.rec = c, !.pendingCapture = e,
                       !.stopOnce = n] \in Moments
  BY DEF Moments
<1>4. RealtimeStop(s) = [u EXCEPT !.frame = frame, !.rolling = FALSE, !.rec = FALSE,
                                  !.pendingCapture = FALSE, !.stopOnce = MaxFrames]
  BY DEF RealtimeStop
<1>5. FALSE \in BOOLEAN /\ MaxFrames \in Int
  BY FramesAssumption
<1> HIDE DEF u, frame
<1>6. [u EXCEPT !.frame = frame, !.rolling = FALSE, !.rec = FALSE, !.pendingCapture = FALSE,
                !.stopOnce = MaxFrames] \in Moments
  BY <1>1, <1>2, <1>3, <1>5, Zenon
<1> QED
  BY <1>4, <1>6, Zenon

(* stop_transport                                                          *)
LEMMA Stops ==
    ASSUME NEW s \in Moments
    PROVE  StopTransport(s) \in Moments
<1>1. ASSUME NEW b \in BOOLEAN, NEW n \in Int
      PROVE  [s EXCEPT !.pendingCapture = b, !.stopOnce = n] \in Moments
  BY DEF Moments
<1>2. s.frame + OutputLatency - Block \in Int /\ TRUE \in BOOLEAN
  BY SizesAssumption, LatencyAssumption DEF Moments
<1>3. WaitForInput(s) \in Moments
  BY <1>1, <1>2, Zenon DEF WaitForInput
<1>4. [s EXCEPT !.declick = "stop"] \in Moments
  BY DEF Moments
<1> QED BY <1>3, <1>4, Stopped, Zenon DEF StopTransport

(* The stop that was waited for is no longer ahead.                        *)
LEMMA Forgotten ==
    ASSUME NEW s \in Moments
    PROVE  [s EXCEPT !.stopOnce = MaxFrames] \in Moments
BY FramesAssumption DEF Moments

(* start_locate, when there is no declick to wait for                      *)
LEMMA LocatedIs ==
    ASSUME NEW s \in Moments, NEW frame \in Int, NEW roll \in BOOLEAN
    PROVE  Located(s, frame, roll) \in Moments
<1>1. [s EXCEPT !.frame = frame] \in Moments
  BY DEF Moments
<1>2. {"Locate"} \cup (IF roll THEN {"Roll"} ELSE {}) \in Bits
  BY DEF Bits
<1> QED
  BY <1>1, <1>2, Scheduled DEF Located

(* check_declick_out                                                       *)
LEMMA Declicked ==
    ASSUME t \in Moments, CheckDeclickOut
    PROVE  t' \in Moments
<1> DEFINE s == NoDeclick(StopTransport(t))
           u == [NoDeclick(t) EXCEPT !.frame = t.target]
<1>1. s \in Moments /\ NoDeclick(t) \in Moments
  BY Stops, ClearedIs
<1>2. t.target \in Int /\ t.roll \in BOOLEAN
  BY DEF Moments
<1>3. u \in Moments
  <2>1. \A v \in Moments, n \in Int : [v EXCEPT !.frame = n] \in Moments
    BY DEF Moments
  <2> QED BY <1>1, <1>2, <2>1
<1>4. t' \in {s, [s EXCEPT !.stopOnce = MaxFrames], NoDeclick(t), Located(u, t.target, t.roll),
              Located(RealtimeStop(u), t.target, t.roll)}
  BY DEF CheckDeclickOut
<1> HIDE DEF s, u
<1>5. [s EXCEPT !.stopOnce = MaxFrames] \in Moments
  BY <1>1, Forgotten
<1>6. Located(u, t.target, t.roll) \in Moments
      /\ Located(RealtimeStop(u), t.target, t.roll) \in Moments
  BY <1>2, <1>3, Stopped, LocatedIs
<1> QED
  BY <1>1, <1>4, <1>5, <1>6

(* The event that stops                                                    *)
LEMMA StoppedOnce ==
    ASSUME t \in Moments, StopOnce
    PROVE  t' \in Moments
BY Stops, Forgotten DEF StopOnce

(* prepare_to_stop                                                         *)
LEMMA EndKeeps ==
    ASSUME d \in Streams, t \in Moments, PrepareToStop
    PROVE  Kept(d, d')
<1>1. t.frame + CaptureOffset \in Int
  BY LatencyAssumption DEF Moments
<1>2. ASSUME NEW n \in Int PROVE Kept(d, [d EXCEPT !.last = n])
  BY DEF Kept, Streams
<1>3. d' = d \/ d' = [d EXCEPT !.last = t.frame + CaptureOffset]
  BY DEF PrepareToStop
<1>4. Kept(d, d)
  BY DEF Kept
<1> QED BY <1>1, <1>2, <1>3, <1>4

(* The events of the user                                                  *)
LEMMA Commanded ==
    ASSUME t \in Moments, User
    PROVE  t' \in Moments
<1>1. ASSUME NEW rec \in BOOLEAN, Start(rec) PROVE t' \in Moments
  <2>1. ASSUME NEW b \in BOOLEAN PROVE [t EXCEPT !.rolling = b, !.rec = rec] \in Moments
    BY DEF Moments
  <2>2. t' = [t EXCEPT !.rolling = TRUE, !.rec = rec]
    BY <1>1 DEF Start
  <2> QED
    BY <2>1, <2>2, Zenon
<1>2. ASSUME Stop PROVE t' \in Moments
  BY <1>2, Stops DEF Stop
<1>3. ASSUME Punch PROVE t' \in Moments
  BY <1>3 DEF Punch, Moments
<1>4. ASSUME Overwrite PROVE t' \in Moments
  <2>1. {"OverWrite"} \in Bits
    BY DEF Bits
  <2> QED
    BY <1>4, <2>1, Scheduled DEF Overwrite
<1>5. ASSUME NEW frame \in Targets, NEW roll \in BOOLEAN, Locate(frame, roll)
      PROVE  t' \in Moments
  <2>1. frame \in Int
    BY FramesAssumption
  <2>2. ASSUME NEW e \in {"none", "stop", "locate"}
        PROVE  [t EXCEPT !.frame = frame, !.declick = e, !.target = frame,
                         !.roll = roll] \in Moments
    BY <2>1 DEF Moments
  <2>3. "locate" \in {"none", "stop", "locate"}
    OBVIOUS
  <2>4. \/ t' = [t EXCEPT !.frame = frame, !.declick = "locate", !.target = frame,
                          !.roll = roll]
        \/ t' = Located(RealtimeStop(t), frame, roll)
        \/ t' = Located(t, frame, roll)
    BY <1>5 DEF Locate
  <2> QED
    BY <2>1, <2>2, <2>3, <2>4, Stopped, LocatedIs, Zenon
<1> QED
  BY <1>1, <1>2, <1>3, <1>4, <1>5 DEF User

-----------------------------------------------------------------------------
(* The invariant: what is read next follows what is in the ring, and the   *)
(* cells the butler saw free are still where the next data go.             *)
Typed ==
    /\ d \in Streams /\ t \in Moments
    /\ pr \in P!Positions /\ pw \in P!Positions /\ slipped \in BOOLEAN
Follows == ~slipped => d.file_frame = d.playback_sample + P!ReadSpace(pr, pw)
FirstFree ==
    bpc = "read" =>
        /\ toRead \in Nat
        /\ vector[1].at = pw /\ vector[1].len \in Nat
        /\ vector[2].at = 0 /\ vector[2].len \in Nat
        /\ pw + vector[1].len <= PlaybackSize
        /\ vector[2].len > 0 => pw + vector[1].len = PlaybackSize
        /\ ~slipped => vector[1].len + vector[2].len <= P!WriteSpace(pr, pw)
SecondFree ==
    bpc = "readOn" =>
        /\ toRead \in Nat /\ vector[2].at = 0 /\ vector[2].len \in Nat
        /\ Least(toRead, vector[2].len) > 0 => pw = 0
        /\ ~slipped => Least(toRead, vector[2].len) <= P!WriteSpace(pr, pw)
Inv == Typed /\ Follows /\ ReadAhead /\ FirstFree /\ SecondFree

(* The first seek is done.                                                 *)
LEMMA Initially == Init => Inv
<1> SUFFICES ASSUME Init PROVE Inv
  OBVIOUS
<1>1. 0 \in P!Positions /\ Chunk \in P!Positions /\ P!ReadSpace(0, Chunk) = Chunk
  BY SizesAssumption DEF P!Positions, P!ReadSpace
<1>2. <<>> \in Infos
  BY DEF Infos
<1>3. d \in Streams
  BY <1>1, <1>2, FramesAssumption, SizesAssumption DEF Init, Streams, Transports
<1>4. t \in Moments
  BY FramesAssumption DEF Init, Moments
<1>5. ReadAhead
  <2>1. ASSUME NEW k \in 0 .. Chunk - 1 PROVE pcell[P!Advanced(pr, k)] = k
    <3>1. P!Advanced(0, k) = k /\ k \in P!Positions /\ k < Chunk
      BY SizesAssumption DEF P!Advanced, P!Positions
    <3> QED
      BY <3>1 DEF Init
  <2> QED
    BY <1>1, <2>1 DEF Init, ReadAhead
<1>6. Typed
  BY <1>1, <1>3, <1>4 DEF Init, Typed
<1>7. Follows
  <2>1. d.file_frame = Chunk /\ d.playback_sample = 0 /\ P!ReadSpace(pr, pw) = Chunk
    BY <1>1 DEF Init
  <2> QED
    BY <2>1, SizesAssumption DEF Follows
<1>8. FirstFree /\ SecondFree
  BY DEF Init, FirstFree, SecondFree
<1> QED
  BY <1>5, <1>6, <1>7, <1>8 DEF Inv

(* A step that leaves the playback ring alone.                             *)
LEMMA Elsewhere ==
    ASSUME Inv, Kept(d, d'), t' \in Moments, UNCHANGED <<pr, pw, pcell, slipped>>,
           UNCHANGED <<bpc, vector, toRead>> \/ bpc' \notin {"read", "readOn"}
    PROVE  Inv'
<1>1. Typed' /\ Follows' /\ ReadAhead'
  BY DEF Inv, Typed, Follows, ReadAhead, Kept
<1>2. FirstFree' /\ SecondFree'
  BY DEF Inv, FirstFree, SecondFree
<1> QED
  BY <1>1, <1>2 DEF Inv

(* seek                                                                    *)
LEMMA Seeking ==
    ASSUME Inv, Rewound, bpc' \notin {"read", "readOn"}, UNCHANGED t
    PROVE  Inv'
<1>1. 0 \in P!Positions /\ Chunk \in P!Positions /\ P!ReadSpace(0, Chunk) = Chunk
  BY SizesAssumption DEF P!Positions, P!ReadSpace
<1>2. t.frame \in Int /\ Chunk \in Nat
  BY SizesAssumption DEF Inv, Typed, Moments
<1>3. d' \in Streams /\ d'.playback_sample = t.frame /\ d'.file_frame = t.frame + Chunk
  <2>1. d \in Streams /\ t.frame + Chunk \in Int
    BY <1>2 DEF Inv, Typed
  <2> QED
    BY <1>2, <2>1 DEF Rewound, SeekFrom, Streams
<1>4. pr' = 0 /\ pw' = Chunk /\ slipped' = FALSE
  BY DEF Rewound, SeekFrom, Seek
<1>5. ReadAhead'
  <2>1. ASSUME NEW k \in 0 .. Chunk - 1 PROVE pcell'[P!Advanced(0, k)] = t.frame + k
    <3>1. P!Advanced(0, k) = k /\ k \in P!Positions /\ k < Chunk /\ k \in Nat
      BY SizesAssumption DEF P!Advanced, P!Positions
    <3> QED
      BY <1>2, <3>1 DEF Rewound, SeekFrom, Seek, P!Stored
  <2> QED
    BY <1>1, <1>3, <1>4, <2>1 DEF ReadAhead
<1>6. Typed' /\ Follows'
  BY <1>1, <1>3, <1>4, <1>2 DEF Inv, Typed, Follows
<1> QED
  BY <1>5, <1>6 DEF Inv, FirstFree, SecondFree

(* _do_refill                                                              *)
LEMMA Looking ==
    ASSUME Inv, RefillLook
    PROVE  Inv'
<1> DEFINE seen == P!WriteVector(pr, pw)
<1>1. Typed' /\ Follows' /\ ReadAhead'
  BY DEF RefillLook, playback, capture, history, Inv, Typed, Follows, ReadAhead
<1>2. SecondFree'
  BY DEF RefillLook, Restart, SecondFree
<1>3. CASE P!WriteSpace(pr, pw) < Chunk
  BY <1>1, <1>2, <1>3 DEF RefillLook, Restart, Inv, FirstFree
<1>4. CASE ~(P!WriteSpace(pr, pw) < Chunk)
  <2>1. pr \in P!Positions /\ pw \in P!Positions
    BY DEF Inv, Typed
  <2>2. P!WriteSpace(pr, pw) \in Nat
    BY <2>1, Spaces, SizesAssumption
  <2>3. toRead' \in Nat
    BY <1>4, <2>2, SizesAssumption DEF RefillLook, Least
  <2>4. /\ seen = <<[at |-> pw, len |-> seen[1].len], [at |-> 0, len |-> seen[2].len]>>
        /\ seen[1].len + seen[2].len = P!WriteSpace(pr, pw)
        /\ seen[1].len \in Nat /\ seen[2].len \in Nat
        /\ pw + seen[1].len <= PlaybackSize
        /\ seen[2].len > 0 => pw + seen[1].len = PlaybackSize
    BY <2>1, WhatWasSeen
  <2>5. vector' = IF seen[1].len > Chunk THEN [seen EXCEPT ![2].len = 0] ELSE seen
    BY <1>4 DEF RefillLook
  <2> HIDE DEF seen
  <2>6. vector' \in {seen, <<[at |-> pw, len |-> seen[1].len], [at |-> 0, len |-> 0]>>}
    BY <2>4, <2>5
  <2>7. /\ vector'[1].at = pw /\ vector'[1].len = seen[1].len
        /\ vector'[2].at = 0 /\ (vector'[2].len = 0 \/ vector'[2].len = seen[2].len)
    BY <2>4, <2>6
  <2>8. pr' = pr /\ pw' = pw /\ slipped' = slipped
    BY DEF RefillLook, playback, history
  <2>9. FirstFree'
    BY <2>2, <2>3, <2>4, <2>7, <2>8 DEF FirstFree
  <2> QED
    BY <1>1, <1>2, <2>9 DEF Inv
<1> QED
  BY <1>3, <1>4

(* Either part of what was seen                                            *)
LEMMA ReadingPart ==
    ASSUME Inv, NEW part, NEW n \in Nat, Read(part, n), UNCHANGED <<t, pr, slipped>>,
           vector[part].at \in Int,
           n > 0 => vector[part].at = pw,
           ~slipped => n <= P!WriteSpace(pr, pw) /\ pw + n <= PlaybackSize
    PROVE  Typed' /\ Follows' /\ ReadAhead'
<1>1. d \in Streams /\ pr \in P!Positions /\ pw \in P!Positions
  BY DEF Inv, Typed
<1>2. pw' \in P!Positions
  BY <1>1, Around DEF Read
<1>3. /\ d' \in Streams
      /\ d'.file_frame = d.file_frame + n /\ d'.playback_sample = d.playback_sample
      /\ d.file_frame \in Int /\ d.playback_sample \in Int
  BY <1>1 DEF Read, Streams
<1>4. Typed'
  BY <1>2, <1>3 DEF Inv, Typed
<1>5. CASE slipped
  BY <1>4, <1>5 DEF Follows, ReadAhead
<1>6. CASE ~slipped
  <2>1. n \in 0 .. P!WriteSpace(pr, pw) /\ P!ReadSpace(pr, pw) \in Nat
    BY <1>1, <1>6, Spaces, SizesAssumption
  <2>2. P!ReadSpace(pr, pw') = P!ReadSpace(pr, pw) + n
    BY <1>1, <2>1, Writing DEF Read
  <2>3. d.file_frame = d.playback_sample + P!ReadSpace(pr, pw)
    BY <1>6 DEF Inv, Follows
  <2>4. Follows'
    BY <1>3, <2>1, <2>2, <2>3 DEF Follows
  <2>5. ASSUME NEW k \in 0 .. P!ReadSpace(pr, pw') - 1
        PROVE  pcell'[P!Advanced(pr, k)] = d.playback_sample + k
    <3>1. pcell'[P!Advanced(pr, k)] = IF k < P!ReadSpace(pr, pw) THEN pcell[P!Advanced(pr, k)]
                                      ELSE d.file_frame + k - P!ReadSpace(pr, pw)
      <4>1. pw' = P!Advanced(pw, n)
            /\ pcell' = P!Stored(pcell, vector[part], n, d.file_frame)
        BY DEF Read
      <4>2. k \in 0 .. P!ReadSpace(pr, P!Advanced(pw, n)) - 1
        BY <4>1
      <4>3. P!Stored(pcell, vector[part], n, d.file_frame)[P!Advanced(pr, k)] =
              IF k < P!ReadSpace(pr, pw) THEN pcell[P!Advanced(pr, k)]
                                         ELSE d.file_frame + k - P!ReadSpace(pr, pw)
        BY <1>1, <1>3, <1>6, <2>1, <4>2, Part
      <4> QED
        BY <4>1, <4>3
    <3>2. k < P!ReadSpace(pr, pw) => pcell[P!Advanced(pr, k)] = d.playback_sample + k
      BY <1>6, <2>1, <2>2 DEF Inv, ReadAhead
    <3> QED
      BY <1>3, <2>1, <2>2, <2>3, <3>1, <3>2
  <2>6. ReadAhead'
    BY <1>3, <2>5 DEF ReadAhead
  <2> QED
    BY <1>4, <2>4, <2>6
<1> QED
  BY <1>5, <1>6

(* The first part leaves the second where the writer is, if it is wanted.  *)
LEMMA ReadingFirst ==
    ASSUME Inv, ReadFirst
    PROVE  Inv'
<1> DEFINE n == Least(toRead, vector[1].len)
<1>1. /\ toRead \in Nat
      /\ vector[1].at = pw /\ vector[1].len \in Nat
      /\ vector[2].at = 0 /\ vector[2].len \in Nat
      /\ pw + vector[1].len <= PlaybackSize
      /\ vector[2].len > 0 => pw + vector[1].len = PlaybackSize
      /\ ~slipped => vector[1].len + vector[2].len <= P!WriteSpace(pr, pw)
  BY DEF ReadFirst, ButlerGoto, Inv, FirstFree
<1>2. pr \in P!Positions /\ pw \in P!Positions /\ pw \in Nat /\ PlaybackSize \in Nat
      /\ P!WriteSpace(pr, pw) \in Int
  BY Spaces, SizesAssumption DEF Inv, Typed, P!Positions
<1>3. n \in Nat /\ n <= vector[1].len /\ n <= toRead /\ (n = toRead \/ n = vector[1].len)
  BY <1>1 DEF Least
<1> HIDE DEF n
<1>4. Typed' /\ Follows' /\ ReadAhead'
  <2>1. Read(1, n) /\ UNCHANGED <<t, pr, slipped>>
    BY DEF ReadFirst, history, n
  <2>2. /\ vector[1].at \in Int
        /\ n > 0 => vector[1].at = pw
        /\ ~slipped => n <= P!WriteSpace(pr, pw) /\ pw + n <= PlaybackSize
    BY <1>1, <1>2, <1>3
  <2> QED
    BY <1>3, <2>1, <2>2, ReadingPart
<1>5. /\ bpc' = "readOn" /\ vector' = vector /\ pr' = pr /\ slipped' = slipped
      /\ toRead' = toRead - n /\ pw' = P!Advanced(pw, n)
  BY DEF ReadFirst, ButlerGoto, Read, history, n
<1>6. Least(toRead', vector[2].len) > 0 => pw' = 0
  <2>1. SUFFICES ASSUME Least(toRead', vector[2].len) > 0 PROVE pw' = 0
    OBVIOUS
  <2>2. n < toRead /\ vector[2].len > 0
    BY <1>1, <1>3, <1>5, <2>1 DEF Least
  <2>3. pw + n = PlaybackSize
    BY <1>1, <1>3, <2>2
  <2> QED
    BY <1>2, <1>3, <1>5, <2>3, ToTheEnd
<1>7. ~slipped => Least(toRead', vector[2].len) <= P!WriteSpace(pr, pw')
  <2>1. SUFFICES ASSUME ~slipped
                 PROVE  Least(toRead', vector[2].len) <= P!WriteSpace(pr, pw')
    OBVIOUS
  <2>2. n \in 0 .. P!WriteSpace(pr, pw)
    BY <1>1, <1>2, <1>3, <2>1
  <2>3. P!WriteSpace(pr, pw') = P!WriteSpace(pr, pw) - n
    BY <1>2, <1>5, <2>2, Writing
  <2> QED
    BY <1>1, <1>2, <1>3, <1>5, <2>1, <2>3 DEF Least
<1>8. SecondFree'
  BY <1>1, <1>3, <1>5, <1>6, <1>7 DEF SecondFree
<1>9. FirstFree'
  BY <1>5 DEF FirstFree
<1> QED
  BY <1>4, <1>8, <1>9 DEF Inv

(* The second part begins at cell 0.                                       *)
LEMMA ReadingSecond ==
    ASSUME Inv, ReadSecond
    PROVE  Inv'
<1> DEFINE n == Least(toRead, vector[2].len)
<1>1. /\ toRead \in Nat /\ vector[2].at = 0 /\ vector[2].len \in Nat
      /\ n > 0 => pw = 0
      /\ ~slipped => n <= P!WriteSpace(pr, pw)
  BY DEF ReadSecond, ButlerGoto, Inv, SecondFree
<1>2. pw \in Nat /\ pw < PlaybackSize /\ PlaybackSize \in Nat
  BY SizesAssumption DEF Inv, Typed, P!Positions
<1>3. n \in Nat
  BY <1>1 DEF Least
<1>4. pr \in P!Positions /\ pw \in P!Positions
  BY DEF Inv, Typed
<1> HIDE DEF n
<1>5. Typed' /\ Follows' /\ ReadAhead'
  <2>1. Read(2, n) /\ UNCHANGED <<t, pr, slipped>>
    BY DEF ReadSecond, history, n
  <2>2. P!WriteSpace(pr, pw) <= PlaybackSize
    BY <1>2, <1>4, Spaces
  <2>3. ~slipped => n <= P!WriteSpace(pr, pw) /\ pw + n <= PlaybackSize
    BY <1>1, <1>2, <1>3, <1>4, <2>2, Spaces
  <2> QED
    BY <1>1, <1>3, <2>1, <2>3, ReadingPart
<1>6. FirstFree' /\ SecondFree'
  BY DEF ReadSecond, ButlerGoto, Restart, FirstFree, SecondFree
<1> QED
  BY <1>5, <1>6 DEF Inv

(* overwrite_existing_buffers                                              *)
LEMMA Overwriting ==
    ASSUME Inv, OverwriteExistingBuffers
    PROVE  Inv'
<1>1. UNCHANGED <<t, pr, pw>> /\ bpc' \in {"idle", "refill"}
  BY DEF OverwriteExistingBuffers, ButlerGoto, Restart
<1>2. FirstFree' /\ SecondFree'
  BY <1>1 DEF FirstFree, SecondFree
<1>3. CASE UNCHANGED <<pcell, slipped, d>>
  BY <1>1, <1>2, <1>3 DEF Inv, Typed, Follows, ReadAhead
<1>4. CASE d.overwrite /\ "OverWrite" \in ptw
  <2>1. d \in Streams /\ 0 \in P!Positions /\ 0 \in Int /\ FALSE \in BOOLEAN
    BY SizesAssumption DEF Inv, Typed, P!Positions
  <2>2. d' = [d EXCEPT !.overwrite = FALSE, !.owFrame = 0, !.owOffset = 0]
    BY <1>4 DEF OverwriteExistingBuffers
  <2>3. /\ d' \in Streams /\ d'.playback_sample = d.playback_sample
        /\ d'.file_frame = d.file_frame
    <3>1. At(d', d.playback_sample, d.file_frame)
      BY <2>1, <2>2, DoneKeeps, Zenon
    <3> QED
      BY <3>1 DEF At
  <2>4. slipped' = (slipped \/ ~InPlace)
    BY <1>4 DEF OverwriteExistingBuffers
  <2>5. Typed' /\ Follows'
    BY <1>1, <2>3, <2>4 DEF Inv, Typed, Follows
  <2>6. ASSUME ~slipped', NEW k \in 0 .. P!ReadSpace(pr, pw) - 1
        PROVE  pcell'[P!Advanced(pr, k)] = d.playback_sample + k
    <3>1. /\ pr \in P!Positions /\ pw \in P!Positions /\ pr \in Nat /\ pw \in Nat
          /\ pw < PlaybackSize /\ PlaybackSize \in Nat
      BY SizesAssumption DEF Inv, Typed, P!Positions
    <3>2. /\ d.owOffset \in Nat /\ d.owFrame \in Int /\ d.playback_sample \in Int
          /\ d.owOffset <= pr /\ pr <= pw
          /\ d.owFrame + pr - d.owOffset = d.playback_sample
      <4>1. InPlace
        BY <2>4, <2>6, Zenon
      <4> QED
        BY <2>1, <4>1, SizesAssumption DEF Streams, InPlace, P!Positions
    <3>3. k \in Nat /\ pr + k < pw
      <4>1. CASE pr = pw
        <5>1. P!ReadSpace(pr, pw) = 0
          BY <3>1, <4>1, Cells, SizesAssumption DEF P!ReadSpace
        <5> QED
          BY <5>1
      <4>2. CASE pr < pw
        BY <3>1, <4>2 DEF P!ReadSpace
      <4> QED
        BY <3>1, <3>2, <4>1, <4>2
    <3>4. P!Advanced(pr, k) = pr + k /\ pr + k \in P!Positions
      BY <3>1, <3>3 DEF P!Advanced, P!Positions
    <3>5. pcell'[pr + k] = d.owFrame + (pr + k) - d.owOffset
      BY <1>4, <3>1, <3>2, <3>3, <3>4 DEF OverwriteExistingBuffers
    <3> QED
      BY <3>1, <3>2, <3>3, <3>4, <3>5
  <2>7. ReadAhead'
    BY <1>1, <2>3, <2>6 DEF ReadAhead
  <2> QED
    BY <1>2, <2>5, <2>7 DEF Inv
<1> QED
  BY <1>3, <1>4 DEF OverwriteExistingBuffers

(* process and commit                                                      *)
LEMMA Playing ==
    ASSUME Inv, NEW n \in 1 .. Block, Play(n)
    PROVE  Inv'
<1> DEFINE count == Recorded(n).count
           e == Prepared(n)
           space == P!ReadSpace(pr, pw)
<1>1. d \in Streams /\ t \in Moments /\ n \in Nat
  BY SizesAssumption DEF Inv, Typed
<1>2. pr \in P!Positions /\ pw \in P!Positions /\ space \in 0 .. PlaybackSize - 1
  BY Spaces DEF Inv, Typed
<1>3. e \in Streams /\ e.playback_sample = d.playback_sample /\ e.file_frame = d.file_frame
  BY <1>1, PreparedKeeps DEF Kept
<1>4. count \in Int
  BY <1>1, CountIsInt
<1>5. d' = [e EXCEPT !.playback_sample = @ + n, !.captured = @ + count]
  BY DEF Play
<1> HIDE DEF count, e
<1>6. /\ d' \in Streams
      /\ d'.playback_sample = d.playback_sample + n /\ d'.file_frame = d.file_frame
  <2>1. e.playback_sample + n \in Int /\ e.captured + count \in Int
    BY <1>1, <1>3, <1>4 DEF Streams
  <2>2. d' = [e EXCEPT !.playback_sample = e.playback_sample + n,
                       !.captured = e.captured + count]
    BY <1>5
  <2>3. At(d', e.playback_sample + n, e.file_frame)
    BY <1>3, <2>1, <2>2, PlayMoves, Zenon
  <2> QED
    BY <1>3, <2>3 DEF At
<1>7. /\ pr' = P!Advanced(pr, n) /\ pw' = pw /\ pcell' = pcell
      /\ slipped' = (slipped \/ n > space)
      /\ bpc' = bpc /\ vector' = vector /\ toRead' = toRead
  BY DEF Play, Cycle, butler
<1>8. t' \in Moments
  BY <1>1, Moved DEF Play, Cycle
<1>9. Typed'
  BY <1>1, <1>2, <1>6, <1>7, <1>8, Around DEF Inv, Typed
<1>10. CASE slipped'
  BY <1>7, <1>9, <1>10 DEF Inv, Follows, ReadAhead, FirstFree, SecondFree
<1>11. CASE ~slipped'
  <2>0. ~slipped /\ ~(n > space)
    BY <1>7, <1>11, Zenon
  <2>1. ~slipped /\ n \in 0 .. space
    BY <1>1, <1>2, <2>0
  <2>2. /\ P!ReadSpace(pr', pw) = space - n
        /\ P!WriteSpace(pr', pw) = P!WriteSpace(pr, pw) + n
    BY <1>2, <1>7, <2>1, Reading
  <2>3. d.file_frame = d.playback_sample + space
    BY <2>1 DEF Inv, Follows
  <2>4. d.playback_sample \in Int /\ d.file_frame \in Int
    BY <1>1 DEF Streams
  <2>5. Follows'
    BY <1>1, <1>2, <1>6, <1>7, <2>2, <2>3, <2>4 DEF Follows
  <2>6. ReadAhead'
    <3>1. ASSUME NEW k \in 0 .. space - n - 1
          PROVE  pcell[P!Advanced(pr', k)] = d.playback_sample + n + k
      <4>1. n \in 0 .. PlaybackSize /\ k \in 0 .. PlaybackSize - n /\ n + k \in 0 .. space - 1
        BY <1>1, <1>2, <2>1, SizesAssumption
      <4>2. P!Advanced(pr', k) = P!Advanced(pr, n + k)
        BY <1>2, <1>7, <4>1, TwoSteps
      <4>3. pcell[P!Advanced(pr, n + k)] = d.playback_sample + (n + k)
        BY <2>1, <4>1 DEF Inv, ReadAhead
      <4> QED
        BY <1>1, <2>4, <4>2, <4>3
    <3> QED
      BY <1>6, <1>7, <2>2, <3>1 DEF ReadAhead
  <2>7. P!WriteSpace(pr, pw) \in Int
    BY <1>2, Spaces, SizesAssumption
  <2>8. FirstFree'
    BY <1>1, <1>7, <2>1, <2>2, <2>7 DEF Inv, FirstFree
  <2>9. SecondFree'
    BY <1>1, <1>7, <2>1, <2>2, <2>7 DEF Inv, SecondFree, Least
  <2> QED
    BY <1>9, <2>5, <2>6, <2>8, <2>9 DEF Inv
<1> QED
  BY <1>10, <1>11

(* Every step keeps the invariant.                                         *)
LEMMA NextKeeps ==
    ASSUME Inv, [Next]_vars
    PROVE  Inv'
<1>1. d \in Streams /\ t \in Moments /\ Kept(d, d)
  BY DEF Inv, Typed, Kept
<1>2. ASSUME NEW n \in 1 .. Block, Overrun(n) \/ Underrun(n) PROVE Inv'
  <2>1. Kept(d, d') /\ t' \in Moments
    BY <1>1, <1>2, PreparedKeeps, Moved, SizesAssumption DEF Overrun, Underrun, Cycle
  <2> QED
    BY <1>2, <2>1, Elsewhere DEF Overrun, Underrun, Cycle, playback, butler
<1>3. ASSUME NEW n \in 1 .. Block, Play(n) PROVE Inv'
  BY <1>3, Playing
<1>4. CASE NoRoll
  BY <1>1, <1>4, CheckKeeps, Elsewhere DEF NoRoll, playback, butler, history
<1>5. CASE CheckDeclickOut \/ StopOnce
  <2>1. t' \in Moments
    BY <1>1, <1>5, Declicked, StoppedOnce
  <2>2. Kept(d, d')
    BY <1>1, <1>5, EndKeeps DEF CheckDeclickOut, StopOnce
  <2> QED
    BY <1>1, <1>5, <2>1, <2>2, Elsewhere DEF CheckDeclickOut, StopOnce, playback, butler
<1>6. CASE PostTransport
  <2>1. t' \in Moments
    BY <1>1, <1>6 DEF PostTransport, Moments
  <2> QED
    BY <1>1, <1>6, <2>1, Elsewhere DEF PostTransport, playback, butler, history
<1>7. CASE User
  <2>1. t' \in Moments
    BY <1>1, <1>7, Commanded
  <2>2. Kept(d, d')
    <3>1. CASE Stop
      BY <1>1, <3>1, EndKeeps DEF Stop
    <3>2. CASE Overwrite
      <4>1. ASSUME NEW b \in BOOLEAN, NEW n \in Int, NEW p \in P!Positions
            PROVE  Kept(d, [d EXCEPT !.overwrite = b, !.owFrame = n, !.owOffset = p])
        BY <1>1 DEF Kept, Streams
      <4>2. TRUE \in BOOLEAN /\ d.playback_sample \in Int /\ pr \in P!Positions
        BY <1>1 DEF Inv, Typed, Streams
      <4>3. d' = [d EXCEPT !.overwrite = TRUE, !.owFrame = d.playback_sample, !.owOffset = pr]
        BY <3>2 DEF Overwrite
      <4> QED
        BY <4>1, <4>2, <4>3, Zenon
    <3> QED
      BY <1>1, <1>7, <3>1, <3>2 DEF User, Start, Punch, Locate
  <2> QED
    BY <1>7, <2>1, <2>2, Elsewhere
       DEF User, Start, Stop, Punch, Locate, Overwrite, Command, playback, butler
<1>8. CASE BeginPass
  <2>1. t' \in Moments
    BY <1>1, <1>8 DEF BeginPass, Moments
  <2>2. bpc' \notin {"read", "readOn"}
    BY <1>8 DEF BeginPass, NextWork
  <2> QED
    BY <1>1, <1>8, <2>1, <2>2, Elsewhere DEF BeginPass, playback, history
<1>9. CASE NonRealtimeLocate \/ SeekAfterStop
  BY <1>9, Seeking DEF NonRealtimeLocate, SeekAfterStop, ButlerGoto, Restart
<1>10. CASE TransportStoppedWallclock
  <2>1. Kept(d, FinishCapture(d))
    BY <1>1, FinishKeeps
  <2> DEFINE e == FinishCapture(d)
  <2> HIDE DEF e
  <2>2. d' = e \/ d' = [e EXCEPT !.infos = <<>>]
    BY <1>10 DEF TransportStoppedWallclock, e
  <2>3. e \in Streams /\ <<>> \in Infos
    BY <2>1 DEF Kept, Infos, e
  <2>4. Kept(e, [e EXCEPT !.infos = <<>>])
    BY <2>3, ForgetKeeps, Zenon
  <2>5. Kept(d, d')
    BY <2>1, <2>2, <2>4 DEF Kept, e
  <2> QED
    BY <1>1, <1>10, <2>5, Elsewhere
       DEF TransportStoppedWallclock, ButlerGoto, playback, history
<1>11. CASE OverwriteExistingBuffers
  BY <1>11, Overwriting
<1>12. CASE RefillLook \/ ReadFirst \/ ReadSecond
  BY <1>12, Looking, ReadingFirst, ReadingSecond
<1>13. CASE DoFlush
  BY <1>1, <1>13, Elsewhere DEF DoFlush, ButlerGoto, playback, history
<1>14. CASE UNCHANGED vars
  BY <1>1, <1>14, Elsewhere DEF vars
<1> QED
  BY <1>2, <1>3, <1>4, <1>5, <1>6, <1>7, <1>8, <1>9, <1>10, <1>11, <1>12, <1>13, <1>14
     DEF Next, Cycles, Butler

(* What the process thread finds in the playback ring is the playlist from *)
(* playback_sample on, whatever the sizes (AudioDiskstream::process,       *)
(* _do_refill, seek, overwrite_existing_buffers).                          *)
THEOREM ReadAheadHolds == Spec => []ReadAhead
<1>1. Inv => ReadAhead
  BY DEF Inv
<1> QED
  BY <1>1, Initially, NextKeeps, PTL DEF Spec

-----------------------------------------------------------------------------
(* The numbers of a stream and of the transport, and what check_record_-   *)
(* status, finish_capture and a cycle do to each of them.                  *)
Numbers(e) ==
    /\ e.playback_sample \in Nat /\ e.file_frame \in Nat /\ e.owFrame \in Nat
    /\ e.first \in 0 .. MaxFrames /\ e.last \in Nat /\ e.start \in Nat /\ e.captured \in Nat
    /\ \A i \in DOMAIN e.infos : e.infos[i].frames > 0
Within(s) ==
    /\ s.frame \in 0 .. LastFrame /\ s.target \in {0} \cup Targets
    /\ s.stopOnce \in 0 .. MaxFrames
    /\ s.rec \/ s.pendingCapture \/ s.stopOnce # MaxFrames => s.rolling
    /\ s.pendingCapture => OutputLatency > Block

(* What process sees of the session, the end of a take as it corrects it,  *)
(* and the two halves of a stream: where it plays, and what it records.    *)
Now == [rolling |-> t.rolling, rec |-> t.rec]

SameData(e, f) ==
    /\ f.playback_sample = e.playback_sample /\ f.file_frame = e.file_frame
    /\ f.owFrame = e.owFrame /\ f.owOffset = e.owOffset /\ f.overwrite = e.overwrite
SameTake(e, f) ==
    /\ f.first = e.first /\ f.last = e.last /\ f.start = e.start
    /\ f.captured = e.captured /\ f.recording = e.recording /\ f.was = e.was
    /\ f.infos = e.infos

(* What lies between the input and the timeline is less than MaxFrames.    *)
LEMMA AlignmentIs ==
    /\ Alignment \in Nat /\ CaptureOffset <= Alignment /\ LastFrame \in Nat /\ MaxFrames \in Nat
    /\ LastFrame + Alignment < MaxFrames /\ Block \in Nat /\ CaptureOffset \in Nat
BY SizesAssumption, LatencyAssumption, FramesAssumption DEF Alignment, Greatest

(* check_record_status looks at what changed since it was last called.     *)
LEMMA CheckIs ==
    ASSUME NEW e \in Streams, NEW s \in Moments
    PROVE  LET f == CheckRecordStatus(e, s)
               changed == e.was # [rolling |-> s.rolling, rec |-> s.rec]
           IN  /\ f \in Streams /\ SameData(e, f)
               /\ f.captured = e.captured /\ f.recording = e.recording /\ f.infos = e.infos
               /\ f.was = [rolling |-> s.rolling, rec |-> s.rec]
               /\ CASE changed /\ FullyRecEnabled(s) ->
                         f.first = s.frame + Alignment /\ f.last = MaxFrames
                         /\ f.start = s.frame
                    [] changed /\ ~FullyRecEnabled(s) /\ FullyRecEnabled(e.was) /\ s.rolling ->
                         f.first = e.first /\ f.last = s.frame + Alignment
                         /\ f.start = e.start
                    [] OTHER -> f.first = e.first /\ f.last = e.last /\ f.start = e.start
<1> DEFINE now == [rolling |-> s.rolling, rec |-> s.rec]
           w == [e EXCEPT !.was = now]
           end == s.frame + Alignment
           g == [w EXCEPT !.first = end, !.last = MaxFrames, !.start = s.frame]
           h == [w EXCEPT !.last = end]
           f == CheckRecordStatus(e, s)
<1>1. end \in Int /\ MaxFrames \in Int /\ s.frame \in Int /\ s.rolling \in BOOLEAN
      /\ s.rec \in BOOLEAN
  BY AlignmentIs DEF Moments
<1>2. now \in Transports
  BY DEF Moments, Transports
<1>3. f = IF now = e.was THEN e
          ELSE IF FullyRecEnabled(s) THEN g
          ELSE IF FullyRecEnabled(e.was) /\ s.rolling THEN h ELSE w
  <2>1. CASE now = e.was
    BY <2>1 DEF CheckRecordStatus
  <2>2. CASE now # e.was /\ FullyRecEnabled(s)
    BY <2>2 DEF CheckRecordStatus
  <2>3. CASE now # e.was /\ ~FullyRecEnabled(s) /\ FullyRecEnabled(e.was) /\ s.rolling
    BY <2>3 DEF CheckRecordStatus
  <2>4. CASE now # e.was /\ ~FullyRecEnabled(s) /\ ~(FullyRecEnabled(e.was) /\ s.rolling)
    BY <2>4 DEF CheckRecordStatus
  <2> QED BY <2>1, <2>2, <2>3, <2>4
<1>4. CheckRecordStatus(e, s) \in Streams
  BY CheckKeeps DEF Kept
<1> HIDE DEF now, end
<1>5. SameData(e, w) /\ w.captured = e.captured /\ w.recording = e.recording
      /\ w.infos = e.infos /\ w.was = now /\ w.first = e.first /\ w.last = e.last
      /\ w.start = e.start
  BY <1>2 DEF Streams, SameData
<1>6. SameData(e, g) /\ g.captured = e.captured /\ g.recording = e.recording
      /\ g.infos = e.infos /\ g.was = now /\ g.first = end /\ g.last = MaxFrames
      /\ g.start = s.frame
  BY <1>2 DEF Streams, SameData
<1>7. SameData(e, h) /\ h.captured = e.captured /\ h.recording = e.recording
      /\ h.infos = e.infos /\ h.was = now /\ h.first = e.first /\ h.last = end
      /\ h.start = e.start
  BY <1>2 DEF Streams, SameData
<1>8. SameData(e, e)
  BY DEF SameData
<1> HIDE DEF f, g, h, w
<1>9. /\ f \in Streams /\ SameData(e, f)
      /\ f.captured = e.captured /\ f.recording = e.recording /\ f.infos = e.infos
      /\ f.was = now
      /\ CASE e.was # now /\ FullyRecEnabled(s) ->
                f.first = end /\ f.last = MaxFrames /\ f.start = s.frame
           [] e.was # now /\ ~FullyRecEnabled(s) /\ FullyRecEnabled(e.was) /\ s.rolling ->
                f.first = e.first /\ f.last = end /\ f.start = e.start
           [] OTHER -> f.first = e.first /\ f.last = e.last /\ f.start = e.start
  BY <1>3, <1>4, <1>5, <1>6, <1>7, <1>8 DEF f
<1> QED BY <1>9 DEF f, end, now

(* The beginning of process                                                *)
LEMMA CheckedIs ==
    ASSUME d \in Streams, t \in Moments, Numbers(d), Within(t)
    PROVE  /\ Checked \in Streams /\ SameData(d, Checked)
           /\ Checked.captured = d.captured /\ Checked.recording = d.recording
           /\ Checked.infos = d.infos /\ Checked.was = Now
           /\ Checked.first <= Checked.last
           /\ CASE d.was # Now /\ FullyRecEnabled(t) ->
                     Checked.first = t.frame + Alignment /\ Checked.last = MaxFrames
                     /\ Checked.start = t.frame
                [] d.was # Now /\ ~FullyRecEnabled(t) /\ FullyRecEnabled(d.was) /\ t.rolling ->
                     /\ Checked.first = d.first /\ Checked.start = d.start
                     /\ Checked.last = IF t.frame + Alignment < d.first THEN MaxFrames
                                       ELSE t.frame + Alignment
                [] OTHER -> Checked.first = d.first /\ Checked.last = Last(d)
                            /\ Checked.start = d.start
<1> DEFINE e == CheckRecordStatus(d, t)
           f == [e EXCEPT !.last = Last(e)]
<1>1. /\ e \in Streams /\ SameData(d, e)
      /\ e.captured = d.captured /\ e.recording = d.recording /\ e.infos = d.infos
      /\ e.was = Now
      /\ CASE d.was # Now /\ FullyRecEnabled(t) ->
                e.first = t.frame + Alignment /\ e.last = MaxFrames /\ e.start = t.frame
           [] d.was # Now /\ ~FullyRecEnabled(t) /\ FullyRecEnabled(d.was) /\ t.rolling ->
                e.first = d.first /\ e.last = t.frame + Alignment /\ e.start = d.start
           [] OTHER -> e.first = d.first /\ e.last = d.last /\ e.start = d.start
  BY CheckIs DEF Now
<1>2. Checked = f
  BY DEF Checked
<1> HIDE DEF e
<1>3. t.frame \in 0 .. LastFrame /\ d.first \in 0 .. MaxFrames /\ d.last \in Nat
  BY DEF Within, Numbers
<1>4. e.first \in Int /\ e.last \in Int /\ Last(e) \in Int
  BY <1>1, AlignmentIs DEF Streams, Last
<1>5. /\ f \in Streams /\ SameData(e, f) /\ f.first = e.first /\ f.start = e.start
      /\ f.last = Last(e)
      /\ f.captured = e.captured /\ f.recording = e.recording /\ f.infos = e.infos
      /\ f.was = e.was
  BY <1>1, <1>4 DEF Streams, SameData
<1> HIDE DEF f
<1>6. e.first <= MaxFrames
  BY <1>1, <1>3, AlignmentIs
<1>7. SameData(d, f)
  BY <1>1, <1>5 DEF SameData
<1>8. f.last = (IF e.last < e.first THEN MaxFrames ELSE e.last)
  BY <1>5 DEF Last
<1> QED BY <1>1, <1>2, <1>3, <1>4, <1>5, <1>6, <1>7, <1>8, AlignmentIs DEF Last

(* finish_capture                                                          *)
LEMMA FinishIs ==
    ASSUME NEW e \in Streams
    PROVE  LET f == FinishCapture(e)
           IN  /\ f \in Streams /\ SameData(e, f)
               /\ f.first = MaxFrames /\ f.last = MaxFrames /\ f.start = e.start
               /\ f.was = e.was /\ f.recording = FALSE /\ f.captured = 0
               /\ f.infos = Captures(e)
<1> DEFINE f == [e EXCEPT !.recording = FALSE, !.first = MaxFrames, !.last = MaxFrames]
           infos == Append(e.infos, [start |-> e.start, frames |-> e.captured])
           g == [f EXCEPT !.infos = infos, !.captured = 0]
<1>1. /\ SameData(e, f) /\ f.first = MaxFrames /\ f.last = MaxFrames /\ f.start = e.start
      /\ f.was = e.was /\ f.recording = FALSE /\ f.captured = e.captured
      /\ f.infos = e.infos
  BY DEF Streams, SameData
<1>2. FinishCapture(e) = IF e.captured = 0 THEN f ELSE g
  <2>1. Append(f.infos, [start |-> e.start, frames |-> e.captured]) = infos
    BY <1>1
  <2> HIDE DEF infos
  <2> QED BY <2>1 DEF FinishCapture
<1>3. FinishCapture(e) \in Streams
  BY FinishKeeps DEF Kept
<1>4. Captures(e) = IF e.captured = 0 THEN e.infos ELSE infos
  BY DEF Captures
<1> HIDE DEF infos
<1>5. /\ SameData(e, g) /\ g.first = MaxFrames /\ g.last = MaxFrames /\ g.start = e.start
      /\ g.was = e.was /\ g.recording = FALSE /\ g.captured = 0 /\ g.infos = infos
  BY DEF Streams, SameData
<1> HIDE DEF f, g
<1>6. CASE e.captured = 0
  BY <1>1, <1>2, <1>3, <1>4, <1>6
<1>7. CASE e.captured # 0
  BY <1>2, <1>3, <1>4, <1>5, <1>7
<1> QED BY <1>6, <1>7

(* What is known when the buffers are copied                               *)
LEMMA PreparedIs ==
    ASSUME d \in Streams, t \in Moments, Numbers(d), Within(t), NEW n
    PROVE  LET e == Checked
               f == Prepared(n)
               count == Recorded(n).count
           IN  /\ f \in Streams /\ SameData(d, f)
               /\ CASE count > 0 /\ ~e.recording ->
                         /\ f.first = e.first /\ f.last = e.last /\ f.start = e.start
                         /\ f.was = e.was /\ f.infos = e.infos
                         /\ f.captured = 0 /\ f.recording = TRUE
                    [] count = 0 /\ e.recording ->
                         /\ f.first = MaxFrames /\ f.last = MaxFrames /\ f.start = e.start
                         /\ f.was = e.was /\ f.infos = Captures(e)
                         /\ f.captured = 0 /\ f.recording = FALSE
                    [] OTHER -> SameTake(e, f)
<1> DEFINE e == Checked
           count == Recorded(n).count
           g == [e EXCEPT !.captured = 0, !.recording = TRUE]
           f == Prepared(n)
<1>1. e \in Streams /\ SameData(d, e)
  BY CheckedIs
<1>2. f = IF count > 0 /\ ~e.recording THEN g
          ELSE IF count = 0 /\ e.recording THEN FinishCapture(e) ELSE e
  <2>1. CASE count > 0 /\ ~e.recording
    BY <2>1 DEF Prepared
  <2>2. CASE count = 0 /\ e.recording
    BY <2>2 DEF Prepared
  <2>3. CASE ~(count > 0 /\ ~e.recording) /\ ~(count = 0 /\ e.recording)
    BY <2>3 DEF Prepared
  <2> QED BY <2>1, <2>2, <2>3
<1> HIDE DEF e, count
<1>3. f \in Streams
  BY PreparedKeeps DEF Kept
<1>4. /\ SameData(e, g) /\ g.first = e.first /\ g.last = e.last /\ g.start = e.start
      /\ g.was = e.was /\ g.infos = e.infos /\ g.captured = 0 /\ g.recording = TRUE
  BY <1>1 DEF Streams, SameData
<1> HIDE DEF f, g
<1>5. CASE count > 0 /\ ~e.recording
  <2>1. SameData(d, g)
    BY <1>1, <1>4 DEF SameData
  <2> QED BY <1>2, <1>3, <1>4, <1>5, <2>1 DEF f, e, count
<1>6. CASE count = 0 /\ e.recording
  <2> DEFINE c == FinishCapture(e)
  <2>1. /\ SameData(e, c) /\ c.first = MaxFrames /\ c.last = MaxFrames /\ c.start = e.start
        /\ c.was = e.was /\ c.infos = Captures(e) /\ c.captured = 0 /\ c.recording = FALSE
    BY <1>1, FinishIs
  <2>2. f = c
    BY <1>2, <1>6
  <2> HIDE DEF c
  <2>3. SameData(d, c)
    BY <1>1, <2>1 DEF SameData
  <2> QED BY <1>3, <1>6, <2>1, <2>2, <2>3 DEF f, e, count
<1>7. CASE ~(count > 0 /\ ~e.recording) /\ ~(count = 0 /\ e.recording)
  <2>1. f = e
    BY <1>2, <1>7
  <2> QED BY <1>1, <1>3, <1>7, <2>1 DEF f, e, count, SameTake
<1> QED BY <1>5, <1>6, <1>7

(* calculate_record_range: what of the cycle lies in the take.             *)
Clamp(e, f) == IF f < e.first THEN e.first ELSE IF f > e.last THEN e.last ELSE f

(* calculate_record_range gives what lies between the two ends.            *)
LEMMA RangeIs ==
    ASSUME NEW e \in Streams, e.first <= e.last, NEW frame \in Int, NEW n \in Nat
    PROVE  LET range == RecordRange(e, frame, n)
           IN  /\ range.count \in Nat /\ range.offset \in Nat
               /\ range.count = Clamp(e, frame + n) - Clamp(e, frame)
               /\ range.count > 0 => frame + range.offset = Clamp(e, frame)
<1>1. e.first \in Int /\ e.last \in Int
  BY DEF Streams
<1> QED BY <1>1 DEF RecordRange, Clamp

-----------------------------------------------------------------------------
(* What the handlers do to each field of the transport.                    *)
LEMMA ScheduledFields ==
    ASSUME NEW s \in Moments, NEW bits \in Bits
    PROVE  LET u == ScheduleWork(s, bits)
           IN  /\ u \in Moments /\ u.work = s.work \cup bits /\ u.requested = TRUE
               /\ u.frame = s.frame /\ u.rolling = s.rolling /\ u.rec = s.rec
               /\ u.declick = s.declick /\ u.declicked = s.declicked /\ u.target = s.target
               /\ u.pendingCapture = s.pendingCapture /\ u.stopOnce = s.stopOnce
<1>1. ScheduleWork(s, bits) = [s EXCEPT !.work = s.work \cup bits, !.requested = TRUE]
  BY DEF ScheduleWork
<1>2. ScheduleWork(s, bits) \in Moments
  BY Scheduled
<1> QED BY <1>1, <1>2 DEF Moments

(* A stop while recording goes back, and not before the beginning.         *)
LEMMA BackIs ==
    ASSUME NEW f \in 0 .. LastFrame
    PROVE  Back(f, Greatest(OutputLatency, Block)) \in 0 .. f
BY SizesAssumption, LatencyAssumption, FramesAssumption DEF Back, Greatest

(* No declick is pending any more.                                         *)
LEMMA ClearedFields ==
    ASSUME NEW s \in Moments
    PROVE  LET u == NoDeclick(s)
           IN  /\ u \in Moments /\ u.declick = "none" /\ u.declicked = FALSE /\ u.target = 0
               /\ u.frame = s.frame /\ u.rolling = s.rolling /\ u.rec = s.rec
               /\ u.work = s.work /\ u.requested = s.requested
               /\ u.pendingCapture = s.pendingCapture /\ u.stopOnce = s.stopOnce
<1>1. NoDeclick(s) \in Moments
  BY ClearedIs
<1> QED BY <1>1 DEF NoDeclick, Moments

(* realtime_stop                                                           *)
Halted(s, u) ==
    /\ u \in Moments /\ u.work = s.work \cup {"Stop"} /\ u.requested = TRUE
    /\ u.frame \in 0 .. s.frame /\ u.rolling = FALSE /\ u.rec = FALSE
    /\ u.declick = "none" /\ u.declicked = FALSE /\ u.target = 0
    /\ u.pendingCapture = FALSE /\ u.stopOnce = MaxFrames

LEMMA StoppedFields ==
    ASSUME NEW s \in Moments, s.frame \in 0 .. LastFrame
    PROVE  Halted(s, RealtimeStop(s))
<1> DEFINE c == NoDeclick(s)
           v == ScheduleWork(c, {"Stop"})
           frame == IF s.rec THEN Back(v.frame, Greatest(OutputLatency, Block)) ELSE v.frame
           u == [v EXCEPT !.frame = frame, !.rolling = FALSE, !.rec = FALSE,
                          !.pendingCapture = FALSE, !.stopOnce = MaxFrames]
<1>1. {"Stop"} \in Bits
  BY DEF Bits
<1>2. /\ c \in Moments /\ c.declick = "none" /\ c.declicked = FALSE /\ c.target = 0
      /\ c.frame = s.frame /\ c.work = s.work
  BY ClearedFields
<1> HIDE DEF c
<1>3. /\ v \in Moments /\ v.work = c.work \cup {"Stop"} /\ v.requested = TRUE
      /\ v.frame = c.frame /\ v.declick = c.declick /\ v.declicked = c.declicked
      /\ v.target = c.target
  BY <1>1, <1>2, ScheduledFields
<1>4. RealtimeStop(s) = u
  BY DEF RealtimeStop, c
<1>5. RealtimeStop(s) \in Moments
  BY Stopped
<1> HIDE DEF v
<1>6. frame \in 0 .. s.frame
  BY <1>2, <1>3, BackIs
<1> HIDE DEF frame
<1>7. /\ u.work = v.work /\ u.requested = v.requested
      /\ u.frame = frame /\ u.rolling = FALSE /\ u.rec = FALSE
      /\ u.declick = v.declick /\ u.declicked = v.declicked /\ u.target = v.target
      /\ u.pendingCapture = FALSE /\ u.stopOnce = MaxFrames
  BY <1>3 DEF Moments
<1> HIDE DEF u
<1> QED BY <1>2, <1>3, <1>4, <1>5, <1>6, <1>7 DEF Halted

LocatedAt(s, frame, u) ==
    /\ u \in Moments /\ s.work \subseteq u.work /\ u.requested = TRUE
    /\ ("Stop" \in u.work <=> "Stop" \in s.work)
    /\ u.frame = frame /\ u.rolling = s.rolling /\ u.rec = s.rec
    /\ u.declick = s.declick /\ u.declicked = s.declicked /\ u.target = s.target
    /\ u.pendingCapture = s.pendingCapture /\ u.stopOnce = s.stopOnce

(* start_locate, without a declick                                         *)
LEMMA LocatedFields ==
    ASSUME NEW s \in Moments, NEW frame \in Int, NEW roll \in BOOLEAN
    PROVE  LocatedAt(s, frame, Located(s, frame, roll))
<1> DEFINE v == [s EXCEPT !.frame = frame]
           bits == {"Locate"} \cup (IF roll THEN {"Roll"} ELSE {})
<1>1. bits \in Bits /\ "Stop" \notin bits
  BY DEF Bits
<1>2. /\ v \in Moments /\ v.work = s.work /\ v.frame = frame /\ v.rolling = s.rolling
      /\ v.rec = s.rec /\ v.declick = s.declick /\ v.declicked = s.declicked
      /\ v.target = s.target /\ v.pendingCapture = s.pendingCapture
      /\ v.stopOnce = s.stopOnce
  BY DEF Moments
<1>3. Located(s, frame, roll) = ScheduleWork(v, bits)
  BY DEF Located
<1> DEFINE u == ScheduleWork(v, bits)
<1> HIDE DEF v, bits
<1>4. /\ u \in Moments /\ u.work = v.work \cup bits /\ u.requested = TRUE
      /\ u.frame = v.frame /\ u.rolling = v.rolling /\ u.rec = v.rec
      /\ u.declick = v.declick /\ u.declicked = v.declicked /\ u.target = v.target
      /\ u.pendingCapture = v.pendingCapture /\ u.stopOnce = v.stopOnce
  BY <1>1, <1>2, ScheduledFields
<1> HIDE DEF u
<1>5. s.work \subseteq u.work /\ ("Stop" \in u.work <=> "Stop" \in s.work)
  BY <1>1, <1>2, <1>4
<1> QED BY <1>2, <1>3, <1>4, <1>5 DEF u, LocatedAt

(* A cycle                                                                 *)
LEMMA CycleFields ==
    ASSUME t \in Moments, NEW n \in 1 .. Block, Cycle(n)
    PROVE  /\ t' \in Moments /\ t'.frame = t.frame + n /\ t.frame + n <= LastFrame
           /\ t'.declicked = (t.declick # "none") /\ t'.declick = t.declick
           /\ t'.rolling = TRUE /\ t.rolling = TRUE /\ t.declicked = FALSE
           /\ t'.rec = t.rec /\ t'.work = t.work
           /\ t'.requested = t.requested /\ t'.target = t.target
           /\ t'.pendingCapture = t.pendingCapture /\ t'.stopOnce = t.stopOnce
<1> DEFINE s == [t EXCEPT !.frame = @ + n]
<1>1. n \in Nat /\ n > 0
  BY SizesAssumption
<1>2. t' \in Moments
  BY <1>1, Moved DEF Cycle
<1>3. /\ s.frame = t.frame + n /\ s.declick = t.declick /\ s.rolling = t.rolling
      /\ s.rec = t.rec /\ s.work = t.work /\ s.requested = t.requested
      /\ s.target = t.target /\ s.pendingCapture = t.pendingCapture
      /\ s.stopOnce = t.stopOnce /\ s \in Moments
  BY <1>1 DEF Moments
<1>4. t' = [s EXCEPT !.declicked = s.declick # "none"]
  BY DEF Cycle, Declicking
<1> HIDE DEF s
<1>5. /\ t'.frame = s.frame /\ t'.declick = s.declick /\ t'.rolling = s.rolling
      /\ t'.rec = s.rec /\ t'.work = s.work /\ t'.requested = s.requested
      /\ t'.target = s.target /\ t'.declicked = (s.declick # "none")
      /\ t'.pendingCapture = s.pendingCapture /\ t'.stopOnce = s.stopOnce
  BY <1>3, <1>4 DEF Moments
<1>6. t.rolling /\ ~t.declicked /\ t.frame + n <= LastFrame
  BY DEF Cycle
<1>7. t.rolling = TRUE /\ t.declicked = FALSE
  BY <1>6 DEF Moments
<1> QED BY <1>2, <1>3, <1>5, <1>6, <1>7

(* stop_transport: it waits for input, asks for a declick, or stops.       *)
Unmoved(s, u) ==
    /\ u \in Moments /\ u.frame = s.frame /\ u.rolling = s.rolling /\ u.rec = s.rec
    /\ u.declicked = s.declicked /\ u.target = s.target
    /\ u.work = s.work /\ u.requested = s.requested
Awaits(s, u) ==
    AwaitsInput(s) /\ Unmoved(s, u) /\ u.declick = s.declick /\ u.pendingCapture = TRUE
StopsAs(s, u) ==
    \/ Awaits(s, u)
    \/ /\ ~AwaitsInput(s) /\ s.declick = "none" /\ Unmoved(s, u) /\ u.declick = "stop"
       /\ u.pendingCapture = s.pendingCapture
    \/ ~AwaitsInput(s) /\ s.declick # "none" /\ Halted(s, u)

LEMMA HaltedWithin ==
    ASSUME NEW s, NEW u, s.frame \in 0 .. LastFrame, Halted(s, u)
    PROVE  Within(u)
<1>1. LastFrame \in Nat /\ MaxFrames \in Nat
  BY AlignmentIs
<1> QED BY <1>1 DEF Halted, Within

LEMMA StopFields ==
    ASSUME NEW s \in Moments, Within(s)
    PROVE  StopsAs(s, StopTransport(s)) /\ Within(StopTransport(s))
<1> DEFINE once == s.frame + OutputLatency - Block
           wait == [s EXCEPT !.pendingCapture = TRUE, !.stopOnce = once]
           declick == [s EXCEPT !.declick = "stop"]
<1>1. s.frame \in 0 .. LastFrame
  BY DEF Within
<1>2. CASE AwaitsInput(s)
  <2>1. once \in 0 .. MaxFrames /\ OutputLatency > Block
    BY <1>1, <1>2, SizesAssumption, LatencyAssumption, FramesAssumption DEF AwaitsInput
  <2>2. StopTransport(s) = wait
    BY <1>2 DEF StopTransport, WaitForInput
  <2>3. StopTransport(s) \in Moments
    BY Stops
  <2> HIDE DEF once
  <2>4. /\ wait.frame = s.frame /\ wait.rolling = s.rolling /\ wait.rec = s.rec
        /\ wait.declicked = s.declicked /\ wait.target = s.target /\ wait.work = s.work
        /\ wait.requested = s.requested /\ wait.declick = s.declick
        /\ wait.pendingCapture = TRUE /\ wait.stopOnce = once
    BY DEF Moments
  <2> HIDE DEF wait
  <2>5. Awaits(s, wait)
    BY <1>2, <2>2, <2>3, <2>4 DEF Awaits, Unmoved
  <2>6. Within(wait)
    BY <1>2, <2>1, <2>4 DEF Within, AwaitsInput
  <2> QED BY <2>2, <2>5, <2>6 DEF StopsAs
<1>3. CASE ~AwaitsInput(s) /\ s.declick = "none"
  <2>1. StopTransport(s) = declick
    BY <1>3 DEF StopTransport
  <2>2. /\ declick \in Moments /\ declick.frame = s.frame /\ declick.rolling = s.rolling
        /\ declick.rec = s.rec
        /\ declick.declicked = s.declicked /\ declick.target = s.target
        /\ declick.work = s.work /\ declick.requested = s.requested
        /\ declick.declick = "stop" /\ declick.pendingCapture = s.pendingCapture
        /\ declick.stopOnce = s.stopOnce
    BY DEF Moments
  <2> HIDE DEF declick
  <2>3. Within(declick)
    BY <2>2 DEF Within
  <2>4. StopsAs(s, declick)
    BY <1>3, <2>2 DEF StopsAs, Unmoved
  <2> QED BY <2>1, <2>3, <2>4
<1>4. CASE ~AwaitsInput(s) /\ s.declick # "none"
  <2>1. StopTransport(s) = RealtimeStop(s)
    BY <1>4 DEF StopTransport
  <2>2. Halted(s, RealtimeStop(s))
    BY <1>1, StoppedFields
  <2> QED BY <1>1, <1>4, <2>1, <2>2, HaltedWithin DEF StopsAs
<1> QED BY <1>2, <1>3, <1>4

(* When the event of the stop is gone, the rest is as it was.              *)
LEMMA ForgottenFields ==
    ASSUME NEW s \in Moments
    PROVE  LET u == [s EXCEPT !.stopOnce = MaxFrames]
           IN  /\ Unmoved(s, u) /\ u.declick = s.declick
               /\ u.pendingCapture = s.pendingCapture /\ u.stopOnce = MaxFrames
<1>1. [s EXCEPT !.stopOnce = MaxFrames] \in Moments
  BY Forgotten
<1> QED BY <1>1 DEF Moments, Unmoved

(* check_declick_out: a stop that waits for its input or stops, a locate   *)
(* that waits for the end of a take, or a locate.                          *)
LEMMA DeclickedStop ==
    ASSUME t \in Moments, Within(t), CheckDeclickOut, t.declick = "stop"
    PROVE  /\ t' \in Moments /\ Within(t') /\ t'.declick = "none" /\ t'.declicked = FALSE
           /\ \/ Halted(t, t')
              \/ /\ AwaitsInput(t) /\ t'.frame = t.frame /\ t'.rolling = t.rolling
                 /\ t'.rec = t.rec /\ t'.work = t.work /\ t'.requested = t.requested
                 /\ t'.pendingCapture = TRUE
<1> DEFINE w == StopTransport(t)
           s == NoDeclick(w)
           f == [s EXCEPT !.stopOnce = MaxFrames]
<1>1. StopsAs(t, w) /\ Within(w) /\ w \in Moments
  BY StopFields, Stops
<1>2. t' = s \/ (AwaitsInput(t) /\ t' = f)
  BY DEF CheckDeclickOut
<1> HIDE DEF w
<1>3. /\ s \in Moments /\ s.declick = "none" /\ s.declicked = FALSE /\ s.target = 0
      /\ s.frame = w.frame /\ s.rolling = w.rolling /\ s.rec = w.rec
      /\ s.work = w.work /\ s.requested = w.requested
      /\ s.pendingCapture = w.pendingCapture /\ s.stopOnce = w.stopOnce
  BY <1>1, ClearedFields
<1> HIDE DEF s
<1>4. /\ f \in Moments /\ f.declick = s.declick /\ f.declicked = s.declicked
      /\ f.target = s.target
      /\ f.frame = s.frame /\ f.rolling = s.rolling /\ f.rec = s.rec
      /\ f.work = s.work /\ f.requested = s.requested
      /\ f.pendingCapture = s.pendingCapture /\ f.stopOnce = MaxFrames
  BY <1>3, ForgottenFields DEF Unmoved
<1> HIDE DEF f
<1>5. Within(s) /\ Within(f)
  BY <1>1, <1>3, <1>4, AlignmentIs DEF Within
<1>6. CASE AwaitsInput(t)
  <2>1. Awaits(t, w)
    BY <1>1, <1>6 DEF StopsAs
  <2> QED BY <1>2, <1>3, <1>4, <1>5, <1>6, <2>1 DEF Awaits, Unmoved
<1>7. CASE ~AwaitsInput(t)
  <2>1. Halted(t, w)
    BY <1>1, <1>7 DEF StopsAs, Awaits
  <2>2. Halted(t, s)
    BY <1>3, <2>1 DEF Halted
  <2> QED BY <1>2, <1>3, <1>5, <1>7, <2>2
<1> QED BY <1>6, <1>7

LEMMA DeclickedIs ==
    ASSUME t \in Moments, Within(t), CheckDeclickOut
    PROVE  /\ t' \in Moments /\ Within(t') /\ t.declicked = TRUE
           /\ t'.declick = "none" /\ t'.declicked = FALSE /\ t.work \subseteq t'.work
           /\ \/ t'.rolling = FALSE /\ t'.requested = TRUE /\ "Stop" \in t'.work
              \/ /\ t.declick = "stop" /\ AwaitsInput(t) /\ t'.frame = t.frame
                 /\ t'.rolling = t.rolling /\ t'.rec = t.rec /\ t'.work = t.work
                 /\ t'.requested = t.requested /\ t'.pendingCapture = TRUE
              \/ /\ t.declick # "stop" /\ t'.rolling = t.rolling /\ t'.rec = t.rec
                 /\ t'.pendingCapture = t.pendingCapture
                 /\ ("Stop" \in t'.work <=> "Stop" \in t.work)
                 /\ \/ t'.frame = t.frame /\ t'.work = t.work /\ t'.requested = t.requested
                       /\ t.rec
                    \/ ~t.rec /\ t'.requested = TRUE
<1> DEFINE s == NoDeclick(t)
           u == [s EXCEPT !.frame = t.target]
<1>1. /\ t.target \in 0 .. LastFrame /\ t.target \in Int /\ t.roll \in BOOLEAN
      /\ t.declicked = TRUE /\ t.frame \in 0 .. LastFrame
  BY FramesAssumption DEF Moments, Within, CheckDeclickOut
<1>2. /\ s \in Moments /\ s.declick = "none" /\ s.declicked = FALSE /\ s.target = 0
      /\ s.frame = t.frame /\ s.rolling = t.rolling /\ s.rec = t.rec
      /\ s.work = t.work /\ s.requested = t.requested
      /\ s.pendingCapture = t.pendingCapture /\ s.stopOnce = t.stopOnce
  BY ClearedFields
<1>3. t.declick # "stop" =>
        t' = IF t.rec THEN s
             ELSE Located(IF t.roll THEN u ELSE RealtimeStop(u), t.target, t.roll)
  BY Zenon DEF CheckDeclickOut
<1> HIDE DEF s
<1>4. /\ u \in Moments /\ u.frame = t.target /\ u.rolling = s.rolling /\ u.rec = s.rec
      /\ u.declick = "none" /\ u.declicked = FALSE /\ u.target = 0 /\ u.work = t.work
      /\ u.requested = t.requested
      /\ u.pendingCapture = t.pendingCapture /\ u.stopOnce = t.stopOnce
  BY <1>1, <1>2 DEF Moments
<1> HIDE DEF u
<1>5. CASE t.declick = "stop"
  <2>1. Halted(t, t') => t'.rolling = FALSE /\ t'.requested = TRUE /\ "Stop" \in t'.work
                         /\ t.work \subseteq t'.work
    BY DEF Halted
  <2> QED BY <1>1, <1>5, <2>1, DeclickedStop
<1>6. CASE t.declick # "stop" /\ t.rec
  <2>1. t' = s
    BY <1>3, <1>6
  <2>2. Within(t')
    BY <1>2, <2>1 DEF Within
  <2> QED BY <1>1, <1>2, <1>6, <2>1, <2>2
<1>7. CASE t.declick # "stop" /\ ~t.rec /\ t.roll
  <2>1. t' = Located(u, t.target, t.roll)
    BY <1>3, <1>7
  <2>2. /\ t' \in Moments /\ u.work \subseteq t'.work /\ t'.requested = TRUE
        /\ ("Stop" \in t'.work <=> "Stop" \in u.work)
        /\ t'.frame = t.target /\ t'.rolling = u.rolling /\ t'.rec = u.rec
        /\ t'.declick = u.declick /\ t'.declicked = u.declicked /\ t'.target = u.target
        /\ t'.pendingCapture = u.pendingCapture /\ t'.stopOnce = u.stopOnce
    <3>1. LocatedAt(u, t.target, t')
      BY <1>1, <1>4, <2>1, LocatedFields, Zenon
    <3> QED BY <3>1 DEF LocatedAt
  <2>3. Within(t')
    BY <1>1, <1>2, <1>4, <2>2 DEF Within
  <2> QED BY <1>1, <1>2, <1>4, <1>7, <2>2, <2>3
<1>8. CASE t.declick # "stop" /\ ~t.rec /\ ~t.roll
  <2> DEFINE v == RealtimeStop(u)
  <2>1. t' = Located(v, t.target, t.roll)
    BY <1>3, <1>8
  <2>2. Halted(u, v)
    BY <1>1, <1>4, StoppedFields
  <2> HIDE DEF v
  <2>3. /\ t' \in Moments /\ v.work \subseteq t'.work /\ t'.requested = TRUE
        /\ ("Stop" \in t'.work <=> "Stop" \in v.work)
        /\ t'.frame = t.target /\ t'.rolling = v.rolling /\ t'.rec = v.rec
        /\ t'.declick = v.declick /\ t'.declicked = v.declicked /\ t'.target = v.target
        /\ t'.pendingCapture = v.pendingCapture /\ t'.stopOnce = v.stopOnce
    <3>1. LocatedAt(v, t.target, t')
      BY <1>1, <2>2, <2>1, LocatedFields, Zenon DEF Halted
    <3> QED BY <3>1 DEF LocatedAt
  <2>4. Within(t')
    BY <1>1, <2>2, <2>3, AlignmentIs DEF Within, Halted
  <2> QED BY <1>1, <1>4, <2>2, <2>3, <2>4 DEF Halted
<1> QED BY <1>5, <1>6, <1>7, <1>8

(* The events of the user                                                  *)
LEMMA StartIs ==
    ASSUME t \in Moments, Within(t), NEW rec \in BOOLEAN, Start(rec)
    PROVE  /\ t' \in Moments /\ Within(t') /\ t.rolling = FALSE /\ t.work = {} /\ t'.work = {}
           /\ t'.rolling = TRUE /\ t'.rec = rec /\ t'.frame = t.frame
           /\ t'.declick = t.declick /\ t'.declicked = FALSE
<1>1. t' = [t EXCEPT !.rolling = TRUE, !.rec = rec] /\ t.work = {} /\ t.rolling = FALSE
      /\ t.declicked = FALSE
  BY DEF Start, Command, Moments
<1>2. /\ t'.work = t.work /\ t'.rolling = TRUE /\ t'.rec = rec /\ t'.frame = t.frame
      /\ t'.declick = t.declick /\ t'.declicked = t.declicked /\ t'.target = t.target
      /\ t'.pendingCapture = t.pendingCapture /\ t'.stopOnce = t.stopOnce
      /\ t' \in Moments
  BY <1>1 DEF Moments
<1> QED BY <1>1, <1>2 DEF Within

(* The user's stop, and that of the event                                  *)
LEMMA StopIs ==
    ASSUME t \in Moments, Within(t), Stop
    PROVE  /\ StopsAs(t, t') /\ Within(t') /\ t' \in Moments /\ t.rolling = TRUE
           /\ t.work = {} /\ t.declicked = FALSE
<1>1. t' = StopTransport(t) /\ t.work = {} /\ t.rolling = TRUE /\ t.declicked = FALSE
  BY DEF Stop, Command, Moments
<1> QED BY <1>1, StopFields, Stops

LEMMA StopOnceIs ==
    ASSUME t \in Moments, Within(t), StopOnce
    PROVE  /\ StopsAs(t, t') /\ Within(t') /\ t' \in Moments /\ t.rolling = TRUE
           /\ t.work = {} /\ t.declicked = FALSE
<1> DEFINE s == StopTransport(t)
<1>1. /\ t' = [s EXCEPT !.stopOnce = MaxFrames] /\ t.work = {} /\ t.rolling = TRUE
      /\ t.declicked = FALSE
  BY DEF StopOnce, StopIsDue, Moments
<1>2. StopsAs(t, s) /\ Within(s) /\ s \in Moments
  BY <1>1, StopFields, Stops
<1> HIDE DEF s
<1>3. /\ Unmoved(s, t') /\ t'.declick = s.declick
      /\ t'.pendingCapture = s.pendingCapture /\ t'.stopOnce = MaxFrames
  BY <1>1, <1>2, ForgottenFields
<1>4. Within(t')
  BY <1>2, <1>3, AlignmentIs DEF Within, Unmoved
<1>5. StopsAs(t, t')
  BY <1>2, <1>3 DEF StopsAs, Awaits, Unmoved, Halted
<1> QED BY <1>1, <1>3, <1>4, <1>5 DEF Unmoved

(* Punching in or out                                                      *)
LEMMA PunchIs ==
    ASSUME t \in Moments, Within(t), Punch
    PROVE  /\ t' \in Moments /\ Within(t') /\ t.rolling = TRUE /\ t'.rolling = TRUE
           /\ t.work = {} /\ t'.work = {} /\ t'.rec = ~t.rec /\ t'.frame = t.frame
           /\ t'.declick = t.declick
           /\ t'.pendingCapture = t.pendingCapture
           /\ t.declicked = FALSE /\ t'.declicked = FALSE /\ t'.requested = t.requested
<1>1. t' = [t EXCEPT !.rec = ~t.rec] /\ t.work = {} /\ t.rolling = TRUE
      /\ t.declicked = FALSE
  BY DEF Punch, Command, Moments
<1>2. (~t.rec) \in BOOLEAN
  BY DEF Moments
<1>3. ASSUME NEW b \in BOOLEAN, t' = [t EXCEPT !.rec = b]
      PROVE  /\ t'.work = t.work /\ t'.rolling = t.rolling /\ t'.rec = b /\ t'.frame = t.frame
             /\ t'.declick = t.declick /\ t'.declicked = t.declicked /\ t'.target = t.target
             /\ t'.pendingCapture = t.pendingCapture /\ t'.stopOnce = t.stopOnce
             /\ t'.requested = t.requested /\ t' \in Moments
  BY <1>3 DEF Moments
<1>4. /\ t'.work = t.work /\ t'.rolling = t.rolling /\ t'.rec = ~t.rec /\ t'.frame = t.frame
      /\ t'.declick = t.declick /\ t'.declicked = t.declicked /\ t'.target = t.target
      /\ t'.pendingCapture = t.pendingCapture /\ t'.stopOnce = t.stopOnce
      /\ t'.requested = t.requested /\ t' \in Moments
  BY <1>1, <1>2, <1>3, Zenon
<1> QED BY <1>1, <1>4 DEF Within

(* Locating, with a declick or without                                     *)
LEMMA LocateIs ==
    ASSUME t \in Moments, Within(t), NEW frame \in Targets, NEW roll \in BOOLEAN,
           Locate(frame, roll)
    PROVE  /\ t' \in Moments /\ Within(t') /\ ~t.rec /\ ~t'.rec
           /\ t.declicked = FALSE /\ t'.declicked = FALSE /\ t.work \subseteq t'.work
           /\ \/ /\ t.rolling = TRUE /\ t'.rolling = TRUE
                 /\ t'.work = t.work /\ t'.requested = t.requested
              \/ /\ t'.rolling = t.rolling /\ t'.requested = TRUE
                 /\ ("Stop" \in t'.work <=> "Stop" \in t.work)
              \/ t'.rolling = FALSE /\ t'.requested = TRUE /\ "Stop" \in t'.work
<1>1. frame \in Int /\ frame \in 0 .. LastFrame /\ t.declicked = FALSE /\ ~t.rec
      /\ t.frame \in 0 .. LastFrame
  BY FramesAssumption DEF Locate, Command, Moments, Within
<1> DEFINE u == [t EXCEPT !.frame = frame, !.declick = "locate", !.target = frame,
                          !.roll = roll]
           v == RealtimeStop(t)
<1>2. \/ t.rolling /\ t' = u
      \/ t' = Located(v, frame, roll)
      \/ t' = Located(t, frame, roll)
  BY DEF Locate
<1>3. CASE t.rolling /\ t' = u
  <2>1. /\ t' \in Moments /\ t'.work = t.work /\ t'.rolling = t.rolling /\ t'.rec = t.rec
        /\ t'.frame = frame /\ t'.declicked = t.declicked /\ t'.target = frame
        /\ t'.requested = t.requested
        /\ t'.pendingCapture = t.pendingCapture /\ t'.stopOnce = t.stopOnce
    BY <1>1, <1>3 DEF Moments
  <2>2. t.rolling = TRUE
    BY <1>3 DEF Moments
  <2> QED BY <1>1, <2>1, <2>2 DEF Within
<1>4. CASE t' = Located(v, frame, roll)
  <2>1. Halted(t, v)
    BY <1>1, StoppedFields
  <2> HIDE DEF v
  <2>2. LocatedAt(v, frame, t')
    BY <1>1, <1>4, <2>1, LocatedFields, Zenon DEF Halted
  <2>3. /\ t' \in Moments /\ v.work \subseteq t'.work /\ t'.requested = TRUE
        /\ t'.frame = frame /\ t'.rolling = v.rolling /\ t'.rec = v.rec
        /\ t'.declicked = v.declicked /\ t'.target = v.target
        /\ t'.pendingCapture = v.pendingCapture /\ t'.stopOnce = v.stopOnce
    BY <2>2 DEF LocatedAt
  <2>4. Within(t')
    BY <1>1, <2>1, <2>3, AlignmentIs DEF Within, Halted
  <2> QED BY <1>1, <2>1, <2>3, <2>4 DEF Halted
<1>5. CASE t' = Located(t, frame, roll)
  <2>2. LocatedAt(t, frame, t')
    BY <1>1, <1>5, LocatedFields, Zenon
  <2>3. /\ t' \in Moments /\ t.work \subseteq t'.work /\ t'.requested = TRUE
        /\ ("Stop" \in t'.work <=> "Stop" \in t.work)
        /\ t'.frame = frame /\ t'.rolling = t.rolling /\ t'.rec = t.rec
        /\ t'.declicked = t.declicked /\ t'.target = t.target
        /\ t'.pendingCapture = t.pendingCapture /\ t'.stopOnce = t.stopOnce
    BY <2>2 DEF LocatedAt
  <2> QED BY <1>1, <2>3 DEF Within
<1> QED BY <1>2, <1>3, <1>4, <1>5

(* The request of overwrite_some_buffers                                   *)
LEMMA OverwriteIs ==
    ASSUME t \in Moments, Within(t), d \in Streams, pr \in P!Positions, Overwrite
    PROVE  /\ t' \in Moments /\ Within(t') /\ t.work = {} /\ t'.work = {"OverWrite"}
           /\ t'.requested = TRUE /\ t'.rolling = t.rolling /\ t'.rec = t.rec
           /\ t'.frame = t.frame /\ t'.declick = t.declick /\ t'.declicked = t.declicked
           /\ t'.pendingCapture = t.pendingCapture
           /\ d' \in Streams /\ SameTake(d, d') /\ d'.playback_sample = d.playback_sample
           /\ d'.file_frame = d.file_frame /\ d'.owFrame = d.playback_sample
<1>1. t.work = {} /\ t' = ScheduleWork(t, {"OverWrite"}) /\ {"OverWrite"} \in Bits
  BY DEF Overwrite, Bits
<1>2. /\ t' \in Moments /\ t'.work = t.work \cup {"OverWrite"} /\ t'.requested = TRUE
      /\ t'.frame = t.frame /\ t'.rolling = t.rolling /\ t'.rec = t.rec
      /\ t'.declick = t.declick /\ t'.declicked = t.declicked /\ t'.target = t.target
      /\ t'.pendingCapture = t.pendingCapture /\ t'.stopOnce = t.stopOnce
  BY <1>1, ScheduledFields
<1>3. Within(t') /\ t'.work = {"OverWrite"}
  BY <1>1, <1>2 DEF Within
<1>4. d' = [d EXCEPT !.overwrite = TRUE, !.owFrame = d.playback_sample, !.owOffset = pr]
  BY DEF Overwrite
<1>5. d.playback_sample \in Int
  BY DEF Streams
<1>6. d' \in Streams /\ SameTake(d, d') /\ d'.playback_sample = d.playback_sample
      /\ d'.file_frame = d.file_frame /\ d'.owFrame = d.playback_sample
  BY <1>4, <1>5 DEF Streams, SameTake
<1> QED BY <1>1, <1>2, <1>3, <1>6

(* The end of the butler's work, and its beginning                         *)
LEMMA PostTransportIs ==
    ASSUME t \in Moments, Within(t), PostTransport
    PROVE  /\ t' \in Moments /\ Within(t') /\ t'.work = {} /\ t'.requested = FALSE
           /\ t.requested = FALSE /\ (t.rolling => t'.rolling)
           /\ t'.rec = t.rec /\ t'.frame = t.frame /\ t'.declick = t.declick
           /\ t'.declicked = t.declicked /\ t'.pendingCapture = t.pendingCapture
<1> DEFINE b == t.rolling \/ {"Locate", "Roll"} \subseteq t.work
<1>1. t' = [t EXCEPT !.work = {}, !.rolling = b] /\ t.requested = FALSE /\ b \in BOOLEAN
  BY DEF PostTransport, Moments
<1>2. t.rolling => b
  OBVIOUS
<1> HIDE DEF b
<1>3. /\ t'.work = {} /\ t'.rolling = b /\ t'.rec = t.rec /\ t'.frame = t.frame
      /\ t'.declick = t.declick /\ t'.declicked = t.declicked /\ t'.target = t.target
      /\ t'.pendingCapture = t.pendingCapture /\ t'.stopOnce = t.stopOnce
      /\ t'.requested = t.requested /\ t' \in Moments
  BY <1>1 DEF Moments
<1> QED BY <1>1, <1>2, <1>3 DEF Within

(* The butler takes up the requests.                                       *)
LEMMA BeginPassIs ==
    ASSUME t \in Moments, Within(t), BeginPass
    PROVE  /\ t' \in Moments /\ Within(t') /\ t'.work = t.work /\ t'.requested = FALSE
           /\ t'.rolling = t.rolling /\ t'.rec = t.rec /\ t'.frame = t.frame
           /\ t'.declick = t.declick /\ t'.declicked = t.declicked
           /\ t'.pendingCapture = t.pendingCapture
<1>1. t' = [t EXCEPT !.requested = FALSE]
  BY DEF BeginPass
<1>2. /\ t'.work = t.work /\ t'.rolling = t.rolling /\ t'.rec = t.rec /\ t'.frame = t.frame
      /\ t'.declick = t.declick /\ t'.declicked = t.declicked /\ t'.target = t.target
      /\ t'.pendingCapture = t.pendingCapture /\ t'.stopOnce = t.stopOnce
      /\ t'.requested = FALSE /\ t' \in Moments
  BY <1>1 DEF Moments
<1> QED BY <1>2 DEF Within

(* What a cycle records, and what it leaves of the stream                  *)
LEMMA RecordedIs ==
    ASSUME d \in Streams, t \in Moments, Numbers(d), Within(t), NEW n \in Nat
    PROVE  /\ Recorded(n).count \in Nat /\ Recorded(n).offset \in Nat
           /\ Recorded(n).count = Clamp(Checked, t.frame + n) - Clamp(Checked, t.frame)
           /\ Recorded(n).count > 0 => t.frame + Recorded(n).offset = Clamp(Checked, t.frame)
<1>1. Checked \in Streams /\ Checked.first <= Checked.last
  BY CheckedIs
<1>2. t.frame \in Int
  BY DEF Moments
<1> QED BY <1>1, <1>2, RangeIs DEF Recorded

(* commit                                                                  *)
LEMMA PlayIs ==
    ASSUME d \in Streams, t \in Moments, Numbers(d), Within(t), NEW n \in 1 .. Block, Play(n)
    PROVE  LET f == Prepared(n)
           IN  /\ d' \in Streams /\ d'.captured = f.captured + Recorded(n).count
               /\ d'.first = f.first /\ d'.last = f.last /\ d'.start = f.start
               /\ d'.recording = f.recording /\ d'.was = f.was /\ d'.infos = f.infos
               /\ d'.playback_sample = d.playback_sample + n
               /\ d'.file_frame = d.file_frame /\ d'.owFrame = d.owFrame
<1> DEFINE f == Prepared(n)
           count == Recorded(n).count
<1>1. n \in Nat
  BY SizesAssumption
<1>2. f \in Streams /\ SameData(d, f)
  BY PreparedIs
<1>3. count \in Nat
  BY <1>1, RecordedIs
<1>4. d' = [f EXCEPT !.playback_sample = @ + n, !.captured = @ + count]
  BY DEF Play
<1> HIDE DEF f, count
<1>5. f.playback_sample + n \in Int /\ f.captured + count \in Int
  BY <1>1, <1>2, <1>3 DEF Streams
<1>6. /\ d'.captured = f.captured + count
      /\ d'.first = f.first /\ d'.last = f.last /\ d'.start = f.start
      /\ d'.recording = f.recording /\ d'.was = f.was /\ d'.infos = f.infos
      /\ d'.playback_sample = f.playback_sample + n
      /\ d'.file_frame = f.file_frame /\ d'.owFrame = f.owFrame
  BY <1>2, <1>4 DEF Streams
<1>7. d' \in Streams
  <2>1. d' = [f EXCEPT !.playback_sample = f.playback_sample + n,
                       !.captured = f.captured + count]
    BY <1>4
  <2>2. At(d', f.playback_sample + n, f.file_frame)
    BY <1>2, <1>5, <2>1, PlayMoves, Zenon
  <2> QED BY <2>2 DEF At
<1> QED BY <1>2, <1>6, <1>7 DEF f, count, SameData

(* No capture without a frame is put on the list.                          *)
LEMMA CapturesAre ==
    ASSUME NEW e \in Streams, Numbers(e)
    PROVE  /\ Captures(e) \in Infos
           /\ \A i \in DOMAIN Captures(e) : Captures(e)[i].frames > 0
<1> DEFINE one == [start |-> e.start, frames |-> e.captured]
           infos == Append(e.infos, one)
<1>1. /\ e.infos \in Infos /\ e.captured \in Nat /\ one \in [start : Int, frames : Int]
      /\ one.frames = e.captured
      /\ \A i \in DOMAIN e.infos : e.infos[i].frames > 0
  BY DEF Streams, Numbers
<1>2. CASE e.captured = 0
  BY <1>1, <1>2 DEF Captures
<1>3. CASE e.captured # 0
  <2> HIDE DEF one
  <2>1. /\ infos \in Infos /\ Len(infos) = Len(e.infos) + 1
        /\ \A i \in 1 .. Len(e.infos) : infos[i] = e.infos[i]
        /\ infos[Len(e.infos) + 1] = one
    BY <1>1, AppendProperties DEF Infos
  <2>2. DOMAIN infos = 1 .. Len(e.infos) + 1 /\ DOMAIN e.infos = 1 .. Len(e.infos)
        /\ Len(e.infos) \in Nat
    BY <1>1, <2>1, LenProperties DEF Infos
  <2>3. Captures(e) = infos
    BY <1>3 DEF Captures, one
  <2> HIDE DEF infos
  <2>4. ASSUME NEW i \in 1 .. Len(e.infos) + 1 PROVE infos[i].frames > 0
    <3>1. i = Len(e.infos) + 1 \/ i \in 1 .. Len(e.infos)
      BY <2>2
    <3> QED BY <1>1, <1>3, <2>1, <2>2, <3>1
  <2> QED BY <2>1, <2>2, <2>3, <2>4
<1> QED BY <1>2, <1>3

(* finish_capture keeps the ranges of the fields,                          *)
LEMMA FinishNumbers ==
    ASSUME NEW e \in Streams, Numbers(e)
    PROVE  Numbers(FinishCapture(e))
<1> DEFINE f == FinishCapture(e)
<1>1. /\ SameData(e, f) /\ f.first = MaxFrames /\ f.last = MaxFrames /\ f.start = e.start
      /\ f.captured = 0 /\ f.infos = Captures(e)
  BY FinishIs
<1> HIDE DEF f
<1>2. Numbers(f)
  BY <1>1, CapturesAre, AlignmentIs DEF Numbers, SameData
<1> QED BY <1>2 DEF f

(* and so does check_record_status,                                        *)
LEMMA CheckNumbers ==
    ASSUME NEW e \in Streams, Numbers(e), NEW s \in Moments, Within(s)
    PROVE  Numbers(CheckRecordStatus(e, s))
<1> DEFINE f == CheckRecordStatus(e, s)
<1>1. /\ SameData(e, f) /\ f.captured = e.captured /\ f.infos = e.infos
      /\ f.first \in {e.first, s.frame + Alignment}
      /\ f.last \in {e.last, s.frame + Alignment, MaxFrames}
      /\ f.start \in {e.start, s.frame}
  BY CheckIs
<1> HIDE DEF f
<1>2. Numbers(f)
  BY <1>1, AlignmentIs DEF Numbers, SameData, Within
<1> QED BY <1>2 DEF f

(* and the beginning of process.                                           *)
LEMMA PreparedNumbers ==
    ASSUME d \in Streams, t \in Moments, Numbers(d), Within(t), NEW n
    PROVE  Numbers(Checked) /\ Numbers(Prepared(n))
<1> DEFINE e == Checked
           f == Prepared(n)
<1>1. /\ e \in Streams /\ SameData(d, e) /\ e.captured = d.captured /\ e.infos = d.infos
      /\ e.first \in {d.first, t.frame + Alignment}
      /\ e.last \in {d.last, t.frame + Alignment, MaxFrames}
      /\ e.start \in {d.start, t.frame}
  BY CheckedIs DEF Last
<1>2. /\ SameData(d, f)
      /\ \/ /\ f.first = e.first /\ f.last = e.last /\ f.start = e.start
            /\ f.infos = e.infos /\ f.captured \in {0, e.captured}
         \/ /\ f.first = MaxFrames /\ f.last = MaxFrames /\ f.start = e.start
            /\ f.infos = Captures(e) /\ f.captured = 0
  BY PreparedIs DEF SameTake
<1> HIDE DEF e, f
<1>3. Numbers(e)
  BY <1>1, AlignmentIs DEF Numbers, SameData, Within
<1>4. /\ f.playback_sample \in Nat /\ f.file_frame \in Nat /\ f.owFrame \in Nat
  BY <1>2 DEF Numbers, SameData
<1>5. Numbers(f)
  <2>1. CASE f.infos = e.infos /\ f.first = e.first
    BY <1>2, <1>3, <1>4, <2>1, AlignmentIs DEF Numbers
  <2>2. CASE f.first = MaxFrames /\ f.infos = Captures(e)
    BY <1>1, <1>2, <1>3, <1>4, <2>2, CapturesAre, AlignmentIs DEF Numbers
  <2> QED BY <1>2, <2>1, <2>2
<1> QED BY <1>3, <1>5 DEF e, f

-----------------------------------------------------------------------------
(* The capture ring, and what RingBufferProofs shows of it                 *)
CR == INSTANCE RingBufferProofs WITH Size <- CaptureSize

(* It has cells,                                                           *)
LEMMA CaptureCells == CR!HasCells
BY SizesAssumption DEF CR!HasCells

(* its two spaces add up,                                                  *)
LEMMA CaptureSpaces ==
    ASSUME NEW r \in C!Positions, NEW w \in C!Positions
    PROVE  /\ C!ReadSpace(r, w) \in 0 .. CaptureSize - 1
           /\ C!WriteSpace(r, w) = CaptureSize - 1 - C!ReadSpace(r, w)
           /\ C!ReadSpace(r, w) \in Nat /\ C!WriteSpace(r, w) \in Nat
<1>1. /\ C!ReadSpace(r, w) \in 0 .. CaptureSize - 1
      /\ C!WriteSpace(r, w) = CaptureSize - 1 - C!ReadSpace(r, w)
  BY CaptureCells, CR!SpacesAddUp DEF C!Positions, CR!Positions, C!ReadSpace, CR!ReadSpace,
                            C!WriteSpace, CR!WriteSpace
<1> QED BY <1>1, SizesAssumption

(* its positions stay in it,                                               *)
LEMMA CaptureAround ==
    ASSUME NEW p \in C!Positions, NEW n \in Int
    PROVE  C!Advanced(p, n) \in C!Positions
BY SizesAssumption DEF C!Positions, C!Advanced

(* and its vectors begin where they should.                                *)
LEMMA CaptureVectors ==
    ASSUME NEW r \in C!Positions, NEW w \in C!Positions
    PROVE  /\ C!WriteVector(r, w)[1].at = w /\ C!WriteVector(r, w)[2].at = 0 /\ w \in Nat
           /\ C!WriteVector(r, w)[1].len \in Nat /\ C!WriteVector(r, w)[2].len \in Nat
           /\ C!ReadVector(r, w)[1].len \in Nat /\ C!ReadVector(r, w)[2].len \in Nat
<1>1. ASSUME NEW p \in C!Positions, NEW n \in Nat
      PROVE  /\ C!Vector(p, n)[1].at = p /\ C!Vector(p, n)[2].at = 0
             /\ C!Vector(p, n)[1].len \in Nat /\ C!Vector(p, n)[2].len \in Nat
  BY SizesAssumption DEF C!Positions, C!Vector
<1>2. C!ReadSpace(r, w) \in Nat /\ C!WriteSpace(r, w) \in Nat /\ w \in Nat
  BY CaptureSpaces DEF C!Positions
<1> QED BY <1>1, <1>2 DEF C!WriteVector, C!ReadVector

(* A cell holds a frame.                                                   *)
LEMMA StoredFrames ==
    ASSUME NEW cell \in [P!Positions -> Frame], NEW part, NEW n, part.at \in Int,
           NEW first \in Nat
    PROVE  P!Stored(cell, part, n, first) \in [P!Positions -> Frame]
<1>1. \A c \in P!Positions : c \in Int
  BY DEF P!Positions
<1>2. ASSUME NEW c \in P!Positions
      PROVE  (IF part.at <= c /\ c < part.at + n THEN first + c - part.at ELSE cell[c]) \in Frame
  BY <1>1, <1>2 DEF Frame
<1> QED BY <1>2 DEF P!Stored

(* The same of the capture ring,                                           *)
LEMMA CaptureStoredFrames ==
    ASSUME NEW cell \in [C!Positions -> Frame], NEW part, NEW n, part.at \in Int,
           NEW first \in Nat
    PROVE  C!Stored(cell, part, n, first) \in [C!Positions -> Frame]
<1>1. \A c \in C!Positions : c \in Int
  BY DEF C!Positions
<1>2. ASSUME NEW c \in C!Positions
      PROVE  (IF part.at <= c /\ c < part.at + n THEN first + c - part.at ELSE cell[c]) \in Frame
  BY <1>1, <1>2 DEF Frame
<1> QED BY <1>2 DEF C!Stored

(* and of all that a cycle writes.                                         *)
LEMMA CaptureWrittenFrames ==
    ASSUME NEW r \in C!Positions, NEW w \in C!Positions, NEW cell \in [C!Positions -> Frame],
           NEW n \in Nat, NEW first \in Nat
    PROVE  C!Written(cell, C!WriteVector(r, w), n, first) \in [C!Positions -> Frame]
<1> DEFINE v == C!WriteVector(r, w)
           n1 == IF n <= v[1].len THEN n ELSE v[1].len
           one == C!Stored(cell, v[1], n1, first)
<1>1. v[1].at \in Int /\ v[2].at \in Int /\ v[1].len \in Nat
  BY CaptureVectors
<1> HIDE DEF v
<1>2. n1 \in Nat /\ first + n1 \in Nat
  BY <1>1
<1>3. one \in [C!Positions -> Frame]
  BY <1>1, CaptureStoredFrames
<1>4. C!Written(cell, v, n, first) = C!Stored(one, v[2], n - n1, first + n1)
  BY DEF C!Written
<1> HIDE DEF n1, one
<1> QED BY <1>1, <1>2, <1>3, <1>4, CaptureStoredFrames DEF v

-----------------------------------------------------------------------------
(* The types of everything                                                 *)
Rings ==
    /\ pcell \in [P!Positions -> Frame]
    /\ cr \in C!Positions /\ cw \in C!Positions /\ ccell \in [C!Positions -> Frame]
Places ==
    /\ bpc \in {"idle", "locate", "stop", "seek", "overwrite", "refill", "read", "readOn",
                "flush"}
    /\ ptw \in Bits /\ toRead \in 0 .. Chunk /\ commands \in 0 .. MaxCommands
Sound == Within(t) /\ Numbers(d) /\ Rings /\ Places

(* This is what TypeOK says,                                               *)
LEMMA SoundTypes == Inv /\ Sound => TypeOK
<1> SUFFICES ASSUME Inv, Sound PROVE TypeOK
  OBVIOUS
<1>1. t \in Moments /\ d \in Streams /\ pr \in P!Positions /\ pw \in P!Positions
  BY DEF Inv, Typed
<1>2. t \in [frame : 0 .. LastFrame, rolling : BOOLEAN, rec : BOOLEAN,
              declick : {"none", "stop", "locate"}, declicked : BOOLEAN,
              target : {0} \cup Targets, roll : BOOLEAN, pendingCapture : BOOLEAN,
              stopOnce : 0 .. MaxFrames,
              work : SUBSET {"Stop", "Locate", "Roll", "OverWrite"}, requested : BOOLEAN]
      /\ (t.rec \/ t.pendingCapture \/ t.stopOnce # MaxFrames => t.rolling)
  BY <1>1 DEF Sound, Within, Moments
<1>3. /\ \A f \in {"playback_sample", "file_frame", "first", "last", "start", "captured",
                 "owFrame"} : d[f] \in Nat
      /\ \A i \in DOMAIN d.infos : d.infos[i].frames > 0
  BY <1>1, AlignmentIs DEF Sound, Numbers, Streams
<1>4. /\ d.was \in [rolling : BOOLEAN, rec : BOOLEAN]
      /\ d.recording \in BOOLEAN /\ d.overwrite \in BOOLEAN /\ d.owOffset \in P!Positions
  BY <1>1 DEF Streams, Transports
<1> QED BY <1>1, <1>2, <1>3, <1>4 DEF Sound, Rings, Places, Bits, TypeOK

(* and it holds to begin with.                                             *)
LEMMA SoundInitially == Init => Sound
<1> SUFFICES ASSUME Init PROVE Sound
  OBVIOUS
<1>1. Within(t)
  BY AlignmentIs DEF Init, Within
<1>2. Numbers(d)
  BY AlignmentIs, SizesAssumption DEF Init, Numbers
<1>3. Rings
  <2>1. 0 \in C!Positions /\ Nothing \in Frame
    BY SizesAssumption DEF C!Positions, Frame, Nothing
  <2>2. \A c \in P!Positions : (IF c < Chunk THEN c ELSE Nothing) \in Frame
    BY SizesAssumption DEF P!Positions, Frame
  <2>3. pcell \in [P!Positions -> Frame]
    BY <2>2 DEF Init
  <2>4. ccell \in [C!Positions -> Frame]
    BY <2>1 DEF Init
  <2> QED BY <2>1, <2>3, <2>4 DEF Init, Rings
<1>4. Places
  BY SizesAssumption, FramesAssumption DEF Init, Places, Bits
<1> QED BY <1>1, <1>2, <1>3, <1>4 DEF Sound

(* The two records                                                         *)
LEMMA WithinKept ==
    ASSUME Inv, Sound, [Next]_vars
    PROVE  Within(t')
<1>1. t \in Moments /\ d \in Streams /\ pr \in P!Positions /\ Within(t)
  BY DEF Inv, Typed, Sound
<1>2. ASSUME NEW n \in 1 .. Block, Overrun(n) \/ Underrun(n) \/ Play(n) PROVE Within(t')
  <2>1. Cycle(n)
    BY <1>2 DEF Overrun, Underrun, Play
  <2>2. /\ t'.frame = t.frame + n /\ t.frame + n <= LastFrame
        /\ t'.rolling = TRUE /\ t'.target = t.target
        /\ t'.pendingCapture = t.pendingCapture /\ t'.stopOnce = t.stopOnce
    BY <1>1, <2>1, CycleFields
  <2> QED BY <1>1, <2>2, SizesAssumption, FramesAssumption DEF Within
<1>3. CASE CheckDeclickOut
  BY <1>1, <1>3, DeclickedIs
<1>4. CASE PostTransport \/ BeginPass
  BY <1>1, <1>4, PostTransportIs, BeginPassIs
<1>5. CASE User \/ StopOnce
  BY <1>1, <1>5, StartIs, StopIs, StopOnceIs, PunchIs, LocateIs, OverwriteIs DEF User
<1>6. CASE UNCHANGED t
  BY <1>1, <1>6 DEF Within
<1> QED BY <1>2, <1>3, <1>4, <1>5, <1>6
        DEF Next, Cycles, Butler, vars, NoRoll, NonRealtimeLocate, TransportStoppedWallclock,
            SeekAfterStop, OverwriteExistingBuffers, RefillLook, ReadFirst, ReadSecond, DoFlush

(* A seek moves where the stream plays and reads, and no more.             *)
LEMMA RewoundIs ==
    ASSUME d \in Streams, t \in Moments, Rewound
    PROVE  /\ SameTake(d, d') /\ d'.playback_sample = t.frame
           /\ d'.file_frame = t.frame + Chunk /\ d'.owFrame = d.owFrame
<1>1. d' = [d EXCEPT !.playback_sample = t.frame, !.file_frame = t.frame + Chunk]
  BY DEF Rewound, SeekFrom
<1> QED BY <1>1 DEF Streams, SameTake

(* A read moves where it reads,                                            *)
LEMMA ReadIs ==
    ASSUME d \in Streams, NEW part, NEW n, Read(part, n)
    PROVE  /\ SameTake(d, d') /\ d'.playback_sample = d.playback_sample
           /\ d'.file_frame = d.file_frame + n /\ d'.owFrame = d.owFrame
<1>1. d' = [d EXCEPT !.file_frame = d.file_frame + n]
  BY DEF Read
<1> QED BY <1>1 DEF Streams, SameTake

(* and overwriting what there is moves neither.                            *)
LEMMA OverwritingIs ==
    ASSUME d \in Streams, OverwriteExistingBuffers
    PROVE  /\ SameTake(d, d') /\ d'.playback_sample = d.playback_sample
           /\ d'.file_frame = d.file_frame /\ d'.owFrame \in {0, d.owFrame}
<1>1. d' = d \/ d' = [d EXCEPT !.overwrite = FALSE, !.owFrame = 0, !.owOffset = 0]
  BY DEF OverwriteExistingBuffers
<1> QED BY <1>1 DEF Streams, SameTake

(* transport_stopped_wallclock finishes the capture.                       *)
LEMMA StoppingIs ==
    ASSUME d \in Streams, TransportStoppedWallclock
    PROVE  LET e == FinishCapture(d)
           IN  /\ SameData(e, d') /\ d'.first = e.first /\ d'.last = e.last
               /\ d'.start = e.start /\ d'.captured = e.captured
               /\ d'.recording = e.recording /\ d'.was = e.was
               /\ \/ e.infos = <<>> /\ d'.infos = e.infos /\ file' = Flushed
                  \/ e.infos # <<>> /\ d'.infos = <<>> /\ file' = <<>>
<1> DEFINE e == FinishCapture(d)
<1>1. e \in Streams
  BY FinishIs
<1>2. \/ e.infos = <<>> /\ d' = e /\ file' = Flushed
      \/ e.infos # <<>> /\ d' = [e EXCEPT !.infos = <<>>] /\ file' = <<>>
  BY DEF TransportStoppedWallclock
<1> HIDE DEF e
<1>3. ASSUME d' = [e EXCEPT !.infos = <<>>]
      PROVE  /\ SameData(e, d') /\ d'.first = e.first /\ d'.last = e.last
             /\ d'.start = e.start /\ d'.captured = e.captured
             /\ d'.recording = e.recording /\ d'.was = e.was /\ d'.infos = <<>>
  BY <1>1, <1>3 DEF Streams, SameData
<1>4. SameData(e, e)
  BY DEF SameData
<1>5. /\ SameData(e, d') /\ d'.first = e.first /\ d'.last = e.last
      /\ d'.start = e.start /\ d'.captured = e.captured
      /\ d'.recording = e.recording /\ d'.was = e.was
      /\ \/ e.infos = <<>> /\ d'.infos = e.infos /\ file' = Flushed
         \/ e.infos # <<>> /\ d'.infos = <<>> /\ file' = <<>>
  BY <1>2, <1>3, <1>4
<1> QED BY <1>5 DEF e

(* prepare_to_stop sets the end of the take, once.                         *)
Prepares == AwaitsInput(t) \/ (t.declick = "none" /\ ~t.pendingCapture)

LEMMA EndSets ==
    ASSUME d \in Streams, t \in Moments, PrepareToStop
    PROVE  /\ SameData(d, d') /\ d'.first = d.first
           /\ d'.start = d.start /\ d'.captured = d.captured /\ d'.recording = d.recording
           /\ d'.was = d.was /\ d'.infos = d.infos
           /\ d'.last = IF Prepares THEN t.frame + CaptureOffset ELSE d.last
           /\ Prepares /\ ~broken' => ~Reopens(d')
           /\ ~Prepares => broken' = broken
<1>1. CASE Prepares
  <2>1. d' = [d EXCEPT !.last = t.frame + CaptureOffset]
    BY <1>1, Zenon DEF PrepareToStop, Prepares
  <2>2. ~broken' => ~Reopens(d')
    BY <1>1, Zenon DEF PrepareToStop, Prepares
  <2>3. /\ SameData(d, d') /\ d'.first = d.first
        /\ d'.start = d.start /\ d'.captured = d.captured /\ d'.recording = d.recording
        /\ d'.was = d.was /\ d'.infos = d.infos /\ d'.last = t.frame + CaptureOffset
    BY <2>1 DEF Streams, SameData
  <2> QED BY <1>1, <2>2, <2>3
<1>2. CASE ~Prepares
  <2>1. d' = d /\ broken' = broken
    BY <1>2, Zenon DEF PrepareToStop, Prepares
  <2> QED BY <1>2, <2>1 DEF SameData
<1> QED BY <1>1, <1>2

(* The fields of the stream keep their ranges.                             *)
LEMMA NumbersKept ==
    ASSUME Inv, Sound, [Next]_vars
    PROVE  Numbers(d')
<1>1. t \in Moments /\ d \in Streams /\ pr \in P!Positions /\ Within(t) /\ Numbers(d)
      /\ t.frame \in Nat /\ Chunk \in Nat /\ CaptureOffset \in Nat
  BY AlignmentIs, SizesAssumption DEF Inv, Typed, Sound, Within
<1>2. ASSUME NEW n \in 1 .. Block, Overrun(n) \/ Underrun(n) PROVE Numbers(d')
  BY <1>1, <1>2, PreparedNumbers DEF Overrun, Underrun
<1>3. ASSUME NEW n \in 1 .. Block, Play(n) PROVE Numbers(d')
  <2> DEFINE f == Prepared(n)
  <2>1. n \in Nat
    BY SizesAssumption
  <2>2. Numbers(f) /\ Recorded(n).count \in Nat
    BY <1>1, <2>1, PreparedNumbers, RecordedIs
  <2>3. /\ d'.captured = f.captured + Recorded(n).count
        /\ d'.first = f.first /\ d'.last = f.last /\ d'.start = f.start
        /\ d'.infos = f.infos
        /\ d'.playback_sample = d.playback_sample + n
        /\ d'.file_frame = d.file_frame /\ d'.owFrame = d.owFrame
    BY <1>1, <1>3, PlayIs
  <2> HIDE DEF f
  <2> QED BY <1>1, <2>1, <2>2, <2>3 DEF Numbers
<1>4. CASE NoRoll
  BY <1>1, <1>4, CheckNumbers DEF NoRoll
<1>5. CASE PrepareToStop
  BY <1>1, <1>5, EndSets DEF Numbers, SameData
<1>6. CASE Overwrite
  BY <1>1, <1>6, OverwriteIs DEF Numbers, SameTake
<1>7. CASE Rewound
  BY <1>1, <1>7, RewoundIs DEF Numbers, SameTake
<1>8. CASE TransportStoppedWallclock
  <2> DEFINE e == FinishCapture(d)
  <2>1. Numbers(e)
    BY <1>1, FinishNumbers
  <2>2. /\ SameData(e, d') /\ d'.first = e.first /\ d'.last = e.last
        /\ d'.start = e.start /\ d'.captured = e.captured
        /\ d'.infos = e.infos \/ d'.infos = <<>>
    BY <1>1, <1>8, StoppingIs
  <2> HIDE DEF e
  <2> QED BY <2>1, <2>2 DEF Numbers, SameData
<1>9. CASE OverwriteExistingBuffers
  BY <1>1, <1>9, OverwritingIs DEF Numbers, SameTake
<1>10. ASSUME NEW part, NEW n \in Nat, Read(part, n) PROVE Numbers(d')
  BY <1>1, <1>10, ReadIs DEF Numbers, SameTake
<1>11. CASE ReadFirst
  <2>1. Least(toRead, vector[1].len) \in Nat
    BY <1>11 DEF ReadFirst, ButlerGoto, Inv, FirstFree, Least
  <2> QED BY <1>10, <1>11, <2>1 DEF ReadFirst
<1>12. CASE ReadSecond
  <2>1. Least(toRead, vector[2].len) \in Nat
    BY <1>12 DEF ReadSecond, ButlerGoto, Inv, SecondFree, Least
  <2> QED BY <1>10, <1>12, <2>1 DEF ReadSecond
<1>13. CASE UNCHANGED d
  BY <1>1, <1>13 DEF Numbers
<1> QED
  BY <1>2, <1>3, <1>4, <1>5, <1>6, <1>7, <1>8, <1>9, <1>11, <1>12, <1>13
     DEF Next, Cycles, User, Butler, vars, CheckDeclickOut, StopOnce, PostTransport, Start,
         Stop, Punch, Locate, BeginPass, NonRealtimeLocate, SeekAfterStop, RefillLook, DoFlush

(* The rings                                                               *)
LEMMA RingsKept ==
    ASSUME Inv, Sound, [Next]_vars
    PROVE  Rings'
<1>1. t \in Moments /\ d \in Streams /\ pr \in P!Positions /\ pw \in P!Positions
      /\ Within(t) /\ Numbers(d) /\ Rings /\ t.frame \in Nat
  BY AlignmentIs DEF Inv, Typed, Sound, Within
<1>2. cr \in C!Positions /\ cw \in C!Positions /\ ccell \in [C!Positions -> Frame]
      /\ pcell \in [P!Positions -> Frame]
  BY <1>1 DEF Rings
<1>3. ASSUME NEW n \in 1 .. Block, Play(n) PROVE Rings'
  <2> DEFINE count == Recorded(n).count
             at == InputAt(n)
  <2>1. n \in Nat
    BY SizesAssumption
  <2>2. count \in Nat /\ at \in Nat
    BY <1>1, <2>1, RecordedIs DEF InputAt
  <2>3. /\ ccell' = C!Written(ccell, C!WriteVector(cr, cw), count, at)
        /\ cw' = C!Advanced(cw, count) /\ cr' = cr /\ pcell' = pcell
    BY <1>3 DEF Play
  <2> HIDE DEF count, at
  <2>4. ccell' \in [C!Positions -> Frame]
    BY <1>2, <2>2, <2>3, CaptureWrittenFrames
  <2>5. cw' \in C!Positions
    BY <1>2, <2>2, <2>3, CaptureAround
  <2> QED BY <1>2, <2>3, <2>4, <2>5 DEF Rings
<1>4. CASE Rewound /\ UNCHANGED ccell
  <2>1. 0 \in C!Positions
    BY SizesAssumption DEF C!Positions
  <2>2. /\ pcell' = P!Stored(pcell, [at |-> 0, len |-> Chunk], Chunk, t.frame)
        /\ cr' = 0 /\ cw' = 0
    BY <1>4 DEF Rewound, SeekFrom, Seek
  <2>3. pcell' \in [P!Positions -> Frame]
    <3>1. [at |-> 0, len |-> Chunk].at \in Int
      OBVIOUS
    <3> QED BY <1>1, <1>2, <2>2, <3>1, StoredFrames
  <2> QED BY <1>2, <1>4, <2>1, <2>2, <2>3 DEF Rings
<1>5. CASE TransportStoppedWallclock
  BY <1>2, <1>5 DEF TransportStoppedWallclock, playback, Rings
<1>6. CASE OverwriteExistingBuffers
  <2>1. cr' = cr /\ cw' = cw /\ ccell' = ccell
    BY <1>6 DEF OverwriteExistingBuffers, capture
  <2>2. CASE pcell' = pcell
    BY <1>2, <2>1, <2>2 DEF Rings
  <2>3. CASE d.overwrite /\ "OverWrite" \in ptw
    <3> DEFINE size == PlaybackSize - 1
               cell(c) == CASE c = size -> pcell[c]
                            [] d.owOffset <= c /\ c < size -> d.owFrame + c - d.owOffset
                            [] OTHER -> d.owFrame + size - d.owOffset + c
    <3>1. pcell' = [c \in P!Positions |-> cell(c)]
      BY <1>6, <2>3 DEF OverwriteExistingBuffers
    <3>2. d.owFrame \in Nat /\ d.owOffset \in P!Positions /\ PlaybackSize \in Nat
      BY <1>1, SizesAssumption DEF Numbers, Streams
    <3>3. ASSUME NEW c \in P!Positions PROVE cell(c) \in Frame
      <4>1. c \in Nat /\ d.owOffset \in Nat /\ d.owOffset <= size /\ size \in Int
            /\ pcell[c] \in Frame
        BY <1>2, <3>2 DEF P!Positions
      <4> QED BY <3>2, <4>1 DEF Frame
    <3> HIDE DEF cell
    <3>4. pcell' \in [P!Positions -> Frame]
      BY <3>1, <3>3
    <3> QED BY <1>2, <2>1, <3>4 DEF Rings
  <2> QED BY <1>6, <2>2, <2>3 DEF OverwriteExistingBuffers
<1>7. ASSUME NEW part, NEW n, Read(part, n), vector[part].at \in Int, UNCHANGED capture
      PROVE  Rings'
  <2>1. d.file_frame \in Nat
    BY <1>1 DEF Numbers
  <2>2. pcell' = P!Stored(pcell, vector[part], n, d.file_frame)
    BY <1>7 DEF Read
  <2>3. pcell' \in [P!Positions -> Frame]
    BY <1>2, <1>7, <2>1, <2>2, StoredFrames
  <2> QED BY <1>2, <1>7, <2>3 DEF capture, Rings
<1>8. CASE ReadFirst
  <2>1. vector[1].at \in Int
    BY <1>1, <1>8 DEF ReadFirst, ButlerGoto, Inv, FirstFree, P!Positions
  <2> QED BY <1>7, <1>8, <2>1 DEF ReadFirst
<1>9. CASE ReadSecond
  <2>1. vector[2].at \in Int
    BY <1>9 DEF ReadSecond, ButlerGoto, Inv, SecondFree
  <2> QED BY <1>7, <1>9, <2>1 DEF ReadSecond
<1>10. CASE DoFlush
  <2> DEFINE seen == C!ReadVector(cr, cw)
             total == C!ReadSpace(cr, cw)
             first == Least(Chunk, seen[1].len)
             second == IF first = seen[1].len /\ total > first /\ first < Chunk
                       THEN Least(Chunk - first, seen[2].len) ELSE 0
  <2>1. first + second \in Int
    <3>1. seen[1].len \in Nat /\ seen[2].len \in Nat /\ Chunk \in Nat
      BY <1>2, CaptureVectors, SizesAssumption
    <3> QED BY <3>1 DEF Least
  <2>2. cr' = cr \/ cr' = C!Advanced(cr, first + second)
    BY <1>10 DEF DoFlush
  <2>3. pcell' = pcell /\ cw' = cw /\ ccell' = ccell
    BY <1>10 DEF DoFlush, playback
  <2> HIDE DEF first, second
  <2> QED BY <1>2, <2>1, <2>2, <2>3, CaptureAround DEF Rings
<1>11. CASE UNCHANGED <<pcell, cr, cw, ccell>>
  BY <1>2, <1>11 DEF Rings
<1>12. CASE NonRealtimeLocate \/ SeekAfterStop
  BY <1>4, <1>12 DEF NonRealtimeLocate, SeekAfterStop, Rewound, SeekFrom
<1>13. CASE User
  BY <1>11, <1>13 DEF User, Start, Stop, Punch, Locate, Overwrite, Command, capture, playback
<1>14. CASE \E n \in 1 .. Block : Overrun(n) \/ Underrun(n)
  BY <1>11, <1>14 DEF Overrun, Underrun, capture, playback
<1>15. CASE NoRoll \/ CheckDeclickOut \/ StopOnce \/ PostTransport \/ BeginPass \/ RefillLook
  BY <1>11, <1>15 DEF NoRoll, CheckDeclickOut, StopOnce, PostTransport, BeginPass,
     RefillLook, capture, playback
<1> QED
  BY <1>3, <1>5, <1>6, <1>8, <1>9, <1>10, <1>11, <1>12, <1>13, <1>14, <1>15
     DEF Next, Cycles, Butler, vars

(* The butler's place and its locals                                       *)
LEMMA PlacesKept ==
    ASSUME Inv, Sound, [Next]_vars
    PROVE  Places'
<1>1. Places /\ t \in Moments /\ Chunk \in Nat /\ MaxCommands \in Nat
      /\ pr \in P!Positions /\ pw \in P!Positions
  BY SizesAssumption, FramesAssumption DEF Inv, Typed, Sound
<1>2. t.work \in Bits
  BY <1>1 DEF Moments, Bits
<1>3. CASE User
  <2>1. bpc' = bpc /\ ptw' = ptw /\ toRead' = toRead
    BY <1>3 DEF User, Start, Stop, Punch, Locate, Overwrite, Command, butler
  <2>2. commands' = commands \/ (commands < MaxCommands /\ commands' = commands + 1)
    BY <1>3 DEF User, Start, Stop, Punch, Locate, Overwrite, Counted
  <2> QED BY <1>1, <2>1, <2>2 DEF Places
<1>4. CASE BeginPass
  <2>1. bpc' \in {"locate", "stop", "overwrite", "refill"} /\ ptw' \in Bits
    BY <1>2, <1>4 DEF BeginPass, NextWork, Bits
  <2> QED BY <1>1, <1>4, <2>1 DEF BeginPass, history, Places
<1>5. CASE RefillLook
  <2>1. P!WriteSpace(pr, pw) \in Nat
    BY <1>1, Spaces, SizesAssumption
  <2>2. toRead' \in 0 .. Chunk
    BY <1>1, <1>5, <2>1 DEF RefillLook, Least, Places
  <2> QED BY <1>1, <1>5, <2>2 DEF RefillLook, Restart, history, Places
<1>6. CASE ReadFirst
  <2>1. vector[1].len \in Nat /\ toRead \in 0 .. Chunk
    BY <1>1, <1>6 DEF ReadFirst, ButlerGoto, Inv, FirstFree, Places
  <2>2. toRead' \in 0 .. Chunk
    BY <1>1, <1>6, <2>1 DEF ReadFirst, Read, Least
  <2> QED BY <1>1, <1>6, <2>2 DEF ReadFirst, ButlerGoto, history, Places
<1>7. CASE ReadSecond
  <2>1. vector[2].len \in Nat /\ toRead \in 0 .. Chunk
    BY <1>1, <1>7 DEF ReadSecond, ButlerGoto, Inv, SecondFree, Places
  <2>2. toRead' \in 0 .. Chunk
    BY <1>1, <1>7, <2>1 DEF ReadSecond, Read, Least
  <2> QED BY <1>1, <1>7, <2>2 DEF ReadSecond, ButlerGoto, Restart, history, Places
<1>8. CASE NonRealtimeLocate \/ TransportStoppedWallclock \/ SeekAfterStop
           \/ OverwriteExistingBuffers \/ DoFlush
  <2>1. bpc' \in {"idle", "stop", "seek", "overwrite", "refill"}
    BY <1>8 DEF NonRealtimeLocate, TransportStoppedWallclock, SeekAfterStop,
                OverwriteExistingBuffers, DoFlush, ButlerGoto, Restart
  <2>2. /\ ptw' = ptw \/ ptw' = {}
        /\ toRead' = toRead /\ commands' = commands
    BY <1>8 DEF NonRealtimeLocate, TransportStoppedWallclock, SeekAfterStop,
                OverwriteExistingBuffers, DoFlush, history
  <2> QED BY <1>1, <2>1, <2>2 DEF Places, Bits
<1>9. CASE UNCHANGED <<bpc, ptw, toRead, commands>>
  BY <1>1, <1>9 DEF Places
<1>10. CASE Cycles \/ NoRoll \/ CheckDeclickOut \/ StopOnce \/ PostTransport
  BY <1>9, <1>10 DEF Cycles, Overrun, Underrun, Play, Cycle, NoRoll, CheckDeclickOut,
                     StopOnce, PostTransport, butler, history
<1> QED
  BY <1>3, <1>4, <1>5, <1>6, <1>7, <1>8, <1>9, <1>10 DEF Next, Butler, vars

(* So every step keeps the types.                                          *)
LEMMA SoundKept ==
    ASSUME Inv, Sound, [Next]_vars
    PROVE  Sound'
<1>1. Within(t') /\ Numbers(d')
  BY WithinKept, NumbersKept
<1> QED BY <1>1, RingsKept, PlacesKept DEF Sound

(* Every position, frame and place is of its type, and no capture without  *)
(* a frame is finished, whatever the sizes and the latencies.              *)
THEOREM TypeCorrect == Spec => []TypeOK
<1>1. Init => Inv /\ Sound
  BY Initially, SoundInitially
<1>2. Inv /\ Sound /\ [Next]_vars => (Inv /\ Sound)'
  BY NextKeeps, SoundKept
<1> QED BY <1>1, <1>2, SoundTypes, PTL DEF Spec

-----------------------------------------------------------------------------
(* Induction on a set                                                      *)
LEMMA UpTo ==
    ASSUME NEW n \in Nat, NEW S, 0 \in S, \A k \in 0 .. n - 1 : k \in S => k + 1 \in S
    PROVE  0 .. n \subseteq S
<1> DEFINE bad == {k \in 0 .. n : k \notin S}
           Less == OpToRel(<, Nat)
<1>1. \A i, j \in Nat : i < j => <<i, j>> \in Less
  BY DEF OpToRel
<1>2. IsWellFoundedOn(Less, Nat)
  BY NatLessThanWellFounded
<1> HIDE DEF Less
<1>3. ASSUME bad # {} PROVE FALSE
  <2>0. bad \subseteq Nat
    OBVIOUS
  <2> HIDE DEF bad
  <2>1. PICK m \in bad : \A k \in bad : ~ (<<k, m>> \in Less)
    BY <1>2, <1>3, <2>0, WFMin
  <2>2. m \in 0 .. n /\ m \notin S
    BY <2>1 DEF bad
  <2>3. m # 0
    BY <2>2
  <2>4. m - 1 \in 0 .. n - 1 /\ m - 1 \in Nat /\ m - 1 < m /\ m - 1 \in 0 .. n /\ m \in Nat
    BY <2>2, <2>3
  <2>5. m - 1 \notin bad
    BY <1>1, <2>1, <2>4
  <2>6. m - 1 \in S
    BY <2>4, <2>5 DEF bad
  <2>7. (m - 1) + 1 \in S
    BY <2>4, <2>6
  <2>8. (m - 1) + 1 = m
    BY <2>4
  <2> QED BY <2>2, <2>7, <2>8
<1> QED BY <1>3

(* FramesBefore is the sum of the frames before.                           *)
SumTo(infos, f, n) ==
    f = [k \in 0 .. n |-> IF k = 0 THEN 0 ELSE f[k - 1] + infos[k].frames]

(* The sums FramesBefore is defined by exist,                              *)
LEMMA SumExists ==
    ASSUME NEW infos, NEW n \in Nat
    PROVE  \E f : SumTo(infos, f, n)
<1> DEFINE S == {k \in Nat : \E f : SumTo(infos, f, k)}
<1>1. 0 \in S
  <2> DEFINE f == [k \in 0 .. 0 |-> 0]
  <2>1. \A k \in 0 .. 0 : k = 0
    OBVIOUS
  <2>2. f = [k \in 0 .. 0 |-> IF k = 0 THEN 0 ELSE f[k - 1] + infos[k].frames]
    BY <2>1
  <2> HIDE DEF f
  <2>3. SumTo(infos, f, 0)
    BY <2>2, Zenon DEF SumTo
  <2> QED BY <2>3
<1>2. ASSUME NEW k \in 0 .. n - 1, k \in S PROVE k + 1 \in S
  <2>1. k \in Nat /\ k + 1 \in Nat
    OBVIOUS
  <2>2. PICK f : SumTo(infos, f, k)
    BY <1>2
  <2>3. f = [j \in 0 .. k |-> IF j = 0 THEN 0 ELSE f[j - 1] + infos[j].frames]
    BY <2>2, Zenon DEF SumTo
  <2> DEFINE g == [j \in 0 .. k + 1 |-> IF j = k + 1 THEN f[k] + infos[k + 1].frames ELSE f[j]]
             h == [j \in 0 .. k + 1 |-> IF j = 0 THEN 0 ELSE g[j - 1] + infos[j].frames]
  <2>4. ASSUME NEW j \in 0 .. k + 1 PROVE g[j] = h[j]
    <3>1. CASE j = 0
      <4>1. f[0] = 0 /\ 0 # k + 1
        BY <2>1, <2>3
      <4> QED BY <2>1, <3>1, <4>1
    <3>2. CASE j = k + 1
      <4>1. j - 1 = k /\ k \in 0 .. k + 1 /\ k # k + 1 /\ j # 0
        BY <2>1, <3>2
      <4>2. g[j - 1] = f[k]
        BY <4>1
      <4>3. g[j] = f[k] + infos[j].frames /\ h[j] = g[j - 1] + infos[j].frames
        BY <3>2, <4>1
      <4> QED BY <4>2, <4>3
    <3>3. CASE j # 0 /\ j # k + 1
      <4>1. j \in 0 .. k /\ j - 1 \in 0 .. k + 1 /\ j - 1 # k + 1
        BY <2>1, <3>3
      <4>2. f[j] = f[j - 1] + infos[j].frames
        BY <2>3, <3>3, <4>1
      <4>3. g[j - 1] = f[j - 1] /\ g[j] = f[j] /\ h[j] = g[j - 1] + infos[j].frames
        BY <3>3, <4>1
      <4> QED BY <4>2, <4>3
    <3> QED BY <3>1, <3>2, <3>3
  <2>5. g = h
    BY <2>4
  <2> HIDE DEF g
  <2>6. SumTo(infos, g, k + 1)
    BY <2>5, Zenon DEF SumTo
  <2> QED BY <2>1, <2>6
<1> HIDE DEF S
<1>3. 0 .. n \subseteq S
  BY <1>1, <1>2, UpTo
<1>4. n \in S
  BY <1>3
<1> QED BY <1>4 DEF S

(* so that it adds up the captures one by one.                             *)
LEMMA FramesBeforeIs ==
    ASSUME NEW infos, Len(infos) \in Nat
    PROVE  /\ FramesBefore(infos, 1) = 0
           /\ \A i \in 1 .. Len(infos) :
                FramesBefore(infos, i + 1) = FramesBefore(infos, i) + infos[i].frames
<1> DEFINE n == Len(infos)
           f == CHOOSE g : SumTo(infos, g, n)
<1>1. SumTo(infos, f, n)
  BY SumExists
<1>2. \A i : FramesBefore(infos, i) = f[i - 1]
  BY DEF FramesBefore, SumTo
<1> HIDE DEF f, n
<1>3. f = [k \in 0 .. n |-> IF k = 0 THEN 0 ELSE f[k - 1] + infos[k].frames]
  BY <1>1, Zenon DEF SumTo
<1>4. n \in Nat
  BY DEF n
<1>5. f[1 - 1] = 0
  BY <1>3, <1>4
<1>6. ASSUME NEW i \in 1 .. n PROVE f[(i + 1) - 1] = f[i - 1] + infos[i].frames
  <2>1. i \in 0 .. n /\ i # 0 /\ (i + 1) - 1 = i
    BY <1>4
  <2> QED BY <1>3, <2>1
<1> QED BY <1>2, <1>5, <1>6 DEF n

(* A list of captures                                                      *)
LEMMA InfosAre ==
    ASSUME NEW infos \in Infos
    PROVE  /\ Len(infos) \in Nat /\ DOMAIN infos = 1 .. Len(infos)
           /\ \A i \in 1 .. Len(infos) : infos[i].frames \in Int /\ infos[i].start \in Int
<1>1. /\ Len(infos) \in Nat /\ DOMAIN infos = 1 .. Len(infos)
      /\ \A i \in 1 .. Len(infos) : infos[i] \in [start : Int, frames : Int]
  BY LenProperties, ElementOfSeq DEF Infos
<1> QED BY <1>1

(* The sums are integers.                                                  *)
LEMMA FramesBeforeType ==
    ASSUME NEW infos \in Infos
    PROVE  \A i \in 1 .. Len(infos) + 1 : FramesBefore(infos, i) \in Int
<1> DEFINE n == Len(infos)
           S == {k \in 0 .. n : FramesBefore(infos, k + 1) \in Int}
<1>1. n \in Nat /\ \A i \in 1 .. n : infos[i].frames \in Int
  BY InfosAre
<1>2. /\ FramesBefore(infos, 1) = 0
      /\ \A i \in 1 .. n : FramesBefore(infos, i + 1) = FramesBefore(infos, i) + infos[i].frames
  BY <1>1, FramesBeforeIs
<1> HIDE DEF n
<1>3. 0 \in S
  BY <1>1, <1>2
<1>4. ASSUME NEW k \in 0 .. n - 1, k \in S PROVE k + 1 \in S
  <2>1. k + 1 \in 1 .. n
    BY <1>1
  <2> QED BY <1>1, <1>2, <1>4, <2>1
<1> HIDE DEF S
<1>5. 0 .. n \subseteq S
  BY <1>1, <1>3, <1>4, UpTo
<1>6. ASSUME NEW i \in 1 .. n + 1 PROVE FramesBefore(infos, i) \in Int
  <2>1. i - 1 \in 0 .. n /\ (i - 1) + 1 = i
    BY <1>1
  <2>2. i - 1 \in S
    BY <1>5, <2>1
  <2> QED BY <2>1, <2>2 DEF S
<1> QED BY <1>6 DEF n

(* A capture's frames come before those of the captures after it.          *)
LEMMA FramesAdd ==
    ASSUME NEW infos \in Infos, \A i \in DOMAIN infos : infos[i].frames > 0
    PROVE  \A i \in 1 .. Len(infos) + 1 :
             /\ FramesBefore(infos, i) \in Nat
             /\ FramesBefore(infos, i) <= FramesBefore(infos, Len(infos) + 1)
<1> DEFINE n == Len(infos)
           F(i) == FramesBefore(infos, i)
           S == {k \in 0 .. n : F(k + 1) >= 0}
           T == {k \in 0 .. n : F(n + 1 - k) <= F(n + 1)}
<1>1. n \in Nat /\ \A i \in 1 .. n : infos[i].frames \in Int /\ infos[i].frames > 0
  BY InfosAre
<1>2. F(1) = 0 /\ \A i \in 1 .. n : F(i + 1) = F(i) + infos[i].frames
  BY <1>1, FramesBeforeIs
<1>3. \A i \in 1 .. n + 1 : F(i) \in Int
  BY FramesBeforeType
<1> HIDE DEF n, F
<1>4. 0 .. n \subseteq S
  <2>1. 0 \in S
    BY <1>1, <1>2
  <2>2. ASSUME NEW k \in 0 .. n - 1, k \in S PROVE k + 1 \in S
    <3>1. k + 1 \in 1 .. n /\ k + 1 \in 1 .. n + 1
      BY <1>1
    <3> QED BY <1>1, <1>2, <1>3, <2>2, <3>1
  <2> HIDE DEF S
  <2> QED BY <1>1, <2>1, <2>2, UpTo
<1>5. 0 .. n \subseteq T
  <2>1. 0 \in T
    BY <1>1, <1>3
  <2>2. ASSUME NEW k \in 0 .. n - 1, k \in T PROVE k + 1 \in T
    <3> DEFINE i == n + 1 - (k + 1)
    <3>1. i \in 1 .. n /\ i \in 1 .. n + 1 /\ i + 1 = n + 1 - k /\ i + 1 \in 1 .. n + 1
          /\ n + 1 \in 1 .. n + 1 /\ k + 1 \in 0 .. n
      BY <1>1
    <3> HIDE DEF i
    <3>2. F(i + 1) <= F(n + 1)
      BY <2>2, <3>1
    <3>3. F(i) <= F(n + 1)
      BY <1>1, <1>2, <1>3, <3>1, <3>2
    <3> QED BY <3>1, <3>3 DEF i
  <2> HIDE DEF T
  <2> QED BY <1>1, <2>1, <2>2, UpTo
<1>6. ASSUME NEW i \in 1 .. n + 1 PROVE F(i) \in Nat /\ F(i) <= F(n + 1)
  <2>1. i - 1 \in 0 .. n /\ (i - 1) + 1 = i /\ n + 1 - i \in 0 .. n
        /\ n + 1 - (n + 1 - i) = i
    BY <1>1
  <2>2. F(i) >= 0
    BY <1>4, <2>1
  <2>3. F(i) <= F(n + 1)
    BY <1>5, <2>1
  <2> QED BY <1>3, <2>2, <2>3
<1> QED BY <1>6 DEF n, F

(* What comes after a capture does not move it.                            *)
LEMMA SameBefore ==
    ASSUME NEW infos \in Infos, NEW one \in [start : Int, frames : Int]
    PROVE  \A i \in 1 .. Len(infos) + 1 :
             FramesBefore(Append(infos, one), i) = FramesBefore(infos, i)
<1> DEFINE n == Len(infos)
           more == Append(infos, one)
           S == {k \in 0 .. n : FramesBefore(more, k + 1) = FramesBefore(infos, k + 1)}
<1>1. /\ more \in Infos /\ Len(more) = n + 1
      /\ \A i \in 1 .. n : more[i] = infos[i]
  BY AppendProperties DEF Infos
<1>2. n \in Nat
  BY InfosAre
<1> HIDE DEF more
<1>3. /\ FramesBefore(infos, 1) = 0
      /\ \A i \in 1 .. n : FramesBefore(infos, i + 1) = FramesBefore(infos, i) + infos[i].frames
  BY <1>2, FramesBeforeIs
<1>4. /\ FramesBefore(more, 1) = 0
      /\ \A i \in 1 .. n + 1 : FramesBefore(more, i + 1) = FramesBefore(more, i) + more[i].frames
  BY <1>1, <1>2, FramesBeforeIs
<1> HIDE DEF n
<1>5. 0 \in S
  BY <1>2, <1>3, <1>4
<1>6. ASSUME NEW k \in 0 .. n - 1, k \in S PROVE k + 1 \in S
  <2>1. k + 1 \in 1 .. n /\ k + 1 \in 1 .. n + 1 /\ k + 1 \in 0 .. n
    BY <1>2
  <2> QED BY <1>1, <1>3, <1>4, <1>6, <2>1
<1> HIDE DEF S
<1>7. 0 .. n \subseteq S
  BY <1>2, <1>5, <1>6, UpTo
<1>8. ASSUME NEW i \in 1 .. n + 1 PROVE FramesBefore(more, i) = FramesBefore(infos, i)
  <2>1. i - 1 \in 0 .. n /\ (i - 1) + 1 = i
    BY <1>2
  <2>2. i - 1 \in S
    BY <1>7, <2>1
  <2> QED BY <2>1, <2>2 DEF S
<1> QED BY <1>8 DEF n, more

(* The captures before one that goes on, and the frames of that one        *)
Going(data, infos, start, count) ==
    LET before == FramesBefore(infos, Len(infos) + 1)
    IN  /\ Len(data) = before + count
        /\ \A i \in 1 .. Len(infos) : \A k \in 1 .. infos[i].frames :
             data[FramesBefore(infos, i) + k] = infos[i].start + Alignment + k - 1
        /\ \A k \in 1 .. count : data[before + k] = start + Alignment + k - 1

(* InOrder, with the capture that goes on told apart from the others       *)
LEMMA GoingIs ==
    ASSUME NEW e \in Streams, Numbers(e), NEW data
    PROVE  InOrder(data, Captures(e)) <=> Going(data, e.infos, e.start, e.captured)
<1> DEFINE infos == e.infos
           n == Len(infos)
           before == FramesBefore(infos, n + 1)
<1>1. infos \in Infos /\ e.captured \in Nat /\ e.start \in Int
  BY DEF Streams, Numbers
<1>2. n \in Nat /\ DOMAIN infos = 1 .. n
  BY <1>1, InfosAre
<1>3. before \in Int
  BY <1>1, <1>2, FramesBeforeType
<1>4. CASE e.captured = 0
  <2>1. Captures(e) = infos
    BY <1>4 DEF Captures
  <2>2. \A k \in 1 .. e.captured : FALSE
    BY <1>4
  <2>3. before + e.captured = before
    BY <1>3, <1>4
  <2> HIDE DEF infos
  <2>4. InOrder(data, infos) <=> Going(data, infos, e.start, e.captured)
    BY <1>2, <2>2, <2>3 DEF InOrder, Going
  <2> QED BY <2>1, <2>4 DEF infos
<1>5. CASE e.captured # 0
  <2> DEFINE one == [start |-> e.start, frames |-> e.captured]
             more == Append(infos, one)
  <2>1. Captures(e) = more
    BY <1>5 DEF Captures
  <2>2. one \in [start : Int, frames : Int] /\ one.start = e.start /\ one.frames = e.captured
    BY <1>1
  <2> HIDE DEF infos, one
  <2>3. /\ more \in Infos /\ Len(more) = n + 1
        /\ \A i \in 1 .. n : more[i] = infos[i]
        /\ more[n + 1] = one
    BY <1>1, <2>2, AppendProperties DEF Infos
  <2>4. \A i \in 1 .. n + 1 : FramesBefore(more, i) = FramesBefore(infos, i)
    BY <1>1, <2>2, SameBefore
  <2> HIDE DEF more
  <2>5. DOMAIN more = 1 .. n + 1
    BY <2>3, InfosAre
  <2>6. FramesBefore(more, (n + 1) + 1) = before + e.captured
    <3>1. n + 1 \in 1 .. Len(more) /\ Len(more) \in Nat
      BY <1>2, <2>3
    <3>2. FramesBefore(more, (n + 1) + 1) = FramesBefore(more, n + 1) + more[n + 1].frames
      BY <3>1, FramesBeforeIs
    <3>3. n + 1 \in 1 .. n + 1
      BY <1>2
    <3> QED BY <2>2, <2>3, <2>4, <3>2, <3>3
  <2>7. InOrder(data, more) <=> Going(data, infos, e.start, e.captured)
    <3> DEFINE Right(i) == \A k \in 1 .. more[i].frames :
                 data[FramesBefore(more, i) + k] = more[i].start + Alignment + k - 1
    <3>1. InOrder(data, more) <=> /\ Len(data) = before + e.captured
                                  /\ \A i \in 1 .. n + 1 : Right(i)
      BY <2>3, <2>5, <2>6 DEF InOrder
    <3>2. \A i \in 1 .. n :
            Right(i) <=> \A k \in 1 .. infos[i].frames :
                 data[FramesBefore(infos, i) + k] = infos[i].start + Alignment + k - 1
      <4>1. \A i \in 1 .. n : i \in 1 .. n + 1
        BY <1>2
      <4> QED BY <2>3, <2>4, <4>1
    <3>3. Right(n + 1) <=> \A k \in 1 .. e.captured :
                             data[before + k] = e.start + Alignment + k - 1
      <4>1. n + 1 \in 1 .. n + 1
        BY <1>2
      <4> QED BY <2>2, <2>3, <2>4, <4>1
    <3> HIDE DEF Right
    <3>4. (\A i \in 1 .. n + 1 : Right(i)) <=> (\A i \in 1 .. n : Right(i)) /\ Right(n + 1)
      <4>1. \A i \in 1 .. n + 1 : i \in 1 .. n \/ i = n + 1
        BY <1>2
      <4>2. \A i \in 1 .. n : i \in 1 .. n + 1
        BY <1>2
      <4>3. n + 1 \in 1 .. n + 1
        BY <1>2
      <4> QED BY <4>1, <4>2, <4>3
    <3> QED BY <3>1, <3>2, <3>3, <3>4 DEF Going
  <2> QED BY <2>1, <2>7 DEF infos
<1> QED BY <1>4, <1>5

(* Frames that follow those that a capture has                             *)
LEMMA GoesOn ==
    ASSUME NEW infos \in Infos, \A i \in DOMAIN infos : infos[i].frames > 0,
           NEW start \in Int, NEW count \in Nat, NEW data \in Seq(Int), NEW n \in Nat,
           NEW more \in Seq(Int), Len(more) = n,
           \A k \in 1 .. n : more[k] = (start + Alignment + count) + k - 1,
           Going(data, infos, start, count)
    PROVE  Going(data \o more, infos, start, count + n)
<1> DEFINE before == FramesBefore(infos, Len(infos) + 1)
           all == data \o more
           F(i) == FramesBefore(infos, i)
<1>1. Len(infos) \in Nat /\ DOMAIN infos = 1 .. Len(infos)
      /\ \A i \in 1 .. Len(infos) : infos[i].frames \in Int
  BY InfosAre
<1>2. \A i \in 1 .. Len(infos) + 1 : F(i) \in Nat /\ F(i) <= before
  BY FramesAdd
<1>3. \A i \in 1 .. Len(infos) : F(i + 1) = F(i) + infos[i].frames
  BY <1>1, FramesBeforeIs
<1>4. /\ Len(data) = before + count
      /\ \A i \in 1 .. Len(infos) : \A k \in 1 .. infos[i].frames :
           data[F(i) + k] = infos[i].start + Alignment + k - 1
      /\ \A k \in 1 .. count : data[before + k] = start + Alignment + k - 1
  BY DEF Going
<1>5. before \in Nat /\ Len(data) \in Nat
  BY <1>1, <1>2
<1>6. /\ Len(all) = Len(data) + n
      /\ \A k \in 1 .. Len(data) + n :
           all[k] = IF k <= Len(data) THEN data[k] ELSE more[k - Len(data)]
  BY ConcatProperties
<1> HIDE DEF before, all, F
<1>7. ASSUME NEW i \in 1 .. Len(infos), NEW k \in 1 .. infos[i].frames
      PROVE  all[F(i) + k] = infos[i].start + Alignment + k - 1
  <2>1. /\ i \in 1 .. Len(infos) + 1 /\ i + 1 \in 1 .. Len(infos) + 1
    BY <1>1
  <2>2. F(i) \in Nat /\ F(i + 1) <= before /\ F(i + 1) = F(i) + infos[i].frames
        /\ infos[i].frames \in Int /\ F(i + 1) \in Nat
    BY <1>1, <1>2, <1>3, <2>1
  <2>3. F(i) + k \in 1 .. Len(data) + n /\ F(i) + k <= Len(data)
    <3> DEFINE a == F(i)
               m == infos[i].frames
               len == Len(data)
    <3>1. k \in 1 .. m /\ m \in Int /\ a \in Nat /\ a + m <= before /\ len = before + count
          /\ before \in Nat /\ len \in Nat
      BY <1>4, <1>5, <2>2
    <3> HIDE DEF a, m, len
    <3>2. a + k \in 1 .. len + n /\ a + k <= len
      BY <3>1
    <3> QED BY <3>2 DEF a, len
  <2> QED BY <1>4, <1>6, <2>3
<1> DEFINE len == Len(data)
<1>8. ASSUME NEW k \in 1 .. count + n
      PROVE  all[before + k] = start + Alignment + k - 1
  <2> DEFINE j == before + k
             m == k - count
  <2>1. /\ len \in Nat /\ before \in Nat /\ len = before + count
        /\ \A i \in 1 .. len + n : all[i] = IF i <= len THEN data[i] ELSE more[i - len]
    BY <1>4, <1>5, <1>6
  <2> HIDE DEF len
  <2>2. j \in 1 .. len + n /\ (j <= len <=> k <= count) /\ j - len = m /\ k \in Nat
    BY <2>1
  <2>3. k <= count => k \in 1 .. count
    OBVIOUS
  <2>4. ~(k <= count) => m \in 1 .. n /\ (start + Alignment + count) + m - 1
                                             = start + Alignment + k - 1
    BY AlignmentIs
  <2> HIDE DEF j, m
  <2>5. CASE k <= count
    <3>1. all[j] = data[j]
      BY <2>1, <2>2, <2>5
    <3>2. data[j] = start + Alignment + k - 1
      BY <1>4, <2>3, <2>5 DEF j
    <3> QED BY <3>1, <3>2 DEF j
  <2>6. CASE ~(k <= count)
    <3>1. all[j] = more[m]
      BY <2>1, <2>2, <2>6
    <3>2. more[m] = (start + Alignment + count) + m - 1
      BY <2>4, <2>6
    <3> QED BY <2>4, <2>6, <3>1, <3>2 DEF j
  <2> QED BY <2>5, <2>6
<1>9. Len(all) = before + (count + n)
  BY <1>4, <1>5, <1>6
<1> QED BY <1>7, <1>8, <1>9 DEF Going, before, all, F

(* The regions are those of the captures.                                  *)
LEMMA RegionsAre ==
    ASSUME NEW infos \in Infos, \A i \in DOMAIN infos : infos[i].frames > 0,
           NEW data, InOrder(data, infos), NEW i \in DOMAIN infos
    PROVE  AsRecorded(RegionOf(infos, data, i))
<1> DEFINE at == FramesBefore(infos, i)
           n == infos[i].frames
           plays == [k \in 1 .. n |-> IF at + k <= Len(data) THEN data[at + k] ELSE Nothing]
<1>1. Len(infos) \in Nat /\ DOMAIN infos = 1 .. Len(infos) /\ i \in 1 .. Len(infos)
      /\ n \in Int /\ infos[i].start \in Int
  BY InfosAre
<1>2. i \in 1 .. Len(infos) + 1 /\ i + 1 \in 1 .. Len(infos) + 1
  BY <1>1
<1>3. /\ at \in Nat /\ FramesBefore(infos, i + 1) <= FramesBefore(infos, Len(infos) + 1)
      /\ FramesBefore(infos, i + 1) = at + n
      /\ Len(data) = FramesBefore(infos, Len(infos) + 1)
  BY <1>1, <1>2, FramesAdd, FramesBeforeIs DEF InOrder
<1>4. FramesBefore(infos, Len(infos) + 1) \in Nat
  <2>1. Len(infos) + 1 \in 1 .. Len(infos) + 1
    BY <1>1
  <2> QED BY <2>1, FramesAdd
<1>5. ASSUME NEW k \in 1 .. n
      PROVE  plays[k] = infos[i].start + Alignment + k - 1
  <2>1. at + k <= Len(data)
    BY <1>1, <1>3, <1>4
  <2>2. data[at + k] = infos[i].start + Alignment + k - 1
    BY DEF InOrder
  <2> QED BY <2>1, <2>2
<1>6. RegionOf(infos, data, i) = <<infos[i].start, plays>>
  BY DEF RegionOf
<1> HIDE DEF plays
<1>7. DOMAIN plays = 1 .. n
  BY DEF plays
<1> QED BY <1>5, <1>6, <1>7 DEF AsRecorded

-----------------------------------------------------------------------------
(* What has been captured, in the file and in the ring                     *)
LEMMA CaptureNames ==
    /\ CR!Positions = C!Positions
    /\ \A r, w : CR!ReadSpace(r, w) = C!ReadSpace(r, w) /\ CR!WriteSpace(r, w) = C!WriteSpace(r, w)
                 /\ CR!Advanced(r, w) = C!Advanced(r, w)
                 /\ CR!WriteVector(r, w) = C!WriteVector(r, w)
                 /\ CR!ReadVector(r, w) = C!ReadVector(r, w)
    /\ \A cell, r, w : CR!Contents(cell, r, w) = C!Contents(cell, r, w)
    /\ \A cell, v, n : CR!Taken(cell, v, n) = C!Taken(cell, v, n)
    /\ \A cell, v, n, first : CR!Written(cell, v, n, first) = C!Written(cell, v, n, first)
BY DEF CR!Positions, C!Positions, CR!ReadSpace, C!ReadSpace, CR!WriteSpace, C!WriteSpace,
       CR!Advanced, C!Advanced, CR!WriteVector, C!WriteVector, CR!ReadVector, C!ReadVector,
       CR!Vector, C!Vector, CR!Contents, C!Contents, CR!Taken, C!Taken, CR!Written, C!Written,
       CR!Stored, C!Stored

Integral == [C!Positions -> Int]

(* What the capture ring holds                                             *)
LEMMA ContentsInts ==
    ASSUME NEW r \in C!Positions, NEW w \in C!Positions, NEW cell \in Integral
    PROVE  C!Contents(cell, r, w) \in Seq(Int)
BY CaptureCells, CaptureNames, CR!ContentsAre DEF Integral

(* A cycle appends to it.                                                  *)
LEMMA CaptureWriting ==
    ASSUME NEW r \in C!Positions, NEW w \in C!Positions, NEW n \in 0 .. C!WriteSpace(r, w),
           NEW cell \in Integral, NEW first \in Int
    PROVE  C!Contents(C!Written(cell, C!WriteVector(r, w), n, first), r, C!Advanced(w, n)) =
             C!Contents(cell, r, w) \o CR!Contiguous(first, n)
<1> DEFINE v == C!WriteVector(r, w)
           end == C!Advanced(w, n)
           new == C!Written(cell, v, n, first)
<1>1. CR!HasCells /\ r \in CR!Positions /\ w \in CR!Positions /\ cell \in [CR!Positions -> Int]
      /\ n \in 0 .. CR!WriteSpace(r, w)
  BY CaptureCells, CaptureNames DEF Integral
<1>2. CR!Contents(CR!Written(cell, CR!WriteVector(r, w), n, first), r, CR!Advanced(w, n)) =
        CR!Contents(cell, r, w) \o CR!Contiguous(first, n)
  BY <1>1, CR!WritingAppends
<1>3. CR!WriteVector(r, w) = v /\ CR!Advanced(w, n) = end
  BY CaptureNames
<1>4. CR!Written(cell, v, n, first) = new
  BY CaptureNames
<1>5. CR!Contents(new, r, end) = C!Contents(new, r, end)
      /\ CR!Contents(cell, r, w) = C!Contents(cell, r, w)
  BY CaptureNames
<1> QED BY <1>2, <1>3, <1>4, <1>5

(* do_flush takes from its beginning.                                      *)
LEMMA CaptureTaking ==
    ASSUME NEW r \in C!Positions, NEW w \in C!Positions, NEW n \in 0 .. C!ReadSpace(r, w),
           NEW cell \in Integral
    PROVE  /\ C!Taken(cell, C!ReadVector(r, w), n) \in Seq(Int)
           /\ C!Contents(cell, r, w) =
                C!Taken(cell, C!ReadVector(r, w), n) \o C!Contents(cell, C!Advanced(r, n), w)
<1> DEFINE v == C!ReadVector(r, w)
           end == C!Advanced(r, n)
<1>1. CR!HasCells /\ r \in CR!Positions /\ w \in CR!Positions /\ cell \in [CR!Positions -> Int]
      /\ n \in 0 .. CR!ReadSpace(r, w)
  BY CaptureCells, CaptureNames DEF Integral
<1>2. /\ CR!Taken(cell, CR!ReadVector(r, w), n) \in Seq(Int)
      /\ CR!Contents(cell, r, w) =
           CR!Taken(cell, CR!ReadVector(r, w), n) \o CR!Contents(cell, CR!Advanced(r, n), w)
  BY <1>1, CR!TakingShortens
<1>3. CR!ReadVector(r, w) = v /\ CR!Advanced(r, n) = end
  BY CaptureNames
<1>4. CR!Taken(cell, v, n) = C!Taken(cell, v, n)
  BY CaptureNames
<1>5. CR!Contents(cell, end, w) = C!Contents(cell, end, w)
      /\ CR!Contents(cell, r, w) = C!Contents(cell, r, w)
  BY CaptureNames
<1> QED BY <1>2, <1>3, <1>4, <1>5

(* There is nothing in it when the two positions meet.                     *)
LEMMA CaptureNothing ==
    ASSUME NEW w \in C!Positions, NEW cell
    PROVE  C!ReadSpace(w, w) = 0 /\ C!Contents(cell, w, w) = <<>>
BY CaptureCells, CaptureNames, CR!NothingLeft

(* Consecutive frames, as a sequence                                       *)
LEMMA CaptureContiguous ==
    ASSUME NEW first \in Int, NEW n \in Nat
    PROVE  /\ CR!Contiguous(first, n) \in Seq(Int) /\ Len(CR!Contiguous(first, n)) = n
           /\ \A k \in 1 .. n : CR!Contiguous(first, n)[k] = first + k - 1
BY CR!ContiguousIs

(* The two parts of a read vector are all there is to read.                *)
LEMMA VectorIsSpace ==
    ASSUME NEW r \in C!Positions, NEW w \in C!Positions
    PROVE  C!ReadVector(r, w)[1].len + C!ReadVector(r, w)[2].len = C!ReadSpace(r, w)
<1>1. C!ReadSpace(r, w) \in 0 .. CaptureSize - 1
  BY CaptureSpaces
<1>2. C!ReadVector(r, w) = C!Vector(r, C!ReadSpace(r, w))
  BY DEF C!ReadVector
<1>3. ASSUME NEW n \in 0 .. CaptureSize - 1
      PROVE  C!Vector(r, n)[1].len + C!Vector(r, n)[2].len = n
  BY CaptureCells, CR!VectorGoesRound DEF C!Positions, CR!Positions, C!Vector, CR!Vector
<1> QED BY <1>1, <1>2, <1>3

(* Sequences of frames can be joined in any order.                         *)
LEMMA Joining ==
    ASSUME NEW a \in Seq(Int), NEW b \in Seq(Int), NEW c \in Seq(Int)
    PROVE  (a \o b) \o c = a \o (b \o c) /\ a \o b \in Seq(Int)
BY ConcatAssociative, ConcatProperties

(* do_flush takes what is in front of it.                                  *)
LEMMA FlushTakes ==
    ASSUME Rings, file \in Seq(Int), DoFlush
    PROVE  file' \in Seq(Int) /\ Flushed' = Flushed
<1> DEFINE total == C!ReadSpace(cr, cw)
           seen == C!ReadVector(cr, cw)
           first == Least(Chunk, seen[1].len)
           second == IF first = seen[1].len /\ total > first /\ first < Chunk
                     THEN Least(Chunk - first, seen[2].len) ELSE 0
           n == first + second
           taken == C!Taken(ccell, seen, n)
           had == C!Contents(ccell, cr, cw)
           has == C!Contents(ccell, C!Advanced(cr, n), cw)
<1>1. cr \in C!Positions /\ cw \in C!Positions /\ ccell \in Integral
  BY DEF Rings, Integral, Frame, Nothing
<1>2. cw' = cw /\ ccell' = ccell
  BY DEF DoFlush
<1>3. \/ file' = file /\ cr' = cr
      \/ file' = file \o taken /\ cr' = C!Advanced(cr, n)
  BY DEF DoFlush
<1>4. n \in 0 .. total
  <2>1. seen[1].len \in Nat /\ seen[2].len \in Nat /\ seen[1].len + seen[2].len = total
        /\ Chunk \in Nat
    BY <1>1, CaptureVectors, VectorIsSpace, SizesAssumption
  <2> HIDE DEF seen, total
  <2> QED BY <2>1 DEF Least
<1> HIDE DEF n
<1>5. taken \in Seq(Int) /\ had = taken \o has
  BY <1>1, <1>4, CaptureTaking
<1>6. C!Advanced(cr, n) \in C!Positions
  <2>1. n \in Int
    BY <1>4
  <2> QED BY <1>1, <2>1, CaptureAround
<1>7. has \in Seq(Int)
  BY <1>1, <1>6, ContentsInts
<1>8. CASE file' = file /\ cr' = cr
  BY <1>2, <1>8 DEF Flushed
<1>9. CASE file' = file \o taken /\ cr' = C!Advanced(cr, n)
  <2>1. Flushed' = (file \o taken) \o has /\ Flushed = file \o had
    BY <1>2, <1>9 DEF Flushed
  <2> HIDE DEF taken, has, had
  <2>2. (file \o taken) \o has = file \o (taken \o has)
    BY <1>5, <1>7, Joining
  <2>3. file \o taken \in Seq(Int)
    BY <1>5, Joining
  <2> QED BY <1>5, <1>9, <2>1, <2>2, <2>3
<1> QED BY <1>3, <1>8, <1>9

(* A cycle adds what comes in.                                             *)
LEMMA PlayAdds ==
    ASSUME Rings, file \in Seq(Int), NEW n \in Nat, NEW at \in Int, NEW count \in Nat,
           count <= C!WriteSpace(cr, cw), file' = file, cr' = cr,
           ccell' = C!Written(ccell, C!WriteVector(cr, cw), count, at),
           cw' = C!Advanced(cw, count)
    PROVE  Flushed \in Seq(Int) /\ Flushed' = Flushed \o CR!Contiguous(at, count)
<1>1. cr \in C!Positions /\ cw \in C!Positions /\ ccell \in Integral
  BY DEF Rings, Integral, Frame, Nothing
<1> DEFINE had == C!Contents(ccell, cr, cw)
           new == CR!Contiguous(at, count)
<1>2. count \in 0 .. C!WriteSpace(cr, cw)
  BY <1>1, CaptureSpaces
<1>3. C!Contents(C!Written(ccell, C!WriteVector(cr, cw), count, at), cr, C!Advanced(cw, count))
        = had \o new
  BY <1>1, <1>2, CaptureWriting
<1>4. had \in Seq(Int) /\ new \in Seq(Int)
  BY <1>1, ContentsInts, CaptureContiguous
<1> HIDE DEF had, new
<1>5. Flushed' = file \o (had \o new)
  BY <1>3 DEF Flushed
<1>6. Flushed = file \o had
  BY DEF Flushed, had
<1>7. file \o (had \o new) = (file \o had) \o new /\ file \o had \in Seq(Int)
  BY <1>4, Joining
<1> QED BY <1>5, <1>6, <1>7 DEF new

-----------------------------------------------------------------------------
(* The take.  What stops the transport is at work until it is finished.    *)
StopComing(s) == \/ "Stop" \in s.work /\ s.requested
                 \/ bpc \in {"locate", "stop"} /\ "Stop" \in ptw
Idle(e) == e.captured = 0 /\ ~e.recording
Working(s, e) ==
    /\ "Stop" \in s.work => ~s.rolling
    /\ s.declicked => s.rolling /\ s.declick # "none"
    /\ AtTransportWork => ptw \subseteq s.work
    /\ ~s.rolling => StopComing(s) \/ (e.first = MaxFrames /\ Idle(e))

(* While it rolls, what lies between the first recordable frame and where  *)
(* the transport is, is captured, unless the take is over.                 *)
Between(f, first, last) == IF f < first THEN first ELSE IF f > last THEN last ELSE f
Reached(s, e) ==
    /\ e.first = e.start + Alignment
    /\ e.recording <=> e.captured > 0
    /\ \/ e.captured = Between(s.frame, e.first, Last(e)) - e.first
       \/ CaptureOffset = 0 /\ s.frame >= Last(e) /\ ~FullyRecEnabled(e.was)
Ending(s, e) ==
    FullyRecEnabled(e.was) =>
        \/ Last(e) = MaxFrames
        \/ s.pendingCapture
        \/ /\ s.declick = "stop" /\ (OutputLatency <= Block \/ ~s.rec)
           /\ s.declicked \/ s.frame <= Last(e)
Take(s, e) ==
    s.rolling =>
        IF e.first = MaxFrames THEN Idle(e)
        ELSE Reached(s, e) /\ Ending(s, e) /\ e.start < s.frame
             /\ (s.rec => FullyRecEnabled(e.was))

(* A locate that is to be declicked found no take begun.                   *)
NotBegun(s, e) ==
    s.rolling /\ s.declick = "locate" /\ (~s.declicked \/ ~s.rec) => e.first = MaxFrames

(* While it rolls, the armed track records when the session does.          *)
LEMMA NowIs ==
    ASSUME d \in Streams, t \in Moments
    PROVE  /\ (FullyRecEnabled(t) <=> FullyRecEnabled(Now))
           /\ (t.rolling => (FullyRecEnabled(Now) <=> t.rec))
BY DEF FullyRecEnabled, Now

(* What a stream has captured depends on three of its fields.              *)
LEMMA SameCaptures ==
    ASSUME NEW e, NEW f, f.captured = e.captured, f.infos = e.infos,
           e.captured # 0 => f.start = e.start
    PROVE  Captures(f) = Captures(e)
BY DEF Captures

(* The take as process finds it                                            *)
LEMMA CheckedTake ==
    ASSUME d \in Streams, t \in Moments, Numbers(d), Within(t), Take(t, d),
           t.rolling = TRUE, t.declicked = FALSE, ~Reopens(Checked)
    PROVE  LET e == Checked
           IN  /\ Captures(e) = Captures(d)
               /\ ~t.rec => e.first = d.first
               /\ IF e.first = MaxFrames THEN Idle(e)
                  ELSE /\ Reached(t, e) /\ Ending(t, e) /\ e.start <= t.frame
                       /\ t.rec => FullyRecEnabled(e.was)
<1> DEFINE e == Checked
<1>1. /\ e \in Streams /\ e.captured = d.captured /\ e.recording = d.recording
      /\ e.infos = d.infos /\ e.was = Now /\ e.first <= e.last
      /\ CASE d.was # Now /\ FullyRecEnabled(t) ->
                e.first = t.frame + Alignment /\ e.last = MaxFrames /\ e.start = t.frame
           [] d.was # Now /\ ~FullyRecEnabled(t) /\ FullyRecEnabled(d.was) /\ t.rolling ->
                /\ e.first = d.first /\ e.start = d.start
                /\ e.last = IF t.frame + Alignment < d.first THEN MaxFrames
                            ELSE t.frame + Alignment
           [] OTHER -> e.first = d.first /\ e.last = Last(d) /\ e.start = d.start
  BY CheckedIs
<1>2. /\ (FullyRecEnabled(t) <=> FullyRecEnabled(Now))
      /\ (t.rolling => (FullyRecEnabled(Now) <=> t.rec))
  BY NowIs
<1>3. /\ t.frame \in 0 .. LastFrame /\ d.first \in 0 .. MaxFrames /\ d.last \in Nat
      /\ d.start \in Nat /\ d.captured \in Nat
  BY DEF Within, Numbers
<1>4. e.first \in Int /\ e.last \in Int /\ e.start \in Int
  BY <1>1 DEF Streams
<1>5. Last(e) = e.last
  BY <1>1, <1>4 DEF Last
<1>6. IF d.first = MaxFrames THEN Idle(d)
      ELSE Reached(t, d) /\ Ending(t, d) /\ d.start < t.frame
           /\ (t.rec => FullyRecEnabled(d.was))
  BY DEF Take
<1>7. FullyRecEnabled(t) <=> t.rec
  BY DEF FullyRecEnabled
<1> HIDE DEF e
<1>8. CASE d.was # Now /\ FullyRecEnabled(t)
  <2>1. d.first = MaxFrames /\ d.captured = 0 /\ ~d.recording
    <3>1. CASE d.first # MaxFrames
      <4>1. FullyRecEnabled(d.was)
        BY <1>6, <1>7, <1>8, <3>1
      <4>2. d.was \in Transports /\ Now \in Transports
        BY DEF Streams, Now, Transports, Moments
      <4>3. d.was = Now
        <5>1. d.was.rolling /\ d.was.rec /\ Now.rolling /\ Now.rec
          BY <4>1, <1>2, <1>8, Zenon DEF FullyRecEnabled
        <5>2. \A u, v \in Transports : u.rolling /\ u.rec /\ v.rolling /\ v.rec => u = v
          BY DEF Transports
        <5> QED BY <4>2, <5>1, <5>2
      <4> QED BY <1>8, <4>3
    <3> QED BY <1>6, <3>1 DEF Idle
  <2>2. e.first = t.frame + Alignment /\ e.last = MaxFrames /\ e.start = t.frame
    BY <1>1, <1>8
  <2>3. Captures(e) = Captures(d)
    BY <1>1, <2>1, SameCaptures
  <2>4. e.first # MaxFrames /\ t.frame <= e.first /\ e.first < MaxFrames
    BY <1>3, <2>2, AlignmentIs
  <2>5. Reached(t, e)
    BY <1>1, <1>3, <1>4, <1>5, <2>1, <2>2, <2>4 DEF Reached, Between
  <2>6. Ending(t, e)
    BY <1>4, <1>5, <2>2, <2>4 DEF Ending
  <2>7. FullyRecEnabled(e.was) /\ e.start <= t.frame
    <3>1. FullyRecEnabled(e.was)
      BY <1>1, <1>2, <1>8, Zenon
    <3> QED BY <1>3, <2>2, <3>1
  <2> QED BY <1>7, <1>8, <2>3, <2>4, <2>5, <2>6, <2>7 DEF e
<1>9. CASE d.was # Now /\ ~FullyRecEnabled(t) /\ FullyRecEnabled(d.was)
  <2>1. /\ e.first = d.first /\ e.start = d.start
        /\ e.last = IF t.frame + Alignment < d.first THEN MaxFrames ELSE t.frame + Alignment
    BY <1>1, <1>9
  <2>2. Captures(e) = Captures(d)
    BY <1>1, <2>1, SameCaptures
  <2>3. ~FullyRecEnabled(e.was) /\ ~t.rec
    BY <1>1, <1>2, <1>7, <1>9, Zenon
  <2>4. CASE e.first = MaxFrames
    BY <1>1, <1>6, <2>1, <2>2, <2>3, <2>4 DEF Idle, e
  <2>5. CASE e.first # MaxFrames
    <3>1. Reached(t, d) /\ Ending(t, d) /\ d.start < t.frame
      BY <1>6, <2>1, <2>5
    <3>2. e.last = t.frame + Alignment /\ e.last > e.first /\ Alignment \in Nat
      BY <1>3, <2>1, <3>1, AlignmentIs DEF Reached
    <3>3. e.captured = Between(t.frame, e.first, Last(e)) - e.first
      <4>1. d.captured = Between(t.frame, d.first, Last(d)) - d.first
        BY <1>9, <3>1 DEF Reached
      <4>2. Last(d) = MaxFrames \/ t.frame <= Last(d)
        <5>1. CASE t.pendingCapture
          <6>1. Alignment > 0
            BY <5>1, SizesAssumption, LatencyAssumption DEF Within, Alignment, Greatest
          <6>2. ~(Last(d) < t.frame /\ t.frame < e.last)
            BY <2>1, <2>5 DEF Reopens, e
          <6>3. Last(d) \in Int
            BY <1>3, AlignmentIs DEF Last
          <6> QED BY <1>3, <3>2, <6>1, <6>2, <6>3
        <5> QED BY <1>9, <3>1, <5>1 DEF Ending
      <4>3. Last(d) \in Int /\ t.frame < MaxFrames
        BY <1>3, AlignmentIs DEF Last
      <4> QED BY <1>1, <1>3, <1>5, <2>1, <3>2, <4>1, <4>2, <4>3 DEF Between
    <3>4. Reached(t, e)
      BY <1>1, <2>1, <3>1, <3>3 DEF Reached
    <3>5. Ending(t, e)
      BY <1>5, <2>3, <3>2 DEF Ending
    <3> QED BY <1>3, <2>1, <2>2, <2>3, <2>5, <3>1, <3>4, <3>5 DEF e
  <2> QED BY <2>4, <2>5
<1>10. CASE /\ ~(d.was # Now /\ FullyRecEnabled(t))
            /\ ~(d.was # Now /\ ~FullyRecEnabled(t) /\ FullyRecEnabled(d.was))
  <2>1. e.first = d.first /\ e.last = Last(d) /\ e.start = d.start
    BY <1>1, <1>10
  <2>2. Captures(e) = Captures(d)
    BY <1>1, <2>1, SameCaptures
  <2>3. FullyRecEnabled(e.was) <=> FullyRecEnabled(d.was)
    <3>1. t.rolling
      OBVIOUS
    <3>2. CASE d.was = Now
      BY <1>1, <3>2, Zenon
    <3>3. CASE d.was # Now
      <4>1. ~FullyRecEnabled(Now) /\ ~FullyRecEnabled(d.was)
        BY <1>2, <1>10, <3>3, Zenon
      <4> QED BY <1>1, <4>1, Zenon
    <3> QED BY <3>2, <3>3
  <2>4. CASE e.first = MaxFrames
    BY <1>1, <1>6, <2>1, <2>2, <2>4 DEF Idle, e
  <2>5. CASE e.first # MaxFrames
    <3>1. Reached(t, d) /\ Ending(t, d) /\ d.start < t.frame /\ (t.rec => FullyRecEnabled(d.was))
      BY <1>6, <2>1, <2>5
    <3>2. Last(e) = Last(d)
      BY <1>5, <2>1
    <3>3. Reached(t, e)
      BY <1>1, <2>1, <2>3, <3>1, <3>2 DEF Reached
    <3>4. Ending(t, e)
      BY <2>1, <2>3, <3>1, <3>2 DEF Ending
    <3> QED BY <1>3, <2>1, <2>2, <2>3, <2>5, <3>1, <3>3, <3>4 DEF e
  <2> QED BY <2>4, <2>5
<1> QED BY <1>8, <1>9, <1>10

(* What a cycle makes of the stream, if the input of all it records is kept *)
Counts(n) ==
    LET f == Prepared(n)
    IN  /\ d'.captured = f.captured + Recorded(n).count
        /\ d'.first = f.first /\ d'.last = f.last /\ d'.start = f.start
        /\ d'.recording = f.recording /\ d'.was = f.was /\ d'.infos = f.infos

(* A cycle that loses nothing takes the take along.                        *)
LEMMA Rolls ==
    ASSUME d \in Streams, t \in Moments, Numbers(d), Within(t), NEW n \in 1 .. Block,
           Cycle(n), Counts(n), Take(t, d), NotBegun(t, d), ~Reopens(Checked)
    PROVE  Take(t', d') /\ NotBegun(t', d')
<1> DEFINE e == Checked
           f == Prepared(n)
           count == Recorded(n).count
<1>1. /\ t'.frame = t.frame + n /\ t.frame + n <= LastFrame
      /\ t'.declicked = (t.declick # "none") /\ t'.declick = t.declick
      /\ t'.rolling = TRUE /\ t.rolling = TRUE /\ t.declicked = FALSE /\ t'.rec = t.rec
      /\ t'.pendingCapture = t.pendingCapture
  BY CycleFields
<1>2. n \in Nat /\ n > 0 /\ t.frame \in Nat
  BY SizesAssumption, AlignmentIs DEF Within
<1>3. /\ ~t.rec => e.first = d.first
      /\ IF e.first = MaxFrames THEN Idle(e)
         ELSE /\ Reached(t, e) /\ Ending(t, e) /\ e.start <= t.frame
              /\ t.rec => FullyRecEnabled(e.was)
  BY <1>1, CheckedTake
<1>4. /\ e.first \in 0 .. MaxFrames /\ e.last \in Nat /\ e.first <= e.last
      /\ e.start \in Nat /\ e.captured \in Nat /\ e.recording \in BOOLEAN
  <2>1. Numbers(e) /\ e \in Streams /\ e.first <= e.last
    BY PreparedNumbers, CheckedIs
  <2> HIDE DEF e
  <2> QED BY <2>1 DEF Numbers, Streams
<1>5. count \in Nat /\ count = Clamp(e, t.frame + n) - Clamp(e, t.frame)
  BY <1>2, RecordedIs
<1>6. /\ count > 0 /\ ~e.recording =>
           /\ f.first = e.first /\ f.last = e.last /\ f.start = e.start
           /\ f.was = e.was /\ f.infos = e.infos
           /\ f.captured = 0 /\ f.recording = TRUE
      /\ count = 0 /\ e.recording =>
           /\ f.first = MaxFrames /\ f.last = MaxFrames /\ f.start = e.start
           /\ f.was = e.was /\ f.infos = Captures(e)
           /\ f.captured = 0 /\ f.recording = FALSE
      /\ ~(count > 0 /\ ~e.recording) /\ ~(count = 0 /\ e.recording) => SameTake(e, f)
  BY PreparedIs
<1>7. /\ d'.captured = f.captured + count
      /\ d'.first = f.first /\ d'.last = f.last /\ d'.start = f.start
      /\ d'.recording = f.recording /\ d'.was = f.was
  BY DEF Counts
<1>16. d'.infos = f.infos
  BY DEF Counts
<1>8. MaxFrames \in Nat /\ LastFrame \in Nat /\ LastFrame < MaxFrames
  BY AlignmentIs
<1> HIDE DEF e, f, count
<1>9. Last(e) = e.last
  BY <1>4 DEF Last
<1>10. e.first = MaxFrames => d'.first = MaxFrames /\ Idle(d')
  <2> SUFFICES ASSUME e.first = MaxFrames PROVE d'.first = MaxFrames /\ Idle(d')
    OBVIOUS
  <2>1. count = 0
    BY <1>1, <1>2, <1>4, <1>5, <1>8 DEF Clamp
  <2>2. SameTake(e, f)
    BY <1>3, <1>6, <2>1 DEF Idle
  <2> QED BY <1>3, <1>4, <1>7, <2>1, <2>2 DEF Idle, SameTake
<1>11. NotBegun(t', d')
  <2> SUFFICES ASSUME t'.declick = "locate", ~t'.declicked \/ ~t'.rec
               PROVE  d'.first = MaxFrames
    BY DEF NotBegun
  <2>1. ~t.rec /\ t.declick = "locate" /\ ~t.declicked
    BY <1>1
  <2>2. d.first = MaxFrames
    BY <1>1, <2>1 DEF NotBegun
  <2> QED BY <1>3, <1>10, <2>1, <2>2
<1>12. CASE e.first = MaxFrames
  BY <1>10, <1>11, <1>12 DEF Take
<1>13. CASE e.first # MaxFrames /\ count = 0 /\ e.recording
  <2>1. d'.first = MaxFrames /\ d'.captured = 0 /\ d'.recording = FALSE
    BY <1>6, <1>7, <1>13
  <2> QED BY <1>11, <2>1 DEF Take, Idle
<1>14. CASE e.first # MaxFrames /\ ~(count = 0 /\ e.recording) /\ ~(t.frame >= e.last)
  <2>1. /\ Reached(t, e) /\ Ending(t, e) /\ e.start <= t.frame
        /\ t.rec => FullyRecEnabled(e.was)
    BY <1>3, <1>14
  <2>2. /\ e.first = e.start + Alignment
        /\ e.recording <=> e.captured > 0
        /\ e.captured = Clamp(e, t.frame) - e.first
    <3>1. e.captured = Between(t.frame, e.first, e.last) - e.first
      BY <1>9, <1>14, <2>1 DEF Reached
    <3> QED BY <2>1, <3>1 DEF Reached, Between, Clamp
  <2>3. /\ d'.first = e.first /\ d'.last = e.last /\ d'.start = e.start /\ d'.was = e.was
        /\ d'.captured = Clamp(e, t.frame + n) - e.first
        /\ d'.recording <=> d'.captured > 0
    <3>1. CASE count > 0 /\ ~e.recording
      <4>1. Clamp(e, t.frame) = e.first
        BY <1>2, <1>4, <2>2, <3>1 DEF Clamp
      <4>2. /\ d'.first = e.first /\ d'.last = e.last /\ d'.start = e.start /\ d'.was = e.was
            /\ d'.captured = count /\ d'.recording = TRUE
        BY <1>5, <1>6, <1>7, <3>1
      <4> QED BY <1>5, <3>1, <4>1, <4>2
    <3>2. CASE ~(count > 0 /\ ~e.recording)
      <4>1. /\ d'.first = e.first /\ d'.last = e.last /\ d'.start = e.start /\ d'.was = e.was
            /\ d'.captured = e.captured + count /\ d'.recording = e.recording
        BY <1>6, <1>7, <1>14, <3>2 DEF SameTake
      <4>2. Clamp(e, t.frame) \in Int /\ Clamp(e, t.frame + n) \in Int
        BY <1>2, <1>4 DEF Clamp
      <4> QED BY <1>4, <1>5, <1>14, <2>2, <3>2, <4>1, <4>2
    <3> QED BY <3>1, <3>2
  <2>4. Last(d') = Last(e)
    BY <2>3 DEF Last
  <2>5. Reached(t', d')
    <3>1. d'.captured = Between(t'.frame, d'.first, Last(d')) - d'.first
      BY <1>1, <1>9, <2>3, <2>4 DEF Between, Clamp
    <3> QED BY <2>2, <2>3, <3>1 DEF Reached
  <2>6. Ending(t', d')
    <3>1. FullyRecEnabled(d'.was) <=> FullyRecEnabled(e.was)
      BY <2>3
    <3> QED BY <1>1, <2>1, <2>3, <2>4, <3>1 DEF Ending
  <2>7. d'.start < t'.frame /\ (t'.rec => FullyRecEnabled(d'.was))
    BY <1>1, <1>2, <1>4, <2>1, <2>3
  <2> QED BY <1>11, <2>5, <2>6, <2>7, <2>3, <1>14 DEF Take
<1>15. CASE e.first # MaxFrames /\ ~(count = 0 /\ e.recording) /\ t.frame >= e.last
  <2>1. /\ Reached(t, e) /\ Ending(t, e) /\ e.start <= t.frame
        /\ t.rec => FullyRecEnabled(e.was)
    BY <1>3, <1>15
  <2>2. count = 0
    BY <1>2, <1>4, <1>5, <1>15 DEF Clamp
  <2>3. SameTake(e, f)
    BY <1>6, <1>15, <2>2
  <2>4. SameTake(e, d')
    BY <1>4, <1>7, <1>16, <2>2, <2>3 DEF SameTake
  <2>5. Last(d') = Last(e) /\ (FullyRecEnabled(d'.was) <=> FullyRecEnabled(e.was))
    BY <2>4 DEF Last, SameTake
  <2>6. Reached(t', d')
    <3>1. e.captured = Between(t.frame, e.first, Last(e)) - e.first
          => e.captured = Between(t'.frame, e.first, Last(e)) - e.first
      BY <1>1, <1>2, <1>4, <1>9, <1>15 DEF Between
    <3>2. t'.frame >= Last(e)
      BY <1>1, <1>2, <1>4, <1>9, <1>15
    <3> QED BY <2>1, <2>4, <2>5, <3>1, <3>2 DEF Reached, SameTake
  <2>7. Ending(t', d')
    BY <1>1, <2>1, <2>5 DEF Ending
  <2>8. d'.start < t'.frame /\ (t'.rec => FullyRecEnabled(d'.was)) /\ d'.first = e.first
    BY <1>1, <1>2, <1>4, <2>1, <2>4, <2>5 DEF SameTake
  <2> QED BY <1>11, <1>15, <2>6, <2>7, <2>8 DEF Take
<1> QED BY <1>12, <1>13, <1>14, <1>15

(* What a cycle records goes on where the capture has come to,             *)
LEMMA GoesOnThere ==
    ASSUME d \in Streams, t \in Moments, Numbers(d), Within(t), NEW n \in 1 .. Block,
           Cycle(n), Take(t, d), ~Reopens(Checked), Recorded(n).count > 0
    PROVE  t.frame + Recorded(n).offset = Checked.start + Alignment + Checked.captured
<1> DEFINE e == Checked
           count == Recorded(n).count
           at == t.frame + Recorded(n).offset
<1>0. t.frame + n <= LastFrame /\ t.rolling = TRUE /\ t.declicked = FALSE
  BY CycleFields
<1>1. /\ t.frame + n <= LastFrame /\ t.rolling = TRUE /\ t.declicked = FALSE
      /\ n \in Nat /\ n > 0 /\ t.frame \in Nat
      /\ MaxFrames \in Nat /\ LastFrame \in Nat /\ LastFrame < MaxFrames /\ Alignment \in Nat
  BY <1>0, SizesAssumption, AlignmentIs DEF Within
<1>2. IF e.first = MaxFrames THEN Idle(e)
      ELSE /\ Reached(t, e) /\ Ending(t, e) /\ e.start <= t.frame
           /\ t.rec => FullyRecEnabled(e.was)
  BY <1>1, CheckedTake
<1>3. /\ e.first \in 0 .. MaxFrames /\ e.last \in Nat /\ e.first <= e.last
      /\ e.start \in Nat /\ e.captured \in Nat
  <2>1. Numbers(e) /\ e.first <= e.last
    BY PreparedNumbers, CheckedIs
  <2> HIDE DEF e
  <2> QED BY <2>1 DEF Numbers
<1>4. /\ count > 0 /\ count = Clamp(e, t.frame + n) - Clamp(e, t.frame)
      /\ at = Clamp(e, t.frame)
  BY <1>1, RecordedIs
<1> HIDE DEF e, count, at
<1>5. e.first # MaxFrames /\ t.frame < e.last
  BY <1>1, <1>3, <1>4 DEF Clamp
<1>6. Last(e) = e.last
  BY <1>3 DEF Last
<1>7. e.first = e.start + Alignment /\ e.captured = Between(t.frame, e.first, e.last) - e.first
  BY <1>1, <1>2, <1>3, <1>5, <1>6 DEF Reached
<1>8. at = e.start + Alignment + e.captured
  BY <1>1, <1>3, <1>4, <1>7 DEF Clamp, Between
<1> QED BY <1>8 DEF at, e

(* and its input is copied from there, unless it is misplaced.             *)
LEMMA InputIs ==
    ASSUME d \in Streams, t \in Moments, Numbers(d), Within(t), NEW n \in 1 .. Block,
           cr \in C!Positions, cw \in C!Positions, ~Misplaces(n)
    PROVE  InputAt(n) = t.frame + Recorded(n).offset /\ InputAt(n) \in Int
<1>1. Recorded(n).offset \in Nat /\ t.frame \in Int
  BY RecordedIs, SizesAssumption DEF Moments
<1>2. Recorded(n).count \in Nat /\ C!WriteVector(cr, cw)[1].len \in Nat
  BY RecordedIs, CaptureVectors, SizesAssumption
<1>3. Recorded(n).count <= C!WriteVector(cr, cw)[1].len \/ Recorded(n).offset = 0
  BY <1>1, <1>2 DEF Misplaces, Wraps
<1> QED BY <1>1, <1>2, <1>3 DEF InputAt, Wraps

(* So what it adds is in order.                                            *)
LEMMA PlayIsInOrder ==
    ASSUME d \in Streams, t \in Moments, Numbers(d), Within(t), Rings, file \in Seq(Int),
           NEW n \in 1 .. Block, Play(n), ~Misplaces(n), ~Reopens(Checked), Take(t, d),
           Numbers(d'), InOrder(Flushed, Captures(d))
    PROVE  file' \in Seq(Int) /\ InOrder(Flushed', Captures(d'))
<1> DEFINE e == Checked
           f == Prepared(n)
           count == Recorded(n).count
           at == InputAt(n)
           more == CR!Contiguous(at, count)
           had == Flushed
           has == had \o more
<1>1. Cycle(n) /\ ~Overruns(n) /\ n \in Nat
  BY SizesAssumption DEF Play
<1>2. cr \in C!Positions /\ cw \in C!Positions
  BY DEF Rings
<1>3. t.rolling = TRUE /\ t.declicked = FALSE
  BY <1>1, CycleFields
<1>4. /\ Captures(e) = Captures(d)
      /\ IF e.first = MaxFrames THEN Idle(e)
         ELSE /\ Reached(t, e) /\ Ending(t, e) /\ e.start <= t.frame
              /\ t.rec => FullyRecEnabled(e.was)
  BY <1>3, CheckedTake
<1>5. e \in Streams /\ Numbers(e) /\ Numbers(f)
  BY CheckedIs, PreparedNumbers
<1>6. count \in Nat /\ count <= C!WriteSpace(cr, cw)
  <2>1. count \in Nat
    BY <1>1, RecordedIs
  <2>2. C!WriteSpace(cr, cw) \in Nat
    BY <1>2, CaptureSpaces
  <2> QED BY <1>1, <2>1, <2>2 DEF Overruns
<1>7. at = t.frame + Recorded(n).offset /\ at \in Int
  BY <1>2, InputIs
<1>8. count > 0 => at = e.start + Alignment + e.captured
  BY <1>1, <1>7, GoesOnThere
<1>9. /\ file' = file /\ cr' = cr
      /\ ccell' = C!Written(ccell, C!WriteVector(cr, cw), count, at)
      /\ cw' = C!Advanced(cw, count)
  BY <1>1 DEF Play, Cycle
<1>10. /\ count > 0 /\ ~e.recording =>
           /\ f.first = e.first /\ f.last = e.last /\ f.start = e.start
           /\ f.was = e.was /\ f.infos = e.infos
           /\ f.captured = 0 /\ f.recording = TRUE
       /\ count = 0 /\ e.recording =>
           /\ f.first = MaxFrames /\ f.last = MaxFrames /\ f.start = e.start
           /\ f.was = e.was /\ f.infos = Captures(e)
           /\ f.captured = 0 /\ f.recording = FALSE
       /\ ~(count > 0 /\ ~e.recording) /\ ~(count = 0 /\ e.recording) => SameTake(e, f)
  BY PreparedIs
<1>11. /\ d' \in Streams /\ d'.captured = f.captured + count
       /\ d'.start = f.start /\ d'.infos = f.infos
  BY PlayIs
<1> HIDE DEF e, f, count, at
<1>12. had \in Seq(Int) /\ Flushed' = has
  BY <1>6, <1>7, <1>9, PlayAdds
<1>13. /\ more \in Seq(Int) /\ Len(more) = count
       /\ \A k \in 1 .. count : more[k] = at + k - 1
  BY <1>6, <1>7, CaptureContiguous
<1>14. /\ e.infos \in Infos /\ e.start \in Int /\ e.captured \in Nat
       /\ \A i \in DOMAIN e.infos : e.infos[i].frames > 0
       /\ Alignment \in Nat
  BY <1>5, AlignmentIs DEF Streams, Numbers
<1> HIDE DEF had, more
<1>15. Going(had, e.infos, e.start, e.captured)
  <2>1. InOrder(had, Captures(e))
    BY <1>4 DEF had
  <2> QED BY <1>5, <2>1, GoingIs
<1>16. \A k \in 1 .. count : more[k] = (e.start + Alignment + e.captured) + k - 1
  BY <1>6, <1>8, <1>13
<1>17. Going(has, e.infos, e.start, e.captured + count)
  BY <1>6, <1>12, <1>13, <1>14, <1>15, <1>16, GoesOn
<1> HIDE DEF has
<1>18. ASSUME d'.infos = e.infos, d'.start = e.start, d'.captured = e.captured + count
       PROVE  InOrder(has, Captures(d'))
  BY <1>11, <1>17, <1>18, GoingIs
<1>19. InOrder(has, Captures(d'))
  <2>1. CASE count > 0 /\ ~e.recording
    <3>1. e.captured = 0
      BY <1>4, <1>14, <2>1 DEF Idle, Reached
    <3> QED BY <1>6, <1>10, <1>11, <1>18, <2>1, <3>1
  <2>2. CASE count = 0 /\ e.recording
    <3>1. Captures(d') = Captures(e)
      <4>1. d'.captured = 0 /\ d'.infos = Captures(e)
        BY <1>10, <1>11, <2>2
      <4> QED BY <4>1 DEF Captures
    <3>2. Going(has, e.infos, e.start, e.captured)
      BY <1>14, <1>17, <2>2
    <3>3. InOrder(has, Captures(e))
      BY <1>5, <3>2, GoingIs
    <3> QED BY <3>1, <3>3
  <2>3. CASE ~(count > 0 /\ ~e.recording) /\ ~(count = 0 /\ e.recording)
    BY <1>10, <1>11, <1>18, <2>3 DEF SameTake
  <2> QED BY <2>1, <2>2, <2>3
<1>20. file' \in Seq(Int)
  BY <1>9
<1> QED BY <1>12, <1>19, <1>20

(* What finishes a take loses nothing of what it counted.                  *)
LEMMA PreparedCaptures ==
    ASSUME d \in Streams, t \in Moments, Numbers(d), Within(t), Take(t, d),
           t.rolling = TRUE, t.declicked = FALSE, ~Reopens(Checked), NEW n \in Nat,
           Recorded(n).count = 0
    PROVE  Captures(Prepared(n)) = Captures(d)
<1> DEFINE e == Checked
           f == Prepared(n)
           count == Recorded(n).count
<1>1. Captures(e) = Captures(d)
  BY CheckedTake
<1>2. /\ count = 0 /\ e.recording => f.infos = Captures(e) /\ f.captured = 0
      /\ ~(count > 0 /\ ~e.recording) /\ ~(count = 0 /\ e.recording) => SameTake(e, f)
  BY PreparedIs
<1>3. count = 0
  OBVIOUS
<1> HIDE DEF e, f, count
<1>4. Captures(f) = Captures(e)
  BY <1>2, <1>3 DEF Captures, SameTake
<1> QED BY <1>1, <1>4 DEF f

(* The steps of the butler that leave the take alone                       *)
Quiet == \/ NonRealtimeLocate \/ SeekAfterStop \/ OverwriteExistingBuffers
         \/ RefillLook \/ ReadFirst \/ ReadSecond \/ DoFlush

LEMMA QuietIs ==
    ASSUME d \in Streams, t \in Moments, Quiet
    PROVE  t' = t /\ SameTake(d, d') /\ regions' \in {regions, {}}
<1>1. CASE NonRealtimeLocate \/ SeekAfterStop
  <2>1. t' = t /\ Rewound /\ regions' = {}
    BY <1>1 DEF NonRealtimeLocate, SeekAfterStop, Rewound, SeekFrom
  <2> QED BY <2>1, RewoundIs
<1>2. CASE OverwriteExistingBuffers
  <2>1. t' = t /\ regions' = regions
    BY <1>2 DEF OverwriteExistingBuffers
  <2> QED BY <1>2, <2>1, OverwritingIs
<1>3. CASE ReadFirst \/ ReadSecond
  <2>1. t' = t /\ regions' = regions /\ \E part, n : Read(part, n)
    BY <1>3 DEF ReadFirst, ReadSecond
  <2> QED BY <2>1, ReadIs
<1>4. CASE RefillLook \/ DoFlush
  BY <1>4 DEF RefillLook, DoFlush, SameTake
<1> QED BY <1>1, <1>2, <1>3, <1>4 DEF Quiet

(* The steps, one by one                                                   *)
LEMMA NextIs ==
    ASSUME [Next]_vars
    PROVE  \/ \E n \in 1 .. Block : Overrun(n) \/ Underrun(n) \/ Play(n)
           \/ NoRoll \/ CheckDeclickOut \/ StopOnce \/ PostTransport
           \/ \E rec \in BOOLEAN : Start(rec)
           \/ Stop \/ Punch \/ Overwrite
           \/ \E frame \in Targets, roll \in BOOLEAN : Locate(frame, roll)
           \/ BeginPass \/ TransportStoppedWallclock \/ Quiet \/ UNCHANGED vars
BY DEF Next, Cycles, User, Butler, Quiet

(* What stops the transport goes on until the take is finished.            *)
LEMMA WorkingKept ==
    ASSUME Inv, Sound, Working(t, d), [Next]_vars
    PROVE  Working(t, d)'
<1>1. t \in Moments /\ d \in Streams /\ pr \in P!Positions /\ Within(t) /\ Numbers(d)
  BY DEF Inv, Typed, Sound
<1>2. /\ "Stop" \in t.work => ~t.rolling
      /\ t.declicked => t.rolling /\ t.declick # "none"
      /\ AtTransportWork => ptw \subseteq t.work
      /\ ~t.rolling => StopComing(t) \/ (d.first = MaxFrames /\ Idle(d))
  BY DEF Working
<1>3. ASSUME NEW n \in 1 .. Block, Overrun(n) \/ Underrun(n) \/ Play(n)
      PROVE  Working(t, d)'
  <2>1. Cycle(n)
    BY <1>3 DEF Overrun, Underrun, Play
  <2>2. /\ t'.declicked = (t.declick # "none") /\ t'.declick = t.declick
        /\ t'.rolling = TRUE /\ t'.work = t.work
    BY <1>1, <2>1, CycleFields
  <2>3. "Stop" \notin t.work /\ bpc' = bpc /\ ptw' = ptw
    BY <2>1 DEF Cycle, ProcessCanProceed, butler
  <2> QED BY <1>2, <2>2, <2>3 DEF Working, AtTransportWork
<1>4. ASSUME bpc' = bpc, ptw' = ptw, t.work \subseteq t'.work,
             "Stop" \in t'.work => ~t'.rolling,
             t'.declicked => t'.rolling /\ t'.declick # "none",
             ~t'.rolling => \/ "Stop" \in t'.work /\ t'.requested
                            \/ ~t.rolling /\ (t.requested => t'.requested)
                               /\ d'.first = d.first /\ (Idle(d) => Idle(d'))
      PROVE  Working(t, d)'
  <2>1. AtTransportWork' => ptw' \subseteq t'.work
    BY <1>2, <1>4 DEF AtTransportWork
  <2>2. ~t'.rolling => StopComing(t)' \/ (d'.first = MaxFrames /\ Idle(d'))
    BY <1>2, <1>4 DEF StopComing
  <2> QED BY <1>4, <2>1, <2>2 DEF Working
<1>5. CASE NoRoll
  <2>1. t' = t /\ bpc' = bpc /\ ptw' = ptw /\ ~t.rolling /\ d' = CheckRecordStatus(d, t)
    BY <1>5 DEF NoRoll, butler
  <2>2. ~FullyRecEnabled(t)
    BY <2>1 DEF FullyRecEnabled
  <2>3. d'.first = d.first /\ d'.captured = d.captured /\ d'.recording = d.recording
    BY <1>1, <2>1, <2>2, CheckIs
  <2> QED BY <1>2, <1>4, <2>1, <2>3 DEF Idle
<1>6. CASE CheckDeclickOut
  <2>1. bpc' = bpc /\ ptw' = ptw /\ d'.first = d.first /\ (Idle(d) => Idle(d'))
    <3>1. bpc' = bpc /\ ptw' = ptw /\ (PrepareToStop \/ d' = d)
      BY <1>6 DEF CheckDeclickOut, butler
    <3> QED BY <1>1, <3>1, EndSets DEF Idle
  <2>2. /\ t.declicked = TRUE /\ t'.declicked = FALSE /\ t.work \subseteq t'.work
        /\ \/ t'.rolling = FALSE /\ t'.requested = TRUE /\ "Stop" \in t'.work
           \/ t'.rolling = t.rolling /\ ("Stop" \in t'.work <=> "Stop" \in t.work)
    BY <1>1, <1>6, DeclickedIs
  <2>3. t.rolling
    BY <1>2, <2>2
  <2> QED BY <1>2, <1>4, <2>1, <2>2, <2>3
<1>7. CASE PostTransport
  <2>1. /\ ~t.requested /\ ~AtTransportWork /\ bpc' = bpc /\ d' = d
        /\ ~AtTransportWork'
    BY <1>7 DEF PostTransport, butler, AtTransportWork
  <2>2. t'.work = {} /\ t'.declicked = t.declicked /\ t'.declick = t.declick
        /\ (t.rolling => t'.rolling)
    BY <1>1, <1>7, PostTransportIs
  <2>3. ~StopComing(t)
    BY <2>1 DEF StopComing, AtTransportWork
  <2> QED BY <1>2, <2>1, <2>2, <2>3 DEF Working
<1>8. ASSUME NEW rec \in BOOLEAN, Start(rec) PROVE Working(t, d)'
  <2>1. bpc' = bpc /\ ptw' = ptw
    BY <1>8 DEF Start, Command, butler
  <2>2. t.work = {} /\ t'.work = {} /\ t'.rolling = TRUE /\ t'.declicked = FALSE
    BY <1>1, <1>8, StartIs
  <2> QED BY <1>4, <2>1, <2>2
<1>9. CASE Stop \/ StopOnce
  <2>1. bpc' = bpc /\ ptw' = ptw
    BY <1>9 DEF Stop, StopOnce, Command, butler
  <2>2. StopsAs(t, t') /\ t.work = {} /\ t.rolling = TRUE /\ t.declicked = FALSE
    BY <1>1, <1>9, StopIs, StopOnceIs
  <2>3. CASE Unmoved(t, t')
    BY <1>4, <2>1, <2>2, <2>3 DEF Unmoved
  <2>4. CASE Halted(t, t')
    BY <1>4, <2>1, <2>2, <2>4 DEF Halted
  <2> QED BY <2>2, <2>3, <2>4 DEF StopsAs, Awaits
<1>10. CASE Punch
  <2>1. bpc' = bpc /\ ptw' = ptw
    BY <1>10 DEF Punch, Command, butler
  <2>2. t.work = {} /\ t'.work = {} /\ t'.rolling = TRUE /\ t'.declicked = FALSE
    BY <1>1, <1>10, PunchIs
  <2> QED BY <1>4, <2>1, <2>2
<1>11. CASE Overwrite
  <2>1. bpc' = bpc /\ ptw' = ptw
    BY <1>11 DEF Overwrite, Command, butler
  <2>2. /\ t.work = {} /\ t'.work = {"OverWrite"} /\ t'.rolling = t.rolling
        /\ t'.declick = t.declick /\ t'.declicked = t.declicked /\ t'.requested = TRUE
        /\ SameTake(d, d')
    BY <1>1, <1>11, OverwriteIs
  <2> QED BY <1>2, <1>4, <2>1, <2>2 DEF SameTake, Idle
<1>12. ASSUME NEW frame \in Targets, NEW roll \in BOOLEAN, Locate(frame, roll)
       PROVE  Working(t, d)'
  <2>1. bpc' = bpc /\ ptw' = ptw /\ d' = d
    BY <1>12 DEF Locate, Command, butler
  <2>2. /\ t'.declicked = FALSE /\ t.work \subseteq t'.work
        /\ \/ t.rolling = TRUE /\ t'.rolling = TRUE /\ t'.work = t.work
           \/ /\ t'.rolling = t.rolling /\ t'.requested = TRUE
              /\ ("Stop" \in t'.work <=> "Stop" \in t.work)
           \/ t'.rolling = FALSE /\ t'.requested = TRUE /\ "Stop" \in t'.work
    BY <1>1, <1>12, LocateIs
  <2> QED BY <1>2, <1>4, <2>1, <2>2
<1>13. CASE BeginPass
  <2>1. /\ t'.work = t.work /\ t'.rolling = t.rolling /\ t'.declicked = t.declicked
        /\ t'.declick = t.declick /\ d' = d
    BY <1>1, <1>13, BeginPassIs DEF BeginPass
  <2>2. /\ bpc = "idle"
        /\ \/ t.requested /\ bpc' = NextWork(t.work) /\ ptw' = t.work
           \/ ~t.requested /\ bpc' = "refill"
    BY <1>13 DEF BeginPass
  <2>3. StopComing(t) => StopComing(t)'
    <3> SUFFICES ASSUME "Stop" \in t.work, t.requested PROVE StopComing(t)'
      BY <2>2 DEF StopComing
    <3>1. bpc' \in {"locate", "stop"} /\ "Stop" \in ptw'
      BY <2>2 DEF NextWork
    <3> QED BY <3>1 DEF StopComing
  <2>4. AtTransportWork' => ptw' \subseteq t'.work
    BY <2>1, <2>2 DEF AtTransportWork
  <2> QED BY <1>2, <2>1, <2>3, <2>4 DEF Working
<1>14. CASE TransportStoppedWallclock
  <2>1. t' = t /\ ptw' = ptw /\ bpc = "stop" /\ bpc' = "seek"
    BY <1>14 DEF TransportStoppedWallclock, ButlerGoto
  <2>2. d'.first = MaxFrames /\ d'.captured = 0 /\ d'.recording = FALSE
    BY <1>1, <1>14, StoppingIs, FinishIs
  <2> QED BY <1>2, <2>1, <2>2 DEF Working, Idle, AtTransportWork
<1>15. CASE Quiet
  <2>1. t' = t /\ SameTake(d, d')
    BY <1>1, <1>15, QuietIs
  <2>2. \/ bpc = "locate" /\ ptw' = ptw
           /\ bpc' = (IF "Stop" \in ptw THEN "stop" ELSE "overwrite")
        \/ bpc = "seek" /\ ptw' = ptw
        \/ bpc \notin {"locate", "stop", "seek"} /\ (AtTransportWork' => ptw' = {})
    BY <1>15 DEF Quiet, NonRealtimeLocate, SeekAfterStop, OverwriteExistingBuffers, RefillLook,
         ReadFirst, ReadSecond, DoFlush, ButlerGoto, Restart, AtTransportWork
  <2>3. StopComing(t) => StopComing(t)'
    BY <2>1, <2>2 DEF StopComing
  <2>4. AtTransportWork' => ptw' \subseteq t'.work
    BY <1>2, <2>1, <2>2 DEF AtTransportWork
  <2> QED BY <1>2, <2>1, <2>3, <2>4 DEF Working, SameTake, Idle
<1>16. CASE UNCHANGED vars
  BY <1>2, <1>16 DEF vars, Working, StopComing, AtTransportWork
<1> QED BY <1>3, <1>5, <1>6, <1>7, <1>8, <1>9, <1>10, <1>11, <1>12, <1>13, <1>14, <1>15, <1>16,
           NextIs

-----------------------------------------------------------------------------
(* The steps of the butler that seek                                       *)
Seeks == NonRealtimeLocate \/ SeekAfterStop

(* What was lost stays lost, until a seek that finds nothing taken.        *)
LEMMA HistoryStays ==
    ASSUME [Next]_vars, ~Seeks, broken \in BOOLEAN
    PROVE  broken' \in BOOLEAN /\ (broken => broken') /\ dropped' = dropped
<1>1. ASSUME NEW n \in 1 .. Block, Overrun(n) \/ Underrun(n) \/ Play(n)
      PROVE  broken' \in BOOLEAN /\ (broken => broken') /\ dropped' = dropped
  <2>1. dropped' = dropped
    BY <1>1 DEF Overrun, Underrun, Play, Cycle
  <2>2. broken' \in BOOLEAN /\ (broken => broken')
    BY <1>1, Zenon DEF Overrun, Underrun, Play
  <2> QED BY <2>1, <2>2
<1>2. CASE NoRoll \/ PostTransport \/ BeginPass \/ TransportStoppedWallclock
           \/ UNCHANGED vars
  BY <1>2 DEF NoRoll, PostTransport, BeginPass, TransportStoppedWallclock, history, vars
<1>3. CASE CheckDeclickOut \/ StopOnce \/ Stop
  <2>1. dropped' = dropped
    BY <1>3 DEF CheckDeclickOut, StopOnce, Stop, Command
  <2>2. PrepareToStop \/ broken' = broken
    BY <1>3, Zenon DEF CheckDeclickOut, StopOnce, Stop
  <2>3. PrepareToStop => broken' \in BOOLEAN /\ (broken => broken')
    BY Zenon DEF PrepareToStop
  <2> QED BY <2>1, <2>2, <2>3
<1>4. CASE (\E rec \in BOOLEAN : Start(rec)) \/ Overwrite
  BY <1>4 DEF Start, Overwrite, Command
<1>5. CASE Punch
  <2>1. dropped' = dropped
    BY <1>5 DEF Punch, Command
  <2>2. broken' \in BOOLEAN /\ (broken => broken')
    BY <1>5, Zenon DEF Punch
  <2> QED BY <2>1, <2>2
<1>6. ASSUME NEW frame \in Targets, NEW roll \in BOOLEAN, Locate(frame, roll)
      PROVE  broken' \in BOOLEAN /\ (broken => broken') /\ dropped' = dropped
  <2>1. dropped' = dropped
    BY <1>6 DEF Locate, Command
  <2>2. broken' \in BOOLEAN /\ (broken => broken')
    BY <1>6, Zenon DEF Locate
  <2> QED BY <2>1, <2>2
<1>7. CASE Quiet
  BY <1>7 DEF Quiet, Seeks, OverwriteExistingBuffers, RefillLook, ReadFirst, ReadSecond,
              DoFlush, history
<1> QED BY <1>1, <1>2, <1>3, <1>4, <1>5, <1>6, <1>7, NextIs

(* A step that moves neither                                               *)
LEMMA SameBoth ==
    ASSUME NEW s, NEW u, NEW e, NEW f, SameTake(e, f),
           u.frame = s.frame, u.rolling = s.rolling, u.rec = s.rec,
           u.declick = s.declick, u.declicked = s.declicked,
           u.pendingCapture = s.pendingCapture,
           Take(s, e), NotBegun(s, e)
    PROVE  Take(u, f) /\ NotBegun(u, f)
<1>1. /\ Last(f) = Last(e) /\ f.first = e.first /\ f.captured = e.captured
      /\ f.recording = e.recording /\ f.start = e.start
      /\ (FullyRecEnabled(f.was) <=> FullyRecEnabled(e.was))
  BY DEF SameTake, Last
<1>2. Reached(s, e) => Reached(u, f)
  BY <1>1 DEF Reached
<1>3. Ending(s, e) => Ending(u, f)
  BY <1>1 DEF Ending
<1>4. Idle(e) => Idle(f)
  BY <1>1 DEF Idle
<1> QED BY <1>1, <1>2, <1>3, <1>4 DEF Take, NotBegun

(* Before the first frame of a take                                        *)
LEMMA NothingBegun ==
    ASSUME NEW s, NEW e, e.first = MaxFrames, Idle(e)
    PROVE  Take(s, e) /\ NotBegun(s, e)
BY DEF Take, NotBegun

(* prepare_to_stop puts the end of the take where the transport has come   *)
(* to, or after it, and a transport that rolls on rolls on with it: for    *)
(* the declick of its output, or for the input that is still to come.      *)
LEMMA EndsTake ==
    ASSUME d \in Streams, t \in Moments, Numbers(d), Within(t), Take(t, d), t.rolling = TRUE,
           PrepareToStop, ~broken', NEW u,
           u.frame = t.frame, u.rolling = t.rolling, u.rec = t.rec,
           \/ AwaitsInput(t) /\ u.pendingCapture = TRUE
           \/ /\ ~AwaitsInput(t) /\ t.declick = "none" /\ u.declick = "stop"
              /\ u.pendingCapture = t.pendingCapture
    PROVE  Take(u, d')
<1>1. /\ d'.first = d.first /\ d'.start = d.start /\ d'.captured = d.captured
      /\ d'.recording = d.recording /\ d'.was = d.was
      /\ d'.last = IF Prepares THEN t.frame + CaptureOffset ELSE d.last
      /\ Prepares => ~Reopens(d')
  BY EndSets
<1>2. /\ t.frame \in Nat /\ t.frame < MaxFrames /\ MaxFrames \in Nat
      /\ CaptureOffset \in Nat /\ d.first \in 0 .. MaxFrames /\ d.last \in Nat
      /\ d.start \in Nat /\ d.captured \in Nat /\ t.frame + CaptureOffset < MaxFrames
  BY AlignmentIs DEF Within, Numbers
<1>3. CASE d.first = MaxFrames
  BY <1>1, <1>3 DEF Take, Idle
<1>4. CASE d.first # MaxFrames
  <2>1. /\ Reached(t, d) /\ Ending(t, d) /\ d.start < t.frame
        /\ t.rec => FullyRecEnabled(d.was)
    BY <1>4 DEF Take
  <2>2. /\ d.first = d.start + Alignment /\ (d.recording <=> d.captured > 0)
        /\ \/ d.captured = Between(t.frame, d.first, Last(d)) - d.first
           \/ CaptureOffset = 0 /\ t.frame >= Last(d) /\ ~FullyRecEnabled(d.was)
    BY <2>1 DEF Reached
  <2>3. FullyRecEnabled(d'.was) <=> FullyRecEnabled(d.was)
    BY <1>1
  <2>4. Last(d) = IF d.last < d.first THEN MaxFrames ELSE d.last
    BY DEF Last
  <2>5. d'.start < u.frame /\ (u.rec => FullyRecEnabled(d'.was))
    BY <1>1, <2>1, <2>3
  <2>6. Reached(u, d') /\ Ending(u, d')
    <3>1. CASE Prepares
      <4>1. Last(d') = IF t.frame + CaptureOffset < d.first THEN MaxFrames
                       ELSE t.frame + CaptureOffset
        BY <1>1, <3>1 DEF Last
      <4>2. t.frame <= Last(d')
        BY <1>2, <4>1
      <4>3. FullyRecEnabled(d.was) => Last(d) = MaxFrames
        BY <2>1, <3>1, SizesAssumption, LatencyAssumption DEF Prepares, Ending, AwaitsInput
      <4>4. ~FullyRecEnabled(d.was) => t.frame <= Last(d) \/ CaptureOffset = 0
        <5>1. ~(Last(d) < t.frame /\ t.frame < d'.last)
          BY <1>1, <1>4, <3>1 DEF Reopens
        <5>2. d'.last = t.frame + CaptureOffset /\ Last(d) \in Int
          BY <1>1, <1>2, <2>4, <3>1
        <5> QED BY <1>2, <5>1, <5>2
      <4>5. \/ d.captured = Between(t.frame, d.first, Last(d')) - d.first
            \/ CaptureOffset = 0 /\ t.frame >= Last(d') /\ ~FullyRecEnabled(d.was)
        <5>1. CASE t.frame < d.first
          BY <1>2, <2>2, <2>4, <4>1, <5>1 DEF Between
        <5>2. CASE d.first <= t.frame /\ CaptureOffset = 0 /\ ~FullyRecEnabled(d.was)
          BY <1>2, <4>1, <5>2
        <5>3. CASE /\ d.first <= t.frame /\ t.frame <= Last(d)
                   /\ ~(CaptureOffset = 0 /\ ~FullyRecEnabled(d.was))
          <6>1. d.captured = Between(t.frame, d.first, Last(d)) - d.first
            BY <2>2, <5>3
          <6>2. Last(d') \in Int /\ Last(d) \in Int
            BY <1>2, <2>4, <4>1
          <6> QED BY <1>2, <4>2, <5>3, <6>1, <6>2 DEF Between
        <5> QED BY <1>2, <4>3, <4>4, <5>1, <5>2, <5>3
      <4>6. Reached(u, d')
        BY <1>1, <2>2, <2>3, <4>5 DEF Reached
      <4>7. Ending(u, d')
        BY <3>1, <4>2, SizesAssumption, LatencyAssumption DEF Ending, Prepares, AwaitsInput
      <4> QED BY <4>6, <4>7
    <3>2. CASE ~Prepares
      <4>1. u.pendingCapture /\ Last(d') = Last(d)
        BY <1>1, <3>2 DEF Prepares, Last
      <4>2. Reached(u, d')
        BY <1>1, <2>2, <2>3, <4>1 DEF Reached
      <4> QED BY <4>1, <4>2 DEF Ending
    <3> QED BY <3>1, <3>2
  <2> QED BY <1>1, <1>4, <2>5, <2>6 DEF Take
<1> QED BY <1>3, <1>4

(* So does a stop, of the user or of the event.                            *)
LEMMA StopEndsTake ==
    ASSUME d \in Streams, t \in Moments, Numbers(d), Within(t), Stop \/ StopOnce, Take(t, d),
           NotBegun(t, d), ~broken'
    PROVE  Take(t', d') /\ NotBegun(t', d')
<1>1. StopsAs(t, t') /\ t.rolling = TRUE
  BY StopIs, StopOnceIs
<1>2. PrepareToStop
  BY DEF Stop, StopOnce
<1>3. d'.first = d.first
  BY <1>2, EndSets
<1>4. CASE Halted(t, t')
  BY <1>4 DEF Halted, Take, NotBegun
<1>5. CASE Awaits(t, t')
  <2>1. Take(t', d')
    BY <1>1, <1>2, <1>5, EndsTake DEF Awaits, Unmoved
  <2> QED BY <1>3, <1>5, <2>1 DEF Awaits, Unmoved, NotBegun
<1>6. CASE /\ ~AwaitsInput(t) /\ t.declick = "none" /\ Unmoved(t, t') /\ t'.declick = "stop"
           /\ t'.pendingCapture = t.pendingCapture
  <2>1. Take(t', d')
    BY <1>1, <1>2, <1>6, EndsTake DEF Unmoved
  <2> QED BY <1>6, <2>1 DEF NotBegun
<1> QED BY <1>1, <1>4, <1>5, <1>6 DEF StopsAs

(* A declick that is done with has stopped the transport, or lets it roll  *)
(* on for its input, or has gone where no take had begun, or nowhere.      *)
LEMMA DeclickKeepsTake ==
    ASSUME d \in Streams, t \in Moments, Numbers(d), Within(t), CheckDeclickOut,
           Working(t, d), Take(t, d), NotBegun(t, d), ~broken'
    PROVE  Take(t', d') /\ NotBegun(t', d')
<1>1. /\ t.declicked = TRUE /\ t'.declick = "none" /\ t'.declicked = FALSE
      /\ \/ t'.rolling = FALSE
         \/ /\ t.declick = "stop" /\ AwaitsInput(t) /\ t'.frame = t.frame
            /\ t'.rolling = t.rolling /\ t'.rec = t.rec /\ t'.pendingCapture = TRUE
         \/ /\ t.declick # "stop" /\ t'.rolling = t.rolling /\ t'.rec = t.rec
            /\ t'.pendingCapture = t.pendingCapture
            /\ \/ t'.frame = t.frame /\ t.rec
               \/ ~t.rec
  BY DeclickedIs
<1>2. NotBegun(t', d')
  BY <1>1 DEF NotBegun
<1>3. t.rolling = TRUE /\ t.declick \in {"none", "stop", "locate"} /\ t.declick # "none"
  BY <1>1 DEF Working, Moments
<1>4. CASE t'.rolling = FALSE
  BY <1>2, <1>4 DEF Take
<1>5. CASE t.declick = "stop" /\ AwaitsInput(t) /\ t'.frame = t.frame
           /\ t'.rolling = t.rolling /\ t'.rec = t.rec /\ t'.pendingCapture = TRUE
  <2>1. PrepareToStop
    BY <1>5 DEF CheckDeclickOut
  <2> QED BY <1>2, <1>3, <1>5, <2>1, EndsTake
<1>6. CASE t.declick # "stop" /\ ~t.rec
  <2>1. d.first = MaxFrames
    BY <1>3, <1>6 DEF NotBegun
  <2>2. Idle(d)
    BY <1>3, <2>1 DEF Take
  <2>3. d' = d
    BY <1>6 DEF CheckDeclickOut
  <2> QED BY <2>1, <2>2, <2>3, NothingBegun
<1>7. CASE /\ t.declick # "stop" /\ t'.frame = t.frame /\ t'.rolling = t.rolling
           /\ t'.rec = t.rec /\ t'.pendingCapture = t.pendingCapture
  <2>1. Reached(t, d) => Reached(t', d)
    BY <1>7 DEF Reached
  <2>2. Ending(t, d) => Ending(t', d)
    BY <1>7 DEF Ending
  <2>3. d' = d
    BY <1>7 DEF CheckDeclickOut
  <2> QED BY <1>2, <1>3, <1>7, <2>1, <2>2, <2>3 DEF Take
<1> QED BY <1>1, <1>4, <1>5, <1>6, <1>7

(* What one step makes of the take, unless it breaks it                    *)
LEMMA TakeGoesOn ==
    ASSUME Inv, Sound, Working(t, d), Take(t, d), NotBegun(t, d), [Next]_vars,
           broken \in BOOLEAN, ~broken'
    PROVE  Take(t', d') /\ NotBegun(t', d')
<1>1. t \in Moments /\ d \in Streams /\ pr \in P!Positions /\ Within(t) /\ Numbers(d)
  BY DEF Inv, Typed, Sound
<1>2. ASSUME NEW n \in 1 .. Block, Overrun(n) \/ Underrun(n) \/ Play(n)
      PROVE  Take(t', d') /\ NotBegun(t', d')
  <2>1. Cycle(n) /\ n \in Nat
    BY <1>2, SizesAssumption DEF Overrun, Underrun, Play
  <2>2. ~Overrun(n)
    BY DEF Overrun
  <2>3. ~Reopens(Checked) /\ (Underrun(n) => ~(Recorded(n).count > 0))
    BY <1>2, <2>2, Zenon DEF Underrun, Play
  <2>4. Counts(n)
    <3>1. CASE Underrun(n)
      <4> DEFINE f == Prepared(n)
                 count == Recorded(n).count
      <4>1. d' = f /\ f \in Streams
        BY <1>1, <3>1, PreparedIs DEF Underrun
      <4>2. count \in Nat /\ ~(count > 0)
        BY <1>1, <2>1, <2>3, <3>1, RecordedIs
      <4> HIDE DEF f, count
      <4>3. d'.captured = f.captured + count
        BY <4>1, <4>2 DEF Streams
      <4> QED BY <4>1, <4>3 DEF Counts, f, count
    <3>2. CASE Play(n)
      BY <1>1, <3>2, PlayIs DEF Counts
    <3> QED BY <1>2, <2>2, <3>1, <3>2
  <2> QED BY <1>1, <2>1, <2>3, <2>4, Rolls
<1>3. CASE NoRoll
  <2>1. t' = t /\ ~t.rolling
    BY <1>3 DEF NoRoll
  <2> QED BY <2>1 DEF Take, NotBegun
<1>4. CASE CheckDeclickOut
  BY <1>1, <1>4, DeclickKeepsTake
<1>5. CASE PostTransport
  <2>1. /\ ~t.requested /\ ~AtTransportWork /\ d' = d
    BY <1>5 DEF PostTransport
  <2>2. /\ t'.declicked = t.declicked /\ t'.declick = t.declick /\ t'.rec = t.rec
        /\ t'.frame = t.frame /\ t'.pendingCapture = t.pendingCapture
        /\ (t.rolling => t'.rolling) /\ t' \in Moments
    BY <1>1, <1>5, PostTransportIs
  <2>3. CASE t.rolling
    <3>1. t'.rolling = t.rolling
      BY <1>1, <2>2, <2>3 DEF Moments
    <3>2. SameTake(d, d')
      BY <2>1 DEF SameTake
    <3> QED BY <2>2, <3>1, <3>2, SameBoth
  <2>4. CASE ~t.rolling
    <3>1. ~StopComing(t)
      BY <2>1 DEF StopComing, AtTransportWork
    <3>2. d.first = MaxFrames /\ Idle(d)
      BY <2>4, <3>1 DEF Working
    <3> QED BY <2>1, <3>2, NothingBegun
  <2> QED BY <2>3, <2>4
<1>6. ASSUME NEW rec \in BOOLEAN, Start(rec) PROVE Take(t', d') /\ NotBegun(t', d')
  <2>1. t.rolling = FALSE /\ t.work = {} /\ d' = d
    BY <1>1, <1>6, StartIs DEF Start
  <2>2. ~StopComing(t)
    BY <2>1 DEF StopComing, Working, AtTransportWork
  <2>3. d.first = MaxFrames /\ Idle(d)
    BY <2>1, <2>2 DEF Working
  <2> QED BY <2>1, <2>3, NothingBegun
<1>7. CASE Stop \/ StopOnce
  BY <1>1, <1>7, StopEndsTake
<1>8. CASE Punch
  <2>1. /\ t.rolling = TRUE /\ t'.rolling = TRUE /\ t'.rec = ~t.rec /\ t'.frame = t.frame
        /\ t'.declick = t.declick /\ t'.pendingCapture = t.pendingCapture
        /\ t.declicked = FALSE /\ t'.declicked = FALSE
    BY <1>1, <1>8, PunchIs
  <2>2. d' = d /\ (t.rec \/ ~Capturing)
    BY <1>8, Zenon DEF Punch
  <2>3. CASE t.rec
    <3>1. Reached(t, d) => Reached(t', d')
      BY <2>1, <2>2 DEF Reached
    <3>2. ~t'.rec
      BY <2>1, <2>3
    <3>3. Ending(t, d) => Ending(t', d')
      BY <2>1, <2>2, <3>2 DEF Ending
    <3> QED BY <2>1, <2>2, <3>1, <3>2, <3>3 DEF Take, NotBegun
  <2>4. CASE ~t.rec
    <3>1. d.first = MaxFrames
      BY <2>2, <2>4 DEF Capturing
    <3>2. Idle(d)
      BY <2>1, <3>1 DEF Take
    <3> QED BY <2>2, <3>1, <3>2, NothingBegun
  <2> QED BY <2>3, <2>4
<1>9. CASE Overwrite
  <2>1. /\ t'.rolling = t.rolling /\ t'.rec = t.rec /\ t'.frame = t.frame
        /\ t'.declick = t.declick /\ t'.declicked = t.declicked
        /\ t'.pendingCapture = t.pendingCapture /\ SameTake(d, d')
    BY <1>1, <1>9, OverwriteIs
  <2> QED BY <2>1, SameBoth
<1>10. ASSUME NEW frame \in Targets, NEW roll \in BOOLEAN, Locate(frame, roll)
       PROVE  Take(t', d') /\ NotBegun(t', d')
  <2>1. d' = d /\ ~(t.rolling /\ Capturing)
    BY <1>10, Zenon DEF Locate
  <2>2. t'.rolling => t.rolling
    BY <1>1, <1>10, LocateIs
  <2>3. CASE ~t'.rolling
    BY <2>3 DEF Take, NotBegun
  <2>4. CASE t'.rolling
    <3>1. d.first = MaxFrames
      BY <2>1, <2>2, <2>4 DEF Capturing
    <3>2. Idle(d)
      BY <2>2, <2>4, <3>1 DEF Take
    <3> QED BY <2>1, <3>1, <3>2, NothingBegun
  <2> QED BY <2>3, <2>4
<1>11. CASE BeginPass
  <2>1. /\ t'.rolling = t.rolling /\ t'.rec = t.rec /\ t'.frame = t.frame
        /\ t'.declick = t.declick /\ t'.declicked = t.declicked
        /\ t'.pendingCapture = t.pendingCapture
    BY <1>1, <1>11, BeginPassIs
  <2>2. SameTake(d, d')
    BY <1>11 DEF BeginPass, SameTake
  <2> QED BY <2>1, <2>2, SameBoth
<1>12. CASE TransportStoppedWallclock
  <2>1. d'.first = MaxFrames /\ d'.captured = 0 /\ d'.recording = FALSE
    BY <1>1, <1>12, StoppingIs, FinishIs
  <2> QED BY <2>1, NothingBegun DEF Idle
<1>13. CASE Quiet
  <2>1. t' = t /\ SameTake(d, d')
    BY <1>1, <1>13, QuietIs
  <2> QED BY <2>1, SameBoth
<1>14. CASE UNCHANGED vars
  BY <1>14 DEF vars, Take, NotBegun
<1> QED BY <1>2, <1>3, <1>4, <1>5, <1>6, <1>7, <1>8, <1>9, <1>10, <1>11, <1>12, <1>13, <1>14,
           NextIs

-----------------------------------------------------------------------------
(* How many frames the captures have counted                               *)
Total(e) == FramesBefore(Captures(e), Len(Captures(e)) + 1)

LEMMA TotalIs ==
    ASSUME NEW e \in Streams
    PROVE  /\ FramesBefore(e.infos, Len(e.infos) + 1) \in Int
           /\ Total(e) = FramesBefore(e.infos, Len(e.infos) + 1) + e.captured
<1> DEFINE infos == e.infos
           n == Len(infos)
           before == FramesBefore(infos, n + 1)
<1>1. infos \in Infos /\ e.captured \in Int /\ e.start \in Int
  BY DEF Streams
<1>2. n \in Nat /\ before \in Int
  BY <1>1, InfosAre, FramesBeforeType
<1>3. CASE e.captured = 0
  BY <1>2, <1>3 DEF Total, Captures
<1>4. CASE e.captured # 0
  <2> DEFINE one == [start |-> e.start, frames |-> e.captured]
             more == Append(infos, one)
  <2>1. Captures(e) = more
    BY <1>4 DEF Captures
  <2>2. one \in [start : Int, frames : Int] /\ one.frames = e.captured
    BY <1>1
  <2> HIDE DEF infos, one
  <2>3. more \in Infos /\ Len(more) = n + 1 /\ more[n + 1] = one
    BY <1>1, <2>2, AppendProperties DEF Infos
  <2>4. \A i \in 1 .. n + 1 : FramesBefore(more, i) = FramesBefore(infos, i)
    BY <1>1, <2>2, SameBefore
  <2> HIDE DEF more
  <2>5. FramesBefore(more, (n + 1) + 1) = FramesBefore(more, n + 1) + more[n + 1].frames
    <3>1. n + 1 \in 1 .. Len(more) /\ Len(more) \in Nat
      BY <1>2, <2>3
    <3> QED BY <3>1, FramesBeforeIs
  <2>6. n + 1 \in 1 .. n + 1
    BY <1>2
  <2>7. Total(e) = before + e.captured
    BY <2>1, <2>2, <2>3, <2>4, <2>5, <2>6 DEF Total
  <2> QED BY <1>2, <2>7 DEF infos
<1> QED BY <1>3, <1>4

(* It depends on two fields of the stream.                                 *)
LEMMA SameTotal ==
    ASSUME NEW e \in Streams, NEW f \in Streams, f.captured = e.captured, f.infos = e.infos
    PROVE  Total(f) = Total(e)
BY TotalIs

(* The beginning of process makes up none and forgets none.                *)
LEMMA PreparedCounts ==
    ASSUME d \in Streams, t \in Moments, Numbers(d), Within(t), NEW n \in Nat,
           d.captured > 0 => d.recording
    PROVE  LET f == Prepared(n)
           IN  /\ f \in Streams /\ Total(f) = Total(d)
               /\ f.captured > 0 \/ Recorded(n).count > 0 => f.recording
<1> DEFINE e == Checked
           f == Prepared(n)
           count == Recorded(n).count
<1>1. /\ e \in Streams /\ e.captured = d.captured /\ e.recording = d.recording
      /\ e.infos = d.infos
  BY CheckedIs
<1>2. f \in Streams
  BY PreparedIs
<1>8. /\ count > 0 /\ ~e.recording =>
           /\ f.first = e.first /\ f.last = e.last /\ f.start = e.start
           /\ f.was = e.was /\ f.infos = e.infos
           /\ f.captured = 0 /\ f.recording = TRUE
      /\ count = 0 /\ e.recording =>
           /\ f.first = MaxFrames /\ f.last = MaxFrames /\ f.start = e.start
           /\ f.was = e.was /\ f.infos = Captures(e)
           /\ f.captured = 0 /\ f.recording = FALSE
      /\ ~(count > 0 /\ ~e.recording) /\ ~(count = 0 /\ e.recording) => SameTake(e, f)
  BY PreparedIs
<1>3. count \in Nat /\ d.captured \in Nat
  BY RecordedIs DEF Numbers
<1> HIDE DEF e, f, count
<1>4. Total(e) = Total(d)
  BY <1>1, SameTotal
<1>5. CASE count > 0 /\ ~e.recording
  <2>1. e.captured = 0
    BY <1>1, <1>3, <1>5
  <2> QED BY <1>1, <1>2, <1>4, <1>5, <1>8, <2>1, SameTotal DEF f, count
<1>6. CASE count = 0 /\ e.recording
  <2>1. f.infos = Captures(e) /\ f.captured = 0
    BY <1>6, <1>8
  <2>2. Total(f) = FramesBefore(f.infos, Len(f.infos) + 1)
    BY <1>2, <2>1, TotalIs
  <2> QED BY <1>2, <1>3, <1>4, <1>6, <2>1, <2>2 DEF Total, f, count
<1>7. CASE ~(count > 0 /\ ~e.recording) /\ ~(count = 0 /\ e.recording)
  <2>1. SameTake(e, f)
    BY <1>7, <1>8
  <2>2. Total(f) = Total(e)
    BY <1>1, <1>2, <2>1, SameTotal DEF SameTake
  <2>3. f.captured > 0 \/ count > 0 => f.recording
    BY <1>1, <1>3, <1>7, <2>1 DEF SameTake
  <2> QED BY <1>2, <1>4, <2>2, <2>3 DEF f, count
<1> QED BY <1>5, <1>6, <1>7

(* An empty ring adds nothing to the file.                                 *)
LEMMA EmptyIs ==
    ASSUME NEW cell, NEW r, NEW w, C!ReadSpace(r, w) = 0
    PROVE  C!Contents(cell, r, w) = <<>>
BY DEF C!Contents

(* and nothing is lost by adding nothing.                                  *)
LEMMA NothingAdded ==
    ASSUME NEW data \in Seq(Int)
    PROVE  data \o <<>> = data /\ <<>> \in Seq(Int)
BY ConcatEmptySeq

(* Nothing is in order.                                                    *)
LEMMA NoneInOrder ==
    FramesBefore(<<>>, Len(<<>>) + 1) = 0 /\ Len(<<>>) = 0 /\ InOrder(<<>>, <<>>)
<1>1. Len(<<>>) = 0 /\ DOMAIN <<>> = {}
  BY EmptySeq
<1>2. FramesBefore(<<>>, 1) = 0
  BY <1>1, FramesBeforeIs
<1>3. FramesBefore(<<>>, Len(<<>>) + 1) = 0
  BY <1>1, <1>2
<1> QED BY <1>1, <1>3 DEF InOrder

(* What is there, as a whole                                               *)
LEMMA FlushedIs == Sound /\ file \in Seq(Int) => Flushed \in Seq(Int)
<1> SUFFICES ASSUME Sound, file \in Seq(Int) PROVE Flushed \in Seq(Int)
  OBVIOUS
<1>1. cr \in C!Positions /\ cw \in C!Positions /\ ccell \in Integral
  BY DEF Sound, Rings, Integral, Frame, Nothing
<1> QED BY <1>1, ContentsInts, Joining DEF Flushed

(* A cycle that is played adds as many frames as it counts, and is in      *)
(* order unless it breaks the take.                                        *)
LEMMA PlayKeeps ==
    ASSUME Inv, Sound, NEW n \in 1 .. Block, Play(n), file \in Seq(Int),
           d.captured > 0 => d.recording
    PROVE  /\ file' \in Seq(Int) /\ (d'.captured > 0 => d'.recording)
           /\ Len(Flushed) = Total(d) => Len(Flushed') = Total(d')
<1> DEFINE f == Prepared(n)
           count == Recorded(n).count
           at == InputAt(n)
           more == CR!Contiguous(at, count)
<1>1. t \in Moments /\ d \in Streams /\ Within(t) /\ Numbers(d) /\ Rings /\ n \in Nat
  BY SizesAssumption DEF Inv, Typed, Sound
<1>2. Cycle(n) /\ ~Overruns(n) /\ cr \in C!Positions /\ cw \in C!Positions
  BY <1>1 DEF Play, Rings
<1>3. count \in Nat /\ count <= C!WriteSpace(cr, cw)
  <2>1. count \in Nat /\ C!WriteSpace(cr, cw) \in Nat
    BY <1>1, <1>2, RecordedIs, CaptureSpaces
  <2> QED BY <1>2, <2>1 DEF Overruns
<1>4. at \in Int
  BY <1>1, RecordedIs DEF InputAt, Moments
<1>5. /\ file' = file /\ cr' = cr
      /\ ccell' = C!Written(ccell, C!WriteVector(cr, cw), count, at)
      /\ cw' = C!Advanced(cw, count)
  BY <1>2 DEF Play, Cycle
<1>6. /\ d' \in Streams /\ d'.captured = f.captured + count
      /\ d'.infos = f.infos /\ d'.recording = f.recording
  BY <1>1, PlayIs
<1>7. /\ f \in Streams /\ Total(f) = Total(d)
      /\ f.captured > 0 \/ count > 0 => f.recording
  BY <1>1, PreparedCounts
<1> HIDE DEF f, count, at
<1>8. Flushed \in Seq(Int) /\ Flushed' = Flushed \o more
  BY <1>1, <1>3, <1>4, <1>5, PlayAdds
<1>9. more \in Seq(Int) /\ Len(more) = count
  BY <1>3, <1>4, CaptureContiguous
<1> HIDE DEF more
<1>10. Len(Flushed') = Len(Flushed) + count
  BY <1>8, <1>9, ConcatProperties
<1>11. f.captured \in Int
  BY <1>7 DEF Streams
<1>12. Total(d') = Total(f) + count
  <2>1. /\ FramesBefore(f.infos, Len(f.infos) + 1) \in Int
        /\ Total(f) = FramesBefore(f.infos, Len(f.infos) + 1) + f.captured
        /\ Total(d') = FramesBefore(d'.infos, Len(d'.infos) + 1) + d'.captured
    BY <1>6, <1>7, TotalIs
  <2> QED BY <1>3, <1>6, <1>11, <2>1
<1>13. d'.captured > 0 => d'.recording
  BY <1>3, <1>6, <1>7, <1>11
<1> QED BY <1>5, <1>7, <1>10, <1>12, <1>13

(* The other steps count no frame and lose no count.                       *)
LEMMA OtherTotal ==
    ASSUME Inv, Sound, [Next]_vars, ~TransportStoppedWallclock,
           ~\E n \in 1 .. Block : Play(n), d.captured > 0 => d.recording
    PROVE  Total(d') = Total(d) /\ (d'.captured > 0 => d'.recording)
<1>1. t \in Moments /\ d \in Streams /\ pr \in P!Positions /\ Within(t) /\ Numbers(d)
  BY DEF Inv, Typed, Sound
<1>2. d' \in Streams
  BY NextKeeps DEF Inv, Typed
<1>3. ASSUME d'.captured = d.captured, d'.infos = d.infos, d'.recording = d.recording
      PROVE  Total(d') = Total(d) /\ (d'.captured > 0 => d'.recording)
  BY <1>1, <1>2, <1>3, SameTotal
<1>4. ASSUME NEW n \in 1 .. Block, Overrun(n) \/ Underrun(n)
      PROVE  Total(d') = Total(d) /\ (d'.captured > 0 => d'.recording)
  <2>1. n \in Nat /\ d' = Prepared(n)
    BY <1>4, SizesAssumption DEF Overrun, Underrun
  <2> QED BY <1>1, <2>1, PreparedCounts
<1>5. CASE NoRoll
  <2>1. d' = CheckRecordStatus(d, t)
    BY <1>5 DEF NoRoll
  <2>2. d'.captured = d.captured /\ d'.infos = d.infos /\ d'.recording = d.recording
    BY <1>1, <2>1, CheckIs
  <2> QED BY <1>3, <2>2
<1>6. CASE PrepareToStop
  BY <1>1, <1>3, <1>6, EndSets
<1>7. CASE Overwrite
  BY <1>1, <1>3, <1>7, OverwriteIs DEF SameTake
<1>8. CASE Quiet
  BY <1>1, <1>3, <1>8, QuietIs DEF SameTake
<1>9. CASE d' = d
  BY <1>9
<1>10. CheckDeclickOut \/ Stop \/ StopOnce => PrepareToStop \/ d' = d
  BY DEF CheckDeclickOut, Stop, StopOnce
<1>11. \/ PostTransport \/ (\E rec \in BOOLEAN : Start(rec)) \/ Punch \/ BeginPass
       \/ (\E frame \in Targets, roll \in BOOLEAN : Locate(frame, roll)) \/ UNCHANGED vars
       => d' = d
  BY DEF PostTransport, Start, Punch, Locate, BeginPass, vars
<1> QED BY <1>4, <1>5, <1>6, <1>7, <1>8, <1>9, <1>10, <1>11, NextIs

(* No capture is lost and none is made up by what is not a cycle or a stop *)
LEMMA OtherCaptures ==
    ASSUME Inv, Sound, [Next]_vars, ~TransportStoppedWallclock,
           ~\E n \in 1 .. Block : Overrun(n) \/ Underrun(n) \/ Play(n)
    PROVE  Captures(d') = Captures(d)
<1>1. t \in Moments /\ d \in Streams /\ pr \in P!Positions /\ Within(t) /\ Numbers(d)
  BY DEF Inv, Typed, Sound
<1>2. CASE NoRoll
  <2>1. d' = CheckRecordStatus(d, t) /\ ~FullyRecEnabled(t)
    BY <1>2 DEF NoRoll, FullyRecEnabled
  <2>2. /\ d'.captured = d.captured /\ d'.infos = d.infos /\ d'.start = d.start
    BY <1>1, <2>1, CheckIs
  <2> QED BY <2>2, SameCaptures
<1>3. CASE PrepareToStop
  BY <1>1, <1>3, EndSets, SameCaptures
<1>4. CASE Overwrite
  BY <1>1, <1>4, OverwriteIs, SameCaptures DEF SameTake
<1>5. CASE Quiet
  BY <1>1, <1>5, QuietIs, SameCaptures DEF SameTake
<1>6. CASE d' = d
  BY <1>6
<1>7. CheckDeclickOut \/ Stop \/ StopOnce => PrepareToStop \/ d' = d
  BY DEF CheckDeclickOut, Stop, StopOnce
<1>8. \/ PostTransport \/ (\E rec \in BOOLEAN : Start(rec)) \/ Punch \/ BeginPass
      \/ (\E frame \in Targets, roll \in BOOLEAN : Locate(frame, roll)) \/ UNCHANGED vars
      => d' = d
  BY DEF PostTransport, Start, Punch, Locate, BeginPass, vars
<1> QED BY <1>2, <1>3, <1>4, <1>5, <1>6, <1>7, <1>8, NextIs

(* and what they counted is still there, unless they seek.                 *)
LEMMA OtherFlushed ==
    ASSUME Inv, Sound, [Next]_vars, ~TransportStoppedWallclock, ~Seeks,
           ~\E n \in 1 .. Block : Play(n), file \in Seq(Int)
    PROVE  file' \in Seq(Int) /\ Flushed' = Flushed
<1>1. cr \in C!Positions /\ cw \in C!Positions /\ Rings
  BY DEF Sound, Rings
<1>2. CASE DoFlush
  BY <1>1, <1>2, FlushTakes
<1>3. CASE UNCHANGED <<cr, cw, ccell, file>>
  BY <1>3 DEF Flushed
<1>4. ASSUME NEW n \in 1 .. Block, Overrun(n) \/ Underrun(n)
      PROVE  UNCHANGED <<cr, cw, ccell, file>>
  BY <1>4 DEF Overrun, Underrun, Cycle, capture
<1>5. Quiet => DoFlush \/ UNCHANGED <<cr, cw, ccell, file>>
  BY DEF Quiet, Seeks, OverwriteExistingBuffers, RefillLook, ReadFirst, ReadSecond, capture
<1>6. (\E rec \in BOOLEAN : Start(rec)) \/ Stop \/ Punch \/ Overwrite
      \/ (\E frame \in Targets, roll \in BOOLEAN : Locate(frame, roll))
      => UNCHANGED <<cr, cw, ccell, file>>
  BY DEF Start, Stop, Punch, Overwrite, Locate, Command, capture
<1>7. NoRoll \/ CheckDeclickOut \/ StopOnce \/ PostTransport \/ BeginPass \/ UNCHANGED vars
      => UNCHANGED <<cr, cw, ccell, file>>
  BY DEF NoRoll, CheckDeclickOut, StopOnce, PostTransport, BeginPass, capture, vars
<1> QED BY <1>2, <1>3, <1>4, <1>5, <1>6, <1>7, NextIs

(* A seek empties the ring, and says so if it was not empty; where nothing *)
(* is left of a take it begins afresh.                                     *)
LEMMA SeeksAre ==
    ASSUME Sound, t \in Moments, d \in Streams, Seeks, file \in Seq(Int), broken \in BOOLEAN,
           dropped \in BOOLEAN
    PROVE  /\ t' = t /\ SameTake(d, d') /\ regions' = {} /\ file' = file
           /\ broken' \in BOOLEAN /\ dropped' \in BOOLEAN /\ Flushed' = file
           /\ NothingTaken \/ ((broken => broken') /\ (dropped => dropped'))
           /\ NothingTaken \/ ~broken' \/ ~dropped' => Flushed' = Flushed
<1>1. cr \in C!Positions /\ cw \in C!Positions
  BY DEF Sound, Rings
<1>2. /\ t' = t /\ Rewound /\ regions' = {} /\ file' = file /\ cr' = 0 /\ cw' = 0
  BY DEF Seeks, NonRealtimeLocate, SeekAfterStop, Rewound, SeekFrom, Seek
<1>3. IF NothingTaken THEN broken' = FALSE /\ dropped' = FALSE
      ELSE /\ broken' = (broken \/ C!ReadSpace(cr, cw) > 0)
           /\ dropped' = (dropped \/ C!ReadSpace(cr, cw) > 0)
  BY <1>2 DEF Rewound, SeekFrom
<1>4. C!ReadSpace(cr, cw) \in Nat
  BY <1>1, CaptureSpaces
<1>5. 0 \in C!Positions
  BY SizesAssumption DEF C!Positions
<1>6. Flushed' = file
  <2>1. C!Contents(ccell, cr, cw)' = <<>>
    BY <1>2, <1>5, CaptureNothing
  <2> QED BY <1>2, <2>1, NothingAdded DEF Flushed
<1>7. C!ReadSpace(cr, cw) = 0 => Flushed = file
  BY EmptyIs, NothingAdded DEF Flushed
<1>8. NothingTaken => C!ReadSpace(cr, cw) = 0
  BY <1>1, CaptureNothing DEF NothingTaken
<1>9. broken' \in BOOLEAN /\ dropped' \in BOOLEAN
  BY <1>3, Zenon
<1>10. NothingTaken \/ ((broken => broken') /\ (dropped => dropped'))
  BY <1>3, Zenon
<1>11. ~NothingTaken /\ (~broken' \/ ~dropped') => ~(C!ReadSpace(cr, cw) > 0)
  BY <1>3, Zenon
<1>12. SameTake(d, d')
  BY <1>2, RewoundIs
<1>13. NothingTaken \/ ~broken' \/ ~dropped' => Flushed' = Flushed
  BY <1>4, <1>6, <1>7, <1>8, <1>11
<1> QED BY <1>2, <1>6, <1>9, <1>10, <1>12, <1>13

(* transport_stopped_wallclock starts the file again, with every capture a *)
(* region.                                                                 *)
LEMMA StopEmpties ==
    ASSUME Inv, Sound, TransportStoppedWallclock, file \in Seq(Int)
    PROVE  /\ file' \in Seq(Int) /\ d'.captured = 0
           /\ Len(Flushed) = Total(d) => Len(Flushed') = Total(d')
           /\ InOrder(Flushed, Captures(d)) =>
                /\ InOrder(Flushed', Captures(d'))
                /\ \A region \in regions' : region \in regions \/ AsRecorded(region)
<1> DEFINE e == FinishCapture(d)
           had == Flushed
           infos == e.infos
<1>1. t \in Moments /\ d \in Streams /\ Numbers(d) /\ cw \in C!Positions
  BY DEF Inv, Typed, Sound, Rings
<1>2. infos = Captures(d) /\ e.captured = 0
  BY <1>1, FinishIs
<1>3. /\ d'.captured = e.captured
      /\ \/ infos = <<>> /\ d'.infos = infos /\ file' = had
         \/ infos # <<>> /\ d'.infos = <<>> /\ file' = <<>>
  BY <1>1, StoppingIs
<1>4. \/ infos = <<>> /\ regions' = regions
      \/ regions' = {RegionOf(infos, had, i) : i \in DOMAIN infos}
  BY DEF TransportStoppedWallclock
<1>5. cr' = cw /\ cw' = cw /\ ccell' = ccell
  BY DEF TransportStoppedWallclock
<1>6. had \in Seq(Int)
  BY FlushedIs
<1>7. C!Contents(ccell, cr, cw)' = <<>>
  BY <1>1, <1>5, CaptureNothing
<1> HIDE DEF e, had, infos
<1>8. Captures(d') = <<>>
  BY <1>2, <1>3 DEF Captures
<1>9. file' \in Seq(Int) /\ Flushed' = file'
  <2>1. file' \in Seq(Int)
    BY <1>3, <1>6, NothingAdded
  <2> QED BY <1>7, <2>1, NothingAdded DEF Flushed
<1>10. ASSUME Len(had) = Total(d) PROVE Len(file') = Total(d')
  <2>1. Total(d') = 0
    BY <1>8, NoneInOrder DEF Total
  <2>2. infos = <<>> => Total(d) = 0
    BY <1>2, NoneInOrder DEF Total
  <2> QED BY <1>3, <1>10, <2>1, <2>2, NoneInOrder
<1>11. ASSUME InOrder(had, infos)
       PROVE  /\ InOrder(file', <<>>)
              /\ \A i \in DOMAIN infos : AsRecorded(RegionOf(infos, had, i))
  <2>1. infos \in Infos /\ \A k \in DOMAIN infos : infos[k].frames > 0
    BY <1>1, <1>2, CapturesAre
  <2>2. \A i \in DOMAIN infos : AsRecorded(RegionOf(infos, had, i))
    BY <1>11, <2>1, RegionsAre
  <2> QED BY <1>3, <1>11, <2>2, NoneInOrder
<1>12. ASSUME InOrder(had, infos)
       PROVE  \A region \in regions' : region \in regions \/ AsRecorded(region)
  BY <1>4, <1>11, <1>12
<1> QED BY <1>2, <1>3, <1>8, <1>9, <1>10, <1>11, <1>12 DEF had

(* The inductive invariant of the capture side                             *)
TakeSafe ==
    /\ Working(t, d) /\ broken \in BOOLEAN /\ dropped \in BOOLEAN
    /\ file \in Seq(Int) /\ (d.captured > 0 => d.recording)
    /\ ~broken => Take(t, d) /\ NotBegun(t, d)
    /\ CapturedInOrder /\ StopKeepsTake

(* It holds to begin with.                                                 *)
LEMMA TakeSafeInitially == Init => TakeSafe
<1> SUFFICES ASSUME Init PROVE TakeSafe
  OBVIOUS
<1>1. /\ d.first = MaxFrames /\ d.captured = 0 /\ d.recording = FALSE /\ d.infos = <<>>
      /\ t.rolling = FALSE /\ t.work = {} /\ t.declicked = FALSE /\ bpc = "idle"
  BY DEF Init
<1>2. /\ cr = 0 /\ cw = 0 /\ file = <<>> /\ regions = {} /\ broken = FALSE
      /\ dropped = FALSE
  BY DEF Init
<1>3. Idle(d)
  BY <1>1 DEF Idle
<1>4. Working(t, d)
  BY <1>1, <1>3 DEF Working, AtTransportWork
<1>5. file \in Seq(Int) /\ Flushed = <<>>
  <2>1. 0 \in C!Positions
    BY SizesAssumption DEF C!Positions
  <2>2. C!Contents(ccell, cr, cw) = <<>>
    BY <1>2, <2>1, CaptureNothing
  <2>3. <<>> \in Seq(Int)
    BY EmptySeq
  <2> QED BY <1>2, <2>2, <2>3, NothingAdded DEF Flushed
<1>6. Captures(d) = <<>>
  BY <1>1 DEF Captures
<1>7. CapturedInOrder /\ StopKeepsTake
  <2>1. Len(Flushed) = 0 /\ FramesBefore(Captures(d), Len(Captures(d)) + 1) = 0
    BY <1>5, <1>6, NoneInOrder
  <2>2. InOrder(Flushed, Captures(d))
    BY <1>5, <1>6, NoneInOrder
  <2>3. CapturedInOrder
    BY <2>1, <2>2 DEF CapturedInOrder
  <2> QED BY <1>2, <2>3 DEF StopKeepsTake
<1>8. Take(t, d) /\ NotBegun(t, d)
  BY <1>1, <1>3, NothingBegun
<1>9. broken \in BOOLEAN /\ dropped \in BOOLEAN
  BY <1>2
<1>10. ~(d.captured > 0)
  BY <1>1
<1> QED BY <1>4, <1>5, <1>7, <1>8, <1>9, <1>10 DEF TakeSafe

(* A seek keeps it: nothing is taken, or what is taken is still there.     *)
LEMMA SeekKeeps ==
    ASSUME Inv, Sound, TakeSafe, [Next]_vars, Seeks
    PROVE  TakeSafe'
<1>1. t \in Moments /\ d \in Streams /\ Numbers(d) /\ broken \in BOOLEAN
      /\ dropped \in BOOLEAN /\ file \in Seq(Int) /\ (d.captured > 0 => d.recording)
  BY DEF Inv, Typed, Sound, TakeSafe
<1>2. /\ t' = t /\ SameTake(d, d') /\ regions' = {} /\ file' = file
      /\ broken' \in BOOLEAN /\ dropped' \in BOOLEAN /\ Flushed' = file
      /\ NothingTaken \/ ((broken => broken') /\ (dropped => dropped'))
      /\ NothingTaken \/ ~broken' \/ ~dropped' => Flushed' = Flushed
  BY <1>1, SeeksAre
<1>3. Working(t, d)'
  BY WorkingKept DEF TakeSafe
<1>4. Captures(d') = Captures(d)
  BY <1>2, SameCaptures DEF SameTake
<1>5. d'.captured > 0 => d'.recording
  BY <1>1, <1>2 DEF SameTake
<1>6. StopKeepsTake'
  BY <1>2 DEF StopKeepsTake
<1>7. CapturedInOrder' /\ (~broken' => Take(t', d') /\ NotBegun(t', d'))
  <2>1. CASE NothingTaken
    <3>1. file = <<>> /\ d.infos = <<>> /\ d.captured = 0 /\ ~d.recording
          /\ d.first = MaxFrames
      BY <2>1 DEF NothingTaken
    <3>2. Captures(d') = <<>> /\ Flushed' = <<>>
      BY <1>2, <1>4, <3>1 DEF Captures
    <3>3. CapturedInOrder'
      BY <3>2, NoneInOrder DEF CapturedInOrder
    <3>4. d'.first = MaxFrames /\ Idle(d')
      BY <1>2, <3>1 DEF SameTake, Idle
    <3> QED BY <3>3, <3>4, NothingBegun
  <2>2. CASE ~NothingTaken
    <3>1. CapturedInOrder'
      BY <1>2, <1>4, <2>2 DEF TakeSafe, CapturedInOrder
    <3>2. ~broken' => Take(t, d) /\ NotBegun(t, d)
      BY <1>2, <2>2 DEF TakeSafe
    <3> QED BY <1>2, <3>1, <3>2, SameBoth
  <2> QED BY <2>1, <2>2
<1> QED BY <1>2, <1>3, <1>5, <1>6, <1>7 DEF TakeSafe

(* The other steps keep the count,                                         *)
LEMMA CountKept ==
    ASSUME Inv, Sound, TakeSafe, [Next]_vars, ~Seeks
    PROVE  /\ file' \in Seq(Int) /\ (d'.captured > 0 => d'.recording)
           /\ ~dropped' => Len(Flushed') = Total(d')
<1>1. /\ file \in Seq(Int) /\ (d.captured > 0 => d.recording)
      /\ ~dropped' => Len(Flushed) = Total(d)
  BY HistoryStays DEF TakeSafe, CapturedInOrder, Total
<1>2. ASSUME NEW n \in 1 .. Block, Play(n)
      PROVE  /\ file' \in Seq(Int) /\ (d'.captured > 0 => d'.recording)
             /\ ~dropped' => Len(Flushed') = Total(d')
  BY <1>1, <1>2, PlayKeeps
<1>3. CASE TransportStoppedWallclock
  BY <1>1, <1>3, StopEmpties
<1>4. CASE ~TransportStoppedWallclock /\ ~\E n \in 1 .. Block : Play(n)
  BY <1>1, <1>4, OtherFlushed, OtherTotal
<1> QED BY <1>2, <1>3, <1>4

(* the order, unless they break it,                                        *)
LEMMA OrderKept ==
    ASSUME Inv, Sound, TakeSafe, [Next]_vars, ~Seeks, ~broken'
    PROVE  InOrder(Flushed', Captures(d'))
<1>1. t \in Moments /\ d \in Streams /\ Within(t) /\ Numbers(d) /\ Rings
  BY DEF Inv, Typed, Sound
<1>2. Numbers(d')
  BY NumbersKept
<1>3. file \in Seq(Int) /\ broken \in BOOLEAN /\ Take(t, d) /\ InOrder(Flushed, Captures(d))
  BY HistoryStays DEF TakeSafe, CapturedInOrder
<1>4. ASSUME NEW n \in 1 .. Block, Play(n)
      PROVE  InOrder(Flushed', Captures(d'))
  <2>1. ~Misplaces(n) /\ ~Reopens(Checked)
    BY <1>4, Zenon DEF Play
  <2> QED BY <1>1, <1>2, <1>3, <1>4, <2>1, PlayIsInOrder
<1>5. CASE TransportStoppedWallclock
  BY <1>3, <1>5, StopEmpties
<1>6. CASE ~TransportStoppedWallclock /\ ~\E n \in 1 .. Block : Play(n)
  <2>1. Flushed' = Flushed
    BY <1>3, <1>6, OtherFlushed
  <2>2. Captures(d') = Captures(d)
    <3>1. ASSUME NEW n \in 1 .. Block, Overrun(n) \/ Underrun(n)
          PROVE  Captures(d') = Captures(d)
      <4>1. Cycle(n) /\ n \in Nat /\ d' = Prepared(n)
        BY <3>1, SizesAssumption DEF Overrun, Underrun
      <4>2. ~Overrun(n)
        BY DEF Overrun
      <4>3. ~Reopens(Checked) /\ ~(Recorded(n).count > 0)
        BY <3>1, <4>2, Zenon DEF Underrun
      <4>4. Recorded(n).count = 0
        <5>1. Recorded(n).count \in Nat
          BY <1>1, <4>1, RecordedIs
        <5> QED BY <4>3, <5>1
      <4>5. t.rolling = TRUE /\ t.declicked = FALSE
        BY <1>1, <4>1, CycleFields
      <4> QED BY <1>1, <1>3, <4>1, <4>3, <4>4, <4>5, PreparedCaptures
    <3> QED BY <1>6, <3>1, OtherCaptures
  <2> QED BY <1>3, <2>1, <2>2
<1> QED BY <1>4, <1>5, <1>6

(* and make regions of it as it was recorded.                              *)
LEMMA RegionsKept ==
    ASSUME Inv, Sound, TakeSafe, [Next]_vars, ~Seeks, ~broken'
    PROVE  \A region \in regions' : AsRecorded(region)
<1>1. t \in Moments /\ d \in Streams /\ file \in Seq(Int)
  BY DEF Inv, Typed, TakeSafe
<1>2. InOrder(Flushed, Captures(d)) /\ \A region \in regions : AsRecorded(region)
  BY HistoryStays DEF TakeSafe, CapturedInOrder, StopKeepsTake
<1>3. CASE TransportStoppedWallclock
  BY <1>1, <1>2, <1>3, StopEmpties
<1>4. CASE BeginPass
  BY <1>2, <1>4 DEF BeginPass
<1>5. CASE Quiet
  BY <1>1, <1>2, <1>5, QuietIs
<1>6. CASE regions' = regions
  BY <1>2, <1>6
<1>7. ASSUME NEW n \in 1 .. Block, Overrun(n) \/ Underrun(n) \/ Play(n)
      PROVE  regions' = regions
  BY <1>7 DEF Overrun, Underrun, Play, Cycle
<1> QED BY <1>3, <1>4, <1>5, <1>6, <1>7, NextIs
        DEF NoRoll, CheckDeclickOut, StopOnce, PostTransport, Start, Stop, Punch, Overwrite,
            Locate, Command, vars

(* So every step keeps the invariant,                                      *)
LEMMA TakeSafeKept ==
    ASSUME Inv, Sound, TakeSafe, [Next]_vars
    PROVE  TakeSafe'
<1>1. CASE Seeks
  BY <1>1, SeekKeeps
<1>2. CASE ~Seeks
  <2>1. Working(t, d)'
    BY WorkingKept DEF TakeSafe
  <2>2. broken' \in BOOLEAN /\ (broken => broken') /\ dropped' \in BOOLEAN
    BY <1>2, HistoryStays DEF TakeSafe
  <2>3. ~broken' => Take(t', d') /\ NotBegun(t', d')
    BY <2>2, TakeGoesOn DEF TakeSafe
  <2>4. /\ file' \in Seq(Int) /\ (d'.captured > 0 => d'.recording)
        /\ ~dropped' => Len(Flushed') = Total(d')
    BY <1>2, CountKept
  <2>5. ~broken' => InOrder(Flushed', Captures(d'))
    BY <1>2, OrderKept
  <2>6. ~broken' => \A region \in regions' : AsRecorded(region)
    BY <1>2, RegionsKept
  <2>7. CapturedInOrder' /\ StopKeepsTake'
    BY <2>4, <2>5, <2>6 DEF CapturedInOrder, StopKeepsTake, Total
  <2> QED BY <2>1, <2>2, <2>3, <2>4, <2>7 DEF TakeSafe
<1> QED BY <1>1, <1>2

(* and it always holds.                                                    *)
LEMMA AlwaysTakeSafe == Spec => []TakeSafe
<1>1. Init => Inv /\ Sound /\ TakeSafe
  BY Initially, SoundInitially, TakeSafeInitially
<1>2. Inv /\ Sound /\ TakeSafe /\ [Next]_vars => (Inv /\ Sound /\ TakeSafe)'
  BY NextKeeps, SoundKept, TakeSafeKept
<1> QED BY <1>1, <1>2, PTL DEF Spec

(* What is in the file and in the capture ring is as much as the captures  *)
(* have counted, and in order and without a gap, each from its first       *)
(* recordable frame: for any sizes and latencies, with no exceptions but   *)
(* those that CapturedInOrder names.                                       *)
THEOREM TakeInOrder == Spec => []CapturedInOrder
<1>1. TakeSafe => CapturedInOrder
  BY DEF TakeSafe
<1> QED BY <1>1, AlwaysTakeSafe, PTL

(* Every region a stop makes lies where it was recorded and plays what was *)
(* recorded there, also when the stop has waited for its input.            *)
THEOREM RegionsAsRecorded == Spec => []StopKeepsTake
<1>1. TakeSafe => StopKeepsTake
  BY DEF TakeSafe
<1> QED BY <1>1, AlwaysTakeSafe, PTL
=============================================================================
