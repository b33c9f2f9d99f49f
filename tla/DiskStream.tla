----------------------------- MODULE DiskStream -----------------------------
(***************************************************************************)
(* The disk stream of one track (libs/ardour/audio_diskstream.cc,          *)
(* diskstream.cc): the butler reads the playlist ahead into the playback   *)
(* ring and writes the capture ring behind into a file, while the process  *)
(* thread plays and records.  The track is armed, not destructive, aligned *)
(* with existing material, at speed 1, without a loop or a slave; all its  *)
(* channels do the same.                                                   *)
(*                                                                         *)
(* A playback cell holds the frame of the playlist it was read from, a     *)
(* capture cell the frame the transport was at when its input came in.     *)
(*                                                                         *)
(* The transport, as far as it drives the track, is the record t:          *)
(*   frame, rolling, rec   _transport_frame, _transport_speed # 0,         *)
(*                         actively_recording ()                           *)
(*   declick, declicked    what waits for a declick, and is it rolled      *)
(*   pendingCapture, stopOnce   StopPendingCapture, and the frame of the   *)
(*                         StopOnce event, MaxFrames if there is none      *)
(*   target, roll          pending_locate_frame and _roll                  *)
(*   work, requested       _post_transport_work, and whether the butler    *)
(*                         has not yet carried out all of it               *)
(* The disk stream's own positions are the record d:                       *)
(*   playback_sample, file_frame                                           *)
(*   first, last           first_ and last_recordable_frame                *)
(*   start, captured       capture_start_frame, capture_captured           *)
(*   recording             was_recording                                   *)
(*   was                   last_possibly_recording                         *)
(*   infos                 capture_info                                    *)
(*   owFrame, owOffset, overwrite   overwrite_frame, _offset and           *)
(*                         _pending_overwrite.                             *)
(***************************************************************************)
EXTENDS Integers, Sequences

CONSTANTS
    PlaybackSize, CaptureSize,  \* bufsize () of the rings
    Chunk,                      \* disk_io_chunk_frames
    Block,                      \* the longest part of a process cycle
    CaptureOffset,              \* _capture_offset
    OutputLatency,              \* _worst_output_latency
    Targets,                    \* frames the user locates to
    LastFrame,                  \* bound: no cycle goes beyond it
    MaxFrames,                  \* max_frames
    MaxCommands,                \* bound: commands of the user, stops not counted
    Commands                    \* which ones: "start", "stop", "locate", "record", "overwrite"

ASSUME SizesAssumption ==
    /\ PlaybackSize \in Nat /\ CaptureSize \in Nat /\ Chunk \in Nat /\ Block \in Nat
    /\ 0 < Chunk /\ Chunk < PlaybackSize /\ Chunk < CaptureSize /\ 0 < Block
ASSUME LatencyAssumption ==
    CaptureOffset \in Nat /\ OutputLatency \in Nat
ASSUME FramesAssumption ==
    /\ LastFrame \in Nat /\ MaxFrames \in Nat /\ Targets \subseteq 0 .. LastFrame
    /\ MaxCommands \in Nat
    /\ LastFrame + CaptureOffset + OutputLatency + Block < MaxFrames

P == INSTANCE RingBuffer WITH Size <- PlaybackSize
C == INSTANCE RingBuffer WITH Size <- CaptureSize

VARIABLES
    t, d,
    pr, pw, pcell,       \* the playback ring's positions and cells
    cr, cw, ccell,       \* those of the capture ring
    file,                \* what the write source holds
    regions,             \* <<start, what it plays>> of the regions the last stop made
    bpc, ptw, vector, toRead, outstanding,   \* the butler's place and locals
    summoned,            \* is there a request in its pipe
    commands,            \* history: commands so far
    slipped, broken, dropped   \* history: see below

playback == <<pr, pw, pcell>>
capture  == <<cr, cw, ccell>>
butler   == <<bpc, ptw, vector, toRead, outstanding>>
history  == <<commands, slipped, broken, dropped>>
vars == <<t, d, pr, pw, pcell, cr, cw, ccell, file, regions,
          bpc, ptw, vector, toRead, outstanding, summoned, commands, slipped, broken,
          dropped>>

Least(a, b) == IF a <= b THEN a ELSE b
Greatest(a, b) == IF a >= b THEN a ELSE b
Nothing == -1
NoVector == <<[at |-> 0, len |-> 0], [at |-> 0, len |-> 0]>>

(* What lies between the input and its place on the timeline.              *)
Alignment == Greatest(CaptureOffset, OutputLatency)

-----------------------------------------------------------------------------
(* Filling the playback ring, at most a chunk at a time.                   *)

(* seek: the rings start again, with the first chunk read.                 *)
Seek ==
    /\ pr' = 0 /\ pw' = Chunk /\ cr' = 0 /\ cw' = 0
    /\ pcell' = P!Stored(pcell, [at |-> 0, len |-> Chunk], Chunk, t.frame)
    /\ slipped' = FALSE

Init ==
    /\ t = [frame |-> 0, rolling |-> FALSE, rec |-> FALSE, declick |-> "none",
            declicked |-> FALSE, target |-> 0, roll |-> FALSE, pendingCapture |-> FALSE,
            stopOnce |-> MaxFrames, work |-> {}, requested |-> FALSE]
    /\ d = [playback_sample |-> 0, file_frame |-> Chunk,
            first |-> MaxFrames, last |-> MaxFrames, start |-> 0, captured |-> 0,
            recording |-> FALSE, was |-> [rolling |-> FALSE, rec |-> FALSE],
            infos |-> <<>>, owFrame |-> 0, owOffset |-> 0, overwrite |-> FALSE]
    /\ pr = 0 /\ pw = Chunk
    /\ pcell = [c \in P!Positions |-> IF c < Chunk THEN c ELSE Nothing]
    /\ cr = 0 /\ cw = 0 /\ ccell = [c \in C!Positions |-> Nothing]
    /\ file = <<>> /\ regions = {}
    /\ bpc = "idle" /\ ptw = {} /\ vector = NoVector /\ toRead = 0
    /\ outstanding = FALSE /\ summoned = FALSE
    /\ commands = 0 /\ slipped = FALSE /\ broken = FALSE /\ dropped = FALSE

-----------------------------------------------------------------------------
(* What to record                                                          *)

FullyRecEnabled(s) == s.rolling /\ s.rec

CheckRecordStatus(e, s) ==
    LET now == [rolling |-> s.rolling, rec |-> s.rec]
        punchOut == FullyRecEnabled(e.was) /\ s.rolling
        f == [e EXCEPT !.was = now]
    IN  CASE now = e.was -> e
          [] now # e.was /\ FullyRecEnabled(s) ->
                [f EXCEPT !.first = s.frame + Alignment, !.last = MaxFrames,
                          !.start = s.frame]
          [] now # e.was /\ ~FullyRecEnabled(s) /\ punchOut ->
                [f EXCEPT !.last = s.frame + Alignment]
          [] OTHER -> f

(* coverage and calculate_record_range: the part of n frames from frame on *)
(* that lies between the first and the last recordable frame.              *)
RecordRange(e, frame, n) ==
    LET end == frame + n
        range(count, offset) == [count |-> count, offset |-> offset]
    IN  IF frame > e.first /\ end <= e.last THEN range(n, 0)
        ELSE IF end >= e.first /\ end <= e.last THEN range(end - e.first, e.first - frame)
        ELSE IF frame > e.first /\ frame <= e.last THEN range(e.last - frame, 0)
        ELSE IF e.first >= frame /\ e.first <= end /\ e.last <= end
        THEN range(e.last - e.first, e.first - frame)
        ELSE range(0, 0)

FinishCapture(e) ==
    LET f == [e EXCEPT !.recording = FALSE, !.first = MaxFrames, !.last = MaxFrames]
    IN  IF e.captured = 0 THEN f
        ELSE [f EXCEPT !.infos = Append(@, [start |-> e.start, frames |-> e.captured]),
                       !.captured = 0]

(* The end of a take, as process corrects it; and is it moved on after the *)
(* transport has gone past it.                                             *)
Last(e) == IF e.last < e.first THEN MaxFrames ELSE e.last
Reopens(f) == d.first # MaxFrames /\ Last(d) < t.frame /\ t.frame < f.last

(* The beginning of process: d as it is when the ranges are known.         *)
Checked == LET e == CheckRecordStatus(d, t) IN [e EXCEPT !.last = Last(e)]
RecordedWithoutOffset(n) == [RecordRange(Checked, t.frame, n) EXCEPT !.offset = 0]
Recorded(n) == RecordRange(Checked, t.frame, n)
Prepared(n) ==
    CASE Recorded(n).count > 0 /\ ~Checked.recording ->
            [Checked EXCEPT !.captured = 0, !.recording = TRUE]
      [] Recorded(n).count = 0 /\ Checked.recording -> FinishCapture(Checked)
      [] OTHER -> Checked

-----------------------------------------------------------------------------
(* The process thread                                                      *)

ProcessCanProceed == t.work \cap {"Stop", "Locate"} = {}
Declicking(s) == [s EXCEPT !.declicked = s.declick # "none"]

(* A part ends at the StopOnce event; while work is pending the event is   *)
(* put off.                                                                *)
StopIsDue == t.stopOnce = t.frame /\ t.work = {}
Cycle(n) ==
    /\ t.rolling /\ ProcessCanProceed /\ ~t.declicked /\ ~StopIsDue
    /\ t.frame + n <= LastFrame
    /\ t.frame < t.stopOnce => t.frame + n <= t.stopOnce
    /\ t' = Declicking([t EXCEPT !.frame = @ + n])
    /\ UNCHANGED <<file, regions, butler, commands, dropped>>

(* The capture ring is full: what came in is lost, and recording goes on.  *)
Overruns(n) == Recorded(n).count > C!WriteSpace(cr, cw)
Overrun(n) ==
    /\ Cycle(n) /\ Overruns(n)
    /\ d' = Prepared(n) /\ broken' = TRUE
    /\ UNCHANGED <<playback, capture, summoned, slipped>>

(* Only a cycle that does not hear its own input looks whether there is    *)
(* enough to play.                                                         *)
Collects(n) ==
    ~(Recorded(n).count = n /\ Recorded(n).offset = 0) /\ ~(Recorded(n).count = 0 /\ t.rec)
Underruns(n) == ~Overruns(n) /\ Collects(n) /\ n > P!ReadSpace(pr, pw)
Underrun(n) ==
    /\ Cycle(n) /\ Underruns(n)
    /\ d' = Prepared(n)
    /\ broken' = (broken \/ Recorded(n).count > 0 \/ Reopens(Checked))
    /\ UNCHANGED <<playback, capture, summoned, slipped>>

(* A record range that does not fit before the end of the ring is copied   *)
(* from the beginning of the port's buffer, whatever its offset.           *)
Wraps(n) == Recorded(n).count > C!WriteVector(cr, cw)[1].len
InputAt(n) == IF Wraps(n) THEN t.frame ELSE t.frame + Recorded(n).offset
Misplaces(n) == Wraps(n) /\ Recorded(n).offset > 0

NeedButlerToWrite(r, w, r2, w2) == C!ReadSpace(r2, w2) >= Chunk
NeedButler(r, w, r2, w2) ==
    P!WriteSpace(r, w) >= Chunk \/ C!ReadSpace(r2, w2) >= Chunk

(* process and commit                                                      *)
Play(n) ==
    /\ Cycle(n) /\ ~Overruns(n) /\ ~Underruns(n)
    /\ LET count == Recorded(n).count
       IN  /\ ccell' = C!Written(ccell, C!WriteVector(cr, cw), count, InputAt(n))
           /\ cw' = C!Advanced(cw, count)
           /\ d' = [Prepared(n) EXCEPT !.playback_sample = @ + n, !.captured = @ + count]
    /\ pr' = P!Advanced(pr, n)
    /\ summoned' = (summoned \/ NeedButler(pr', pw, cr, cw'))
    /\ slipped' = (slipped \/ n > P!ReadSpace(pr, pw))
    /\ broken' = (broken \/ Misplaces(n) \/ Reopens(Checked))
    /\ UNCHANGED <<pw, pcell, cr>>

NoRoll ==
    /\ ~t.rolling
    /\ d' = CheckRecordStatus(d, t) /\ d' # d
    /\ UNCHANGED <<t, playback, capture, file, regions, butler, summoned, history>>

(* stop_transport: a recording rolls on for the input that is still to     *)
(* come, until a StopOnce event; then the output is declicked; then it     *)
(* stops.  The first of these that comes prepares the tracks.              *)
Back(f, n) == IF n < f THEN f - n ELSE 0
ScheduleWork(s, bits) == [s EXCEPT !.work = @ \cup bits, !.requested = TRUE]
NoDeclick(s) ==
    [s EXCEPT !.declick = "none", !.declicked = FALSE, !.target = 0, !.roll = FALSE]
RealtimeStop(s) ==
    [ScheduleWork(NoDeclick(s), {"Stop"}) EXCEPT
        !.frame = IF s.rec THEN Back(@, Greatest(OutputLatency, Block)) ELSE @,
        !.rolling = FALSE, !.rec = FALSE, !.pendingCapture = FALSE, !.stopOnce = MaxFrames]
AwaitsInput(s) == s.rec /\ ~s.pendingCapture /\ OutputLatency > Block
WaitForInput(s) ==
    [s EXCEPT !.pendingCapture = TRUE, !.stopOnce = s.frame + OutputLatency - Block]
StopTransport(s) ==
    CASE AwaitsInput(s) -> WaitForInput(s)
      [] ~AwaitsInput(s) /\ s.declick = "none" -> [s EXCEPT !.declick = "stop"]
      [] OTHER -> RealtimeStop(s)

(* prepare_to_stop                                                         *)
PrepareToStop ==
    IF AwaitsInput(t) \/ (t.declick = "none" /\ ~t.pendingCapture)
    THEN /\ d' = [d EXCEPT !.last = t.frame + CaptureOffset]
         /\ broken' = (broken \/ Reopens(d'))
    ELSE UNCHANGED <<d, broken>>

(* Once the declick has been rolled.  The rest of the cycle that is under  *)
(* way does not look for an event that is inserted now.                    *)
Located(s, frame, roll) ==
    ScheduleWork([s EXCEPT !.frame = frame], {"Locate"} \cup (IF roll THEN {"Roll"} ELSE {}))
CheckDeclickOut ==
    /\ t.declicked
    /\ IF t.declick = "stop"
       THEN /\ LET s == NoDeclick(StopTransport(t))
               IN  \/ t' = s
                  \/ /\ AwaitsInput(t) /\ OutputLatency < 2 * Block
                     /\ t' = [s EXCEPT !.stopOnce = MaxFrames]
            /\ PrepareToStop
       ELSE /\ LET s == [NoDeclick(t) EXCEPT !.frame = t.target]
               IN  t' = IF t.rec THEN NoDeclick(t)
                        ELSE Located(IF t.roll THEN s ELSE RealtimeStop(s), t.target, t.roll)
            /\ UNCHANGED <<d, broken>>
    /\ UNCHANGED <<playback, capture, file, regions, butler, summoned, commands, slipped,
                   dropped>>

StopOnce ==
    /\ t.rolling /\ ~t.declicked /\ StopIsDue
    /\ t' = [StopTransport(t) EXCEPT !.stopOnce = MaxFrames]
    /\ PrepareToStop
    /\ UNCHANGED <<playback, capture, file, regions, butler, summoned, commands, slipped,
                   dropped>>

AtTransportWork == bpc \in {"locate", "stop", "seek", "overwrite"}
PostTransport ==
    /\ t.work # {} /\ ~t.requested /\ ~AtTransportWork
    /\ t' = [t EXCEPT !.work = {}, !.rolling = @ \/ {"Locate", "Roll"} \subseteq t.work]
    /\ UNCHANGED <<d, playback, capture, file, regions, butler, summoned, history>>

-----------------------------------------------------------------------------
(* The user, through the events the process thread processes               *)

Command(c) ==
    /\ c \in Commands /\ ~t.declicked /\ ~StopIsDue
    /\ UNCHANGED <<capture, playback, file, regions, butler, summoned, slipped, dropped>>
Counted == commands < MaxCommands /\ commands' = commands + 1

Start(rec) ==
    /\ Command("start") /\ Counted
    /\ ~t.rolling /\ t.work = {}
    /\ rec => "record" \in Commands
    /\ t' = [t EXCEPT !.rolling = TRUE, !.rec = rec]
    /\ UNCHANGED <<d, broken>>

Stop ==
    /\ Command("stop")
    /\ t.rolling /\ t.work = {}
    /\ t' = StopTransport(t)
    /\ PrepareToStop
    /\ UNCHANGED commands

(* While the end of the last capture has still to come in, punching in     *)
(* again joins the two, and a locate moves the end.                        *)
Capturing == d.recording \/ d.first # MaxFrames
Punch ==
    /\ Command("record") /\ Counted
    /\ t.rolling /\ t.work = {}
    /\ t' = [t EXCEPT !.rec = ~@]
    /\ broken' = (broken \/ (~t.rec /\ Capturing))
    /\ UNCHANGED d

(* A rolling transport is declicked at the new position.                   *)
Locate(frame, roll) ==
    /\ Command("locate") /\ Counted
    /\ ~t.rec /\ t.frame # frame
    /\ t.work = {} \/ ~roll
    /\ IF t.rolling /\ t.declick = "none"
       THEN t' = [t EXCEPT !.frame = frame, !.declick = "locate",
                           !.target = frame, !.roll = roll]
       ELSE t' = Located(IF t.rolling /\ ~roll THEN RealtimeStop(t) ELSE t, frame, roll)
    /\ broken' = (broken \/ (t.rolling /\ Capturing))
    /\ UNCHANGED d

(* overwrite_some_buffers, when the playlist was modified.                 *)
Overwrite ==
    /\ Command("overwrite") /\ Counted
    /\ ~t.rec /\ t.work = {}
    /\ t' = ScheduleWork(t, {"OverWrite"})
    /\ d' = [d EXCEPT !.overwrite = TRUE, !.owFrame = d.playback_sample, !.owOffset = pr]
    /\ UNCHANGED broken

-----------------------------------------------------------------------------
(* The butler                                                              *)

ButlerGoto(from, to) == bpc = from /\ bpc' = to

(* A pass of thread_work: transport work, refill, flush.                   *)
NextWork(bits) == CASE "Locate" \in bits -> "locate"
                    [] "Locate" \notin bits /\ "Stop" \in bits -> "stop"
                    [] OTHER -> "overwrite"
BeginPass ==
    /\ bpc = "idle" /\ (summoned \/ outstanding \/ t.requested)
    /\ summoned' = FALSE /\ outstanding' = FALSE
    /\ IF t.requested THEN bpc' = NextWork(t.work) /\ ptw' = t.work
       ELSE bpc' = "refill" /\ ptw' = {}
    /\ t' = [t EXCEPT !.requested = FALSE]
    /\ UNCHANGED <<d, playback, capture, file, regions, vector, toRead, history>>

Restart(next) == IF t.requested THEN "idle" ELSE next
NothingTaken ==
    /\ file = <<>> /\ cr = cw /\ d.infos = <<>> /\ d.captured = 0
    /\ ~d.recording /\ d.first = MaxFrames
SeekFrom(fileFrame) ==
    /\ Seek
    /\ d' = [d EXCEPT !.playback_sample = t.frame, !.file_frame = fileFrame]
    /\ regions' = {}
    /\ IF NothingTaken THEN broken' = FALSE /\ dropped' = FALSE
       ELSE /\ broken' = (broken \/ C!ReadSpace(cr, cw) > 0)
            /\ dropped' = (dropped \/ C!ReadSpace(cr, cw) > 0)
    /\ UNCHANGED ccell
ReadOnAsBefore == SeekFrom(d.file_frame)
Rewound == SeekFrom(t.frame + Chunk)

NonRealtimeLocate ==
    /\ ButlerGoto("locate", IF "Stop" \in ptw THEN "stop" ELSE "overwrite")
    /\ Rewound
    /\ UNCHANGED <<t, file, ptw, vector, toRead, outstanding, summoned, commands>>

(* transport_stopped_wallclock: flush all, and make a region of each       *)
(* capture.                                                                *)
FlushedEarlier == file
Flushed == file \o C!Contents(ccell, cr, cw)
FramesBefore(infos, i) ==
    LET sum[k \in 0 .. Len(infos)] == IF k = 0 THEN 0 ELSE sum[k - 1] + infos[k].frames
    IN  sum[i - 1]
RegionOf(infos, data, i) ==
    LET at == FramesBefore(infos, i)
    IN  <<infos[i].start, [k \in 1 .. infos[i].frames |->
                              IF at + k <= Len(data) THEN data[at + k] ELSE Nothing]>>
TransportStoppedWallclock ==
    /\ ButlerGoto("stop", "seek")
    /\ LET e == FinishCapture(d)
       IN  IF e.infos = <<>> THEN d' = e /\ file' = Flushed /\ UNCHANGED regions
           ELSE /\ regions' = {RegionOf(e.infos, Flushed, i) : i \in DOMAIN e.infos}
                /\ d' = [e EXCEPT !.infos = <<>>] /\ file' = <<>>
    /\ cr' = cw
    /\ UNCHANGED <<t, playback, cw, ccell, ptw, vector, toRead, outstanding, summoned,
                   history>>
SeekAfterStop ==
    /\ ButlerGoto("seek", Restart("overwrite"))
    /\ Rewound
    /\ UNCHANGED <<t, file, ptw, vector, toRead, outstanding, summoned, commands>>

(* The two chunks of overwrite_existing_buffers are put where the stream   *)
(* was when they were asked for, and never reach the last cell: they are   *)
(* right if no seek came in between and the data does not go on at cell 0. *)
InPlace == /\ d.owOffset <= pr /\ pr <= pw
           /\ d.owFrame + pr - d.owOffset = d.playback_sample
OverwriteExistingBuffers ==
    /\ ButlerGoto("overwrite", Restart("refill"))
    /\ IF d.overwrite /\ "OverWrite" \in ptw
       THEN LET size == PlaybackSize - 1
            IN  /\ pcell' = [c \in P!Positions |->
                      CASE c = size -> pcell[c]
                        [] d.owOffset <= c /\ c < size -> d.owFrame + c - d.owOffset
                        [] OTHER -> d.owFrame + size - d.owOffset + c]
                /\ slipped' = (slipped \/ ~InPlace)
                /\ d' = [d EXCEPT !.overwrite = FALSE, !.owFrame = 0, !.owOffset = 0]
       ELSE UNCHANGED <<pcell, slipped, d>>
    /\ ptw' = {}
    /\ UNCHANGED <<t, pr, pw, capture, file, regions, vector, toRead, outstanding,
                   summoned, commands, broken, dropped>>

(* _do_refill: look at the ring, then read into one or both parts of what  *)
(* was seen.                                                               *)
RefillLook ==
    /\ bpc = "refill"
    /\ LET total == P!WriteSpace(pr, pw)
           seen == P!WriteVector(pr, pw)
       IN  IF total < Chunk
           THEN /\ bpc' = Restart("flush")
                /\ UNCHANGED <<vector, toRead, outstanding>>
           ELSE /\ bpc' = "read"
                /\ outstanding' = (total >= 2 * Chunk)
                /\ toRead' = Least(Chunk, total)
                /\ vector' = IF seen[1].len > Chunk THEN [seen EXCEPT ![2].len = 0] ELSE seen
    /\ UNCHANGED <<t, d, playback, capture, file, regions, ptw, summoned, history>>

Read(part, n) ==
    /\ pcell' = P!Stored(pcell, vector[part], n, d.file_frame)
    /\ pw' = P!Advanced(pw, n)
    /\ d' = [d EXCEPT !.file_frame = @ + n]
    /\ toRead' = toRead - n
ReadFirst ==
    /\ ButlerGoto("read", "readOn")
    /\ Read(1, Least(toRead, vector[1].len))
    /\ UNCHANGED <<t, pr, capture, file, regions, ptw, vector, outstanding, summoned, history>>
ReadSecond ==
    /\ ButlerGoto("readOn", Restart("flush"))
    /\ Read(2, Least(toRead, vector[2].len))
    /\ vector' = NoVector
    /\ UNCHANGED <<t, pr, capture, file, regions, ptw, outstanding, summoned, history>>

(* do_flush, without force                                                 *)
DoFlush ==
    /\ ButlerGoto("flush", "idle")
    /\ LET total == C!ReadSpace(cr, cw)
           seen == C!ReadVector(cr, cw)
           first == Least(Chunk, seen[1].len)
           second == IF first = seen[1].len /\ total > first /\ first < Chunk
                     THEN Least(Chunk - first, seen[2].len) ELSE 0
           n == first + second
       IN  IF total = 0 \/ (total < Chunk /\ d.recording)
           THEN UNCHANGED <<file, cr, outstanding>>
           ELSE /\ file' = file \o C!Taken(ccell, seen, n)
                /\ cr' = C!Advanced(cr, n)
                /\ outstanding' = (outstanding \/ total >= 2 * Chunk
                                               \/ (~d.recording /\ total > Chunk))
    /\ UNCHANGED <<t, d, playback, cw, ccell, regions, ptw, vector, toRead, summoned, history>>

-----------------------------------------------------------------------------
Cycles == \E n \in 1 .. Block : Overrun(n) \/ Underrun(n) \/ Play(n)
User ==
    \/ \E rec \in BOOLEAN : Start(rec)
    \/ Stop \/ Punch \/ Overwrite
    \/ \E frame \in Targets, roll \in BOOLEAN : Locate(frame, roll)
Butler ==
    \/ BeginPass \/ NonRealtimeLocate \/ TransportStoppedWallclock \/ SeekAfterStop
    \/ OverwriteExistingBuffers \/ RefillLook \/ ReadFirst \/ ReadSecond \/ DoFlush
Next == Cycles \/ NoRoll \/ CheckDeclickOut \/ StopOnce \/ PostTransport \/ User \/ Butler

Spec == Init /\ [][Next]_vars

(* The engine keeps calling, and the butler's thread gets on: weak         *)
(* fairness of both, with what enables them written out.                   *)
ProcessMay ==
    \/ t.rolling /\ ProcessCanProceed /\ t.frame < LastFrame
    \/ t.declicked
    \/ t.work # {} /\ ~t.requested /\ ~AtTransportWork
ButlerMay == bpc # "idle" \/ summoned \/ outstanding \/ t.requested
Fairness ==
    /\ []<>~ProcessMay \/ []<><<Cycles \/ CheckDeclickOut \/ StopOnce \/ PostTransport>>_vars
    /\ []<>~ButlerMay \/ []<><<Butler>>_vars
FairSpec == Spec /\ Fairness

-----------------------------------------------------------------------------
Frame == Nat \cup {Nothing}
(* The positions stay within their rings, recording needs a rolling        *)
(* transport, and no capture without a frame is finished.                  *)
TypeOK ==
    /\ t \in [frame : 0 .. LastFrame, rolling : BOOLEAN, rec : BOOLEAN,
              declick : {"none", "stop", "locate"}, declicked : BOOLEAN,
              target : {0} \cup Targets, roll : BOOLEAN, pendingCapture : BOOLEAN,
              stopOnce : 0 .. MaxFrames,
              work : SUBSET {"Stop", "Locate", "Roll", "OverWrite"}, requested : BOOLEAN]
    /\ t.rec \/ t.pendingCapture \/ t.stopOnce # MaxFrames => t.rolling
    /\ \A f \in {"playback_sample", "file_frame", "first", "last", "start", "captured",
                 "owFrame"} : d[f] \in Nat
    /\ d.was \in [rolling : BOOLEAN, rec : BOOLEAN]
    /\ d.recording \in BOOLEAN /\ d.overwrite \in BOOLEAN /\ d.owOffset \in P!Positions
    /\ \A i \in DOMAIN d.infos : d.infos[i].frames > 0
    /\ pr \in P!Positions /\ pw \in P!Positions /\ pcell \in [P!Positions -> Frame]
    /\ cr \in C!Positions /\ cw \in C!Positions /\ ccell \in [C!Positions -> Frame]
    /\ bpc \in {"idle", "locate", "stop", "seek", "overwrite", "refill", "read", "readOn",
                "flush"}
    /\ ptw \subseteq {"Stop", "Locate", "Roll", "OverWrite"} /\ toRead \in 0 .. Chunk
    /\ commands \in 0 .. MaxCommands

(* The playback ring holds the playlist from playback_sample on, without a *)
(* gap or a repetition, whenever the process thread and the butler meet in *)
(* it: until the process thread takes more than there is, or data that     *)
(* wraps is overwritten, after which only a seek puts it right.            *)
ReadAhead ==
    ~slipped => \A k \in 0 .. P!ReadSpace(pr, pw) - 1 :
                    pcell[P!Advanced(pr, k)] = d.playback_sample + k

(* The file and the capture ring hold as many frames as the captures, the  *)
(* finished ones and the one going on, have counted, whatever was lost or  *)
(* moved, unless a seek has dropped some (dropped); and they hold them in  *)
(* order, each capture from its first recordable frame, unless (broken)    *)
(* - input is lost: an overrun, or an underrun while recording;            *)
(* - the first part of a capture wraps in the ring, and is not taken from  *)
(*   where it begins in the cycle's input (Misplaces);                     *)
(* - the end of a capture is moved on, by a stop or a punch-out, after the *)
(*   transport has gone past it (Reopens);                                 *)
(* - the user punches in again, or locates, while it is Capturing.         *)
(* Once nothing is left of that take, the next seek ends the exception.    *)
Captures(e) == IF e.captured = 0 THEN e.infos
               ELSE Append(e.infos, [start |-> e.start, frames |-> e.captured])
InOrder(data, infos) ==
    /\ Len(data) = FramesBefore(infos, Len(infos) + 1)
    /\ \A i \in DOMAIN infos : \A k \in 1 .. infos[i].frames :
         data[FramesBefore(infos, i) + k] = infos[i].start + Alignment + k - 1
CapturedInOrder ==
    /\ ~dropped => Len(Flushed) = FramesBefore(Captures(d), Len(Captures(d)) + 1)
    /\ ~broken => InOrder(Flushed, Captures(d))

(* A stop makes of every capture a region that lies where it was recorded  *)
(* and plays what was recorded there, also if the transport has rolled on  *)
(* for its input, with the exceptions (broken) of CapturedInOrder.         *)
AsRecorded(region) ==
    \A k \in DOMAIN region[2] : region[2][k] = region[1] + Alignment + k - 1
StopKeepsTake == ~broken => \A region \in regions : AsRecorded(region)

(* While the transport rolls the butler gets to read every chunk there is  *)
(* room for and to write every chunk there is, also those of the last      *)
(* cycle before LastFrame.  (Once more was taken than there was the spaces *)
(* mean nothing, and only the next cycle can tell.)                        *)
NeedsDisk == P!WriteSpace(pr, pw) >= Chunk \/ C!ReadSpace(cr, cw) >= Chunk
DiskIsServed ==
    t.rolling /\ NeedsDisk /\ ~slipped ~> ~t.rolling \/ ~NeedsDisk \/ slipped

(* transport_stopped_wallclock, line 1355: "there may be work to do to      *)
(* flush remaining data to disk", and it is done, whatever came before.    *)
TakeIsKept == \A region \in regions : AsRecorded(region)
=============================================================================
