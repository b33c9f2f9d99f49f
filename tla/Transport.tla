------------------------------ MODULE Transport ------------------------------
(***************************************************************************)
(* The transport of a session with its default options (no external sync,  *)
(* no seamless loop, stop at the session's end) and speeds 0 and 1.  Three *)
(* parties: the user's threads queue events; the process thread, once per  *)
(* cycle, merges them, processes what can be processed and rolls, in parts *)
(* that end where an event is due; the butler does what a locate or a stop *)
(* leaves to be done and seeks the tracks.  A cycle is one action per      *)
(* event and per part rolled, and the butler acts in between.              *)
(*                                                                         *)
(* The state the handlers share is the record s of EventLists with         *)
(*   speed, loop, range, rec     _transport_speed, play_loop, _play_range, *)
(*                               _record_status                            *)
(*   punchIn                     the option punch_in                       *)
(*   sub, plocate, proll         transport_sub_state, pending_locate_frame *)
(*                               and _roll                                 *)
(*   work, count                 _post_transport_work, and the counter     *)
(*                               should_do_transport_work                  *)
(*   lastRoll                    _last_roll_location                       *)
(*   want, goal                  history: the frame of the last Locate     *)
(*                               since the transport started, and whether  *)
(*                               the last command was to stop or to roll   *)
(*   astray                      history: a recording began while a locate *)
(*                               waited for its declick, which ends what   *)
(*                               want asks for, and nothing has sought the *)
(*                               tracks since                              *)
(* so that a handler that calls another is an operator applied to the      *)
(* session the other returns.  A handler is one step: the work that a      *)
(* locate's realtime_stop adds (session_transport.cc:226) and what locate  *)
(* adds itself (:819) come together, where a butler that is in a pass      *)
(* already could read the first without the second.                        *)
(***************************************************************************)
EXTENDS EventLists

CONSTANTS
    Requests,            \* events the user's threads queue
    MaxRequests,         \* bound: requests in one behaviour
    Block,               \* current_block_size, and frames in a cycle
    Latency,             \* _worst_output_latency
    SessionEnd,          \* current_end_frame ()
    LastFrame,           \* bound: max_frames, where even a recording stops
    LoopStart, LoopEnd,  \* the auto loop location
    Ranges,              \* the ranges of a request to play a range
    AutoReturn,          \* the option of that name
    PunchIns,            \* the values that punch_in may have
    MayArm, ArmRolling   \* may the user arm recording, and while rolling

ASSUME BlockAssumption == Block \in Nat \ {0} /\ Latency \in Nat
ASSUME LengthAssumption ==
    SessionEnd \in Nat /\ LastFrame \in Nat /\ SessionEnd <= LastFrame
Frames == 0 .. LastFrame
ASSUME LoopAssumption ==
    LoopStart \in Nat /\ LoopEnd \in Nat /\ LoopStart < LoopEnd /\ LoopEnd <= SessionEnd
(* Otherwise the end of a range would be an immediate event.               *)
ASSUME RangeAssumption ==
    /\ Ranges \in Seq(Frames \X Frames) /\ Ranges # <<>>
    /\ \A i \in DOMAIN Ranges : Ranges[i][2] > IF Len(Ranges) > 1 THEN Block ELSE 0
ASSUME SwitchAssumption ==
    /\ AutoReturn \in BOOLEAN /\ MayArm \in BOOLEAN /\ ArmRolling \in BOOLEAN
    /\ PunchIns \subseteq BOOLEAN

(* The types process_event neither removes nor deletes once processed.     *)
Kept == {"AutoLoop", "StopOnce", "RangeStop", "RangeLocate", "PunchIn", "PunchOut"}
Commands == {"Speed", "Locate", "LocateRoll", "SetLoop", "SetPlayRange", "Overwrite"}
Event(type, action, frame, target, on) ==
    [type |-> type, action |-> action, frame |-> frame, target |-> target, on |-> on]

(* Commands are carried out at once; what is put at a frame stays there,   *)
(* and only stop_transport makes a StopOnce (session_transport.cc:1059).   *)
ASSUME RequestAssumption ==
    \A r \in Requests :
      /\ r \in [type : (Kept \cup Commands) \ {"StopOnce"},
                action : {"Add", "Replace", "Remove", "Clear"},
                frame : Frames, target : Frames, on : BOOLEAN]
      /\ r.action = "Replace" => r.type \in OnceOnly
      /\ r.action = "Add" => r.type \notin OnceOnly /\ (r.frame = Immediate \/ r.type \in Kept)

VARIABLES
    s,
    pc, left, this, the_next_one, end_frame, stop_limit, \* a process cycle
    bpc, on_entry, ptw,  \* butler_transport_work
    disk,                \* the frame the tracks will play next
    asked                \* history: requests so far

cycle == <<pc, left, this, the_next_one, end_frame, stop_limit>>
butler == <<bpc, on_entry, ptw>>
vars == <<s, pc, left, this, the_next_one, end_frame, stop_limit, bpc, on_entry, ptw,
          disk, asked>>

Nowhere == -1
Init ==
    /\ \E p \in PunchIns :
         s = [ev |-> [e \in Cells |-> NoEvent], live |-> {},
              events |-> <<>>, immediate |-> <<>>, pending |-> <<>>, next |-> End,
              frame |-> 0, speed |-> 0, loop |-> FALSE, range |-> FALSE,
              rec |-> "Disabled", sub |-> {}, plocate |-> 0, proll |-> FALSE,
              work |-> {}, count |-> 0, lastRoll |-> 0,
              want |-> Nowhere, goal |-> "none", astray |-> FALSE, punchIn |-> p]
    /\ pc = "idle" /\ left = 0 /\ this = End /\ the_next_one = End
    /\ end_frame = 0 /\ stop_limit = 0
    /\ bpc = "idle" /\ on_entry = 0 /\ ptw = {}
    /\ disk = 0 /\ asked = 0

Least(a, b) == IF a <= b THEN a ELSE b
BackUnchecked(f, n) == f - n
Back(f, n) == IF n < f THEN f - n ELSE 0
Held == {this, the_next_one}

Queue(t, event) ==
    [Created(t, Held, event) EXCEPT !.pending = Append(@, New(t, Held))]

AddWork(t, bits) == [t EXCEPT !.work = @ \cup bits]
ScheduleWork(t, bits) == [AddWork(t, bits) EXCEPT !.count = @ + 1]
NonRealtimeWorkPending(t) == t.work # {}
ProceedsDuringLocate(t) == t.work \cap {"Stop", "ClearSubstate"} = {}
ProcessCanProceed(t) == t.work \cap {"Locate", "Stop", "ClearSubstate"} = {}

-----------------------------------------------------------------------------
(* Handlers                                                                *)

(* A locate that still waits for its declick will not be carried out now,  *)
(* though the position is the new one already.                             *)
Record(t) ==
    IF "Locate" \in t.sub
    THEN [t EXCEPT !.rec = "Recording", !.astray = TRUE, !.want = Nowhere]
    ELSE [t EXCEPT !.rec = "Recording"]

(* disable_record (true, force), without latched record enable.            *)
DisableRecord(t, force) ==
    [t EXCEPT !.rec = CASE ~t.loop \/ force -> "Disabled"
                        [] @ = "Recording" -> "Enabled"
                        [] OTHER -> @]

KeptSub(t) == t.sub
ClearedSub(t) == IF AutoReturn THEN {"AutoReturning"} ELSE {}
RealtimeStop(t, clear) ==
    LET back == IF Latency > Block THEN Latency ELSE Block
        moved == IF t.rec = "Recording" THEN Back(t.frame, back) ELSE t.frame
        u == AddWork([t EXCEPT !.frame = moved],
                     {"Stop"} \cup (IF clear THEN {"ClearSubstate"} ELSE {}))
        v == ClearEventType(ClearEventType(ClearEventType(u, "StopOnce"), "RangeStop"),
                            "RangeLocate")
    IN  [DisableRecord(v, clear) EXCEPT !.speed = 0, !.sub = ClearedSub(t)]

(* A recording rolls on until the input of the time it was stopped at has  *)
(* come in, once.                                                          *)
InputNotInYet(t) == t.rec = "Recording" /\ Latency > Block
AwaitsInput(t) ==
    t.rec = "Recording" /\ "StopPendingCapture" \notin t.sub /\ Latency > Block
StopTransport(t) ==
    IF t.speed = 0 THEN t
    ELSE IF AwaitsInput(t)
    THEN LET ev == Event("StopOnce", "Replace", t.frame + Latency - Block, 0, FALSE)
         IN  [ReplaceEvent(Created(t, Held, ev), New(t, Held))
                EXCEPT !.sub = @ \cup {"StopPendingCapture"}]
    ELSE IF "DeclickOut" \notin t.sub THEN [t EXCEPT !.sub = @ \cup {"DeclickOut"}]
    ELSE ScheduleWork(RealtimeStop(t, FALSE), {})

StartTransport(t) ==
    LET u == [t EXCEPT !.lastRoll = t.frame, !.speed = 1, !.sub = @ \cup {"DeclickIn"},
                       !.want = Nowhere]
    IN  CASE t.rec = "Enabled" /\ ~t.punchIn -> Record(u)
          [] t.rec = "Recording" /\ ~t.loop -> [u EXCEPT !.rec = "Disabled"]
          [] OTHER -> u

SetTransportSpeed(t, on) ==
    CASE on /\ t.speed = 0 -> StartTransport(t)
      [] ~on /\ t.speed # 0 -> StopTransport(t)
      [] OTHER -> t

UnsetPlayLoop(t) == Queue([t EXCEPT !.loop = FALSE], Event("AutoLoop", "Clear", 0, 0, FALSE))
UnsetPlayRange(t) ==
    ClearEventType(ClearEventType([t EXCEPT !.range = FALSE], "RangeStop"), "RangeLocate")

(* A rolling transport is first declicked, in the course of which the      *)
(* position is already the new one.                                        *)
ScheduleDeclickOnly(t, target, roll) ==
    [t EXCEPT !.sub = @ \cup {"DeclickOut"}, !.plocate = target, !.proll = roll]
ScheduleDeclick(t, target, roll) ==
    [t EXCEPT !.sub = @ \cup {"DeclickOut", "Locate"},
              !.plocate = target, !.proll = roll]
Locate(t, target, roll) ==
    LET moved == [t EXCEPT !.frame = target]
        stopped == IF t.speed # 0 /\ ~roll THEN RealtimeStop(moved, TRUE) ELSE moved
        located == ScheduleWork(stopped, {"Locate"} \cup (IF roll THEN {"Roll"} ELSE {}))
    IN  CASE t.rec = "Recording" -> t
          [] t.rec # "Recording" /\ t.frame = target ->
                IF roll THEN SetTransportSpeed(t, TRUE) ELSE t
          [] t.rec # "Recording" /\ t.frame # target /\ t.speed # 0
                /\ "DeclickOut" \notin t.sub -> ScheduleDeclick(moved, target, roll)
          [] OTHER -> IF t.loop /\ (target < LoopStart \/ target > LoopEnd)
                      THEN UnsetPlayLoop(located) ELSE located

SetPlayLoop(t, on) ==
    IF on = t.loop \/ (on /\ t.rec = "Recording") THEN t
    ELSE IF ~on THEN UnsetPlayLoop(t)
    ELSE LET u == UnsetPlayRange([t EXCEPT !.loop = TRUE])
             ev == Event("AutoLoop", "Replace", LoopEnd, LoopStart, FALSE)
         IN  Locate(ReplaceEvent(Created(u, Held, ev), New(u, Held)), LoopStart, TRUE)

(* The end of every range but the last locates to the next one; the events *)
(* are a block early when there are several.                               *)
RangeEvent(i) ==
    LET at == IF Len(Ranges) > 1 THEN Back(Ranges[i][2], Block) ELSE Ranges[i][2]
    IN  IF i = Len(Ranges) THEN Event("RangeStop", "Add", at, 0, FALSE)
        ELSE Event("RangeLocate", "Add", at, Ranges[i + 1][1], FALSE)
RangesAdded(t) ==
    LET Merged[i \in 0 .. Len(Ranges)] ==
            IF i = 0 THEN t
            ELSE AddEvent(Created(Merged[i - 1], Held, RangeEvent(i)), New(Merged[i - 1], Held))
    IN  Merged[Len(Ranges)]
SetPlayRange(t, on) ==
    LET u == UnsetPlayRange(t)
    IN  IF ~on THEN [SetTransportSpeed(u, FALSE) EXCEPT !.goal = "stop"]
        ELSE Locate(RangesAdded(UnsetPlayLoop([u EXCEPT !.range = TRUE])),
                    Ranges[1][1], TRUE)

(* Called after every part that was rolled: what waited for the declick.   *)
MaybeStop(t, limit) == IF t.speed > 0 /\ t.frame >= limit THEN StopTransport(t) ELSE t
AfterDeclick(t) ==
    IF "Locate" \in t.sub THEN Locate(t, t.plocate, t.proll) ELSE StopTransport(t)
CheckDeclickOut(t) ==
    IF "DeclickOut" \notin t.sub THEN t
    ELSE [AfterDeclick(t) EXCEPT !.sub = @ \ {"DeclickOut", "Locate"}]

(* process_event.  During a state change all but a Locate wait on the      *)
(* immediate list; _remove_event then deletes an event of the same type    *)
(* and frame, which is the event itself if it came from the event list.    *)
Deferred(t, e) == [t EXCEPT !.immediate = Append(@, e)]
Defer(t, e) == RemoveEvent(Deferred(t, e), e)
MayProcess(t, type) == NonRealtimeWorkPending(t) => type = "Locate"

Handled(t, e) ==
    LET ev == t.ev[e]
        Wanted(u) == IF t.rec = "Recording" THEN u
                     ELSE [u EXCEPT !.want = IF ev.target = t.frame /\ t.speed # 0
                                             THEN Nowhere ELSE ev.target]
        Goal(u, goal) == [u EXCEPT !.goal = goal]
    IN  CASE ev.type = "Speed" ->
               SetTransportSpeed(Goal(t, IF ev.on THEN "roll" ELSE "stop"), ev.on)
          [] ev.type = "Locate" -> Locate(Wanted(t), ev.target, FALSE)
          [] ev.type = "LocateRoll" -> Locate(Goal(Wanted(t), "roll"), ev.target, TRUE)
          [] ev.type = "SetLoop" -> SetPlayLoop(IF ev.on THEN Goal(t, "roll") ELSE t, ev.on)
          [] ev.type = "SetPlayRange" ->
               SetPlayRange(IF ev.on THEN Goal(t, "roll") ELSE t, ev.on)
          [] ev.type = "Overwrite" ->
               IF t.rec = "Recording" THEN t ELSE ScheduleWork(t, {"OverWrite"})
          [] ev.type = "AutoLoop" -> IF t.loop THEN Locate(t, ev.target, TRUE) ELSE t
          [] ev.type = "StopOnce" -> ClearEventType(StopTransport(t), "StopOnce")
          [] ev.type = "RangeStop" -> StopTransport(t)
          [] ev.type = "RangeLocate" -> Locate(t, ev.target, TRUE)
          [] ev.type = "PunchIn" ->
               IF t.punchIn /\ t.rec = "Enabled" THEN Record(t) ELSE t
          [] ev.type = "PunchOut" ->
               IF t.rec = "Recording" THEN [t EXCEPT !.rec = "Enabled"] ELSE t

ProcessEvent(t, e) ==
    IF ~MayProcess(t, t.ev[e].type) THEN Defer(t, e)
    ELSE IF t.ev[e].type \in Kept THEN Handled(t, e)
    ELSE Delete(RemoveEvent(Handled(t, e), e), e)

MergeEvent(t, e) ==
    CASE t.ev[e].action = "Remove" -> Delete(RemoveEvent(t, e), e)
      [] t.ev[e].action = "Replace" -> ReplaceEvent(t, e)
      [] t.ev[e].action = "Clear" -> Delete(ClearEventType(t, t.ev[e].type), e)
      [] t.ev[e].action = "Add" /\ t.ev[e].frame = Immediate -> ProcessEvent(t, e)
      [] OTHER -> AddEvent(t, e)

-----------------------------------------------------------------------------
(* The process thread                                                      *)

Goto(from, to) == pc = from /\ pc' = to

(* When the butler has done its part.                                      *)
PostTransport(t) ==
    LET stopped == IF "Stop" \in t.work THEN [t EXCEPT !.sub = {}] ELSE t
        located == IF "Locate" \notin t.work THEN stopped
                   ELSE IF "Roll" \in t.work THEN StartTransport(stopped)
                   ELSE [stopped EXCEPT !.sub = {}]
    IN  [SetNextEvent(located) EXCEPT !.work = {}]

TransportWorkRequested == s.count # 0
Process ==
    /\ Goto("idle", "merge")
    /\ s' = IF NonRealtimeWorkPending(s) /\ ~TransportWorkRequested
            THEN PostTransport(s) ELSE s
    /\ UNCHANGED <<left, this, the_next_one, end_frame, stop_limit, butler, disk, asked>>

Merge ==
    /\ pc = "merge" /\ s.pending # <<>>
    /\ s' = MergeEvent([s EXCEPT !.pending = Tail(@)], Head(s.pending))
    /\ UNCHANGED <<cycle, butler, disk, asked>>
Merged ==
    /\ s.pending = <<>> /\ Goto("merge", "immediate")
    /\ UNCHANGED <<s, left, this, the_next_one, end_frame, stop_limit, butler, disk, asked>>

MayProcessImmediate == ~NonRealtimeWorkPending(s) /\ s.immediate # <<>>
ProcessImmediate ==
    /\ pc = "immediate" /\ MayProcessImmediate
    /\ s' = ProcessEvent([s EXCEPT !.immediate = Tail(@)], Head(s.immediate))
    /\ UNCHANGED <<cycle, butler, disk, asked>>

(* maybe_stop before anything is rolled ends the cycle.                    *)
Limit == IF s.rec = "Recording" THEN LastFrame ELSE SessionEnd
Rolls == ProcessCanProceed(s) /\ s.speed # 0
DoNotRoll ==
    /\ ~MayProcessImmediate /\ (~Rolls \/ s.frame >= Limit)
    /\ Goto("immediate", "idle")
    /\ s' = IF Rolls THEN StopTransport(s) ELSE s
    /\ UNCHANGED <<left, this, the_next_one, end_frame, stop_limit, butler, disk, asked>>

(* process_routes for n frames, then what follows it.                      *)
Roll(n, limit) ==
    /\ disk' = disk + n
    /\ s' = CheckDeclickOut(MaybeStop([s EXCEPT !.frame = Least(@ + n, LastFrame)], limit))

WithoutEvents ==
    /\ ~MayProcessImmediate /\ Rolls /\ s.frame < Limit /\ s.next = End
    /\ Goto("immediate", "idle")
    /\ Roll(Block, Limit)
    /\ UNCHANGED <<left, this, the_next_one, end_frame, stop_limit, butler, asked>>

WithEvents ==
    /\ ~MayProcessImmediate /\ Rolls /\ s.frame < Limit /\ s.next # End
    /\ Goto("immediate", "roll")
    /\ this' = s.next /\ the_next_one' = After(s.events, s.next)
    /\ left' = Block /\ end_frame' = s.frame + Block /\ stop_limit' = Limit
    /\ UNCHANGED <<s, butler, disk, asked>>

(* Up to the next event if it is due, exactly to its frame.                *)
Due == /\ this # End
       /\ s.ev[this].frame <= end_frame /\ s.ev[this].frame >= s.frame
ThisPart == IF Due THEN s.ev[this].frame - s.frame ELSE left
RollPart ==
    /\ Goto("roll", "events")
    /\ left' = left - ThisPart
    /\ IF ThisPart > 0 THEN Roll(ThisPart, stop_limit) ELSE UNCHANGED <<s, disk>>
    /\ UNCHANGED <<this, the_next_one, end_frame, stop_limit, butler, asked>>

(* An iterator to an event that was erased may lead anywhere in the list.  *)
AfterErased(t, e) ==
    IF Contains(t.events, e) THEN {After(t.events, e)}
    ELSE {End} \cup {t.events[i] : i \in DOMAIN t.events}
EventHere == this # End /\ s.ev[this].frame = s.frame
ProcessHere ==
    /\ pc = "events" /\ EventHere
    /\ s' = ProcessEvent(s, this)
    /\ this' = the_next_one
    /\ the_next_one' \in IF the_next_one = End THEN {End} ELSE AfterErased(s', the_next_one)
    /\ UNCHANGED <<pc, left, end_frame, stop_limit, butler, disk, asked>>

PartDone ==
    /\ ~EventHere /\ left > 0 /\ ~NonRealtimeWorkPending(s) /\ Goto("events", "roll")
    /\ end_frame' = s.frame + left
    /\ UNCHANGED <<s, left, this, the_next_one, stop_limit, butler, disk, asked>>
CycleDone ==
    /\ ~EventHere /\ (left = 0 \/ NonRealtimeWorkPending(s)) /\ Goto("events", "idle")
    /\ s' = SetNextEvent(s)
    /\ left' = 0 /\ this' = End /\ the_next_one' = End /\ end_frame' = 0 /\ stop_limit' = 0
    /\ UNCHANGED <<butler, disk, asked>>

-----------------------------------------------------------------------------
(* The butler: one pass of butler_transport_work.  A pass that finds the   *)
(* counter changed after a seek ends and another begins, as does one that  *)
(* ends with the counter above zero.                                       *)
ButlerGoto(from, to) == bpc = from /\ bpc' = to
AfterLocate(bits) == IF "Stop" \in bits THEN "stop" ELSE "done"

StartWork ==
    /\ bpc = "idle" /\ TransportWorkRequested
    /\ on_entry' = s.count /\ ptw' = s.work
    /\ bpc' = IF "Locate" \in ptw' THEN "locate" ELSE AfterLocate(ptw')
    /\ UNCHANGED <<s, cycle, disk, asked>>

NonRealtimeLocate ==
    /\ ButlerGoto("locate", AfterLocate(ptw))
    /\ disk' = s.frame /\ s' = [s EXCEPT !.astray = FALSE]
    /\ UNCHANGED <<cycle, on_entry, ptw, asked>>

(* non_realtime_stop reads the work to do again ...                        *)
ReadWork ==
    /\ ButlerGoto("stop", "return") /\ ptw' = s.work
    /\ UNCHANGED <<s, cycle, on_entry, disk, asked>>

(* ... returns to where the transport started, unless a locate says where  *)
(* to go ...                                                               *)
ReturnFrame(t) == CASE t.loop -> LoopStart
                    [] ~t.loop /\ t.range -> Ranges[1][1]
                    [] OTHER -> t.lastRoll
Returned(t) == IF AutoReturn /\ "Locate" \notin ptw
               THEN [t EXCEPT !.frame = ReturnFrame(t)] ELSE t
Return ==
    /\ ButlerGoto("return", "seek")
    /\ s' = IF "ClearSubstate" \in ptw
            THEN UnsetPlayLoop([Returned(s) EXCEPT !.range = FALSE]) ELSE Returned(s)
    /\ UNCHANGED <<cycle, on_entry, ptw, disk, asked>>

(* ... seeks, and gives up if there is more to do ...                      *)
CounterUnchanged == s.count = on_entry
Seek ==
    /\ ButlerGoto("seek", IF CounterUnchanged THEN "stopped" ELSE "idle")
    /\ disk' = s.frame
    /\ s' = [s EXCEPT !.astray = FALSE,
                       !.count = IF CounterUnchanged THEN @ ELSE @ - 1]
    /\ UNCHANGED <<cycle, on_entry, ptw, asked>>

(* ... and ends loop and range, and rolls if a locate was to.              *)
RollRequest == Event("Speed", "Add", Immediate, 0, TRUE)
Stopped ==
    LET t == [s EXCEPT !.range = FALSE, !.loop = FALSE]
    IN  /\ ButlerGoto("stopped", "done")
        /\ s' = IF "Locate" \in ptw /\ s.proll
                THEN [Queue(t, RollRequest) EXCEPT !.proll = FALSE] ELSE t
        /\ UNCHANGED <<cycle, on_entry, ptw, disk, asked>>

WorkDone ==
    /\ ButlerGoto("done", "idle")
    /\ s' = [s EXCEPT !.count = @ - 1]
    /\ on_entry' = 0 /\ ptw' = {}
    /\ UNCHANGED <<cycle, disk, asked>>

-----------------------------------------------------------------------------
(* The user's threads                                                      *)

Request ==
    /\ asked < MaxRequests /\ HasNew(s, Held)
    /\ \E r \in Requests : s' = Queue(s, r)
    /\ asked' = asked + 1
    /\ UNCHANGED <<cycle, butler, disk>>

(* maybe_enable_record                                                     *)
ArmRecord ==
    /\ MayArm /\ s.rec = "Disabled" /\ (s.speed = 0 \/ ArmRolling)
    /\ asked < MaxRequests /\ asked' = asked + 1
    /\ s' = IF s.speed # 0 /\ ~s.punchIn THEN Record(s) ELSE [s EXCEPT !.rec = "Enabled"]
    /\ UNCHANGED <<cycle, butler, disk>>

ProcessThread ==
    \/ Process \/ Merge \/ Merged \/ ProcessImmediate \/ DoNotRoll
    \/ WithoutEvents \/ WithEvents \/ RollPart \/ ProcessHere \/ PartDone \/ CycleDone
Butler ==
    \/ StartWork \/ NonRealtimeLocate \/ ReadWork \/ Return \/ Seek \/ Stopped \/ WorkDone
Next == ProcessThread \/ Butler \/ Request \/ ArmRecord

Spec == Init /\ [][Next]_vars

(* Weak fairness of the two threads, with ENABLED written out: the process *)
(* thread can always take its next step, the butler when it has begun or   *)
(* has been asked.                                                         *)
ButlerEnabled == bpc # "idle" \/ TransportWorkRequested
FairSpec ==
    /\ Spec
    /\ []<><<ProcessThread>>_vars
    /\ []<>~ButlerEnabled \/ []<><<Butler>>_vars

-----------------------------------------------------------------------------
(* Properties                                                              *)

(* Every variable has its type.                                            *)
TypeOK ==
    /\ s.live \subseteq Cells /\ s.next \in Cells \cup {End}
    /\ \A e \in Cells : s.ev[e].type \in {"None"} \cup Kept \cup Commands
    /\ \A q \in {s.events, s.immediate, s.pending} : q \in Seq(Cells)
    /\ s.frame \in Frames /\ s.speed \in {0, 1}
    /\ s.rec \in {"Disabled", "Enabled", "Recording"}
    /\ s.sub \subseteq {"DeclickOut", "DeclickIn", "Locate", "StopPendingCapture",
                        "AutoReturning"}
    /\ s.work \subseteq {"Stop", "Locate", "Roll", "ClearSubstate", "OverWrite"}
    /\ s.count \in Nat /\ disk \in Nat /\ left \in 0 .. Block
    /\ pc \in {"idle", "merge", "immediate", "roll", "events"}
    /\ bpc \in {"idle", "locate", "stop", "return", "seek", "stopped", "done"}

(* The event list is in order of frames, holds each event once and no      *)
(* event that was deleted, and next_event designates one of it or its end: *)
(* what merge, replace, remove and clear rely on however they nest         *)
(* (session_events.cc:132-279).                                            *)
EventListSound ==
    /\ \A i, j \in DOMAIN s.events : i < j =>
         /\ s.ev[s.events[i]].frame <= s.ev[s.events[j]].frame
         /\ s.events[i] # s.events[j]
    /\ \A i \in DOMAIN s.events : s.events[i] \in s.live
    /\ s.next # End => Contains(s.events, s.next)

(* Nothing waits for a declick when the transport is at rest: a transport  *)
(* started later would stop or jump after its first block                  *)
(* (session_transport.cc:601-623, 1034-1090).                              *)
NoStaleDeclick ==
    s.speed = 0 => s.sub \cap {"DeclickOut", "Locate"} = {}

(* Whenever tracks are about to be rolled, and not just declicked, they    *)
(* play from where the transport is: no way of locating, stopping,         *)
(* returning or looping lets the process thread go on before the butler    *)
(* has sought the tracks to the last of the positions                      *)
(* (session_process.cc:233-411, session_transport.cc:251-599).  Not so at  *)
(* max_frames, where the position stops and the tracks do not, nor after a *)
(* recording has begun between a locate and its declick: the position is   *)
(* the new one by then (:790), the call that "we'll be called again when   *)
(* its done" (:796) announces gives up (:775), and the position and the    *)
(* tracks stay apart (astray) until something seeks the tracks.            *)
AboutToRoll == \/ pc = "immediate" /\ Rolls /\ ~MayProcessImmediate /\ s.frame < Limit
               \/ pc = "roll" /\ s.frame < LastFrame
PlaysFromPosition ==
    AboutToRoll /\ "DeclickOut" \notin s.sub /\ ~s.astray => disk = s.frame

(* When the transport has come to rest it is where it was last told to     *)
(* locate since it started, and so are the tracks.  Not so within a block  *)
(* of the session's end, which the declick then rolls past: maybe_stop     *)
(* makes a stop of the locate (session_process.cc:373); nor if a recording *)
(* begins before the locate's declick is done, for then the call that is   *)
(* to carry it out gives up (session_transport.cc:775).                    *)
AtRest == /\ pc = "idle" /\ bpc = "idle" /\ s.speed = 0 /\ s.work = {}
          /\ s.immediate = <<>> /\ s.pending = <<>>
FarFromEnd(f) == f + Block < SessionEnd
LocateLands ==
    AtRest /\ s.want # Nowhere /\ FarFromEnd(s.want) => s.frame = s.want /\ disk = s.want

(* The tracks are never rolled past the frame of an event: the part ends   *)
(* there, whatever was merged, cleared or processed since next_event was   *)
(* set, and wherever the transport came from (session_process.cc:334-396). *)
(* Not so for the StopOnce of a recording that the end of a range stops in *)
(* mid-cycle: it is inserted behind the iterator, in the rest of the cycle *)
(* if Latency < 2 * Block, and that rest is rolled past it; nor after a    *)
(* locate was given up (astray), which leaves next_event as the position   *)
(* before it had it.                                                       *)
Passed(e) == /\ s.ev[e].frame > s.frame /\ s.ev[e].frame < s.frame + (disk' - disk)
             /\ s.ev[e].type # "StopOnce"
NoEventPassed ==
    [][pc' # pc /\ "DeclickOut" \notin s.sub /\ ~s.astray
       => \A i \in DOMAIN s.events : ~Passed(s.events[i])]_vars

(* A stop that the process thread took up stops the transport, or a later  *)
(* command to roll overtakes it: neither a declick, nor the wait for       *)
(* recorded input, nor work of the butler's in progress loses it.          *)
StopLands == s.goal = "stop" ~> s.speed = 0 \/ s.goal = "roll"

(* What process_event queues for the end of a state change is still there  *)
(* at its end.                                                             *)
QueuedEventsLive == \A i \in DOMAIN s.immediate : s.immediate[i] \in s.live
=============================================================================
