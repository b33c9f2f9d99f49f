------------------------------- MODULE Butler -------------------------------
(***************************************************************************)
(* The butler thread (libs/ardour/butler.cc) and the protocol by which the *)
(* process thread hands it transport work and takes the result back        *)
(* (Session::process, post_transport, butler_transport_work), with the     *)
(* other threads that use it: the thread that reports a halted engine or   *)
(* an xrun (engine_halted) and the GUI thread that starts an export.       *)
(*                                                                         *)
(* Transport work is a set of bits.  A track's refill and flush are one    *)
(* step each; what they leave to do is nondeterministic.  The request pipe *)
(* is drained in one go, so it is its last Run or Pause, if any (a Wake    *)
(* only makes it non-empty) and Quit, which hides what follows it.         *)
(***************************************************************************)
EXTENDS Integers, FiniteSets

CONSTANTS
    Requests,      \* what one event may ask for: sets of work bits
    Anytime,       \* the requests process_event accepts while work is
                   \* pending: locates
    WhileRolling,  \* the requests a running transport makes by itself:
                   \* check_declick_out's stops and locates
    MaxRequests,   \* bound: requests made in one behaviour
    Callers        \* "halt", "export": which of the other threads run

Bits == {"Stop", "Duration", "Locate", "Roll", "Abort", "OverWrite", "Speed",
         "Audition", "Reverse", "InputChange", "CurveRealloc",
         "ClearSubstate", "AdjustPlayback", "AdjustCapture"}

CannotProceedMask == {"InputChange", "Speed", "Reverse", "CurveRealloc",
                      "Audition", "Locate", "Stop", "ClearSubstate"}

ASSUME RequestAssumption ==
    /\ Requests \subseteq SUBSET Bits
    /\ Anytime \subseteq Requests /\ WhileRolling \subseteq Requests
ASSUME BoundAssumption == MaxRequests \in Nat
ASSUME CallerAssumption == Callers \subseteq {"halt", "export"}

VARIABLES
    jobs,          \* should_do_transport_work
    bits,          \* _post_transport_work
    pipe,          \* request_pipe
    waiting,       \* threads blocked in paused.wait
    bpc, shouldRun, err, outstanding,     \* the butler thread
    onEntry, taken,                       \* its locals on_entry and ptw
    rt,            \* the process thread
    halt, gui,     \* engine_halted and the export
    requests,      \* how many requests have been made
    undone,        \* history: bits asked for and not carried out since
    quiet          \* history: no Run was written since Butler::stop was called

butlerVars == <<bpc, shouldRun, err, outstanding, onEntry, taken>>
otherVars  == <<halt, gui>>
ghosts     == <<quiet>>
vars == <<jobs, bits, pipe, waiting, bpc, shouldRun, err, outstanding, onEntry,
          taken, rt, halt, gui, requests, undone, quiet>>

Init ==
    /\ jobs = 0 /\ bits = {} /\ pipe = "none" /\ waiting = {}
    /\ bpc = "poll" /\ shouldRun = FALSE /\ err = FALSE /\ outstanding = FALSE
    /\ onEntry = 0 /\ taken = {}
    /\ rt = "idle" /\ halt = "idle" /\ gui = "idle"
    /\ requests = 0 /\ undone = {} /\ quiet = FALSE

Write(r) == pipe' = IF pipe = "quit" \/ (r = "wake" /\ pipe # "none")
                    THEN pipe ELSE r

WaitWithoutWriting(r, t) == UNCHANGED pipe /\ waiting' = waiting \cup {t}

(* Butler::stop and wait_until_finished: request_lock is held from the     *)
(* write to the wait, so a signal cannot fall between them.                *)
WriteAndWait(r, t) == Write(r) /\ waiting' = waiting \cup {t}

(* g_atomic_int_dec_and_test.  Below zero only the sign matters: there are *)
(* not enough requests left to bring the counter back to zero.             *)
Dec(n) == IF n > -MaxRequests - 1 THEN n - 1 ELSE n

-----------------------------------------------------------------------------
(* The process thread                                                      *)

(* Session::process looks for finished work before anything else.          *)
PostOnPending == bits # {}
CanPost == bits # {} /\ jobs = 0

Cycle ==
    /\ rt = "idle" /\ gui # "rolling"
    /\ rt' = IF CanPost THEN "post" ELSE "events"
    /\ UNCHANGED <<jobs, bits, pipe, waiting, butlerVars, otherVars, requests,
                   undone, ghosts>>

PostTransport ==
    /\ rt = "post"
    /\ bits' = {} /\ undone' = {}
    /\ rt' = "events"
    /\ UNCHANGED <<jobs, pipe, waiting, butlerVars, otherVars, requests,
                   ghosts>>

Proceeds == bits \cap CannotProceedMask = {}

(* An event adds post transport work; only a locate may while some is      *)
(* pending, every other event is put off.  What audio processing asks for  *)
(* by itself is not an event, and is asked for whenever audio is processed.*)
Accepted(w) == bits = {} \/ w \in Anytime \/ (Proceeds /\ w \in WhileRolling)

Request(w) ==
    /\ rt = "events" /\ requests < MaxRequests
    /\ Accepted(w)
    /\ bits' = bits \cup w /\ undone' = undone \cup w
    /\ requests' = requests + 1
    /\ rt' = "schedule"
    /\ UNCHANGED <<jobs, pipe, waiting, butlerVars, otherVars, ghosts>>

Schedule ==
    /\ rt = "schedule"
    /\ jobs' = jobs + 1
    /\ rt' = "summon"
    /\ UNCHANGED <<bits, pipe, waiting, butlerVars, otherVars, requests,
                   undone, ghosts>>

WriteNothing == UNCHANGED <<pipe, quiet>>
WriteRun == Write("run") /\ quiet' = FALSE

Summon ==
    /\ rt = "summon"
    /\ WriteRun
    /\ rt' = "events"
    /\ UNCHANGED <<jobs, bits, waiting, butlerVars, otherVars, requests, undone>>

(* The rest of the cycle: routes are run unless work is pending that they  *)
(* cannot run during, and may have used up enough to need the butler.      *)
Process(needsButler) ==
    /\ rt \in {"events", "fw"}
    /\ IF Proceeds /\ needsButler THEN WriteRun ELSE WriteNothing
    /\ rt' = "idle"
    /\ UNCHANGED <<jobs, bits, waiting, butlerVars, otherVars, requests,
                   undone>>

(* process_export, when the engine freewheels.                             *)
CatchUp ==
    /\ rt = "idle" /\ gui = "rolling"
    /\ WriteAndWait("wake", "process")
    /\ rt' = "catchup"
    /\ UNCHANGED <<jobs, bits, butlerVars, otherVars, requests, undone, ghosts>>

CaughtUp ==
    /\ rt = "catchup" /\ "process" \notin waiting
    /\ rt' = "fw"
    /\ UNCHANGED <<jobs, bits, pipe, waiting, butlerVars, otherVars, requests,
                   undone, ghosts>>

-----------------------------------------------------------------------------
(* The butler: Butler::thread_work and Session::butler_transport_work      *)

Poll ==
    /\ bpc = "poll" /\ (pipe # "none" \/ outstanding)
    /\ shouldRun' = ((shouldRun \/ pipe = "run") /\ pipe # "pause")
    /\ bpc' = IF pipe = "quit" THEN "exit" ELSE "work"
    /\ pipe' = "none"
    /\ UNCHANGED <<jobs, bits, waiting, err, outstanding, onEntry, taken, rt,
                   otherVars, requests, undone, ghosts>>

Work ==
    /\ bpc = "work"
    /\ outstanding' = FALSE
    /\ bpc' = IF jobs # 0 THEN "entry" ELSE "refill"
    /\ UNCHANGED <<jobs, bits, pipe, waiting, shouldRun, err, onEntry, taken,
                   rt, otherVars, requests, undone, ghosts>>

Enter ==
    /\ bpc = "entry"
    /\ onEntry' = jobs
    /\ bpc' = "take"
    /\ UNCHANGED <<jobs, bits, pipe, waiting, shouldRun, err, outstanding,
                   taken, rt, otherVars, requests, undone, ghosts>>

Take ==
    /\ bpc = "take"
    /\ taken' = bits /\ undone' = undone \ bits
    /\ bpc' = "execute"
    /\ UNCHANGED <<jobs, bits, pipe, waiting, shouldRun, err, outstanding,
                   onEntry, rt, otherVars, requests, ghosts>>

(* Seeking for a reverse or a stop and overwriting buffers stop as soon as *)
(* a new request is seen, and everything starts again.                     *)
Interruptible(ptw) ==
    \/ "Stop" \in ptw \/ "OverWrite" \in ptw
    \/ "Reverse" \in ptw /\ "Locate" \notin ptw

Interrupted ==
    /\ bpc = "execute" /\ jobs # onEntry /\ Interruptible(taken)
    /\ jobs' = Dec(jobs)
    /\ undone' = undone \cup taken /\ taken' = {}
    /\ bpc' = "entry"
    /\ UNCHANGED <<bits, pipe, waiting, shouldRun, err, outstanding, onEntry,
                   rt, otherVars, requests, ghosts>>

AfterWorkZero == 0
AfterWorkTwice == Dec(Dec(jobs))
AfterWork == Dec(jobs)

Execute ==
    /\ bpc = "execute"
    /\ jobs' = AfterWork
    /\ taken' = {}
    /\ bpc' = "refill"
    /\ UNCHANGED <<bits, pipe, waiting, shouldRun, err, outstanding, onEntry,
                   rt, otherVars, requests, undone, ghosts>>

DiskAlways == jobs = 0
DiskAllowed == jobs = 0 /\ shouldRun

Refill(more) ==
    /\ bpc = "refill"
    /\ IF DiskAllowed
       THEN outstanding' = more
       ELSE more = outstanding /\ UNCHANGED outstanding
    /\ bpc' = "refilled"
    /\ UNCHANGED <<jobs, bits, pipe, waiting, shouldRun, err, onEntry, taken,
                   rt, otherVars, requests, undone, quiet>>

Refilled ==
    /\ bpc = "refilled"
    /\ bpc' = IF ~err /\ jobs # 0 THEN "work" ELSE "flush"
    /\ UNCHANGED <<jobs, bits, pipe, waiting, shouldRun, err, outstanding,
                   onEntry, taken, rt, otherVars, requests, undone, ghosts>>

Flush(more, fails) ==
    /\ bpc = "flush"
    /\ IF DiskAllowed
       THEN outstanding' = (outstanding \/ more) /\ err' = (err \/ fails)
       ELSE ~more /\ ~fails /\ UNCHANGED <<outstanding, err>>
    /\ bpc' = "flushed"
    /\ UNCHANGED <<jobs, bits, pipe, waiting, shouldRun, onEntry, taken, rt,
                   otherVars, requests, undone, ghosts>>

Flushed ==
    /\ bpc = "flushed"
    /\ bpc' = IF ~err /\ jobs # 0 THEN "work" ELSE "end"
    /\ UNCHANGED <<jobs, bits, pipe, waiting, shouldRun, err, outstanding,
                   onEntry, taken, rt, otherVars, requests, undone, ghosts>>

Signal == IF waiting = {} THEN UNCHANGED waiting
          ELSE \E t \in waiting : waiting' = waiting \ {t}

RestartWhileRunning == shouldRun
Restart == shouldRun /\ (outstanding \/ jobs # 0)

EndPass ==
    /\ bpc = "end"
    /\ IF Restart
       THEN bpc' = "work" /\ UNCHANGED waiting
       ELSE bpc' = "poll" /\ Signal
    /\ UNCHANGED <<jobs, bits, pipe, shouldRun, err, outstanding, onEntry,
                   taken, rt, otherVars, requests, undone, quiet>>

-----------------------------------------------------------------------------
(* engine_halted, on the thread of the engine's Halted or Xrun signal; the *)
(* process thread goes on after an xrun, so it is not stopped here.        *)

HaltStep(from, to) ==
    "halt" \in Callers /\ rt # "gone" /\ halt = from /\ halt' = to

HaltZero ==
    /\ HaltStep("idle", "clear")
    /\ jobs' = 0
    /\ UNCHANGED <<bits, pipe, waiting, butlerVars, rt, gui, requests, undone,
                   ghosts>>

HaltClear ==
    /\ HaltStep("clear", "stop")
    /\ bits' = {} /\ undone' = {}
    /\ UNCHANGED <<jobs, pipe, waiting, butlerVars, rt, gui, requests, ghosts>>

HaltStop ==
    /\ HaltStep("stop", "stopping")
    /\ WriteAndWait("pause", "halt")
    /\ quiet' = TRUE
    /\ UNCHANGED <<jobs, bits, butlerVars, rt, gui, requests, undone>>

(* Butler::stop returns; realtime_stop leaves its bits for post_transport  *)
(* and non_realtime_stop does the work on this thread.                     *)
HaltStopped ==
    /\ "halt" \notin waiting
    /\ HaltStep("stopping", "stopped")
    /\ bits' = bits \cup {"Stop", "ClearSubstate"}
    /\ UNCHANGED <<jobs, pipe, waiting, butlerVars, rt, gui, requests, undone,
                   ghosts>>

-----------------------------------------------------------------------------
(* pre_export, start_audio_export and stop_audio_export, on the GUI thread *)

ExportStep(from, to) ==
    "export" \in Callers /\ rt # "gone" /\ gui = from /\ gui' = to

PreExport ==
    /\ ExportStep("idle", "wait")
    /\ WriteAndWait("wake", "gui")
    /\ UNCHANGED <<jobs, bits, butlerVars, rt, halt, requests, undone, ghosts>>

(* From here the tracks are sought to the start, the transport is started  *)
(* and butler_transport_work is called, all on this thread.                *)
StartExport ==
    /\ "gui" \notin waiting
    /\ ExportStep("wait", "work")
    /\ UNCHANGED <<jobs, bits, pipe, waiting, butlerVars, rt, halt, requests,
                   undone, ghosts>>

ExportWork ==
    /\ ExportStep("work", "zero")
    /\ jobs' = Dec(jobs) /\ undone' = {}
    /\ UNCHANGED <<bits, pipe, waiting, butlerVars, rt, halt, requests, ghosts>>

ExportZero ==
    /\ ExportStep("zero", "post")
    /\ jobs' = 0
    /\ UNCHANGED <<bits, pipe, waiting, butlerVars, rt, halt, requests, undone,
                   ghosts>>

ExportPost ==
    /\ ExportStep("post", "rolling")
    /\ bits' = {}
    /\ UNCHANGED <<jobs, pipe, waiting, butlerVars, rt, halt, requests, undone,
                   ghosts>>

-----------------------------------------------------------------------------
(* ~Butler, when the session is destroyed and its process function is not  *)
(* called any more.                                                        *)
Terminate ==
    /\ rt = "idle" /\ gui = "idle" /\ halt \in {"idle", "stopped"}
    /\ pipe' = "quit" /\ rt' = "gone"
    /\ UNCHANGED <<jobs, bits, waiting, butlerVars, otherVars, requests,
                   undone, ghosts>>

-----------------------------------------------------------------------------
ProcessThread ==
    \/ Cycle \/ PostTransport \/ Schedule \/ Summon \/ CatchUp \/ CaughtUp
    \/ \E w \in Requests : Request(w)
    \/ \E b \in BOOLEAN : Process(b)

ButlerThread ==
    \/ Poll \/ Work \/ Enter \/ Take \/ Interrupted \/ Execute \/ Refilled
    \/ Flushed \/ EndPass
    \/ \E more \in BOOLEAN : Refill(more) \/ \E fails \in BOOLEAN : Flush(more, fails)

Halting == HaltZero \/ HaltClear \/ HaltStop \/ HaltStopped

Exporting == PreExport \/ StartExport \/ ExportWork \/ ExportZero \/ ExportPost

Next == ProcessThread \/ ButlerThread \/ Halting \/ Exporting \/ Terminate

Spec == Init /\ [][Next]_vars

(* Every thread that can take a step does; the tracks are not always left  *)
(* with something to refill or to flush.                                   *)
Fairness ==
    /\ WF_vars(ProcessThread) /\ WF_vars(ButlerThread)
    /\ WF_vars(Halting) /\ WF_vars(Exporting)
    /\ SF_vars(Refill(FALSE))
    /\ SF_vars(~outstanding /\ Flush(FALSE, FALSE))

FairSpec == Spec /\ Fairness

-----------------------------------------------------------------------------
(* The process thread and the butler are alone with the transport work     *)
(* until an engine_halted or an export interferes with it.                 *)
Undisturbed == halt = "idle" /\ gui \in {"idle", "wait"}

(* Types.                                                                  *)
TypeOK ==
    /\ jobs \in Int /\ (Undisturbed => jobs \in 0..MaxRequests)
    /\ bits \subseteq Bits
    /\ pipe \in {"none", "wake", "run", "pause", "quit"}
    /\ waiting \subseteq {"process", "halt", "gui"}
    /\ bpc \in {"poll", "work", "entry", "take", "execute", "refill",
                "refilled", "flush", "flushed", "end", "exit"}
    /\ shouldRun \in BOOLEAN /\ err \in BOOLEAN /\ outstanding \in BOOLEAN
    /\ onEntry \in Int /\ taken \subseteq Bits
    /\ rt \in {"idle", "post", "events", "schedule", "summon", "catchup", "fw",
               "gone"}
    /\ halt \in {"idle", "clear", "stop", "stopping", "stopped"}
    /\ gui \in {"idle", "wait", "work", "zero", "post", "rolling"}
    /\ requests \in 0..MaxRequests /\ undone \subseteq Bits
    /\ quiet \in BOOLEAN

(* post_transport clears every bit ("XXX is this really safe?", line 1173):*)
(* no bit is cleared that the butler has not carried out since it was last *)
(* asked for, nor one it is carrying out.                                  *)
PostAfterWork == Undisturbed /\ rt = "post" => undone = {} /\ taken = {}

(* Work asked for and not carried out is counted, over and above the work  *)
(* the butler is about to finish: it cannot forget the request.            *)
WorkIsCounted ==
    Undisturbed /\ undone # {} /\ rt # "schedule"
        => jobs > (IF bpc = "execute" THEN 1 ELSE 0)

(* While the butler carries out transport work it neither refills nor      *)
(* flushes, and the process thread does not take the work for finished.    *)
CountCoversWork ==
    Undisturbed /\ bpc \in {"entry", "take", "execute"}
        => jobs > 0 /\ rt # "post"

(* A thread that waits in stop or wait_until_finished will be signalled:   *)
(* the butler is not blocked on an empty pipe.  (paused.signal wakes one   *)
(* waiter: when a halt and an export wait at once the other may be left.)  *)
WaiterIsServed ==
    waiting # {} /\ (halt = "idle" \/ gui = "idle")
        => bpc # "poll" \/ pipe # "none"

(* Once Butler::stop has returned the butler leaves the disk alone, if no  *)
(* summons was written since stop was called, even if the signal came from *)
(* a pass that had not seen the Pause.                                     *)
StoppedIsQuiet ==
    halt = "stopped" /\ quiet => ~(bpc \in {"refill", "flush"} /\ DiskAllowed)

(* The process thread is never locked out for good by pending work.        *)
WorkGetsDone ==
    Undisturbed /\ bits # {} ~> (bits = {} \/ rt = "gone" \/ ~Undisturbed)

(* The destructor's join returns.                                          *)
TerminateReturns == Undisturbed /\ rt = "gone" ~> bpc = "exit"

-----------------------------------------------------------------------------
(* engine_halted, line 1428: "make sure the butler is out of the picture". *)
HaltReturns == halt = "stopping" ~> halt = "stopped"
=============================================================================
