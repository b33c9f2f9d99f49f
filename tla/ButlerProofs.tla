---------------------------- MODULE ButlerProofs ----------------------------
(***************************************************************************)
(* Proofs about Butler, for every set of requests, every bound on their    *)
(* number and every set of other callers.                                  *)
(***************************************************************************)
EXTENDS Butler, TLAPS

(* What holds between the request counter, the work bits and the butler's  *)
(* place in its loop until a halt or an export interferes.                 *)
Protocol ==
    /\ rt = "schedule" => jobs < requests
    /\ 0 <= jobs /\ jobs <= requests
    /\ bpc \in {"entry", "take", "execute"} => jobs > 0
    /\ bpc \in {"take", "execute"} => onEntry > 0 /\ onEntry <= jobs
    /\ bpc = "execute" => taken \subseteq bits
    /\ bpc # "execute" => taken = {}
    /\ rt = "post" => jobs = 0
    /\ undone \subseteq bits
    /\ undone # {} /\ rt # "schedule"
         => jobs > (IF bpc = "execute" THEN 1 ELSE 0)

(* No step makes a disturbed state undisturbed again.                      *)
LEMMA UndisturbedBefore ==
    ASSUME [Next]_vars, Undisturbed'
    PROVE  Undisturbed
BY DEF Next, vars, Undisturbed, ProcessThread, ButlerThread, Halting, Exporting,
       otherVars, butlerVars, ghosts, Cycle, PostTransport, Schedule, Summon,
       CatchUp, CaughtUp, Request, Process, Poll, Work, Enter, Take,
       Interrupted, Execute, Refilled, Flushed, EndPass, Refill, Flush,
       HaltZero, HaltClear, HaltStop, HaltStopped, HaltStep, PreExport,
       StartExport, ExportWork, ExportZero, ExportPost, ExportStep, Terminate

-----------------------------------------------------------------------------
(* Types.                                                                  *)

(* The conjuncts of TypeOK that hold whoever interferes.                   *)
Types ==
    /\ jobs \in Int
    /\ bits \subseteq Bits
    /\ pipe \in {"none", "wake", "run", "pause", "quit"}
    /\ waiting \subseteq {"process", "halt", "gui"}
    /\ bpc \in {"poll", "work", "entry", "take", "execute", "refill",
                "refilled", "flush", "flushed", "end", "exit"}
    /\ onEntry \in Int /\ taken \subseteq Bits
    /\ rt \in {"idle", "post", "events", "schedule", "summon", "catchup", "fw",
               "gone"}
    /\ halt \in {"idle", "clear", "stop", "stopping", "stopped"}
    /\ gui \in {"idle", "wait", "work", "zero", "post", "rolling"}
    /\ requests \in 0..MaxRequests /\ undone \subseteq Bits

LEMMA TypesInit == Init => Types
BY BoundAssumption DEF Init, Types

LEMMA TypesProcessThread ==
    ASSUME Types, ProcessThread
    PROVE  Types'
<1> USE BoundAssumption, RequestAssumption
        DEF Types, butlerVars, otherVars, ghosts, Write, WriteRun, WriteNothing
<1>1. ASSUME NEW w \in Requests, Request(w) PROVE Types'
  BY <1>1 DEF Request
<1>2. ASSUME NEW b \in BOOLEAN, Process(b) PROVE Types'
  BY <1>2 DEF Process
<1>3. CASE Cycle
  BY <1>3 DEF Cycle
<1>4. CASE PostTransport
  BY <1>4 DEF PostTransport
<1>5. CASE Schedule
  BY <1>5 DEF Schedule
<1>6. CASE Summon
  BY <1>6 DEF Summon
<1>7. CASE CatchUp
  BY <1>7 DEF CatchUp, WriteAndWait
<1>8. CASE CaughtUp
  BY <1>8 DEF CaughtUp
<1> QED
  BY <1>1, <1>2, <1>3, <1>4, <1>5, <1>6, <1>7, <1>8 DEF ProcessThread

LEMMA TypesButlerThread ==
    ASSUME Types, ButlerThread
    PROVE  Types'
<1> USE BoundAssumption DEF Types, butlerVars, otherVars, ghosts, Dec
<1>1. CASE Poll
  BY <1>1 DEF Poll
<1>2. CASE Work
  BY <1>2 DEF Work
<1>3. CASE Enter
  BY <1>3 DEF Enter
<1>4. CASE Take
  BY <1>4 DEF Take
<1>5. CASE Interrupted
  BY <1>5 DEF Interrupted
<1>6. CASE Execute
  BY <1>6 DEF Execute, AfterWork
<1>7. CASE Refilled
  BY <1>7 DEF Refilled
<1>8. CASE Flushed
  BY <1>8 DEF Flushed
<1>9. ASSUME NEW more \in BOOLEAN, Refill(more) PROVE Types'
  BY <1>9 DEF Refill
<1>10. ASSUME NEW more \in BOOLEAN, NEW fails \in BOOLEAN, Flush(more, fails)
      PROVE  Types'
  BY <1>10 DEF Flush
<1>11. CASE EndPass
  <2>1. CASE Restart
    <3>1. bpc' = "work" /\ waiting' = waiting
      BY <1>11, <2>1 DEF EndPass
    <3> QED
      BY <1>11, <3>1 DEF EndPass
  <2>2. CASE ~Restart
    <3>1. waiting' \subseteq waiting
      BY <1>11, <2>2 DEF EndPass, Signal
    <3>2. bpc' = "poll"
      BY <1>11, <2>2 DEF EndPass
    <3> QED
      BY <1>11, <3>1, <3>2 DEF EndPass
  <2> QED
    BY <2>1, <2>2
<1> QED
  BY <1>1, <1>2, <1>3, <1>4, <1>5, <1>6, <1>7, <1>8, <1>9, <1>10, <1>11
     DEF ButlerThread

LEMMA TypesOthers ==
    ASSUME Types, Halting \/ Exporting \/ Terminate \/ UNCHANGED vars
    PROVE  Types'
<1> USE BoundAssumption
        DEF Types, butlerVars, otherVars, ghosts, Dec, Write, WriteAndWait,
            HaltStep, ExportStep
<1>1. CASE HaltZero
  BY <1>1 DEF HaltZero
<1>2. CASE HaltClear
  BY <1>2 DEF HaltClear
<1>3. CASE HaltStop
  BY <1>3 DEF HaltStop
<1>4. CASE HaltStopped
  BY <1>4 DEF HaltStopped, Bits
<1>5. CASE PreExport
  BY <1>5 DEF PreExport
<1>6. CASE StartExport
  BY <1>6 DEF StartExport
<1>7. CASE ExportWork
  BY <1>7 DEF ExportWork
<1>8. CASE ExportZero
  BY <1>8 DEF ExportZero
<1>9. CASE ExportPost
  BY <1>9 DEF ExportPost
<1>10. CASE Terminate
  BY <1>10 DEF Terminate
<1>11. CASE UNCHANGED vars
  BY <1>11 DEF vars
<1> QED
  BY <1>1, <1>2, <1>3, <1>4, <1>5, <1>6, <1>7, <1>8, <1>9, <1>10, <1>11
     DEF Halting, Exporting

LEMMA TypesNext == Types /\ [Next]_vars => Types'
BY TypesProcessThread, TypesButlerThread, TypesOthers DEF Next

(* The flags of the butler and the history variable quiet.                 *)
Flags ==
    /\ shouldRun \in BOOLEAN /\ err \in BOOLEAN
    /\ outstanding \in BOOLEAN /\ quiet \in BOOLEAN

LEMMA FlagsNext == Flags /\ [Next]_vars => Flags'
<1> SUFFICES ASSUME Flags, [Next]_vars PROVE Flags'
  OBVIOUS
<1> USE DEF Flags, butlerVars, ghosts
<1>1. CASE ProcessThread
  <2>1. shouldRun' = shouldRun /\ err' = err /\ outstanding' = outstanding
    BY <1>1 DEF ProcessThread, Cycle, PostTransport, Schedule, Summon, CatchUp,
                CaughtUp, Request, Process
  <2>2. quiet' = quiet \/ quiet' = FALSE
    BY <1>1 DEF ProcessThread, Cycle, PostTransport, Schedule, Summon, CatchUp,
                CaughtUp, Request, Process, WriteRun, WriteNothing
  <2> QED
    BY <2>1, <2>2
<1>2. CASE ButlerThread
  <2>1. CASE Poll
    BY <2>1 DEF Poll
  <2>2. CASE Work \/ Enter \/ Take \/ Interrupted \/ Execute \/ Refilled
             \/ Flushed \/ EndPass
    BY <2>2 DEF Work, Enter, Take, Interrupted, Execute, Refilled, Flushed,
                EndPass
  <2>3. ASSUME NEW more \in BOOLEAN, Refill(more) PROVE Flags'
    BY <2>3 DEF Refill
  <2>4. ASSUME NEW more \in BOOLEAN, NEW fails \in BOOLEAN, Flush(more, fails)
        PROVE  Flags'
    BY <2>4 DEF Flush
  <2> QED
    BY <1>2, <2>1, <2>2, <2>3, <2>4 DEF ButlerThread
<1>3. CASE Halting
  BY <1>3 DEF Halting, HaltZero, HaltClear, HaltStop, HaltStopped
<1>4. CASE Exporting
  BY <1>4 DEF Exporting, PreExport, StartExport, ExportWork, ExportZero,
              ExportPost
<1>5. CASE Terminate \/ UNCHANGED vars
  BY <1>5 DEF Terminate, vars
<1> QED
  BY <1>1, <1>2, <1>3, <1>4, <1>5 DEF Next

-----------------------------------------------------------------------------
(* The protocol between the process thread and the butler.                 *)

LEMMA ProtocolInit == Init => Protocol
BY BoundAssumption DEF Init, Protocol

LEMMA ProtocolProcessThread ==
    ASSUME Types, Undisturbed, Protocol, ProcessThread
    PROVE  Protocol'
<1> USE BoundAssumption
        DEF Types, Protocol, butlerVars, otherVars, ghosts
<1>1. CASE Cycle
  BY <1>1 DEF Cycle, CanPost
<1>2. CASE PostTransport
  BY <1>2 DEF PostTransport
<1>3. CASE Schedule
  BY <1>3 DEF Schedule
<1>4. CASE Summon
  BY <1>4 DEF Summon
<1>5. ASSUME NEW w \in Requests, Request(w) PROVE Protocol'
  BY <1>5 DEF Request
<1>6. ASSUME NEW b \in BOOLEAN, Process(b) PROVE Protocol'
  BY <1>6 DEF Process
<1>7. CASE CatchUp \/ CaughtUp
  BY <1>7 DEF CatchUp, CaughtUp
<1> QED
  BY <1>1, <1>2, <1>3, <1>4, <1>5, <1>6, <1>7 DEF ProcessThread

LEMMA ProtocolButlerThread ==
    ASSUME Types, Undisturbed, Protocol, ButlerThread
    PROVE  Protocol'
<1> USE BoundAssumption
        DEF Types, Protocol, butlerVars, otherVars, ghosts, Dec
<1>1. CASE Poll
  BY <1>1 DEF Poll
<1>2. CASE Work
  BY <1>2 DEF Work
<1>3. CASE Enter
  BY <1>3 DEF Enter
<1>4. CASE Take
  BY <1>4 DEF Take
<1>5. CASE Interrupted
  BY <1>5 DEF Interrupted
<1>6. CASE Execute
  BY <1>6 DEF Execute, AfterWork
<1>7. CASE Refilled
  BY <1>7 DEF Refilled
<1>8. CASE Flushed
  BY <1>8 DEF Flushed
<1>9. CASE EndPass
  BY <1>9 DEF EndPass
<1>10. ASSUME NEW more \in BOOLEAN, Refill(more) PROVE Protocol'
  BY <1>10 DEF Refill
<1>11. ASSUME NEW more \in BOOLEAN, NEW fails \in BOOLEAN, Flush(more, fails)
       PROVE  Protocol'
  BY <1>11 DEF Flush
<1> QED
  BY <1>1, <1>2, <1>3, <1>4, <1>5, <1>6, <1>7, <1>8, <1>9, <1>10, <1>11
     DEF ButlerThread

LEMMA ProtocolOthers ==
    ASSUME Types, Undisturbed, Undisturbed', Protocol,
           Halting \/ Exporting \/ Terminate \/ UNCHANGED vars
    PROVE  Protocol'
<1>1. CASE Halting
  BY <1>1 DEF Halting, HaltZero, HaltClear, HaltStop, HaltStopped, HaltStep,
              Undisturbed
<1>2. CASE Exporting
  <2>1. PreExport
    BY <1>2 DEF Exporting, PreExport, StartExport, ExportWork, ExportZero,
                ExportPost, ExportStep, Undisturbed
  <2> QED
    BY <2>1 DEF PreExport, ExportStep, butlerVars, ghosts, Protocol
<1>3. CASE Terminate
  BY <1>3 DEF Terminate, butlerVars, otherVars, ghosts, Protocol
<1>4. CASE UNCHANGED vars
  BY <1>4 DEF vars, Protocol
<1> QED
  BY <1>1, <1>2, <1>3, <1>4

LEMMA ProtocolNext ==
    ASSUME Types, Undisturbed => Protocol, [Next]_vars
    PROVE  Undisturbed' => Protocol'
<1>1. SUFFICES ASSUME Undisturbed' PROVE Protocol'
  OBVIOUS
<1>2. Undisturbed /\ Protocol
  BY <1>1, UndisturbedBefore
<1> QED
  BY <1>1, <1>2, ProtocolProcessThread, ProtocolButlerThread, ProtocolOthers
     DEF Next

(* The inductive invariant.  TypeOK bounds the counter by the number of    *)
(* requests made, which is part of the protocol.                           *)
IInv == Types /\ Flags /\ (Undisturbed => Protocol)

LEMMA IInvInvariant == Spec => []IInv
<1>1. Init => IInv
  BY TypesInit, ProtocolInit DEF Init, IInv, Flags
<1>2. IInv /\ [Next]_vars => IInv'
  BY TypesNext, FlagsNext, ProtocolNext DEF IInv
<1> QED
  BY <1>1, <1>2, PTL DEF Spec

LEMMA TypesAndFlags == TypeOK <=> /\ Types /\ Flags
                                  /\ Undisturbed => jobs \in 0..MaxRequests
BY DEF TypeOK, Types, Flags

(* Every variable keeps to its type; the work counter never falls below    *)
(* zero nor exceeds the requests while nobody interferes.                  *)
THEOREM TypeCorrect == Spec => []TypeOK
<1>1. IInv => (Undisturbed => jobs \in 0..MaxRequests)
  BY BoundAssumption DEF IInv, Types, Protocol
<1>2. IInv => TypeOK
  BY <1>1, TypesAndFlags DEF IInv
<1> QED
  BY <1>2, IInvInvariant, PTL

(* post_transport, which clears every bit, runs only when the butler has   *)
(* carried out all that was asked for and is carrying out nothing.         *)
THEOREM PostRunsAfterWork == Spec => []PostAfterWork
<1>1. IInv => PostAfterWork
  BY DEF IInv, Types, Protocol, PostAfterWork
<1> QED
  BY <1>1, IInvInvariant, PTL

(* Work that was asked for and not carried out is always counted.          *)
THEOREM WorkCounted == Spec => []WorkIsCounted
<1>1. IInv => WorkIsCounted
  BY DEF IInv, Protocol, WorkIsCounted
<1> QED
  BY <1>1, IInvInvariant, PTL

(* The counter is positive for as long as the butler does transport work.  *)
THEOREM CountCovers == Spec => []CountCoversWork
<1>1. IInv => CountCoversWork
  BY DEF IInv, Types, Protocol, CountCoversWork
<1> QED
  BY <1>1, IInvInvariant, PTL

-----------------------------------------------------------------------------
(* Waiting for the butler.                                                 *)

(* Who waits and where; a waiter has written to the pipe, or the butler is *)
(* up and will signal it.  Two of the three threads never wait together    *)
(* unless a halt and an export overlap.                                    *)
Served ==
    /\ "halt" \in waiting => halt = "stopping"
    /\ "gui" \in waiting => gui = "wait"
    /\ "process" \in waiting => gui = "rolling"
    /\ WaiterIsServed

LEMMA ServedProcessThread ==
    ASSUME Types, Served, ProcessThread
    PROVE  Served'
<1> USE DEF Types, Served, WaiterIsServed, butlerVars, otherVars, ghosts,
            Write, WriteRun, WriteNothing
<1>1. CASE Cycle \/ PostTransport \/ Schedule \/ CaughtUp
  BY <1>1 DEF Cycle, PostTransport, Schedule, CaughtUp
<1>2. CASE Summon
  BY <1>2 DEF Summon
<1>3. ASSUME NEW w \in Requests, Request(w) PROVE Served'
  BY <1>3 DEF Request
<1>4. ASSUME NEW b \in BOOLEAN, Process(b) PROVE Served'
  BY <1>4 DEF Process
<1>5. CASE CatchUp
  BY <1>5 DEF CatchUp, WriteAndWait
<1> QED
  BY <1>1, <1>2, <1>3, <1>4, <1>5 DEF ProcessThread

LEMMA ServedButlerThread ==
    ASSUME Types, Served, ButlerThread
    PROVE  Served'
<1> USE DEF Types, Served, WaiterIsServed, butlerVars, otherVars, ghosts
<1>1. CASE Poll
  BY <1>1 DEF Poll
<1>2. CASE Work \/ Enter \/ Take \/ Interrupted \/ Execute \/ Refilled
           \/ Flushed
  BY <1>2 DEF Work, Enter, Take, Interrupted, Execute, Refilled, Flushed
<1>3. ASSUME NEW more \in BOOLEAN, Refill(more) PROVE Served'
  BY <1>3 DEF Refill
<1>4. ASSUME NEW more \in BOOLEAN, NEW fails \in BOOLEAN, Flush(more, fails)
      PROVE  Served'
  BY <1>4 DEF Flush
<1>5. CASE EndPass
  <2>1. CASE Restart
    BY <1>5, <2>1 DEF EndPass
  <2>2. CASE ~Restart /\ waiting = {}
    BY <1>5, <2>2 DEF EndPass, Signal
  <2>3. CASE ~Restart /\ waiting # {}
    <3>1. PICK t \in waiting : waiting' = waiting \ {t}
      BY <1>5, <2>3 DEF EndPass, Signal
    <3>2. halt' = halt /\ gui' = gui
      BY <1>5 DEF EndPass
    <3>3. halt = "idle" \/ gui = "idle" => waiting' = {}
      BY <3>1
    <3> QED
      BY <3>1, <3>2, <3>3
  <2> QED
    BY <2>1, <2>2, <2>3
<1> QED
  BY <1>1, <1>2, <1>3, <1>4, <1>5 DEF ButlerThread

LEMMA ServedOthers ==
    ASSUME Types, Served, Halting \/ Exporting \/ Terminate \/ UNCHANGED vars
    PROVE  Served'
<1> USE DEF Types, Served, WaiterIsServed, butlerVars, otherVars, ghosts,
            Write, WriteAndWait, HaltStep, ExportStep
<1>1. CASE HaltZero \/ HaltClear
  BY <1>1 DEF HaltZero, HaltClear
<1>2. CASE HaltStop
  BY <1>2 DEF HaltStop
<1>3. CASE HaltStopped
  BY <1>3 DEF HaltStopped
<1>4. CASE PreExport
  BY <1>4 DEF PreExport
<1>5. CASE StartExport
  BY <1>5 DEF StartExport
<1>6. CASE ExportWork \/ ExportZero \/ ExportPost
  BY <1>6 DEF ExportWork, ExportZero, ExportPost
<1>7. CASE Terminate
  BY <1>7 DEF Terminate
<1>8. CASE UNCHANGED vars
  BY <1>8 DEF vars
<1> QED
  BY <1>1, <1>2, <1>3, <1>4, <1>5, <1>6, <1>7, <1>8 DEF Halting, Exporting

(* Whoever waits in stop or wait_until_finished will be signalled, as long *)
(* as a halt and an export do not overlap.                                 *)
THEOREM WaitersServed == Spec => []WaiterIsServed
<1>1. Init => Served
  BY DEF Init, Served, WaiterIsServed
<1>2. IInv /\ Served /\ [Next]_vars => Served'
  BY ServedProcessThread, ServedButlerThread, ServedOthers DEF Next, IInv
<1>3. Spec => []Served
  BY <1>1, <1>2, IInvInvariant, PTL DEF Spec
<1>4. Served => WaiterIsServed
  BY DEF Served
<1> QED
  BY <1>3, <1>4, PTL

-----------------------------------------------------------------------------
(* Butler::stop.                                                           *)

(* After the Pause of a Butler::stop that no summons has followed, the     *)
(* butler has seen it or will see it before its next disk pass.  A halt    *)
(* that was signalled by a pass that began before it has left the butler   *)
(* at its poll.                                                            *)
Quieted ==
    quiet /\ halt \in {"stopping", "stopped"} =>
        /\ pipe # "run"
        /\ shouldRun => pipe \in {"pause", "quit"} \/ bpc = "exit"
        /\ shouldRun /\ "halt" \notin waiting => bpc \in {"poll", "exit"}

HaltWaits == /\ halt = "stopped" => "halt" \notin waiting
             /\ halt \notin {"stopping", "stopped"} => "halt" \notin waiting
             /\ pipe = "quit" => rt = "gone"

Stopping == Quieted /\ HaltWaits

LEMMA StoppingProcessThread ==
    ASSUME Types, Flags, Stopping, ProcessThread
    PROVE  Stopping'
<1> USE DEF Types, Flags, Stopping, Quieted, HaltWaits, butlerVars, otherVars,
            ghosts, Write
<1>1. CASE Cycle \/ PostTransport \/ Schedule \/ CaughtUp
  BY <1>1 DEF Cycle, PostTransport, Schedule, CaughtUp
<1>2. CASE Summon
  BY <1>2 DEF Summon, WriteRun
<1>3. ASSUME NEW w \in Requests, Request(w) PROVE Stopping'
  BY <1>3 DEF Request
<1>4. ASSUME NEW b \in BOOLEAN, Process(b) PROVE Stopping'
  BY <1>4 DEF Process, WriteRun, WriteNothing
<1>5. CASE CatchUp
  BY <1>5 DEF CatchUp, WriteAndWait
<1> QED
  BY <1>1, <1>2, <1>3, <1>4, <1>5 DEF ProcessThread

LEMMA StoppingButlerThread ==
    ASSUME Types, Flags, Stopping, ButlerThread
    PROVE  Stopping'
<1> USE DEF Types, Flags, Stopping, Quieted, HaltWaits, butlerVars, otherVars,
            ghosts
<1>1. CASE Poll
  BY <1>1 DEF Poll
<1>2. CASE Work \/ Enter \/ Take \/ Interrupted \/ Execute \/ Refilled
           \/ Flushed
  BY <1>2 DEF Work, Enter, Take, Interrupted, Execute, Refilled, Flushed
<1>3. ASSUME NEW more \in BOOLEAN, Refill(more) PROVE Stopping'
  BY <1>3 DEF Refill
<1>4. ASSUME NEW more \in BOOLEAN, NEW fails \in BOOLEAN, Flush(more, fails)
      PROVE  Stopping'
  BY <1>4 DEF Flush
<1>5. CASE EndPass
  BY <1>5 DEF EndPass, Signal
<1> QED
  BY <1>1, <1>2, <1>3, <1>4, <1>5 DEF ButlerThread

LEMMA StoppingOthers ==
    ASSUME Types, Flags, Stopping,
           Halting \/ Exporting \/ Terminate \/ UNCHANGED vars
    PROVE  Stopping'
<1> USE DEF Types, Flags, Stopping, Quieted, HaltWaits, butlerVars, otherVars,
            ghosts, Write, WriteAndWait, HaltStep, ExportStep
<1>1. CASE HaltZero \/ HaltClear
  BY <1>1 DEF HaltZero, HaltClear
<1>2. CASE HaltStop
  BY <1>2 DEF HaltStop
<1>3. CASE HaltStopped
  BY <1>3 DEF HaltStopped
<1>4. CASE PreExport
  BY <1>4 DEF PreExport
<1>5. CASE StartExport \/ ExportWork \/ ExportZero \/ ExportPost
  BY <1>5 DEF StartExport, ExportWork, ExportZero, ExportPost
<1>6. CASE Terminate
  BY <1>6 DEF Terminate
<1>7. CASE UNCHANGED vars
  BY <1>7 DEF vars
<1> QED
  BY <1>1, <1>2, <1>3, <1>4, <1>5, <1>6, <1>7 DEF Halting, Exporting

(* When Butler::stop has returned the butler leaves the disk alone until   *)
(* it is summoned again.                                                   *)
THEOREM StopQuiets == Spec => []StoppedIsQuiet
<1>1. Init => Stopping
  BY DEF Init, Stopping, Quieted, HaltWaits
<1>2. IInv /\ Stopping /\ [Next]_vars => Stopping'
  BY StoppingProcessThread, StoppingButlerThread, StoppingOthers DEF Next, IInv
<1>3. Spec => []Stopping
  BY <1>1, <1>2, IInvInvariant, PTL DEF Spec
<1>4. Stopping => StoppedIsQuiet
  BY DEF Stopping, Quieted, HaltWaits, StoppedIsQuiet, DiskAllowed
<1> QED
  BY <1>3, <1>4, PTL

=============================================================================
