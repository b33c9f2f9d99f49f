---------------------------- MODULE ProcessGraph ----------------------------
(***************************************************************************)
(* The parallel route scheduler of libs/ardour/graph.cc and graphnode.cc.  *)
(*                                                                         *)
(* The engine thread asks for one cycle and blocks; the graph threads (one *)
(* main_thread, the helpers) run every route of the current chain, a route *)
(* only after all the routes that feed it; non-realtime threads, here      *)
(* Editors, build the other chain, which the next cycle switches to.       *)
(*                                                                         *)
(* One action per code section that is atomic for the other threads: the   *)
(* body of a mutex, a semaphore operation, an atomic decrement.  Two       *)
(* containers are sets here: the trigger queue (a vector used as a stack)  *)
(* and the trigger list, so any ready route may be taken first.            *)
(*                                                                         *)
(* finish iterates over a set an editor may clear (graphnode.cc:51).  The  *)
(* thread's iterator is its todo, the routes it has not come to, and iter, *)
(* the chain the set belongs to; an edit of that chain leaves the iterator *)
(* Freed.  What ++i and end() do then is undefined: here the loop ends as  *)
(* if the memory were still what it was, or the thread never returns from  *)
(* it (it is not fair); that it goes on into foreign routes is left out.   *)
(***************************************************************************)
EXTENDS RouteChain, Integers

CONSTANTS
    Routes,        \* every route a session may hold
    Main,          \* the graph thread that runs main_thread
    Helpers,       \* the graph threads that run helper_thread
    NoRoute,       \* the null pointer
    Editors,       \* non-realtime threads that edit the route list
    RechainInputs  \* what resort_routes_using may hand to rechain:
                   \* records [order, feeds, fedBy]

Threads == Helpers \cup {Main}
NoIterator == 2
Freed == 3
Modes == {"roll", "noroll", "silent"}

ASSUME RouteAssumption == NoRoute \notin Routes /\ IsFiniteSet(Routes)
ASSUME ThreadAssumption == Main \notin Helpers /\ IsFiniteSet(Helpers)
ASSUME InputAssumption ==
    \A in \in RechainInputs :
        /\ in.order \in Seq(Routes)
        /\ in.fedBy \in [Listed(in.order) -> SUBSET Listed(in.order)]
        \* resort_routes_using records every other route that feeds one
        \* directly; trace_terminal only adds to these.
        /\ \A n, m \in Listed(in.order) :
              n # m /\ <<m, n>> \in in.feeds => m \in in.fedBy[n]

VARIABLES
    chain,      \* _nodes_rt, _activation_set, _init_* of chains 0 and 1
    current, pending, setup,            \* _current_chain, ...
    queue,      \* _trigger_queue
    tokens,     \* _execution_tokens
    execSem, startSem, doneSem,         \* the three semaphores
    finRef,     \* _finished_refcount
    refcount,   \* GraphNode::_refcount of every route
    graphEmpty, quit,
    entered,    \* main_thread has left its "again:" loop
    pc, node, todo,                     \* locals of the graph threads
    iter,       \* the chain finish iterates in, NoIterator or Freed
    engine,     \* the engine thread: "idle" or "waiting" for the cycle
    edit,       \* the editors; "rechain" and "clear" hold _swap_mutex
    life,       \* the Graph object: "alive", "joining", "gone"
    ran         \* history: routes processed since the last prep

chainVars  == <<chain, pending>>
semVars    == <<execSem, startSem, doneSem>>
threadVars == <<pc, node, todo, iter>>
cycleVars  == <<finRef, refcount, graphEmpty, current, setup, ran>>
vars == <<chain, current, pending, setup, queue, tokens, execSem, startSem,
          doneSem, finRef, refcount, graphEmpty, quit, entered,
          pc, node, todo, iter, engine, edit, life, ran>>

Init ==
    /\ chain = [c \in 0..1 |-> EmptyChain]
    /\ current = 0 /\ pending = 0 /\ setup = 1
    /\ queue = {} /\ tokens = 0
    /\ execSem = 0 /\ startSem = 0 /\ doneSem = 0
    /\ finRef = 0 /\ refcount = [r \in Routes |-> 0]
    /\ graphEmpty = TRUE /\ quit = FALSE /\ entered = FALSE
    /\ pc = [t \in Threads |-> IF t = Main THEN "first" ELSE "run"]
    /\ node = [t \in Threads |-> NoRoute]
    /\ todo = [t \in Threads |-> {}]
    /\ iter = [t \in Threads |-> NoIterator]
    /\ engine = "idle" /\ edit = [e \in Editors |-> "idle"]
    /\ life = "alive" /\ ran = {}

Goto(t, l) == pc' = [pc EXCEPT ![t] = l]

-----------------------------------------------------------------------------
(* The engine thread: process_routes, routes_no_roll, silent_process_routes *)
(* The parameters they cache for the routes and the flags the routes set   *)
(* for them are left out; RunsInsideCall is what makes sharing them safe.  *)

CallCycle(m) ==
    /\ engine = "idle" /\ life = "alive"
    /\ IF m = "silent" /\ graphEmpty
       THEN UNCHANGED <<startSem, engine>>
       ELSE startSem' = startSem + 1 /\ engine' = "waiting"
    /\ UNCHANGED <<chainVars, cycleVars, threadVars, queue, tokens, execSem,
                   doneSem, quit, entered, edit, life>>

CycleReturns ==
    /\ engine = "waiting" /\ doneSem > 0
    /\ doneSem' = doneSem - 1
    /\ engine' = "idle"
    /\ UNCHANGED <<chainVars, cycleVars, threadVars, queue, tokens, execSem,
                   startSem, quit, entered, edit, life>>

-----------------------------------------------------------------------------
(* The graph threads: starting and preparing a cycle                       *)

(* main_thread blocks in "first" until its first non-empty cycle; whoever  *)
(* ends a cycle blocks in "wait", inside restart_cycle.                    *)
StartCycle(t) ==
    /\ pc[t] \in {"first", "wait"} /\ startSem > 0
    /\ startSem' = startSem - 1
    /\ Goto(t, IF pc[t] = "wait" /\ quit THEN "run" ELSE "prep")
    /\ UNCHANGED <<chainVars, cycleVars, queue, tokens, execSem, doneSem,
                   quit, entered, node, todo, iter, engine, edit, life>>

SwapMutexFree == \A e \in Editors : edit[e] \notin {"rechain", "clear"}
Swaps == SwapMutexFree /\ current # pending

NoSignal == UNCHANGED edit

(* _cleanup_cond.signal wakes one waiter, if there is one.                 *)
SignalCleanup ==
    IF \E e \in Editors : edit[e] = "waiting"
    THEN \E e \in Editors : /\ edit[e] = "waiting"
                            /\ edit' = [edit EXCEPT ![e] = "signalled"]
    ELSE UNCHANGED edit

Prep(t) ==
    /\ pc[t] = "prep"
    /\ IF Swaps
       THEN setup' = current /\ current' = pending /\ SignalCleanup
       ELSE UNCHANGED <<setup, current, edit>>
    /\ LET c == chain[current'] IN
        /\ graphEmpty' = (c.nodes = {})
        /\ refcount' = [r \in Routes |->
                IF r \in c.nodes THEN c.refs[r] ELSE refcount[r]]
        /\ finRef' = c.fin
        /\ todo' = [todo EXCEPT ![t] = c.trig]
    /\ ran' = {}
    /\ Goto(t, "trigger")
    /\ UNCHANGED <<chainVars, semVars, queue, tokens, quit, entered, node,
                   iter, engine, life>>

Trigger(t) ==
    /\ pc[t] = "trigger"
    /\ \E n \in todo[t] :
        /\ queue' = queue \cup {n}
        /\ todo' = [todo EXCEPT ![t] = @ \ {n}]
    /\ UNCHANGED <<chainVars, cycleVars, semVars, tokens, quit, entered, pc,
                   node, iter, engine, edit, life>>

(* After prep an empty graph is done at once and its thread blocks again;  *)
(* otherwise the thread starts (or goes back to) running routes.  Only     *)
(* main_thread, before it first runs routes, looks at _quit_threads here.  *)
InMainLoop(t) == t = Main /\ ~entered

EndPrep(t) ==
    /\ pc[t] = "trigger" /\ todo[t] = {}
    /\ IF graphEmpty /\ ~(InMainLoop(t) /\ quit)
       THEN /\ doneSem' = doneSem + 1
            /\ Goto(t, IF InMainLoop(t) THEN "first" ELSE "wait")
            /\ UNCHANGED entered
       ELSE /\ entered' = (entered \/ t = Main)
            /\ Goto(t, "run")
            /\ UNCHANGED doneSem
    /\ UNCHANGED <<chainVars, cycleVars, queue, tokens, execSem, startSem,
                   quit, node, todo, iter, engine, edit, life>>

-----------------------------------------------------------------------------
(* run_one: take a route or sleep                                          *)

Most(a, b) == IF a < b THEN b ELSE a
Least(a, b) == IF a < b THEN a ELSE b

(* First section of run_one under _trigger_mutex, with a route to run: the *)
(* thread wakes as many sleepers as there are routes left.                 *)
TakeAndWake(t) ==
    /\ pc[t] = "run"
    /\ \E n \in queue :
        /\ queue' = queue \ {n}
        /\ node' = [node EXCEPT ![t] = n]
    /\ LET wakeup == Least(tokens, Cardinality(queue')) IN
        /\ tokens' = tokens - wakeup
        /\ execSem' = execSem + wakeup
    /\ Goto(t, "process")
    /\ UNCHANGED <<chainVars, cycleVars, startSem, doneSem, quit, entered,
                   todo, iter, engine, edit, life>>

(* A thread woken for nothing counts itself as a sleeper again.            *)
SleepersOnce(t) == IF pc[t] = "run" THEN tokens + 1 ELSE tokens
Sleepers(t) == tokens + 1

MaySleepUnchecked(t) == pc[t] \in {"run", "woken"}
MaySleep(t) == pc[t] \in {"run", "woken"} /\ queue = {}

GoToSleep(t) ==
    /\ MaySleep(t)
    /\ tokens' = Sleepers(t)
    /\ Goto(t, "sleep")
    /\ UNCHANGED <<chainVars, cycleVars, semVars, queue, quit, entered, node,
                   todo, iter, engine, edit, life>>

WakeUp(t) ==
    /\ pc[t] = "sleep" /\ execSem > 0
    /\ execSem' = execSem - 1
    /\ Goto(t, IF quit THEN "exit" ELSE "woken")
    /\ UNCHANGED <<chainVars, cycleVars, startSem, doneSem, queue, tokens,
                   quit, entered, node, todo, iter, engine, edit, life>>

TakeWoken(t) ==
    /\ pc[t] = "woken"
    /\ \E n \in queue :
        /\ queue' = queue \ {n}
        /\ node' = [node EXCEPT ![t] = n]
    /\ Goto(t, "process")
    /\ UNCHANGED <<chainVars, cycleVars, semVars, tokens, quit, entered, todo,
                   iter, engine, edit, life>>

-----------------------------------------------------------------------------
(* GraphNode::process and GraphNode::finish                                *)

(* The route has been processed; finish is called with _current_chain and  *)
(* starts iterating over the activation set of that chain.                 *)
Process(t) ==
    /\ pc[t] = "process"
    /\ LET wakes == chain[current].act[node[t]] IN
        /\ todo' = [todo EXCEPT ![t] = wakes]
        /\ Goto(t, IF wakes = {} THEN "last" ELSE "finish")
        /\ iter' = [iter EXCEPT ![t] = IF wakes = {} THEN NoIterator ELSE current]
    /\ ran' = ran \cup {node[t]}
    /\ UNCHANGED <<chainVars, finRef, refcount, graphEmpty, current, setup,
                   semVars, queue, tokens, quit, entered, node, engine, edit,
                   life>>

(* g_atomic_int_dec_and_test is about to answer TRUE.                      *)
LastReferenceNotTested(m) == TRUE
LastReference(m) == refcount[m] = 1

DecRef(t) ==
    /\ pc[t] = "finish"
    /\ \E m \in todo[t] :
        /\ refcount' = [refcount EXCEPT ![m] = @ - 1]
        /\ queue' = IF LastReference(m) THEN queue \cup {m} ELSE queue
        /\ todo' = [todo EXCEPT ![t] = @ \ {m}]
    /\ UNCHANGED <<chainVars, finRef, graphEmpty, current, setup, ran,
                   semVars, tokens, quit, entered, pc, node, iter, engine,
                   edit, life>>

(* ++i after the last route, then the comparison with end(): the thread    *)
(* looks for more work.  Its cycle may be long over, and the set cleared.  *)
EndIteration(t) ==
    /\ pc[t] = "finish" /\ todo[t] = {}
    /\ iter' = [iter EXCEPT ![t] = NoIterator]
    /\ Goto(t, "run")
    /\ UNCHANGED <<chainVars, cycleVars, semVars, queue, tokens, quit,
                   entered, node, todo, engine, edit, life>>

(* Graph::dec_ref, by a route that feeds nobody.                           *)
CycleDoneAtFirstEnd == finRef > 0
CycleDoneTooLate == finRef = 0
CycleDone == finRef = 1

GraphDecRef(t) ==
    /\ pc[t] = "last"
    /\ finRef' = finRef - 1
    /\ Goto(t, IF CycleDone THEN "cycleEnd" ELSE "run")
    /\ UNCHANGED <<chainVars, refcount, graphEmpty, current, setup, ran,
                   semVars, queue, tokens, quit, entered, node, todo, iter,
                   engine, edit, life>>

(* restart_cycle: wake the engine, then block until the next cycle.        *)
CycleEnd(t) ==
    /\ pc[t] = "cycleEnd"
    /\ doneSem' = doneSem + 1
    /\ Goto(t, "wait")
    /\ UNCHANGED <<chainVars, cycleVars, execSem, startSem, queue, tokens,
                   quit, entered, node, todo, iter, engine, edit, life>>

-----------------------------------------------------------------------------
(* Non-realtime threads: rechain and clear_other_chain                     *)

Lock(e, l) ==
    /\ SwapMutexFree
    /\ edit' = [edit EXCEPT ![e] = l]
    /\ UNCHANGED <<chainVars, cycleVars, semVars, threadVars, queue, tokens,
                   quit, entered, engine, life>>

StartRechain(e) == edit[e] = "idle" /\ life = "alive" /\ Lock(e, "rechain")
StartClear(e)   == edit[e] = "idle" /\ life = "alive" /\ Lock(e, "clear")
Reacquire(e)    == edit[e] = "signalled" /\ Lock(e, "clear")

Target == setup

(* The activation sets of chain c are cleared, or destroyed with routes    *)
(* whose last reference _nodes_rt held.                                    *)
FreeIterators(c) ==
    iter' = [t \in Threads |-> IF iter[t] = c THEN Freed ELSE iter[t]]

Rechain(e) ==
    /\ edit[e] = "rechain"
    /\ \E in \in RechainInputs :
        chain' = [chain EXCEPT ![Target] =
                     Rechained(in.order, in.feeds, in.fedBy)]
    /\ FreeIterators(Target)
    /\ pending' = Target
    /\ edit' = [edit EXCEPT ![e] = "idle"]
    /\ UNCHANGED <<cycleVars, semVars, pc, node, todo, queue, tokens, quit,
                   entered, engine, life>>

ClearOtherChain(e) ==
    /\ edit[e] = "clear"
    /\ IF setup # pending
       THEN /\ chain' = [chain EXCEPT ![setup] = EmptyChain]
            /\ FreeIterators(setup)
            /\ edit' = [edit EXCEPT ![e] = "idle"]
       ELSE /\ edit' = [edit EXCEPT ![e] = "waiting"]
            /\ UNCHANGED <<chain, iter>>
    /\ UNCHANGED <<pending, cycleVars, semVars, pc, node, todo, queue, tokens,
                   quit, entered, engine, life>>

-----------------------------------------------------------------------------
(* session_going_away, called by the thread that destroys the session      *)
(* after AudioEngine::remove_session: no cycle runs and none will.         *)
WakeUpsOneShort == Cardinality(Helpers)
WakeUps == Cardinality(Threads)

GoingAway ==
    /\ life = "alive" /\ engine = "idle"
    /\ \A e \in Editors : edit[e] \in {"idle", "rechain"}
    /\ quit' = TRUE
    /\ execSem' = execSem + WakeUps
    /\ startSem' = startSem + 1
    /\ life' = "joining"
    /\ UNCHANGED <<chainVars, cycleVars, threadVars, doneSem, queue, tokens,
                   entered, engine, edit>>

Joined ==
    /\ life = "joining" /\ \A t \in Threads : pc[t] = "exit"
    /\ chain' = [c \in 0..1 |-> EmptyChain]
    /\ queue' = {}
    /\ life' = "gone"
    /\ UNCHANGED <<pending, cycleVars, semVars, threadVars, tokens, quit,
                   entered, engine, edit>>

-----------------------------------------------------------------------------
Engine == CycleReturns \/ \E m \in Modes : CallCycle(m)

Thread(t) ==
    \/ StartCycle(t) \/ Prep(t) \/ Trigger(t) \/ EndPrep(t)
    \/ TakeAndWake(t) \/ GoToSleep(t) \/ WakeUp(t) \/ TakeWoken(t)
    \/ Process(t) \/ DecRef(t) \/ EndIteration(t) \/ GraphDecRef(t)
    \/ CycleEnd(t)

Edit(e) ==
    StartRechain(e) \/ Rechain(e) \/ StartClear(e) \/ ClearOtherChain(e)
    \/ Reacquire(e)

Cycling ==
    \/ Engine
    \/ \E t \in Threads : Thread(t)
    \/ \E e \in Editors : Edit(e)

Next == Cycling \/ GoingAway \/ Joined

Spec == Init /\ [][Next]_vars

(* The life of the graph up to session_going_away.                         *)
CyclingSpec == Init /\ [][Cycling]_vars

(* Every thread that can take a step eventually does, but one that reads   *)
(* through a freed iterator need not come back; an editor never keeps      *)
(* the mutex; the engine keeps asking for cycles that are not silent *)
(* ones (JACK calls process for as long as the session is attached).       *)
Fairness ==
    /\ \A t \in Threads : WF_vars(iter[t] # Freed /\ Thread(t))
    /\ \A e \in Editors : /\ WF_vars(Rechain(e)) /\ WF_vars(ClearOtherChain(e))
                          /\ SF_vars(Reacquire(e))
    /\ WF_vars(CycleReturns)
    /\ SF_vars(CallCycle("roll") \/ CallCycle("noroll"))
    /\ WF_vars(Joined)

FairSpec == Spec /\ Fairness

-----------------------------------------------------------------------------
(* Types.                                                                  *)
PCs == {"first", "wait", "prep", "trigger", "run", "sleep", "woken",
        "process", "finish", "last", "cycleEnd", "exit"}

IsChain(c) ==
    /\ c.nodes \subseteq Routes
    /\ c.act \in [c.nodes -> SUBSET c.nodes]
    /\ c.refs \in [c.nodes -> Nat]
    /\ c.trig \subseteq c.nodes
    /\ c.fin \in Nat

TypeOK ==
    /\ DOMAIN chain = 0..1 /\ IsChain(chain[0]) /\ IsChain(chain[1])
    /\ current \in 0..1 /\ pending \in 0..1 /\ setup \in 0..1
    /\ queue \subseteq Routes
    /\ tokens \in Nat /\ execSem \in Nat /\ startSem \in Nat /\ doneSem \in Nat
    /\ finRef \in Int /\ refcount \in [Routes -> Int]
    /\ graphEmpty \in BOOLEAN /\ quit \in BOOLEAN /\ entered \in BOOLEAN
    /\ pc \in [Threads -> PCs]
    /\ node \in [Threads -> Routes \cup {NoRoute}]
    /\ todo \in [Threads -> SUBSET Routes]
    /\ iter \in [Threads -> {0, 1, NoIterator, Freed}]
    /\ engine \in {"idle", "waiting"}
    /\ edit \in [Editors ->
                    {"idle", "rechain", "clear", "waiting", "signalled"}]
    /\ life \in {"alive", "joining", "gone"}
    /\ ran \subseteq Routes

Active == chain[current].act
Processing(t, n) == pc[t] = "process" /\ node[t] = n

(* A route is processed only after every route that feeds it in the chain  *)
(* of this cycle has been processed: its inputs are the output of the same *)
(* cycle (GraphNode::dec_ref triggers it at reference count zero).         *)
FeedersFirst ==
    \A t \in Threads : pc[t] = "process" => Feeders(Active, node[t]) \subseteq ran

(* No route is processed twice in a cycle, by one thread or by two.        *)
RunsOnce ==
    /\ queue \cap ran = {}
    /\ \A t \in Threads : \A n \in Routes :
        Processing(t, n) =>
            /\ n \notin ran \cup queue
            /\ \A u \in Threads \ {t} : ~Processing(u, n)

(* When process_routes returns, every route of the chain has run and none  *)
(* is being run or waiting to run.                                         *)
DoneMeansAll ==
    (engine = "waiting" /\ doneSem > 0) =>
        /\ ran = chain[current].nodes
        /\ queue = {}
        /\ \A t \in Threads : pc[t] # "process"

(* Routes are processed only while the engine thread is blocked in the     *)
(* call whose parameters they read from the _process_ members.             *)
RunsInsideCall ==
    (life = "alive" /\ \E t \in Threads : pc[t] = "process")
        => engine = "waiting" /\ doneSem = 0

(* Starts and ends of cycles pair up: nothing is left over for a later     *)
(* call, so a call never returns on behalf of an earlier one.              *)
OneCycleAtATime ==
    life = "alive" =>
        /\ engine = "idle" => startSem = 0 /\ doneSem = 0
        /\ startSem + doneSem <= 1

(* _execution_tokens counts the sleepers nobody has posted for yet.        *)
TokensCountSleepers ==
    ~quit => tokens + execSem = Cardinality({t \in Threads : pc[t] = "sleep"})

(* A triggered route always has a thread that will look at the queue.      *)
NoLostWakeup ==
    queue # {} =>
        \E t \in Threads : pc[t] \in {"trigger", "run", "woken", "process",
                                      "finish", "last"}

(* The chain a cycle runs on is never the one an editor rewrites, and it   *)
(* does not change while the Graph is in use.  As long as a thread has a   *)
(* route left to notify in finish, no other thread ends the cycle and the  *)
(* next one prepares: the activation set it iterates over stays that of    *)
(* the running chain, so no edit can free it (graphnode.cc:51; that "we    *)
(* are the only thread alive", graph.cc:185, is more than is true).  Not   *)
(* claimed, because it is false: that the set outlives the last step of    *)
(* the iteration, from the last route to end().                            *)
Notifying(t) == pc[t] = "finish" /\ todo[t] # {}

RunningChainStable ==
    [][ /\ setup' # current'
        /\ chain'[current] = chain[current] \/ life' = "gone"
        /\ \A t \in Threads : Notifying(t) => current' = current /\ iter'[t] = iter[t]
      ]_vars

(* The graph implements RouteCycle: to the engine thread a call is one     *)
(* run of every route of one chain, in feeding order.                      *)
CallPhase ==
    IF engine = "idle" THEN "idle"
    ELSE IF doneSem > 0 THEN "over"
    ELSE IF startSem > 0 \/ \E t \in Threads : pc[t] = "prep" THEN "asked"
    ELSE "running"

Cycle == INSTANCE RouteCycle WITH
            Chains <- {EmptyChain} \cup {Rechained(in.order, in.feeds, in.fedBy) :
                                            in \in RechainInputs},
            call <- CallPhase, net <- chain[current], done <- ran

ImplementsCycle == Cycle!Spec

-----------------------------------------------------------------------------
(* A thread is at the end of an iteration over a set that was freed: what  *)
(* it does next is undefined, and the liveness below is not claimed.       *)
Undefined == \E t \in Threads : iter[t] = Freed

(* Every call to process_routes returns.                                   *)
CallReturns == engine = "waiting" ~> (engine = "idle" \/ Undefined)

(* clear_other_chain returns: the cycle it waits for comes and wakes it.   *)
ClearReturns ==
    \A e \in Editors :
        edit[e] = "waiting" ~> (edit[e] = "idle" \/ life # "alive" \/ Undefined)

(* session_going_away joins every graph thread, if one of them was blocked *)
(* at the end of a cycle when it was called (main_thread does not see      *)
(* _quit_threads if the start it is given is for its first routes).        *)
ShutdownAfterCycleReturns ==
    (life = "joining" /\ startSem = 1 /\ \E t \in Threads : pc[t] = "wait")
        ~> (life = "gone" \/ Undefined)
=============================================================================
