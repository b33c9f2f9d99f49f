------------------------- MODULE ProcessGraphProofs -------------------------
(***************************************************************************)
(* Proofs about ProcessGraph, for any number of routes, graph threads and  *)
(* editors and for any route lists they hand to rechain.                   *)
(***************************************************************************)
EXTENDS ProcessGraph, FiniteSetTheorems, TLAPS

(* What rechain builds from a list of routes is a chain over these routes. *)
LEMMA RechainedIsChain ==
    ASSUME NEW order \in Seq(Routes), NEW feeds,
           NEW fedBy \in [Listed(order) -> SUBSET Listed(order)]
    PROVE  IsChain(Rechained(order, feeds, fedBy))
<1> DEFINE act == Activates(order, feeds)
           c == Rechained(order, feeds, fedBy)
<1>1. Listed(order) \subseteq Routes
  BY DEF Listed
<1>2. IsFiniteSet(Listed(order))
  BY <1>1, RouteAssumption, FS_Subset
<1>3. act \in [Listed(order) -> SUBSET Listed(order)]
  BY DEF Activates
<1>4. \A S \in SUBSET Listed(order) : Cardinality(S) \in Nat
  BY <1>2, FS_Subset, FS_CardinalityType
<1>5. \A n \in Listed(order) : Feeders(act, n) \in SUBSET Listed(order)
  BY <1>3 DEF Feeders
<1>6. c.nodes = Listed(order) /\ c.act = act
  BY DEF Rechained
<1>7. c.refs \in [Listed(order) -> Nat]
  BY <1>4, <1>5 DEF Rechained
<1>8. c.trig \subseteq Listed(order)
  BY DEF Rechained
<1>9. c.fin \in Nat
  BY <1>4 DEF Rechained
<1> QED
  BY <1>1, <1>3, <1>6, <1>7, <1>8, <1>9 DEF IsChain

LEMMA EmptyIsChain == IsChain(EmptyChain)
<1>1. << >> \in Seq(Routes)
  OBVIOUS
<1>2. Listed(<< >>) = {}
  BY DEF Listed
<1>3. << >> \in [Listed(<< >>) -> SUBSET Listed(<< >>)]
  BY <1>2
<1> QED
  BY <1>1, <1>3, RechainedIsChain DEF EmptyChain

LEMMA InputsAreChains ==
    \A in \in RechainInputs : IsChain(Rechained(in.order, in.feeds, in.fedBy))
BY InputAssumption, RechainedIsChain

-----------------------------------------------------------------------------
(* Types.  The two chains, the flags and the rest are proved apart.        *)

Chains == DOMAIN chain = 0..1 /\ IsChain(chain[0]) /\ IsChain(chain[1])

Flags == graphEmpty \in BOOLEAN /\ quit \in BOOLEAN /\ entered \in BOOLEAN

Scalars ==
    /\ current \in 0..1 /\ pending \in 0..1 /\ setup \in 0..1
    /\ queue \subseteq Routes /\ ran \subseteq Routes
    /\ tokens \in Nat /\ execSem \in Nat /\ startSem \in Nat /\ doneSem \in Nat
    /\ finRef \in Int /\ refcount \in [Routes -> Int]
    /\ engine \in {"idle", "waiting"}
    /\ life \in {"alive", "joining", "gone"}

Locals ==
    /\ pc \in [Threads -> PCs]
    /\ node \in [Threads -> Routes \cup {NoRoute}]
    /\ todo \in [Threads -> SUBSET Routes]
    /\ iter \in [Threads -> {0, 1, NoIterator, Freed}]
    /\ edit \in [Editors ->
                    {"idle", "rechain", "clear", "waiting", "signalled"}]

(* TypeOK by itself is not inductive: a thread that processes a route      *)
(* reads the activation set this route has in the current chain.           *)
HasNode == \A t \in Threads : pc[t] = "process" => node[t] \in chain[current].nodes

LEMMA TypeParts == TypeOK <=> Chains /\ Flags /\ Scalars /\ Locals
BY DEF TypeOK, Chains, Flags, Scalars, Locals

LEMMA TypeInit == Init => TypeOK
<1> SUFFICES ASSUME Init PROVE Chains /\ Flags /\ Scalars /\ Locals
  BY TypeParts
<1>1. Chains
  BY EmptyIsChain DEF Init, Chains
<1>2. Flags
  BY DEF Init, Flags
<1>3. Scalars
  BY DEF Init, Scalars
<1>4. Locals
  BY DEF Init, Locals, PCs, Threads
<1> QED
  BY <1>1, <1>2, <1>3, <1>4

(* Only rechain, clear_other_chain and the end of the Graph touch a chain. *)
LEMMA ChainsNext ==
    ASSUME TypeOK, [Next]_vars
    PROVE  Chains'
<1> USE TypeParts
<1>1. ASSUME NEW e \in Editors, Rechain(e) PROVE Chains'
  <2>1. PICK in \in RechainInputs :
            chain' = [chain EXCEPT ![Target] =
                         Rechained(in.order, in.feeds, in.fedBy)]
    BY <1>1 DEF Rechain
  <2> QED
    BY <2>1, InputsAreChains DEF Chains
<1>2. ASSUME NEW e \in Editors, ClearOtherChain(e) PROVE Chains'
  BY <1>2, EmptyIsChain DEF ClearOtherChain, Chains
<1>3. CASE Joined
  BY <1>3, EmptyIsChain DEF Joined, Chains
<1>4. ASSUME chain' = chain PROVE Chains'
  BY <1>4 DEF Chains
<1>5. ASSUME NEW t \in Threads, Thread(t) PROVE chain' = chain
  BY <1>5 DEF Thread, StartCycle, Prep, Trigger, EndPrep, TakeAndWake,
              GoToSleep, WakeUp, TakeWoken, Process, DecRef, EndIteration,
              GraphDecRef, CycleEnd, chainVars
<1>6. CASE Engine \/ GoingAway \/ UNCHANGED vars
  BY <1>6, <1>4 DEF Engine, CallCycle, CycleReturns, GoingAway, vars, chainVars
<1>7. ASSUME NEW e \in Editors, StartRechain(e) \/ StartClear(e) \/ Reacquire(e)
      PROVE  chain' = chain
  BY <1>7 DEF StartRechain, StartClear, Reacquire, Lock, chainVars
<1> QED
  BY <1>1, <1>2, <1>3, <1>4, <1>5, <1>6, <1>7 DEF Next, Cycling, Edit

LEMMA FlagsNext ==
    ASSUME TypeOK, [Next]_vars
    PROVE  Flags'
<1> USE TypeParts DEF Flags, cycleVars
<1>1. CASE Engine \/ GoingAway \/ Joined \/ UNCHANGED vars
  BY <1>1 DEF Engine, CallCycle, CycleReturns, GoingAway, Joined, vars
<1>2. ASSUME NEW e \in Editors, Edit(e) PROVE Flags'
  BY <1>2 DEF Edit, StartRechain, StartClear, Reacquire, Lock, Rechain,
              ClearOtherChain
<1>3. ASSUME NEW t \in Threads, Prep(t) PROVE Flags'
  BY <1>3 DEF Prep
<1>4. ASSUME NEW t \in Threads, EndPrep(t) PROVE Flags'
  BY <1>4 DEF EndPrep
<1>5. ASSUME NEW t \in Threads, Thread(t), ~Prep(t), ~EndPrep(t) PROVE Flags'
  BY <1>5 DEF Thread, StartCycle, Trigger, TakeAndWake, GoToSleep, WakeUp,
              TakeWoken, Process, DecRef, EndIteration, GraphDecRef, CycleEnd
<1> QED
  BY <1>1, <1>2, <1>3, <1>4, <1>5 DEF Next, Cycling

LEMMA ThreadsFinite == Cardinality(Threads) \in Nat
BY ThreadAssumption, FS_Singleton, FS_Union, FS_CardinalityType DEF Threads

(* The chain a cycle is prepared from.                                     *)
LEMMA PreparedChain ==
    ASSUME TypeOK, NEW t \in Threads, Prep(t)
    PROVE  current' \in 0..1 /\ setup' \in 0..1 /\ IsChain(chain[current'])
BY DEF TypeOK, Prep

LEMMA ScalarsThread ==
    ASSUME TypeOK, HasNode, NEW t \in Threads, Thread(t)
    PROVE  Scalars'
<1> USE TypeParts DEF Scalars, chainVars, semVars, cycleVars, threadVars
<1>1. CASE StartCycle(t)
  BY <1>1 DEF StartCycle
<1>2. CASE Prep(t)
  <2>1. IsChain(chain[current'])
    BY <1>2, PreparedChain
  <2>2. refcount' \in [Routes -> Int] /\ finRef' \in Int
    BY <1>2, <2>1 DEF Prep, IsChain
  <2> QED
    BY <1>2, <2>2, PreparedChain DEF Prep
<1>3. CASE Trigger(t)
  BY <1>3 DEF Trigger, Locals
<1>4. CASE EndPrep(t)
  BY <1>4 DEF EndPrep
<1>5. CASE TakeAndWake(t)
  <2>1. queue' \subseteq Routes
    BY <1>5 DEF TakeAndWake
  <2>2. Cardinality(queue') \in Nat
    BY <2>1, RouteAssumption, FS_Subset, FS_CardinalityType
  <2>3. Least(tokens, Cardinality(queue')) \in 0..tokens
    BY <2>2 DEF Least
  <2> QED
    BY <1>5, <2>1, <2>3 DEF TakeAndWake
<1>6. CASE GoToSleep(t)
  BY <1>6 DEF GoToSleep, Sleepers
<1>7. CASE WakeUp(t)
  BY <1>7 DEF WakeUp
<1>8. CASE TakeWoken(t)
  BY <1>8 DEF TakeWoken
<1>9. CASE Process(t)
  <2>1. node[t] \in Routes
    BY <1>9 DEF Process, HasNode, Chains, IsChain
  <2> QED
    BY <1>9, <2>1 DEF Process
<1>10. CASE DecRef(t)
  BY <1>10 DEF DecRef, Locals
<1>11. CASE EndIteration(t)
  BY <1>11 DEF EndIteration
<1>12. CASE GraphDecRef(t)
  BY <1>12 DEF GraphDecRef
<1>13. CASE CycleEnd(t)
  BY <1>13 DEF CycleEnd
<1> QED
  BY <1>1, <1>2, <1>3, <1>4, <1>5, <1>6, <1>7, <1>8, <1>9, <1>10, <1>11,
     <1>12, <1>13 DEF Thread

LEMMA ScalarsOthers ==
    ASSUME TypeOK, Engine \/ GoingAway \/ Joined \/ UNCHANGED vars
    PROVE  Scalars'
<1> USE TypeParts DEF Scalars, chainVars, semVars, cycleVars, threadVars
<1>1. ASSUME NEW m \in Modes, CallCycle(m) PROVE Scalars'
  BY <1>1 DEF CallCycle
<1>2. CASE CycleReturns
  BY <1>2 DEF CycleReturns
<1>3. CASE GoingAway
  BY <1>3, ThreadsFinite DEF GoingAway, WakeUps
<1>4. CASE Joined
  BY <1>4 DEF Joined
<1>5. CASE UNCHANGED vars
  BY <1>5 DEF vars
<1> QED
  BY <1>1, <1>2, <1>3, <1>4, <1>5 DEF Engine

LEMMA ScalarsEdit ==
    ASSUME TypeOK, NEW e \in Editors, Edit(e)
    PROVE  Scalars'
<1> USE TypeParts DEF Scalars, chainVars, semVars, cycleVars, threadVars
<1>1. CASE StartRechain(e) \/ StartClear(e) \/ Reacquire(e)
  BY <1>1 DEF StartRechain, StartClear, Reacquire, Lock
<1>2. CASE Rechain(e)
  BY <1>2 DEF Rechain, Target
<1>3. CASE ClearOtherChain(e)
  BY <1>3 DEF ClearOtherChain
<1> QED
  BY <1>1, <1>2, <1>3 DEF Edit

LEMMA LocalsThread ==
    ASSUME TypeOK, HasNode, NEW t \in Threads, Thread(t)
    PROVE  Locals'
<1> USE TypeParts DEF Locals, Goto, PCs
<1>1. CASE StartCycle(t)
  BY <1>1 DEF StartCycle
<1>2. CASE Prep(t)
  <2>1. chain[current'].trig \subseteq Routes
    BY <1>2, PreparedChain DEF IsChain
  <2>2. edit' \in [Editors ->
                      {"idle", "rechain", "clear", "waiting", "signalled"}]
    BY <1>2 DEF Prep, SignalCleanup
  <2> QED
    BY <1>2, <2>1, <2>2 DEF Prep
<1>3. CASE Trigger(t)
  BY <1>3 DEF Trigger
<1>4. CASE EndPrep(t)
  BY <1>4 DEF EndPrep
<1>5. CASE TakeAndWake(t)
  BY <1>5 DEF TakeAndWake, Scalars
<1>6. CASE GoToSleep(t)
  BY <1>6 DEF GoToSleep
<1>7. CASE WakeUp(t)
  BY <1>7 DEF WakeUp
<1>8. CASE TakeWoken(t)
  BY <1>8 DEF TakeWoken, Scalars
<1>9. CASE Process(t)
  <2>1. current \in 0..1
    BY DEF Scalars
  <2>2. chain[current].act[node[t]] \subseteq Routes
    BY <1>9, <2>1 DEF Process, HasNode, Chains, IsChain
  <2> QED
    BY <1>9, <2>1, <2>2 DEF Process
<1>10. CASE DecRef(t)
  BY <1>10 DEF DecRef
<1>11. CASE EndIteration(t)
  BY <1>11 DEF EndIteration
<1>12. CASE GraphDecRef(t)
  BY <1>12 DEF GraphDecRef
<1>13. CASE CycleEnd(t)
  BY <1>13 DEF CycleEnd
<1> QED
  BY <1>1, <1>2, <1>3, <1>4, <1>5, <1>6, <1>7, <1>8, <1>9, <1>10, <1>11,
     <1>12, <1>13 DEF Thread

LEMMA LocalsOthers ==
    ASSUME TypeOK,
           Engine \/ GoingAway \/ Joined \/ UNCHANGED vars
             \/ \E e \in Editors : Edit(e)
    PROVE  Locals'
<1> USE TypeParts DEF Locals, threadVars
<1>1. CASE Engine \/ GoingAway \/ Joined \/ UNCHANGED vars
  BY <1>1 DEF Engine, CallCycle, CycleReturns, GoingAway, Joined, vars
<1>2. ASSUME NEW e \in Editors, Edit(e) PROVE Locals'
  <2>1. pc' = pc /\ node' = node /\ todo' = todo
    BY <1>2 DEF Edit, StartRechain, StartClear, Reacquire, Lock, Rechain,
                ClearOtherChain
  <2>2. edit' \in [Editors ->
                      {"idle", "rechain", "clear", "waiting", "signalled"}]
    BY <1>2 DEF Edit, StartRechain, StartClear, Reacquire, Lock, Rechain,
                ClearOtherChain
  <2>3. ASSUME NEW c, FreeIterators(c)
        PROVE  iter' \in [Threads -> {0, 1, NoIterator, Freed}]
    BY <2>3 DEF FreeIterators
  <2>4. iter' \in [Threads -> {0, 1, NoIterator, Freed}]
    BY <1>2, <2>3 DEF Edit, StartRechain, StartClear, Reacquire, Lock,
       Rechain, ClearOtherChain
  <2> QED
    BY <2>1, <2>2, <2>4
<1> QED
  BY <1>1, <1>2

(* Types are kept as long as the threads process routes of the chain the   *)
(* cycle runs on.                                                          *)
LEMMA TypeNext == TypeOK /\ HasNode /\ [Next]_vars => TypeOK'
<1> SUFFICES ASSUME TypeOK, HasNode, [Next]_vars PROVE TypeOK'
  OBVIOUS
<1>1. Scalars'
  BY ScalarsThread, ScalarsOthers, ScalarsEdit DEF Next, Cycling
<1>2. Locals'
  BY LocalsThread, LocalsOthers DEF Next, Cycling
<1>3. (Chains' /\ Flags' /\ Scalars' /\ Locals') => TypeOK'
  BY DEF TypeOK, Chains, Flags, Scalars, Locals
<1> QED
  BY <1>1, <1>2, <1>3, ChainsNext, FlagsNext

-----------------------------------------------------------------------------
(* The two chains.                                                         *)

(* The cycle runs on one chain, rechain writes the other, and the pending  *)
(* chain is one of them.                                                   *)
Apart ==
    /\ DOMAIN chain = 0..1
    /\ current \in 0..1 /\ setup \in 0..1 /\ pending \in 0..1
    /\ setup # current

LEMMA ApartThread ==
    ASSUME Apart, NEW t \in Threads, Thread(t)
    PROVE  Apart' /\ chain' = chain
<1> USE DEF Apart, chainVars, cycleVars
<1>1. CASE Prep(t)
  BY <1>1 DEF Prep, Swaps
<1>2. CASE ~Prep(t)
  BY <1>2 DEF Thread, StartCycle, Trigger, EndPrep, TakeAndWake, GoToSleep,
              WakeUp, TakeWoken, Process, DecRef, EndIteration, GraphDecRef,
              CycleEnd
<1> QED
  BY <1>1, <1>2

LEMMA ApartOthers ==
    ASSUME Apart, Engine \/ GoingAway \/ Joined \/ UNCHANGED vars
    PROVE  Apart' /\ (chain' = chain \/ life' = "gone")
<1> USE DEF Apart, chainVars, cycleVars
<1>1. CASE Engine
  BY <1>1 DEF Engine, CallCycle, CycleReturns
<1>2. CASE GoingAway
  BY <1>2 DEF GoingAway
<1>3. CASE Joined
  BY <1>3 DEF Joined
<1>4. CASE UNCHANGED vars
  BY <1>4 DEF vars
<1> QED
  BY <1>1, <1>2, <1>3, <1>4

LEMMA ApartEdit ==
    ASSUME Apart, NEW e \in Editors, Edit(e)
    PROVE  Apart' /\ chain'[current] = chain[current]
<1> USE DEF Apart, chainVars, cycleVars
<1>1. CASE StartRechain(e) \/ StartClear(e) \/ Reacquire(e)
  BY <1>1 DEF StartRechain, StartClear, Reacquire, Lock
<1>2. CASE Rechain(e)
  <2>1. PICK in \in RechainInputs :
            chain' = [chain EXCEPT ![setup] =
                         Rechained(in.order, in.feeds, in.fedBy)]
    BY <1>2 DEF Rechain, Target
  <2> QED
    BY <1>2, <2>1 DEF Rechain, Target
<1>3. CASE ClearOtherChain(e)
  BY <1>3 DEF ClearOtherChain
<1> QED
  BY <1>1, <1>2, <1>3 DEF Edit

(* No editor ever touches the chain the cycle runs on: rechain and         *)
(* clear_other_chain write to the setup chain, which prep keeps apart from *)
(* the current one.  The first two parts of RunningChainStable, for any    *)
(* route lists; the third is IterationsUndisturbed of GraphCycleProofs.    *)
THEOREM RunningChainUntouched ==
    Spec => [][ /\ setup' # current'
                /\ chain'[current] = chain[current] \/ life' = "gone" ]_vars
<1>1. Init => Apart
  BY DEF Init, Apart
<1>2. Apart /\ [Next]_vars =>
        /\ Apart'
        /\ chain'[current] = chain[current] \/ life' = "gone"
  BY ApartThread, ApartOthers, ApartEdit DEF Next, Cycling
<1>3. Apart /\ [Next]_vars =>
        [ /\ setup' # current'
          /\ chain'[current] = chain[current] \/ life' = "gone" ]_vars
  BY <1>2 DEF Apart
<1> QED
  BY <1>1, <1>2, <1>3, PTL DEF Spec

=============================================================================
