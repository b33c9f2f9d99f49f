-------------------------- MODULE GraphCycleProofs --------------------------
(***************************************************************************)
(* Proofs about the cycles of ProcessGraph: its types, its safety          *)
(* invariants, and that it implements RouteCycle, for any number of        *)
(* routes, threads and editors, whatever order the threads run in.         *)
(***************************************************************************)
EXTENDS ProcessGraphProofs

-----------------------------------------------------------------------------
(* The chains.                                                             *)

(* Lists on which a cycle is well defined.  A route connected to itself    *)
(* waits for itself, or triggers itself again; and when an empty list      *)
(* replaces another, the thread that prepared a cycle may read _graph_empty*)
(* only after it was set for the next one.                                 *)
OrdinaryLists ==
    \A in \in RechainInputs :
        /\ in.order # << >>
        /\ \A n \in Listed(in.order) : <<n, n>> \notin in.feeds

Terminals(c) == {n \in c.nodes : c.act[n] = {}}

(* In every part of the chain some route feeds no other one of that part.  *)
Grounded(c) ==
    \A S \in SUBSET c.nodes : S # {} => \E n \in S : c.act[n] \cap S = {}

Proper(c) ==
    /\ IsChain(c)
    /\ \A n \in c.nodes : c.refs[n] = Cardinality(Feeders(c.act, n))
    /\ \A n \in c.trig : Feeders(c.act, n) = {}
    /\ c.fin = Cardinality(Terminals(c))
    /\ Grounded(c)

LEMMA LeastOf ==
    ASSUME NEW S \in SUBSET Nat, S # {}
    PROVE  \E n \in S : \A m \in S : n <= m
<1> DEFINE R == OpToRel(<, Nat)
<1>1. \A m, n \in Nat : m < n => <<m, n>> \in R
  BY DEF OpToRel
<1>2. IsWellFoundedOn(R, Nat)
  BY NatLessThanWellFounded
<1> HIDE DEF R
<1>3. PICK n \in S : \A m \in S : ~ (<<m, n>> \in R)
  BY <1>2, WFMin
<1>4. \A m \in S : ~ (m < n)
  BY <1>1, <1>3, Zenon
<1> QED
  BY <1>4

LEMMA PosOf ==
    ASSUME NEW order \in Seq(Routes), NEW r \in Listed(order)
    PROVE  /\ Pos(order, r) \in 1..Len(order) /\ Len(order) \in Nat
           /\ order[Pos(order, r)] = r
<1>1. PICK i \in DOMAIN order : order[i] = r
  BY DEF Listed
<1>2. Pos(order, r) \in DOMAIN order /\ order[Pos(order, r)] = r
  BY <1>1 DEF Pos
<1> QED
  BY <1>2

(* A connection is kept only if it goes forward in the list.               *)
LEMMA Forward ==
    ASSUME NEW order \in Seq(Routes), NEW feeds, NEW n \in Listed(order),
           \A r \in Listed(order) : <<r, r>> \notin feeds,
           NEW m \in Activates(order, feeds)[n]
    PROVE  /\ m \in Listed(order) /\ m # n /\ <<n, m>> \in feeds
           /\ Pos(order, n) < Pos(order, m)
<1>1. m \in Listed(order) /\ <<n, m>> \in feeds /\ ~FeedbackOut(order, n, m)
  BY DEF Activates
<1>2. m # n
  BY <1>1
<1>3. Pos(order, n) # Pos(order, m)
  BY <1>1, <1>2, PosOf
<1> QED
  BY <1>1, <1>2, <1>3, PosOf DEF FeedbackOut

LEMMA RechainedIsGrounded ==
    ASSUME NEW order \in Seq(Routes), NEW feeds, NEW fedBy,
           \A r \in Listed(order) : <<r, r>> \notin feeds
    PROVE  Grounded(Rechained(order, feeds, fedBy))
<1> DEFINE act == Activates(order, feeds)
<1>1. /\ Rechained(order, feeds, fedBy).nodes = Listed(order)
      /\ Rechained(order, feeds, fedBy).act = act
  BY DEF Rechained
<1> SUFFICES ASSUME NEW S \in SUBSET Listed(order), S # {}
             PROVE  \E n \in S : act[n] \cap S = {}
  BY <1>1 DEF Grounded
<1> DEFINE Behind(r) == Len(order) - Pos(order, r)
           T == {Behind(r) : r \in S}
<1>2. T \in SUBSET Nat /\ T # {}
  BY PosOf
<1>3. PICK k \in T : \A j \in T : k <= j
  <2> HIDE DEF T
  <2> QED BY <1>2, LeastOf
<1>4. PICK n \in S : k = Behind(n)
  BY DEF T
<1>5. ASSUME NEW m \in act[n], m \in S PROVE FALSE
  <2>1. Pos(order, n) < Pos(order, m)
    BY <1>5, Forward
  <2>2. Behind(n) <= Behind(m)
    BY <1>3, <1>4, <1>5
  <2> QED
    BY <2>1, <2>2, <1>5, PosOf
<1> QED
  BY <1>5

(* A route rechain triggers at the start has no feeder left in the chain:  *)
(* every direct feeder is in its fed_by.                                   *)
LEMMA TriggeredAreFree ==
    ASSUME NEW order \in Seq(Routes), NEW feeds,
           NEW fedBy \in [Listed(order) -> SUBSET Listed(order)],
           \A r \in Listed(order) : <<r, r>> \notin feeds,
           \A n, m \in Listed(order) :
               n # m /\ <<m, n>> \in feeds => m \in fedBy[n],
           NEW n \in Rechained(order, feeds, fedBy).trig
    PROVE  Feeders(Activates(order, feeds), n) = {}
<1>1. n \in Listed(order) /\ \A f \in fedBy[n] : FeedbackIn(order, f, n)
  BY DEF Rechained
<1>2. ASSUME NEW m \in Feeders(Activates(order, feeds), n) PROVE FALSE
  <2>1. m \in Listed(order) /\ n \in Activates(order, feeds)[m]
    BY DEF Feeders, Activates
  <2>2. n # m /\ <<m, n>> \in feeds /\ Pos(order, m) < Pos(order, n)
    BY <2>1, Forward
  <2>3. Pos(order, n) <= Pos(order, m)
    BY <1>1, <2>1, <2>2 DEF FeedbackIn
  <2> QED
    BY <1>1, <2>1, <2>2, <2>3, PosOf
<1> QED
  BY <1>2

LEMMA RechainedIsProper ==
    ASSUME NEW order \in Seq(Routes), NEW feeds,
           NEW fedBy \in [Listed(order) -> SUBSET Listed(order)],
           \A r \in Listed(order) : <<r, r>> \notin feeds,
           \A n, m \in Listed(order) :
               n # m /\ <<m, n>> \in feeds => m \in fedBy[n]
    PROVE  Proper(Rechained(order, feeds, fedBy))
<1> DEFINE c == Rechained(order, feeds, fedBy)
<1>1. IsChain(c)
  BY RechainedIsChain
<1>2. c.nodes = Listed(order) /\ c.act = Activates(order, feeds)
  BY DEF Rechained
<1>3. \A n \in c.nodes : c.refs[n] = Cardinality(Feeders(c.act, n))
  BY DEF Rechained
<1>4. \A n \in c.trig : Feeders(c.act, n) = {}
  BY <1>2, TriggeredAreFree
<1>5. c.fin = Cardinality(Terminals(c))
  BY DEF Rechained, Terminals
<1>6. Grounded(c)
  BY RechainedIsGrounded
<1> QED
  BY <1>1, <1>3, <1>4, <1>5, <1>6 DEF Proper

LEMMA EmptyIsProper == Proper(EmptyChain) /\ EmptyChain.nodes = {}
<1>1. << >> \in Seq(Routes) /\ Listed(<< >>) = {}
  BY DEF Listed
<1>2. << >> \in [Listed(<< >>) -> SUBSET Listed(<< >>)]
  BY <1>1
<1>3. Proper(Rechained(<< >>, {}, << >>))
  BY <1>1, <1>2, RechainedIsProper
<1>4. EmptyChain.nodes = Listed(<< >>)
  BY DEF EmptyChain, Rechained
<1> QED
  BY <1>1, <1>3, <1>4 DEF EmptyChain

LEMMA InputsAreProper ==
    ASSUME OrdinaryLists, NEW in \in RechainInputs
    PROVE  LET c == Rechained(in.order, in.feeds, in.fedBy)
           IN  Proper(c) /\ c.nodes # {}
<1>1. Proper(Rechained(in.order, in.feeds, in.fedBy))
  BY InputAssumption, RechainedIsProper DEF OrdinaryLists
<1>2. Listed(in.order) # {}
  <2>1. in.order \in Seq(Routes) /\ in.order # << >>
    BY InputAssumption DEF OrdinaryLists
  <2>2. 1 \in DOMAIN in.order
    BY <2>1
  <2> QED
    BY <2>2 DEF Listed
<1> QED
  BY <1>1, <1>2 DEF Rechained

-----------------------------------------------------------------------------
(* The invariant of a cycle.                                               *)

Nodes == chain[current].nodes

(* Both chains are proper, and once a chain with routes has been current   *)
(* or is pending, the empty one never is again.                            *)
Sound ==
    /\ Proper(chain[0]) /\ Proper(chain[1])
    /\ setup # current
    /\ pending # current => chain[pending].nodes # {}
    /\ graphEmpty <=> Nodes = {}

(* The thread that ends a cycle, waits for the next one, prepares it or    *)
(* triggers its first routes is one and the same: a baton.  It is passed   *)
(* on when the last route is triggered, and taken up by whoever brings     *)
(* _finished_refcount to zero.                                             *)
Parked(t) == pc[t] \in {"first", "wait", "prep", "cycleEnd"}
Holds(t) == Parked(t) \/ (pc[t] = "trigger" /\ (todo[t] # {} \/ graphEmpty))
Baton == \A t, u \in Threads : Holds(t) /\ Holds(u) => t = u

(* Nothing of the cycle is left to do.                                     *)
Over ==
    /\ queue = {} /\ ran = Nodes
    /\ \A t \in Threads : /\ pc[t] \notin {"process", "last"}
                          /\ pc[t] \in {"trigger", "finish"} => todo[t] = {}

Quiet == \A t \in Threads : Parked(t) => Over

(* A route is in one place: still to be triggered, in the queue, being     *)
(* processed, or done.                                                     *)
Placed ==
    /\ ran \subseteq Nodes /\ queue \subseteq Nodes /\ queue \cap ran = {}
    /\ \A t \in Threads : pc[t] = "process" =>
          node[t] \in Nodes /\ node[t] \notin ran /\ node[t] \notin queue
    /\ \A t, u \in Threads :
          pc[t] = "process" /\ pc[u] = "process" /\ node[t] = node[u] => t = u

AwaitsTrigger(n) ==
    /\ n \in Nodes /\ n \notin ran /\ n \notin queue
    /\ Feeders(Active, n) = {}
    /\ \A u \in Threads : ~Processing(u, n)

Triggering ==
    \A t \in Threads : \A n \in todo[t] : pc[t] = "trigger" => AwaitsTrigger(n)

(* What a route still waits for: its feeders that have not run, or that    *)
(* have not yet reached it in GraphNode::finish.                           *)
Finishing(t, f, m) == pc[t] = "finish" /\ node[t] = f /\ m \in todo[t]
Owes(f, m) == f \notin ran \/ \E t \in Threads : Finishing(t, f, m)
Owed(m) == {f \in Feeders(Active, m) : Owes(f, m)}

Counted == \A m \in Nodes : refcount[m] = Cardinality(Owed(m))

Finishers ==
    /\ \A t \in Threads : \A m \in todo[t] : pc[t] = "finish" =>
          node[t] \in ran /\ m \in Active[node[t]]
    /\ \A t, u \in Threads : \A f, m, k \in Routes :
          Finishing(t, f, m) /\ Finishing(u, f, k) => t = u

Released ==
    /\ \A n \in queue \cup ran : Owed(n) = {}
    /\ \A t \in Threads : pc[t] = "process" => Owed(node[t]) = {}

(* The routes _finished_refcount waits for.                                *)
LastOf(t, n) == pc[t] = "last" /\ node[t] = n
Unended(n) == n \notin ran \/ \E t \in Threads : LastOf(t, n)
Ends == {n \in Terminals(chain[current]) : Unended(n)}

Ending ==
    /\ finRef = Cardinality(Ends)
    /\ \A t \in Threads : pc[t] = "last" =>
          node[t] \in ran /\ node[t] \in Terminals(chain[current])
    /\ \A t, u \in Threads : \A n \in Routes :
          LastOf(t, n) /\ LastOf(u, n) => t = u

(* The two semaphores of a call, while there are calls: a thread waits for *)
(* the next call exactly when the last one has been answered or the next   *)
(* one has not been taken up.                                              *)
Blocked(t) == pc[t] \in {"first", "wait"}

Paired ==
    /\ engine = "waiting" => life = "alive"
    /\ quit <=> life # "alive"
    /\ life = "alive" =>
        /\ engine = "idle" => startSem = 0 /\ doneSem = 0
        /\ startSem + doneSem <= 1
        /\ (\E t \in Threads : Blocked(t))
              <=> (engine = "idle" \/ startSem + doneSem = 1)

(* What the threads are at.                                                *)
Working ==
    /\ Baton /\ Quiet /\ Placed /\ Triggering /\ Counted /\ Finishers
    /\ Released /\ Ending

CycleInv == Sound /\ Working /\ Paired

Ended ==
    /\ queue = {} /\ quit /\ engine = "idle"
    /\ \A t \in Threads : pc[t] = "exit"

IInv == TypeOK /\ IF life = "gone" THEN Ended ELSE CycleInv

-----------------------------------------------------------------------------
(* Steps that leave the cycle alone.                                       *)

cycleState == <<queue, ran, refcount, finRef, graphEmpty, pc, node, todo>>

(* Steps of the engine thread, of editors and of session_going_away.       *)
LEMMA WorkingUntouched ==
    ASSUME Working, UNCHANGED cycleState, chain'[current'] = chain[current]
    PROVE  Working'
<1> USE DEF cycleState
<1>1. Nodes' = Nodes /\ Active' = Active
  BY DEF Nodes, Active
<1>2. \A t \in Threads : Holds(t)' = Holds(t) /\ Parked(t)' = Parked(t)
  BY DEF Holds, Parked
<1>3. \A m : Owed(m)' = Owed(m)
  BY <1>1 DEF Owed, Owes, Finishing
<1>4. Ends' = Ends /\ Terminals(chain[current])' = Terminals(chain[current])
  BY DEF Ends, Unended, LastOf, Terminals
<1>5. Baton' /\ Quiet'
  BY <1>1, <1>2 DEF Working, Baton, Quiet, Over
<1>6. Placed' /\ Triggering'
  BY <1>1 DEF Working, Placed, Triggering, AwaitsTrigger, Processing
<1>7. Counted'
  BY <1>1, <1>3 DEF Working, Counted
<1>8. Finishers'
  BY <1>1 DEF Working, Finishers, Finishing
<1>9. Released'
  BY <1>1, <1>3 DEF Working, Released
<1>10. Ending'
  BY <1>4 DEF Working, Ending, LastOf
<1> QED
  BY <1>5, <1>6, <1>7, <1>8, <1>9, <1>10 DEF Working

(* Steps of a thread between the routes: it starts, sleeps, wakes up, ends *)
(* its iteration or a cycle.                                               *)
LEMMA WorkingMoves ==
    ASSUME TypeOK, Working, NEW t \in Threads, NEW l \in PCs,
           pc' = [pc EXCEPT ![t] = l],
           l \notin {"process", "finish", "last", "trigger"},
           pc[t] \notin {"process", "last"},
           pc[t] \in {"finish", "trigger"} => todo[t] = {},
           Holds(t)' => Holds(t),
           Parked(t)' => Over,
           UNCHANGED <<chain, current, queue, ran, refcount, finRef,
                       graphEmpty, node, todo>>
    PROVE  Working'
<1>1. Nodes' = Nodes /\ Active' = Active
  BY DEF Nodes, Active
<1>2. \A u \in Threads : pc'[u] = IF u = t THEN l ELSE pc[u]
  BY DEF TypeOK
<1>3. \A u \in Threads : Holds(u)' => Holds(u)
  BY <1>2 DEF Holds, Parked
<1>4. \A u \in Threads : \A f, m : Finishing(u, f, m)' <=> Finishing(u, f, m)
  BY <1>2 DEF Finishing
<1>5. \A m : Owed(m)' = Owed(m)
  BY <1>1, <1>4 DEF Owed, Owes
<1>6. \A u \in Threads : \A n : LastOf(u, n)' <=> LastOf(u, n)
  BY <1>2 DEF LastOf
<1>7. Ends' = Ends /\ Terminals(chain[current])' = Terminals(chain[current])
  BY <1>6 DEF Ends, Unended, Terminals
<1>8. \A u \in Threads : \A n : Processing(u, n)' <=> Processing(u, n)
  BY <1>2 DEF Processing
<1>9. Baton'
  BY <1>3 DEF Working, Baton
<1>10. Quiet'
  <2>1. Over => Over'
    BY <1>1, <1>2 DEF Over
  <2>2. \A u \in Threads : Parked(u)' => Parked(u) \/ u = t
    BY <1>2 DEF Parked
  <2> QED
    BY <2>1, <2>2 DEF Working, Quiet
<1>11. Placed'
  BY <1>1, <1>2 DEF Working, Placed
<1>12. Triggering'
  BY <1>1, <1>2, <1>8 DEF Working, Triggering, AwaitsTrigger
<1>13. Counted'
  BY <1>1, <1>5 DEF Working, Counted
<1>14. Finishers'
  BY <1>1, <1>2, <1>4 DEF Working, Finishers
<1>15. Released'
  BY <1>2, <1>5 DEF Working, Released
<1>16. Ending'
  BY <1>2, <1>6, <1>7 DEF Working, Ending
<1> QED
  BY <1>9, <1>10, <1>11, <1>12, <1>13, <1>14, <1>15, <1>16 DEF Working

-----------------------------------------------------------------------------
(* Triggering and taking routes.                                           *)

LEMMA WorkingTrigger ==
    ASSUME TypeOK, Working, NEW t \in Threads, Trigger(t)
    PROVE  Working'
<1> PICK n \in todo[t] : /\ queue' = queue \cup {n}
                         /\ todo' = [todo EXCEPT ![t] = @ \ {n}]
  BY DEF Trigger
<1>1. Nodes' = Nodes /\ Active' = Active /\ pc' = pc /\ node' = node /\ ran' = ran
  BY DEF Trigger, Nodes, Active, chainVars, cycleVars
<1>2. \A u \in Threads : todo'[u] = IF u = t THEN todo[t] \ {n} ELSE todo[u]
  BY DEF TypeOK
<1>3. pc[t] = "trigger" /\ Holds(t) /\ AwaitsTrigger(n)
  BY DEF Trigger, Working, Triggering, Holds
<1>4. graphEmpty' = graphEmpty /\ refcount' = refcount /\ finRef' = finRef
  BY DEF Trigger, cycleVars
<1>5. \A u \in Threads : (Holds(u)' => Holds(u)) /\ Parked(u)' = Parked(u)
  BY <1>1, <1>2, <1>4 DEF Holds, Parked
<1>6. \A u \in Threads : \A f, m : Finishing(u, f, m)' <=> Finishing(u, f, m)
  BY <1>1, <1>2, <1>3 DEF Finishing
<1>7. \A m : Owed(m)' = Owed(m)
  BY <1>1, <1>6 DEF Owed, Owes
<1>8. Baton'
  BY <1>5 DEF Working, Baton
<1>9. Quiet'
  <2>1. \A u \in Threads : ~Parked(u)
    BY <1>3 DEF Working, Baton, Parked, Holds
  <2> QED
    BY <2>1, <1>5 DEF Quiet
<1>10. Placed'
  BY <1>1, <1>3 DEF Working, Placed, AwaitsTrigger, Processing
<1>11. Triggering'
  <2> SUFFICES ASSUME NEW u \in Threads, NEW m \in todo'[u], pc[u] = "trigger"
               PROVE  AwaitsTrigger(m)'
    BY <1>1 DEF Triggering
  <2>1. u = t
    BY <1>2, <1>3 DEF Working, Baton, Holds
  <2>2. m \in todo[t] /\ m # n
    BY <1>2, <2>1
  <2>3. AwaitsTrigger(m)
    BY <2>2, <1>3 DEF Working, Triggering
  <2> QED
    BY <1>1, <2>2, <2>3 DEF AwaitsTrigger, Processing
<1>12. Counted'
  BY <1>1, <1>4, <1>7 DEF Working, Counted
<1>13. Finishers'
  BY <1>1, <1>2, <1>6 DEF Working, Finishers
<1>14. Released'
  <2>1. Owed(n) = {}
    BY <1>3 DEF AwaitsTrigger, Owed
  <2> QED
    BY <1>1, <1>7, <2>1 DEF Working, Released
<1>15. Ending'
  <2>1. chain' = chain /\ current' = current
    BY DEF Trigger, chainVars, cycleVars
  <2> QED
    BY <1>1, <1>4, <2>1 DEF Working, Ending, Ends, Unended, LastOf, Terminals
<1> QED
  BY <1>8, <1>9, <1>10, <1>11, <1>12, <1>13, <1>14, <1>15 DEF Working

(* A route taken from the queue, by a thread that looked or was woken.     *)
LEMMA WorkingTakes ==
    ASSUME TypeOK, Working, NEW t \in Threads, NEW n \in queue,
           pc[t] \in {"run", "woken"},
           pc' = [pc EXCEPT ![t] = "process"],
           queue' = queue \ {n}, node' = [node EXCEPT ![t] = n],
           UNCHANGED <<chain, current, ran, refcount, finRef, graphEmpty, todo>>
    PROVE  Working'
<1>1. Nodes' = Nodes /\ Active' = Active
  BY DEF Nodes, Active
<1>2. \A u \in Threads : /\ pc'[u] = IF u = t THEN "process" ELSE pc[u]
                         /\ node'[u] = IF u = t THEN n ELSE node[u]
  BY DEF TypeOK
<1>3. \A u \in Threads : (Holds(u)' => Holds(u)) /\ ~Parked(u)'
  <2>1. \A u \in Threads : ~Parked(u)
    BY DEF Working, Quiet, Over
  <2> QED
    BY <1>2, <2>1 DEF Holds, Parked
<1>4. \A u \in Threads : \A f, m : Finishing(u, f, m)' <=> Finishing(u, f, m)
  BY <1>2 DEF Finishing
<1>5. \A m : Owed(m)' = Owed(m)
  BY <1>1, <1>4 DEF Owed, Owes
<1>6. \A u \in Threads : \A m : LastOf(u, m)' <=> LastOf(u, m)
  BY <1>2 DEF LastOf
<1>7. n \in Nodes /\ n \notin ran /\ Owed(n) = {}
  BY DEF Working, Placed, Released
<1>8. \A u \in Threads : ~Processing(u, n)
  BY DEF Working, Placed, Processing
<1>9. Baton' /\ Quiet'
  BY <1>3 DEF Working, Baton, Quiet
<1>10. Placed'
  <2>1. \A u \in Threads : pc'[u] = "process" =>
            node'[u] \in Nodes /\ node'[u] \notin ran /\ node'[u] \notin queue'
    BY <1>2, <1>7 DEF Working, Placed
  <2>2. \A u, v \in Threads :
          pc'[u] = "process" /\ pc'[v] = "process" /\ node'[u] = node'[v] => u = v
    BY <1>2, <1>8 DEF Working, Placed, Processing
  <2> QED
    BY <1>1, <2>1, <2>2 DEF Working, Placed
<1>11. Triggering'
  BY <1>1, <1>2 DEF Working, Triggering, AwaitsTrigger, Processing
<1>12. Counted'
  BY <1>1, <1>5 DEF Working, Counted
<1>13. Finishers'
  BY <1>1, <1>2, <1>4 DEF Working, Finishers
<1>14. Released'
  BY <1>2, <1>5, <1>7 DEF Working, Released
<1>15. Ending'
  <2>1. Ends' = Ends /\ Terminals(chain[current])' = Terminals(chain[current])
    BY <1>6 DEF Ends, Unended, Terminals
  <2>2. \A u \in Threads : pc'[u] = "last" => pc[u] = "last" /\ node'[u] = node[u]
    BY <1>2
  <2> QED
    BY <1>6, <2>1, <2>2 DEF Working, Ending
<1> QED
  BY <1>9, <1>10, <1>11, <1>12, <1>13, <1>14, <1>15 DEF Working

-----------------------------------------------------------------------------
(* Processing a route and releasing the routes it feeds.                   *)

LEMMA OwedIsFinite ==
    ASSUME NEW c, IsChain(c), NEW S, S \subseteq c.nodes
    PROVE  IsFiniteSet(S) /\ Cardinality(S) \in Nat
BY RouteAssumption, FS_Subset, FS_CardinalityType DEF IsChain

LEMMA WorkingProcess ==
    ASSUME TypeOK, Working, NEW t \in Threads, Process(t)
    PROVE  Working'
<1> DEFINE n == node[t]
           l == IF Active[n] = {} THEN "last" ELSE "finish"
<1>1. /\ pc[t] = "process" /\ pc' = [pc EXCEPT ![t] = l]
      /\ todo' = [todo EXCEPT ![t] = Active[n]] /\ ran' = ran \cup {n}
      /\ node' = node /\ queue' = queue /\ chain' = chain /\ current' = current
      /\ graphEmpty' = graphEmpty /\ refcount' = refcount /\ finRef' = finRef
  BY DEF Process, Goto, Active, chainVars
<1>2. Nodes' = Nodes /\ Active' = Active
  BY <1>1 DEF Nodes, Active
<1>3. /\ n \in Nodes /\ n \in Routes /\ n \notin ran /\ n \notin queue
      /\ Owed(n) = {}
  BY <1>1 DEF Working, Placed, Released, TypeOK, IsChain, Nodes
<1>4. /\ DOMAIN Active = Nodes /\ Active[n] \subseteq Routes
  BY <1>3 DEF Active, Nodes, TypeOK, IsChain
<1>5. \A u \in Threads : /\ pc'[u] = IF u = t THEN l ELSE pc[u]
                         /\ todo'[u] = IF u = t THEN Active[n] ELSE todo[u]
  BY <1>1 DEF TypeOK
<1> HIDE DEF n
<1>6. \A u \in Threads : (Holds(u)' => Holds(u)) /\ ~Parked(u)'
  <2>1. \A u \in Threads : ~Parked(u)
    BY <1>1 DEF Working, Quiet, Over
  <2> QED
    BY <1>1, <1>5, <2>1 DEF Holds, Parked
<1>7. \A u \in Threads : u # t => \A f, m : Finishing(u, f, m)' <=> Finishing(u, f, m)
  BY <1>1, <1>5 DEF Finishing
<1>8. \A f, m : Finishing(t, f, m)' <=> (f = n /\ m \in Active[n])
  BY <1>1, <1>5 DEF Finishing, n
<1>9. \A f, m : ~Finishing(t, f, m)
  BY <1>1 DEF Finishing
<1>10. \A m : Owed(m)' = Owed(m)
  <2> SUFFICES ASSUME NEW m, NEW f \in Feeders(Active, m)
               PROVE  Owes(f, m)' <=> Owes(f, m)
    BY <1>2 DEF Owed
  <2>1. m \in Active[f]
    BY DEF Feeders
  <2>2. CASE f = n
    BY <2>1, <2>2, <1>3, <1>8 DEF Owes
  <2>3. CASE f # n
    BY <2>3, <1>1, <1>7, <1>8, <1>9 DEF Owes
  <2> QED
    BY <2>2, <2>3
<1>11. Baton' /\ Quiet'
  BY <1>6 DEF Working, Baton, Quiet
<1>12. \A u \in Threads : pc[u] = "process" /\ node[u] = n => u = t
  BY <1>1 DEF Working, Placed, n
<1>13. Placed'
  BY <1>1, <1>2, <1>3, <1>5, <1>12 DEF Working, Placed
<1>14. Triggering'
  <2> SUFFICES ASSUME NEW u \in Threads, NEW m \in todo'[u], pc'[u] = "trigger"
               PROVE  AwaitsTrigger(m)'
    BY DEF Triggering
  <2>1. u # t /\ pc[u] = "trigger" /\ m \in todo[u]
    BY <1>5
  <2>2. AwaitsTrigger(m)
    BY <2>1 DEF Working, Triggering
  <2>3. m # n
    BY <2>2, <1>1 DEF AwaitsTrigger, Processing, n
  <2> QED
    BY <2>2, <2>3, <1>1, <1>2, <1>5 DEF AwaitsTrigger, Processing
<1>15. Counted'
  BY <1>1, <1>2, <1>10 DEF Working, Counted
<1>16. Finishers'
  <2>1. \A u \in Threads : \A m \in todo'[u] : pc'[u] = "finish" =>
            node'[u] \in ran' /\ m \in Active[node'[u]]
    BY <1>1, <1>5 DEF Working, Finishers, n
  <2>2. \A u \in Threads : \A m : ~Finishing(u, n, m)
    BY <1>3 DEF Working, Finishers, Finishing
  <2>3. \A u, v \in Threads : \A f, m, k \in Routes :
            Finishing(u, f, m)' /\ Finishing(v, f, k)' => u = v
    BY <2>2, <1>7, <1>8 DEF Working, Finishers
  <2> QED
    BY <2>1, <2>3, <1>2 DEF Finishers
<1>17. Released'
  BY <1>1, <1>3, <1>5, <1>10 DEF Working, Released
<1>18. Ending'
  <2> DEFINE E == Terminals(chain[current])
  <2>1. n \in E <=> Active[n] = {}
    BY <1>3 DEF Terminals, Nodes, Active
  <2>2. \A u \in Threads : u # t => \A m : LastOf(u, m)' <=> LastOf(u, m)
    BY <1>1, <1>5 DEF LastOf
  <2>3. \A m : LastOf(t, m)' <=> m = n /\ Active[n] = {}
    BY <1>1, <1>5 DEF LastOf, n
  <2>4. \A m : ~LastOf(t, m)
    BY <1>1 DEF LastOf
  <2>5. \A m \in E : Unended(m)' <=> Unended(m)
    <3> SUFFICES ASSUME NEW m \in E PROVE Unended(m)' <=> Unended(m)
      OBVIOUS
    <3>1. CASE m = n
      BY <3>1, <2>1, <2>3, <1>3 DEF Unended
    <3>2. CASE m # n
      BY <3>2, <2>2, <2>3, <2>4, <1>1 DEF Unended
    <3> QED
      BY <3>1, <3>2
  <2>6. Terminals(chain[current])' = E
    BY <1>1
  <2> HIDE DEF E
  <2>7. Ends' = Ends
    BY <2>5, <2>6 DEF Ends, E
  <2>8. \A u \in Threads : pc'[u] = "last" => node'[u] \in ran' /\ node'[u] \in E
    BY <1>1, <1>5, <2>1 DEF Working, Ending, E, n
  <2>9. \A u \in Threads : ~LastOf(u, n)
    BY <1>3 DEF Working, Ending, LastOf
  <2>10. \A u, v \in Threads : \A m \in Routes :
            LastOf(u, m)' /\ LastOf(v, m)' => u = v
    BY <2>2, <2>3, <2>9 DEF Working, Ending
  <2>11. finRef' = Cardinality(Ends')
    BY <1>1, <2>7 DEF Working, Ending
  <2> QED
    BY <2>6, <2>8, <2>10, <2>11 DEF Ending
<1> QED
  BY <1>11, <1>13, <1>14, <1>15, <1>16, <1>17, <1>18 DEF Working

(* A thread releases one of the routes its route feeds.  It was owed there,*)
(* and by nobody else if it triggers the route.                            *)
LEMMA WorkingDecRef ==
    ASSUME TypeOK, Working, NEW t \in Threads, DecRef(t)
    PROVE  Working'
<1> DEFINE n == node[t]
<1> PICK m \in todo[t] :
        /\ refcount' = [refcount EXCEPT ![m] = @ - 1]
        /\ queue' = IF LastReference(m) THEN queue \cup {m} ELSE queue
        /\ todo' = [todo EXCEPT ![t] = @ \ {m}]
  BY DEF DecRef
<1>1. /\ pc[t] = "finish" /\ pc' = pc /\ node' = node /\ ran' = ran
      /\ chain' = chain /\ current' = current
      /\ graphEmpty' = graphEmpty /\ finRef' = finRef
  BY DEF DecRef, chainVars
<1>2. Nodes' = Nodes /\ Active' = Active
  BY <1>1 DEF Nodes, Active
<1>3. \A u \in Threads : todo'[u] = IF u = t THEN todo[t] \ {m} ELSE todo[u]
  BY DEF TypeOK
<1>4. n \in ran /\ m \in Active[n] /\ Finishing(t, n, m)
  BY <1>1 DEF Working, Finishers, Finishing
<1>5. /\ IsChain(chain[current]) /\ DOMAIN Active = Nodes
      /\ Nodes \subseteq Routes /\ n \in Nodes /\ m \in Nodes
  BY <1>4 DEF TypeOK, IsChain, Working, Placed, Nodes, Active
<1> HIDE DEF n
<1>6. n \in Feeders(Active, m) /\ n \in Owed(m)
  BY <1>4, <1>5 DEF Feeders, Owed, Owes
<1>7. m \notin ran /\ m \notin queue /\ \A u \in Threads : ~Processing(u, m)
  BY <1>6 DEF Working, Released, Processing
<1>8. \A u \in Threads : pc[u] = "trigger" => m \notin todo[u]
  BY <1>6 DEF Working, Triggering, AwaitsTrigger
<1>9. \A u \in Threads : \A f, k : Finishing(u, f, k)' <=>
          Finishing(u, f, k) /\ ~(u = t /\ k = m)
  BY <1>1, <1>3 DEF Finishing
<1>10. \A u \in Threads : Finishing(u, n, m) => u = t
  BY <1>4, <1>5 DEF Working, Finishers
<1>11. \A f : Finishing(t, f, m) => f = n
  BY DEF Finishing, n
<1>12. Owed(m)' = Owed(m) \ {n}
  <2>1. \A f : Owes(f, m)' <=> Owes(f, m) /\ f # n
    BY <1>1, <1>4, <1>9, <1>10, <1>11 DEF Owes
  <2> QED
    BY <1>2, <2>1 DEF Owed
<1>13. \A k : k # m => Owed(k)' = Owed(k)
  <2>1. \A f, k : k # m => (Owes(f, k)' <=> Owes(f, k))
    BY <1>1, <1>9 DEF Owes
  <2> QED
    BY <1>2, <2>1 DEF Owed
<1>14. IsFiniteSet(Owed(m)) /\ Cardinality(Owed(m)) \in Nat
  BY <1>5, OwedIsFinite DEF Owed, Feeders, Nodes
<1>15. Cardinality(Owed(m)') = Cardinality(Owed(m)) - 1
  BY <1>6, <1>12, <1>14, FS_RemoveElement
<1>16. refcount[m] = Cardinality(Owed(m))
  BY <1>5 DEF Working, Counted
<1>17. LastReference(m) => Owed(m)' = {}
  <2> SUFFICES ASSUME LastReference(m) PROVE Owed(m)' = {}
    OBVIOUS
  <2>1. Cardinality(Owed(m)) = 1
    BY <1>16 DEF LastReference
  <2>2. PICK x : Owed(m) = {x}
    BY <2>1, <1>14, FS_Singleton
  <2> QED
    BY <2>2, <1>6, <1>12
<1>18. \A u \in Threads : (Holds(u)' <=> Holds(u)) /\ (Parked(u)' <=> Parked(u))
  BY <1>1, <1>3 DEF Holds, Parked
<1>19. Baton'
  BY <1>18 DEF Working, Baton
<1>20. Quiet'
  <2>1. \A u \in Threads : ~Parked(u)
    BY <1>1 DEF Working, Quiet, Over
  <2> QED
    BY <2>1, <1>18 DEF Quiet
<1>21. Placed'
  <2>1. queue' \subseteq queue \cup {m}
    OBVIOUS
  <2>2. \A u \in Threads : pc[u] = "process" => node[u] # m
    BY <1>7 DEF Processing
  <2> QED
    BY <1>1, <1>2, <1>5, <1>7, <2>1, <2>2 DEF Working, Placed
<1>22. Triggering'
  <2> SUFFICES ASSUME NEW u \in Threads, NEW k \in todo'[u], pc[u] = "trigger"
               PROVE  AwaitsTrigger(k)'
    BY <1>1 DEF Triggering
  <2>1. k \in todo[u] /\ k # m
    BY <1>1, <1>3, <1>8
  <2>2. AwaitsTrigger(k)
    BY <2>1 DEF Working, Triggering
  <2> QED
    BY <1>1, <1>2, <2>1, <2>2 DEF AwaitsTrigger, Processing
<1>23. Counted'
  <2> SUFFICES ASSUME NEW k \in Nodes PROVE refcount'[k] = Cardinality(Owed(k)')
    BY <1>2 DEF Counted
  <2>1. refcount'[k] = IF k = m THEN refcount[m] - 1 ELSE refcount[k]
    BY <1>5 DEF TypeOK
  <2>2. CASE k = m
    BY <2>1, <2>2, <1>15, <1>16
  <2>3. CASE k # m
    BY <2>1, <2>3, <1>13 DEF Working, Counted
  <2> QED
    BY <2>2, <2>3
<1>24. Finishers'
  BY <1>1, <1>2, <1>3, <1>9 DEF Working, Finishers
<1>25. Released'
  <2>1. \A k \in queue' \cup ran' : Owed(k)' = {}
    <3> SUFFICES ASSUME NEW k \in queue' \cup ran PROVE Owed(k)' = {}
      BY <1>1
    <3>1. CASE k = m
      BY <3>1, <1>7, <1>17
    <3>2. CASE k # m
      BY <3>2, <1>13 DEF Working, Released
    <3> QED
      BY <3>1, <3>2
  <2>2. \A u \in Threads : pc[u] = "process" => Owed(node[u])' = {}
    BY <1>1, <1>7, <1>13 DEF Working, Released, Processing
  <2> QED
    BY <1>1, <2>1, <2>2 DEF Released
<1>26. Ending'
  BY <1>1 DEF Working, Ending, Ends, Unended, LastOf, Terminals
<1> QED
  BY <1>19, <1>20, <1>21, <1>22, <1>23, <1>24, <1>25, <1>26 DEF Working

-----------------------------------------------------------------------------
(* The end of a cycle and the preparation of the next one.                 *)

(* When only one end is outstanding and its route has been processed, all  *)
(* routes have: a route that has not would have to wait for another one    *)
(* that has not, and so on, but the chain is grounded.                     *)
LEMMA LastEndIsTheEnd ==
    ASSUME TypeOK, Proper(chain[current]), Working,
           NEW t \in Threads, pc[t] = "last", finRef = 1
    PROVE  /\ Ends = {node[t]} /\ ran = Nodes /\ queue = {}
           /\ \A u \in Threads :
                /\ ~Parked(u) /\ pc[u] # "process"
                /\ pc[u] = "last" => u = t
                /\ pc[u] \in {"trigger", "finish"} => todo[u] = {}
<1> DEFINE c == chain[current]
<1>1. IsChain(c) /\ Grounded(c) /\ Nodes = c.nodes /\ Active = c.act
  BY DEF Proper, Nodes, Active
<1>2. /\ node[t] \in ran /\ node[t] \in Terminals(c) /\ node[t] \in Routes
      /\ LastOf(t, node[t])
  BY <1>1 DEF Working, Ending, Terminals, LastOf, IsChain
<1>3. node[t] \in Ends
  BY <1>2 DEF Ends, Unended
<1>4. IsFiniteSet(Ends)
  BY <1>1, OwedIsFinite DEF Ends, Terminals
<1>5. Ends = {node[t]}
  <2>1. Cardinality(Ends) = 1
    BY DEF Working, Ending
  <2>2. PICK x : Ends = {x}
    BY <2>1, <1>4, FS_Singleton
  <2> QED
    BY <2>2, <1>3
<1>6. ran = Nodes
  <2> DEFINE S == Nodes \ ran
  <2> SUFFICES ASSUME S # {} PROVE FALSE
    BY DEF Working, Placed
  <2>1. PICK n \in S : Active[n] \cap S = {}
    BY <1>1 DEF Grounded
  <2>2. CASE Active[n] = {}
    <3>1. n \in Ends
      BY <2>2, <1>1 DEF Ends, Unended, Terminals
    <3> QED
      BY <3>1, <1>2, <1>5
  <2>3. CASE Active[n] # {}
    <3>1. PICK m : m \in Active[n]
      BY <2>3
    <3>2. m \in Nodes /\ DOMAIN Active = Nodes
      BY <3>1, <1>1 DEF IsChain
    <3>3. m \in ran
      BY <2>1, <3>1, <3>2
    <3>4. n \in Owed(m)
      BY <3>1, <3>2 DEF Owed, Owes, Feeders
    <3> QED
      BY <3>3, <3>4 DEF Working, Released
  <2> QED
    BY <2>2, <2>3
<1>7. queue = {} /\ \A u \in Threads : pc[u] # "process"
  BY <1>6 DEF Working, Placed
<1>8. \A u \in Threads : ~Parked(u)
  BY DEF Working, Quiet, Over
<1>9. ASSUME NEW u \in Threads, pc[u] = "last" PROVE u = t
  <2>1. node[u] \in Ends
    BY <1>9 DEF Working, Ending, Ends, Unended, LastOf
  <2> QED
    BY <2>1, <1>2, <1>5, <1>9 DEF Working, Ending, LastOf
<1>10. ASSUME NEW u \in Threads, pc[u] = "trigger" PROVE todo[u] = {}
  BY <1>6, <1>10 DEF Working, Triggering, AwaitsTrigger
<1>11. ASSUME NEW u \in Threads, pc[u] = "finish", NEW m \in todo[u] PROVE FALSE
  <2>1. node[u] \in ran /\ m \in Active[node[u]] /\ Finishing(u, node[u], m)
    BY <1>11 DEF Working, Finishers, Finishing
  <2>2. m \in Nodes /\ DOMAIN Active = Nodes
    BY <2>1, <1>1, <1>6 DEF IsChain
  <2>3. node[u] \in Owed(m)
    BY <2>1, <2>2, <1>6 DEF Owed, Owes, Feeders
  <2> QED
    BY <2>2, <2>3, <1>6 DEF Working, Released
<1> QED
  BY <1>5, <1>6, <1>7, <1>8, <1>9, <1>10, <1>11

LEMMA CurrentIsProper ==
    ASSUME TypeOK, Sound
    PROVE  IsChain(chain[current]) /\ Proper(chain[current])
<1>1. current = 0 \/ current = 1
  BY DEF TypeOK
<1> QED
  BY <1>1 DEF TypeOK, Sound

LEMMA WorkingGraphDecRef ==
    ASSUME TypeOK, Sound, Working, NEW t \in Threads, GraphDecRef(t)
    PROVE  Working'
<1> DEFINE n == node[t]
           l == IF CycleDone THEN "cycleEnd" ELSE "run"
           E == Terminals(chain[current])
<1>1. /\ pc[t] = "last" /\ pc' = [pc EXCEPT ![t] = l] /\ finRef' = finRef - 1
      /\ node' = node /\ todo' = todo /\ queue' = queue /\ ran' = ran
      /\ chain' = chain /\ current' = current
      /\ graphEmpty' = graphEmpty /\ refcount' = refcount
  BY DEF GraphDecRef, Goto, chainVars
<1>2. Nodes' = Nodes /\ Active' = Active /\ Terminals(chain[current])' = E
  BY <1>1 DEF Nodes, Active
<1>3. \A u \in Threads : pc'[u] = IF u = t THEN l ELSE pc[u]
  BY <1>1 DEF TypeOK
<1>4. IsChain(chain[current]) /\ Proper(chain[current])
  BY CurrentIsProper
<1>5. n \in ran /\ n \in E /\ n \in Routes /\ LastOf(t, n)
  BY <1>1, <1>4 DEF Working, Ending, Terminals, LastOf, IsChain
<1>6. \A u \in Threads : ~Parked(u)
  BY <1>1 DEF Working, Quiet, Over
<1>7. CycleDone =>
        /\ Ends = {n} /\ ran = Nodes /\ queue = {}
        /\ \A u \in Threads : /\ pc[u] # "process" /\ (pc[u] = "last" => u = t)
                              /\ pc[u] \in {"trigger", "finish"} => todo[u] = {}
  <2> HIDE DEF l, E
  <2> QED
    BY <1>1, <1>4, LastEndIsTheEnd DEF CycleDone
<1>8. CycleDone => Over'
  BY <1>1, <1>2, <1>3, <1>7 DEF Over
<1>9. \A u \in Threads : Parked(u)' <=> u = t /\ CycleDone
  BY <1>3, <1>6 DEF Parked
<1> HIDE DEF n, E
<1>10. Baton'
  <2>1. ~CycleDone => \A u \in Threads : Holds(u)' => Holds(u)
    BY <1>1, <1>3, <1>9 DEF Holds
  <2>2. ASSUME CycleDone, NEW u \in Threads, Holds(u)' PROVE u = t
    <3>1. ~graphEmpty
      BY <1>5, <1>4 DEF Sound, Nodes, Terminals, E
    <3> QED
      BY <2>2, <3>1, <1>1, <1>3, <1>7, <1>9 DEF Holds
  <2> QED
    BY <2>1, <2>2 DEF Working, Baton
<1>11. Quiet'
  BY <1>8, <1>9 DEF Quiet
<1>12. Placed'
  BY <1>1, <1>2, <1>3 DEF Working, Placed
<1>13. Triggering'
  BY <1>1, <1>2, <1>3 DEF Working, Triggering, AwaitsTrigger, Processing
<1>14. \A u \in Threads : \A f, m : Finishing(u, f, m)' <=> Finishing(u, f, m)
  BY <1>1, <1>3 DEF Finishing
<1>15. \A m : Owed(m)' = Owed(m)
  BY <1>1, <1>2, <1>14 DEF Owed, Owes
<1>16. Counted'
  BY <1>1, <1>2, <1>15 DEF Working, Counted
<1>17. Finishers'
  BY <1>1, <1>2, <1>3, <1>14 DEF Working, Finishers
<1>18. Released'
  BY <1>1, <1>3, <1>15 DEF Working, Released
<1>19. Ending'
  <2>1. \A u \in Threads : \A m : LastOf(u, m)' <=> LastOf(u, m) /\ u # t
    BY <1>1, <1>3 DEF LastOf
  <2>2. \A m : LastOf(t, m) <=> m = n
    BY <1>1 DEF LastOf, n
  <2>3. \A u \in Threads : LastOf(u, n) => u = t
    BY <1>5 DEF Working, Ending
  <2>4. \A m : Unended(m)' <=> Unended(m) /\ m # n
    BY <1>1, <1>5, <2>1, <2>2, <2>3 DEF Unended
  <2>5. Ends' = Ends \ {n}
    BY <1>2, <2>4 DEF Ends, E
  <2>6. IsFiniteSet(Ends) /\ n \in Ends
    BY <1>4, <1>5, OwedIsFinite DEF Ends, Terminals, Unended, E
  <2>7. Cardinality(Ends') = Cardinality(Ends) - 1
    BY <2>5, <2>6, FS_RemoveElement
  <2>8. finRef' = Cardinality(Ends')
    BY <1>1, <2>7 DEF Working, Ending
  <2>9. \A u \in Threads : pc'[u] = "last" => node'[u] \in ran' /\ node'[u] \in E
    BY <1>1, <1>3 DEF Working, Ending, E
  <2>10. \A u, v \in Threads : \A m \in Routes :
            LastOf(u, m)' /\ LastOf(v, m)' => u = v
    BY <2>1 DEF Working, Ending
  <2> QED
    BY <1>2, <2>8, <2>9, <2>10 DEF Ending
<1> QED
  BY <1>10, <1>11, <1>12, <1>13, <1>16, <1>17, <1>18, <1>19 DEF Working

(* prep finds everything at rest and sets the counts of the new cycle.     *)
LEMMA PrepState ==
    ASSUME TypeOK, Sound, NEW t \in Threads, Prep(t)
    PROVE  /\ chain' = chain /\ current' \in 0..1
           /\ IsChain(chain[current']) /\ Proper(chain[current'])
           /\ graphEmpty' = (chain[current'].nodes = {})
           /\ graphEmpty' => graphEmpty
           /\ pending = current' \/ current' = current
<1>1. /\ chain' = chain
      /\ pending = current' \/ current' = current
  BY DEF Prep, chainVars
<1>2. current' = 0 \/ current' = 1
  BY <1>1 DEF TypeOK, Prep
<1>3. IsChain(chain[current']) /\ Proper(chain[current'])
  BY <1>2 DEF TypeOK, Sound
<1>4. graphEmpty' = (chain[current'].nodes = {})
  BY DEF Prep
<1>5. graphEmpty' => graphEmpty
  BY <1>4 DEF Prep, Swaps, Sound, Nodes
<1> QED
  BY <1>1, <1>2, <1>3, <1>4, <1>5 DEF Prep, chainVars

LEMMA WorkingPrep ==
    ASSUME TypeOK, Sound, Working, NEW t \in Threads, Prep(t)
    PROVE  Working'
<1> DEFINE c == chain[current']
<1>1. /\ pc[t] = "prep" /\ pc' = [pc EXCEPT ![t] = "trigger"] /\ ran' = {}
      /\ todo' = [todo EXCEPT ![t] = c.trig] /\ finRef' = c.fin
      /\ node' = node /\ queue' = queue
  BY DEF Prep, Goto
<1>2. refcount' = [r \in Routes |-> IF r \in c.nodes THEN c.refs[r] ELSE refcount[r]]
  BY DEF Prep
<1>3. /\ chain' = chain /\ IsChain(c) /\ Proper(c)
      /\ graphEmpty' => graphEmpty
  BY PrepState
<1>4. Nodes' = c.nodes /\ Active' = c.act /\ Terminals(chain[current])' = Terminals(c)
  BY <1>3 DEF Nodes, Active
<1>5. \A u \in Threads : /\ pc'[u] = IF u = t THEN "trigger" ELSE pc[u]
                         /\ todo'[u] = IF u = t THEN c.trig ELSE todo[u]
  BY <1>1 DEF TypeOK
<1> HIDE DEF c
<1>6. Holds(t) /\ Over
  BY <1>1 DEF Holds, Parked, Working, Quiet
<1>7. \A u \in Threads : u # t => ~Holds(u)
  BY <1>6 DEF Working, Baton
<1>8. \A u \in Threads : u # t => ~Holds(u)'
  BY <1>3, <1>5, <1>7 DEF Holds, Parked
<1>9. \A u \in Threads : ~Parked(u)'
  BY <1>5, <1>8 DEF Holds, Parked
<1>10. Baton' /\ Quiet'
  BY <1>8, <1>9 DEF Baton, Quiet
<1>11. /\ queue' = {}
       /\ \A u \in Threads : /\ pc'[u] \notin {"process", "last"}
                             /\ pc'[u] = "finish" => todo'[u] = {}
  BY <1>1, <1>5, <1>6 DEF Over
<1>12. Placed'
  BY <1>1, <1>11 DEF Placed
<1>13. Triggering'
  <2>1. \A u \in Threads : pc'[u] = "trigger" /\ u # t => todo'[u] = {}
    BY <1>5, <1>6 DEF Over
  <2>2. ASSUME NEW n \in c.trig PROVE AwaitsTrigger(n)'
    <3>1. n \in c.nodes /\ Feeders(c.act, n) = {}
      BY <1>3 DEF Proper, IsChain
    <3> QED
      BY <3>1, <1>1, <1>4, <1>11 DEF AwaitsTrigger, Processing
  <2> QED
    BY <2>1, <2>2, <1>5 DEF Triggering
<1>14. Counted'
  <2> SUFFICES ASSUME NEW m \in c.nodes PROVE refcount'[m] = Cardinality(Owed(m)')
    BY <1>4 DEF Counted
  <2>1. m \in Routes /\ c.refs[m] = Cardinality(Feeders(c.act, m))
    BY <1>3 DEF Proper, IsChain
  <2>2. Owed(m)' = Feeders(c.act, m)
    BY <1>1, <1>4 DEF Owed, Owes
  <2> QED
    BY <2>1, <2>2, <1>2
<1>15. Finishers' /\ Released'
  BY <1>1, <1>11 DEF Finishers, Released, Finishing
<1>16. Ending'
  <2>1. Ends' = Terminals(c)
    BY <1>1, <1>4 DEF Ends, Unended
  <2>2. finRef' = Cardinality(Ends')
    BY <2>1, <1>1, <1>3 DEF Proper
  <2> QED
    BY <2>2, <1>11 DEF Ending, LastOf
<1> QED
  BY <1>10, <1>12, <1>13, <1>14, <1>15, <1>16 DEF Working

(* An empty cycle is over as soon as it is prepared.                       *)
LEMMA EmptyIsOver ==
    ASSUME TypeOK, Sound, Working, graphEmpty
    PROVE  Over
<1>1. Nodes = {}
  BY DEF Sound
<1>2. queue = {} /\ ran = Nodes
  BY <1>1 DEF Working, Placed
<1>3. ASSUME NEW u \in Threads
      PROVE  /\ pc[u] \notin {"process", "last"}
             /\ pc[u] \in {"trigger", "finish"} => todo[u] = {}
  BY <1>1, <1>2 DEF Working, Placed, Ending, Triggering, AwaitsTrigger, Finishers
<1> QED
  BY <1>2, <1>3 DEF Over

LEMMA WorkingThread ==
    ASSUME TypeOK, Sound, Working, NEW t \in Threads, Thread(t)
    PROVE  Working'
<1> USE DEF chainVars, cycleVars, semVars
<1>1. CASE StartCycle(t)
  <2> DEFINE l == IF pc[t] = "wait" /\ quit THEN "run" ELSE "prep"
  <2>1. pc' = [pc EXCEPT ![t] = l] /\ l \in PCs /\ Parked(t) /\ Over
    BY <1>1 DEF StartCycle, Goto, PCs, Parked, Working, Quiet
  <2> HIDE DEF l
  <2>2. l \in {"run", "prep"} /\ Holds(t)
    BY <2>1 DEF l, Holds
  <2> QED
    BY <1>1, <2>1, <2>2, WorkingMoves DEF StartCycle
<1>2. CASE Prep(t)
  BY <1>2, WorkingPrep
<1>3. CASE Trigger(t)
  BY <1>3, WorkingTrigger
<1>4. CASE EndPrep(t)
  <2>1. CASE graphEmpty /\ ~(InMainLoop(t) /\ quit)
    <3> DEFINE l == IF InMainLoop(t) THEN "first" ELSE "wait"
    <3>1. pc' = [pc EXCEPT ![t] = l] /\ l \in PCs /\ Over /\ Holds(t)
      BY <1>4, <2>1, EmptyIsOver DEF EndPrep, Goto, PCs, Holds
    <3> HIDE DEF l
    <3>2. l \in {"first", "wait"}
      BY DEF l
    <3> QED
      BY <1>4, <3>1, <3>2, WorkingMoves DEF EndPrep
  <2>2. CASE ~(graphEmpty /\ ~(InMainLoop(t) /\ quit))
    <3>1. pc' = [pc EXCEPT ![t] = "run"] /\ "run" \in PCs
      BY <1>4, <2>2 DEF EndPrep, Goto, PCs
    <3>2. ~Holds(t)' /\ ~Parked(t)'
      BY <3>1 DEF Holds, Parked, TypeOK
    <3> QED
      BY <1>4, <3>1, <3>2, WorkingMoves DEF EndPrep
  <2> QED
    BY <2>1, <2>2
<1>5. CASE TakeAndWake(t)
  BY <1>5, WorkingTakes DEF TakeAndWake, Goto
<1>6. CASE GoToSleep(t)
  <2>1. pc' = [pc EXCEPT ![t] = "sleep"] /\ "sleep" \in PCs
    BY <1>6 DEF GoToSleep, Goto, PCs
  <2>2. ~Holds(t)' /\ ~Parked(t)'
    BY <2>1 DEF Holds, Parked, TypeOK
  <2> QED
    BY <1>6, <2>1, <2>2, WorkingMoves DEF GoToSleep, MaySleep
<1>7. CASE WakeUp(t)
  <2> DEFINE l == IF quit THEN "exit" ELSE "woken"
  <2>1. pc' = [pc EXCEPT ![t] = l] /\ l \in PCs
    BY <1>7 DEF WakeUp, Goto, PCs
  <2>2. l \in {"exit", "woken"}
    OBVIOUS
  <2> HIDE DEF l
  <2>3. ~Holds(t)' /\ ~Parked(t)'
    BY <2>1, <2>2 DEF Holds, Parked, TypeOK
  <2> QED
    BY <1>7, <2>1, <2>2, <2>3, WorkingMoves DEF WakeUp
<1>8. CASE TakeWoken(t)
  BY <1>8, WorkingTakes DEF TakeWoken, Goto
<1>9. CASE Process(t)
  BY <1>9, WorkingProcess
<1>10. CASE DecRef(t)
  BY <1>10, WorkingDecRef
<1>11. CASE EndIteration(t)
  <2>1. pc' = [pc EXCEPT ![t] = "run"] /\ "run" \in PCs
    BY <1>11 DEF EndIteration, Goto, PCs
  <2>2. ~Holds(t)' /\ ~Parked(t)'
    BY <2>1 DEF Holds, Parked, TypeOK
  <2> QED
    BY <1>11, <2>1, <2>2, WorkingMoves DEF EndIteration
<1>12. CASE GraphDecRef(t)
  BY <1>12, WorkingGraphDecRef
<1>13. CASE CycleEnd(t)
  <2>1. pc' = [pc EXCEPT ![t] = "wait"] /\ "wait" \in PCs
    BY <1>13 DEF CycleEnd, Goto, PCs
  <2>2. Holds(t) /\ Over
    BY <1>13 DEF CycleEnd, Holds, Parked, Working, Quiet
  <2> QED
    BY <1>13, <2>1, <2>2, WorkingMoves DEF CycleEnd
<1> QED
  BY <1>1, <1>2, <1>3, <1>4, <1>5, <1>6, <1>7, <1>8, <1>9, <1>10, <1>11,
     <1>12, <1>13 DEF Thread

-----------------------------------------------------------------------------
(* The chains and the semaphores.                                          *)

(* Steps that leave the chains, and which of them is current, alone.       *)
LEMMA SoundUntouched ==
    ASSUME Sound, UNCHANGED <<chain, current, setup, pending, graphEmpty>>
    PROVE  Sound'
BY DEF Sound, Nodes

LEMMA SoundThread ==
    ASSUME TypeOK, Sound, NEW t \in Threads, Thread(t)
    PROVE  Sound'
<1>1. CASE Prep(t)
  <2>1. /\ chain' = chain /\ graphEmpty' = (chain[current'].nodes = {})
        /\ pending' = pending
    BY <1>1, PrepState DEF Prep, chainVars
  <2>2. setup' # current' /\ (pending # current' => chain[pending].nodes # {})
    BY <1>1 DEF Prep, Swaps, Sound
  <2> QED
    BY <2>1, <2>2 DEF Sound, Nodes
<1>2. CASE ~Prep(t)
  <2>1. UNCHANGED <<chain, current, setup, pending, graphEmpty>>
    BY <1>2 DEF Thread, StartCycle, Trigger, EndPrep, TakeAndWake, GoToSleep,
       WakeUp, TakeWoken, Process, DecRef, EndIteration, GraphDecRef, CycleEnd,
       chainVars, cycleVars
  <2> QED
    BY <2>1, SoundUntouched
<1> QED
  BY <1>1, <1>2

LEMMA SoundEdit ==
    ASSUME OrdinaryLists, TypeOK, Sound, NEW e \in Editors, Edit(e)
    PROVE  Sound' /\ chain'[current'] = chain[current]
<1>1. /\ current \in 0..1 /\ setup \in 0..1 /\ pending \in 0..1
      /\ DOMAIN chain = 0..1 /\ setup # current
      /\ Proper(chain[0]) /\ Proper(chain[1])
      /\ (graphEmpty <=> chain[current].nodes = {})
  BY DEF TypeOK, Sound, Nodes
<1>2. CASE StartRechain(e) \/ StartClear(e) \/ Reacquire(e)
  <2>1. UNCHANGED <<chain, current, setup, pending, graphEmpty>>
    BY <1>2 DEF StartRechain, StartClear, Reacquire, Lock, chainVars, cycleVars
  <2> QED
    BY <2>1, SoundUntouched
<1>3. CASE Rechain(e)
  <2>1. PICK in \in RechainInputs :
            chain' = [chain EXCEPT ![setup] =
                         Rechained(in.order, in.feeds, in.fedBy)]
    BY <1>3 DEF Rechain, Target
  <2> DEFINE c == Rechained(in.order, in.feeds, in.fedBy)
  <2>2. Proper(c) /\ c.nodes # {}
    BY InputsAreProper
  <2>3. /\ pending' = setup /\ current' = current /\ setup' = setup
        /\ graphEmpty' = graphEmpty
    BY <1>3 DEF Rechain, Target, cycleVars
  <2> HIDE DEF c
  <2>4. chain' = [chain EXCEPT ![setup] = c]
    BY <2>1 DEF c
  <2>5. chain'[setup] = c /\ chain'[current] = chain[current]
    BY <1>1, <2>4
  <2>6. Proper(chain'[0]) /\ Proper(chain'[1])
    BY <1>1, <2>2, <2>5
  <2> QED
    BY <1>1, <2>2, <2>3, <2>5, <2>6 DEF Sound, Nodes
<1>4. CASE ClearOtherChain(e)
  <2>1. UNCHANGED <<current, setup, pending, graphEmpty>>
    BY <1>4 DEF ClearOtherChain, cycleVars
  <2>2. CASE setup # pending
    <3>1. chain' = [chain EXCEPT ![setup] = EmptyChain]
      BY <1>4, <2>2 DEF ClearOtherChain
    <3>2. chain'[setup] = EmptyChain /\ chain'[current] = chain[current]
      BY <1>1, <3>1
    <3>3. Proper(chain'[0]) /\ Proper(chain'[1])
      BY <1>1, <3>2, EmptyIsProper
    <3>4. pending = current
      BY <1>1, <2>2
    <3> QED
      BY <1>1, <2>1, <3>2, <3>3, <3>4 DEF Sound, Nodes
  <2>3. CASE setup = pending
    BY <1>4, <2>1, <2>3, SoundUntouched DEF ClearOtherChain
  <2> QED
    BY <2>2, <2>3
<1> QED
  BY <1>2, <1>3, <1>4 DEF Edit

LEMMA PairedThread ==
    ASSUME TypeOK, Working, Paired, NEW t \in Threads, Thread(t)
    PROVE  Paired'
<1>1. UNCHANGED <<engine, quit, life>>
  BY DEF Thread, StartCycle, Prep, Trigger, EndPrep, TakeAndWake, GoToSleep,
     WakeUp, TakeWoken, Process, DecRef, EndIteration, GraphDecRef, CycleEnd
<1>2. /\ startSem \in Nat /\ doneSem \in Nat /\ pc \in [Threads -> PCs]
      /\ engine \in {"idle", "waiting"}
  BY DEF TypeOK
<1>3. \A u \in Threads : u # t => (Blocked(u)' <=> Blocked(u))
  BY <1>2 DEF Thread, StartCycle, Prep, Trigger, EndPrep, TakeAndWake,
     GoToSleep, WakeUp, TakeWoken, Process, DecRef, EndIteration, GraphDecRef,
     CycleEnd, Goto, Blocked, threadVars
<1>4. ASSUME Holds(t), ~Blocked(t), Blocked(t)', life = "alive",
             startSem' = startSem, doneSem' = doneSem + 1
      PROVE  Paired'
  <2>1. \A u \in Threads : ~Blocked(u)
    BY <1>4 DEF Working, Baton, Holds, Parked, Blocked
  <2>2. engine = "waiting" /\ startSem + doneSem # 1 /\ startSem + doneSem <= 1
    BY <2>1, <1>2, <1>4 DEF Paired
  <2>3. startSem' + doneSem' = 1
    BY <2>2, <1>2, <1>4
  <2> QED
    BY <1>1, <1>4, <2>2, <2>3 DEF Paired
<1>5. CASE StartCycle(t)
  <2>1. /\ Blocked(t) /\ startSem > 0 /\ startSem' = startSem - 1
        /\ doneSem' = doneSem
    BY <1>5 DEF StartCycle, Blocked
  <2>2. ~Blocked(t)'
    BY <1>2, <1>5 DEF StartCycle, Blocked, Goto
  <2>3. \A u \in Threads : ~Blocked(u)'
    BY <1>3, <2>1, <2>2 DEF Working, Baton, Holds, Parked, Blocked
  <2>4. CASE life = "alive"
    <3>1. engine = "waiting" /\ startSem + doneSem = 1
      BY <2>1, <2>4, <1>2 DEF Paired
    <3>2. startSem' + doneSem' = 0
      BY <2>1, <3>1, <1>2
    <3> QED
      BY <1>1, <2>3, <2>4, <3>1, <3>2 DEF Paired
  <2>5. CASE life # "alive"
    BY <1>1, <2>5 DEF Paired
  <2> QED
    BY <2>4, <2>5
<1>6. CASE CycleEnd(t)
  <2>1. Holds(t) /\ ~Blocked(t) /\ Blocked(t)'
    BY <1>2, <1>6 DEF CycleEnd, Goto, Holds, Parked, Blocked
  <2>2. startSem' = startSem /\ doneSem' = doneSem + 1
    BY <1>6 DEF CycleEnd
  <2>3. life # "alive" => Paired'
    BY <1>1 DEF Paired
  <2> QED
    BY <1>4, <2>1, <2>2, <2>3
<1>7. CASE EndPrep(t) /\ graphEmpty /\ ~(InMainLoop(t) /\ quit)
  <2>1. Holds(t) /\ ~Blocked(t) /\ Blocked(t)'
    BY <1>2, <1>7 DEF EndPrep, Goto, Holds, Parked, Blocked
  <2>2. startSem' = startSem /\ doneSem' = doneSem + 1
    BY <1>7 DEF EndPrep
  <2>3. life # "alive" => Paired'
    BY <1>1 DEF Paired
  <2> QED
    BY <1>4, <2>1, <2>2, <2>3
<1>8. CASE /\ ~StartCycle(t) /\ ~CycleEnd(t)
           /\ ~(EndPrep(t) /\ graphEmpty /\ ~(InMainLoop(t) /\ quit))
  <2>1. UNCHANGED <<startSem, doneSem>>
    BY <1>8 DEF Thread, Prep, Trigger, EndPrep, TakeAndWake, GoToSleep,
       WakeUp, TakeWoken, Process, DecRef, EndIteration, GraphDecRef, semVars
  <2>2. ~Blocked(t) /\ ~Blocked(t)'
    BY <1>2, <1>8 DEF Thread, Prep, Trigger, EndPrep, TakeAndWake, GoToSleep,
       WakeUp, TakeWoken, Process, DecRef, EndIteration, GraphDecRef, Goto,
       Blocked, MaySleep
  <2> QED
    BY <1>1, <1>3, <2>1, <2>2 DEF Paired
<1> QED
  BY <1>5, <1>6, <1>7, <1>8

LEMMA PairedOthers ==
    ASSUME TypeOK, Paired,
           Engine \/ GoingAway \/ UNCHANGED vars \/ \E e \in Editors : Edit(e)
    PROVE  Paired'
<1>1. /\ startSem \in Nat /\ doneSem \in Nat /\ engine \in {"idle", "waiting"}
  BY DEF TypeOK
<1>2. \A u \in Threads : Blocked(u)' <=> Blocked(u)
  BY DEF Engine, CallCycle, CycleReturns, GoingAway, vars, Edit, StartRechain,
     StartClear, Reacquire, Lock, Rechain, ClearOtherChain, threadVars, Blocked
<1>3. ASSUME NEW m \in Modes, CallCycle(m) PROVE Paired'
  BY <1>1, <1>2, <1>3 DEF CallCycle, Paired
<1>4. CASE CycleReturns
  BY <1>1, <1>2, <1>4 DEF CycleReturns, Paired
<1>5. CASE GoingAway
  BY <1>5 DEF GoingAway, Paired
<1>6. CASE UNCHANGED vars \/ \E e \in Editors : Edit(e)
  <2>1. UNCHANGED <<engine, quit, life, startSem, doneSem>>
    BY <1>6 DEF vars, Edit, StartRechain, StartClear, Reacquire, Lock, Rechain,
       ClearOtherChain, semVars
  <2> QED
    BY <1>2, <2>1 DEF Paired
<1> QED
  BY <1>3, <1>4, <1>5, <1>6 DEF Engine

-----------------------------------------------------------------------------
(* The invariant holds.                                                    *)

LEMMA CycleInvInit == Init => IInv
<1> SUFFICES ASSUME Init PROVE IInv
  OBVIOUS
<1>1. TypeOK
  BY TypeInit
<1>2. /\ chain[0] = EmptyChain /\ chain[1] = EmptyChain
      /\ Nodes = {} /\ Proper(EmptyChain) /\ chain[current] = EmptyChain
  BY EmptyIsProper DEF Init, Nodes
<1>3. Sound
  BY <1>2 DEF Init, Sound
<1>4. \A t \in Threads : /\ pc[t] = IF t = Main THEN "first" ELSE "run"
                         /\ todo[t] = {}
  BY DEF Init
<1>5. \A t \in Threads : Holds(t) <=> t = Main
  BY <1>4 DEF Holds, Parked
<1>6. Over
  BY <1>2, <1>4 DEF Init, Over
<1>7. Baton /\ Quiet /\ Placed /\ Triggering /\ Counted /\ Finishers /\ Released
  BY <1>2, <1>4, <1>5, <1>6 DEF Init, Baton, Quiet, Placed, Triggering, Counted,
     Finishers, Released, Finishing
<1>8. Ending
  <2>1. Ends = {} /\ Cardinality(Ends) = 0
    BY <1>2, FS_EmptySet DEF Ends, Terminals, Nodes
  <2> QED
    BY <1>4, <2>1 DEF Init, Ending, LastOf
<1>9. Paired
  <2>1. Blocked(Main) /\ Main \in Threads
    BY <1>4 DEF Blocked, Threads
  <2> QED
    BY <2>1 DEF Init, Paired
<1> QED
  BY <1>1, <1>3, <1>7, <1>8, <1>9 DEF Init, IInv, CycleInv, Working

LEMMA CycleInvNext ==
    ASSUME OrdinaryLists, TypeOK, CycleInv,
           Cycling \/ GoingAway \/ UNCHANGED vars
    PROVE  CycleInv'
<1> USE DEF CycleInv
<1>1. ASSUME NEW t \in Threads, Thread(t) PROVE CycleInv'
  BY <1>1, WorkingThread, SoundThread, PairedThread
<1>2. ASSUME NEW e \in Editors, Edit(e) PROVE CycleInv'
  <2>1. UNCHANGED cycleState
    BY <1>2 DEF Edit, StartRechain, StartClear, Reacquire, Lock, Rechain,
       ClearOtherChain, threadVars, cycleVars, cycleState
  <2> QED
    BY <1>2, <2>1, SoundEdit, WorkingUntouched, PairedOthers
<1>3. CASE Engine \/ GoingAway \/ UNCHANGED vars
  <2>1. /\ UNCHANGED cycleState
        /\ UNCHANGED <<chain, current, setup, pending, graphEmpty>>
    BY <1>3 DEF Engine, CallCycle, CycleReturns, GoingAway, vars, chainVars,
       threadVars, cycleVars, cycleState
  <2> QED
    BY <1>3, <2>1, SoundUntouched, WorkingUntouched, PairedOthers
<1> QED
  BY <1>1, <1>2, <1>3 DEF Cycling

(* Once the threads are joined nothing moves but an editor.                *)
LEMMA EndedNext ==
    ASSUME TypeOK, life = "gone", Ended, [Next]_vars
    PROVE  Ended' /\ life' = "gone"
<1>1. ASSUME NEW t \in Threads, Thread(t) PROVE FALSE
  <2>1. pc[t] = "exit"
    BY DEF Ended
  <2> QED
    BY <1>1, <2>1 DEF Thread, StartCycle, Prep, Trigger, EndPrep, TakeAndWake,
       GoToSleep, MaySleep, WakeUp, TakeWoken, Process, DecRef, EndIteration,
       GraphDecRef, CycleEnd
<1>2. CASE \E e \in Editors : Edit(e)
  BY <1>2 DEF Ended, Edit, StartRechain, StartClear, Reacquire, Lock, Rechain,
     ClearOtherChain, threadVars
<1>3. CASE Engine \/ GoingAway \/ Joined \/ UNCHANGED vars
  BY <1>3 DEF Ended, Engine, CallCycle, CycleReturns, GoingAway, Joined, vars
<1> QED
  BY <1>1, <1>2, <1>3 DEF Next, Cycling

LEMMA IInvNext == ASSUME OrdinaryLists, IInv, [Next]_vars PROVE IInv'
<1>1. HasNode
  BY DEF IInv, Ended, HasNode, CycleInv, Working, Placed, Nodes
<1>2. TypeOK'
  BY <1>1, TypeNext DEF IInv
<1>3. CASE life = "gone"
  BY <1>2, <1>3, EndedNext DEF IInv
<1>4. CASE life # "gone" /\ Joined
  <2>1. quit /\ engine = "idle"
    BY <1>4 DEF IInv, TypeOK, CycleInv, Paired, Joined
  <2> QED
    BY <1>2, <1>4, <2>1 DEF IInv, Joined, Ended, threadVars
<1>5. CASE life # "gone" /\ ~Joined
  <2>1. CycleInv'
    BY <1>5, CycleInvNext DEF IInv, Next
  <2>2. life' # "gone"
    BY <1>5 DEF Next, Cycling, Engine, CallCycle, CycleReturns, Thread,
       StartCycle, Prep, Trigger, EndPrep, TakeAndWake, GoToSleep, WakeUp,
       TakeWoken, Process, DecRef, EndIteration, GraphDecRef, CycleEnd, Edit,
       StartRechain, StartClear, Reacquire, Lock, Rechain, ClearOtherChain,
       GoingAway, vars
  <2> QED
    BY <1>2, <2>1, <2>2 DEF IInv
<1> QED
  BY <1>3, <1>4, <1>5

LEMMA Invariance == OrdinaryLists => (Spec => []IInv)
<1> SUFFICES ASSUME OrdinaryLists PROVE Spec => []IInv
  OBVIOUS
<1>1. IInv /\ [Next]_vars => IInv'
  BY IInvNext
<1> QED
  BY <1>1, CycleInvInit, PTL DEF Spec

-----------------------------------------------------------------------------
(* What the invariant says of the properties of the runs.                  *)

LEMMA DoneMeansAllHolds == IInv => DoneMeansAll
<1> SUFFICES ASSUME IInv, engine = "waiting", doneSem > 0 PROVE Over
  BY DEF DoneMeansAll, Over, Nodes
<1>1. life # "gone"
  BY DEF IInv, Ended
<1>2. startSem + doneSem = 1 /\ life = "alive"
  BY <1>1 DEF IInv, TypeOK, CycleInv, Paired
<1>3. PICK t \in Threads : Blocked(t)
  BY <1>1, <1>2 DEF IInv, CycleInv, Paired
<1> QED
  BY <1>1, <1>3 DEF IInv, CycleInv, Working, Quiet, Parked, Blocked

(* The phase of a call in which a thread has left the queue of its cycle.  *)
LEMMA NobodyBlocked ==
    ASSUME IInv, life = "alive", \A t \in Threads : ~Blocked(t)
    PROVE  engine = "waiting" /\ startSem = 0 /\ doneSem = 0
BY DEF IInv, TypeOK, CycleInv, Paired

LEMMA RunsInsideCallHolds == IInv => RunsInsideCall
<1> SUFFICES ASSUME IInv, life = "alive", NEW t \in Threads, pc[t] = "process"
             PROVE  engine = "waiting" /\ doneSem = 0
  BY DEF RunsInsideCall
<1>1. \A u \in Threads : ~Blocked(u)
  BY DEF IInv, CycleInv, Working, Quiet, Over, Parked, Blocked
<1> QED
  BY <1>1, NobodyBlocked

LEMMA FeedersFirstHolds == IInv => FeedersFirst
<1> SUFFICES ASSUME IInv, NEW t \in Threads, pc[t] = "process"
             PROVE  Feeders(Active, node[t]) \subseteq ran
  BY DEF FeedersFirst
<1>1. Owed(node[t]) = {}
  BY DEF IInv, Ended, CycleInv, Working, Released
<1> QED
  BY <1>1 DEF Owed, Owes

LEMMA RunsOnceHolds == IInv => RunsOnce
BY DEF IInv, Ended, CycleInv, Working, Placed, RunsOnce, Processing

(* The types of the graph are kept, in any session without routes that     *)
(* feed themselves and without empty lists.                                *)
THEOREM TypeCorrect == OrdinaryLists => (Spec => []TypeOK)
BY Invariance, PTL DEF IInv

(* Every route is processed after all routes that feed it, in any order    *)
(* the threads may run, for every chain, through switches of the chains    *)
(* and through the end of the graph.                                       *)
THEOREM InputsAreReady == OrdinaryLists => (Spec => []FeedersFirst)
BY Invariance, FeedersFirstHolds, PTL

(* No route is processed twice in a cycle, or by two threads.              *)
THEOREM RoutesRunOnce == OrdinaryLists => (Spec => []RunsOnce)
BY Invariance, RunsOnceHolds, PTL

(* When process_routes may return all the routes of the cycle have run.    *)
THEOREM ReturnsComplete == OrdinaryLists => (Spec => []DoneMeansAll)
BY Invariance, DoneMeansAllHolds, PTL

(* The routes run only while the engine thread waits in its call.          *)
THEOREM RunsOnlyInCalls == OrdinaryLists => (Spec => []RunsInsideCall)
BY Invariance, RunsInsideCallHolds, PTL

(* No start and no end of a cycle is left over for a later call.           *)
THEOREM CallsArePaired == OrdinaryLists => (Spec => []OneCycleAtATime)
<1>1. IInv => OneCycleAtATime
  BY DEF IInv, CycleInv, Paired, OneCycleAtATime
<1> QED
  BY <1>1, Invariance, PTL

-----------------------------------------------------------------------------
(* The iterations of GraphNode::finish.                                    *)

(* A thread with routes left to notify iterates over a set of the running  *)
(* chain.                                                                  *)
IteratesCurrent == \A t \in Threads : Notifying(t) => iter[t] = current

(* It keeps the cycle from ending, hence the next one from being prepared. *)
LEMMA PreparedByOne ==
    ASSUME IInv, NEW t \in Threads, Prep(t)
    PROVE  \A u \in Threads : ~Notifying(u)
<1>1. Parked(t) /\ pc[t] # "exit"
  BY DEF Prep, Parked
<1>2. Over
  BY <1>1 DEF IInv, Ended, CycleInv, Working, Quiet
<1> QED
  BY <1>2 DEF Over, Notifying

LEMMA IterationThread ==
    ASSUME IInv, IteratesCurrent, NEW t \in Threads, Thread(t)
    PROVE  /\ \A u \in Threads : Notifying(u) => current' = current /\ iter'[u] = iter[u]
           /\ IteratesCurrent'
<1>1. /\ pc \in [Threads -> PCs] /\ todo \in [Threads -> SUBSET Routes]
      /\ iter \in [Threads -> {0, 1, NoIterator, Freed}]
  BY DEF IInv, TypeOK
<1>2. CASE Prep(t)
  <2>1. \A u \in Threads : ~Notifying(u)
    BY <1>2, PreparedByOne
  <2>2. \A u \in Threads : ~Notifying(u)'
    BY <1>1, <1>2, <2>1 DEF Prep, Goto, Notifying
  <2> QED
    BY <2>1, <2>2 DEF IteratesCurrent
<1>3. CASE Process(t)
  <2>1. /\ current' = current /\ pc[t] = "process"
        /\ iter' = [iter EXCEPT ![t] = IF chain[current].act[node[t]] = {}
                                       THEN NoIterator ELSE current]
        /\ todo' = [todo EXCEPT ![t] = chain[current].act[node[t]]]
    BY <1>3 DEF Process
  <2>2. \A u \in Threads \ {t} : (Notifying(u)' <=> Notifying(u)) /\ iter'[u] = iter[u]
    BY <1>1, <1>3, <2>1 DEF Process, Goto, Notifying
  <2>3. ~Notifying(t) /\ (Notifying(t)' => iter'[t] = current')
    BY <1>1, <2>1 DEF Notifying
  <2> QED
    BY <2>1, <2>2, <2>3 DEF IteratesCurrent
<1>4. CASE EndIteration(t)
  <2>1. /\ current' = current /\ todo[t] = {} /\ todo' = todo
        /\ iter' = [iter EXCEPT ![t] = NoIterator]
    BY <1>4 DEF EndIteration, cycleVars
  <2>2. \A u \in Threads \ {t} : (Notifying(u)' <=> Notifying(u)) /\ iter'[u] = iter[u]
    BY <1>1, <1>4, <2>1 DEF EndIteration, Goto, Notifying
  <2>3. ~Notifying(t) /\ ~Notifying(t)'
    BY <2>1 DEF Notifying
  <2> QED
    BY <2>1, <2>2, <2>3 DEF IteratesCurrent
<1>5. CASE ~Prep(t) /\ ~Process(t) /\ ~EndIteration(t)
  <2>1. current' = current /\ iter' = iter
    BY <1>5 DEF Thread, StartCycle, Trigger, EndPrep, TakeAndWake, GoToSleep,
       WakeUp, TakeWoken, DecRef, GraphDecRef, CycleEnd, cycleVars, threadVars
  <2>2. \A u \in Threads : Notifying(u)' => Notifying(u)
    BY <1>1, <1>5 DEF Thread, StartCycle, Trigger, EndPrep, TakeAndWake,
       GoToSleep, WakeUp, TakeWoken, DecRef, GraphDecRef, CycleEnd, Goto,
       Notifying, threadVars
  <2> QED
    BY <2>1, <2>2 DEF IteratesCurrent
<1> QED
  BY <1>2, <1>3, <1>4, <1>5

LEMMA IterationEdit ==
    ASSUME IInv, IteratesCurrent, NEW e \in Editors, Edit(e)
    PROVE  /\ \A u \in Threads : Notifying(u) => current' = current /\ iter'[u] = iter[u]
           /\ IteratesCurrent'
<1>1. current' = current /\ pc' = pc /\ todo' = todo
  BY DEF Edit, StartRechain, StartClear, Reacquire, Lock, Rechain,
     ClearOtherChain, cycleVars, threadVars
<1>2. \A u \in Threads : Notifying(u) => setup # iter[u]
  <2>1. life = "gone" => \A u \in Threads : ~Notifying(u)
    BY DEF IInv, Ended, Notifying
  <2>2. life # "gone" => setup # current
    BY DEF IInv, CycleInv, Sound
  <2> QED
    BY <2>1, <2>2 DEF IteratesCurrent
<1>3. ASSUME FreeIterators(setup), NEW u \in Threads, Notifying(u)
      PROVE  iter'[u] = iter[u]
  BY <1>2, <1>3 DEF FreeIterators
<1>4. \A u \in Threads : Notifying(u) => iter'[u] = iter[u]
  BY <1>3 DEF Edit, StartRechain, StartClear, Reacquire, Lock, Rechain,
     ClearOtherChain, Target, threadVars
<1>5. \A u \in Threads : Notifying(u)' <=> Notifying(u)
  BY <1>1 DEF Notifying
<1> QED
  BY <1>1, <1>4, <1>5 DEF IteratesCurrent

LEMMA IterationOthers ==
    ASSUME IteratesCurrent, Engine \/ GoingAway \/ Joined \/ UNCHANGED vars
    PROVE  /\ \A u \in Threads : Notifying(u) => current' = current /\ iter'[u] = iter[u]
           /\ IteratesCurrent'
<1>1. UNCHANGED <<current, pc, todo, iter>>
  BY DEF Engine, CallCycle, CycleReturns, GoingAway, Joined, vars, cycleVars,
     threadVars
<1> QED
  BY <1>1 DEF IteratesCurrent, Notifying

(* The chain in use is not written to, and while a thread notifies the     *)
(* routes fed by the one it has run, no other thread switches chains and   *)
(* no edit reaches the set it iterates over.                               *)
THEOREM IterationsUndisturbed == OrdinaryLists => (Spec => RunningChainStable)
<1> SUFFICES ASSUME OrdinaryLists PROVE Spec => RunningChainStable
  OBVIOUS
<1>1. Init => IteratesCurrent
  BY DEF Init, IteratesCurrent, Notifying
<1>2. IInv /\ IteratesCurrent /\ [Next]_vars =>
        /\ IteratesCurrent'
        /\ \A u \in Threads : Notifying(u) => current' = current /\ iter'[u] = iter[u]
  BY IterationThread, IterationEdit, IterationOthers DEF Next, Cycling
<1>3. Spec => []IInv
  BY Invariance
<1>4. [ /\ setup' # current'
        /\ chain'[current] = chain[current] \/ life' = "gone" ]_vars
      /\ IInv /\ IteratesCurrent /\ [Next]_vars
      => [ /\ setup' # current'
           /\ chain'[current] = chain[current] \/ life' = "gone"
           /\ \A t \in Threads : Notifying(t) => current' = current /\ iter'[t] = iter[t]
         ]_vars
  BY <1>2
<1> QED
  BY <1>1, <1>2, <1>3, <1>4, RunningChainUntouched, PTL DEF Spec, RunningChainStable

-----------------------------------------------------------------------------
(* Sleepers.                                                               *)

Asleep == {t \in Threads : pc[t] = "sleep"}

LEMMA AsleepIsFinite == IsFiniteSet(Asleep) /\ Cardinality(Asleep) \in Nat
<1>1. IsFiniteSet(Threads)
  BY ThreadAssumption, FS_Singleton, FS_Union DEF Threads
<1> QED
  BY <1>1, FS_Subset, FS_CardinalityType DEF Asleep

(* Threads go to sleep and wake up one by one, and whoever takes a route   *)
(* turns tokens into posts of the semaphore.                               *)
LEMMA SleepersThread ==
    ASSUME TypeOK, TokensCountSleepers, NEW t \in Threads, Thread(t)
    PROVE  TokensCountSleepers'
<1>1. /\ tokens \in Nat /\ execSem \in Nat /\ pc \in [Threads -> PCs]
      /\ (~quit => tokens + execSem = Cardinality(Asleep))
  BY DEF TypeOK, TokensCountSleepers, Asleep
<1>2. quit' = quit
  BY DEF Thread, StartCycle, Prep, Trigger, EndPrep, TakeAndWake, GoToSleep,
     WakeUp, TakeWoken, Process, DecRef, EndIteration, GraphDecRef, CycleEnd
<1> SUFFICES ~quit => tokens' + execSem' = Cardinality(Asleep')
  BY <1>2 DEF TokensCountSleepers, Asleep
<1>3. CASE GoToSleep(t)
  <2>1. pc' = [pc EXCEPT ![t] = "sleep"] /\ pc[t] # "sleep"
    BY <1>3 DEF GoToSleep, MaySleep, Goto
  <2>2. Asleep' = Asleep \cup {t} /\ t \notin Asleep
    BY <1>1, <2>1 DEF Asleep
  <2>3. Cardinality(Asleep') = Cardinality(Asleep) + 1
    BY <2>2, AsleepIsFinite, FS_AddElement
  <2>4. tokens' = tokens + 1 /\ execSem' = execSem
    BY <1>3 DEF GoToSleep, Sleepers, semVars
  <2> QED
    BY <1>1, <2>3, <2>4
<1>4. CASE WakeUp(t)
  <2> DEFINE l == IF quit THEN "exit" ELSE "woken"
  <2>1. pc' = [pc EXCEPT ![t] = l] /\ pc[t] = "sleep" /\ l # "sleep"
    BY <1>4 DEF WakeUp, Goto
  <2> HIDE DEF l
  <2>2. Asleep' = Asleep \ {t} /\ t \in Asleep
    BY <1>1, <2>1 DEF Asleep
  <2>3. Cardinality(Asleep') = Cardinality(Asleep) - 1
    BY <2>2, AsleepIsFinite, FS_RemoveElement
  <2>4. tokens' = tokens /\ execSem' = execSem - 1
    BY <1>4 DEF WakeUp
  <2> QED
    BY <1>1, <2>3, <2>4, AsleepIsFinite
<1>5. CASE ~GoToSleep(t) /\ ~WakeUp(t)
  <2>1. Asleep' = Asleep
    <3>1. \A u \in Threads : u # t => pc'[u] = pc[u]
      BY <1>1, <1>5 DEF Thread, StartCycle, Prep, Trigger, EndPrep,
         TakeAndWake, TakeWoken, Process, DecRef, EndIteration, GraphDecRef,
         CycleEnd, Goto, threadVars
    <3>2. pc[t] # "sleep" /\ pc'[t] # "sleep"
      BY <1>1, <1>5 DEF Thread, StartCycle, Prep, Trigger, EndPrep,
         TakeAndWake, TakeWoken, Process, DecRef, EndIteration, GraphDecRef,
         CycleEnd, Goto, threadVars
    <3> QED
      BY <3>1, <3>2 DEF Asleep
  <2>2. CASE TakeAndWake(t)
    <3>1. PICK n \in queue : queue' = queue \ {n}
      BY <2>2 DEF TakeAndWake
    <3>2. Cardinality(queue') \in Nat
      BY <3>1, RouteAssumption, FS_Subset, FS_CardinalityType DEF TypeOK
    <3>3. Least(tokens, Cardinality(queue')) \in Nat
      BY <1>1, <3>2 DEF Least
    <3>4. tokens' + execSem' = tokens + execSem
      BY <1>1, <2>2, <3>3 DEF TakeAndWake
    <3> QED
      BY <1>1, <2>1, <3>4
  <2>3. CASE ~TakeAndWake(t)
    <3>1. UNCHANGED <<tokens, execSem>>
      BY <1>5, <2>3 DEF Thread, StartCycle, Prep, Trigger, EndPrep,
         TakeWoken, Process, DecRef, EndIteration, GraphDecRef, CycleEnd, semVars
    <3> QED
      BY <1>1, <2>1, <3>1
  <2> QED
    BY <2>2, <2>3
<1> QED
  BY <1>3, <1>4, <1>5

LEMMA SleepersNext ==
    ASSUME TypeOK, TokensCountSleepers, [Next]_vars
    PROVE  TokensCountSleepers'
<1>1. ASSUME NEW t \in Threads, Thread(t) PROVE TokensCountSleepers'
  BY <1>1, SleepersThread
<1>2. CASE Engine \/ Joined \/ UNCHANGED vars \/ \E e \in Editors : Edit(e)
  <2>1. UNCHANGED <<quit, tokens, execSem, pc>>
    BY <1>2 DEF Engine, CallCycle, CycleReturns, Joined, vars, Edit,
       StartRechain, StartClear, Reacquire, Lock, Rechain, ClearOtherChain,
       threadVars, semVars
  <2> QED
    BY <2>1 DEF TokensCountSleepers
<1>3. CASE GoingAway
  BY <1>3 DEF GoingAway, TokensCountSleepers
<1> QED
  BY <1>1, <1>2, <1>3 DEF Next, Cycling

(* _execution_tokens never over- or undercounts the sleepers.              *)
THEOREM SleepersCounted == OrdinaryLists => (Spec => []TokensCountSleepers)
<1> SUFFICES ASSUME OrdinaryLists PROVE Spec => []TokensCountSleepers
  OBVIOUS
<1>1. Init => TokensCountSleepers
  <2> SUFFICES ASSUME Init PROVE TokensCountSleepers
    OBVIOUS
  <2>1. Asleep = {}
    BY DEF Init, Asleep
  <2>2. Cardinality(Asleep) = 0
    BY <2>1, FS_EmptySet
  <2>3. tokens + execSem = 0
    BY DEF Init
  <2> QED
    BY <2>2, <2>3 DEF TokensCountSleepers, Asleep
<1>2. TypeOK /\ TokensCountSleepers /\ [Next]_vars => TokensCountSleepers'
  BY SleepersNext
<1> QED
  BY <1>1, <1>2, TypeCorrect, PTL DEF Spec

Awake(t) == pc[t] \in {"trigger", "run", "woken", "process", "finish", "last"}

LEMMA QueueWatched ==
    ASSUME IInv, IInv', NoLostWakeup, [Next]_vars
    PROVE  NoLostWakeup'
<1> SUFFICES queue' # {} => \E t \in Threads : Awake(t)'
  BY DEF NoLostWakeup, Awake
<1>1. queue # {} => \E t \in Threads : Awake(t)
  BY DEF NoLostWakeup, Awake
<1>2. pc \in [Threads -> PCs]
  BY DEF IInv, TypeOK
<1>3. \A t \in Threads : Parked(t)' => queue' = {}
  BY DEF IInv, Ended, CycleInv, Working, Quiet, Over
<1>4. ASSUME NEW t \in Threads, Thread(t)
      PROVE  queue' # {} => \E u \in Threads : Awake(u)'
  <2>1. CASE WakeUp(t)
    <3>1. queue' = queue /\ pc[t] = "sleep" /\ \A u \in Threads \ {t} : pc'[u] = pc[u]
      BY <1>2, <2>1 DEF WakeUp, Goto
    <3> QED
      BY <1>1, <3>1 DEF Awake
  <2>2. CASE GoToSleep(t)
    BY <2>2 DEF GoToSleep, MaySleep
  <2>3. CASE ~WakeUp(t) /\ ~GoToSleep(t)
    <3>1. Awake(t)' \/ Parked(t)'
      BY <1>2, <1>4, <2>3 DEF Thread, StartCycle, Prep, Trigger, EndPrep,
         TakeAndWake, TakeWoken, Process, DecRef, EndIteration, GraphDecRef,
         CycleEnd, Goto, threadVars, Awake, Parked
    <3> QED
      BY <1>3, <3>1
  <2> QED
    BY <2>1, <2>2, <2>3
<1>5. CASE Engine \/ GoingAway \/ UNCHANGED vars \/ \E e \in Editors : Edit(e)
  <2>1. UNCHANGED <<queue, pc>>
    BY <1>5 DEF Engine, CallCycle, CycleReturns, GoingAway, vars, Edit,
       StartRechain, StartClear, Reacquire, Lock, Rechain, ClearOtherChain,
       threadVars
  <2> QED
    BY <1>1, <2>1 DEF Awake
<1>6. CASE Joined
  BY <1>6 DEF Joined
<1> QED
  BY <1>4, <1>5, <1>6 DEF Next, Cycling

(* While a route is triggered, some thread is awake and will look at the   *)
(* queue: no wake-up is lost between the last look and going to sleep.     *)
THEOREM WakeupsKept == OrdinaryLists => (Spec => []NoLostWakeup)
<1> SUFFICES ASSUME OrdinaryLists PROVE Spec => []NoLostWakeup
  OBVIOUS
<1>1. Init => NoLostWakeup
  BY DEF Init, NoLostWakeup
<1>2. IInv /\ IInv' /\ NoLostWakeup /\ [Next]_vars => NoLostWakeup'
  BY QueueWatched
<1> QED
  BY <1>1, <1>2, Invariance, PTL DEF Spec

-----------------------------------------------------------------------------
(* The graph implements RouteCycle.                                        *)

LEMMA CyclingIsNext == CyclingSpec => Spec
<1>1. [Cycling]_vars => [Next]_vars
  BY DEF Next
<1> QED
  BY <1>1, PTL DEF CyclingSpec, Spec

(* While the graph cycles nobody asks the threads to exit.                 *)
Alive == life = "alive"

LEMMA AliveNext == Alive /\ [Cycling]_vars => Alive'
BY DEF Alive, Cycling, Engine, CallCycle, CycleReturns, Thread, StartCycle, Prep,
   Trigger, EndPrep, TakeAndWake, GoToSleep, WakeUp, TakeWoken, Process, DecRef,
   EndIteration, GraphDecRef, CycleEnd, Edit, StartRechain, StartClear,
   Reacquire, Lock, Rechain, ClearOtherChain, vars

(* The chains a call may run: what rechain has built, or the empty one.    *)
Built == {EmptyChain} \cup
            {Rechained(in.order, in.feeds, in.fedBy) : in \in RechainInputs}
BothBuilt == chain[0] \in Built /\ chain[1] \in Built

LEMMA BuiltNext == BothBuilt /\ TypeOK /\ [Cycling]_vars => BothBuilt'
<1> SUFFICES ASSUME BothBuilt, TypeOK, [Cycling]_vars PROVE BothBuilt'
  OBVIOUS
<1>1. ASSUME NEW c \in Built, NEW i \in 0..1, chain' = [chain EXCEPT ![i] = c]
      PROVE  BothBuilt'
  <2>1. DOMAIN chain = 0..1
    BY DEF TypeOK
  <2> QED
    BY <1>1, <2>1 DEF BothBuilt
<1>2. ASSUME NEW e \in Editors, Rechain(e) PROVE BothBuilt'
  <2>1. PICK in \in RechainInputs :
            chain' = [chain EXCEPT ![setup] =
                         Rechained(in.order, in.feeds, in.fedBy)]
    BY <1>2 DEF Rechain, Target
  <2>2. Rechained(in.order, in.feeds, in.fedBy) \in Built
    BY DEF Built
  <2> QED
    BY <1>1, <2>1, <2>2 DEF TypeOK
<1>3. ASSUME NEW e \in Editors, ClearOtherChain(e), setup # pending
      PROVE  BothBuilt'
  <2>1. EmptyChain \in Built /\ setup \in 0..1
    BY DEF Built, TypeOK
  <2> QED
    BY <1>1, <1>3, <2>1 DEF ClearOtherChain
<1>4. CASE /\ \A e \in Editors : ~Rechain(e)
           /\ \A e \in Editors : ~(ClearOtherChain(e) /\ setup # pending)
  <2>1. chain' = chain
    BY <1>4 DEF Cycling, Engine, CallCycle, CycleReturns, Thread,
       StartCycle, Prep, Trigger, EndPrep, TakeAndWake, GoToSleep, WakeUp,
       TakeWoken, Process, DecRef, EndIteration, GraphDecRef, CycleEnd, Edit,
       StartRechain, StartClear, Reacquire, Lock, ClearOtherChain, vars,
       chainVars
  <2> QED
    BY <2>1 DEF BothBuilt
<1> QED
  BY <1>2, <1>3, <1>4

(* When the baton is not with a thread that is blocked between calls, a    *)
(* call is under way and has neither been left unasked nor been answered.  *)
Prepping == \E t \in Threads : pc[t] = "prep"

LEMMA PhaseOfCall ==
    ASSUME IInv, Alive, \A t \in Threads : ~Blocked(t)
    PROVE  CallPhase = IF Prepping THEN "asked" ELSE "running"
<1>1. engine = "waiting" /\ startSem = 0 /\ doneSem = 0
  BY NobodyBlocked DEF Alive
<1> QED
  BY <1>1 DEF CallPhase, Prepping

LEMMA CycleFeeders == \A act, n : Cycle!Feeders(act, n) = Feeders(act, n)
BY DEF Feeders, Cycle!Feeders

AbstractStep == [Cycle!Next]_<<CallPhase, chain[current], ran>>

LEMMA ThreadImplements ==
    ASSUME IInv, IInv', Alive, Alive', BothBuilt, NEW t \in Threads, Thread(t)
    PROVE  AbstractStep
<1>1. /\ TypeOK /\ Sound /\ Working /\ Paired
      /\ Sound' /\ Working' /\ Paired'
  BY DEF IInv, CycleInv, Alive
<1>2. pc \in [Threads -> PCs] /\ startSem \in Nat /\ doneSem \in Nat
  BY <1>1 DEF TypeOK
<1>3. \A u \in Threads : Holds(t) /\ u # t => ~Parked(u)
  BY <1>1 DEF Working, Baton, Holds
<1>4. \A u \in Threads : Holds(t)' /\ u # t => ~Parked(u)'
  BY <1>1 DEF Working, Baton, Holds
<1>5. engine' = engine
  BY DEF Thread, StartCycle, Prep, Trigger, EndPrep, TakeAndWake, GoToSleep,
     WakeUp, TakeWoken, Process, DecRef, EndIteration, GraphDecRef, CycleEnd
<1>6. ASSUME Over, Holds(t), ~Blocked(t), pc[t] # "prep",
             doneSem' = doneSem + 1, UNCHANGED <<chain, current, ran>>
      PROVE  AbstractStep
  <2>1. \A u \in Threads : ~Blocked(u)
    BY <1>3, <1>6 DEF Parked, Blocked
  <2>2. CallPhase = "running"
    BY <2>1, <1>3, <1>6, PhaseOfCall DEF Prepping, Parked
  <2>3. CallPhase' = "over"
    BY <2>1, <1>2, <1>5, <1>6, NobodyBlocked DEF CallPhase, Alive
  <2>4. Cycle!End
    BY <2>2, <2>3, <1>6 DEF Cycle!End, Over, Nodes
  <2> QED
    BY <2>4 DEF AbstractStep, Cycle!Next
<1>7. CASE Prep(t)
  <2>1. Holds(t) /\ ~Blocked(t) /\ Prepping
    BY <1>7 DEF Prep, Holds, Parked, Blocked, Prepping
  <2>2. \A u \in Threads : ~Blocked(u)
    BY <1>3, <2>1 DEF Parked, Blocked
  <2>3. CallPhase = "asked"
    BY <2>1, <2>2, PhaseOfCall
  <2>4. \A u \in Threads : pc'[u] = IF u = t THEN "trigger" ELSE pc[u]
    BY <1>2, <1>7 DEF Prep, Goto
  <2>5. (\A u \in Threads : ~Blocked(u)') /\ ~Prepping'
    BY <2>2, <2>4, <1>3, <2>1 DEF Blocked, Prepping, Parked
  <2>6. CallPhase' = "running"
    <3>1. engine = "waiting" /\ startSem = 0 /\ doneSem = 0
      BY <2>2, NobodyBlocked DEF Alive
    <3> QED
      BY <3>1, <2>5, <1>5, <1>7 DEF CallPhase, Prep, semVars, Prepping
  <2>7. chain' = chain /\ chain[current'] \in Built
    BY <1>1, <1>7, PrepState DEF BothBuilt
  <2>8. ran' = {}
    BY <1>7 DEF Prep
  <2>9. Cycle!Begin
    BY <2>3, <2>6, <2>7, <2>8 DEF Cycle!Begin, Built
  <2> QED
    BY <2>9 DEF AbstractStep, Cycle!Next
<1>8. CASE Process(t)
  <2>1. /\ pc[t] = "process" /\ chain' = chain /\ current' = current
        /\ ran' = ran \cup {node[t]}
    BY <1>8 DEF Process, chainVars
  <2>2. \A u \in Threads : ~Parked(u)
    BY <2>1, <1>1 DEF Working, Quiet, Over
  <2>3. CallPhase = "running"
    BY <2>2, PhaseOfCall DEF Parked, Blocked, Prepping
  <2>4. \A u \in Threads : ~Parked(u)'
    BY <1>2, <1>8, <2>2 DEF Process, Goto, Parked
  <2>5. CallPhase' = "running"
    <3>1. engine = "waiting" /\ startSem = 0 /\ doneSem = 0
      BY <2>2, NobodyBlocked DEF Alive, Parked, Blocked
    <3> QED
      BY <3>1, <2>4, <1>5, <1>8 DEF CallPhase, Process, semVars, Parked
  <2>6. node[t] \in chain[current].nodes \ ran
    BY <2>1, <1>1 DEF Working, Placed, Nodes
  <2>7. Cycle!Feeders(chain[current].act, node[t]) \subseteq ran
    BY <2>1, FeedersFirstHolds, CycleFeeders DEF FeedersFirst, Active
  <2>8. Cycle!Run(node[t])
    BY <2>1, <2>3, <2>5, <2>6, <2>7 DEF Cycle!Run
  <2> QED
    BY <2>6, <2>8 DEF AbstractStep, Cycle!Next
<1>9. CASE CycleEnd(t)
  <2>1. Over /\ Holds(t) /\ ~Blocked(t) /\ pc[t] # "prep"
    BY <1>1, <1>9 DEF CycleEnd, Holds, Parked, Blocked, Working, Quiet
  <2> QED
    BY <1>6, <1>9, <2>1 DEF CycleEnd, chainVars, cycleVars
<1>10. CASE EndPrep(t) /\ graphEmpty /\ ~(InMainLoop(t) /\ quit)
  <2>1. Over /\ Holds(t) /\ ~Blocked(t) /\ pc[t] # "prep"
    BY <1>1, <1>10, EmptyIsOver DEF EndPrep, Holds, Parked, Blocked
  <2> QED
    BY <1>6, <1>10, <2>1 DEF EndPrep, chainVars, cycleVars
<1>11. CASE StartCycle(t)
  <2>1. UNCHANGED <<chain, current, ran, doneSem>>
    BY <1>11 DEF StartCycle, chainVars, cycleVars
  <2>2. Blocked(t) /\ startSem > 0 /\ startSem' = startSem - 1
    BY <1>11 DEF StartCycle, Blocked
  <2>3. engine = "waiting" /\ doneSem = 0 /\ ~quit
    BY <2>2, <1>1, <1>2 DEF Paired, Alive, TypeOK
  <2>4. pc'[t] = "prep"
    BY <1>2, <1>11, <2>3 DEF StartCycle, Goto
  <2>5. CallPhase = "asked" /\ CallPhase' = "asked"
    BY <2>1, <2>2, <2>3, <2>4, <1>5 DEF CallPhase
  <2> QED
    BY <2>1, <2>5 DEF AbstractStep
<1>12. CASE /\ ~Prep(t) /\ ~Process(t) /\ ~CycleEnd(t) /\ ~StartCycle(t)
            /\ ~(EndPrep(t) /\ graphEmpty /\ ~(InMainLoop(t) /\ quit))
  <2>1. UNCHANGED <<chain, current, ran, startSem, doneSem>>
    BY <1>12 DEF Thread, Trigger, EndPrep, TakeAndWake, GoToSleep, WakeUp,
       TakeWoken, DecRef, EndIteration, GraphDecRef, chainVars, cycleVars,
       semVars
  <2>2. \A u \in Threads : pc'[u] = "prep" <=> pc[u] = "prep"
    BY <1>2, <1>12 DEF Thread, Trigger, EndPrep, TakeAndWake, GoToSleep,
       WakeUp, TakeWoken, DecRef, EndIteration, GraphDecRef, Goto, MaySleep,
       threadVars
  <2>3. CallPhase' = CallPhase
    BY <2>1, <2>2, <1>5 DEF CallPhase
  <2> QED
    BY <2>1, <2>3 DEF AbstractStep
<1> QED
  BY <1>7, <1>8, <1>9, <1>10, <1>11, <1>12

LEMMA OthersImplement ==
    ASSUME OrdinaryLists, IInv, Alive,
           Engine \/ UNCHANGED vars \/ \E e \in Editors : Edit(e)
    PROVE  AbstractStep
<1>1. TypeOK /\ Sound /\ Paired
  BY DEF IInv, CycleInv, Alive
<1>2. startSem \in Nat /\ doneSem \in Nat /\ engine \in {"idle", "waiting"}
  BY <1>1 DEF TypeOK
<1>3. UNCHANGED <<ran, pc>>
  BY DEF Engine, CallCycle, CycleReturns, vars, Edit, StartRechain, StartClear,
     Reacquire, Lock, Rechain, ClearOtherChain, threadVars, cycleVars
<1>4. ASSUME NEW m \in Modes, CallCycle(m) PROVE AbstractStep
  <2>1. chain' = chain /\ current' = current
    BY <1>4 DEF CallCycle, chainVars, cycleVars
  <2>2. CASE UNCHANGED <<startSem, engine>>
    <3>1. CallPhase' = CallPhase
      BY <1>3, <1>4, <2>2 DEF CallPhase, CallCycle
    <3> QED
      BY <2>1, <3>1, <1>3 DEF AbstractStep
  <2>3. CASE startSem' = startSem + 1 /\ engine' = "waiting"
    <3>1. engine = "idle" /\ doneSem' = doneSem /\ startSem = 0 /\ doneSem = 0
      BY <1>1, <1>4 DEF CallCycle, Paired, Alive
    <3>2. CallPhase = "idle" /\ CallPhase' = "asked"
      BY <2>3, <3>1 DEF CallPhase
    <3>3. Cycle!Ask
      BY <2>1, <3>2, <1>3 DEF Cycle!Ask
    <3> QED
      BY <3>3 DEF AbstractStep, Cycle!Next
  <2> QED
    BY <1>4, <2>2, <2>3 DEF CallCycle
<1>5. CASE CycleReturns
  <2>1. /\ chain' = chain /\ current' = current
        /\ CallPhase = "over" /\ CallPhase' = "idle"
    BY <1>5 DEF CycleReturns, CallPhase, chainVars, cycleVars
  <2>2. Cycle!Return
    BY <2>1, <1>3 DEF Cycle!Return
  <2> QED
    BY <2>2 DEF AbstractStep, Cycle!Next
<1>6. CASE UNCHANGED vars \/ \E e \in Editors : Edit(e)
  <2>1. UNCHANGED <<engine, startSem, doneSem>>
    BY <1>6 DEF vars, Edit, StartRechain, StartClear, Reacquire, Lock, Rechain,
       ClearOtherChain, semVars
  <2>2. CallPhase' = CallPhase
    BY <2>1, <1>3 DEF CallPhase
  <2>3. chain'[current'] = chain[current]
    BY <1>1, <1>6, SoundEdit DEF vars
  <2> QED
    BY <2>2, <2>3, <1>3 DEF AbstractStep
<1> QED
  BY <1>4, <1>5, <1>6 DEF Engine

(* To the engine thread the graph, with all its threads, semaphores, both  *)
(* chains and the editors, is RouteCycle: a call runs every route of one   *)
(* chain exactly once, in feeding order, and then returns.                 *)
THEOREM GraphImplementsCycle == OrdinaryLists => (CyclingSpec => ImplementsCycle)
<1> SUFFICES ASSUME OrdinaryLists PROVE CyclingSpec => ImplementsCycle
  OBVIOUS
<1>1. Init => Alive /\ BothBuilt /\ Cycle!Init
  <2> SUFFICES ASSUME Init PROVE Alive /\ BothBuilt /\ Cycle!Init
    OBVIOUS
  <2>1. Alive /\ CallPhase = "idle"
    BY DEF Init, Alive, CallPhase
  <2>2. chain[0] = EmptyChain /\ chain[1] = EmptyChain /\ chain[current] = EmptyChain
    BY DEF Init
  <2> QED
    BY <2>1, <2>2 DEF BothBuilt, Built, Init, Cycle!Init
<1>2. Alive /\ BothBuilt /\ IInv /\ [Cycling]_vars => Alive' /\ BothBuilt'
  BY AliveNext, BuiltNext DEF IInv
<1>3. Alive /\ Alive' /\ BothBuilt /\ IInv /\ IInv' /\ [Cycling]_vars
        => [Cycle!Next]_<<CallPhase, chain[current], ran>>
  BY ThreadImplements, OthersImplement DEF Cycling, AbstractStep
<1>4. Spec => []IInv
  BY Invariance
<1> QED
  BY <1>1, <1>2, <1>3, <1>4, CyclingIsNext, PTL
     DEF CyclingSpec, ImplementsCycle, Cycle!Spec

=============================================================================
