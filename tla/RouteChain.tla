----------------------------- MODULE RouteChain -----------------------------
(***************************************************************************)
(* The execution chain Graph::rechain builds from a sorted list of routes: *)
(* which route wakes which, how many feeders each route waits for, which   *)
(* routes start a cycle and how many routes must end before it is over.    *)
(*                                                                         *)
(* A route list is a sequence without repetition.  "feeds" is the relation *)
(* Route::direct_feeds, a set of pairs <<from, to>>, and fedBy[r] is the   *)
(* set Route::fed_by() that Session::resort_routes_using leaves in r.      *)
(* std::list and std::set iteration order is abstracted away: trigger list *)
(* and activation sets are sets.                                           *)
(***************************************************************************)
EXTENDS Naturals, Sequences, FiniteSets

Listed(order) == {order[i] : i \in DOMAIN order}

Pos(order, r) == CHOOSE i \in DOMAIN order : order[i] = r

(* The two overloads of is_feedback scan the list for the first of the two *)
(* routes.  They differ when both are the same route: the overload used on *)
(* outgoing connections answers FALSE, the one used on fed_by TRUE.        *)
AllFeedback(order, from, to) == TRUE
FeedbackOut(order, from, to) == Pos(order, to) < Pos(order, from)
FeedbackIn(order, from, to) == Pos(order, to) <= Pos(order, from)

Activates(order, feeds) ==
    [n \in Listed(order) |->
        {m \in Listed(order) : <<n, m>> \in feeds /\ ~FeedbackOut(order, n, m)}]

Feeders(act, n) == {m \in DOMAIN act : n \in act[m]}

Rechained(order, feeds, fedBy) ==
    LET act == Activates(order, feeds) IN
    [ nodes |-> Listed(order),
      act   |-> act,
      refs  |-> [n \in Listed(order) |-> Cardinality(Feeders(act, n))],
      trig  |-> {n \in Listed(order) :
                    \A f \in fedBy[n] : FeedbackIn(order, f, n)},
      fin   |-> Cardinality({n \in Listed(order) : act[n] = {}}) ]

EmptyChain == Rechained(<<>>, {}, <<>>)

-----------------------------------------------------------------------------
(* What the scheduler needs of a chain: every route that waits for nobody  *)
(* starts the cycle, no other one does, and no route waits for itself      *)
(* through other routes.                                                   *)
Startable(c) == c.trig = {n \in c.nodes : Feeders(c.act, n) = {}}

ForwardOnly(c, order) ==
    \A n \in c.nodes : \A m \in c.act[n] : Pos(order, n) < Pos(order, m)

ProperChain(c, order) == Startable(c) /\ ForwardOnly(c, order)

=============================================================================
