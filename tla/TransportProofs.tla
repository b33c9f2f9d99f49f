-------------------------- MODULE TransportProofs ---------------------------
(***************************************************************************)
(* Proofs about the transport: for every set of requests, every block and  *)
(* latency, every loop and ranges, and behaviours of any length.           *)
(*                                                                         *)
(* Handlers call handlers, so what they keep is stated of a session t and  *)
(* the session u they return, handler by handler, and the steps of the     *)
(* specification follow.                                                   *)
(***************************************************************************)
EXTENDS Transport, EventListsProofs

-----------------------------------------------------------------------------
(* The lists of the transport: events are of the kinds that stay, and what *)
(* waits to be merged, or to be processed, is where nothing deletes it.    *)
Proper(event) ==
    /\ {"type", "frame", "target", "on"} \subseteq DOMAIN event
    /\ event.type \in {"None"} \cup Kept \cup Commands
    /\ event.target \in Frames /\ event.on \in BOOLEAN
    /\ event.type # "StopOnce" => event.frame \in Frames
Asked(event) ==
    /\ event.type \in (Kept \cup Commands) \ {"StopOnce"}
    /\ event.action \in {"Add", "Replace", "Remove", "Clear"}
    /\ event.action = "Replace" => event.type \in OnceOnly
    /\ event.action = "Add" =>
         event.type \notin OnceOnly /\ (event.frame = Immediate \/ event.type \in Kept)
PendingWaits(t, held) ==
    \A i \in DOMAIN t.pending :
      /\ t.pending[i] \in t.live /\ Asked(t.ev[t.pending[i]])
      /\ t.pending[i] \notin ToSet(t.events) \cup ToSet(t.immediate) \cup held
      /\ \A j \in DOMAIN t.pending : i # j => t.pending[i] # t.pending[j]
ImmediateWaits(t) ==
    \A i \in DOMAIN t.immediate :
      /\ t.ev[t.immediate[i]].type \in Kept \cup Commands
      /\ t.ev[t.immediate[i]].type \notin Kept =>
           /\ t.immediate[i] \in t.live
           /\ \A j \in DOMAIN t.immediate : i # j => t.immediate[i] # t.immediate[j]
Waiting(t, held) ==
    /\ t.pending \in Seq(Cells)
    /\ \A e \in Cells : Proper(t.ev[e])
    /\ \A e \in ToSet(t.events) : t.ev[e].type \in Kept
    /\ \A e \in held : e \in Cells \cup {End} /\ (e # End => t.ev[e].type \in Kept)
    /\ PendingWaits(t, held) /\ ImmediateWaits(t)
Lists(t) == Listed(t) /\ Waiting(t, Held)

(* A command that is being carried out is in no list.                      *)
Aside(t, e) ==
    /\ e \in t.live /\ t.ev[e].type \in Commands
    /\ e \notin ToSet(t.pending) \cup ToSet(t.immediate)
Good(t, u) == Lists(u) /\ \A e : Aside(t, e) => Aside(u, e)

Only(t, u, F) ==
    DOMAIN u = DOMAIN t
    /\ \A f \in DOMAIN t \ (F \cup ListFields \cup {"pending"}) : u[f] = t[f]

(* Only, of what the event lists' lemmas say with Rest.                    *)
LEMMA RestOnly ==
    ASSUME NEW t, NEW u, Rest(t, u), "pending" \in DOMAIN t
    PROVE  Only(t, u, {}) /\ u.pending = t.pending
BY DEF Rest, Only, ListFields

(* The three kinds of types.                                               *)
LEMMA Kinds ==
    /\ OnceOnly \subseteq Kept /\ Kept \cap Commands = {} /\ "None" \notin Kept \cup Commands
BY DEF OnceOnly, Kept, Commands

(* Shrinking lists keep what waits.                                        *)
LEMMA ThinnedWaits ==
    ASSUME NEW t, NEW u, ImmediateWaits(t), u.ev = t.ev, NEW gone,
           Thinned(t.immediate, u.immediate, gone), t.live \ gone \subseteq u.live,
           t.immediate \in Seq(Cells), u.immediate \in Seq(Cells)
    PROVE  ImmediateWaits(u)
<1>1. PICK p \in [DOMAIN u.immediate -> DOMAIN t.immediate] :
        /\ \A k, l \in DOMAIN u.immediate : k < l => p[k] < p[l]
        /\ \A k \in DOMAIN u.immediate : u.immediate[k] = t.immediate[p[k]]
              /\ u.immediate[k] \notin gone
  BY DEF Thinned
<1>2. /\ DOMAIN t.immediate = 1 .. Len(t.immediate)
      /\ DOMAIN u.immediate = 1 .. Len(u.immediate)
  BY LenProperties
<1>3. \A k, l \in DOMAIN u.immediate : k # l => p[k] # p[l]
  BY <1>1, <1>2
<1>4. ASSUME NEW k \in DOMAIN u.immediate, u.ev[u.immediate[k]].type \notin Kept
      PROVE  /\ u.immediate[k] \in u.live
             /\ \A l \in DOMAIN u.immediate : k # l => u.immediate[k] # u.immediate[l]
  <2>1. /\ t.immediate[p[k]] \in t.live
        /\ \A j \in DOMAIN t.immediate : p[k] # j => t.immediate[p[k]] # t.immediate[j]
    BY <1>1, <1>4 DEF ImmediateWaits
  <2>2. u.immediate[k] \in u.live
    BY <2>1, <1>1
  <2>3. ASSUME NEW l \in DOMAIN u.immediate, k # l PROVE u.immediate[k] # u.immediate[l]
    BY <2>1, <2>3, <1>1, <1>3
  <2> QED BY <2>2, <2>3
<1>5. \A k \in DOMAIN u.immediate : u.ev[u.immediate[k]].type \in Kept \cup Commands
  BY <1>1 DEF ImmediateWaits
<1> QED BY <1>4, <1>5 DEF ImmediateWaits

(* The operations on the lists keep them fit, and a command aside is aside *)
(* still.                                                                  *)
LEMMA NextFits ==
    ASSUME NEW t, Lists(t)
    PROVE  Good(t, SetNextEvent(t)) /\ Only(t, SetNextEvent(t), {})
<1> DEFINE u == SetNextEvent(t)
<1>1. /\ Listed(u) /\ Rest(t, u) /\ u.ev = t.ev /\ u.live = t.live
      /\ u.events = t.events /\ u.immediate = t.immediate
  BY NextKeeps DEF Lists
<1> HIDE DEF u
<1>2. Only(t, u, {}) /\ u.pending = t.pending
  BY <1>1, RestOnly DEF Lists, Listed, Typed
<1>3. Waiting(u, Held)
  BY <1>1, <1>2 DEF Lists, Waiting, PendingWaits, ImmediateWaits
<1>4. Good(t, u)
  BY <1>1, <1>2, <1>3 DEF Good, Lists, Aside
<1> QED BY <1>2, <1>4 DEF u

(* Clearing a type leaves the lists fit.                                   *)
LEMMA ClearFits ==
    ASSUME NEW t, Lists(t), NEW type
    PROVE  Good(t, ClearEventType(t, type)) /\ Only(t, ClearEventType(t, type), {})
<1> DEFINE u == ClearEventType(t, type)
           gone == {e \in Cells : t.ev[e].type = type}
<1>1. Cleared(t, u, gone)
  BY ClearingClears DEF Lists
<1> HIDE DEF u, gone
<1>2. /\ Listed(u) /\ Only(t, u, {}) /\ u.pending = t.pending /\ u.ev = t.ev
      /\ u.live = t.live \ (gone \cap (ToSet(t.events) \cup ToSet(t.immediate)))
  BY <1>1, RestOnly DEF Lists, Listed, Typed, Cleared
<1>3. /\ ToSet(u.events) = ToSet(t.events) \ gone
      /\ ToSet(u.immediate) = ToSet(t.immediate) \ gone
  BY <1>1, ThinnedSet DEF Cleared
<1>4. ImmediateWaits(u)
  <2>1. t.live \ gone \subseteq u.live
    BY <1>2
  <2> QED BY <1>1, <1>2, <2>1, ThinnedWaits DEF Cleared, Lists, Waiting, Listed, Typed
<1>5. PendingWaits(u, Held)
  <2>1. PendingWaits(t, Held)
    BY DEF Lists, Waiting
  <2> QED BY <2>1, <1>2, <1>3 DEF PendingWaits
<1>6. Waiting(u, Held)
  BY <1>2, <1>3, <1>4, <1>5 DEF Lists, Waiting
<1>7. ASSUME NEW e, Aside(t, e) PROVE Aside(u, e)
  <2>1. e \notin ToSet(t.events)
    BY <1>7, Kinds DEF Aside, Lists, Waiting
  <2> QED BY <2>1, <1>7, <1>2, <1>3 DEF Aside
<1>8. Good(t, u)
  BY <1>2, <1>6, <1>7 DEF Good, Lists
<1> QED BY <1>2, <1>8 DEF u

(* Putting an event into the list leaves the lists fit.                    *)
LEMMA AddFits ==
    ASSUME NEW t, Lists(t), NEW e \in t.live \ ToSet(t.events), e \notin ToSet(t.pending),
           t.ev[e].type \in Kept \ OnceOnly
    PROVE  Good(t, AddEvent(t, e)) /\ Only(t, AddEvent(t, e), {})
<1> DEFINE u == AddEvent(t, e)
<1>1. /\ Listed(u) /\ Rest(t, u) /\ u.ev = t.ev /\ u.live = t.live
      /\ u.immediate = t.immediate /\ ToSet(u.events) \subseteq ToSet(t.events) \cup {e}
  BY AddKeeps DEF Lists
<1> HIDE DEF u
<1>2. Only(t, u, {}) /\ u.pending = t.pending
  BY <1>1, RestOnly DEF Lists, Listed, Typed
<1>3. ImmediateWaits(u)
  BY <1>1, <1>2 DEF ImmediateWaits, Lists, Waiting
<1>4. PendingWaits(u, Held)
  <2>1. PendingWaits(t, Held) /\ \A i \in DOMAIN t.pending : t.pending[i] # e
    BY DEF Lists, Waiting, ToSet
  <2> QED BY <2>1, <1>1, <1>2 DEF PendingWaits
<1>5. Waiting(u, Held)
  BY <1>1, <1>2, <1>3, <1>4 DEF Lists, Waiting
<1>6. Good(t, u)
  BY <1>1, <1>2, <1>5 DEF Good, Lists, Aside
<1> QED BY <1>2, <1>6 DEF u

(* Replacing the one event of a type leaves the lists fit.                 *)
LEMMA ReplaceFits ==
    ASSUME NEW t, Lists(t), NEW e \in t.live \ ToSet(t.events), e \notin ToSet(t.pending),
           t.ev[e].type \in OnceOnly
    PROVE  Good(t, ReplaceEvent(t, e)) /\ Only(t, ReplaceEvent(t, e), {})
<1> DEFINE u == ReplaceEvent(t, e)
<1>1. Replaced(t, u, e)
  BY ReplaceReplaces DEF Lists
<1> HIDE DEF u
<1>2. /\ Listed(u) /\ Only(t, u, {}) /\ u.pending = t.pending /\ u.immediate = t.immediate
      /\ t.live \ {e} \subseteq u.live /\ ToSet(u.events) \subseteq ToSet(t.events) \cup {e}
  BY <1>1, RestOnly DEF Lists, Listed, Typed, Replaced
<1>3. e \in Cells
  BY DEF Lists, Listed, Typed
<1>4. ASSUME NEW c \in Cells
      PROVE  /\ u.ev[c].type = t.ev[c].type /\ Proper(u.ev[c])
             /\ c \notin ToSet(t.events) => u.ev[c] = t.ev[c]
  <2>1. Proper(t.ev[c]) /\ Proper(t.ev[e])
    BY <1>3 DEF Lists, Waiting
  <2>2. \/ u.ev[c] = t.ev[c]
        \/ /\ c \in ToSet(t.events) /\ t.ev[c].type = t.ev[e].type
           /\ u.ev[c] = [t.ev[c] EXCEPT !.frame = t.ev[e].frame, !.target = t.ev[e].target]
    BY <1>1 DEF Replaced
  <2> QED BY <2>1, <2>2 DEF Proper
<1>5. \A i \in DOMAIN t.immediate : t.immediate[i] \in Cells
  BY LenProperties, ElementOfSeq DEF Lists, Listed, Typed
<1>6. ImmediateWaits(u)
  <2>1. ImmediateWaits(t) /\ t.ev[e].type \in Kept
    BY Kinds DEF Lists, Waiting
  <2> QED BY <2>1, <1>2, <1>4, <1>5 DEF ImmediateWaits
<1>7. PendingWaits(u, Held)
  <2>1. PendingWaits(t, Held) /\ \A i \in DOMAIN t.pending : t.pending[i] # e
    BY DEF Lists, Waiting, ToSet
  <2>2. \A i \in DOMAIN t.pending : t.pending[i] \in Cells
    BY LenProperties, ElementOfSeq DEF Lists, Waiting
  <2> QED BY <2>1, <2>2, <1>2, <1>4 DEF PendingWaits
<1>8. Waiting(u, Held)
  <2>1. \A c \in ToSet(u.events) : u.ev[c].type \in Kept
    <3>1. \A c \in ToSet(u.events) : c \in Cells /\ t.ev[c].type \in Kept
      BY <1>2, <1>3, Kinds, ToSetFinite DEF Lists, Listed, Typed, Waiting
    <3> QED BY <3>1, <1>4
  <2>2. \A c \in Held : c \in Cells \cup {End} /\ (c # End => u.ev[c].type \in Kept)
    BY <1>4 DEF Lists, Waiting
  <2> QED BY <2>1, <2>2, <1>2, <1>4, <1>6, <1>7 DEF Lists, Waiting
<1>9. ASSUME NEW c, Aside(t, c) PROVE Aside(u, c)
  <2>1. c # e /\ c \in Cells
    BY <1>9, Kinds DEF Aside, Lists, Listed, Typed
  <2> QED BY <2>1, <1>9, <1>2, <1>4 DEF Aside
<1>10. Good(t, u)
  BY <1>2, <1>8, <1>9 DEF Good, Lists
<1> QED BY <1>2, <1>10 DEF u

(* For _remove_event it is needed, too, which events leave.                *)
LEMMA RemoveFits ==
    ASSUME NEW t, Lists(t), NEW e
    PROVE  /\ Good(t, RemoveEvent(t, e)) /\ Only(t, RemoveEvent(t, e), {})
           /\ Removed(t, RemoveEvent(t, e), e)
<1> DEFINE u == RemoveEvent(t, e)
<1>1. Removed(t, u, e)
  BY RemoveRemoves DEF Lists
<1> HIDE DEF u
<1>2. /\ Listed(u) /\ Only(t, u, {}) /\ u.pending = t.pending /\ u.immediate = t.immediate
      /\ u.ev = t.ev
  BY <1>1, RestOnly DEF Lists, Listed, Typed, Removed
<1>3. t.live \ ToSet(t.events) \subseteq u.live /\ ToSet(u.events) \subseteq ToSet(t.events)
  BY <1>1 DEF Removed
<1>4. ImmediateWaits(u)
  <2>1. ImmediateWaits(t)
    BY DEF Lists, Waiting
  <2>2. \A c \in ToSet(t.events) : t.ev[c].type \in Kept
    BY DEF Lists, Waiting
  <2> QED BY <2>1, <2>2, <1>2, <1>3 DEF ImmediateWaits
<1>5. PendingWaits(u, Held)
  <2>1. PendingWaits(t, Held)
    BY DEF Lists, Waiting
  <2> QED BY <2>1, <1>2, <1>3 DEF PendingWaits
<1>6. Waiting(u, Held)
  BY <1>2, <1>3, <1>4, <1>5 DEF Lists, Waiting
<1>7. ASSUME NEW c, Aside(t, c) PROVE Aside(u, c)
  <2>1. c \notin ToSet(t.events)
    BY <1>7, Kinds DEF Aside, Lists, Waiting
  <2> QED BY <2>1, <1>7, <1>2, <1>3 DEF Aside
<1>8. Good(t, u)
  BY <1>2, <1>6, <1>7 DEF Good, Lists
<1> QED BY <1>1, <1>2, <1>8 DEF u

(* Only what is in no list is deleted, or what stays on the immediate list *)
(* with its contents.                                                      *)
LEMMA DeleteFits ==
    ASSUME NEW t, Lists(t), NEW e \in t.live, e \notin ToSet(t.events), e \notin ToSet(t.pending),
           e \in ToSet(t.immediate) => t.ev[e].type \in Kept
    PROVE  Lists(Delete(t, e)) /\ Only(t, Delete(t, e), {})
<1> DEFINE u == Delete(t, e)
<1>1. /\ Listed(u) /\ Rest(t, u) /\ u.ev = t.ev /\ u.live = t.live \ {e}
      /\ u.events = t.events /\ u.immediate = t.immediate
  BY DeleteKeeps DEF Lists
<1> HIDE DEF u
<1>2. Only(t, u, {}) /\ u.pending = t.pending
  BY <1>1, RestOnly DEF Lists, Listed, Typed
<1>3. ImmediateWaits(u)
  <2>1. \A i \in DOMAIN t.immediate : t.immediate[i] = e => t.ev[e].type \in Kept
    BY DEF ToSet
  <2>2. ImmediateWaits(t)
    BY DEF Lists, Waiting
  <2> QED BY <2>1, <2>2, <1>1 DEF ImmediateWaits
<1>4. PendingWaits(u, Held)
  <2>1. PendingWaits(t, Held) /\ \A i \in DOMAIN t.pending : t.pending[i] # e
    BY DEF Lists, Waiting, ToSet
  <2> QED BY <2>1, <1>1, <1>2 DEF PendingWaits
<1>5. Waiting(u, Held)
  BY <1>1, <1>2, <1>3, <1>4 DEF Lists, Waiting
<1> QED BY <1>1, <1>2, <1>5 DEF Lists, u

(* A new event is not at hand, nor in a list, nor a command being carried  *)
(* out.                                                                    *)
LEMMA CreatedFits ==
    ASSUME NeverDry, NEW t, Lists(t), NEW event, Proper(event), event.frame \in Nat
    PROVE  LET e == New(t, Held)
               u == Created(t, Held, event)
           IN  /\ Good(t, u) /\ Only(t, u, {}) /\ u.pending = t.pending
               /\ e \in u.live /\ u.ev[e] = event
               /\ e \notin ToSet(u.events) \cup ToSet(u.immediate) \cup ToSet(u.pending) \cup Held
               /\ \A c : Aside(t, c) => c # e
<1> DEFINE e == New(t, Held)
           u == Created(t, Held, event)
<1>1. e \in Cells \ (Held \cup t.live \cup ToSet(t.immediate))
  <2>1. IsFiniteSet(Held)
    <3>1. IsFiniteSet({this} \cup {the_next_one})
      BY FS_Singleton, FS_Union
    <3>2. Held = {this} \cup {the_next_one}
      BY DEF Held
    <3> QED BY <3>1, <3>2
  <2> QED BY <2>1, NewIsFree DEF Lists
<1>2. Begun(t, u, e, event)
  BY <1>1, CreatedBegins DEF Lists, Proper
<1> HIDE DEF e, u
<1>3. /\ Listed(u) /\ Only(t, u, {}) /\ u.pending = t.pending /\ u.immediate = t.immediate
      /\ u.events = t.events /\ u.live = t.live \cup {e} /\ u.ev[e] = event
      /\ \A c \in Cells \ {e} : u.ev[c] = t.ev[c]
  BY <1>2, RestOnly DEF Lists, Listed, Typed, Begun
<1>4. \A i \in DOMAIN t.pending : t.pending[i] \in Cells \ {e}
  BY <1>1, LenProperties, ElementOfSeq DEF Lists, Waiting, PendingWaits
<1>5. \A i \in DOMAIN t.immediate : t.immediate[i] \in Cells \ {e}
  <2>1. ToSet(t.immediate) \subseteq Cells
    BY ToSetFinite DEF Lists, Listed, Typed
  <2> QED BY <2>1, <1>1 DEF ToSet
<1>6. ToSet(t.events) \subseteq Cells \ {e}
  BY <1>1 DEF Lists, Listed, Typed
<1>7. ImmediateWaits(u)
  <2>1. ImmediateWaits(t)
    BY DEF Lists, Waiting
  <2> QED BY <2>1, <1>3, <1>5 DEF ImmediateWaits
<1>8. PendingWaits(u, Held)
  <2>1. PendingWaits(t, Held)
    BY DEF Lists, Waiting
  <2> QED BY <2>1, <1>3, <1>4 DEF PendingWaits
<1>9. Waiting(u, Held)
  <2>1. \A c \in Cells : Proper(u.ev[c])
    BY <1>3 DEF Lists, Waiting
  <2>2. \A c \in ToSet(u.events) : u.ev[c].type \in Kept
    BY <1>3, <1>6 DEF Lists, Waiting
  <2>3. \A c \in Held : c \in Cells \cup {End} /\ (c # End => u.ev[c].type \in Kept)
    BY <1>1, <1>3 DEF Lists, Waiting
  <2> QED BY <2>1, <2>2, <2>3, <1>3, <1>7, <1>8 DEF Lists, Waiting
<1>10. ASSUME NEW c, Aside(t, c) PROVE Aside(u, c) /\ c # e
  <2>1. c \in Cells \ {e}
    BY <1>1, <1>10 DEF Aside, Lists, Listed, Typed
  <2> QED BY <2>1, <1>10, <1>3 DEF Aside
<1>11. Good(t, u)
  BY <1>3, <1>9, <1>10 DEF Good, Lists
<1>12. e \notin ToSet(u.events) \cup ToSet(u.immediate) \cup ToSet(u.pending) \cup Held
  BY <1>1, <1>3, <1>4, <1>6 DEF ToSet
<1> QED BY <1>3, <1>10, <1>11, <1>12 DEF u, e

(* queue_event puts it where the process thread will merge it.             *)
LEMMA QueueFits ==
    ASSUME NeverDry, NEW t, Lists(t), NEW event, Proper(event), Asked(event), event.frame \in Nat
    PROVE  Good(t, Queue(t, event)) /\ Only(t, Queue(t, event), {})
<1> DEFINE e == New(t, Held)
           v == Created(t, Held, event)
           u == [v EXCEPT !.pending = Append(@, e)]
           q == v.pending
           r == Append(q, e)
<1>1. /\ Good(t, v) /\ Only(t, v, {}) /\ e \in v.live /\ v.ev[e] = event
      /\ e \notin ToSet(v.events) \cup ToSet(v.immediate) \cup ToSet(q) \cup Held
      /\ q = t.pending /\ \A c : Aside(t, c) => c # e
  BY CreatedFits
<1> HIDE DEF e, v
<1>2. /\ DOMAIN u = DOMAIN v /\ Rest([v EXCEPT !.pending = r], u)
      /\ u.ev = v.ev /\ u.live = v.live /\ u.events = v.events /\ u.immediate = v.immediate
      /\ u.next = v.next /\ u.frame = v.frame /\ u.pending = r /\ Only(v, u, {})
  BY <1>1 DEF Rest, Only, Good, Lists, Listed, Typed, ListFields
<1> HIDE DEF u
<1>3. Listed(u)
  <2>1. Typed(u)
    BY <1>1, <1>2 DEF Good, Lists, Listed, Typed
  <2>2. Ordered(u)
    BY <1>1, <1>2 DEF Good, Lists, Listed, Ordered, Apart
  <2> QED BY <2>1, <2>2, <1>1, <1>2 DEF Good, Lists, Listed
<1>4. q \in Seq(Cells) /\ e \in Cells
  BY <1>1 DEF Good, Lists, Waiting, Listed, Typed
<1>5. /\ r \in Seq(Cells) /\ DOMAIN r = 1 .. Len(q) + 1 /\ r[Len(q) + 1] = e
      /\ Len(q) \in Nat /\ DOMAIN q = 1 .. Len(q) /\ \A i \in DOMAIN q : r[i] = q[i]
  BY <1>4, LenProperties
<1>6. \A i \in DOMAIN r : i \in DOMAIN q \/ i = Len(q) + 1
  BY <1>5
<1>7. \A i \in DOMAIN q : q[i] # e /\ i # Len(q) + 1
  BY <1>1, <1>5 DEF ToSet
<1> HIDE DEF r
<1>8. PendingWaits(u, Held)
  <2>1. PendingWaits(v, Held)
    BY <1>1 DEF Good, Lists, Waiting
  <2>2. ASSUME NEW i \in DOMAIN r
        PROVE  /\ r[i] \in u.live /\ Asked(u.ev[r[i]])
               /\ r[i] \notin ToSet(u.events) \cup ToSet(u.immediate) \cup Held
               /\ \A j \in DOMAIN r : i # j => r[i] # r[j]
    <3>1. CASE i = Len(q) + 1
      BY <3>1, <1>1, <1>2, <1>5, <1>6, <1>7
    <3>2. CASE i \in DOMAIN q
      BY <3>2, <2>1, <1>1, <1>2, <1>5, <1>6, <1>7 DEF PendingWaits
    <3> QED BY <3>1, <3>2, <1>6
  <2> QED BY <2>2, <1>2 DEF PendingWaits
<1>9. Waiting(u, Held)
  BY <1>1, <1>2, <1>5, <1>8 DEF Good, Lists, Waiting, ImmediateWaits
<1>10. ASSUME NEW c, Aside(t, c) PROVE Aside(u, c)
  <2>1. Aside(v, c) /\ c # e
    BY <1>1, <1>10 DEF Good
  <2>2. c \notin ToSet(r)
    BY <2>1, <1>5, <1>6 DEF Aside, ToSet
  <2> QED BY <2>1, <2>2, <1>2 DEF Aside
<1>11. Good(t, u)
  BY <1>3, <1>9, <1>10 DEF Good, Lists
<1>12. Only(t, u, {})
  BY <1>1, <1>2 DEF Only
<1> QED BY <1>11, <1>12 DEF Queue, u, v, e

(* stop_transport of a recording puts a StopOnce into the list.            *)
LEMMA CreateAndReplace ==
    ASSUME NeverDry, NEW t, Lists(t), NEW event, Proper(event), event.frame \in Nat,
           event.type \in OnceOnly
    PROVE  LET u == ReplaceEvent(Created(t, Held, event), New(t, Held))
           IN  Good(t, u) /\ Only(t, u, {})
<1> DEFINE e == New(t, Held)
           v == Created(t, Held, event)
           u == ReplaceEvent(v, e)
<1>1. /\ Good(t, v) /\ Only(t, v, {}) /\ e \in v.live /\ v.ev[e] = event
      /\ e \notin ToSet(v.events) \cup ToSet(v.pending)
  BY CreatedFits
<1> HIDE DEF e, v
<1>2. Good(v, u) /\ Only(v, u, {})
  BY <1>1, ReplaceFits DEF Good
<1> HIDE DEF u
<1>3. Good(t, u) /\ Only(t, u, {})
  BY <1>1, <1>2 DEF Good, Only
<1> QED BY <1>3 DEF u, v, e

(* An event made and put into the list at once.                            *)
LEMMA CreateAndAdd ==
    ASSUME NeverDry, NEW t, Lists(t), NEW event, Proper(event), event.frame \in Nat,
           event.type \in Kept \ OnceOnly
    PROVE  LET u == AddEvent(Created(t, Held, event), New(t, Held))
           IN  Good(t, u) /\ Only(t, u, {})
<1> DEFINE e == New(t, Held)
           v == Created(t, Held, event)
           u == AddEvent(v, e)
<1>1. /\ Good(t, v) /\ Only(t, v, {}) /\ e \in v.live /\ v.ev[e] = event
      /\ e \notin ToSet(v.events) \cup ToSet(v.pending)
  BY CreatedFits
<1> HIDE DEF e, v
<1>2. Good(v, u) /\ Only(v, u, {})
  BY <1>1, AddFits DEF Good
<1> HIDE DEF u
<1>3. Good(t, u) /\ Only(t, u, {})
  BY <1>1, <1>2 DEF Good, Only
<1> QED BY <1>3 DEF u, v, e

-----------------------------------------------------------------------------
(* The rest of a session, and what the handlers keep of it.                *)
Subs == {"DeclickOut", "DeclickIn", "Locate", "StopPendingCapture", "AutoReturning"}
Works == {"Stop", "Locate", "Roll", "ClearSubstate", "OverWrite"}
Scalars(t) ==
    /\ {"frame", "speed", "loop", "range", "rec", "sub", "plocate", "proll", "work", "count",
        "lastRoll", "want", "goal", "astray", "punchIn"} \subseteq DOMAIN t
    /\ t.frame \in Frames /\ t.plocate \in Frames /\ t.lastRoll \in Frames
    /\ t.speed \in {0, 1} /\ t.rec \in {"Disabled", "Enabled", "Recording"}
    /\ t.sub \subseteq Subs /\ t.work \subseteq Works
    /\ t.count \in Nat /\ t.punchIn \in PunchIns /\ t.proll \in BOOLEAN /\ t.astray \in BOOLEAN
(* NoStaleDeclick, and a locate waits for its declick.                     *)
Fresh(t) ==
    /\ t.speed = 0 => t.sub \cap {"DeclickOut", "Locate"} = {}
    /\ "Locate" \in t.sub => "DeclickOut" \in t.sub
(* A stop at work has stopped the transport, as has a locate that is not   *)
(* to roll; the butler works on what there is.                             *)
Posted(t) ==
    /\ "Stop" \in t.work => t.speed = 0
    /\ "Locate" \in t.work /\ "Roll" \notin t.work => t.speed = 0
    /\ bpc # "idle" => t.count >= on_entry /\ ptw \subseteq t.work
Owed ==
    /\ bpc \in {"idle", "locate", "stop", "return", "seek", "stopped", "done"}
    /\ on_entry \in Nat /\ (bpc # "idle" => on_entry >= 1)
    /\ bpc = "locate" => "Locate" \in ptw
    /\ bpc \in {"stop", "return", "seek", "stopped"} => "Stop" \in ptw
Fit(t) == Lists(t) /\ Scalars(t) /\ Fresh(t) /\ Posted(t) /\ Owed

(* Tracks that play at d are where the transport is, or work is posted     *)
(* whose seek is still to come, or a locate waits for its declick, or has  *)
(* been given up by a transport that rolls on.                             *)
Awaits(t) ==
    \/ bpc = "idle" /\ t.count > 0
    \/ bpc # "idle" /\ t.count > on_entry
    \/ bpc \in {"locate", "stop", "return", "seek"}
Calm(t) == t.work \cap {"Stop", "Locate"} = {}
Firm(t, d) ==
    \/ d = t.frame \/ t.frame = LastFrame \/ (~Calm(t) /\ Awaits(t))
    \/ t.astray = TRUE /\ t.speed # 0
Placed(t, d) == Firm(t, d) \/ ("Locate" \in t.sub /\ t.plocate = t.frame /\ t.rec # "Recording")

Holds(t, u) ==
    /\ Fit(u) /\ \A e : Aside(t, e) => Aside(u, e)
    /\ \A d : Placed(t, d) => Placed(u, d)

(* Holding is transitive.                                                  *)
LEMMA HoldsOn ==
    ASSUME NEW t, NEW u, NEW v, Holds(t, u), Holds(u, v)
    PROVE  Holds(t, v)
BY DEF Holds

(* Most of what handlers do is elsewhere.                                  *)
Elsewhere == {"loop", "range", "goal"}
(* What changes only fields that no invariant is about holds.              *)
LEMMA ElsewhereHolds ==
    ASSUME NEW t, Fit(t), NEW u, Good(t, u), Only(t, u, Elsewhere)
    PROVE  /\ Holds(t, u)
           /\ u.work = t.work /\ u.sub = t.sub /\ u.speed = t.speed /\ u.frame = t.frame
           /\ u.rec = t.rec /\ u.plocate = t.plocate /\ u.count = t.count
           /\ u.punchIn = t.punchIn /\ u.astray = t.astray
           /\ u.proll = t.proll /\ u.lastRoll = t.lastRoll
           /\ u.want = t.want
<1>1. /\ u.work = t.work /\ u.sub = t.sub /\ u.speed = t.speed /\ u.frame = t.frame
      /\ u.rec = t.rec /\ u.plocate = t.plocate /\ u.count = t.count /\ u.want = t.want
      /\ u.punchIn = t.punchIn /\ u.astray = t.astray /\ u.proll = t.proll
      /\ u.lastRoll = t.lastRoll /\ DOMAIN u = DOMAIN t
  BY DEF Only, Fit, Scalars, ListFields, Elsewhere
<1>2. Scalars(u) /\ Fresh(u) /\ Posted(u)
  BY <1>1 DEF Fit, Scalars, Fresh, Posted
<1>3. Fit(u)
  BY <1>2 DEF Fit, Good
<1>4. \A d : Placed(t, d) = Placed(u, d)
  BY <1>1 DEF Placed, Firm, Awaits, Calm
<1> QED BY <1>1, <1>3, <1>4 DEF Holds, Good

(* Fields that are no list leave the lists as they are.                    *)
LEMMA SameLists ==
    ASSUME NEW t, Lists(t), NEW u, DOMAIN u = DOMAIN t, u.frame \in Nat,
           u.ev = t.ev, u.live = t.live, u.events = t.events, u.immediate = t.immediate,
           u.next = t.next, u.pending = t.pending
    PROVE  Good(t, u)
<1>1. Typed(u) /\ Ordered(u)
  BY DEF Lists, Listed, Typed, Ordered, Apart
<1>2. Listed(u)
  BY <1>1 DEF Lists, Listed
<1>3. Waiting(u, Held)
  BY DEF Lists, Waiting, PendingWaits, ImmediateWaits
<1> QED BY <1>2, <1>3 DEF Good, Lists, Aside

-----------------------------------------------------------------------------
(* What the assumptions say of frames.                                     *)
LEMMA FrameFacts ==
    /\ Frames \subseteq Nat /\ 0 \in Frames /\ LastFrame \in Frames
    /\ LoopStart \in Frames /\ LoopEnd \in Frames
    /\ Block \in Nat \ {0} /\ Latency \in Nat
BY BlockAssumption, LengthAssumption, LoopAssumption DEF Frames

(* What the users queue is proper, and stays where it is put or is carried *)
(* out at once.                                                            *)
LEMMA RequestFits ==
    ASSUME NEW r \in Requests
    PROVE  Proper(r) /\ Asked(r) /\ r.frame \in Nat
<1>1. r \in [type : (Kept \cup Commands) \ {"StopOnce"},
              action : {"Add", "Replace", "Remove", "Clear"},
              frame : Frames, target : Frames, on : BOOLEAN]
      /\ (r.action = "Replace" => r.type \in OnceOnly)
      /\ (r.action = "Add" =>
            r.type \notin OnceOnly /\ (r.frame = Immediate \/ r.type \in Kept))
  BY RequestAssumption
<1> QED BY <1>1, FrameFacts DEF Proper, Asked

(* Going back leads nowhere but to a frame.                                *)
LEMMA BackStays ==
    ASSUME NEW f \in Frames, NEW n \in Nat
    PROVE  Back(f, n) \in Frames
BY LengthAssumption DEF Back, Frames

(* realtime_stop posts the stop, ends the declick and leaves the position, *)
(* but for a recording, which goes back.                                   *)
LEMMA RealtimeStops ==
    ASSUME NEW t, Lists(t), Scalars(t), NEW clear \in BOOLEAN
    PROVE  LET u == RealtimeStop(t, clear)
           IN  /\ Good(t, u) /\ Scalars(u)
               /\ Only(t, u, {"frame", "work", "rec", "speed", "sub"})
               /\ u.speed = 0 /\ u.sub \subseteq {"AutoReturning"}
               /\ "Stop" \in u.work /\ t.work \subseteq u.work
               /\ "Locate" \in u.work => "Locate" \in t.work
               /\ t.rec # "Recording" => u.frame = t.frame
<1> DEFINE back == IF Latency > Block THEN Latency ELSE Block
           moved == IF t.rec = "Recording" THEN Back(t.frame, back) ELSE t.frame
           bits == {"Stop"} \cup (IF clear THEN {"ClearSubstate"} ELSE {})
           a == AddWork([t EXCEPT !.frame = moved], bits)
           b == ClearEventType(a, "StopOnce")
           c == ClearEventType(b, "RangeStop")
           v == ClearEventType(c, "RangeLocate")
           rec == CASE ~v.loop \/ clear -> "Disabled"
                    [] v.rec = "Recording" -> "Enabled"
                    [] OTHER -> v.rec
           u == [DisableRecord(v, clear) EXCEPT !.speed = 0, !.sub = ClearedSub(t)]
<1>1. moved \in Frames /\ (t.rec # "Recording" => moved = t.frame)
  <2>1. back \in Nat /\ t.frame \in Frames
    BY FrameFacts DEF Scalars
  <2> HIDE DEF back
  <2> QED BY <2>1, BackStays
<1>2. bits \subseteq Works /\ "Stop" \in bits /\ "Locate" \notin bits
  BY DEF Works
<1> HIDE DEF moved, bits
<1>3. /\ DOMAIN a = DOMAIN t /\ a.frame = moved /\ a.work = t.work \cup bits
      /\ a.ev = t.ev /\ a.live = t.live /\ a.events = t.events /\ a.immediate = t.immediate
      /\ a.next = t.next /\ a.pending = t.pending /\ Only(t, a, {"frame", "work"})
  BY DEF AddWork, Only, Scalars, Lists, Listed, Typed, ListFields
<1> HIDE DEF a
<1>4. Good(t, a)
  <2>1. a.frame \in Nat
    BY <1>1, <1>3, FrameFacts
  <2> QED BY <2>1, <1>3, SameLists
<1>5. Good(a, b) /\ Only(a, b, {})
  BY <1>4, ClearFits DEF Good
<1> HIDE DEF b
<1>6. Good(b, c) /\ Only(b, c, {})
  BY <1>5, ClearFits DEF Good
<1> HIDE DEF c
<1>7. Good(c, v) /\ Only(c, v, {})
  BY <1>6, ClearFits DEF Good
<1> HIDE DEF v
<1>8. Only(t, v, {"frame", "work"})
  BY <1>3, <1>5, <1>6, <1>7 DEF Only
<1>9. v.frame = moved /\ v.work = t.work \cup bits
  BY <1>3, <1>5, <1>6, <1>7 DEF Only, Scalars, ListFields
<1>10. DOMAIN v = DOMAIN t /\ v.rec = t.rec
  BY <1>8 DEF Only, Scalars, ListFields
<1>11. rec \in {"Disabled", "Enabled", "Recording"}
  BY <1>10 DEF Scalars
<1>12. u = [[v EXCEPT !.rec = rec] EXCEPT !.speed = 0, !.sub = ClearedSub(t)]
  BY DEF DisableRecord
<1> HIDE DEF rec, u
<1>13. /\ DOMAIN u = DOMAIN v /\ u.rec = rec /\ u.speed = 0 /\ u.sub = ClearedSub(t)
       /\ u.frame = v.frame /\ u.work = v.work
       /\ u.ev = v.ev /\ u.live = v.live /\ u.events = v.events /\ u.immediate = v.immediate
       /\ u.next = v.next /\ u.pending = v.pending /\ Only(v, u, {"rec", "speed", "sub"})
  BY <1>7, <1>10, <1>12 DEF Only, Scalars, Good, Lists, Listed, Typed, ListFields
<1>14. Good(v, u)
  <2>1. u.frame \in Nat
    BY <1>1, <1>9, <1>13, FrameFacts
  <2> QED BY <2>1, <1>7, <1>13, SameLists DEF Good
<1>15. Good(t, u)
  BY <1>4, <1>5, <1>6, <1>7, <1>14 DEF Good
<1>16. Only(t, u, {"frame", "work", "rec", "speed", "sub"})
  BY <1>8, <1>13 DEF Only
<1>17. u.sub \subseteq {"AutoReturning"}
  BY <1>13 DEF ClearedSub
<1>18. u.plocate = t.plocate /\ u.lastRoll = t.lastRoll /\ u.count = t.count
      /\ u.punchIn = t.punchIn /\ u.astray = t.astray /\ u.proll = t.proll
  BY <1>16 DEF Only, Scalars, ListFields
<1>19. Scalars(u)
  BY <1>1, <1>2, <1>9, <1>10, <1>11, <1>13, <1>17, <1>18 DEF Scalars, Subs
<1>20. u = RealtimeStop(t, clear)
  BY DEF RealtimeStop, u, v, c, b, a, moved, bits
<1> QED BY <1>1, <1>2, <1>9, <1>13, <1>15, <1>16, <1>17, <1>19, <1>20

(* stop_transport has three ways: to wait for recorded input, to declick,  *)
(* or to stop; only the last touches the position.                         *)
LEMMA StopHolds ==
    ASSUME NeverDry, NEW t, Fit(t)
    PROVE  LET u == StopTransport(t)
           IN  /\ Holds(t, u) /\ \A d : Firm(t, d) => Firm(u, d)
               /\ u.want = t.want
               /\ \/ u = t
                  \/ "DeclickOut" \in t.sub /\ u.sub \cap {"DeclickOut", "Locate"} = {}
                       /\ ~Calm(u) /\ Awaits(u)
                       /\ u.speed = 0 /\ "Stop" \in u.work /\ t.work \subseteq u.work
                       /\ (t.rec # "Recording" => u.frame = t.frame)
                  \/ u.frame = t.frame /\ u.work = t.work /\ u.speed = t.speed /\ u.rec = t.rec
                       /\ u.plocate = t.plocate /\ t.sub \subseteq u.sub
                       /\ (AwaitsInput(t) \/ "DeclickOut" \notin t.sub)
<1> DEFINE u == StopTransport(t)
<1>1. CASE t.speed = 0
  BY <1>1 DEF StopTransport, Holds
<1>2. CASE t.speed # 0 /\ AwaitsInput(t)
  <2> DEFINE event == Event("StopOnce", "Replace", t.frame + Latency - Block, 0, FALSE)
             v == ReplaceEvent(Created(t, Held, event), New(t, Held))
             w == [v EXCEPT !.sub = @ \cup {"StopPendingCapture"}]
  <2>1. StopTransport(t) = w
    BY <1>2 DEF StopTransport
  <2>2. event.frame \in Nat /\ Proper(event) /\ event.type \in OnceOnly
    <3>1. t.frame \in Nat /\ Latency > Block
      BY <1>2, FrameFacts DEF AwaitsInput, Fit, Scalars
    <3>2. t.frame + Latency - Block \in Nat
      BY <3>1, FrameFacts
    <3>3. /\ event.frame = t.frame + Latency - Block /\ event.type = "StopOnce"
          /\ event.target = 0 /\ event.on = FALSE
          /\ {"type", "frame", "target", "on"} \subseteq DOMAIN event
      BY DEF Event
    <3> HIDE DEF event
    <3> QED BY <3>2, <3>3, FrameFacts DEF Proper, Kept, OnceOnly
  <2>3. Good(t, v) /\ Only(t, v, {})
    BY <2>2, CreateAndReplace DEF Fit
  <2> HIDE DEF v
  <2>4. Only(t, v, Elsewhere)
    BY <2>3 DEF Only
  <2>5. /\ Holds(t, v) /\ DOMAIN v = DOMAIN t
        /\ v.work = t.work /\ v.sub = t.sub /\ v.speed = t.speed /\ v.frame = t.frame
        /\ v.rec = t.rec /\ v.plocate = t.plocate /\ v.count = t.count /\ v.want = t.want
        /\ v.astray = t.astray
    BY <2>3, <2>4, ElsewhereHolds DEF Only
  <2>6. /\ DOMAIN w = DOMAIN v /\ w.sub = v.sub \cup {"StopPendingCapture"}
        /\ w.work = v.work /\ w.speed = v.speed /\ w.frame = v.frame /\ w.rec = v.rec
        /\ w.plocate = v.plocate /\ w.count = v.count /\ w.lastRoll = v.lastRoll
        /\ w.punchIn = v.punchIn /\ w.astray = v.astray /\ w.proll = v.proll /\ w.want = v.want
        /\ w.ev = v.ev /\ w.live = v.live /\ w.events = v.events /\ w.immediate = v.immediate
        /\ w.next = v.next /\ w.pending = v.pending
    BY <2>5 DEF Holds, Fit, Scalars, Lists, Listed, Typed, ListFields
  <2> HIDE DEF w
  <2>7. Good(v, w)
    <3>1. w.frame \in Nat
      BY <2>5, <2>6, FrameFacts DEF Fit, Scalars
    <3> QED BY <3>1, <2>5, <2>6, SameLists DEF Holds, Fit
  <2>8. Scalars(w) /\ Fresh(w) /\ Posted(w)
    BY <2>5, <2>6 DEF Holds, Fit, Scalars, Fresh, Posted, Subs
  <2>9. \A d : Firm(v, d) = Firm(w, d) /\ (Placed(v, d) = Placed(w, d))
    BY <2>6 DEF Placed, Firm, Awaits, Calm
  <2>10. Holds(v, w)
    BY <2>5, <2>7, <2>8, <2>9 DEF Holds, Fit, Good
  <2>11. \A d : Firm(t, d) = Firm(w, d)
    BY <2>5, <2>6 DEF Firm, Awaits, Calm
  <2> QED BY <2>1, <2>5, <2>6, <2>10, <2>11, <1>2, HoldsOn
<1>3. CASE t.speed # 0 /\ ~AwaitsInput(t) /\ "DeclickOut" \notin t.sub
  <2> DEFINE w == [t EXCEPT !.sub = @ \cup {"DeclickOut"}]
  <2>1. StopTransport(t) = w
    BY <1>3 DEF StopTransport
  <2>2. /\ DOMAIN w = DOMAIN t /\ w.sub = t.sub \cup {"DeclickOut"} /\ w.want = t.want
        /\ w.work = t.work /\ w.speed = t.speed /\ w.frame = t.frame /\ w.rec = t.rec
        /\ w.plocate = t.plocate /\ w.count = t.count /\ w.lastRoll = t.lastRoll
        /\ w.punchIn = t.punchIn /\ w.astray = t.astray /\ w.proll = t.proll
        /\ w.ev = t.ev /\ w.live = t.live /\ w.events = t.events /\ w.immediate = t.immediate
        /\ w.next = t.next /\ w.pending = t.pending
    BY DEF Fit, Scalars, Lists, Listed, Typed, ListFields
  <2> HIDE DEF w
  <2>3. Good(t, w)
    <3>1. w.frame \in Nat
      BY <2>2, FrameFacts DEF Fit, Scalars
    <3> QED BY <3>1, <2>2, SameLists DEF Fit
  <2>4. Scalars(w) /\ Fresh(w) /\ Posted(w)
    BY <2>2, <1>3 DEF Fit, Scalars, Fresh, Posted, Subs
  <2>5. \A d : Firm(t, d) = Firm(w, d) /\ (Placed(t, d) = Placed(w, d))
    BY <2>2 DEF Placed, Firm, Awaits, Calm
  <2>6. Holds(t, w)
    BY <2>3, <2>4, <2>5 DEF Holds, Fit, Good
  <2> QED BY <2>1, <2>2, <2>5, <2>6, <1>3
<1>4. CASE t.speed # 0 /\ ~AwaitsInput(t) /\ "DeclickOut" \in t.sub
  <2> DEFINE v == RealtimeStop(t, FALSE)
             w == ScheduleWork(v, {})
  <2>1. StopTransport(t) = w
    BY <1>4 DEF StopTransport
  <2>2. /\ Good(t, v) /\ Scalars(v) /\ Only(t, v, {"frame", "work", "rec", "speed", "sub"})
        /\ v.speed = 0 /\ v.sub \subseteq {"AutoReturning"}
        /\ "Stop" \in v.work /\ t.work \subseteq v.work
        /\ "Locate" \in v.work => "Locate" \in t.work
        /\ t.rec # "Recording" => v.frame = t.frame
    BY RealtimeStops DEF Fit
  <2> HIDE DEF v
  <2>3. v.count = t.count /\ v.want = t.want
    BY <2>2 DEF Only, Fit, Scalars, ListFields
  <2>4. /\ DOMAIN w = DOMAIN v /\ w.sub = v.sub /\ w.work = v.work
        /\ w.speed = v.speed /\ w.frame = v.frame /\ w.rec = v.rec
        /\ w.plocate = v.plocate /\ w.count = v.count + 1 /\ w.lastRoll = v.lastRoll
        /\ w.punchIn = v.punchIn /\ w.astray = v.astray /\ w.proll = v.proll /\ w.want = v.want
        /\ w.ev = v.ev /\ w.live = v.live /\ w.events = v.events /\ w.immediate = v.immediate
        /\ w.next = v.next /\ w.pending = v.pending
    BY <2>2 DEF Good, Scalars, Lists, Listed, Typed, ListFields, ScheduleWork, AddWork
  <2> HIDE DEF w
  <2>5. Good(v, w)
    <3>1. w.frame \in Nat
      BY <2>2, <2>4, FrameFacts DEF Scalars
    <3> QED BY <3>1, <2>2, <2>4, SameLists DEF Good
  <2>6. Scalars(w)
    BY <2>2, <2>4 DEF Scalars
  <2>7. Fresh(w)
    BY <2>2, <2>4 DEF Fresh
  <2>8. Posted(w)
    <3>1. w.count = t.count + 1 /\ t.count \in Nat /\ on_entry \in Nat
      BY <2>3, <2>4 DEF Fit, Scalars, Owed
    <3> QED BY <3>1, <2>2, <2>4 DEF Fit, Posted
  <2>9. ~Calm(w) /\ Awaits(w)
    <3>1. w.count = t.count + 1 /\ t.count \in Nat /\ on_entry \in Nat
      BY <2>3, <2>4 DEF Fit, Scalars, Owed
    <3> QED BY <3>1, <2>2, <2>4 DEF Fit, Posted, Calm, Awaits
  <2>10. \A d : Firm(w, d) /\ Placed(w, d)
    BY <2>2, <2>4, <2>9 DEF Firm, Placed
  <2>11. Holds(t, w)
    BY <2>2, <2>5, <2>6, <2>7, <2>8, <2>10 DEF Holds, Fit, Good
  <2> QED BY <2>1, <2>2, <2>3, <2>4, <2>9, <2>10, <2>11, <1>4
<1> QED BY <1>1, <1>2, <1>3, <1>4

(* Beginning to record changes what is recorded, and the histories.        *)
LEMMA Recorded ==
    ASSUME NEW t, Scalars(t), Lists(t)
    PROVE  LET w == Record(t)
           IN  /\ DOMAIN w = DOMAIN t /\ w.sub = t.sub /\ w.rec = "Recording"
               /\ w.work = t.work /\ w.speed = t.speed /\ w.frame = t.frame
               /\ w.plocate = t.plocate /\ w.count = t.count /\ w.lastRoll = t.lastRoll
               /\ w.punchIn = t.punchIn /\ w.proll = t.proll
               /\ w.ev = t.ev /\ w.live = t.live /\ w.events = t.events
               /\ w.immediate = t.immediate /\ w.next = t.next /\ w.pending = t.pending
               /\ IF "Locate" \in t.sub THEN w.astray = TRUE /\ w.want = Nowhere
                  ELSE w.astray = t.astray /\ w.want = t.want
<1>1. CASE "Locate" \in t.sub
  <2>1. Record(t) = [t EXCEPT !.rec = "Recording", !.astray = TRUE, !.want = Nowhere]
    BY <1>1 DEF Record
  <2> QED BY <1>1, <2>1 DEF Scalars, Lists, Listed, Typed, ListFields
<1>2. CASE "Locate" \notin t.sub
  <2>1. Record(t) = [t EXCEPT !.rec = "Recording"]
    BY <1>2 DEF Record
  <2> QED BY <1>2, <2>1 DEF Scalars, Lists, Listed, Typed, ListFields
<1> QED BY <1>1, <1>2

(* start_transport begins to record where the position is, unless a locate *)
(* waits.                                                                  *)
LEMMA Starting ==
    ASSUME NEW t, Scalars(t), Lists(t)
    PROVE  LET w == StartTransport(t)
           IN  /\ DOMAIN w = DOMAIN t /\ w.sub = t.sub \cup {"DeclickIn"}
               /\ w.rec \in {"Disabled", "Enabled", "Recording"}
               /\ w.work = t.work /\ w.speed = 1 /\ w.frame = t.frame
               /\ w.plocate = t.plocate /\ w.count = t.count /\ w.lastRoll = t.frame
               /\ w.punchIn = t.punchIn /\ w.proll = t.proll /\ w.want = Nowhere
               /\ w.astray \in BOOLEAN /\ (t.astray = TRUE => w.astray = TRUE)
               /\ w.ev = t.ev /\ w.live = t.live /\ w.events = t.events
               /\ w.immediate = t.immediate /\ w.next = t.next /\ w.pending = t.pending
               /\ "Locate" \in t.sub /\ t.rec # "Recording" =>
                    w.rec # "Recording" \/ w.astray = TRUE
<1> DEFINE u == [t EXCEPT !.lastRoll = t.frame, !.speed = 1, !.sub = @ \cup {"DeclickIn"},
                          !.want = Nowhere]
           v == Record(u)
           d == [u EXCEPT !.rec = "Disabled"]
           w == StartTransport(t)
<1>1. /\ DOMAIN u = DOMAIN t /\ u.sub = t.sub \cup {"DeclickIn"} /\ u.rec = t.rec
      /\ u.work = t.work /\ u.speed = 1 /\ u.frame = t.frame
      /\ u.plocate = t.plocate /\ u.count = t.count /\ u.lastRoll = t.frame
      /\ u.punchIn = t.punchIn /\ u.proll = t.proll /\ u.want = Nowhere
      /\ u.astray = t.astray
      /\ u.ev = t.ev /\ u.live = t.live /\ u.events = t.events
      /\ u.immediate = t.immediate /\ u.next = t.next /\ u.pending = t.pending
  BY DEF Scalars, Lists, Listed, Typed, ListFields
<1>2. w = v \/ w = d \/ (w = u /\ t.rec \in {"Disabled", "Enabled", "Recording"})
  BY DEF StartTransport, Scalars
<1> HIDE DEF u
<1>3. Scalars(u) /\ Lists(u)
  <2>1. u.frame \in Nat
    BY <1>1, FrameFacts DEF Scalars
  <2>2. Good(t, u)
    BY <2>1, <1>1, SameLists
  <2> QED BY <2>2, <1>1 DEF Good, Scalars, Subs
<1>4. /\ DOMAIN d = DOMAIN u /\ d.sub = u.sub /\ d.rec = "Disabled"
      /\ d.work = u.work /\ d.speed = u.speed /\ d.frame = u.frame
      /\ d.plocate = u.plocate /\ d.count = u.count /\ d.lastRoll = u.lastRoll
      /\ d.punchIn = u.punchIn /\ d.proll = u.proll /\ d.want = u.want
      /\ d.astray = u.astray
      /\ d.ev = u.ev /\ d.live = u.live /\ d.events = u.events
      /\ d.immediate = u.immediate /\ d.next = u.next /\ d.pending = u.pending
  BY <1>3 DEF Scalars, Lists, Listed, Typed, ListFields
<1>5. /\ DOMAIN v = DOMAIN u /\ v.sub = u.sub /\ v.rec = "Recording"
      /\ v.work = u.work /\ v.speed = u.speed /\ v.frame = u.frame
      /\ v.plocate = u.plocate /\ v.count = u.count /\ v.lastRoll = u.lastRoll
      /\ v.punchIn = u.punchIn /\ v.proll = u.proll
      /\ v.ev = u.ev /\ v.live = u.live /\ v.events = u.events
      /\ v.immediate = u.immediate /\ v.next = u.next /\ v.pending = u.pending
      /\ IF "Locate" \in u.sub THEN v.astray = TRUE /\ v.want = Nowhere
         ELSE v.astray = u.astray /\ v.want = u.want
  BY <1>3, Recorded
<1> HIDE DEF v, d, w
<1>6. CASE w = v
  <2>1. "Locate" \in u.sub <=> "Locate" \in t.sub
    BY <1>1
  <2>2. v.want = Nowhere /\ ("Locate" \in t.sub => v.astray = TRUE)
        /\ ("Locate" \notin t.sub => v.astray = t.astray)
    BY <1>1, <1>5, <2>1
  <2> QED BY <1>1, <1>5, <1>6, <2>2 DEF w, Scalars
<1>7. CASE w = d
  BY <1>1, <1>4, <1>7 DEF w, Scalars
<1>8. CASE w = u /\ t.rec \in {"Disabled", "Enabled", "Recording"}
  BY <1>1, <1>8 DEF w, Scalars
<1> QED BY <1>2, <1>6, <1>7, <1>8

(* set_transport_speed starts the transport only while no stop or locate   *)
(* is at work.                                                             *)
LEMMA SpeedHolds ==
    ASSUME NeverDry, NEW t, Fit(t), NEW on \in BOOLEAN, on => Calm(t)
    PROVE  LET u == SetTransportSpeed(t, on)
           IN  /\ Holds(t, u) /\ (t.speed # 0 /\ on => u = t)
               /\ t.speed = 0 /\ on => u.speed = 1 /\ u.want = Nowhere
<1> DEFINE u == SetTransportSpeed(t, on)
<1>1. CASE on /\ t.speed = 0
  <2> DEFINE w == StartTransport(t)
  <2>1. u = w
    BY <1>1 DEF SetTransportSpeed
  <2>2. /\ DOMAIN w = DOMAIN t /\ w.sub = t.sub \cup {"DeclickIn"}
        /\ w.rec \in {"Disabled", "Enabled", "Recording"}
        /\ w.work = t.work /\ w.speed = 1 /\ w.frame = t.frame
        /\ w.plocate = t.plocate /\ w.count = t.count /\ w.lastRoll = t.frame
        /\ w.punchIn = t.punchIn /\ w.proll = t.proll /\ w.want = Nowhere
        /\ w.astray \in BOOLEAN /\ (t.astray = TRUE => w.astray = TRUE)
        /\ w.ev = t.ev /\ w.live = t.live /\ w.events = t.events /\ w.immediate = t.immediate
        /\ w.next = t.next /\ w.pending = t.pending
    BY Starting DEF Fit
  <2> HIDE DEF w
  <2>4. Good(t, w)
    <3>1. w.frame \in Nat
      BY <2>2, FrameFacts DEF Fit, Scalars
    <3> QED BY <3>1, <2>2, SameLists DEF Fit
  <2>5. Scalars(w)
    BY <2>2 DEF Fit, Scalars, Subs
  <2>6. Fresh(w)
    BY <2>2, <1>1 DEF Fit, Fresh
  <2>7. Posted(w)
    BY <2>2, <1>1 DEF Fit, Posted, Calm
  <2>9. \A d : Placed(t, d) => Placed(w, d)
    BY <2>2, <1>1 DEF Placed, Firm, Awaits, Calm, Fit, Fresh
  <2>10. Holds(t, w)
    BY <2>4, <2>5, <2>6, <2>7, <2>9 DEF Holds, Fit, Good
  <2> QED BY <2>1, <2>2, <2>10, <1>1
<1>2. CASE ~on /\ t.speed # 0
  <2>1. u = StopTransport(t)
    BY <1>2 DEF SetTransportSpeed
  <2> QED BY <2>1, <1>2, StopHolds
<1>3. CASE ~(on /\ t.speed = 0) /\ ~(~on /\ t.speed # 0)
  <2>1. u = t
    BY <1>3 DEF SetTransportSpeed
  <2> QED BY <2>1, <1>3 DEF Holds
<1> QED BY <1>1, <1>2, <1>3

(* Updates of fields elsewhere.                                            *)
LEMMA UpdateHolds ==
    ASSUME NEW t, Fit(t), NEW u, Only(t, u, Elsewhere),
           u.ev = t.ev, u.live = t.live, u.events = t.events, u.immediate = t.immediate,
           u.next = t.next, u.pending = t.pending
    PROVE  /\ Good(t, u) /\ Holds(t, u)
           /\ u.work = t.work /\ u.sub = t.sub /\ u.speed = t.speed /\ u.frame = t.frame
           /\ u.rec = t.rec /\ u.plocate = t.plocate /\ u.count = t.count
           /\ u.punchIn = t.punchIn /\ u.astray = t.astray
           /\ u.proll = t.proll /\ u.lastRoll = t.lastRoll
<1>1. u.frame = t.frame /\ DOMAIN u = DOMAIN t
  BY DEF Only, Fit, Scalars, ListFields, Elsewhere
<1>2. u.frame \in Nat
  BY <1>1, FrameFacts DEF Fit, Scalars
<1>3. Good(t, u)
  BY <1>1, <1>2, SameLists DEF Fit
<1> QED BY <1>3, ElsewhereHolds

(* Ending a loop queues the request that clears its event, and ending a    *)
(* range clears its events.                                                *)
LEMMA UnsetLoopHolds ==
    ASSUME NeverDry, NEW t, Fit(t)
    PROVE  LET u == UnsetPlayLoop(t)
           IN  Holds(t, u) /\ u.work = t.work /\ Only(t, u, Elsewhere)
<1> DEFINE event == Event("AutoLoop", "Clear", 0, 0, FALSE)
           v == [t EXCEPT !.loop = FALSE]
           u == Queue(v, event)
<1>1. Proper(event) /\ Asked(event) /\ event.frame \in Nat
  BY FrameFacts DEF Event, Proper, Asked, Kept
<1>2. /\ Only(t, v, Elsewhere)
      /\ v.ev = t.ev /\ v.live = t.live /\ v.events = t.events /\ v.immediate = t.immediate
      /\ v.next = t.next /\ v.pending = t.pending
  BY DEF Only, Elsewhere, Fit, Scalars, Lists, Listed, Typed, ListFields
<1> HIDE DEF v
<1>3. Good(t, v) /\ Holds(t, v) /\ v.work = t.work
  BY <1>2, UpdateHolds
<1> HIDE DEF event
<1>4. Good(v, u) /\ Only(v, u, {})
  BY <1>1, <1>3, QueueFits DEF Good
<1> HIDE DEF u
<1>5. Good(t, u) /\ Only(t, u, Elsewhere)
  BY <1>2, <1>3, <1>4 DEF Good, Only
<1>6. Holds(t, u) /\ u.work = t.work
  BY <1>5, ElsewhereHolds
<1> QED BY <1>5, <1>6 DEF UnsetPlayLoop, u, v, event

(* unset_play_range.                                                       *)
LEMMA UnsetRangeHolds ==
    ASSUME NEW t, Fit(t)
    PROVE  LET u == UnsetPlayRange(t)
           IN  Holds(t, u) /\ u.work = t.work /\ Only(t, u, Elsewhere)
<1> DEFINE v == [t EXCEPT !.range = FALSE]
           w == ClearEventType(v, "RangeStop")
           u == ClearEventType(w, "RangeLocate")
<1>1. /\ Only(t, v, Elsewhere)
      /\ v.ev = t.ev /\ v.live = t.live /\ v.events = t.events /\ v.immediate = t.immediate
      /\ v.next = t.next /\ v.pending = t.pending
  BY DEF Only, Elsewhere, Fit, Scalars, Lists, Listed, Typed, ListFields
<1> HIDE DEF v
<1>2. Good(t, v)
  BY <1>1, UpdateHolds
<1>3. Good(v, w) /\ Only(v, w, {})
  BY <1>2, ClearFits DEF Good
<1> HIDE DEF w
<1>4. Good(w, u) /\ Only(w, u, {})
  BY <1>3, ClearFits DEF Good
<1> HIDE DEF u
<1>5. Good(t, u) /\ Only(t, u, Elsewhere)
  BY <1>1, <1>2, <1>3, <1>4 DEF Good, Only
<1>6. Holds(t, u) /\ u.work = t.work
  BY <1>5, ElsewhereHolds
<1> QED BY <1>5, <1>6 DEF UnsetPlayRange, u, v, w

(* A locate that need not declick first posts its work.                    *)
Located(t, target, roll) ==
    LET moved == [t EXCEPT !.frame = target]
        stopped == IF t.speed # 0 /\ ~roll THEN RealtimeStop(moved, TRUE) ELSE moved
    IN  ScheduleWork(stopped, {"Locate"} \cup (IF roll THEN {"Roll"} ELSE {}))
(* A locate of a transport at rest, or after its declick.                  *)
LEMMA LocatedHolds ==
    ASSUME NEW t, Fit(t), NEW target \in Frames, NEW roll \in BOOLEAN, roll => Calm(t),
           t.rec # "Recording"
    PROVE  LET u == Located(t, target, roll)
           IN  /\ Holds(t, u) /\ ~Calm(u) /\ Awaits(u)
               /\ u.frame = target /\ u.want = t.want /\ t.work \subseteq u.work
               /\ IF roll THEN {"Locate", "Roll"} \subseteq u.work /\ u.speed = t.speed
                  ELSE u.speed = 0 /\ (t.speed # 0 => "Stop" \in u.work)
<1> DEFINE moved == [t EXCEPT !.frame = target]
           stopped == IF t.speed # 0 /\ ~roll THEN RealtimeStop(moved, TRUE) ELSE moved
           bits == {"Locate"} \cup (IF roll THEN {"Roll"} ELSE {})
           u == ScheduleWork(stopped, bits)
<1>1. /\ DOMAIN moved = DOMAIN t /\ moved.frame = target
      /\ moved.sub = t.sub /\ moved.work = t.work /\ moved.speed = t.speed
      /\ moved.rec = t.rec /\ moved.plocate = t.plocate /\ moved.count = t.count
      /\ moved.lastRoll = t.lastRoll /\ moved.punchIn = t.punchIn
      /\ moved.astray = t.astray /\ moved.proll = t.proll
      /\ moved.want = t.want
      /\ moved.ev = t.ev /\ moved.live = t.live /\ moved.events = t.events
      /\ moved.immediate = t.immediate /\ moved.next = t.next /\ moved.pending = t.pending
  BY DEF Fit, Scalars, Lists, Listed, Typed, ListFields
<1> HIDE DEF moved
<1>2. Good(t, moved) /\ Scalars(moved)
  <2>1. moved.frame \in Nat
    BY <1>1, FrameFacts
  <2>2. Good(t, moved)
    BY <2>1, <1>1, SameLists DEF Fit
  <2>3. Scalars(moved)
    BY <1>1 DEF Fit, Scalars
  <2> QED BY <2>2, <2>3
<1>3. /\ Good(moved, stopped) /\ Scalars(stopped) /\ stopped.count = t.count
      /\ t.work \subseteq stopped.work /\ ("Locate" \in stopped.work => "Locate" \in t.work)
      /\ stopped.frame = target /\ stopped.want = t.want
      /\ IF t.speed # 0 /\ ~roll
         THEN stopped.speed = 0 /\ stopped.sub \subseteq {"AutoReturning"}
               /\ "Stop" \in stopped.work
         ELSE /\ stopped.speed = t.speed /\ stopped.sub = t.sub /\ stopped.rec = t.rec
              /\ stopped.work = t.work
  <2>1. CASE t.speed # 0 /\ ~roll
    <3>1. stopped = RealtimeStop(moved, TRUE)
      BY <2>1
    <3> HIDE DEF stopped
    <3>2. /\ Good(moved, stopped) /\ Scalars(stopped)
          /\ Only(moved, stopped, {"frame", "work", "rec", "speed", "sub"})
          /\ stopped.speed = 0 /\ stopped.sub \subseteq {"AutoReturning"}
          /\ moved.work \subseteq stopped.work /\ "Stop" \in stopped.work
          /\ stopped.frame = moved.frame
          /\ "Locate" \in stopped.work => "Locate" \in moved.work
      BY <3>1, <1>1, <1>2, RealtimeStops DEF Good
    <3>3. stopped.count = moved.count /\ stopped.want = moved.want
      BY <3>2, <1>2 DEF Only, Scalars, ListFields
    <3> QED BY <2>1, <3>2, <3>3, <1>1
  <2>2. CASE ~(t.speed # 0 /\ ~roll)
    <3>1. stopped = moved
      BY <2>2
    <3>2. Good(moved, moved)
      BY <1>2 DEF Good
    <3> HIDE DEF stopped
    <3> QED BY <2>2, <3>1, <3>2, <1>1, <1>2
  <2> QED BY <2>1, <2>2
<1> HIDE DEF stopped
<1>4. bits \subseteq Works /\ "Locate" \in bits
      /\ (("Roll" \in bits) <=> roll) /\ "Stop" \notin bits
  BY DEF Works
<1> HIDE DEF bits
<1>5. /\ DOMAIN u = DOMAIN stopped /\ u.sub = stopped.sub /\ u.work = stopped.work \cup bits
      /\ u.speed = stopped.speed /\ u.frame = stopped.frame /\ u.rec = stopped.rec
      /\ u.want = stopped.want
      /\ u.plocate = stopped.plocate /\ u.count = stopped.count + 1
      /\ u.lastRoll = stopped.lastRoll /\ u.punchIn = stopped.punchIn
      /\ u.astray = stopped.astray /\ u.proll = stopped.proll
      /\ u.ev = stopped.ev /\ u.live = stopped.live /\ u.events = stopped.events
      /\ u.immediate = stopped.immediate /\ u.next = stopped.next /\ u.pending = stopped.pending
  BY <1>3 DEF Good, Scalars, Lists, Listed, Typed, ListFields, ScheduleWork, AddWork
<1> HIDE DEF u
<1>6. Good(t, u)
  <2>1. u.frame \in Nat
    BY <1>3, <1>5, FrameFacts DEF Scalars
  <2>2. Good(stopped, u)
    BY <2>1, <1>3, <1>5, SameLists DEF Good
  <2> QED BY <2>2, <1>2, <1>3 DEF Good
<1>7. Scalars(u)
  BY <1>3, <1>4, <1>5 DEF Scalars
<1>8. Fresh(u)
  BY <1>3, <1>5 DEF Fit, Fresh
<1>9. u.count = t.count + 1 /\ t.count \in Nat /\ on_entry \in Nat
  BY <1>3, <1>5 DEF Fit, Scalars, Owed
<1>10. Posted(u)
  <2>1. bpc # "idle" => u.count >= on_entry /\ ptw \subseteq u.work
    BY <1>3, <1>5, <1>9 DEF Fit, Posted
  <2>2. "Stop" \in u.work => u.speed = 0
    BY <1>3, <1>4, <1>5 DEF Fit, Posted, Calm, Scalars
  <2>3. "Roll" \notin u.work => u.speed = 0
    BY <1>3, <1>4, <1>5 DEF Fit, Scalars
  <2> QED BY <2>1, <2>2, <2>3 DEF Posted
<1>11. ~Calm(u) /\ Awaits(u)
  <2>1. ~Calm(u)
    BY <1>4, <1>5 DEF Calm
  <2>2. Awaits(u)
    BY <1>9 DEF Fit, Posted, Awaits
  <2> QED BY <2>1, <2>2
<1>12. \A d : Placed(u, d)
  BY <1>11 DEF Placed, Firm
<1>14. Holds(t, u)
  BY <1>6, <1>7, <1>8, <1>10, <1>12 DEF Holds, Fit, Good
<1>15. IF roll THEN {"Locate", "Roll"} \subseteq u.work /\ u.speed = t.speed
       ELSE u.speed = 0 /\ (t.speed # 0 => "Stop" \in u.work)
  BY <1>3, <1>4, <1>5
<1> QED BY <1>3, <1>5, <1>11, <1>14, <1>15 DEF Located, u, stopped, moved, bits

(* locate: refused while recording; started at once, declicked first, or   *)
(* posted otherwise. In the last case, and after its declick, nothing      *)
(* plays before the seek.                                                  *)
LEMMA LocateHolds ==
    ASSUME NeverDry, NEW t, Fit(t), NEW target \in Frames, NEW roll \in BOOLEAN, roll => Calm(t)
    PROVE  LET u == Locate(t, target, roll)
           IN  /\ Holds(t, u)
               /\ "DeclickOut" \in t.sub => \A d : Firm(t, d) => Firm(u, d)
               /\ "DeclickOut" \in t.sub /\ t.rec # "Recording" /\ t.frame # target =>
                    \A d : Firm(u, d)
<1> DEFINE u == Locate(t, target, roll)
           moved == [t EXCEPT !.frame = target]
           located == Located(t, target, roll)
<1>1. CASE t.rec = "Recording"
  <2>1. u = t
    BY <1>1 DEF Locate
  <2> QED BY <2>1, <1>1 DEF Holds
<1>2. CASE t.rec # "Recording" /\ t.frame = target
  <2>1. u = IF roll THEN SetTransportSpeed(t, TRUE) ELSE t
    BY <1>2 DEF Locate
  <2>2. CASE roll
    <3>1. u = SetTransportSpeed(t, TRUE)
      BY <2>1, <2>2
    <3> HIDE DEF u
    <3>2. Holds(t, u) /\ (t.speed # 0 => u = t)
      BY <3>1, <2>2, SpeedHolds
    <3>3. "DeclickOut" \in t.sub => t.speed # 0
      BY DEF Fit, Fresh
    <3> QED BY <3>2, <3>3, <1>2 DEF u
  <2>3. CASE ~roll
    <3>1. u = t
      BY <2>1, <2>3
    <3> QED BY <3>1, <1>2 DEF Holds
  <2> QED BY <2>2, <2>3
<1>3. CASE t.rec # "Recording" /\ t.frame # target /\ t.speed # 0 /\ "DeclickOut" \notin t.sub
  <2> DEFINE w == ScheduleDeclick(moved, target, roll)
  <2>1. u = w
    BY <1>3 DEF Locate
  <2>2. /\ DOMAIN w = DOMAIN t /\ w.frame = target /\ w.plocate = target
        /\ w.sub = t.sub \cup {"DeclickOut", "Locate"} /\ w.work = t.work /\ w.speed = t.speed
        /\ w.rec = t.rec /\ w.count = t.count
        /\ w.lastRoll = t.lastRoll /\ w.punchIn = t.punchIn /\ w.astray = t.astray /\ w.proll = roll
        /\ w.ev = t.ev /\ w.live = t.live /\ w.events = t.events
        /\ w.immediate = t.immediate /\ w.next = t.next /\ w.pending = t.pending
    BY DEF ScheduleDeclick, Fit, Scalars, Lists, Listed, Typed, ListFields
  <2> HIDE DEF w
  <2>3. Good(t, w)
    <3>1. w.frame \in Nat
      BY <2>2, FrameFacts
    <3> QED BY <3>1, <2>2, SameLists DEF Fit
  <2>4. Scalars(w) /\ Fresh(w) /\ Posted(w)
    BY <2>2, <1>3 DEF Fit, Scalars, Fresh, Posted, Subs
  <2>5. \A d : Placed(w, d)
    BY <2>2, <1>3 DEF Placed
  <2>7. Holds(t, w)
    BY <2>3, <2>4, <2>5 DEF Holds, Fit, Good
  <2> QED BY <2>1, <2>7, <1>3
<1>4. CASE /\ t.rec # "Recording" /\ t.frame # target
           /\ ~(t.speed # 0 /\ "DeclickOut" \notin t.sub)
  <2>1. u = IF t.loop /\ (target < LoopStart \/ target > LoopEnd)
            THEN UnsetPlayLoop(located) ELSE located
    BY <1>4 DEF Locate, Located
  <2>2. Holds(t, located) /\ ~Calm(located) /\ Awaits(located)
    BY <1>4, LocatedHolds
  <2> HIDE DEF located
  <2>3. CASE u = located
    BY <2>2, <2>3 DEF Firm
  <2>4. CASE u = UnsetPlayLoop(located)
    <3> DEFINE v == UnsetPlayLoop(located)
    <3>1. Holds(located, v) /\ v.work = located.work /\ Only(located, v, Elsewhere)
      BY <2>2, UnsetLoopHolds DEF Holds
    <3> HIDE DEF v
    <3>2. v.count = located.count
      BY <3>1, <2>2 DEF Only, Holds, Fit, Scalars, ListFields, Elsewhere
    <3>3. \A d : Firm(v, d)
      BY <2>2, <3>1, <3>2 DEF Firm, Calm, Awaits
    <3>4. Holds(t, v)
      BY <2>2, <3>1, HoldsOn
    <3>5. u = v
      BY <2>4 DEF v
    <3> QED BY <3>3, <3>4, <3>5
  <2> QED BY <2>1, <2>3, <2>4
<1> QED BY <1>1, <1>2, <1>3, <1>4

(* set_play_loop ends the range, replaces the loop's event and locates.    *)
LEMMA LoopHolds ==
    ASSUME NeverDry, NEW t, Fit(t), NEW on \in BOOLEAN, Calm(t)
    PROVE  Holds(t, SetPlayLoop(t, on))
<1> DEFINE v == [t EXCEPT !.loop = TRUE]
           w == UnsetPlayRange(v)
           event == Event("AutoLoop", "Replace", LoopEnd, LoopStart, FALSE)
           x == ReplaceEvent(Created(w, Held, event), New(w, Held))
           u == Locate(x, LoopStart, TRUE)
<1>1. SetPlayLoop(t, on) \in {t, UnsetPlayLoop(t), u}
  BY DEF SetPlayLoop
<1>2. Holds(t, t) /\ Holds(t, UnsetPlayLoop(t))
  BY UnsetLoopHolds DEF Holds
<1>3. /\ Only(t, v, Elsewhere)
      /\ v.ev = t.ev /\ v.live = t.live /\ v.events = t.events /\ v.immediate = t.immediate
      /\ v.next = t.next /\ v.pending = t.pending
  BY DEF Only, Elsewhere, Fit, Scalars, Lists, Listed, Typed, ListFields
<1> HIDE DEF v
<1>4. Holds(t, v) /\ v.work = t.work
  BY <1>3, UpdateHolds
<1>5. Holds(v, w) /\ w.work = v.work
  BY <1>4, UnsetRangeHolds DEF Holds
<1> HIDE DEF w
<1>6. Proper(event) /\ event.frame \in Nat /\ event.type \in OnceOnly
  BY FrameFacts DEF Event, Proper, Kept, OnceOnly
<1> HIDE DEF event
<1>7. Good(w, x) /\ Only(w, x, {})
  BY <1>5, <1>6, CreateAndReplace DEF Holds, Fit
<1> HIDE DEF x
<1>8. Holds(w, x) /\ x.work = w.work
  <2>1. Only(w, x, Elsewhere)
    BY <1>7 DEF Only
  <2> QED BY <2>1, <1>5, <1>7, ElsewhereHolds DEF Holds
<1>9. Calm(x)
  BY <1>4, <1>5, <1>8 DEF Calm
<1>10. Holds(x, u)
  BY <1>8, <1>9, LocateHolds, FrameFacts DEF Holds
<1> HIDE DEF u
<1>11. Holds(t, u)
  BY <1>4, <1>5, <1>8, <1>10 DEF Holds
<1> QED BY <1>1, <1>2, <1>11

-----------------------------------------------------------------------------
(* Rolling: the tracks have played n frames and the position follows.      *)
Rolled(t, n) == [t EXCEPT !.frame = Least(@ + n, LastFrame)]
(* maybe_stop and check_declick_out after a part: the locate that waited   *)
(* is carried out when its declick has been rolled, and only then.         *)
LEMMA RollHolds ==
    ASSUME NeverDry, NEW t, Fit(t), Calm(t), NEW n \in Nat \ {0}, NEW limit
    PROVE  LET u == CheckDeclickOut(MaybeStop(Rolled(t, n), limit))
           IN  /\ Fit(u)
               /\ \A d \in Nat : Placed(t, d) => Placed(u, d + n)
<1> DEFINE v == Rolled(t, n)
           w == MaybeStop(v, limit)
           x == AfterDeclick(w)
           u == CheckDeclickOut(w)
<1>1. /\ DOMAIN v = DOMAIN t /\ v.frame = Least(t.frame + n, LastFrame)
      /\ v.sub = t.sub /\ v.work = t.work /\ v.speed = t.speed
      /\ v.rec = t.rec /\ v.plocate = t.plocate /\ v.count = t.count
      /\ v.lastRoll = t.lastRoll /\ v.punchIn = t.punchIn
      /\ v.astray = t.astray /\ v.proll = t.proll
      /\ v.ev = t.ev /\ v.live = t.live /\ v.events = t.events
      /\ v.immediate = t.immediate /\ v.next = t.next /\ v.pending = t.pending
  BY DEF Rolled, Fit, Scalars, Lists, Listed, Typed, ListFields
<1> HIDE DEF v
<1>2. /\ v.frame \in Frames /\ t.frame \in Nat
      /\ v.frame = t.frame + n \/ v.frame = LastFrame
      /\ t.frame = LastFrame => v.frame = LastFrame
      /\ v.frame # LastFrame => v.frame # t.frame
  BY <1>1, LengthAssumption DEF Fit, Scalars, Frames, Least
<1>3. Fit(v) /\ Calm(v)
  <2>1. v.frame \in Nat
    BY <1>2, FrameFacts
  <2>2. Good(t, v)
    BY <2>1, <1>1, SameLists DEF Fit
  <2>3. Scalars(v) /\ Fresh(v) /\ Posted(v)
    BY <1>1, <1>2 DEF Fit, Scalars, Fresh, Posted
  <2> QED BY <2>2, <2>3, <1>1 DEF Fit, Good, Calm
<1>4. w = v \/ w = StopTransport(v)
  BY DEF MaybeStop
<1>5. /\ Holds(v, w) /\ \A d : Firm(v, d) => Firm(w, d)
      /\ \/ w = v
         \/ "DeclickOut" \in v.sub /\ w.sub \cap {"DeclickOut", "Locate"} = {}
              /\ ~Calm(w) /\ Awaits(w)
         \/ w.frame = v.frame /\ w.work = v.work /\ w.speed = v.speed /\ w.rec = v.rec
              /\ (AwaitsInput(v) \/ "DeclickOut" \notin v.sub)
  <2>1. CASE w = v
    BY <2>1, <1>3 DEF Holds
  <2>2. CASE w = StopTransport(v)
    <3> HIDE DEF w
    <3> QED BY <2>2, <1>3, StopHolds
  <2> QED BY <1>4, <2>1, <2>2
<1> HIDE DEF w
<1>6. CASE "DeclickOut" \notin w.sub
  <2>1. u = w
    BY <1>6 DEF CheckDeclickOut
  <2>2. Fit(w)
    BY <1>3, <1>5 DEF Holds
  <2>3. ASSUME NEW d \in Nat, Placed(t, d) PROVE Placed(w, d + n)
    <3>1. CASE Firm(v, d + n)
      BY <3>1, <1>5 DEF Placed
    <3>2. CASE ~Firm(v, d + n)
      <4>1. ~Firm(t, d)
        BY <3>2, <1>1, <1>2, <1>3 DEF Firm, Calm
      <4>2. "Locate" \in v.sub /\ v.rec # "Recording"
        BY <4>1, <2>3, <1>1 DEF Placed
      <4>3. "DeclickOut" \in v.sub /\ ~AwaitsInput(v)
        BY <4>2, <1>3 DEF Fit, Fresh, AwaitsInput
      <4>4. ~Calm(w) /\ Awaits(w)
        BY <4>3, <1>5, <1>6
      <4> QED BY <4>4 DEF Placed, Firm
    <3> QED BY <3>1, <3>2
  <2> HIDE DEF u
  <2> QED BY <2>1, <2>2, <2>3 DEF u, w, v
<1>7. CASE "DeclickOut" \in w.sub
  <2>1. Fit(w) /\ Calm(w)
    BY <1>3, <1>5, <1>7 DEF Holds, Calm
  <2>2. u = [x EXCEPT !.sub = @ \ {"DeclickOut", "Locate"}]
    BY <1>7 DEF CheckDeclickOut
  <2>3. w.plocate \in Frames /\ w.speed # 0
    BY <2>1, <1>7 DEF Fit, Scalars, Fresh
  <2>4. /\ Holds(w, x) /\ \A d : Firm(w, d) => Firm(x, d)
        /\ "Locate" \in w.sub /\ w.rec # "Recording" /\ w.frame # w.plocate => \A d : Firm(x, d)
    <3>1. CASE "Locate" \in w.sub
      <4> DEFINE roll == w.proll
      <4>1. x = Locate(w, w.plocate, w.proll)
        BY <3>1 DEF AfterDeclick
      <4>2. w.proll \in BOOLEAN
        BY <2>1 DEF Fit, Scalars
      <4> HIDE DEF x
      <4> QED BY <4>1, <4>2, <2>1, <2>3, <1>7, LocateHolds
    <3>2. CASE "Locate" \notin w.sub
      <4>1. x = StopTransport(w)
        BY <3>2 DEF AfterDeclick
      <4> HIDE DEF x
      <4> QED BY <4>1, <3>2, <2>1, StopHolds
    <3> QED BY <3>1, <3>2
  <2> HIDE DEF x
  <2>5. Fit(x)
    BY <2>4 DEF Holds
  <2> HIDE DEF u
  <2>6. /\ DOMAIN u = DOMAIN x /\ u.frame = x.frame
        /\ u.sub = x.sub \ {"DeclickOut", "Locate"} /\ u.work = x.work /\ u.speed = x.speed
        /\ u.rec = x.rec /\ u.plocate = x.plocate /\ u.count = x.count
        /\ u.lastRoll = x.lastRoll /\ u.punchIn = x.punchIn
        /\ u.astray = x.astray /\ u.proll = x.proll
        /\ u.ev = x.ev /\ u.live = x.live /\ u.events = x.events
        /\ u.immediate = x.immediate /\ u.next = x.next /\ u.pending = x.pending
    BY <2>2, <2>5 DEF Fit, Scalars, Lists, Listed, Typed, ListFields
  <2>7. Fit(u)
    <3>1. u.frame \in Nat
      BY <2>5, <2>6, FrameFacts DEF Fit, Scalars
    <3>2. Good(x, u)
      BY <3>1, <2>5, <2>6, SameLists DEF Fit
    <3>3. Scalars(u) /\ Fresh(u) /\ Posted(u)
      BY <2>5, <2>6 DEF Fit, Scalars, Fresh, Posted
    <3> QED BY <3>2, <3>3, <2>5 DEF Fit, Good
  <2>9. ASSUME NEW d \in Nat, Placed(t, d) PROVE Firm(x, d + n)
    <3>1. CASE Firm(v, d + n)
      BY <3>1, <1>5, <2>4
    <3>2. CASE ~Firm(v, d + n)
      <4>1. ~Firm(t, d)
        BY <3>2, <1>1, <1>2, <1>3 DEF Firm, Calm
      <4>2. "Locate" \in v.sub /\ v.rec # "Recording" /\ v.plocate = t.frame
        BY <4>1, <2>9, <1>1 DEF Placed
      <4>3. "DeclickOut" \in v.sub /\ ~AwaitsInput(v)
        BY <4>2, <1>3 DEF Fit, Fresh, AwaitsInput
      <4>4. w = v
        BY <4>3, <1>5, <1>7
      <4>5. w.frame # w.plocate
        BY <4>2, <4>4, <3>2, <1>2 DEF Firm
      <4> QED BY <4>2, <4>4, <4>5, <2>4
    <3> QED BY <3>1, <3>2
  <2>10. \A d : Firm(x, d) => Placed(u, d)
    BY <2>6 DEF Placed, Firm, Calm, Awaits
  <2> QED BY <2>7, <2>9, <2>10 DEF u, w, v
<1> QED BY <1>6, <1>7

-----------------------------------------------------------------------------
(* set_play_range merges the events of its ranges one after the other.     *)
MergedOne(t, i) == AddEvent(Created(t, Held, RangeEvent(i)), New(t, Held))
MergedTo(t, f, n) == f = [i \in 0 .. n |-> IF i = 0 THEN t ELSE MergedOne(f[i - 1], i)]

(* The events of the ranges are of the kinds that stay and may occur       *)
(* often.                                                                  *)
LEMMA RangeEventFits ==
    ASSUME NEW i \in 1 .. Len(Ranges)
    PROVE  /\ Proper(RangeEvent(i)) /\ RangeEvent(i).frame \in Nat
           /\ RangeEvent(i).type \in Kept \ OnceOnly
<1>1. Ranges \in Seq(Frames \X Frames) /\ Len(Ranges) \in Nat
  BY RangeAssumption, LenProperties
<1>2. \A j \in 1 .. Len(Ranges) : Ranges[j] \in Frames \X Frames
  BY <1>1, ElementOfSeq
<1>3. \A j \in 1 .. Len(Ranges) : Ranges[j][1] \in Frames /\ Ranges[j][2] \in Frames
  BY <1>2
<1> DEFINE at == IF Len(Ranges) > 1 THEN Back(Ranges[i][2], Block) ELSE Ranges[i][2]
<1>4. at \in Frames
  <2>1. Ranges[i][2] \in Frames /\ Block \in Nat
    BY <1>3, FrameFacts
  <2> QED BY <2>1, BackStays
<1>5. RangeEvent(i) = IF i = Len(Ranges) THEN Event("RangeStop", "Add", at, 0, FALSE)
                      ELSE Event("RangeLocate", "Add", at, Ranges[i + 1][1], FALSE)
  BY DEF RangeEvent
<1> HIDE DEF at
<1>6. i # Len(Ranges) => Ranges[i + 1][1] \in Frames
  <2>1. i # Len(Ranges) => i + 1 \in 1 .. Len(Ranges)
    BY <1>1
  <2> QED BY <2>1, <1>3
<1>7. CASE i = Len(Ranges)
  BY <1>4, <1>5, <1>7, FrameFacts DEF Event, Proper, Kept, OnceOnly
<1>8. CASE i # Len(Ranges)
  BY <1>4, <1>5, <1>6, <1>8, FrameFacts DEF Event, Proper, Kept, OnceOnly
<1> QED BY <1>7, <1>8

(* The merging is defined for any number of ranges.                        *)
LEMMA MergedExists ==
    ASSUME NEW t
    PROVE  \A n \in Nat : \E f : MergedTo(t, f, n)
<1> DEFINE bad == {n \in Nat : ~ \E f : MergedTo(t, f, n)}
<1> SUFFICES ASSUME bad # {} PROVE FALSE
  OBVIOUS
<1> DEFINE m == Min(bad)
<1>1. bad \in SUBSET Nat
  OBVIOUS
<1>2. m \in bad /\ \A n \in bad : m <= n
  <2> HIDE DEF bad
  <2> QED BY <1>1, MinOf
<1> HIDE DEF m
<1>3. m \in Nat /\ ~ \E f : MergedTo(t, f, m)
  BY <1>2
<1>4. CASE m = 0
  <2> DEFINE f == [i \in 0 .. 0 |-> t]
  <2>1. \A i \in 0 .. 0 : i = 0
    OBVIOUS
  <2>2. f = [i \in 0 .. 0 |-> IF i = 0 THEN t ELSE MergedOne(f[i - 1], i)]
    BY <2>1
  <2> HIDE DEF f
  <2>3. MergedTo(t, f, 0)
    BY <2>2, Zenon DEF MergedTo
  <2> QED BY <2>3, <1>3, <1>4
<1>5. CASE m # 0
  <2>1. m - 1 \in Nat /\ m - 1 \notin bad
    <3> HIDE DEF bad
    <3> QED BY <1>2, <1>3, <1>5
  <2>2. PICK f : MergedTo(t, f, m - 1)
    BY <2>1
  <2>3. f = [i \in 0 .. m - 1 |-> IF i = 0 THEN t ELSE MergedOne(f[i - 1], i)]
    BY <2>2, Zenon DEF MergedTo
  <2> HIDE DEF bad
  <2> DEFINE g == [i \in 0 .. m |-> IF i = m THEN MergedOne(f[m - 1], m) ELSE f[i]]
             h == [i \in 0 .. m |-> IF i = 0 THEN t ELSE MergedOne(g[i - 1], i)]
  <2>4. ASSUME NEW i \in 0 .. m PROVE g[i] = h[i]
    <3>1. CASE i = 0
      <4>1. f[0] = t
        BY <2>1, <2>3
      <4> QED BY <4>1, <3>1, <1>5
    <3>2. CASE i = m
      <4>1. m - 1 \in 0 .. m /\ m - 1 # m
        BY <2>1, <1>3
      <4>2. g[m - 1] = f[m - 1]
        BY <4>1
      <4> QED BY <4>2, <3>2, <1>5
    <3>3. CASE i # 0 /\ i # m
      <4>1. i \in 0 .. m - 1 /\ i - 1 \in 0 .. m /\ i - 1 # m
        BY <3>3, <1>3
      <4>2. f[i] = MergedOne(f[i - 1], i)
        BY <4>1, <2>3, <3>3
      <4>3. g[i - 1] = f[i - 1]
        BY <4>1
      <4> QED BY <4>2, <4>3, <3>3
    <3> QED BY <3>1, <3>2, <3>3
  <2>5. g = h
    BY <2>4
  <2> HIDE DEF g
  <2>6. MergedTo(t, g, m)
    BY <2>5, Zenon DEF MergedTo
  <2> QED BY <2>6, <1>3
<1> QED BY <1>4, <1>5

(* So the lists are fit after the last of them.                            *)
LEMMA RangesHold ==
    ASSUME NeverDry, NEW t, Lists(t)
    PROVE  Good(t, RangesAdded(t)) /\ Only(t, RangesAdded(t), {})
<1> DEFINE N == Len(Ranges)
           f == CHOOSE g : MergedTo(t, g, N)
<1>1. N \in Nat
  BY RangeAssumption, LenProperties
<1>2. RangesAdded(t) = f[N]
  BY DEF RangesAdded, MergedTo, MergedOne
<1>3. MergedTo(t, f, N)
  BY <1>1, MergedExists
<1> HIDE DEF f
<1>4. f = [i \in 0 .. N |-> IF i = 0 THEN t ELSE MergedOne(f[i - 1], i)]
  BY <1>3, Zenon DEF MergedTo
<1> HIDE DEF N
<1> DEFINE Fine(i) == Good(t, f[i]) /\ Only(t, f[i], {})
           bad == {i \in 0 .. N : ~ Fine(i)}
<1>5. bad = {}
  <2> SUFFICES ASSUME bad # {} PROVE FALSE
    OBVIOUS
  <2> DEFINE m == Min(bad)
  <2>1. bad \in SUBSET Nat
    BY <1>1
  <2>2. m \in bad /\ \A i \in bad : m <= i
    <3> HIDE DEF bad
    <3> QED BY <2>1, MinOf
  <2> HIDE DEF m
  <2>3. m \in 0 .. N /\ ~ Fine(m)
    BY <2>2
  <2>4. CASE m = 0
    <3>1. f[0] = t
      BY <1>1, <1>4
    <3>2. Good(t, t) /\ Only(t, t, {})
      BY DEF Good, Only
    <3> QED BY <3>1, <3>2, <2>3, <2>4
  <2>5. CASE m # 0
    <3>1. m \in 1 .. N /\ m - 1 \in 0 .. N /\ ~(m <= m - 1)
      BY <2>3, <2>5, <1>1
    <3>2. Fine(m - 1)
      BY <3>1, <2>2
    <3>3. f[m] = MergedOne(f[m - 1], m)
      BY <3>1, <2>5, <1>4
    <3> DEFINE g == f[m - 1]
    <3>4. Good(t, g) /\ Only(t, g, {})
      BY <3>2
    <3>5. /\ Proper(RangeEvent(m)) /\ RangeEvent(m).frame \in Nat
          /\ RangeEvent(m).type \in Kept \ OnceOnly
      BY <3>1, RangeEventFits DEF N
    <3> HIDE DEF g
    <3>6. Good(g, MergedOne(g, m)) /\ Only(g, MergedOne(g, m), {})
      BY <3>4, <3>5, CreateAndAdd DEF Good, MergedOne
    <3>7. f[m] = MergedOne(g, m)
      BY <3>3 DEF g
    <3> HIDE DEF f, Fine
    <3>8. Good(t, f[m]) /\ Only(t, f[m], {})
      BY <3>4, <3>6, <3>7 DEF Good, Only
    <3> QED BY <3>8, <2>3 DEF Fine
  <2> QED BY <2>4, <2>5
<1>6. Fine(N)
  <2>1. N \in 0 .. N
    BY <1>1
  <2> QED BY <2>1, <1>5
<1> QED BY <1>2, <1>6

(* set_play_range: a stop, or the ranges and a locate to the first.        *)
LEMMA RangeHolds ==
    ASSUME NeverDry, NEW t, Fit(t), NEW on \in BOOLEAN, Calm(t)
    PROVE  Holds(t, SetPlayRange(t, on))
<1> DEFINE r == UnsetPlayRange(t)
<1>1. Holds(t, r) /\ r.work = t.work
  BY UnsetRangeHolds
<1> HIDE DEF r
<1>2. Fit(r) /\ Calm(r)
  BY <1>1 DEF Holds, Calm
<1>3. CASE ~on
  <2> DEFINE v == SetTransportSpeed(r, FALSE)
             u == [v EXCEPT !.goal = "stop"]
  <2>1. SetPlayRange(t, on) = u
    BY <1>3 DEF SetPlayRange, r
  <2>2. Holds(r, v)
    BY <1>2, SpeedHolds
  <2> HIDE DEF v
  <2>3. Fit(v)
    BY <2>2 DEF Holds
  <2>4. /\ Only(v, u, Elsewhere)
        /\ u.ev = v.ev /\ u.live = v.live /\ u.events = v.events /\ u.immediate = v.immediate
        /\ u.next = v.next /\ u.pending = v.pending
    BY <2>3 DEF Only, Elsewhere, Fit, Scalars, Lists, Listed, Typed, ListFields
  <2> HIDE DEF u
  <2>5. Holds(v, u)
    BY <2>3, <2>4, UpdateHolds
  <2>6. Holds(t, u)
    BY <1>1, <2>2, <2>5 DEF Holds
  <2> QED BY <2>1, <2>6
<1>4. CASE on
  <2> DEFINE v == [r EXCEPT !.range = TRUE]
             w == UnsetPlayLoop(v)
             x == RangesAdded(w)
             u == Locate(x, Ranges[1][1], TRUE)
  <2>1. SetPlayRange(t, on) = u
    BY <1>4 DEF SetPlayRange, r
  <2>2. /\ Only(r, v, Elsewhere)
        /\ v.ev = r.ev /\ v.live = r.live /\ v.events = r.events /\ v.immediate = r.immediate
        /\ v.next = r.next /\ v.pending = r.pending
    BY <1>2 DEF Only, Elsewhere, Fit, Scalars, Lists, Listed, Typed, ListFields
  <2> HIDE DEF v
  <2>3. Holds(r, v) /\ v.work = r.work
    BY <1>2, <2>2, UpdateHolds
  <2>4. Holds(v, w) /\ w.work = v.work
    BY <2>3, UnsetLoopHolds DEF Holds
  <2> HIDE DEF w
  <2>5. Good(w, x) /\ Only(w, x, {})
    BY <2>4, RangesHold DEF Holds, Fit
  <2> HIDE DEF x
  <2>6. Holds(w, x) /\ x.work = w.work
    <3>1. Only(w, x, Elsewhere)
      BY <2>5 DEF Only
    <3> QED BY <3>1, <2>4, <2>5, ElsewhereHolds DEF Holds
  <2>7. Fit(x) /\ Calm(x)
    BY <1>2, <2>3, <2>4, <2>6 DEF Calm, Holds
  <2>8. Ranges[1][1] \in Frames
    <3>1. Len(Ranges) \in Nat /\ Len(Ranges) # 0 /\ Ranges \in Seq(Frames \X Frames)
      BY RangeAssumption, EmptySeq, LenProperties
    <3>2. Ranges[1] \in Frames \X Frames
      BY <3>1, ElementOfSeq
    <3> QED BY <3>2
  <2>9. Holds(x, u)
    <3> DEFINE first == Ranges[1][1]
    <3>1. first \in Frames
      BY <2>8
    <3>2. u = Locate(x, first, TRUE)
      OBVIOUS
    <3> HIDE DEF first, u
    <3> QED BY <3>1, <3>2, <2>7, LocateHolds
  <2> HIDE DEF u
  <2>10. Holds(t, u)
    BY <1>1, <2>3, <2>4, <2>6, <2>9 DEF Holds
  <2> QED BY <2>1, <2>10
<1> QED BY <1>3, <1>4

-----------------------------------------------------------------------------
(* Carrying out an event, which only a locate may be during a state change.*)
LEMMA WantHolds ==
    ASSUME NEW t, Fit(t), NEW want
    PROVE  LET u == [t EXCEPT !.want = want]
           IN  /\ Holds(t, u) /\ u.want = want
               /\ u.work = t.work /\ u.speed = t.speed /\ u.frame = t.frame /\ u.rec = t.rec
<1> DEFINE u == [t EXCEPT !.want = want]
<1>1. /\ DOMAIN u = DOMAIN t /\ u.sub = t.sub /\ u.work = t.work /\ u.speed = t.speed
      /\ u.frame = t.frame /\ u.rec = t.rec /\ u.plocate = t.plocate /\ u.count = t.count
      /\ u.lastRoll = t.lastRoll /\ u.punchIn = t.punchIn
      /\ u.astray = t.astray /\ u.proll = t.proll /\ u.want = want
      /\ u.ev = t.ev /\ u.live = t.live /\ u.events = t.events /\ u.immediate = t.immediate
      /\ u.next = t.next /\ u.pending = t.pending
  BY DEF Fit, Scalars, Lists, Listed, Typed, ListFields
<1> HIDE DEF u
<1>2. Good(t, u)
  <2>1. u.frame \in Nat
    BY <1>1, FrameFacts DEF Fit, Scalars
  <2> QED BY <2>1, <1>1, SameLists DEF Fit
<1>3. Scalars(u) /\ Fresh(u) /\ Posted(u)
  BY <1>1 DEF Fit, Scalars, Fresh, Posted
<1>4. \A d : Placed(t, d) = Placed(u, d)
  BY <1>1 DEF Placed, Firm, Awaits, Calm
<1>5. Holds(t, u)
  BY <1>2, <1>3, <1>4 DEF Holds, Fit, Good
<1> QED BY <1>1, <1>5 DEF u

(* The histories bear on nothing.                                          *)
LEMMA GoalHolds ==
    ASSUME NEW t, Fit(t), NEW goal
    PROVE  LET u == [t EXCEPT !.goal = goal]
           IN  Holds(t, u) /\ u.work = t.work
<1> DEFINE u == [t EXCEPT !.goal = goal]
<1>1. /\ Only(t, u, Elsewhere)
      /\ u.ev = t.ev /\ u.live = t.live /\ u.events = t.events /\ u.immediate = t.immediate
      /\ u.next = t.next /\ u.pending = t.pending
  BY DEF Only, Elsewhere, Fit, Scalars, Lists, Listed, Typed, ListFields
<1> HIDE DEF u
<1>2. Holds(t, u) /\ u.work = t.work
  BY <1>1, UpdateHolds
<1> QED BY <1>2 DEF u

(* Overwriting is work for the butler that moves nothing.                  *)
LEMMA OverwriteHolds ==
    ASSUME NEW t, Fit(t)
    PROVE  Holds(t, ScheduleWork(t, {"OverWrite"}))
<1> DEFINE w == ScheduleWork(t, {"OverWrite"})
<1>1. /\ DOMAIN w = DOMAIN t /\ w.sub = t.sub /\ w.work = t.work \cup {"OverWrite"}
      /\ w.speed = t.speed /\ w.frame = t.frame /\ w.rec = t.rec
      /\ w.plocate = t.plocate /\ w.count = t.count + 1 /\ w.lastRoll = t.lastRoll
      /\ w.punchIn = t.punchIn /\ w.astray = t.astray /\ w.proll = t.proll
      /\ w.ev = t.ev /\ w.live = t.live /\ w.events = t.events /\ w.immediate = t.immediate
      /\ w.next = t.next /\ w.pending = t.pending
  BY DEF Fit, Scalars, Lists, Listed, Typed, ListFields, ScheduleWork, AddWork
<1> HIDE DEF w
<1>2. Good(t, w)
  <2>1. w.frame \in Nat
    BY <1>1, FrameFacts DEF Fit, Scalars
  <2> QED BY <2>1, <1>1, SameLists DEF Fit
<1>3. w.count = t.count + 1 /\ t.count \in Nat /\ on_entry \in Nat
  BY <1>1 DEF Fit, Scalars, Owed
<1>4. Scalars(w)
  BY <1>1, <1>3 DEF Fit, Scalars, Works
<1>5. Fresh(w)
  BY <1>1 DEF Fit, Fresh
<1>6. Posted(w)
  BY <1>1, <1>3 DEF Fit, Posted
<1>7. Awaits(t) => Awaits(w)
  BY <1>3 DEF Awaits
<1>8. Calm(w) <=> Calm(t)
  BY <1>1 DEF Calm
<1>9. \A d : Placed(t, d) => Placed(w, d)
  BY <1>1, <1>7, <1>8 DEF Placed, Firm
<1>10. Holds(t, w)
  BY <1>2, <1>4, <1>5, <1>6, <1>9 DEF Holds, Fit, Good
<1> QED BY <1>10 DEF w

(* Beginning to record makes a locate that waits for its declick give up.  *)
LEMMA RecordHolds ==
    ASSUME NEW t, Fit(t)
    PROVE  Holds(t, Record(t))
<1> DEFINE w == Record(t)
<1>1. /\ DOMAIN w = DOMAIN t /\ w.sub = t.sub /\ w.rec = "Recording"
      /\ w.work = t.work /\ w.speed = t.speed /\ w.frame = t.frame
      /\ w.plocate = t.plocate /\ w.count = t.count /\ w.lastRoll = t.lastRoll
      /\ w.punchIn = t.punchIn /\ w.proll = t.proll
      /\ w.ev = t.ev /\ w.live = t.live /\ w.events = t.events
      /\ w.immediate = t.immediate /\ w.next = t.next /\ w.pending = t.pending
      /\ IF "Locate" \in t.sub THEN w.astray = TRUE /\ w.want = Nowhere
         ELSE w.astray = t.astray /\ w.want = t.want
  BY Recorded DEF Fit
<1> HIDE DEF w
<1>2. Good(t, w)
  <2>1. w.frame \in Nat
    BY <1>1, FrameFacts DEF Fit, Scalars
  <2> QED BY <2>1, <1>1, SameLists DEF Fit
<1>3. Scalars(w) /\ Fresh(w) /\ Posted(w)
  <2>1. w.astray \in BOOLEAN
    <3>1. w.astray = TRUE \/ w.astray = t.astray
      BY <1>1, Zenon
    <3> QED BY <3>1 DEF Fit, Scalars
  <2> QED BY <1>1, <2>1 DEF Fit, Scalars, Fresh, Posted
<1>4. \A d : Placed(t, d) => Placed(w, d)
  <2>1. CASE "Locate" \in t.sub
    <3>1. w.astray = TRUE
      BY <1>1, <2>1
    <3>2. w.speed # 0
      BY <1>1, <2>1 DEF Fit, Fresh
    <3> QED BY <3>1, <3>2 DEF Placed, Firm
  <2>2. CASE "Locate" \notin t.sub
    <3>1. w.astray = t.astray
      BY <1>1, <2>2
    <3> QED BY <1>1, <2>2, <3>1 DEF Placed, Firm, Awaits, Calm
  <2> QED BY <2>1, <2>2
<1>5. Holds(t, w)
  BY <1>2, <1>3, <1>4 DEF Holds, Fit, Good
<1> QED BY <1>5 DEF w

(* Punching out only ends what is recorded.                                *)
LEMMA PunchOutHolds ==
    ASSUME NEW t, Fit(t)
    PROVE  Holds(t, [t EXCEPT !.rec = "Enabled"])
<1> DEFINE w == [t EXCEPT !.rec = "Enabled"]
<1>1. /\ DOMAIN w = DOMAIN t /\ w.sub = t.sub /\ w.work = t.work
      /\ w.speed = t.speed /\ w.frame = t.frame /\ w.rec = "Enabled"
      /\ w.plocate = t.plocate /\ w.count = t.count /\ w.lastRoll = t.lastRoll
      /\ w.punchIn = t.punchIn /\ w.astray = t.astray /\ w.proll = t.proll
      /\ w.ev = t.ev /\ w.live = t.live /\ w.events = t.events /\ w.immediate = t.immediate
      /\ w.next = t.next /\ w.pending = t.pending
  BY DEF Fit, Scalars, Lists, Listed, Typed, ListFields
<1> HIDE DEF w
<1>2. Good(t, w)
  <2>1. w.frame \in Nat
    BY <1>1, FrameFacts DEF Fit, Scalars
  <2> QED BY <2>1, <1>1, SameLists DEF Fit
<1>3. Scalars(w) /\ Fresh(w) /\ Posted(w)
  BY <1>1 DEF Fit, Scalars, Fresh, Posted
<1>4. \A d : Placed(t, d) => Placed(w, d)
  BY <1>1 DEF Placed, Firm, Awaits, Calm
<1>5. Holds(t, w)
  BY <1>2, <1>3, <1>4 DEF Holds, Fit, Good
<1> QED BY <1>5 DEF w

(* Every type of event, by its handler.                                    *)
LEMMA HandledHolds ==
    ASSUME NeverDry, NEW t, Fit(t), NEW e \in Cells,
           t.ev[e].type \in Kept \cup Commands,
           t.ev[e].type # "Locate" => t.work = {}
    PROVE  Holds(t, Handled(t, e))
<1> DEFINE ev == t.ev[e]
           u == Handled(t, e)
<1>1. ev.type \in Kept \cup Commands /\ ev.target \in Frames /\ ev.on \in BOOLEAN
  BY DEF Fit, Lists, Waiting, Proper
<1>2. ev.type # "Locate" => Calm(t)
  BY DEF Calm
<1> HIDE DEF ev
<1>3. CASE ev.type = "Speed"
  <2> DEFINE v == [t EXCEPT !.goal = IF ev.on THEN "roll" ELSE "stop"]
  <2>1. u = SetTransportSpeed(v, ev.on)
    BY <1>3 DEF Handled, ev
  <2>2. Holds(t, v) /\ v.work = t.work
    BY GoalHolds
  <2> HIDE DEF v, u
  <2>3. Fit(v) /\ Calm(v)
    BY <2>2, <1>2, <1>3 DEF Holds, Calm
  <2>4. Holds(v, u)
    BY <2>1, <2>3, <1>1, SpeedHolds
  <2> QED BY <2>2, <2>4, HoldsOn DEF u
<1> DEFINE want == IF ev.target = t.frame /\ t.speed # 0 THEN Nowhere ELSE ev.target
           wanted == IF t.rec = "Recording" THEN t ELSE [t EXCEPT !.want = want]
<1>4. Holds(t, wanted) /\ wanted.work = t.work
  <2>1. Holds(t, t)
    BY DEF Holds
  <2> HIDE DEF want
  <2>2. LET v == [t EXCEPT !.want = want] IN Holds(t, v) /\ v.work = t.work
    BY WantHolds
  <2> QED BY <2>1, <2>2
<1>5. CASE ev.type = "Locate"
  <2>1. u = Locate(wanted, ev.target, FALSE)
    BY <1>5 DEF Handled, ev
  <2> HIDE DEF wanted, u
  <2>2. Holds(wanted, u)
    BY <2>1, <1>1, <1>4, LocateHolds DEF Holds
  <2> QED BY <1>4, <2>2, HoldsOn DEF u
<1>6. CASE ev.type = "LocateRoll"
  <2> DEFINE v == [wanted EXCEPT !.goal = "roll"]
  <2>1. u = Locate(v, ev.target, TRUE)
    BY <1>6 DEF Handled, ev
  <2> HIDE DEF wanted
  <2>2. Holds(wanted, v) /\ v.work = wanted.work
    BY <1>4, GoalHolds DEF Holds
  <2> HIDE DEF v, u
  <2>3. Fit(v) /\ Calm(v)
    BY <2>2, <1>2, <1>4, <1>6 DEF Holds, Calm
  <2>4. Holds(v, u)
    BY <2>1, <2>3, <1>1, LocateHolds
  <2>5. Holds(t, u)
    BY <1>4, <2>2, <2>4 DEF Holds
  <2> QED BY <2>5 DEF u
<1> HIDE DEF wanted, want
<1> DEFINE told == IF ev.on THEN [t EXCEPT !.goal = "roll"] ELSE t
<1>16. Holds(t, told) /\ told.work = t.work
  <2>1. Holds(t, t)
    BY DEF Holds
  <2>2. LET v == [t EXCEPT !.goal = "roll"] IN Holds(t, v) /\ v.work = t.work
    BY GoalHolds
  <2> QED BY <2>1, <2>2
<1>7. CASE ev.type = "SetLoop"
  <2>1. u = SetPlayLoop(told, ev.on)
    BY <1>7 DEF Handled, ev
  <2> HIDE DEF told, u
  <2>2. Holds(told, u)
    BY <2>1, <1>1, <1>2, <1>7, <1>16, LoopHolds DEF Holds, Calm
  <2> QED BY <2>2, <1>16, HoldsOn DEF u
<1>8. CASE ev.type = "SetPlayRange"
  <2>1. u = SetPlayRange(told, ev.on)
    BY <1>8 DEF Handled, ev
  <2> HIDE DEF told, u
  <2>2. Holds(told, u)
    BY <2>1, <1>1, <1>2, <1>8, <1>16, RangeHolds DEF Holds, Calm
  <2> QED BY <2>2, <1>16, HoldsOn DEF u
<1> HIDE DEF told
<1>9. Holds(t, t)
  BY DEF Holds
<1>10. CASE ev.type = "Overwrite"
  <2>1. u = t \/ u = ScheduleWork(t, {"OverWrite"})
    BY <1>10 DEF Handled, ev
  <2> HIDE DEF u
  <2> QED BY <2>1, <1>9, OverwriteHolds DEF u
<1>11. CASE ev.type \in {"AutoLoop", "RangeLocate"}
  <2>1. u = t \/ u = Locate(t, ev.target, TRUE)
    BY <1>11 DEF Handled, ev
  <2> HIDE DEF u
  <2>2. Holds(t, Locate(t, ev.target, TRUE))
    BY <1>1, <1>2, <1>11, LocateHolds
  <2> QED BY <2>1, <2>2, <1>9 DEF u
<1>12. CASE ev.type = "StopOnce"
  <2> DEFINE v == StopTransport(t)
  <2>1. u = ClearEventType(v, "StopOnce")
    BY <1>12 DEF Handled, ev
  <2>2. Holds(t, v)
    BY StopHolds
  <2> HIDE DEF v, u
  <2>3. Good(v, u) /\ Only(v, u, {})
    BY <2>1, <2>2, ClearFits DEF Holds, Fit
  <2>4. Only(v, u, Elsewhere)
    BY <2>3 DEF Only
  <2>5. Holds(v, u)
    BY <2>2, <2>3, <2>4, ElsewhereHolds DEF Holds
  <2> QED BY <2>2, <2>5, HoldsOn DEF u
<1>13. CASE ev.type = "RangeStop"
  <2>1. u = StopTransport(t)
    BY <1>13 DEF Handled, ev
  <2> HIDE DEF u
  <2> QED BY <2>1, StopHolds DEF u
<1>14. CASE ev.type = "PunchIn"
  <2>1. u = t \/ u = Record(t)
    BY <1>14 DEF Handled, ev
  <2> HIDE DEF u
  <2> QED BY <2>1, <1>9, RecordHolds DEF u
<1>15. CASE ev.type = "PunchOut"
  <2>1. u = t \/ u = [t EXCEPT !.rec = "Enabled"]
    BY <1>15 DEF Handled, ev
  <2> HIDE DEF u
  <2> QED BY <2>1, <1>9, PunchOutHolds DEF u
<1> QED
  BY <1>1, <1>3, <1>5, <1>6, <1>7, <1>8, <1>10, <1>11, <1>12, <1>13, <1>14, <1>15
  DEF Kept, Commands

-----------------------------------------------------------------------------
(* The events themselves: what becomes of the lists when one is taken from *)
(* them and processed, or merged.                                          *)
Keeps(t, u) ==
    /\ Fit(u)
    /\ \A d : Placed(t, d) => Placed(u, d)

(* Changes of the lists alone.                                             *)
LEMMA ListsKept ==
    ASSUME NEW t, Fit(t), NEW u, Lists(u), Only(t, u, Elsewhere)
    PROVE  Keeps(t, u)
<1>1. /\ u.work = t.work /\ u.sub = t.sub /\ u.speed = t.speed /\ u.frame = t.frame
      /\ u.rec = t.rec /\ u.plocate = t.plocate /\ u.count = t.count
      /\ u.punchIn = t.punchIn /\ u.astray = t.astray /\ u.proll = t.proll
      /\ u.lastRoll = t.lastRoll /\ DOMAIN u = DOMAIN t
  BY DEF Only, Fit, Scalars, ListFields, Elsewhere
<1>2. Scalars(u) /\ Fresh(u) /\ Posted(u)
  BY <1>1 DEF Fit, Scalars, Fresh, Posted
<1>3. \A d : Placed(t, d) = Placed(u, d)
  BY <1>1 DEF Placed, Firm, Awaits, Calm
<1> QED BY <1>2, <1>3 DEF Fit, Keeps

(* An event put on the immediate list is another's there only if it is of  *)
(* a kind that stays.                                                      *)
LEMMA DeferredFits ==
    ASSUME NEW t, Lists(t), NEW e \in Cells, t.ev[e].type \in Kept \cup Commands,
           e \notin ToSet(t.pending),
           t.ev[e].type \in Commands => Aside(t, e)
    PROVE  Lists(Deferred(t, e)) /\ Only(t, Deferred(t, e), {})
<1> DEFINE u == Deferred(t, e)
           q == t.immediate
           r == Append(q, e)
<1>1. /\ DOMAIN u = DOMAIN t /\ u.ev = t.ev /\ u.live = t.live /\ u.events = t.events
      /\ u.next = t.next /\ u.frame = t.frame /\ u.immediate = r /\ u.pending = t.pending
      /\ Only(t, u, {})
  BY DEF Deferred, Only, Lists, Listed, Typed, ListFields
<1> HIDE DEF u
<1>2. q \in Seq(Cells)
  BY DEF Lists, Listed, Typed
<1>3. /\ r \in Seq(Cells) /\ DOMAIN r = 1 .. Len(q) + 1 /\ r[Len(q) + 1] = e
      /\ Len(q) \in Nat /\ DOMAIN q = 1 .. Len(q) /\ \A i \in DOMAIN q : r[i] = q[i]
  BY <1>2, LenProperties
<1>4. \A i \in DOMAIN r : i \in DOMAIN q \/ i = Len(q) + 1
  BY <1>3
<1>5. \A i \in DOMAIN q : i # Len(q) + 1
  BY <1>3
<1> HIDE DEF r
<1>6. Listed(u)
  <2>1. Typed(u)
    BY <1>1, <1>3 DEF Lists, Listed, Typed
  <2>2. Ordered(u)
    BY <1>1 DEF Lists, Listed, Ordered, Apart
  <2> QED BY <2>1, <2>2, <1>1 DEF Lists, Listed
<1>7. ImmediateWaits(u)
  <2>1. ImmediateWaits(t)
    BY DEF Lists, Waiting
  <2>2. ASSUME NEW i \in DOMAIN r
        PROVE  /\ u.ev[r[i]].type \in Kept \cup Commands
               /\ u.ev[r[i]].type \notin Kept =>
                    r[i] \in u.live /\ \A j \in DOMAIN r : i # j => r[i] # r[j]
    <3>1. CASE i = Len(q) + 1
      <4>1. t.ev[e].type \notin Kept => e \in t.live /\ \A j \in DOMAIN q : q[j] # e
        BY DEF Aside, ToSet
      <4> QED BY <4>1, <3>1, <1>1, <1>3, <1>4
    <3>2. CASE i \in DOMAIN q
      <4>1. t.ev[q[i]].type \notin Kept => q[i] # e
        BY <3>2 DEF Aside, ToSet
      <4> QED BY <4>1, <3>2, <2>1, <1>1, <1>3, <1>4 DEF ImmediateWaits
    <3> QED BY <3>1, <3>2, <1>4
  <2> QED BY <2>2, <1>1 DEF ImmediateWaits
<1>8. PendingWaits(u, Held)
  <2>1. PendingWaits(t, Held) /\ \A i \in DOMAIN t.pending : t.pending[i] # e
    BY DEF Lists, Waiting, ToSet
  <2>2. \A c : c \notin ToSet(q) /\ c # e => c \notin ToSet(r)
    BY <1>3, <1>4 DEF ToSet
  <2> QED BY <2>1, <2>2, <1>1 DEF PendingWaits
<1>9. Waiting(u, Held)
  BY <1>1, <1>7, <1>8 DEF Lists, Waiting
<1> QED BY <1>1, <1>6, <1>9 DEF Lists, u

(* process_event: queued for the end of the state change, processed and    *)
(* kept, or processed and deleted.                                         *)
LEMMA ProcessEventKeeps ==
    ASSUME NeverDry, NEW t, Fit(t), NEW e \in Cells, t.ev[e].type \in Kept \cup Commands,
           e \notin ToSet(t.pending),
           t.ev[e].type \in Commands => Aside(t, e)
    PROVE  Keeps(t, ProcessEvent(t, e))
<1>1. CASE ~MayProcess(t, t.ev[e].type)
  <2> DEFINE v == Deferred(t, e)
             u == RemoveEvent(v, e)
  <2>1. ProcessEvent(t, e) = u
    BY <1>1 DEF ProcessEvent, Defer
  <2>2. Lists(v) /\ Only(t, v, {})
    BY DeferredFits DEF Fit
  <2> HIDE DEF v
  <2>3. Lists(u) /\ Only(v, u, {})
    BY <2>2, RemoveFits DEF Good
  <2> HIDE DEF u
  <2>4. Only(t, u, Elsewhere)
    BY <2>2, <2>3 DEF Only
  <2> QED BY <2>1, <2>3, <2>4, ListsKept
<1>2. CASE MayProcess(t, t.ev[e].type)
  <2> DEFINE h == Handled(t, e)
             r == RemoveEvent(h, e)
             u == Delete(r, e)
  <2>1. t.ev[e].type # "Locate" => t.work = {}
    BY <1>2 DEF MayProcess, NonRealtimeWorkPending
  <2>2. Holds(t, h)
    BY <2>1, HandledHolds
  <2> HIDE DEF h
  <2>3. CASE t.ev[e].type \in Kept
    <3>1. ProcessEvent(t, e) = h
      BY <1>2, <2>3 DEF ProcessEvent, h
    <3> QED BY <3>1, <2>2 DEF Keeps, Holds
  <2>4. CASE t.ev[e].type \notin Kept
    <3>1. ProcessEvent(t, e) = u
      BY <1>2, <2>4 DEF ProcessEvent, h
    <3>2. Aside(h, e) /\ Fit(h)
      BY <2>2, <2>4 DEF Holds
    <3>3. Good(h, r) /\ Only(h, r, {})
      BY <3>2, RemoveFits DEF Fit
    <3> HIDE DEF r
    <3>4. Aside(r, e) /\ Lists(r)
      BY <3>2, <3>3 DEF Good
    <3>5. Lists(u) /\ Only(r, u, {})
      <4>1. e \in r.live /\ e \notin ToSet(r.pending) /\ e \notin ToSet(r.immediate)
        BY <3>4 DEF Aside
      <4>2. e \notin ToSet(r.events)
        BY <3>4, Kinds DEF Aside, Lists, Waiting
      <4> QED BY <4>1, <4>2, <3>4, DeleteFits
    <3> HIDE DEF u
    <3>6. Only(h, u, Elsewhere)
      BY <3>3, <3>5 DEF Only
    <3>7. Keeps(h, u)
      BY <3>2, <3>5, <3>6, ListsKept
    <3> QED BY <3>1, <3>7, <2>2 DEF Holds, Keeps
  <2> QED BY <2>3, <2>4
<1> QED BY <1>1, <1>2

(* The first of the immediate list may be processed.                       *)
LEMMA NextImmediate ==
    ASSUME NEW t, Fit(t), t.immediate # <<>>
    PROVE  LET u == [t EXCEPT !.immediate = Tail(@)]
               e == Head(t.immediate)
           IN  /\ Keeps(t, u) /\ e \in Cells /\ u.ev[e].type \in Kept \cup Commands
               /\ e \notin ToSet(u.pending)
               /\ u.ev[e].type \in Commands => Aside(u, e)
<1> DEFINE u == [t EXCEPT !.immediate = Tail(@)]
           q == t.immediate
           r == Tail(q)
           e == Head(q)
<1>1. /\ DOMAIN u = DOMAIN t /\ u.ev = t.ev /\ u.live = t.live /\ u.events = t.events
      /\ u.next = t.next /\ u.frame = t.frame /\ u.immediate = r /\ u.pending = t.pending
      /\ Only(t, u, Elsewhere)
  BY DEF Only, Fit, Lists, Listed, Typed, ListFields
<1> HIDE DEF u
<1>2. q \in Seq(Cells)
  BY DEF Fit, Lists, Listed, Typed
<1>3. /\ r \in Seq(Cells) /\ e \in Cells /\ Len(r) = Len(q) - 1 /\ Len(q) \in Nat
      /\ DOMAIN q = 1 .. Len(q) /\ DOMAIN r = 1 .. Len(r)
      /\ \A i \in 1 .. Len(r) : r[i] = q[i + 1]
  BY <1>2, LenProperties, HeadTailProperties
<1>4. e = q[1] /\ Len(q) # 0
  BY <1>2, EmptySeq
<1> HIDE DEF e, r
<1>5. 1 \in DOMAIN q /\ \A i \in DOMAIN r : i + 1 \in DOMAIN q /\ i + 1 # 1
  BY <1>3, <1>4
<1>6. ToSet(r) \subseteq ToSet(q)
  BY <1>3, <1>5 DEF ToSet
<1>7. ImmediateWaits(t) /\ PendingWaits(t, Held)
  BY DEF Fit, Lists, Waiting
<1>8. ImmediateWaits(u)
  <2>1. \A i, j \in DOMAIN r : i # j => i + 1 # j + 1
    BY <1>3
  <2>2. ASSUME NEW i \in DOMAIN r
        PROVE  /\ t.ev[r[i]].type \in Kept \cup Commands
               /\ t.ev[r[i]].type \notin Kept =>
                    r[i] \in t.live /\ \A j \in DOMAIN r : i # j => r[i] # r[j]
    <3> DEFINE k == i + 1
    <3>1. k \in DOMAIN q /\ r[i] = q[k]
      BY <1>3, <1>5
    <3>2. \A j \in DOMAIN r : i # j => j + 1 \in DOMAIN q /\ k # j + 1 /\ r[j] = q[j + 1]
      BY <2>1, <1>3, <1>5
    <3> HIDE DEF k
    <3> QED BY <3>1, <3>2, <1>7 DEF ImmediateWaits
  <2> QED BY <2>2, <1>1 DEF ImmediateWaits
<1>9. PendingWaits(u, Held)
  BY <1>1, <1>6, <1>7 DEF PendingWaits
<1>10. Listed(u)
  <2>1. Typed(u)
    BY <1>1, <1>3 DEF Fit, Lists, Listed, Typed
  <2>2. Ordered(u)
    BY <1>1 DEF Fit, Lists, Listed, Ordered, Apart
  <2> QED BY <2>1, <2>2, <1>1 DEF Fit, Lists, Listed
<1>11. Lists(u)
  BY <1>1, <1>8, <1>9, <1>10 DEF Fit, Lists, Waiting
<1>12. Keeps(t, u)
  BY <1>1, <1>11, ListsKept
<1>13. u.ev[e].type \in Kept \cup Commands
  BY <1>1, <1>4, <1>5, <1>7 DEF ImmediateWaits
<1>14. e \notin ToSet(u.pending)
  <2>1. e \in ToSet(q)
    BY <1>4, <1>5 DEF ToSet
  <2> QED BY <2>1, <1>1, <1>7 DEF PendingWaits, ToSet
<1>15. u.ev[e].type \in Commands => Aside(u, e)
  <2> SUFFICES ASSUME u.ev[e].type \in Commands PROVE Aside(u, e)
    OBVIOUS
  <2>1. u.ev[e].type \notin Kept
    BY Kinds
  <2>2. e \in t.live /\ \A j \in DOMAIN q : j # 1 => q[j] # e
    BY <2>1, <1>1, <1>4, <1>5, <1>7 DEF ImmediateWaits
  <2>3. e \notin ToSet(r)
    BY <2>2, <1>3, <1>5 DEF ToSet
  <2> QED BY <2>2, <2>3, <1>1, <1>14 DEF Aside
<1> QED BY <1>3, <1>12, <1>13, <1>14, <1>15 DEF u, e

(* The first of the pending requests may be merged.                        *)
LEMMA NextPending ==
    ASSUME NEW t, Fit(t), t.pending # <<>>
    PROVE  LET u == [t EXCEPT !.pending = Tail(@)]
               e == Head(t.pending)
           IN  /\ Keeps(t, u) /\ e \in u.live /\ Asked(u.ev[e])
               /\ e \notin ToSet(u.events) \cup ToSet(u.immediate) \cup ToSet(u.pending)
<1> DEFINE u == [t EXCEPT !.pending = Tail(@)]
           q == t.pending
           r == Tail(q)
           e == Head(q)
<1>1. /\ DOMAIN u = DOMAIN t /\ u.ev = t.ev /\ u.live = t.live /\ u.events = t.events
      /\ u.next = t.next /\ u.frame = t.frame /\ u.immediate = t.immediate /\ u.pending = r
      /\ Only(t, u, Elsewhere)
  BY DEF Only, Fit, Lists, Listed, Typed, ListFields
<1> HIDE DEF u
<1>2. q \in Seq(Cells)
  BY DEF Fit, Lists, Waiting
<1>3. /\ r \in Seq(Cells) /\ e \in Cells /\ Len(r) = Len(q) - 1 /\ Len(q) \in Nat
      /\ DOMAIN q = 1 .. Len(q) /\ DOMAIN r = 1 .. Len(r)
      /\ \A i \in 1 .. Len(r) : r[i] = q[i + 1]
  BY <1>2, LenProperties, HeadTailProperties
<1>4. e = q[1] /\ Len(q) # 0
  BY <1>2, EmptySeq
<1> HIDE DEF e, r
<1>5. 1 \in DOMAIN q /\ \A i \in DOMAIN r : i + 1 \in DOMAIN q /\ i + 1 # 1
  BY <1>3, <1>4
<1>6. PendingWaits(t, Held)
  BY DEF Fit, Lists, Waiting
<1>7. PendingWaits(u, Held)
  <2>1. \A i, j \in DOMAIN r : i # j => i + 1 # j + 1
    BY <1>3
  <2>2. ASSUME NEW i \in DOMAIN r
        PROVE  /\ r[i] \in t.live /\ Asked(t.ev[r[i]])
               /\ r[i] \notin ToSet(t.events) \cup ToSet(t.immediate) \cup Held
               /\ \A j \in DOMAIN r : i # j => r[i] # r[j]
    <3> DEFINE k == i + 1
    <3>1. k \in DOMAIN q /\ r[i] = q[k]
      BY <1>3, <1>5
    <3>2. \A j \in DOMAIN r : i # j => j + 1 \in DOMAIN q /\ k # j + 1 /\ r[j] = q[j + 1]
      BY <2>1, <1>3, <1>5
    <3> HIDE DEF k
    <3> QED BY <3>1, <3>2, <1>6 DEF PendingWaits
  <2> QED BY <2>2, <1>1 DEF PendingWaits
<1>8. Listed(u)
  <2>1. Typed(u)
    BY <1>1 DEF Fit, Lists, Listed, Typed
  <2>2. Ordered(u)
    BY <1>1 DEF Fit, Lists, Listed, Ordered, Apart
  <2> QED BY <2>1, <2>2, <1>1 DEF Fit, Lists, Listed
<1>9. Lists(u)
  BY <1>1, <1>3, <1>7, <1>8 DEF Fit, Lists, Waiting, ImmediateWaits
<1>10. Keeps(t, u)
  BY <1>1, <1>9, ListsKept
<1>11. e \in u.live /\ Asked(u.ev[e]) /\ e \notin ToSet(u.events) \cup ToSet(u.immediate)
  BY <1>1, <1>4, <1>5, <1>6 DEF PendingWaits
<1>12. e \notin ToSet(u.pending)
  <2>1. \A j \in DOMAIN q : j # 1 => q[j] # e
    BY <1>4, <1>5, <1>6 DEF PendingWaits
  <2> QED BY <2>1, <1>1, <1>3, <1>5 DEF ToSet
<1> QED BY <1>10, <1>11, <1>12 DEF u, e

(* merge_event, by what is asked.                                          *)
LEMMA MergeEventKeeps ==
    ASSUME NeverDry, NEW t, Fit(t), NEW e \in t.live, Asked(t.ev[e]),
           e \notin ToSet(t.events) \cup ToSet(t.immediate) \cup ToSet(t.pending)
    PROVE  Keeps(t, MergeEvent(t, e))
<1> DEFINE ev == t.ev[e]
           u == MergeEvent(t, e)
<1>1. e \in Cells /\ Lists(t) /\ Asked(ev)
  BY DEF Fit, Lists, Listed, Typed
<1> HIDE DEF ev
<1>2. CASE ev.action = "Remove"
  <2> DEFINE r == RemoveEvent(t, e)
             v == Delete(r, e)
  <2>1. u = v
    BY <1>2 DEF MergeEvent, ev
  <2>2. Good(t, r) /\ Only(t, r, {}) /\ Removed(t, r, e)
    BY <1>1, RemoveFits
  <2> HIDE DEF r
  <2>3. r.pending = t.pending
    BY <2>2, RestOnly DEF Removed, Fit, Lists, Listed, Typed
  <2>4. /\ e \in r.live
        /\ e \notin ToSet(r.events) /\ e \notin ToSet(r.immediate) /\ e \notin ToSet(r.pending)
    BY <2>2, <2>3 DEF Removed
  <2>5. Lists(v) /\ Only(r, v, {})
    BY <2>2, <2>4, DeleteFits DEF Good
  <2> HIDE DEF v, u
  <2>6. Only(t, v, Elsewhere)
    BY <2>2, <2>5 DEF Only
  <2> QED BY <2>1, <2>5, <2>6, ListsKept DEF u
<1>3. CASE ev.action = "Replace"
  <2> DEFINE v == ReplaceEvent(t, e)
  <2>1. u = v
    BY <1>3 DEF MergeEvent, ev
  <2>2. Good(t, v) /\ Only(t, v, {})
    BY <1>1, <1>3, ReplaceFits DEF Asked, ev
  <2> HIDE DEF v, u
  <2>3. Only(t, v, Elsewhere)
    BY <2>2 DEF Only
  <2> QED BY <2>1, <2>2, <2>3, ListsKept DEF u, Good
<1>4. CASE ev.action = "Clear"
  <2> DEFINE type == ev.type
             gone == {f \in Cells : t.ev[f].type = type}
             c == ClearEventType(t, type)
             v == Delete(c, e)
  <2>1. u = v
    BY <1>4 DEF MergeEvent, ev
  <2>2. Cleared(t, c, gone)
    BY <1>1, ClearingClears DEF Lists
  <2> HIDE DEF type
  <2>3. Good(t, c) /\ Only(t, c, {})
    BY <1>1, ClearFits
  <2> HIDE DEF c, gone
  <2>4. c.pending = t.pending
    BY <2>2, RestOnly DEF Cleared, Fit, Lists, Listed, Typed
  <2>5. /\ e \in c.live
        /\ e \notin ToSet(c.events) /\ e \notin ToSet(c.immediate) /\ e \notin ToSet(c.pending)
    BY <2>2, <2>4, ThinnedSet DEF Cleared
  <2>6. Lists(v) /\ Only(c, v, {})
    BY <2>3, <2>5, DeleteFits DEF Good
  <2> HIDE DEF v, u
  <2>7. Only(t, v, Elsewhere)
    BY <2>3, <2>6 DEF Only
  <2> QED BY <2>1, <2>6, <2>7, ListsKept DEF u
<1>5. CASE ev.action = "Add" /\ ev.frame = Immediate
  <2>1. u = ProcessEvent(t, e)
    BY <1>5 DEF MergeEvent, ev
  <2>2. ev.type \in Commands => Aside(t, e)
    BY DEF Aside, ev
  <2>3. ev.type \in Kept \cup Commands
    BY <1>1 DEF Asked
  <2> HIDE DEF u
  <2> QED BY <2>1, <2>2, <2>3, <1>1, ProcessEventKeeps DEF u, ev
<1>6. CASE ev.action = "Add" /\ ev.frame # Immediate
  <2> DEFINE v == AddEvent(t, e)
  <2>1. u = v
    BY <1>6 DEF MergeEvent, ev
  <2>2. Good(t, v) /\ Only(t, v, {})
    BY <1>1, <1>6, AddFits DEF Asked, ev
  <2> HIDE DEF v, u
  <2>3. Only(t, v, Elsewhere)
    BY <2>2 DEF Only
  <2> QED BY <2>1, <2>2, <2>3, ListsKept DEF u, Good
<1> QED BY <1>1, <1>2, <1>3, <1>4, <1>5, <1>6 DEF Asked

(* post_transport, when the butler has done all that was posted.           *)
LEMMA PostTransportKeeps ==
    ASSUME NEW t, Fit(t), t.count = 0
    PROVE  Keeps(t, PostTransport(t))
<1> DEFINE a == IF "Stop" \in t.work THEN [t EXCEPT !.sub = {}] ELSE t
           b == IF "Locate" \notin t.work THEN a
                ELSE IF "Roll" \in t.work THEN StartTransport(a)
                ELSE [a EXCEPT !.sub = {}]
           c == SetNextEvent(b)
           u == [c EXCEPT !.work = {}]
           started == "Locate" \in t.work /\ "Roll" \in t.work
<1>1. bpc = "idle" /\ ~Awaits(t)
  BY DEF Fit, Scalars, Posted, Owed, Awaits
<1>2. /\ DOMAIN a = DOMAIN t /\ a.frame = t.frame /\ a.speed = t.speed /\ a.rec = t.rec
      /\ a.sub = IF "Stop" \in t.work THEN {} ELSE t.sub
      /\ a.plocate = t.plocate /\ a.count = t.count /\ a.lastRoll = t.lastRoll
      /\ a.punchIn = t.punchIn /\ a.astray = t.astray /\ a.proll = t.proll /\ a.work = t.work
      /\ a.ev = t.ev /\ a.live = t.live /\ a.events = t.events /\ a.immediate = t.immediate
      /\ a.next = t.next /\ a.pending = t.pending
  BY DEF Fit, Scalars, Lists, Listed, Typed, ListFields
<1> HIDE DEF a
<1>3. Good(t, a) /\ Scalars(a)
  <2>1. a.frame \in Nat
    BY <1>2, FrameFacts DEF Fit, Scalars
  <2>2. Good(t, a)
    BY <2>1, <1>2, SameLists DEF Fit
  <2> QED BY <2>2, <1>2 DEF Fit, Scalars
<1>4. /\ DOMAIN b = DOMAIN a /\ b.frame = a.frame
      /\ b.speed = IF started THEN 1 ELSE a.speed
      /\ b.rec \in {"Disabled", "Enabled", "Recording"}
      /\ b.sub = IF "Locate" \notin t.work THEN a.sub
                 ELSE IF started THEN a.sub \cup {"DeclickIn"} ELSE {}
      /\ b.plocate = a.plocate /\ b.count = a.count /\ b.lastRoll \in Frames
      /\ b.punchIn = a.punchIn /\ b.proll = a.proll /\ b.work = a.work
      /\ b.astray \in BOOLEAN /\ (a.astray = TRUE => b.astray = TRUE)
      /\ b.ev = a.ev /\ b.live = a.live /\ b.events = a.events /\ b.immediate = a.immediate
      /\ b.next = a.next /\ b.pending = a.pending
      /\ started /\ "Locate" \in a.sub /\ a.rec # "Recording" =>
           b.rec # "Recording" \/ b.astray = TRUE
      /\ ~started => b.rec = a.rec
  <2>1. CASE started
    <3>1. b = StartTransport(a) /\ Lists(a) /\ a.frame \in Frames
      BY <2>1, <1>3 DEF started, Good, Scalars
    <3> HIDE DEF a, b
    <3> QED BY <2>1, <3>1, <1>3, Starting DEF started
  <2>2. CASE ~started
    <3>1. b = IF "Locate" \notin t.work THEN a ELSE [a EXCEPT !.sub = {}]
      BY <2>2 DEF started
    <3> HIDE DEF b
    <3>2. CASE "Locate" \notin t.work
      BY <2>2, <3>1, <3>2, <1>3 DEF started, Scalars
    <3>3. CASE "Locate" \in t.work
      BY <2>2, <3>1, <3>3, <1>3 DEF started, Good, Scalars, Lists, Listed, Typed, ListFields
    <3> QED BY <3>2, <3>3
  <2> QED BY <2>1, <2>2
<1> HIDE DEF b, started
<1>5. Good(t, b)
  <2>1. b.frame \in Nat
    BY <1>2, <1>4, FrameFacts DEF Fit, Scalars
  <2> QED BY <2>1, <1>2, <1>4, SameLists DEF Fit
<1>6. Good(b, c) /\ Only(b, c, {})
  BY <1>5, NextFits DEF Good
<1> HIDE DEF c
<1>7. /\ DOMAIN c = DOMAIN t /\ c.frame = b.frame /\ c.speed = b.speed /\ c.rec = b.rec
      /\ c.sub = b.sub /\ c.plocate = b.plocate /\ c.count = b.count
      /\ c.lastRoll = b.lastRoll /\ c.punchIn = b.punchIn
      /\ c.astray = b.astray /\ c.proll = b.proll
  BY <1>2, <1>4, <1>6 DEF Only, Fit, Scalars, ListFields
<1>8. /\ DOMAIN u = DOMAIN c /\ u.frame = c.frame /\ u.speed = c.speed /\ u.rec = c.rec
      /\ u.sub = c.sub /\ u.plocate = c.plocate /\ u.count = c.count
      /\ u.lastRoll = c.lastRoll /\ u.punchIn = c.punchIn
      /\ u.astray = c.astray /\ u.proll = c.proll /\ u.work = {}
      /\ u.ev = c.ev /\ u.live = c.live /\ u.events = c.events /\ u.immediate = c.immediate
      /\ u.next = c.next /\ u.pending = c.pending
  BY <1>7 DEF Fit, Scalars, Lists, Listed, Typed, ListFields
<1> HIDE DEF u
<1>9. Good(c, u)
  <2>1. u.frame \in Nat
    BY <1>6, <1>8 DEF Good, Lists, Listed, Typed
  <2> QED BY <2>1, <1>6, <1>8, SameLists DEF Good
<1>10. Scalars(u)
  <2>1. /\ u.frame \in Frames /\ u.plocate \in Frames /\ u.lastRoll \in Frames
        /\ u.speed \in {0, 1} /\ u.astray \in BOOLEAN /\ u.count \in Nat
        /\ u.punchIn \in PunchIns /\ u.proll \in BOOLEAN
    BY <1>2, <1>4, <1>7, <1>8 DEF Fit, Scalars
  <2>2. u.rec \in {"Disabled", "Enabled", "Recording"} /\ u.sub \subseteq Subs
    BY <1>2, <1>4, <1>7, <1>8 DEF Fit, Scalars, Subs
  <2> QED BY <2>1, <2>2, <1>7, <1>8 DEF Fit, Scalars
<1>11. Fresh(u)
  BY <1>2, <1>4, <1>7, <1>8 DEF Fit, Scalars, Fresh, Posted
<1>12. Posted(u)
  BY <1>1, <1>8 DEF Posted
<1>13. Fit(u)
  BY <1>9, <1>10, <1>11, <1>12 DEF Fit, Good
<1>14. ASSUME NEW d, Placed(t, d) PROVE Placed(u, d)
  <2>1. u.frame = t.frame /\ u.plocate = t.plocate
    BY <1>2, <1>4, <1>7, <1>8
  <2>2. CASE d = t.frame \/ t.frame = LastFrame
    BY <2>1, <2>2 DEF Placed, Firm
  <2>4. CASE t.astray = TRUE /\ t.speed # 0
    <3>1. u.astray = TRUE
      BY <2>4, <1>2, <1>4, <1>7, <1>8
    <3>2. u.speed # 0
      BY <2>4, <1>2, <1>4, <1>7, <1>8
    <3> QED BY <3>1, <3>2 DEF Placed, Firm
  <2>3. CASE "Locate" \in t.sub /\ t.plocate = t.frame /\ t.rec # "Recording"
    <3>1. t.speed # 0
      BY <2>3 DEF Fit, Fresh
    <3>2. "Stop" \notin t.work /\ ("Locate" \in t.work => "Roll" \in t.work)
      BY <3>1 DEF Fit, Posted
    <3>3. "Locate" \in u.sub
      BY <3>2, <2>3, <1>2, <1>4, <1>7, <1>8 DEF started
    <3>4. u.rec # "Recording" \/ u.astray = TRUE
      <4>1. "Locate" \in a.sub /\ a.rec # "Recording"
        BY <3>2, <2>3, <1>2
      <4> QED BY <4>1, <1>4, <1>7, <1>8
    <3>5. u.speed # 0
      BY <3>1, <1>2, <1>4, <1>7, <1>8
    <3> QED BY <3>3, <3>4, <3>5, <2>1, <2>3 DEF Placed, Firm
  <2> QED BY <2>2, <2>3, <2>4, <1>1, <1>14 DEF Placed, Firm
<1>15. Keeps(t, u)
  BY <1>13, <1>14 DEF Keeps
<1> QED BY <1>15 DEF PostTransport, u, c, b, a

-----------------------------------------------------------------------------
(* The inductive invariant: the session is fit; a part is rolled with no   *)
(* locate or stop at work, and is no longer than what is left of the cycle;*)
(* and the tracks play from where the transport is.                        *)
Cycling ==
    /\ pc \in {"idle", "merge", "immediate", "roll", "events"}
    /\ disk \in Nat /\ left \in 0 .. Block
    /\ pc = "roll" => Calm(s) /\ end_frame = s.frame + left
Playing == Placed(s, disk)
IInv == Fit(s) /\ Cycling /\ Playing

(* The invariant holds initially.                                          *)
LEMMA InitIInv == Init => IInv
<1> SUFFICES ASSUME Init PROVE IInv
  OBVIOUS
<1>1. PICK p \in PunchIns :
         s = [ev |-> [e \in Cells |-> NoEvent], live |-> {},
              events |-> <<>>, immediate |-> <<>>, pending |-> <<>>, next |-> End,
              frame |-> 0, speed |-> 0, loop |-> FALSE, range |-> FALSE,
              rec |-> "Disabled", sub |-> {}, plocate |-> 0, proll |-> FALSE,
              work |-> {}, count |-> 0, lastRoll |-> 0,
              want |-> Nowhere, goal |-> "none", astray |-> FALSE, punchIn |-> p]
  BY DEF Init
<1>2. /\ s.ev = [e \in Cells |-> NoEvent] /\ s.live = {} /\ s.events = <<>>
      /\ s.immediate = <<>> /\ s.pending = <<>> /\ s.next = End /\ s.frame = 0 /\ s.speed = 0
      /\ s.rec = "Disabled" /\ s.sub = {} /\ s.plocate = 0 /\ s.proll = FALSE /\ s.work = {}
      /\ s.count = 0 /\ s.lastRoll = 0 /\ s.punchIn \in PunchIns /\ s.astray = FALSE
      /\ DOMAIN s = {"ev", "live", "events", "immediate", "pending", "next", "frame", "speed",
                     "loop", "range", "rec", "sub", "plocate", "proll", "work", "count",
                     "lastRoll", "want", "goal", "astray", "punchIn"}
  BY <1>1
<1>3. /\ Proper(NoEvent) /\ NoEvent.frame = 0
      /\ {"type", "frame", "target"} \subseteq DOMAIN NoEvent
  BY FrameFacts DEF NoEvent, Proper
<1>4. DOMAIN s.events = {} /\ DOMAIN s.immediate = {} /\ DOMAIN s.pending = {}
  BY <1>2
<1>5. ToSet(s.events) = {} /\ ToSet(s.immediate) = {}
  BY <1>4 DEF ToSet
<1>6. Listed(s)
  <2>1. <<>> \in Seq(Cells) /\ IsFiniteSet({})
    BY EmptySeq, FS_EmptySet
  <2>2. \A e \in Cells : s.ev[e] = NoEvent
    BY <1>2
  <2>3. Typed(s)
    BY <1>2, <1>3, <2>1, <2>2 DEF Typed, ListFields
  <2> QED BY <2>3, <1>2, <1>4, <1>5 DEF Listed, Ordered
<1>7. Waiting(s, Held)
  <2>1. \A e \in Cells : Proper(s.ev[e])
    BY <1>2, <1>3
  <2>2. Held = {End}
    BY DEF Init, Held
  <2>3. s.pending \in Seq(Cells)
    BY <1>2, EmptySeq
  <2> QED BY <2>1, <2>2, <2>3, <1>4, <1>5 DEF Waiting, PendingWaits, ImmediateWaits
<1>8. Scalars(s)
  BY <1>2, FrameFacts DEF Scalars
<1>9. Fresh(s) /\ Posted(s) /\ Owed
  BY <1>2 DEF Init, Fresh, Posted, Owed
<1>10. Cycling
  BY FrameFacts DEF Init, Cycling
<1>11. Playing
  BY <1>2 DEF Init, Playing, Placed, Firm
<1> QED BY <1>6, <1>7, <1>8, <1>9, <1>10, <1>11 DEF IInv, Fit, Lists

(* A step of the process thread or of the user leaves the butler alone,    *)
(* and most of them leave the events at hand alone.                        *)
LEMMA KeptFit ==
    ASSUME Fit(s), Fit(s'), UNCHANGED <<this, the_next_one, butler>>
    PROVE  Fit(s)'
<1>1. Held' = Held
  BY DEF Held
<1>2. Lists(s)'
  <2>1. Listed(s') /\ Waiting(s', Held)
    BY DEF Fit, Lists
  <2> QED BY <2>1, <1>1 DEF Lists
<1>3. Posted(s)' /\ Owed'
  BY DEF Fit, Posted, Owed, butler
<1> QED BY <1>2, <1>3 DEF Fit

(* The tracks' position need not be looked at when only the process        *)
(* thread's handlers ran.                                                  *)
LEMMA KeptPlaying ==
    ASSUME Playing, Keeps(s, s'), UNCHANGED <<butler, disk>>
    PROVE  Playing'
<1>1. Placed(s', disk)
  BY DEF Playing, Keeps
<1> QED BY <1>1 DEF Playing, Placed, Firm, Awaits, butler

(* The events at hand become others of the list.                           *)
LEMMA OthersFit ==
    ASSUME Fit(s), Fit(s'), UNCHANGED butler,
           Held' \subseteq Held \cup ToSet(s'.events) \cup {End}
    PROVE  Fit(s)'
<1>1. Listed(s') /\ Waiting(s', Held)
  BY DEF Fit, Lists
<1>2. ToSet(s'.events) \subseteq Cells /\ s'.live \subseteq Cells /\ End \notin Cells
  BY <1>1, CellAssumption DEF Listed, Typed
<1>3. PendingWaits(s', Held')
  BY <1>1, <1>2 DEF Waiting, PendingWaits
<1>4. \A e \in Held' : e \in Cells \cup {End} /\ (e # End => s'.ev[e].type \in Kept)
  BY <1>1, <1>2 DEF Waiting
<1>5. Waiting(s', Held')
  BY <1>1, <1>3, <1>4 DEF Waiting
<1>6. Lists(s)'
  BY <1>1, <1>5 DEF Lists
<1>7. Posted(s)' /\ Owed'
  BY DEF Fit, Posted, Owed, butler
<1> QED BY <1>6, <1>7 DEF Fit

(* A step that leaves the session alone keeps it.                          *)
LEMMA KeepsItself ==
    ASSUME NEW t, Fit(t)
    PROVE  Keeps(t, t)
BY DEF Keeps

(* Steps of the process thread that are not in the middle of a part.       *)
LEMMA KeptIInv ==
    ASSUME IInv, Keeps(s, s'), UNCHANGED <<this, the_next_one, left, butler, disk>>,
           pc' \in {"idle", "merge", "immediate", "events"}
    PROVE  IInv'
<1>1. Fit(s)'
  BY KeptFit DEF IInv, Keeps
<1>2. Playing'
  BY KeptPlaying DEF IInv
<1>3. Cycling'
  BY DEF IInv, Cycling
<1> QED BY <1>1, <1>2, <1>3 DEF IInv

(* The beginning of a cycle, with the end of a state change.               *)
LEMMA ProcessStep ==
    ASSUME IInv, Process
    PROVE  IInv'
<1>1. Keeps(s, s')
  <2>1. CASE NonRealtimeWorkPending(s) /\ ~TransportWorkRequested
    <3>1. s' = PostTransport(s) /\ s.count = 0
      BY <2>1 DEF Process, TransportWorkRequested
    <3> QED BY <3>1, PostTransportKeeps DEF IInv
  <2>2. CASE ~(NonRealtimeWorkPending(s) /\ ~TransportWorkRequested)
    <3>1. s' = s
      BY <2>2 DEF Process
    <3> QED BY <3>1, KeepsItself DEF IInv
  <2> QED BY <2>1, <2>2
<1> QED BY <1>1, KeptIInv DEF Process, Goto

(* An event is merged.                                                     *)
LEMMA MergeStep ==
    ASSUME NeverDry, IInv, Merge
    PROVE  IInv'
<1> DEFINE t == [s EXCEPT !.pending = Tail(@)]
           e == Head(s.pending)
<1>1. /\ Keeps(s, t) /\ e \in t.live /\ Asked(t.ev[e])
      /\ e \notin ToSet(t.events) \cup ToSet(t.immediate) \cup ToSet(t.pending)
  BY NextPending DEF IInv, Merge
<1>2. s' = MergeEvent(t, e)
  BY DEF Merge
<1> HIDE DEF t, e
<1>3. Keeps(t, s')
  BY <1>1, <1>2, MergeEventKeeps DEF Keeps
<1>4. Keeps(s, s')
  BY <1>1, <1>3 DEF Keeps
<1> QED BY <1>4, KeptIInv DEF Merge, cycle

(* An immediate event is processed.                                        *)
LEMMA ImmediateStep ==
    ASSUME NeverDry, IInv, ProcessImmediate
    PROVE  IInv'
<1> DEFINE t == [s EXCEPT !.immediate = Tail(@)]
           e == Head(s.immediate)
<1>1. /\ Keeps(s, t) /\ e \in Cells /\ t.ev[e].type \in Kept \cup Commands
      /\ e \notin ToSet(t.pending)
      /\ t.ev[e].type \in Commands => Aside(t, e)
  BY NextImmediate DEF IInv, ProcessImmediate, MayProcessImmediate
<1>2. s' = ProcessEvent(t, e)
  BY DEF ProcessImmediate
<1> HIDE DEF t, e
<1>3. Keeps(t, s')
  BY <1>1, <1>2, ProcessEventKeeps DEF Keeps
<1>4. Keeps(s, s')
  BY <1>1, <1>3 DEF Keeps
<1> QED BY <1>4, KeptIInv DEF ProcessImmediate, cycle

(* A cycle that does not roll, or that is stopped at the end.              *)
LEMMA DoNotRollStep ==
    ASSUME NeverDry, IInv, DoNotRoll
    PROVE  IInv'
<1>1. s' = s \/ s' = StopTransport(s)
  BY DEF DoNotRoll
<1>2. Keeps(s, StopTransport(s))
  BY StopHolds DEF IInv, Holds, Keeps
<1>3. Keeps(s, s')
  BY <1>1, <1>2, KeepsItself DEF IInv
<1> QED BY <1>3, KeptIInv DEF DoNotRoll, Goto

(* What process_routes and the handlers after it keep.                     *)
LEMMA RollKeeps ==
    ASSUME NeverDry, IInv, Calm(s), NEW n \in Nat \ {0}, NEW limit, Roll(n, limit),
           UNCHANGED <<this, the_next_one, butler>>
    PROVE  Fit(s)' /\ Playing' /\ disk' \in Nat
<1>1. disk \in Nat /\ disk' = disk + n
  BY DEF IInv, Cycling, Roll
<1>2. s' = CheckDeclickOut(MaybeStop(Rolled(s, n), limit))
  BY DEF Roll, Rolled
<1>3. /\ Fit(s')
      /\ \A d \in Nat : Placed(s, d) => Placed(s', d + n)
  BY <1>2, RollHolds DEF IInv
<1>4. Fit(s)'
  BY <1>3, KeptFit DEF IInv
<1>5. Placed(s', disk')
  BY <1>1, <1>3 DEF IInv, Playing
<1>6. Playing'
  BY <1>5 DEF Playing, Placed, Firm, Awaits, butler
<1> QED BY <1>1, <1>4, <1>6

(* The transport rolls only when no stop or locate is at work.             *)
LEMMA RollsCalmly == Rolls => Calm(s)
BY DEF Rolls, ProcessCanProceed, Calm

(* A cycle without events is rolled in one part.                           *)
LEMMA WithoutEventsStep ==
    ASSUME NeverDry, IInv, WithoutEvents
    PROVE  IInv'
<1>1. Calm(s) /\ Roll(Block, Limit) /\ UNCHANGED <<this, the_next_one, butler>>
  BY RollsCalmly DEF WithoutEvents
<1>2. Fit(s)' /\ Playing' /\ disk' \in Nat
  BY <1>1, RollKeeps, FrameFacts
<1>3. Cycling'
  BY <1>2 DEF IInv, Cycling, WithoutEvents, Goto
<1> QED BY <1>2, <1>3 DEF IInv

(* The events at hand are then the next of the list and the one after.     *)
LEMMA WithEventsStep ==
    ASSUME IInv, WithEvents
    PROVE  IInv'
<1>1. /\ s' = s /\ disk' = disk /\ UNCHANGED butler /\ pc' = "roll" /\ left' = Block
      /\ this' = s.next /\ the_next_one' = After(s.events, s.next)
      /\ end_frame' = s.frame + Block
  BY DEF WithEvents, Goto
<1>2. s.next \in ToSet(s.events) \cup {End} /\ s.events \in Seq(Cells)
  BY DEF IInv, Fit, Lists, Listed, Typed
<1>3. After(s.events, s.next) \in ToSet(s.events) \cup {End}
  BY <1>2, AfterLeads
<1>4. Held' \subseteq Held \cup ToSet(s'.events) \cup {End}
  BY <1>1, <1>2, <1>3 DEF Held
<1>5. Fit(s)'
  BY <1>1, <1>4, OthersFit DEF IInv
<1>6. Playing'
  <2>1. Keeps(s, s')
    BY <1>1, KeepsItself DEF IInv
  <2> QED BY <2>1, <1>1, KeptPlaying DEF IInv
<1>7. Cycling'
  <2>1. Calm(s)
    BY RollsCalmly DEF WithEvents
  <2>2. Block \in 0 .. Block
    BY FrameFacts
  <2> QED BY <2>1, <2>2, <1>1 DEF IInv, Cycling, Calm
<1> QED BY <1>5, <1>6, <1>7 DEF IInv

(* A part ends at an event that is due, or with the block.                 *)
LEMMA RollPartStep ==
    ASSUME NeverDry, IInv, RollPart
    PROVE  IInv'
<1>1. /\ Calm(s) /\ end_frame = s.frame + left /\ s.frame \in Nat /\ left \in 0 .. Block
      /\ Block \in Nat /\ pc' = "events" /\ left' = left - ThisPart
      /\ UNCHANGED <<this, the_next_one, butler>>
  BY FrameFacts DEF IInv, Cycling, Fit, Scalars, RollPart, Goto
<1>2. ThisPart \in 0 .. left
  <2>1. CASE Due
    <3>1. this \in Cells
      BY <2>1 DEF Due, IInv, Fit, Lists, Waiting, Held
    <3>2. s.ev[this].frame \in Nat
      BY <3>1 DEF IInv, Fit, Lists, Listed, Typed
    <3>3. s.ev[this].frame <= end_frame /\ s.ev[this].frame >= s.frame
      BY <2>1 DEF Due
    <3>4. ThisPart = s.ev[this].frame - s.frame
      BY <2>1 DEF ThisPart
    <3> QED BY <3>2, <3>3, <3>4, <1>1
  <2>2. CASE ~Due
    BY <2>2, <1>1 DEF ThisPart
  <2> QED BY <2>1, <2>2
<1>3. left' \in 0 .. Block
  BY <1>1, <1>2
<1>4. CASE ThisPart > 0
  <2>1. Roll(ThisPart, stop_limit) /\ ThisPart \in Nat \ {0}
    BY <1>1, <1>2, <1>4 DEF RollPart
  <2>2. Fit(s)' /\ Playing' /\ disk' \in Nat
    BY <1>1, <2>1, RollKeeps
  <2>3. Cycling'
    BY <1>1, <1>3, <2>2 DEF Cycling
  <2> QED BY <2>2, <2>3 DEF IInv
<1>5. CASE ~(ThisPart > 0)
  <2>1. s' = s /\ disk' = disk
    BY <1>5 DEF RollPart
  <2>2. Fit(s)'
    BY <1>1, <2>1, KeptFit DEF IInv
  <2>3. Playing'
    BY <1>1, <2>1, KeepsItself, KeptPlaying DEF IInv
  <2>4. Cycling'
    BY <1>1, <1>3, <2>1 DEF IInv, Cycling
  <2> QED BY <2>2, <2>3, <2>4 DEF IInv
<1> QED BY <1>4, <1>5

(* The event at hand may be erased by its own processing.                  *)
LEMMA ProcessHereStep ==
    ASSUME NeverDry, IInv, ProcessHere
    PROVE  IInv'
<1>1. /\ s' = ProcessEvent(s, this) /\ this # End /\ UNCHANGED <<pc, left, butler, disk>>
      /\ pc = "events" /\ this' = the_next_one
      /\ the_next_one' \in IF the_next_one = End THEN {End} ELSE AfterErased(s', the_next_one)
  BY DEF ProcessHere, EventHere
<1>2. this \in Held /\ the_next_one \in Held
  BY DEF Held
<1>3. this \in Cells /\ s.ev[this].type \in Kept /\ this \notin ToSet(s.pending)
  BY <1>1, <1>2 DEF IInv, Fit, Lists, Waiting, PendingWaits, ToSet
<1>4. Keeps(s, s')
  BY <1>1, <1>3, ProcessEventKeeps, Kinds DEF IInv
<1>5. s'.events \in Seq(Cells)
  BY <1>4 DEF Keeps, Fit, Lists, Listed, Typed
<1>6. AfterErased(s', the_next_one) \subseteq ToSet(s'.events) \cup {End}
  BY <1>5, AfterLeads DEF AfterErased, ToSet
<1>7. Held' \subseteq Held \cup ToSet(s'.events) \cup {End}
  BY <1>1, <1>2, <1>6 DEF Held
<1>8. Fit(s)'
  BY <1>1, <1>4, <1>7, OthersFit DEF IInv, Keeps
<1>9. Playing'
  BY <1>1, <1>4, KeptPlaying DEF IInv
<1>10. Cycling'
  BY <1>1 DEF IInv, Cycling
<1> QED BY <1>8, <1>9, <1>10 DEF IInv

(* The next part begins where the last one ended.                          *)
LEMMA PartDoneStep ==
    ASSUME IInv, PartDone
    PROVE  IInv'
<1>1. /\ s' = s /\ UNCHANGED <<this, the_next_one, butler, disk, left>>
      /\ pc' = "roll" /\ end_frame' = s.frame + left /\ Calm(s)
  BY DEF PartDone, Goto, NonRealtimeWorkPending, Calm
<1>2. Fit(s)'
  BY <1>1, KeptFit DEF IInv
<1>3. Playing'
  BY <1>1, KeepsItself, KeptPlaying DEF IInv
<1>4. Cycling'
  BY <1>1 DEF IInv, Cycling, Calm
<1> QED BY <1>2, <1>3, <1>4 DEF IInv

(* A cycle ends with next_event set anew.                                  *)
LEMMA CycleDoneStep ==
    ASSUME IInv, CycleDone
    PROVE  IInv'
<1>1. /\ s' = SetNextEvent(s) /\ UNCHANGED <<butler, disk>> /\ pc' = "idle"
      /\ this' = End /\ the_next_one' = End /\ left' = 0
  BY DEF CycleDone, Goto
<1>2. Lists(s') /\ Only(s, s', {})
  BY <1>1, NextFits DEF IInv, Fit, Good
<1>3. Keeps(s, s')
  <2>1. Only(s, s', Elsewhere)
    BY <1>2 DEF Only
  <2> QED BY <2>1, <1>2, ListsKept DEF IInv
<1>4. Held' \subseteq {End}
  BY <1>1 DEF Held
<1>5. Fit(s)'
  BY <1>1, <1>3, <1>4, OthersFit DEF IInv, Keeps
<1>6. Playing'
  BY <1>1, <1>3, KeptPlaying DEF IInv
<1>7. Cycling'
  BY <1>1, FrameFacts DEF IInv, Cycling
<1> QED BY <1>5, <1>6, <1>7 DEF IInv

-----------------------------------------------------------------------------
(* The butler's steps, which change what it works on.                      *)
LEMMA ButlerFit ==
    ASSUME Fit(s), Lists(s'), Scalars(s'), Fresh(s'), UNCHANGED <<this, the_next_one>>,
           s'.work = s.work, s'.speed = s.speed, Owed',
           bpc' # "idle" => s'.count >= on_entry' /\ ptw' \subseteq s.work
    PROVE  Fit(s)'
<1>1. Held' = Held
  BY DEF Held
<1>2. Lists(s)'
  <2>1. Listed(s') /\ Waiting(s', Held)
    BY DEF Lists
  <2> QED BY <2>1, <1>1 DEF Lists
<1>3. Posted(s)'
  BY DEF Fit, Posted
<1> QED BY <1>2, <1>3 DEF Fit, Scalars, Fresh

(* While a stop or a locate is at work nothing is rolled.                  *)
LEMMA ButlerCycling ==
    ASSUME Cycling, UNCHANGED cycle, disk' \in Nat, s'.work = s.work,
           Calm(s) => s'.frame = s.frame
    PROVE  Cycling'
BY DEF Cycling, cycle, Calm

(* The tracks are still where they were, and a seek still to come.         *)
LEMMA AwaitsPlays ==
    ASSUME Playing, s'.rec = s.rec, s'.speed = s.speed, s'.work = s.work, s'.sub = s.sub,
           s'.plocate = s.plocate, s'.frame = s.frame, disk' = disk, s'.astray = s.astray,
           ~Calm(s) /\ Awaits(s) => Awaits(s)'
    PROVE  Playing'
<1>1. Placed(s, disk) => Placed(s, disk)'
  BY DEF Placed, Firm, Calm
<1> QED BY <1>1 DEF Playing

(* After a seek the tracks are where the transport is.                     *)
LEMMA SoughtPlays ==
    ASSUME disk' = s'.frame
    PROVE  Playing'
BY DEF Playing, Placed, Firm

(* A pass of the butler begins.                                            *)
LEMMA StartWorkStep ==
    ASSUME IInv, StartWork
    PROVE  IInv'
<1>1. /\ s' = s /\ disk' = disk /\ UNCHANGED cycle /\ bpc = "idle" /\ s.count # 0
      /\ on_entry' = s.count /\ ptw' = s.work
      /\ bpc' = IF "Locate" \in s.work THEN "locate"
                ELSE IF "Stop" \in s.work THEN "stop" ELSE "done"
  BY DEF StartWork, TransportWorkRequested, AfterLocate
<1>2. s.count \in Nat
  BY DEF IInv, Fit, Scalars
<1>3. Owed'
  BY <1>1, <1>2 DEF Owed
<1>4. Fit(s)'
  BY <1>1, <1>2, <1>3, ButlerFit DEF IInv, Fit, cycle
<1>5. Playing'
  <2>1. ~Calm(s) => Awaits(s)'
    BY <1>1 DEF Awaits, Calm
  <2> QED BY <2>1, <1>1, AwaitsPlays DEF IInv
<1>6. Cycling'
  BY <1>1, ButlerCycling DEF IInv, Cycling
<1> QED BY <1>4, <1>5, <1>6 DEF IInv

(* The seek itself.                                                        *)
LEMMA Sought ==
    ASSUME NEW t, Fit(t)
    PROVE  LET u == [t EXCEPT !.astray = FALSE]
           IN  /\ Lists(u) /\ Scalars(u) /\ Fresh(u)
               /\ DOMAIN u = DOMAIN t /\ u.frame = t.frame
               /\ u.sub = t.sub /\ u.work = t.work /\ u.speed = t.speed
               /\ u.rec = t.rec /\ u.plocate = t.plocate /\ u.count = t.count
               /\ u.lastRoll = t.lastRoll /\ u.punchIn = t.punchIn /\ u.proll = t.proll
               /\ u.want = t.want
               /\ u.ev = t.ev /\ u.live = t.live /\ u.events = t.events
               /\ u.immediate = t.immediate /\ u.next = t.next /\ u.pending = t.pending
<1> DEFINE u == [t EXCEPT !.astray = FALSE]
<1>1. /\ DOMAIN u = DOMAIN t /\ u.frame = t.frame
      /\ u.sub = t.sub /\ u.work = t.work /\ u.speed = t.speed
      /\ u.rec = t.rec /\ u.plocate = t.plocate /\ u.count = t.count
      /\ u.lastRoll = t.lastRoll /\ u.punchIn = t.punchIn /\ u.proll = t.proll
      /\ u.want = t.want
      /\ u.ev = t.ev /\ u.live = t.live /\ u.events = t.events
      /\ u.immediate = t.immediate /\ u.next = t.next /\ u.pending = t.pending
  BY DEF Fit, Scalars, Lists, Listed, Typed, ListFields
<1>2. u.astray \in BOOLEAN
  BY DEF Fit, Scalars
<1> HIDE DEF u
<1>3. Lists(u)
  <2>1. u.frame \in Nat
    BY <1>1, FrameFacts DEF Fit, Scalars
  <2> QED BY <2>1, <1>1, SameLists DEF Fit, Good
<1>4. Scalars(u) /\ Fresh(u)
  BY <1>1, <1>2 DEF Fit, Scalars, Fresh
<1> QED BY <1>1, <1>3, <1>4 DEF u

(* The butler seeks the tracks to where the transport is.                  *)
LEMMA LocateStep ==
    ASSUME IInv, NonRealtimeLocate
    PROVE  IInv'
<1>1. /\ s' = [s EXCEPT !.astray = FALSE] /\ disk' = s.frame
      /\ UNCHANGED <<cycle, on_entry, ptw>> /\ bpc = "locate"
      /\ bpc' = IF "Stop" \in ptw THEN "stop" ELSE "done"
  BY DEF NonRealtimeLocate, ButlerGoto, AfterLocate
<1>2. s.frame \in Nat
  BY FrameFacts DEF IInv, Fit, Scalars
<1>3. /\ Lists(s') /\ Scalars(s') /\ Fresh(s') /\ s'.frame = s.frame
      /\ s'.work = s.work /\ s'.speed = s.speed /\ s'.count = s.count
  BY <1>1, Sought DEF IInv
<1>4. Owed'
  BY <1>1 DEF IInv, Fit, Owed
<1>5. Fit(s)'
  BY <1>1, <1>3, <1>4, ButlerFit DEF IInv, Fit, Posted, cycle
<1>6. Playing'
  BY <1>1, <1>3, SoughtPlays
<1>7. Cycling'
  BY <1>1, <1>2, <1>3, ButlerCycling DEF IInv
<1> QED BY <1>5, <1>6, <1>7 DEF IInv

(* The butler reads what work there is.                                    *)
LEMMA ReadWorkStep ==
    ASSUME IInv, ReadWork
    PROVE  IInv'
<1>1. /\ s' = s /\ disk' = disk /\ UNCHANGED <<cycle, on_entry>> /\ bpc = "stop"
      /\ bpc' = "return" /\ ptw' = s.work
  BY DEF ReadWork, ButlerGoto
<1>2. Owed'
  BY <1>1 DEF IInv, Fit, Owed, Posted
<1>3. Fit(s)'
  BY <1>1, <1>2, ButlerFit DEF IInv, Fit, Posted, cycle
<1>4. Playing'
  <2>1. Awaits(s)'
    BY <1>1 DEF Awaits
  <2> QED BY <2>1, <1>1, AwaitsPlays DEF IInv
<1>5. Cycling'
  BY <1>1, ButlerCycling DEF IInv, Cycling
<1> QED BY <1>3, <1>4, <1>5 DEF IInv

(* The butler moves the position only while a stop is at work, and seeks   *)
(* next.                                                                   *)
LEMMA ReturnStep ==
    ASSUME NeverDry, IInv, Return
    PROVE  IInv'
<1> DEFINE t == Returned(s)
           u == [t EXCEPT !.range = FALSE]
           v == UnsetPlayLoop(u)
<1>1. /\ s' \in {t, v} /\ disk' = disk /\ UNCHANGED <<cycle, on_entry, ptw>>
      /\ bpc = "return" /\ bpc' = "seek"
  BY DEF Return, ButlerGoto
<1>2. ReturnFrame(s) \in Frames
  <2>1. LoopStart \in Frames /\ s.lastRoll \in Frames
    BY FrameFacts DEF IInv, Fit, Scalars
  <2>2. Ranges[1][1] \in Frames
    <3>1. Len(Ranges) \in Nat /\ Len(Ranges) # 0 /\ Ranges \in Seq(Frames \X Frames)
      BY RangeAssumption, EmptySeq, LenProperties
    <3>2. Ranges[1] \in Frames \X Frames
      BY <3>1, ElementOfSeq
    <3> QED BY <3>2
  <2> QED BY <2>1, <2>2 DEF ReturnFrame
<1>3. /\ DOMAIN t = DOMAIN s /\ t.frame \in Frames
      /\ t.sub = s.sub /\ t.work = s.work /\ t.speed = s.speed
      /\ t.rec = s.rec /\ t.plocate = s.plocate /\ t.count = s.count
      /\ t.lastRoll = s.lastRoll /\ t.punchIn = s.punchIn
      /\ t.astray = s.astray /\ t.proll = s.proll
      /\ t.ev = s.ev /\ t.live = s.live /\ t.events = s.events
      /\ t.immediate = s.immediate /\ t.next = s.next /\ t.pending = s.pending
  BY <1>2 DEF Returned, IInv, Fit, Scalars, Lists, Listed, Typed, ListFields
<1> HIDE DEF t
<1>4. Fit(t)
  <2>1. t.frame \in Nat
    BY <1>3, FrameFacts
  <2>2. Good(s, t)
    BY <2>1, <1>3, SameLists DEF IInv, Fit
  <2>3. Scalars(t) /\ Fresh(t) /\ Posted(t)
    BY <1>3 DEF IInv, Fit, Scalars, Fresh, Posted
  <2> QED BY <2>2, <2>3 DEF IInv, Fit, Good
<1>5. /\ Only(t, u, Elsewhere)
      /\ u.ev = t.ev /\ u.live = t.live /\ u.events = t.events /\ u.immediate = t.immediate
      /\ u.next = t.next /\ u.pending = t.pending
  BY <1>4 DEF Only, Elsewhere, Fit, Scalars, Lists, Listed, Typed, ListFields
<1> HIDE DEF u
<1>6. Fit(u)
  BY <1>4, <1>5, UpdateHolds DEF Holds
<1>7. Fit(v) /\ Only(u, v, Elsewhere)
  BY <1>6, UnsetLoopHolds DEF Holds
<1> HIDE DEF v
<1>8. /\ Fit(s') /\ s'.work = s.work /\ s'.speed = s.speed /\ s'.count = s.count
      /\ s'.rec = s.rec
  <2>1. /\ v.work = t.work /\ v.speed = t.speed /\ v.count = t.count /\ v.rec = t.rec
    BY <1>4, <1>5, <1>7 DEF Only, Elsewhere, Fit, Scalars, ListFields
  <2> QED BY <2>1, <1>1, <1>3, <1>4, <1>7
<1>9. ~Calm(s) /\ "Stop" \in ptw /\ ptw \subseteq s.work
  BY <1>1 DEF IInv, Fit, Owed, Posted, Calm
<1>10. Owed'
  BY <1>1, <1>9 DEF IInv, Fit, Owed
<1>11. Fit(s)'
  BY <1>1, <1>8, <1>9, <1>10, ButlerFit DEF IInv, Fit, Posted, cycle
<1>12. Playing'
  <2>1. ~Calm(s)' /\ Awaits(s)'
    BY <1>1, <1>8, <1>9 DEF Calm, Awaits
  <2> QED BY <2>1 DEF Playing, Placed, Firm
<1>13. Cycling'
  BY <1>1, <1>8, <1>9, ButlerCycling DEF IInv, Cycling
<1> QED BY <1>11, <1>12, <1>13 DEF IInv

(* A pass ends, and the counter with it.                                   *)
CountedDown(t) == [t EXCEPT !.count = @ - 1]
(* Counting down leaves all but the counter as it was.                     *)
LEMMA CountingDown ==
    ASSUME Fit(s), bpc # "idle"
    PROVE  LET t == CountedDown(s)
           IN  /\ Lists(t) /\ Scalars(t) /\ Fresh(t) /\ t.count = s.count - 1
               /\ t.work = s.work /\ t.speed = s.speed /\ t.frame = s.frame
               /\ t.rec = s.rec /\ t.sub = s.sub /\ t.plocate = s.plocate
               /\ t.astray = s.astray
<1> DEFINE t == CountedDown(s)
<1>1. /\ DOMAIN t = DOMAIN s /\ t.frame = s.frame
      /\ t.sub = s.sub /\ t.work = s.work /\ t.speed = s.speed
      /\ t.rec = s.rec /\ t.plocate = s.plocate /\ t.count = s.count - 1
      /\ t.lastRoll = s.lastRoll /\ t.punchIn = s.punchIn
      /\ t.astray = s.astray /\ t.proll = s.proll
      /\ t.ev = s.ev /\ t.live = s.live /\ t.events = s.events
      /\ t.immediate = s.immediate /\ t.next = s.next /\ t.pending = s.pending
  BY DEF CountedDown, Fit, Scalars, Lists, Listed, Typed, ListFields
<1> HIDE DEF t
<1>2. s.count \in Nat /\ s.count >= on_entry /\ on_entry >= 1 /\ on_entry \in Nat
  BY DEF Fit, Scalars, Posted, Owed
<1>3. t.count \in Nat
  BY <1>1, <1>2
<1>4. Lists(t)
  <2>1. t.frame \in Nat
    BY <1>1, FrameFacts DEF Fit, Scalars
  <2> QED BY <2>1, <1>1, SameLists DEF Fit, Good
<1>5. Scalars(t) /\ Fresh(t)
  BY <1>1, <1>3 DEF Fit, Scalars, Fresh
<1> QED BY <1>1, <1>4, <1>5 DEF t

(* After the seek the pass goes on, or gives way to the next.              *)
SoughtDown(t) == [t EXCEPT !.astray = FALSE, !.count = IF CounterUnchanged THEN @ ELSE @ - 1]
(* The counter goes down with the seek only when more was posted.          *)
LEMMA SeekingDown ==
    ASSUME Fit(s), bpc # "idle"
    PROVE  LET t == SoughtDown(s)
           IN  /\ Lists(t) /\ Scalars(t) /\ Fresh(t)
               /\ t.count = IF CounterUnchanged THEN s.count ELSE s.count - 1
               /\ t.work = s.work /\ t.speed = s.speed /\ t.frame = s.frame
               /\ t.rec = s.rec /\ t.sub = s.sub /\ t.plocate = s.plocate
               /\ t.want = s.want /\ t.ev = s.ev /\ t.live = s.live /\ t.events = s.events
               /\ t.immediate = s.immediate /\ t.next = s.next /\ t.pending = s.pending
<1> DEFINE t == SoughtDown(s)
           n == IF CounterUnchanged THEN s.count ELSE s.count - 1
<1>1. /\ DOMAIN t = DOMAIN s /\ t.frame = s.frame /\ t.count = n
      /\ t.sub = s.sub /\ t.work = s.work /\ t.speed = s.speed
      /\ t.rec = s.rec /\ t.plocate = s.plocate /\ t.want = s.want
      /\ t.lastRoll = s.lastRoll /\ t.punchIn = s.punchIn /\ t.proll = s.proll
      /\ t.ev = s.ev /\ t.live = s.live /\ t.events = s.events
      /\ t.immediate = s.immediate /\ t.next = s.next /\ t.pending = s.pending
  BY DEF SoughtDown, Fit, Scalars, Lists, Listed, Typed, ListFields
<1>2. t.astray \in BOOLEAN
  BY DEF SoughtDown, Fit, Scalars
<1> HIDE DEF t
<1>3. s.count \in Nat /\ s.count >= on_entry /\ on_entry >= 1 /\ on_entry \in Nat
  BY DEF Fit, Scalars, Posted, Owed
<1>4. t.count \in Nat
  BY <1>1, <1>3
<1>5. Lists(t)
  <2>1. t.frame \in Nat
    BY <1>1, FrameFacts DEF Fit, Scalars
  <2> QED BY <2>1, <1>1, SameLists DEF Fit, Good
<1>6. Scalars(t) /\ Fresh(t)
  BY <1>1, <1>2, <1>4 DEF Fit, Scalars, Fresh
<1> QED BY <1>1, <1>5, <1>6 DEF t

(* The seek that follows a stop.                                           *)
LEMMA SeekStep ==
    ASSUME IInv, Seek
    PROVE  IInv'
<1>1. /\ s' = SoughtDown(s) /\ disk' = s.frame /\ UNCHANGED <<cycle, on_entry, ptw>>
      /\ bpc = "seek" /\ bpc' = IF CounterUnchanged THEN "stopped" ELSE "idle"
  BY DEF Seek, ButlerGoto, SoughtDown
<1>2. s.frame \in Nat
  BY FrameFacts DEF IInv, Fit, Scalars
<1>3. /\ Lists(s') /\ Scalars(s') /\ Fresh(s') /\ s'.frame = s.frame
      /\ s'.work = s.work /\ s'.speed = s.speed
      /\ s'.count = IF CounterUnchanged THEN s.count ELSE s.count - 1
  BY <1>1, SeekingDown DEF IInv
<1>4. Owed'
  BY <1>1 DEF IInv, Fit, Owed
<1>5. Fit(s)'
  <2>1. bpc' # "idle" => s'.count >= on_entry' /\ ptw' \subseteq s.work
    BY <1>1, <1>3 DEF IInv, Fit, Posted
  <2> QED BY <2>1, <1>1, <1>3, <1>4, ButlerFit DEF IInv, cycle
<1>6. Playing'
  BY <1>1, <1>3, SoughtPlays
<1>7. Cycling'
  BY <1>1, <1>2, <1>3, ButlerCycling DEF IInv
<1> QED BY <1>5, <1>6, <1>7 DEF IInv

(* The request to roll is queued like any other.                           *)
LEMMA StoppedStep ==
    ASSUME NeverDry, IInv, Stopped
    PROVE  IInv'
<1> DEFINE t == [s EXCEPT !.range = FALSE, !.loop = FALSE]
           v == Queue(t, RollRequest)
           u == [v EXCEPT !.proll = FALSE]
<1>1. /\ s' \in {t, u} /\ disk' = disk /\ UNCHANGED <<cycle, on_entry, ptw>>
      /\ bpc = "stopped" /\ bpc' = "done"
  BY DEF Stopped, ButlerGoto
<1>2. /\ Only(s, t, Elsewhere)
      /\ t.ev = s.ev /\ t.live = s.live /\ t.events = s.events /\ t.immediate = s.immediate
      /\ t.next = s.next /\ t.pending = s.pending
  BY DEF Only, Elsewhere, IInv, Fit, Scalars, Lists, Listed, Typed, ListFields
<1> HIDE DEF t
<1>3. Fit(t)
  BY <1>2, UpdateHolds DEF IInv, Holds
<1>4. Proper(RollRequest) /\ Asked(RollRequest) /\ RollRequest.frame \in Nat
  BY FrameFacts DEF RollRequest, Event, Proper, Asked, Commands, OnceOnly, Immediate
<1>5. Good(t, v) /\ Only(t, v, {})
  BY <1>3, <1>4, QueueFits DEF Fit
<1> HIDE DEF v
<1>6. Fit(v)
  <2>1. Only(t, v, Elsewhere)
    BY <1>5 DEF Only
  <2> QED BY <2>1, <1>3, <1>5, ElsewhereHolds DEF Holds
<1>7. /\ DOMAIN u = DOMAIN v /\ u.frame = v.frame
      /\ u.sub = v.sub /\ u.work = v.work /\ u.speed = v.speed
      /\ u.rec = v.rec /\ u.plocate = v.plocate /\ u.count = v.count
      /\ u.lastRoll = v.lastRoll /\ u.punchIn = v.punchIn /\ u.astray = v.astray /\ u.proll = FALSE
      /\ u.ev = v.ev /\ u.live = v.live /\ u.events = v.events
      /\ u.immediate = v.immediate /\ u.next = v.next /\ u.pending = v.pending
  BY <1>6 DEF Fit, Scalars, Lists, Listed, Typed, ListFields
<1> HIDE DEF u
<1>8. Fit(u)
  <2>1. u.frame \in Nat
    BY <1>6, <1>7, FrameFacts DEF Fit, Scalars
  <2>2. Good(v, u)
    BY <2>1, <1>6, <1>7, SameLists DEF Fit
  <2>3. Scalars(u) /\ Fresh(u) /\ Posted(u)
    BY <1>6, <1>7 DEF Fit, Scalars, Fresh, Posted
  <2> QED BY <2>2, <2>3, <1>6 DEF Fit, Good
<1>9. /\ Fit(s') /\ s'.work = s.work /\ s'.speed = s.speed /\ s'.count = s.count
      /\ s'.rec = s.rec /\ s'.sub = s.sub /\ s'.plocate = s.plocate /\ s'.frame = s.frame
      /\ s'.astray = s.astray
  <2>1. /\ t.work = s.work /\ t.speed = s.speed /\ t.count = s.count
        /\ t.rec = s.rec /\ t.sub = s.sub /\ t.plocate = s.plocate /\ t.frame = s.frame
        /\ t.astray = s.astray
    BY <1>2 DEF Only, Elsewhere, IInv, Fit, Scalars, ListFields
  <2>2. /\ u.work = t.work /\ u.speed = t.speed /\ u.count = t.count
        /\ u.rec = t.rec /\ u.sub = t.sub /\ u.plocate = t.plocate /\ u.frame = t.frame
        /\ u.astray = t.astray
    BY <1>3, <1>5, <1>7 DEF Only, Fit, Scalars, ListFields
  <2> QED BY <2>1, <2>2, <1>1, <1>3, <1>8
<1>10. Owed'
  BY <1>1 DEF IInv, Fit, Owed
<1>11. Fit(s)'
  BY <1>1, <1>9, <1>10, ButlerFit DEF IInv, Fit, Posted, cycle
<1>12. Playing'
  <2>1. Awaits(s) => Awaits(s)'
    BY <1>1, <1>9 DEF Awaits
  <2> QED BY <2>1, <1>1, <1>9, AwaitsPlays DEF IInv
<1>13. Cycling'
  BY <1>1, <1>9, ButlerCycling DEF IInv, Cycling
<1> QED BY <1>11, <1>12, <1>13 DEF IInv

(* A pass that ends leaves the counter above zero if more was posted.      *)
LEMMA WorkDoneStep ==
    ASSUME IInv, WorkDone
    PROVE  IInv'
<1>1. /\ s' = CountedDown(s) /\ disk' = disk /\ UNCHANGED cycle /\ bpc = "done"
      /\ bpc' = "idle" /\ on_entry' = 0
  BY DEF WorkDone, ButlerGoto, CountedDown
<1>2. /\ Lists(s') /\ Scalars(s') /\ Fresh(s') /\ s'.count = s.count - 1
      /\ s'.work = s.work /\ s'.speed = s.speed /\ s'.frame = s.frame
      /\ s'.rec = s.rec /\ s'.sub = s.sub /\ s'.plocate = s.plocate /\ s'.astray = s.astray
  BY <1>1, CountingDown DEF IInv
<1>3. Owed'
  BY <1>1 DEF IInv, Fit, Owed
<1>4. Fit(s)'
  BY <1>1, <1>2, <1>3, ButlerFit DEF IInv, cycle
<1>5. Playing'
  <2>1. s.count \in Nat /\ on_entry \in Nat /\ on_entry >= 1
    BY <1>1 DEF IInv, Fit, Scalars, Owed
  <2>2. Awaits(s) => Awaits(s)'
    BY <2>1, <1>1, <1>2 DEF Awaits
  <2> QED BY <2>2, <1>1, <1>2, AwaitsPlays DEF IInv
<1>6. Cycling'
  BY <1>1, <1>2, ButlerCycling DEF IInv, Cycling
<1> QED BY <1>4, <1>5, <1>6 DEF IInv

-----------------------------------------------------------------------------
(* The user's steps.                                                       *)
LEMMA RequestStep ==
    ASSUME NeverDry, IInv, Request
    PROVE  IInv'
<1>1. PICK r \in Requests : s' = Queue(s, r)
  BY DEF Request
<1>2. Proper(r) /\ Asked(r) /\ r.frame \in Nat
  BY RequestFits
<1>3. Lists(s') /\ Only(s, s', {})
  BY <1>1, <1>2, QueueFits DEF IInv, Fit, Good
<1>4. Keeps(s, s')
  <2>1. Only(s, s', Elsewhere)
    BY <1>3 DEF Only
  <2> QED BY <2>1, <1>3, ListsKept DEF IInv
<1>5. s'.work = s.work /\ s'.frame = s.frame
  BY <1>3 DEF Only, IInv, Fit, Scalars, ListFields
<1>6. UNCHANGED <<cycle, butler, disk>>
  BY DEF Request
<1>7. Fit(s)'
  BY <1>4, <1>6, KeptFit DEF IInv, Keeps, cycle
<1>8. Playing'
  BY <1>4, <1>6, KeptPlaying DEF IInv
<1>9. Cycling'
  BY <1>5, <1>6, ButlerCycling DEF IInv, Cycling
<1> QED BY <1>7, <1>8, <1>9 DEF IInv

(* Arming a transport that rolls begins a recording.                       *)
LEMMA ArmHolds ==
    ASSUME Fit(s), ArmRecord
    PROVE  Holds(s, s') /\ s'.work = s.work /\ s'.frame = s.frame
<1>1. CASE s.speed # 0 /\ ~s.punchIn
  <2>1. s' = Record(s)
    BY <1>1 DEF ArmRecord
  <2>2. Record(s).work = s.work /\ Record(s).frame = s.frame
    BY Recorded DEF Fit
  <2> QED BY <2>1, <2>2, RecordHolds
<1>2. CASE ~(s.speed # 0 /\ ~s.punchIn)
  <2>1. s' = [s EXCEPT !.rec = "Enabled"]
    BY <1>2 DEF ArmRecord
  <2>2. s'.work = s.work /\ s'.frame = s.frame
    BY <2>1 DEF Fit, Scalars
  <2> QED BY <2>1, <2>2, PunchOutHolds
<1> QED BY <1>1, <1>2

(* Arming keeps the invariant.                                             *)
LEMMA ArmRecordStep ==
    ASSUME IInv, ArmRecord
    PROVE  IInv'
<1>1. Keeps(s, s') /\ s'.work = s.work /\ s'.frame = s.frame
  BY ArmHolds DEF IInv, Holds, Keeps
<1>2. UNCHANGED <<cycle, butler, disk>>
  BY DEF ArmRecord
<1>3. Fit(s)'
  BY <1>1, <1>2, KeptFit DEF IInv, Keeps, cycle
<1>4. Playing'
  BY <1>1, <1>2, KeptPlaying DEF IInv
<1>5. Cycling'
  BY <1>1, <1>2, ButlerCycling DEF IInv, Cycling
<1> QED BY <1>3, <1>4, <1>5 DEF IInv

(* A step that changes nothing.                                            *)
LEMMA UnchangedStep ==
    ASSUME IInv, UNCHANGED vars
    PROVE  IInv'
<1>1. s' = s /\ UNCHANGED <<cycle, butler, disk>>
  BY DEF vars, cycle, butler
<1>2. Fit(s)'
  BY <1>1, KeptFit DEF IInv, cycle
<1>3. Playing'
  BY <1>1, KeepsItself, KeptPlaying DEF IInv
<1>4. Cycling'
  BY <1>1, ButlerCycling DEF IInv, Cycling
<1> QED BY <1>2, <1>3, <1>4 DEF IInv

(* Every step keeps the invariant.                                         *)
LEMMA NextIInv ==
    ASSUME NeverDry, IInv, [Next]_vars
    PROVE  IInv'
<1>1. CASE ProcessThread
  <2>1. Merged => IInv'
    <3>1. Merged => /\ s' = s /\ UNCHANGED <<this, the_next_one, left, butler, disk>>
                    /\ pc' \in {"idle", "merge", "immediate", "events"}
      BY DEF Merged, Goto
    <3> QED BY <3>1, KeepsItself, KeptIInv DEF IInv
  <2> QED
    BY <1>1, <2>1, ProcessStep, MergeStep, ImmediateStep, DoNotRollStep, WithoutEventsStep,
       WithEventsStep, RollPartStep, ProcessHereStep, PartDoneStep, CycleDoneStep
    DEF ProcessThread
<1>2. CASE Butler
  BY <1>2, StartWorkStep, LocateStep, ReadWorkStep, ReturnStep, SeekStep, StoppedStep,
     WorkDoneStep
  DEF Butler
<1>3. CASE Request
  BY <1>3, RequestStep
<1>4. CASE ArmRecord
  BY <1>4, ArmRecordStep
<1>5. CASE UNCHANGED vars
  BY <1>5, UnchangedStep
<1> QED BY <1>1, <1>2, <1>3, <1>4, <1>5 DEF Next

(* The inductive invariant, from which the theorems below follow.          *)
THEOREM Invariant == NeverDry => (Spec => []IInv)
<1> SUFFICES ASSUME NeverDry PROVE Spec => []IInv
  OBVIOUS
<1>1. Init => IInv
  BY InitIInv
<1>2. IInv /\ [Next]_vars => IInv'
  BY NextIInv
<1> QED BY <1>1, <1>2, PTL DEF Spec

-----------------------------------------------------------------------------
(* Every variable keeps its type: no handler leads the position out of the *)
(* session's frames, empties a counter or leaves an event of no type, and  *)
(* a cycle never rolls more than a block (session_process.cc:233-411).     *)
THEOREM TypeCorrect == NeverDry => (Spec => []TypeOK)
<1> SUFFICES ASSUME NeverDry PROVE Spec => []TypeOK
  OBVIOUS
<1>1. IInv => TypeOK
  <2> SUFFICES ASSUME IInv PROVE TypeOK
    OBVIOUS
  <2>1. Listed(s) /\ Waiting(s, Held) /\ Scalars(s) /\ Owed /\ Cycling
    BY DEF IInv, Fit, Lists
  <2>2. s.live \subseteq Cells /\ s.next \in Cells \cup {End}
    BY <2>1 DEF Listed, Typed
  <2>3. \A e \in Cells : s.ev[e].type \in {"None"} \cup Kept \cup Commands
    BY <2>1 DEF Waiting, Proper
  <2>4. \A q \in {s.events, s.immediate, s.pending} : q \in Seq(Cells)
    BY <2>1 DEF Waiting, Listed, Typed
  <2> QED BY <2>1, <2>2, <2>3, <2>4 DEF TypeOK, Scalars, Owed, Cycling, Subs, Works
<1>2. Spec => []IInv
  BY Invariant
<1> QED BY <1>1, <1>2, PTL

(* However merging, replacing, removing, clearing and processing nest, the *)
(* event list stays in order, holds each event once and none that was      *)
(* deleted, and next_event stays an iterator into it                       *)
(* (session_events.cc:132-279).                                            *)
THEOREM ListsSound == NeverDry => (Spec => []EventListSound)
<1> SUFFICES ASSUME NeverDry PROVE Spec => []EventListSound
  OBVIOUS
<1>1. IInv => EventListSound
  <2> SUFFICES ASSUME IInv PROVE EventListSound
    OBVIOUS
  <2>1. Listed(s)
    BY DEF IInv, Fit, Lists
  <2>2. \A i, j \in DOMAIN s.events : i < j =>
          /\ s.ev[s.events[i]].frame <= s.ev[s.events[j]].frame
          /\ s.events[i] # s.events[j]
    BY <2>1 DEF Listed, Ordered, Apart
  <2>3. \A i \in DOMAIN s.events : s.events[i] \in s.live
    BY <2>1 DEF Listed, ToSet
  <2>4. s.next # End => Contains(s.events, s.next)
    BY <2>1, LenProperties DEF Listed, Typed, Contains, ToSet
  <2> QED BY <2>2, <2>3, <2>4 DEF EventListSound
<1>2. Spec => []IInv
  BY Invariant
<1> QED BY <1>1, <1>2, PTL

(* Neither a declick nor a locate that waits for one is left pending when  *)
(* the transport is at rest, in whatever order commands, events and the    *)
(* butler's work come (session_transport.cc:601-623, 1034-1090).  Of the   *)
(* flag StopPendingCapture nothing is said.                                *)
THEOREM DeclickNeverStale == NeverDry => (Spec => []NoStaleDeclick)
<1> SUFFICES ASSUME NeverDry PROVE Spec => []NoStaleDeclick
  OBVIOUS
<1>1. IInv => NoStaleDeclick
  BY DEF IInv, Fit, Fresh, NoStaleDeclick
<1>2. Spec => []IInv
  BY Invariant
<1> QED BY <1>1, <1>2, PTL

(* Tracks that are about to be rolled play from where the transport is,    *)
(* whatever is armed or punched in and out: the butler has sought them to  *)
(* the last of the positions that locating, stopping, returning and        *)
(* looping led to (session_process.cc:233-411,                             *)
(* session_transport.cc:251-599), but for the exceptions that              *)
(* PlaysFromPosition names.                                                *)
THEOREM PlaysWhereItIs == NeverDry => (Spec => []PlaysFromPosition)
<1> SUFFICES ASSUME NeverDry PROVE Spec => []PlaysFromPosition
  OBVIOUS
<1>1. IInv => PlaysFromPosition
  <2> SUFFICES ASSUME IInv, AboutToRoll, "DeclickOut" \notin s.sub, ~s.astray
               PROVE  disk = s.frame
    BY DEF PlaysFromPosition
  <2>1. "Locate" \notin s.sub
    BY DEF IInv, Fit, Fresh
  <2>2. Firm(s, disk)
    BY <2>1 DEF IInv, Playing, Placed
  <2>3. Calm(s)
    BY RollsCalmly DEF AboutToRoll, IInv, Cycling
  <2>4. s.frame # LastFrame
    <3>1. Limit \in Nat /\ Limit <= LastFrame
      BY LengthAssumption DEF Limit
    <3>2. s.frame \in Nat /\ LastFrame \in Nat
      BY LengthAssumption, FrameFacts DEF IInv, Fit, Scalars
    <3> QED BY <3>1, <3>2 DEF AboutToRoll
  <2> QED BY <2>2, <2>3, <2>4 DEF Firm
<1>2. Spec => []IInv
  BY Invariant
<1> QED BY <1>1, <1>2, PTL

-----------------------------------------------------------------------------

(* A locate of a frame far from the session's end that the transport has   *)
(* not started after is carried out, waits for its declick at the frame it *)
(* is for, or gives way to a start that the process thread will make.      *)
Reaches(frame) == frame # Nowhere /\ FarFromEnd(frame)
Starts(t) == {"Locate", "Roll"} \subseteq t.work
Rests(t) == t.speed = 0 /\ t.frame = t.want
Declicks(t) ==
    /\ {"DeclickOut", "Locate"} \subseteq t.sub
    /\ t.plocate = t.want /\ t.frame = t.want /\ t.rec # "Recording"
Aims(t) == Reaches(t.want) => Starts(t) \/ Rests(t) \/ Declicks(t)
(* Within a cycle the transport is at rest only if a stop is at work.      *)
Halts(t) == t.speed = 0 => "Stop" \in t.work
Steers(t, u) == (Aims(t) => Aims(u)) /\ (Halts(t) => Halts(u))

(* Steering is transitive.                                                 *)
LEMMA SteersOn ==
    ASSUME NEW t, NEW u, NEW v, Steers(t, u), Steers(u, v)
    PROVE  Steers(t, v)
BY DEF Steers

(* Most of what handlers do is elsewhere.                                  *)
LEMMA ElsewhereSteers ==
    ASSUME NEW t, Fit(t), NEW u, Only(t, u, Elsewhere)
    PROVE  /\ Steers(t, u) /\ u.want = t.want /\ u.work = t.work /\ u.speed = t.speed
           /\ (Starts(t) => Starts(u)) /\ (Rests(t) => Rests(u))
<1>1. /\ u.work = t.work /\ u.sub = t.sub /\ u.speed = t.speed /\ u.frame = t.frame
      /\ u.rec = t.rec /\ u.plocate = t.plocate /\ u.want = t.want
  BY DEF Only, Fit, Scalars, ListFields, Elsewhere
<1> QED BY <1>1 DEF Steers, Aims, Halts, Starts, Rests, Declicks

(* A stop leaves a located transport where it is.                          *)
LEMMA StopSteers ==
    ASSUME NeverDry, NEW t, Fit(t)
    PROVE  Steers(t, StopTransport(t))
<1> DEFINE u == StopTransport(t)
<1>1. /\ u.want = t.want
      /\ \/ u = t
         \/ "DeclickOut" \in t.sub /\ u.speed = 0 /\ "Stop" \in u.work /\ t.work \subseteq u.work
              /\ (t.rec # "Recording" => u.frame = t.frame)
         \/ u.frame = t.frame /\ u.work = t.work /\ u.speed = t.speed /\ u.rec = t.rec
              /\ u.plocate = t.plocate /\ t.sub \subseteq u.sub
  BY StopHolds
<1> HIDE DEF u
<1>2. CASE u = t
  BY <1>2 DEF Steers, u
<1>3. CASE /\ "DeclickOut" \in t.sub /\ u.speed = 0 /\ "Stop" \in u.work
           /\ t.work \subseteq u.work /\ (t.rec # "Recording" => u.frame = t.frame)
  <2>1. t.speed # 0
    BY <1>3 DEF Fit, Fresh
  <2> QED BY <2>1, <1>1, <1>3 DEF Steers, Aims, Halts, Starts, Rests, Declicks, u
<1>4. CASE /\ u.frame = t.frame /\ u.work = t.work /\ u.speed = t.speed /\ u.rec = t.rec
           /\ u.plocate = t.plocate /\ t.sub \subseteq u.sub
  BY <1>1, <1>4 DEF Steers, Aims, Halts, Starts, Rests, Declicks, u
<1> QED BY <1>1, <1>2, <1>3, <1>4

(* A start ends the wait for a locate.                                     *)
LEMMA SpeedSteers ==
    ASSUME NeverDry, NEW t, Fit(t), NEW on \in BOOLEAN, on => Calm(t)
    PROVE  Steers(t, SetTransportSpeed(t, on))
<1> DEFINE u == SetTransportSpeed(t, on)
<1>1. CASE on /\ t.speed = 0
  <2>1. u.speed = 1 /\ u.want = Nowhere
    BY <1>1, SpeedHolds
  <2> HIDE DEF u
  <2> QED BY <2>1 DEF Steers, Aims, Halts, Reaches, u
<1>2. CASE ~on /\ t.speed # 0
  <2>1. u = StopTransport(t)
    BY <1>2 DEF SetTransportSpeed
  <2> QED BY <2>1, StopSteers
<1>3. CASE ~(on /\ t.speed = 0) /\ ~(~on /\ t.speed # 0)
  <2>1. u = t
    BY <1>3 DEF SetTransportSpeed
  <2> QED BY <2>1 DEF Steers
<1> QED BY <1>1, <1>2, <1>3

(* What locate is asked by: an event that rolls, or one whose frame is the *)
(* history's.                                                              *)
Meant(t, target, roll) ==
    \/ (roll \/ t.rec = "Recording") /\ Aims(t)
    \/ t.rec # "Recording" /\ t.want = IF target = t.frame /\ t.speed # 0 THEN Nowhere ELSE target

(* Locate aims at its target, or leaves the aim alone.                     *)
LEMMA LocateSteers ==
    ASSUME NeverDry, NEW t, Fit(t), NEW target \in Frames, NEW roll \in BOOLEAN, roll => Calm(t)
    PROVE  LET u == Locate(t, target, roll)
           IN  /\ Meant(t, target, roll) => Aims(u)
               /\ Halts(t) => Halts(u)
               /\ u.want \in {t.want, Nowhere}
               /\ "DeclickOut" \in t.sub /\ t.rec # "Recording" /\ t.frame # target
                    /\ t.want = target => Starts(u) \/ Rests(u)
<1> DEFINE u == Locate(t, target, roll)
           moved == [t EXCEPT !.frame = target]
           located == Located(t, target, roll)
<1>1. CASE t.rec = "Recording"
  <2>1. u = t
    BY <1>1 DEF Locate
  <2> QED BY <2>1, <1>1 DEF Meant
<1>2. CASE t.rec # "Recording" /\ t.frame = target
  <2>1. u = IF roll THEN SetTransportSpeed(t, TRUE) ELSE t
    BY <1>2 DEF Locate
  <2>2. CASE roll /\ t.speed = 0
    <3>1. u = SetTransportSpeed(t, TRUE)
      BY <2>1, <2>2
    <3> HIDE DEF u
    <3>2. u.speed = 1 /\ u.want = Nowhere
      BY <3>1, <2>2, SpeedHolds
    <3> QED BY <3>2, <1>2 DEF Aims, Halts, Reaches, u
  <2>3. CASE ~(roll /\ t.speed = 0)
    <3>1. u = t
      <4>1. CASE ~roll
        BY <4>1, <2>1
      <4>2. CASE roll /\ t.speed # 0
        BY <4>2, <2>1 DEF SetTransportSpeed
      <4> QED BY <4>1, <4>2, <2>3
    <3>2. Meant(t, target, roll) => Aims(t)
      BY <1>2, <2>3 DEF Meant, Aims, Rests, Reaches
    <3> QED BY <3>1, <3>2, <1>2
  <2> QED BY <2>2, <2>3
<1>3. CASE t.rec # "Recording" /\ t.frame # target /\ t.speed # 0 /\ "DeclickOut" \notin t.sub
  <2> DEFINE w == ScheduleDeclick(moved, target, roll)
  <2>1. u = w
    BY <1>3 DEF Locate
  <2>2. /\ w.frame = target /\ w.plocate = target
        /\ w.sub = t.sub \cup {"DeclickOut", "Locate"} /\ w.work = t.work /\ w.speed = t.speed
        /\ w.rec = t.rec /\ w.want = t.want
    BY DEF ScheduleDeclick, Fit, Scalars, Lists, Listed, Typed, ListFields
  <2> HIDE DEF w, u
  <2>3. ASSUME Meant(t, target, roll) PROVE Aims(w)
    <3>1. CASE Aims(t)
      BY <3>1, <2>2, <1>3 DEF Aims, Starts, Rests, Declicks
    <3>2. CASE ~Aims(t)
      <4>1. t.want = target
        BY <3>2, <1>3, <2>3 DEF Meant
      <4> QED BY <4>1, <2>2, <1>3 DEF Aims, Declicks
    <3> QED BY <3>1, <3>2
  <2>4. Halts(w) /\ w.want = t.want
    BY <2>2, <1>3 DEF Halts
  <2> QED BY <2>1, <2>3, <2>4, <1>3 DEF u
<1>4. CASE /\ t.rec # "Recording" /\ t.frame # target
           /\ ~(t.speed # 0 /\ "DeclickOut" \notin t.sub)
  <2>1. u = IF t.loop /\ (target < LoopStart \/ target > LoopEnd)
            THEN UnsetPlayLoop(located) ELSE located
    BY <1>4 DEF Locate, Located
  <2>2. /\ Holds(t, located) /\ located.frame = target /\ located.want = t.want
        /\ t.work \subseteq located.work
        /\ IF roll THEN {"Locate", "Roll"} \subseteq located.work /\ located.speed = t.speed
           ELSE located.speed = 0 /\ (t.speed # 0 => "Stop" \in located.work)
    BY <1>4, LocatedHolds
  <2> HIDE DEF located
  <2>3. ASSUME Meant(t, target, roll) PROVE Aims(located)
    <3>1. CASE roll
      BY <3>1, <2>2 DEF Aims, Starts
    <3>2. CASE ~roll
      <4>1. t.want = target
        BY <3>2, <1>4, <2>3 DEF Meant
      <4> QED BY <4>1, <3>2, <2>2 DEF Aims, Rests
    <3> QED BY <3>1, <3>2
  <2>4. Halts(t) => Halts(located)
    BY <2>2 DEF Halts
  <2>5. LET v == UnsetPlayLoop(located) 
        IN  /\ Steers(located, v) /\ v.want = located.want
            /\ (Starts(located) => Starts(v)) /\ (Rests(located) => Rests(v))
    <3>1. Fit(located)
      BY <2>2 DEF Holds
    <3>2. Only(located, UnsetPlayLoop(located), Elsewhere)
      BY <3>1, UnsetLoopHolds
    <3> QED BY <3>1, <3>2, ElsewhereSteers
  <2>6. t.want = target => Starts(located) \/ Rests(located)
    BY <2>2 DEF Starts, Rests
  <2> QED BY <2>1, <2>2, <2>3, <2>4, <2>5, <2>6 DEF Steers
<1> QED BY <1>1, <1>2, <1>3, <1>4

(* Loops and ranges locate and roll.                                       *)
LEMMA RollingSteers ==
    ASSUME NeverDry, NEW t, Fit(t), NEW target \in Frames, Calm(t)
    PROVE  Steers(t, Locate(t, target, TRUE))
BY LocateSteers DEF Meant, Steers

(* So does a loop that is switched on.                                     *)
LEMMA LoopSteers ==
    ASSUME NeverDry, NEW t, Fit(t), NEW on \in BOOLEAN, Calm(t)
    PROVE  Steers(t, SetPlayLoop(t, on))
<1> DEFINE v == [t EXCEPT !.loop = TRUE]
           w == UnsetPlayRange(v)
           event == Event("AutoLoop", "Replace", LoopEnd, LoopStart, FALSE)
           x == ReplaceEvent(Created(w, Held, event), New(w, Held))
           u == Locate(x, LoopStart, TRUE)
<1>1. SetPlayLoop(t, on) \in {t, UnsetPlayLoop(t), u}
  BY DEF SetPlayLoop
<1>2. Steers(t, t) /\ Steers(t, UnsetPlayLoop(t))
  <2>1. Only(t, UnsetPlayLoop(t), Elsewhere)
    BY UnsetLoopHolds
  <2> QED BY <2>1, ElsewhereSteers DEF Steers
<1>3. /\ Only(t, v, Elsewhere)
      /\ v.ev = t.ev /\ v.live = t.live /\ v.events = t.events /\ v.immediate = t.immediate
      /\ v.next = t.next /\ v.pending = t.pending
  BY DEF Only, Elsewhere, Fit, Scalars, Lists, Listed, Typed, ListFields
<1> HIDE DEF v
<1>4. Fit(v)
  BY <1>3, UpdateHolds DEF Holds
<1>5. Fit(w) /\ Only(v, w, Elsewhere)
  BY <1>4, UnsetRangeHolds DEF Holds
<1> HIDE DEF w
<1>6. Proper(event) /\ event.frame \in Nat /\ event.type \in OnceOnly
  BY FrameFacts DEF Event, Proper, Kept, OnceOnly
<1> HIDE DEF event
<1>7. Good(w, x) /\ Only(w, x, {})
  BY <1>5, <1>6, CreateAndReplace DEF Fit
<1> HIDE DEF x
<1>8. Only(t, x, Elsewhere)
  BY <1>3, <1>5, <1>7 DEF Only
<1>9. Fit(x)
  <2>1. Only(w, x, Elsewhere)
    BY <1>7 DEF Only
  <2> QED BY <2>1, <1>5, <1>7, ElsewhereHolds DEF Holds
<1>10. Steers(t, x) /\ Calm(x)
  BY <1>8, ElsewhereSteers DEF Calm
<1>11. Steers(x, u)
  BY <1>9, <1>10, RollingSteers, FrameFacts
<1> HIDE DEF u
<1> QED BY <1>1, <1>2, <1>10, <1>11, SteersOn

(* So does a range.                                                        *)
LEMMA RangeSteers ==
    ASSUME NeverDry, NEW t, Fit(t), NEW on \in BOOLEAN, Calm(t)
    PROVE  Steers(t, SetPlayRange(t, on))
<1> DEFINE r == UnsetPlayRange(t)
<1>1. Fit(r) /\ Only(t, r, Elsewhere)
  BY UnsetRangeHolds DEF Holds
<1> HIDE DEF r
<1>2. Steers(t, r) /\ Calm(r)
  BY <1>1, ElsewhereSteers DEF Calm
<1>3. CASE ~on
  <2> DEFINE v == SetTransportSpeed(r, FALSE)
             u == [v EXCEPT !.goal = "stop"]
  <2>1. SetPlayRange(t, on) = u
    BY <1>3 DEF SetPlayRange, r
  <2>2. Steers(r, v) /\ Fit(v)
    BY <1>1, SpeedSteers, SpeedHolds DEF Holds
  <2> HIDE DEF v
  <2>3. Only(v, u, Elsewhere)
    BY <2>2 DEF Only, Elsewhere, Fit, Scalars, ListFields
  <2> HIDE DEF u
  <2>4. Steers(v, u)
    BY <2>2, <2>3, ElsewhereSteers
  <2> QED BY <2>1, <2>2, <2>4, <1>2 DEF Steers
<1>4. CASE on
  <2> DEFINE v == [r EXCEPT !.range = TRUE]
             w == UnsetPlayLoop(v)
             x == RangesAdded(w)
             u == Locate(x, Ranges[1][1], TRUE)
  <2>1. SetPlayRange(t, on) = u
    BY <1>4 DEF SetPlayRange, r
  <2>2. /\ Only(r, v, Elsewhere)
        /\ v.ev = r.ev /\ v.live = r.live /\ v.events = r.events /\ v.immediate = r.immediate
        /\ v.next = r.next /\ v.pending = r.pending
    BY <1>1 DEF Only, Elsewhere, Fit, Scalars, Lists, Listed, Typed, ListFields
  <2> HIDE DEF v
  <2>3. Fit(v)
    BY <1>1, <2>2, UpdateHolds DEF Holds
  <2>4. Fit(w) /\ Only(v, w, Elsewhere)
    BY <2>3, UnsetLoopHolds DEF Holds
  <2> HIDE DEF w
  <2>5. Good(w, x) /\ Only(w, x, {})
    BY <2>4, RangesHold DEF Fit
  <2> HIDE DEF x
  <2>6. Fit(x) /\ Only(w, x, Elsewhere)
    <3>1. Only(w, x, Elsewhere)
      BY <2>5 DEF Only
    <3> QED BY <3>1, <2>4, <2>5, ElsewhereHolds DEF Holds
  <2>7. Only(r, x, Elsewhere)
    BY <2>2, <2>4, <2>6 DEF Only
  <2>8. Steers(r, x) /\ Calm(x)
    BY <1>1, <1>2, <2>7, ElsewhereSteers DEF Calm
  <2>9. Ranges[1][1] \in Frames
    <3>1. Len(Ranges) \in Nat /\ Len(Ranges) # 0 /\ Ranges \in Seq(Frames \X Frames)
      BY RangeAssumption, EmptySeq, LenProperties
    <3>2. Ranges[1] \in Frames \X Frames
      BY <3>1, ElementOfSeq
    <3> QED BY <3>2
  <2>10. Steers(x, u)
    <3> DEFINE first == Ranges[1][1]
    <3>1. first \in Frames
      BY <2>9
    <3>2. u = Locate(x, first, TRUE)
      OBVIOUS
    <3> HIDE DEF first, u
    <3> QED BY <3>1, <3>2, <2>6, <2>8, RollingSteers
  <2> HIDE DEF u
  <2> QED BY <2>1, <2>8, <2>10, <1>2 DEF Steers
<1> QED BY <1>3, <1>4

(* A recording that begins gives up a locate, and with it the aim.         *)
LEMMA RecordSteers ==
    ASSUME NEW t, Fit(t)
    PROVE  Steers(t, Record(t))
<1> DEFINE w == Record(t)
<1>1. /\ w.sub = t.sub /\ w.work = t.work /\ w.speed = t.speed /\ w.frame = t.frame
      /\ w.plocate = t.plocate
      /\ IF "Locate" \in t.sub THEN w.astray = TRUE /\ w.want = Nowhere
         ELSE w.astray = t.astray /\ w.want = t.want
  BY Recorded DEF Fit
<1> HIDE DEF w
<1>2. Halts(t) => Halts(w)
  BY <1>1 DEF Halts
<1>3. CASE "Locate" \in t.sub
  <2>1. w.want = Nowhere
    BY <1>1, <1>3
  <2> QED BY <2>1, <1>2 DEF Steers, Aims, Reaches, w
<1>4. CASE "Locate" \notin t.sub
  <2>1. w.want = t.want
    BY <1>1, <1>4
  <2>2. ~Declicks(t)
    BY <1>4 DEF Declicks
  <2>3. Aims(t) => Aims(w)
    BY <1>1, <2>1, <2>2 DEF Aims, Starts, Rests
  <2> QED BY <2>3, <1>2 DEF Steers, w
<1> QED BY <1>3, <1>4

(* One that ends leaves it.                                                *)
LEMMA PunchOutSteers ==
    ASSUME NEW t, Fit(t)
    PROVE  Steers(t, [t EXCEPT !.rec = "Enabled"])
<1> DEFINE w == [t EXCEPT !.rec = "Enabled"]
<1>1. /\ w.sub = t.sub /\ w.work = t.work /\ w.speed = t.speed /\ w.frame = t.frame
      /\ w.plocate = t.plocate /\ w.want = t.want /\ w.rec = "Enabled"
  BY DEF Fit, Scalars
<1> HIDE DEF w
<1>2. Steers(t, w)
  BY <1>1 DEF Steers, Aims, Halts, Starts, Rests, Declicks
<1> QED BY <1>2 DEF w

(* Carrying out an event, whatever is punched in or out.                   *)
LEMMA HandledSteers ==
    ASSUME NeverDry, NEW t, Fit(t), NEW e \in Cells,
           t.ev[e].type \in Kept \cup Commands,
           t.ev[e].type # "Locate" => t.work = {}
    PROVE  Steers(t, Handled(t, e))
<1> DEFINE ev == t.ev[e]
           u == Handled(t, e)
<1>1. ev.type \in Kept \cup Commands /\ ev.target \in Frames /\ ev.on \in BOOLEAN
  BY DEF Fit, Lists, Waiting, Proper
<1>2. ev.type # "Locate" => Calm(t)
  BY DEF Calm
<1> HIDE DEF ev
<1>3. CASE ev.type = "Speed"
  <2> DEFINE v == [t EXCEPT !.goal = IF ev.on THEN "roll" ELSE "stop"]
  <2>1. u = SetTransportSpeed(v, ev.on)
    BY <1>3 DEF Handled, ev
  <2>2. Fit(v) /\ v.work = t.work
    BY GoalHolds DEF Holds
  <2>3. Only(t, v, Elsewhere)
    BY DEF Only, Elsewhere, Fit, Scalars, ListFields
  <2> HIDE DEF v, u
  <2>4. Steers(t, v) /\ Calm(v)
    BY <2>2, <2>3, <1>2, <1>3, ElsewhereSteers DEF Calm
  <2>5. Steers(v, u)
    BY <2>1, <2>2, <2>4, <1>1, SpeedSteers
  <2> QED BY <2>4, <2>5, SteersOn DEF u
<1> DEFINE want == IF ev.target = t.frame /\ t.speed # 0 THEN Nowhere ELSE ev.target
           wanted == IF t.rec = "Recording" THEN t ELSE [t EXCEPT !.want = want]
<1>4. /\ Fit(wanted) /\ wanted.work = t.work /\ wanted.speed = t.speed
      /\ wanted.frame = t.frame /\ wanted.rec = t.rec
      /\ t.rec = "Recording" => wanted = t
      /\ t.rec # "Recording" => wanted.want = want
  <2> HIDE DEF want
  <2>1. LET v == [t EXCEPT !.want = want]
        IN  /\ Holds(t, v) /\ v.want = want
            /\ v.work = t.work /\ v.speed = t.speed /\ v.frame = t.frame /\ v.rec = t.rec
    BY WantHolds
  <2> QED BY <2>1 DEF Holds
<1> HIDE DEF wanted
<1>5. Halts(t) => Halts(wanted)
  BY <1>4 DEF Halts
<1>6. CASE ev.type = "Locate"
  <2>1. u = Locate(wanted, ev.target, FALSE)
    BY <1>6 DEF Handled, ev, wanted, want
  <2> HIDE DEF u
  <2>2. (Meant(wanted, ev.target, FALSE) => Aims(u)) /\ (Halts(wanted) => Halts(u))
    BY <2>1, <1>1, <1>4, LocateSteers
  <2>3. Aims(t) => Meant(wanted, ev.target, FALSE)
    BY <1>4 DEF Meant
  <2> QED BY <2>2, <2>3, <1>5 DEF Steers, u
<1>7. CASE ev.type = "LocateRoll"
  <2> DEFINE v == [wanted EXCEPT !.goal = "roll"]
  <2>1. u = Locate(v, ev.target, TRUE)
    BY <1>7 DEF Handled, ev, wanted, want
  <2>2. /\ Fit(v) /\ v.work = wanted.work /\ v.speed = wanted.speed /\ v.frame = wanted.frame
        /\ v.rec = wanted.rec /\ v.want = wanted.want
    <3>1. Fit(v)
      BY <1>4, GoalHolds DEF Holds
    <3> QED BY <3>1, <1>4 DEF Fit, Scalars
  <2>3. Only(wanted, v, Elsewhere)
    BY <1>4 DEF Only, Elsewhere, Fit, Scalars, ListFields
  <2> HIDE DEF v, u
  <2>4. Steers(wanted, v) /\ Calm(v)
    BY <2>2, <2>3, <1>2, <1>4, <1>7, ElsewhereSteers DEF Calm
  <2>5. (Meant(v, ev.target, TRUE) => Aims(u)) /\ (Halts(v) => Halts(u))
    BY <2>1, <2>2, <2>4, <1>1, LocateSteers
  <2>6. Aims(t) => Meant(v, ev.target, TRUE)
    BY <2>2, <2>4, <1>4 DEF Meant, Steers
  <2> QED BY <2>4, <2>5, <2>6, <1>5 DEF Steers, u
<1> HIDE DEF want
<1> DEFINE told == IF ev.on THEN [t EXCEPT !.goal = "roll"] ELSE t
<1>8. Fit(told) /\ told.work = t.work /\ Steers(t, told)
  <2> DEFINE v == [t EXCEPT !.goal = "roll"]
  <2>1. Fit(v) /\ v.work = t.work
    BY GoalHolds DEF Holds
  <2>2. Only(t, v, Elsewhere)
    BY DEF Only, Elsewhere, Fit, Scalars, ListFields
  <2> HIDE DEF v
  <2>3. Steers(t, v) /\ Steers(t, t)
    BY <2>2, ElsewhereSteers DEF Steers
  <2> QED BY <2>1, <2>3 DEF v
<1>9. CASE ev.type = "SetLoop"
  <2>1. u = SetPlayLoop(told, ev.on)
    BY <1>9 DEF Handled, ev
  <2> HIDE DEF told, u
  <2>2. Steers(told, u)
    BY <2>1, <1>1, <1>2, <1>8, <1>9, LoopSteers DEF Calm
  <2> QED BY <2>2, <1>8, SteersOn DEF u
<1>10. CASE ev.type = "SetPlayRange"
  <2>1. u = SetPlayRange(told, ev.on)
    BY <1>10 DEF Handled, ev
  <2> HIDE DEF told, u
  <2>2. Steers(told, u)
    BY <2>1, <1>1, <1>2, <1>8, <1>10, RangeSteers DEF Calm
  <2> QED BY <2>2, <1>8, SteersOn DEF u
<1> HIDE DEF told
<1>11. Steers(t, t)
  BY DEF Steers
<1>12. CASE ev.type = "Overwrite"
  <2> DEFINE w == ScheduleWork(t, {"OverWrite"})
  <2>1. u = t \/ u = w
    BY <1>12 DEF Handled, ev
  <2>2. /\ w.sub = t.sub /\ w.work = t.work \cup {"OverWrite"} /\ w.speed = t.speed
        /\ w.frame = t.frame /\ w.rec = t.rec /\ w.plocate = t.plocate /\ w.want = t.want
    BY DEF Fit, Scalars, ScheduleWork, AddWork
  <2> HIDE DEF w
  <2>3. Steers(t, w)
    BY <2>2 DEF Steers, Aims, Halts, Starts, Rests, Declicks
  <2> QED BY <2>1, <2>3, <1>11
<1>13. CASE ev.type \in {"AutoLoop", "RangeLocate"}
  <2>1. u = t \/ u = Locate(t, ev.target, TRUE)
    BY <1>13 DEF Handled, ev
  <2> HIDE DEF u
  <2>2. Steers(t, Locate(t, ev.target, TRUE))
    BY <1>1, <1>2, <1>13, RollingSteers
  <2> QED BY <2>1, <2>2, <1>11 DEF u
<1>14. CASE ev.type = "StopOnce"
  <2> DEFINE v == StopTransport(t)
  <2>1. u = ClearEventType(v, "StopOnce")
    BY <1>14 DEF Handled, ev
  <2>2. Fit(v) /\ Steers(t, v)
    BY StopHolds, StopSteers DEF Holds
  <2> HIDE DEF v, u
  <2>3. Only(v, u, {})
    BY <2>1, <2>2, ClearFits DEF Fit
  <2>4. Only(v, u, Elsewhere)
    BY <2>3 DEF Only
  <2>5. Steers(v, u)
    BY <2>2, <2>4, ElsewhereSteers
  <2> QED BY <2>2, <2>5, SteersOn DEF u
<1>15. CASE ev.type = "RangeStop"
  <2>1. u = StopTransport(t)
    BY <1>15 DEF Handled, ev
  <2> HIDE DEF u
  <2> QED BY <2>1, StopSteers DEF u
<1>16. CASE ev.type = "PunchIn"
  <2>1. u = t \/ u = Record(t)
    BY <1>16 DEF Handled, ev
  <2> HIDE DEF u
  <2> QED BY <2>1, <1>11, RecordSteers DEF u
<1>17. CASE ev.type = "PunchOut"
  <2>1. u = t \/ u = [t EXCEPT !.rec = "Enabled"]
    BY <1>17 DEF Handled, ev
  <2> HIDE DEF u
  <2> QED BY <2>1, <1>11, PunchOutSteers DEF u
<1> QED
  BY <1>1, <1>3, <1>6, <1>7, <1>9, <1>10, <1>12, <1>13, <1>14, <1>15, <1>16, <1>17
  DEF Kept, Commands

(* Events in the lists.                                                    *)
LEMMA ProcessEventSteers ==
    ASSUME NeverDry, NEW t, Fit(t), NEW e \in Cells,
           t.ev[e].type \in Kept \cup Commands,
           e \notin ToSet(t.pending),
           t.ev[e].type \in Commands => Aside(t, e)
    PROVE  Steers(t, ProcessEvent(t, e))
<1>1. CASE ~MayProcess(t, t.ev[e].type)
  <2> DEFINE v == Deferred(t, e)
             u == RemoveEvent(v, e)
  <2>1. ProcessEvent(t, e) = u
    BY <1>1 DEF ProcessEvent, Defer
  <2>2. Lists(v) /\ Only(t, v, {})
    BY DeferredFits DEF Fit
  <2> HIDE DEF v
  <2>3. Only(v, u, {})
    BY <2>2, RemoveFits DEF Good
  <2> HIDE DEF u
  <2>4. Only(t, u, Elsewhere)
    BY <2>2, <2>3 DEF Only
  <2> QED BY <2>1, <2>4, ElsewhereSteers
<1>2. CASE MayProcess(t, t.ev[e].type)
  <2> DEFINE h == Handled(t, e)
             r == RemoveEvent(h, e)
             u == Delete(r, e)
  <2>1. t.ev[e].type # "Locate" => t.work = {}
    BY <1>2 DEF MayProcess, NonRealtimeWorkPending
  <2>2. Steers(t, h) /\ Fit(h) /\ (Aside(t, e) => Aside(h, e))
    BY <2>1, HandledSteers, HandledHolds DEF Holds
  <2> HIDE DEF h
  <2>3. CASE t.ev[e].type \in Kept
    <3>1. ProcessEvent(t, e) = h
      BY <1>2, <2>3 DEF ProcessEvent, h
    <3> QED BY <3>1, <2>2
  <2>4. CASE t.ev[e].type \notin Kept
    <3>1. ProcessEvent(t, e) = u
      BY <1>2, <2>4 DEF ProcessEvent, h
    <3>2. Aside(h, e)
      BY <2>2, <2>4
    <3>3. Good(h, r) /\ Only(h, r, {})
      BY <2>2, <3>2, RemoveFits DEF Fit
    <3> HIDE DEF r
    <3>4. Only(r, u, {})
      <4>1. e \in r.live /\ e \notin ToSet(r.pending) /\ e \notin ToSet(r.immediate)
        BY <3>2, <3>3 DEF Good, Aside
      <4>2. e \notin ToSet(r.events)
        BY <3>2, <3>3, Kinds DEF Good, Aside, Lists, Waiting
      <4> QED BY <4>1, <4>2, <3>3, DeleteFits DEF Good
    <3> HIDE DEF u
    <3>5. Only(h, u, Elsewhere)
      BY <3>3, <3>4 DEF Only
    <3>6. Steers(h, u)
      BY <3>5, <2>2, ElsewhereSteers
    <3> QED BY <3>1, <3>6, <2>2, SteersOn
  <2> QED BY <2>3, <2>4
<1> QED BY <1>1, <1>2

(* An event that waited is carried out, or put into the lists.             *)
LEMMA MergeEventSteers ==
    ASSUME NeverDry, NEW t, Fit(t), NEW e \in t.live, Asked(t.ev[e]),
           e \notin ToSet(t.events) \cup ToSet(t.immediate) \cup ToSet(t.pending)
    PROVE  Steers(t, MergeEvent(t, e))
<1> DEFINE ev == t.ev[e]
           u == MergeEvent(t, e)
<1>1. e \in Cells /\ Lists(t) /\ Asked(ev)
  BY DEF Fit, Lists, Listed, Typed
<1> HIDE DEF ev
<1>2. CASE ev.action = "Remove"
  <2> DEFINE r == RemoveEvent(t, e)
             v == Delete(r, e)
  <2>1. u = v
    BY <1>2 DEF MergeEvent, ev
  <2>2. Good(t, r) /\ Only(t, r, {}) /\ Removed(t, r, e)
    BY <1>1, RemoveFits
  <2> HIDE DEF r
  <2>3. r.pending = t.pending
    BY <2>2, RestOnly DEF Removed, Fit, Lists, Listed, Typed
  <2>4. /\ e \in r.live
        /\ e \notin ToSet(r.events) /\ e \notin ToSet(r.immediate) /\ e \notin ToSet(r.pending)
    BY <2>2, <2>3 DEF Removed
  <2>5. Only(r, v, {})
    BY <2>2, <2>4, DeleteFits DEF Good
  <2> HIDE DEF v, u
  <2>6. Only(t, v, Elsewhere)
    BY <2>2, <2>5 DEF Only
  <2> QED BY <2>1, <2>6, ElsewhereSteers DEF u
<1>3. CASE ev.action = "Replace"
  <2> DEFINE v == ReplaceEvent(t, e)
  <2>1. u = v
    BY <1>3 DEF MergeEvent, ev
  <2>2. Only(t, v, {})
    BY <1>1, <1>3, ReplaceFits DEF Asked, ev
  <2> HIDE DEF v, u
  <2>3. Only(t, v, Elsewhere)
    BY <2>2 DEF Only
  <2> QED BY <2>1, <2>3, ElsewhereSteers DEF u
<1>4. CASE ev.action = "Clear"
  <2> DEFINE type == ev.type
             gone == {f \in Cells : t.ev[f].type = type}
             c == ClearEventType(t, type)
             v == Delete(c, e)
  <2>1. u = v
    BY <1>4 DEF MergeEvent, ev
  <2>2. Cleared(t, c, gone)
    BY <1>1, ClearingClears DEF Lists
  <2> HIDE DEF type
  <2>3. Good(t, c) /\ Only(t, c, {})
    BY <1>1, ClearFits
  <2> HIDE DEF c, gone
  <2>4. c.pending = t.pending
    BY <2>2, RestOnly DEF Cleared, Fit, Lists, Listed, Typed
  <2>5. /\ e \in c.live
        /\ e \notin ToSet(c.events) /\ e \notin ToSet(c.immediate) /\ e \notin ToSet(c.pending)
    BY <2>2, <2>4, ThinnedSet DEF Cleared
  <2>6. Only(c, v, {})
    BY <2>3, <2>5, DeleteFits DEF Good
  <2> HIDE DEF v, u
  <2>7. Only(t, v, Elsewhere)
    BY <2>3, <2>6 DEF Only
  <2> QED BY <2>1, <2>7, ElsewhereSteers DEF u
<1>5. CASE ev.action = "Add" /\ ev.frame = Immediate
  <2>1. u = ProcessEvent(t, e)
    BY <1>5 DEF MergeEvent, ev
  <2>2. ev.type \in Commands => Aside(t, e)
    BY DEF Aside, ev
  <2>3. ev.type \in Kept \cup Commands
    BY <1>1 DEF Asked
  <2> HIDE DEF u
  <2> QED BY <2>1, <2>2, <2>3, <1>1, ProcessEventSteers DEF u, ev
<1>6. CASE ev.action = "Add" /\ ev.frame # Immediate
  <2> DEFINE v == AddEvent(t, e)
  <2>1. u = v
    BY <1>6 DEF MergeEvent, ev
  <2>2. Only(t, v, {})
    BY <1>1, <1>6, AddFits DEF Asked, ev
  <2> HIDE DEF v, u
  <2>3. Only(t, v, Elsewhere)
    BY <2>2 DEF Only
  <2> QED BY <2>1, <2>3, ElsewhereSteers DEF u
<1> QED BY <1>1, <1>2, <1>3, <1>4, <1>5, <1>6 DEF Asked

(* What was posted and asks for a start is started, and nothing else moves.*)
LEMMA PostTransportAims ==
    ASSUME NEW t, Fit(t), Aims(t)
    PROVE  Aims(PostTransport(t))
<1> DEFINE a == IF "Stop" \in t.work THEN [t EXCEPT !.sub = {}] ELSE t
           b == IF "Locate" \notin t.work THEN a
                ELSE IF "Roll" \in t.work THEN StartTransport(a)
                ELSE [a EXCEPT !.sub = {}]
           c == SetNextEvent(b)
           u == [c EXCEPT !.work = {}]
<1>1. /\ DOMAIN a = DOMAIN t /\ a.frame = t.frame /\ a.want = t.want /\ a.speed = t.speed
      /\ a.rec = t.rec /\ a.plocate = t.plocate /\ a.count = t.count
      /\ a.lastRoll = t.lastRoll /\ a.punchIn = t.punchIn /\ a.proll = t.proll
      /\ a.astray = t.astray /\ a.work = t.work
      /\ a.sub = IF "Stop" \in t.work THEN {} ELSE t.sub
      /\ a.ev = t.ev /\ a.live = t.live /\ a.events = t.events /\ a.immediate = t.immediate
      /\ a.next = t.next /\ a.pending = t.pending
  BY DEF Fit, Scalars, Lists, Listed, Typed, ListFields
<1> HIDE DEF a
<1>2. Lists(a) /\ Scalars(a)
  <2>1. a.frame \in Nat
    BY <1>1, FrameFacts DEF Fit, Scalars
  <2>2. Lists(a)
    BY <2>1, <1>1, SameLists DEF Fit, Good
  <2> QED BY <2>2, <1>1 DEF Fit, Scalars
<1>3. /\ DOMAIN b = DOMAIN t /\ b.frame = t.frame
      /\ b.ev = t.ev /\ b.live = t.live /\ b.events = t.events /\ b.immediate = t.immediate
      /\ b.next = t.next /\ b.pending = t.pending
      /\ Starts(t) => b.want = Nowhere
      /\ ~Starts(t) =>
           /\ b.want = t.want /\ b.speed = t.speed /\ b.rec = t.rec /\ b.plocate = t.plocate
           /\ t.speed # 0 => b.sub = t.sub
  <2>1. CASE Starts(t)
    <3>1. b = StartTransport(a)
      BY <2>1 DEF Starts
    <3> HIDE DEF b
    <3> QED BY <2>1, <3>1, <1>1, <1>2, Starting
  <2>2. CASE ~Starts(t)
    <3>1. b = a \/ b = [a EXCEPT !.sub = {}]
      BY <2>2 DEF Starts
    <3>2. t.speed # 0 => b = a
      BY <2>2 DEF Starts, Fit, Posted
    <3> HIDE DEF b
    <3>3. /\ DOMAIN b = DOMAIN t /\ b.frame = t.frame /\ b.want = t.want
          /\ b.speed = t.speed /\ b.rec = t.rec /\ b.plocate = t.plocate
          /\ b.ev = t.ev /\ b.live = t.live /\ b.events = t.events
          /\ b.immediate = t.immediate /\ b.next = t.next /\ b.pending = t.pending
      BY <3>1, <1>1, <1>2 DEF Scalars, Lists, Listed, Typed, ListFields
    <3>4. t.speed # 0 => b.sub = t.sub
      BY <3>2, <1>1 DEF Fit, Posted
    <3> QED BY <2>2, <3>3, <3>4
  <2> QED BY <2>1, <2>2
<1> HIDE DEF b
<1>4. Good(t, b)
  <2>1. b.frame \in Nat
    BY <1>3, FrameFacts DEF Fit, Scalars
  <2> QED BY <2>1, <1>3, SameLists DEF Fit
<1>5. Only(b, c, {})
  BY <1>4, NextFits DEF Good
<1> HIDE DEF c
<1>6. /\ u.frame = b.frame /\ u.speed = b.speed /\ u.rec = b.rec /\ u.sub = b.sub
      /\ u.plocate = b.plocate /\ u.want = b.want
  BY <1>3, <1>5 DEF Only, Fit, Scalars, ListFields
<1> HIDE DEF u
<1>7. ASSUME Starts(t) PROVE Aims(u)
  BY <1>3, <1>6, <1>7 DEF Aims, Reaches
<1>8. ASSUME ~Starts(t) PROVE Aims(u)
  <2>1. Rests(t) => Rests(u)
    BY <1>3, <1>6, <1>8 DEF Rests
  <2>2. Declicks(t) => t.speed # 0
    BY DEF Declicks, Fit, Fresh
  <2>3. Declicks(t) => Declicks(u)
    BY <2>2, <1>3, <1>6, <1>8 DEF Declicks
  <2> QED BY <2>1, <2>3, <1>3, <1>6, <1>8 DEF Aims
<1>9. Aims(u)
  BY <1>7, <1>8
<1> QED BY <1>9 DEF PostTransport, u, c, b, a

(* A locate that waited is carried out after the part that was rolled with *)
(* its declick: the part is too short to reach the session's end.          *)
LEMMA RollAims ==
    ASSUME NeverDry, NEW t, Fit(t), Calm(t), t.speed # 0, Aims(t), NEW n \in 1 .. Block,
           NEW limit \in {SessionEnd, LastFrame}
    PROVE  LET u == CheckDeclickOut(MaybeStop(Rolled(t, n), limit))
           IN  Aims(u) /\ Halts(u)
<1> DEFINE v == Rolled(t, n)
           w == MaybeStop(v, limit)
           x == AfterDeclick(w)
           u == CheckDeclickOut(w)
<1>1. /\ DOMAIN v = DOMAIN t /\ v.frame = Least(t.frame + n, LastFrame)
      /\ v.sub = t.sub /\ v.work = t.work /\ v.speed = t.speed
      /\ v.rec = t.rec /\ v.plocate = t.plocate /\ v.count = t.count /\ v.want = t.want
      /\ v.lastRoll = t.lastRoll /\ v.punchIn = t.punchIn
      /\ v.astray = t.astray /\ v.proll = t.proll
      /\ v.ev = t.ev /\ v.live = t.live /\ v.events = t.events
      /\ v.immediate = t.immediate /\ v.next = t.next /\ v.pending = t.pending
  BY DEF Rolled, Fit, Scalars, Lists, Listed, Typed, ListFields
<1>2. w = IF v.speed > 0 /\ v.frame >= limit THEN StopTransport(v) ELSE v
  BY DEF MaybeStop
<1> HIDE DEF v
<1>3. v.frame \in Frames /\ t.frame \in Nat
  BY <1>1, LengthAssumption, FrameFacts DEF Fit, Scalars, Frames, Least
<1>4. Fit(v) /\ Calm(v)
  <2>1. v.frame \in Nat
    BY <1>3, FrameFacts
  <2>2. Good(t, v)
    BY <2>1, <1>1, SameLists DEF Fit
  <2>3. Scalars(v) /\ Fresh(v) /\ Posted(v)
    BY <1>1, <1>3 DEF Fit, Scalars, Fresh, Posted
  <2> QED BY <2>2, <2>3, <1>1 DEF Fit, Good, Calm
<1>5. Halts(v)
  BY <1>1 DEF Halts
<1>6. /\ Fit(w) /\ Halts(w) /\ w.want = t.want /\ ("DeclickOut" \in w.sub => Calm(w))
  <2>1. CASE w = v
    BY <2>1, <1>1, <1>4, <1>5
  <2>2. CASE w = StopTransport(v)
    <3> HIDE DEF w
    <3>1. Holds(v, w) /\ Steers(v, w) /\ w.want = v.want
          /\ (w = v \/ "DeclickOut" \notin w.sub \/ w.work = v.work)
      BY <2>2, <1>4, StopHolds, StopSteers
    <3> QED BY <3>1, <1>1, <1>4, <1>5 DEF Holds, Steers, Calm
  <2> QED BY <1>2, <2>1, <2>2
<1> HIDE DEF w
<1>7. CASE "DeclickOut" \notin w.sub
  <2>1. u = w
    BY <1>7 DEF CheckDeclickOut
  <2>2. CASE ~Reaches(t.want)
    BY <2>1, <2>2, <1>6 DEF Aims, u, w, v
  <2>3. CASE Reaches(t.want)
    <3>1. Declicks(t)
      BY <2>3 DEF Aims, Starts, Rests, Calm
    <3>2. w = v
      <4>1. t.frame + Block < SessionEnd
        BY <3>1, <2>3 DEF Reaches, FarFromEnd, Declicks
      <4>2. v.frame < limit
        BY <4>1, <1>1, <1>3, LengthAssumption, FrameFacts DEF Least
      <4>3. v.frame \in Nat /\ limit \in Nat
        BY <1>3, LengthAssumption, FrameFacts
      <4> QED BY <4>2, <4>3, <1>2
    <3> QED BY <3>1, <3>2, <1>1, <1>7 DEF Declicks
  <2> QED BY <2>1, <2>2, <2>3, <1>6 DEF u, w, v
<1>8. CASE "DeclickOut" \in w.sub
  <2>1. w.plocate \in Frames /\ w.proll \in BOOLEAN /\ Calm(w)
    BY <1>6, <1>8 DEF Fit, Scalars
  <2>2. u = [x EXCEPT !.sub = @ \ {"DeclickOut", "Locate"}]
    BY <1>8 DEF CheckDeclickOut
  <2>3. /\ Fit(x) /\ Halts(x) /\ x.want \in {w.want, Nowhere}
        /\ "Locate" \in w.sub /\ w.rec # "Recording" /\ w.frame # w.plocate
             /\ w.want = w.plocate => Starts(x) \/ Rests(x)
    <3>1. CASE "Locate" \in w.sub
      <4>1. x = Locate(w, w.plocate, w.proll)
        BY <3>1 DEF AfterDeclick
      <4> HIDE DEF x
      <4>2. Fit(x)
        BY <4>1, <2>1, <1>6, LocateHolds DEF Holds
      <4> QED BY <4>1, <4>2, <2>1, <1>6, <1>8, LocateSteers
    <3>2. CASE "Locate" \notin w.sub
      <4>1. x = StopTransport(w)
        BY <3>2 DEF AfterDeclick
      <4> HIDE DEF x
      <4>2. Holds(w, x) /\ Steers(w, x) /\ x.want = w.want
        BY <4>1, <1>6, StopHolds, StopSteers
      <4> QED BY <4>2, <3>2, <1>6 DEF Holds, Steers
    <3> QED BY <3>1, <3>2
  <2> HIDE DEF x
  <2>4. u.work = x.work /\ u.speed = x.speed /\ u.frame = x.frame /\ u.want = x.want
    BY <2>2, <2>3 DEF Fit, Scalars
  <2> HIDE DEF u
  <2>5. Halts(u)
    BY <2>3, <2>4 DEF Halts
  <2>6. CASE ~Reaches(t.want)
    <3>1. ~Reaches(u.want)
      BY <2>3, <2>4, <2>6, <1>6 DEF Reaches
    <3> QED BY <3>1, <2>5 DEF Aims, u, w, v
  <2>7. CASE Reaches(t.want)
    <3>1. Declicks(t)
      BY <2>7 DEF Aims, Starts, Rests, Calm
    <3>2. v.frame = t.frame + n /\ v.frame < limit
      <4>1. t.frame + Block < SessionEnd
        BY <3>1, <2>7 DEF Reaches, FarFromEnd, Declicks
      <4> QED BY <4>1, <1>1, <1>3, LengthAssumption, FrameFacts DEF Least
    <3>3. w = v
      <4>1. v.frame \in Nat /\ limit \in Nat
        BY <1>3, LengthAssumption, FrameFacts
      <4> QED BY <4>1, <3>2, <1>2
    <3>4. v.frame # t.frame
      BY <3>2, <1>3, FrameFacts
    <3>5. Starts(x) \/ Rests(x)
      BY <3>1, <3>3, <3>4, <2>3, <1>1 DEF Declicks
    <3>6. Aims(u)
      BY <3>5, <2>4 DEF Aims, Starts, Rests
    <3> QED BY <3>6, <2>5 DEF u, w, v
  <2> QED BY <2>6, <2>7
<1> QED BY <1>7, <1>8

-----------------------------------------------------------------------------
(* The invariant for landing: the session aims where it was located, and   *)
(* within a cycle the transport rolls with the limit of the session's end  *)
(* or of the frames.                                                       *)
Aimed == Aims(s)
Rolling ==
    pc \in {"roll", "events"} => stop_limit \in {SessionEnd, LastFrame} /\ Halts(s)
LInv == IInv /\ Aimed /\ Rolling

(* No locate has been asked for yet.                                       *)
LEMMA InitLInv == Init => Aimed /\ Rolling
BY DEF Init, Aimed, Rolling, Aims, Rests, Reaches

(* Steps outside the parts of a cycle, and of the butler and the user.     *)
LEMMA SteeredStep ==
    ASSUME LInv, Steers(s, s'),
           pc' \in {"idle", "merge", "immediate"} \/ UNCHANGED <<pc, stop_limit>>
    PROVE  (Aimed /\ Rolling)'
<1>1. Aims(s') /\ (Halts(s) => Halts(s'))
  BY DEF LInv, Aimed, Steers
<1>2. Aimed'
  BY <1>1 DEF Aimed, Aims, Starts, Rests, Declicks
<1>3. Rolling'
  BY <1>1 DEF LInv, Rolling, Halts
<1> QED BY <1>2, <1>3

(* A step that leaves the session alone.                                   *)
LEMMA SteersItself ==
    ASSUME NEW t
    PROVE  Steers(t, t)
BY DEF Steers

(* A cycle begins with what was posted.                                    *)
LEMMA ProcessLands ==
    ASSUME LInv, Process
    PROVE  (Aimed /\ Rolling)'
<1>1. s' = PostTransport(s) \/ s' = s
  BY DEF Process
<1>2. Aims(PostTransport(s)) /\ Aims(s)
  BY PostTransportAims DEF LInv, IInv, Aimed
<1>3. Aims(s')
  BY <1>1, <1>2
<1>4. Aimed'
  BY <1>3 DEF Aimed, Aims, Starts, Rests, Declicks
<1>5. Rolling'
  BY DEF Process, Goto, Rolling
<1> QED BY <1>4, <1>5

(* The events that waited are merged.                                      *)
LEMMA MergeLands ==
    ASSUME NeverDry, LInv, Merge
    PROVE  (Aimed /\ Rolling)'
<1> DEFINE t == [s EXCEPT !.pending = Tail(@)]
           e == Head(s.pending)
<1>1. /\ Keeps(s, t) /\ e \in t.live /\ Asked(t.ev[e])
      /\ e \notin ToSet(t.events) \cup ToSet(t.immediate) \cup ToSet(t.pending)
  BY NextPending DEF LInv, IInv, Merge
<1>2. s' = MergeEvent(t, e)
  BY DEF Merge
<1>3. Only(s, t, Elsewhere)
  BY DEF LInv, IInv, Fit, Only, Lists, Listed, Typed, ListFields
<1> HIDE DEF t, e
<1>4. Steers(s, t)
  BY <1>3, ElsewhereSteers DEF LInv, IInv
<1>5. Steers(t, s')
  BY <1>1, <1>2, MergeEventSteers DEF Keeps
<1>6. Steers(s, s')
  BY <1>4, <1>5, SteersOn
<1> QED BY <1>6, SteeredStep DEF Merge, cycle

(* The events that are to be carried out at once.                          *)
LEMMA ImmediateLands ==
    ASSUME NeverDry, LInv, ProcessImmediate
    PROVE  (Aimed /\ Rolling)'
<1> DEFINE t == [s EXCEPT !.immediate = Tail(@)]
           e == Head(s.immediate)
<1>1. /\ Keeps(s, t) /\ e \in Cells /\ t.ev[e].type \in Kept \cup Commands
      /\ e \notin ToSet(t.pending)
      /\ t.ev[e].type \in Commands => Aside(t, e)
  BY NextImmediate DEF LInv, IInv, ProcessImmediate, MayProcessImmediate
<1>2. s' = ProcessEvent(t, e)
  BY DEF ProcessImmediate
<1>3. Only(s, t, Elsewhere)
  BY DEF LInv, IInv, Fit, Only, Lists, Listed, Typed, ListFields
<1> HIDE DEF t, e
<1>4. Steers(s, t)
  BY <1>3, ElsewhereSteers DEF LInv, IInv
<1>5. Steers(t, s')
  BY <1>1, <1>2, ProcessEventSteers DEF Keeps
<1>6. Steers(s, s')
  BY <1>4, <1>5, SteersOn
<1> QED BY <1>6, SteeredStep DEF ProcessImmediate, cycle

(* A cycle that does not roll.                                             *)
LEMMA DoNotRollLands ==
    ASSUME NeverDry, LInv, DoNotRoll
    PROVE  (Aimed /\ Rolling)'
<1>1. s' = s \/ s' = StopTransport(s)
  BY DEF DoNotRoll
<1>2. Steers(s, s')
  BY <1>1, StopSteers, SteersItself DEF LInv, IInv
<1> QED BY <1>2, SteeredStep DEF DoNotRoll, Goto

(* A part that is rolled.                                                  *)
LEMMA RolledLands ==
    ASSUME NeverDry, LInv, Calm(s), s.speed # 0, NEW n \in 1 .. Block,
           NEW limit \in {SessionEnd, LastFrame}, Roll(n, limit),
           pc' = "idle" \/ UNCHANGED stop_limit,
           stop_limit \in {SessionEnd, LastFrame} \/ pc' = "idle"
    PROVE  (Aimed /\ Rolling)'
<1>1. s' = CheckDeclickOut(MaybeStop(Rolled(s, n), limit))
  BY DEF Roll, Rolled
<1>2. Aims(s') /\ Halts(s')
  BY <1>1, RollAims DEF LInv, IInv, Aimed
<1>3. Aimed'
  BY <1>2 DEF Aimed, Aims, Starts, Rests, Declicks
<1>4. Rolling'
  BY <1>2 DEF Rolling, Halts
<1> QED BY <1>3, <1>4

(* A cycle without events rolls as a whole.                                *)
LEMMA WithoutEventsLands ==
    ASSUME NeverDry, LInv, WithoutEvents
    PROVE  (Aimed /\ Rolling)'
<1>1. Calm(s) /\ s.speed # 0 /\ Roll(Block, Limit) /\ pc' = "idle"
  BY RollsCalmly DEF WithoutEvents, Rolls, Goto
<1>2. Limit \in {SessionEnd, LastFrame} /\ Block \in 1 .. Block
  BY FrameFacts DEF Limit
<1> HIDE DEF Limit
<1> QED BY <1>1, <1>2, RolledLands

(* One with events rolls in parts: it has begun to roll.                   *)
LEMMA WithEventsLands ==
    ASSUME LInv, WithEvents
    PROVE  (Aimed /\ Rolling)'
<1>1. s' = s /\ s.speed # 0 /\ stop_limit' \in {SessionEnd, LastFrame}
  BY DEF WithEvents, Rolls, Limit
<1> QED BY <1>1 DEF LInv, Aimed, Rolling, Halts

(* A part rolls, or a declick ends it.                                     *)
LEMMA RollPartLands ==
    ASSUME NeverDry, LInv, RollPart
    PROVE  (Aimed /\ Rolling)'
<1>1. /\ pc = "roll" /\ Calm(s) /\ end_frame = s.frame + left /\ s.frame \in Nat
      /\ left \in 0 .. Block /\ Block \in Nat /\ UNCHANGED stop_limit
      /\ stop_limit \in {SessionEnd, LastFrame} /\ Halts(s)
  BY FrameFacts DEF LInv, IInv, Cycling, Fit, Scalars, RollPart, Goto, Rolling
<1>2. s.speed # 0
  BY <1>1 DEF Halts, Calm
<1>3. ThisPart \in 0 .. left
  <2>1. CASE Due
    <3>1. this \in Cells
      BY <2>1 DEF Due, LInv, IInv, Fit, Lists, Waiting, Held
    <3>2. s.ev[this].frame \in Nat
      BY <3>1 DEF LInv, IInv, Fit, Lists, Listed, Typed
    <3>3. s.ev[this].frame <= end_frame /\ s.ev[this].frame >= s.frame
      BY <2>1 DEF Due
    <3>4. ThisPart = s.ev[this].frame - s.frame
      BY <2>1 DEF ThisPart
    <3> QED BY <3>2, <3>3, <3>4, <1>1
  <2>2. CASE ~Due
    BY <2>2, <1>1 DEF ThisPart
  <2> QED BY <2>1, <2>2
<1>4. CASE ThisPart > 0
  <2>1. Roll(ThisPart, stop_limit) /\ ThisPart \in 1 .. Block
    BY <1>1, <1>3, <1>4 DEF RollPart
  <2> QED BY <1>1, <1>2, <2>1, RolledLands
<1>5. CASE ~(ThisPart > 0)
  <2>1. s' = s
    BY <1>5 DEF RollPart
  <2> QED BY <1>1, <2>1 DEF LInv, Aimed, Rolling, Halts
<1> QED BY <1>4, <1>5

(* An event at the frame the part has come to.                             *)
LEMMA ProcessHereLands ==
    ASSUME NeverDry, LInv, ProcessHere
    PROVE  (Aimed /\ Rolling)'
<1>1. s' = ProcessEvent(s, this) /\ this # End /\ this \in Held /\ UNCHANGED <<pc, stop_limit>>
  BY DEF ProcessHere, EventHere, Held
<1>2. this \in Cells /\ s.ev[this].type \in Kept /\ this \notin ToSet(s.pending)
  BY <1>1 DEF LInv, IInv, Fit, Lists, Waiting, PendingWaits, ToSet
<1>3. Steers(s, s')
  BY <1>1, <1>2, ProcessEventSteers, Kinds DEF LInv, IInv
<1> QED BY <1>1, <1>3, SteeredStep

(* The next part of a cycle begins only if nothing is at work.             *)
LEMMA PartDoneLands ==
    ASSUME LInv, PartDone
    PROVE  (Aimed /\ Rolling)'
BY DEF PartDone, Goto, LInv, Aimed, Rolling, Halts

(* The next event is found anew.                                           *)
LEMMA CycleDoneLands ==
    ASSUME LInv, CycleDone
    PROVE  (Aimed /\ Rolling)'
<1>1. s' = SetNextEvent(s) /\ pc' = "idle"
  BY DEF CycleDone, Goto
<1>2. Only(s, s', {})
  BY <1>1, NextFits DEF LInv, IInv, Fit
<1>3. Only(s, s', Elsewhere)
  BY <1>2 DEF Only
<1>4. Steers(s, s')
  BY <1>3, ElsewhereSteers DEF LInv, IInv
<1> QED BY <1>1, <1>4, SteeredStep

(* The butler moves the transport only to return, which it does not here.  *)
LEMMA ReturnLands ==
    ASSUME NeverDry, AutoReturn = FALSE, LInv, Return
    PROVE  (Aimed /\ Rolling)'
<1> DEFINE u == [s EXCEPT !.range = FALSE]
           v == UnsetPlayLoop(u)
<1>1. s' \in {s, v} /\ UNCHANGED cycle
  BY DEF Return, Returned
<1>2. /\ Only(s, u, Elsewhere)
      /\ u.ev = s.ev /\ u.live = s.live /\ u.events = s.events /\ u.immediate = s.immediate
      /\ u.next = s.next /\ u.pending = s.pending
  BY DEF Only, Elsewhere, LInv, IInv, Fit, Scalars, Lists, Listed, Typed, ListFields
<1> HIDE DEF u
<1>3. Fit(u)
  BY <1>2, UpdateHolds DEF LInv, IInv, Holds
<1>4. Only(u, v, Elsewhere)
  BY <1>3, UnsetLoopHolds
<1> HIDE DEF v
<1>5. Steers(s, v)
  BY <1>2, <1>3, <1>4, ElsewhereSteers, SteersOn DEF LInv, IInv
<1>6. Steers(s, s')
  BY <1>1, <1>5, SteersItself
<1> QED BY <1>1, <1>6, SteeredStep DEF cycle

(* The butler counts down what it has done.                                *)
LEMMA CountedLands ==
    ASSUME LInv
    PROVE  Steers(s, CountedDown(s))
<1> DEFINE t == CountedDown(s)
<1>1. /\ t.work = s.work /\ t.sub = s.sub /\ t.speed = s.speed /\ t.frame = s.frame
      /\ t.rec = s.rec /\ t.plocate = s.plocate /\ t.want = s.want
  BY DEF CountedDown, LInv, IInv, Fit, Scalars
<1> HIDE DEF t
<1>2. Steers(s, t)
  BY <1>1 DEF Steers, Aims, Halts, Starts, Rests, Declicks
<1> QED BY <1>2 DEF t

(* What it has sought stays where it is.                                   *)
LEMMA SoughtLands ==
    ASSUME LInv, NonRealtimeLocate \/ Seek
    PROVE  (Aimed /\ Rolling)'
<1>1. /\ s'.work = s.work /\ s'.sub = s.sub /\ s'.speed = s.speed /\ s'.frame = s.frame
      /\ s'.rec = s.rec /\ s'.plocate = s.plocate /\ s'.want = s.want
  <2>1. CASE NonRealtimeLocate
    <3>1. s' = [s EXCEPT !.astray = FALSE]
      BY <2>1 DEF NonRealtimeLocate
    <3> QED BY <3>1, Sought DEF LInv, IInv
  <2>2. CASE Seek
    <3>1. s' = SoughtDown(s) /\ bpc # "idle"
      BY <2>2 DEF Seek, ButlerGoto, SoughtDown
    <3> QED BY <3>1, SeekingDown DEF LInv, IInv
  <2> QED BY <2>1, <2>2
<1>2. Steers(s, s')
  BY <1>1 DEF Steers, Aims, Halts, Starts, Rests, Declicks
<1>3. UNCHANGED cycle
  BY DEF NonRealtimeLocate, Seek
<1> QED BY <1>2, <1>3, SteeredStep DEF cycle

(* The butler drops the loop and the range, or asks for a roll.            *)
LEMMA StoppedLands ==
    ASSUME NeverDry, LInv, Stopped
    PROVE  (Aimed /\ Rolling)'
<1> DEFINE t == [s EXCEPT !.range = FALSE, !.loop = FALSE]
           v == Queue(t, RollRequest)
           u == [v EXCEPT !.proll = FALSE]
<1>1. s' \in {t, u} /\ UNCHANGED cycle
  BY DEF Stopped
<1>2. /\ Only(s, t, Elsewhere)
      /\ t.ev = s.ev /\ t.live = s.live /\ t.events = s.events /\ t.immediate = s.immediate
      /\ t.next = s.next /\ t.pending = s.pending
  BY DEF Only, Elsewhere, LInv, IInv, Fit, Scalars, Lists, Listed, Typed, ListFields
<1> HIDE DEF t
<1>3. Fit(t)
  BY <1>2, UpdateHolds DEF LInv, IInv, Holds
<1>4. Proper(RollRequest) /\ Asked(RollRequest) /\ RollRequest.frame \in Nat
  BY FrameFacts DEF RollRequest, Event, Proper, Asked, Commands, OnceOnly, Immediate
<1>5. Only(t, v, {})
  BY <1>3, <1>4, QueueFits DEF Fit
<1> HIDE DEF v
<1>6. /\ u.work = s.work /\ u.sub = s.sub /\ u.speed = s.speed /\ u.frame = s.frame
      /\ u.rec = s.rec /\ u.plocate = s.plocate /\ u.want = s.want
  <2>1. Only(s, v, Elsewhere)
    BY <1>2, <1>5 DEF Only
  <2>2. /\ DOMAIN v = DOMAIN s
        /\ v.work = s.work /\ v.sub = s.sub /\ v.speed = s.speed /\ v.frame = s.frame
        /\ v.rec = s.rec /\ v.plocate = s.plocate /\ v.want = s.want
    BY <2>1 DEF Only, LInv, IInv, Fit, Scalars, ListFields, Elsewhere
  <2> QED BY <2>2
<1> HIDE DEF u
<1>7. Steers(s, u) /\ Steers(s, t)
  <2>1. Steers(s, u)
    BY <1>6 DEF Steers, Aims, Halts, Starts, Rests, Declicks
  <2>2. Steers(s, t)
    BY <1>2, ElsewhereSteers DEF LInv, IInv
  <2> QED BY <2>1, <2>2
<1>8. Steers(s, s')
  BY <1>1, <1>7
<1> QED BY <1>1, <1>8, SteeredStep DEF cycle

(* Each step of the butler.                                                *)
LEMMA ButlerLands ==
    ASSUME NeverDry, AutoReturn = FALSE, LInv, Butler
    PROVE  (Aimed /\ Rolling)'
<1>1. CASE StartWork \/ ReadWork
  <2>1. s' = s /\ UNCHANGED cycle
    BY <1>1 DEF StartWork, ReadWork
  <2> QED BY <2>1, SteersItself, SteeredStep DEF cycle
<1>2. CASE WorkDone
  <2>1. s' = CountedDown(s) /\ UNCHANGED cycle
    BY <1>2 DEF WorkDone, CountedDown
  <2> QED BY <2>1, CountedLands, SteeredStep DEF cycle
<1>3. CASE NonRealtimeLocate \/ Seek
  BY <1>3, SoughtLands
<1> QED BY <1>1, <1>2, <1>3, ReturnLands, StoppedLands DEF Butler

(* The user's steps.                                                       *)
LEMMA RequestLands ==
    ASSUME NeverDry, LInv, Request
    PROVE  (Aimed /\ Rolling)'
<1>1. PICK r \in Requests : s' = Queue(s, r)
  BY DEF Request
<1>2. Proper(r) /\ Asked(r) /\ r.frame \in Nat
  BY RequestFits
<1>3. Only(s, s', {})
  BY <1>1, <1>2, QueueFits DEF LInv, IInv, Fit
<1>4. Only(s, s', Elsewhere)
  BY <1>3 DEF Only
<1>5. Steers(s, s')
  BY <1>4, ElsewhereSteers DEF LInv, IInv
<1> QED BY <1>5, SteeredStep DEF Request, cycle

(* Arming, which begins to record if the transport rolls.                  *)
LEMMA ArmRecordLands ==
    ASSUME LInv, ArmRecord
    PROVE  (Aimed /\ Rolling)'
<1>1. s' = Record(s) \/ s' = [s EXCEPT !.rec = "Enabled"]
  BY DEF ArmRecord
<1>2. Steers(s, s')
  BY <1>1, RecordSteers, PunchOutSteers DEF LInv, IInv
<1>3. UNCHANGED cycle
  BY DEF ArmRecord
<1> QED BY <1>2, <1>3, SteeredStep DEF cycle

(* Every step.                                                             *)
LEMMA NextLInv ==
    ASSUME NeverDry, AutoReturn = FALSE, LInv, [Next]_vars
    PROVE  LInv'
<1>1. IInv'
  BY NextIInv DEF LInv
<1>2. CASE ProcessThread
  <2>1. Merged => (Aimed /\ Rolling)'
    <3>1. Merged => s' = s /\ pc' = "immediate"
      BY DEF Merged, Goto
    <3> QED BY <3>1, SteersItself, SteeredStep
  <2>2. (Aimed /\ Rolling)'
    BY <1>2, <2>1, ProcessLands, MergeLands, ImmediateLands, DoNotRollLands,
       WithoutEventsLands, WithEventsLands, RollPartLands, ProcessHereLands, PartDoneLands,
       CycleDoneLands
    DEF ProcessThread
  <2> QED BY <2>2, <1>1 DEF LInv
<1>3. CASE Butler
  BY <1>1, <1>3, ButlerLands DEF LInv
<1>4. CASE Request
  BY <1>1, <1>4, RequestLands DEF LInv
<1>5. CASE ArmRecord
  BY <1>1, <1>5, ArmRecordLands DEF LInv
<1>6. CASE UNCHANGED vars
  <2>1. s' = s /\ UNCHANGED <<pc, stop_limit>>
    BY <1>6 DEF vars
  <2>2. (Aimed /\ Rolling)'
    BY <2>1, SteersItself, SteeredStep
  <2> QED BY <2>2, <1>1 DEF LInv
<1> QED BY <1>2, <1>3, <1>4, <1>5, <1>6 DEF Next

(* If a stop does not return to where the roll began, a transport that has *)
(* come to rest is where it was last told to locate since it started, and  *)
(* so are the tracks, whichever declicks, stops, loops, ranges, recordings *)
(* and passes of the butler came in between (session_transport.cc:601-623, *)
(* 763-827, 1034-1090), but for the exceptions that LocateLands names.     *)
THEOREM LocatesLand ==
    NeverDry /\ AutoReturn = FALSE => (Spec => []LocateLands)
<1> SUFFICES ASSUME NeverDry, AutoReturn = FALSE PROVE Spec => []LocateLands
  OBVIOUS
<1>1. Init => LInv
  BY InitIInv, InitLInv DEF LInv
<1>2. LInv /\ [Next]_vars => LInv'
  BY NextLInv
<1>3. LInv => LocateLands
  <2> SUFFICES ASSUME LInv, AtRest, s.want # Nowhere, FarFromEnd(s.want)
               PROVE  s.frame = s.want /\ disk = s.want
    BY DEF LocateLands
  <2>1. s.speed = 0 /\ s.work = {}
    BY DEF AtRest
  <2>2. "Locate" \notin s.sub /\ Firm(s, disk)
    BY <2>1 DEF LInv, IInv, Fit, Fresh, Playing, Placed
  <2>3. s.frame = s.want
    BY <2>1, <2>2 DEF LInv, Aimed, Aims, Reaches, Starts, Rests, Declicks
  <2>4. s.frame # LastFrame
    BY <2>3, LengthAssumption, FrameFacts DEF FarFromEnd
  <2> QED BY <2>1, <2>2, <2>3, <2>4 DEF Firm, Calm
<1> QED BY <1>1, <1>2, <1>3, PTL DEF Spec

-----------------------------------------------------------------------------
(* No event is passed: none is between the transport and next_event, which *)
(* is set anew at the end of every cycle and of every state change; within *)
(* a cycle, none is between the transport and the iterators at hand. Both  *)
(* are suspended while a locate waits for its declick, for which the       *)
(* position has moved, after it was given up, and while a stop or locate   *)
(* is at work.                                                             *)
Regular(t) == {e \in ToSet(t.events) : t.ev[e].type # "StopOnce"}
ClearTo(t, x) ==
    \A e \in Regular(t) : t.ev[e].frame > t.frame =>
      x # End /\ t.ev[x].frame \in t.frame .. t.ev[e].frame
Jumping(t) == "Locate" \in t.sub /\ t.plocate = t.frame /\ t.rec # "Recording"
Busy(t) == ~Calm(t) \/ Jumping(t) \/ t.astray = TRUE
Finding(t) == ClearTo(t, t.next) \/ Busy(t)
(* A StopOnce is that of a recording that rolls on for its input.          *)
Once(t) ==
    \A e \in ToSet(t.events) : t.ev[e].type = "StopOnce" =>
      t.speed # 0 /\ "StopPendingCapture" \in t.sub
Sees(t, u) ==
    (Finding(t) => Finding(u)) /\ (Busy(t) => Busy(u)) /\ (Once(t) => Once(u))

(* Seeing is transitive.                                                   *)
LEMMA SeesOn ==
    ASSUME NEW t, NEW u, NEW v, Sees(t, u), Sees(u, v)
    PROVE  Sees(t, v)
BY DEF Sees

(* What leaves the lists, the position and the declick alone.              *)
LEMMA SameSees ==
    ASSUME NEW t, Lists(t), NEW u, u.events = t.events, u.next = t.next,
           \A c \in ToSet(t.events) : u.ev[c] = t.ev[c],
           u.frame = t.frame, t.work \subseteq u.work, u.speed = t.speed,
           t.sub \subseteq u.sub, u.plocate = t.plocate, u.rec = t.rec,
           t.astray = TRUE => u.astray = TRUE
    PROVE  Sees(t, u)
<1>1. t.next # End => u.ev[t.next] = t.ev[t.next]
  BY DEF Lists, Listed
<1>2. Regular(u) = Regular(t) /\ \A c \in Regular(t) : u.ev[c] = t.ev[c]
  BY DEF Regular
<1>3. ClearTo(t, t.next) => ClearTo(u, u.next)
  BY <1>1, <1>2 DEF ClearTo
<1>4. (Finding(t) => Finding(u)) /\ (Busy(t) => Busy(u))
  BY <1>3 DEF Finding, Busy, Calm, Jumping
<1>5. Once(t) => Once(u)
  BY DEF Once
<1> QED BY <1>4, <1>5 DEF Sees

(* Where set_next_event came last, nothing is between.                     *)
LEMMA HeadsFind ==
    ASSUME NEW t, Heads(t)
    PROVE  Finding(t)
BY DEF Heads, HeadsAt, Finding, ClearTo, Regular

Shaped(t) ==
    /\ Lists(t)
    /\ {"frame", "speed", "rec", "sub", "plocate", "work", "astray"} \subseteq DOMAIN t

(* The operations on the lists change only them.                           *)
LEMMA ShapedOn ==
    ASSUME NEW t, Shaped(t), NEW u, Lists(u), Only(t, u, Elsewhere)
    PROVE  /\ Shaped(u) /\ u.frame = t.frame /\ u.speed = t.speed /\ u.rec = t.rec
           /\ u.sub = t.sub /\ u.plocate = t.plocate /\ u.work = t.work
           /\ u.astray = t.astray /\ Busy(u) = Busy(t)
<1>1. /\ u.frame = t.frame /\ u.speed = t.speed /\ u.rec = t.rec
      /\ u.sub = t.sub /\ u.plocate = t.plocate /\ u.work = t.work /\ u.astray = t.astray
      /\ DOMAIN u = DOMAIN t
  BY DEF Shaped, Only, ListFields, Elsewhere
<1> QED BY <1>1 DEF Shaped, Busy, Calm, Jumping

(* To change the lists alone is to change less than the rest may.          *)
LEMMA OnlyElsewhere ==
    ASSUME NEW t, NEW u, Only(t, u, {})
    PROVE  Only(t, u, Elsewhere)
BY DEF Only

(* A fit session has the fields that the sight of events needs.            *)
LEMMA FitShaped ==
    ASSUME NEW t, Fit(t)
    PROVE  Shaped(t)
BY DEF Fit, Scalars, Shaped

(* Clearing.                                                               *)
LEMMA ClearSees ==
    ASSUME NEW t, Shaped(t), NEW type
    PROVE  LET u == ClearEventType(t, type)
           IN  /\ Shaped(u) /\ Sees(t, u) /\ Finding(u) /\ Only(t, u, {}) /\ u.ev = t.ev
               /\ ToSet(u.events) = {c \in ToSet(t.events) : t.ev[c].type # type}
<1> DEFINE u == ClearEventType(t, type)
           gone == {e \in Cells : t.ev[e].type = type}
<1>1. Cleared(t, u, gone) /\ Heads(u)
  BY ClearingClears DEF Shaped, Lists
<1>2. Good(t, u) /\ Only(t, u, {})
  BY ClearFits DEF Shaped
<1> HIDE DEF u
<1>3. Shaped(u) /\ u.speed = t.speed /\ u.sub = t.sub /\ Busy(u) = Busy(t)
  BY <1>2, OnlyElsewhere, ShapedOn DEF Good
<1>4. ToSet(u.events) = ToSet(t.events) \ gone /\ u.ev = t.ev
  BY <1>1, ThinnedSet DEF Cleared
<1>5. ToSet(t.events) \subseteq Cells
  BY ToSetFinite DEF Shaped, Lists, Listed, Typed
<1>6. ToSet(u.events) = {c \in ToSet(t.events) : t.ev[c].type # type}
  BY <1>4, <1>5
<1>7. Finding(u)
  BY <1>1, HeadsFind
<1>8. Once(t) => Once(u)
  BY <1>3, <1>4 DEF Once
<1> QED BY <1>2, <1>3, <1>4, <1>6, <1>7, <1>8 DEF Sees, u

(* Erasing one event.                                                      *)
LEMMA RemoveSees ==
    ASSUME NEW t, Shaped(t), NEW e
    PROVE  LET u == RemoveEvent(t, e)
           IN  /\ Shaped(u) /\ Sees(t, u) /\ Only(t, u, {}) /\ u.ev = t.ev
               /\ ToSet(u.events) = {f \in ToSet(t.events) : ~Alike(t, f, e)}
<1> DEFINE u == RemoveEvent(t, e)
<1>1. Good(t, u) /\ Only(t, u, {}) /\ Removed(t, u, e)
  BY RemoveFits DEF Shaped
<1> HIDE DEF u
<1>2. Shaped(u) /\ u.speed = t.speed /\ u.sub = t.sub /\ Busy(u) = Busy(t)
  BY <1>1, OnlyElsewhere, ShapedOn DEF Good
<1>3. /\ u.ev = t.ev /\ ToSet(u.events) = {f \in ToSet(t.events) : ~Alike(t, f, e)}
      /\ u = t \/ Heads(u)
  BY <1>1 DEF Removed
<1>4. Finding(t) => Finding(u)
  BY <1>3, HeadsFind
<1>5. Once(t) => Once(u)
  BY <1>2, <1>3 DEF Once
<1> QED BY <1>1, <1>2, <1>3, <1>4, <1>5 DEF Sees, u

(* Adding one that is no StopOnce.                                         *)
LEMMA AddSees ==
    ASSUME NEW t, Shaped(t), NEW e \in t.live \ ToSet(t.events), e \notin ToSet(t.pending),
           t.ev[e].type \in Kept \ OnceOnly
    PROVE  LET u == AddEvent(t, e)
           IN  Shaped(u) /\ Sees(t, u) /\ Only(t, u, {})
<1> DEFINE u == AddEvent(t, e)
<1>1. Good(t, u) /\ Only(t, u, {})
  BY AddFits DEF Shaped
<1>2. /\ u.ev = t.ev /\ ToSet(u.events) \subseteq ToSet(t.events) \cup {e}
      /\ u = t \/ Heads(u)
  BY AddKeeps DEF Shaped, Lists
<1> HIDE DEF u
<1>3. Shaped(u) /\ u.speed = t.speed /\ u.sub = t.sub /\ Busy(u) = Busy(t)
  BY <1>1, OnlyElsewhere, ShapedOn DEF Good
<1>4. Finding(t) => Finding(u)
  BY <1>2, HeadsFind
<1>5. t.ev[e].type # "StopOnce"
  BY DEF OnceOnly
<1>6. Once(t) => Once(u)
  BY <1>2, <1>3, <1>5 DEF Once
<1> QED BY <1>1, <1>3, <1>4, <1>6 DEF Sees, u

(* A StopOnce enters the list, the only one, and all else goes on where it *)
(* was.                                                                    *)
Along(t, u) ==
    /\ u.frame = t.frame /\ ToSet(t.events) \subseteq ToSet(u.events)
    /\ \A c \in ToSet(t.events) : u.ev[c] = t.ev[c]
    /\ \A c \in ToSet(u.events) : c \in ToSet(t.events) \/ u.ev[c].type = "StopOnce"
NoneOnce(t) == \A e \in ToSet(t.events) : t.ev[e].type # "StopOnce"

(* Replacing.                                                              *)
LEMMA ReplaceSees ==
    ASSUME NEW t, Shaped(t), NEW e \in t.live \ ToSet(t.events), e \notin ToSet(t.pending),
           t.ev[e].type \in OnceOnly
    PROVE  LET u == ReplaceEvent(t, e)
           IN  /\ Shaped(u) /\ Finding(u) /\ Only(t, u, {})
               /\ t.ev[e].type # "StopOnce" => Sees(t, u)
               /\ t.ev[e].type = "StopOnce" /\ NoneOnce(t) => Along(t, u)
<1> DEFINE u == ReplaceEvent(t, e)
<1>1. Good(t, u) /\ Only(t, u, {})
  BY ReplaceFits DEF Shaped
<1>2. Replaced(t, u, e)
  BY ReplaceReplaces DEF Shaped, Lists
<1> HIDE DEF u
<1>3. /\ Shaped(u) /\ u.speed = t.speed /\ u.sub = t.sub /\ u.frame = t.frame
      /\ Busy(u) = Busy(t)
  BY <1>1, OnlyElsewhere, ShapedOn DEF Good
<1>4. Finding(u)
  BY <1>2, HeadsFind DEF Replaced
<1>5. e \in Cells /\ ToSet(t.events) \subseteq Cells /\ ToSet(u.events) \subseteq Cells
  BY <1>3, ToSetFinite DEF Shaped, Lists, Listed, Typed
<1>6. \A c \in Cells : {"type", "frame", "target"} \subseteq DOMAIN t.ev[c]
  BY DEF Shaped, Lists, Listed, Typed
<1>7. ASSUME NEW c \in Cells
      PROVE  /\ u.ev[c].type = t.ev[c].type
             /\ c \notin ToSet(t.events) \/ t.ev[c].type # t.ev[e].type => u.ev[c] = t.ev[c]
  <2>1. \/ u.ev[c] = t.ev[c]
        \/ /\ c \in ToSet(t.events) /\ t.ev[c].type = t.ev[e].type
           /\ u.ev[c] = [t.ev[c] EXCEPT !.frame = t.ev[e].frame, !.target = t.ev[e].target]
    BY <1>2 DEF Replaced
  <2> QED BY <2>1, <1>6
<1>8. /\ ToSet(t.events) \subseteq ToSet(u.events)
      /\ ToSet(u.events) \subseteq ToSet(t.events) \cup {e}
  BY <1>2 DEF Replaced
<1>9. t.ev[e].type # "StopOnce" => (Once(t) => Once(u))
  BY <1>3, <1>5, <1>7, <1>8 DEF Once
<1>10. t.ev[e].type = "StopOnce" /\ NoneOnce(t) => Along(t, u)
  BY <1>3, <1>5, <1>7, <1>8 DEF NoneOnce, Along
<1> QED BY <1>1, <1>3, <1>4, <1>9, <1>10 DEF Sees, u

(* A new event is in no list.                                              *)
LEMMA CreatedSees ==
    ASSUME NeverDry, NEW t, Shaped(t), NEW event, Proper(event), event.frame \in Nat
    PROVE  LET u == Created(t, Held, event)
           IN  /\ Shaped(u) /\ Sees(t, u) /\ Only(t, u, {})
               /\ u.events = t.events /\ u.frame = t.frame
               /\ \A c \in ToSet(t.events) : u.ev[c] = t.ev[c]
<1> DEFINE e == New(t, Held)
           u == Created(t, Held, event)
<1>1. Good(t, u) /\ Only(t, u, {})
  BY CreatedFits DEF Shaped
<1>2. e \in Cells \ (Held \cup t.live \cup ToSet(t.immediate))
  <2>1. IsFiniteSet(Held)
    <3>1. IsFiniteSet({this} \cup {the_next_one})
      BY FS_Singleton, FS_Union
    <3>2. Held = {this} \cup {the_next_one}
      BY DEF Held
    <3> QED BY <3>1, <3>2
  <2> QED BY <2>1, NewIsFree DEF Shaped, Lists
<1>3. Begun(t, u, e, event)
  BY <1>2, CreatedBegins DEF Shaped, Lists, Proper
<1>4. u.next = t.next
  BY DEF Created, Shaped, Lists, Listed, Typed, ListFields
<1> HIDE DEF e, u
<1>5. u.events = t.events /\ \A c \in ToSet(t.events) : u.ev[c] = t.ev[c]
  <2>1. ToSet(t.events) \subseteq Cells \ {e}
    BY <1>2 DEF Shaped, Lists, Listed, Typed
  <2> QED BY <2>1, <1>3 DEF Begun
<1>6. /\ Shaped(u) /\ u.speed = t.speed /\ u.sub = t.sub /\ u.frame = t.frame
      /\ u.rec = t.rec /\ u.plocate = t.plocate /\ u.work = t.work /\ u.astray = t.astray
  BY <1>1, OnlyElsewhere, ShapedOn DEF Good
<1>7. Sees(t, u)
  <2>1. Lists(t)
    BY DEF Shaped
  <2>2. t.work \subseteq u.work /\ t.sub \subseteq u.sub /\ (t.astray = TRUE => u.astray = TRUE)
    BY <1>6
  <2> QED BY <2>1, <2>2, <1>4, <1>5, <1>6, SameSees
<1> QED BY <1>1, <1>5, <1>6, <1>7 DEF u

(* Queueing an event.                                                      *)
LEMMA QueueSees ==
    ASSUME NeverDry, NEW t, Shaped(t), NEW event, Proper(event), Asked(event),
           event.frame \in Nat
    PROVE  LET u == Queue(t, event)
           IN  /\ Shaped(u) /\ Sees(t, u) /\ Only(t, u, {})
               /\ u.events = t.events /\ u.frame = t.frame
               /\ \A c \in ToSet(t.events) : u.ev[c] = t.ev[c]
<1> DEFINE v == Created(t, Held, event)
           u == Queue(t, event)
<1>1. /\ Shaped(v) /\ Sees(t, v) /\ v.events = t.events /\ v.frame = t.frame
      /\ \A c \in ToSet(t.events) : v.ev[c] = t.ev[c]
  BY CreatedSees
<1>2. Good(t, u) /\ Only(t, u, {})
  BY QueueFits DEF Shaped
<1>3. u = [v EXCEPT !.pending = Append(@, New(t, Held))]
  BY DEF Queue
<1> HIDE DEF u, v
<1>4. /\ u.events = v.events /\ u.next = v.next /\ u.ev = v.ev /\ u.frame = v.frame
      /\ u.speed = v.speed /\ u.sub = v.sub /\ u.work = v.work /\ u.rec = v.rec
      /\ u.plocate = v.plocate /\ u.astray = v.astray
  BY <1>1, <1>3 DEF Shaped, Lists, Listed, Typed, ListFields
<1>5. Sees(v, u)
  BY <1>1, <1>4, SameSees DEF Shaped
<1>6. Shaped(u)
  BY <1>2, OnlyElsewhere, ShapedOn DEF Good
<1> QED BY <1>1, <1>2, <1>4, <1>5, <1>6, SeesOn DEF u

(* An event made to replace another of its type.                           *)
LEMMA CreateReplaceSees ==
    ASSUME NeverDry, NEW t, Shaped(t), NEW event, Proper(event), event.frame \in Nat,
           event.type \in OnceOnly
    PROVE  LET u == ReplaceEvent(Created(t, Held, event), New(t, Held))
           IN  /\ Shaped(u) /\ Finding(u) /\ Only(t, u, {})
               /\ event.type # "StopOnce" => Sees(t, u)
               /\ event.type = "StopOnce" /\ NoneOnce(t) => Along(t, u)
<1> DEFINE e == New(t, Held)
           v == Created(t, Held, event)
           u == ReplaceEvent(v, e)
<1>1. /\ e \in v.live /\ v.ev[e] = event
      /\ e \notin ToSet(v.events) \cup ToSet(v.pending)
  BY CreatedFits DEF Shaped
<1>2. /\ Shaped(v) /\ Sees(t, v) /\ Only(t, v, {}) /\ v.events = t.events /\ v.frame = t.frame
      /\ \A c \in ToSet(t.events) : v.ev[c] = t.ev[c]
  BY CreatedSees
<1> HIDE DEF e, v
<1>3. /\ Shaped(u) /\ Finding(u) /\ Only(v, u, {})
      /\ event.type # "StopOnce" => Sees(v, u)
      /\ event.type = "StopOnce" /\ NoneOnce(v) => Along(v, u)
  BY <1>1, <1>2, ReplaceSees
<1> HIDE DEF u
<1>4. Only(t, u, {})
  BY <1>2, <1>3 DEF Only
<1>5. event.type # "StopOnce" => Sees(t, u)
  BY <1>2, <1>3 DEF Sees
<1>6. event.type = "StopOnce" /\ NoneOnce(t) => Along(t, u)
  BY <1>2, <1>3 DEF NoneOnce, Along
<1> QED BY <1>3, <1>4, <1>5, <1>6 DEF u, v, e

(* An event made and put into the list.                                    *)
LEMMA CreateAddSees ==
    ASSUME NeverDry, NEW t, Shaped(t), NEW event, Proper(event), event.frame \in Nat,
           event.type \in Kept \ OnceOnly
    PROVE  LET u == AddEvent(Created(t, Held, event), New(t, Held))
           IN  Shaped(u) /\ Sees(t, u)
<1> DEFINE e == New(t, Held)
           v == Created(t, Held, event)
           u == AddEvent(v, e)
<1>1. /\ e \in v.live /\ v.ev[e] = event
      /\ e \notin ToSet(v.events) \cup ToSet(v.pending)
  BY CreatedFits DEF Shaped
<1>2. Shaped(v) /\ Sees(t, v)
  BY CreatedSees
<1> HIDE DEF e, v
<1>3. Shaped(u) /\ Sees(v, u)
  BY <1>1, <1>2, AddSees
<1> QED BY <1>2, <1>3, SeesOn DEF u, v, e

-----------------------------------------------------------------------------
(* The handlers. A stop or locate at work is seen.                         *)
LEMMA BusySees ==
    ASSUME NEW t, NEW u, ~Calm(u), Once(t) => Once(u)
    PROVE  Sees(t, u) /\ Busy(u)
BY DEF Sees, Finding, Busy

(* What becomes of the events that are still ahead in a cycle.             *)
Goes(t, u) == Once(t) => Busy(u) \/ Along(t, u)
Ends(t, u) == Once(t) => ~Calm(u) \/ Along(t, u)
(* What ends without a declick ends all the more with one.                 *)
LEMMA EndsGoes ==
    ASSUME NEW t, NEW u, Ends(t, u)
    PROVE  Goes(t, u)
BY DEF Ends, Goes, Busy

(* The lists are as they were, and the position.                           *)
LEMMA SameAlong ==
    ASSUME NEW t, NEW u, u.events = t.events, u.frame = t.frame,
           \A c \in ToSet(t.events) : u.ev[c] = t.ev[c]
    PROVE  Along(t, u)
BY DEF Along

(* realtime_stop leaves no StopOnce.                                       *)
LEMMA RealtimeStopEnds ==
    ASSUME NEW t, Lists(t), Scalars(t), NEW clear \in BOOLEAN
    PROVE  NoneOnce(RealtimeStop(t, clear))
<1> DEFINE back == IF Latency > Block THEN Latency ELSE Block
           moved == IF t.rec = "Recording" THEN Back(t.frame, back) ELSE t.frame
           bits == {"Stop"} \cup (IF clear THEN {"ClearSubstate"} ELSE {})
           a == AddWork([t EXCEPT !.frame = moved], bits)
           b == ClearEventType(a, "StopOnce")
           c == ClearEventType(b, "RangeStop")
           v == ClearEventType(c, "RangeLocate")
           rec == CASE ~v.loop \/ clear -> "Disabled"
                    [] v.rec = "Recording" -> "Enabled"
                    [] OTHER -> v.rec
           u == [DisableRecord(v, clear) EXCEPT !.speed = 0, !.sub = ClearedSub(t)]
<1>1. moved \in Frames
  <2>1. back \in Nat /\ t.frame \in Frames
    BY FrameFacts DEF Scalars
  <2> HIDE DEF back
  <2> QED BY <2>1, BackStays
<1> HIDE DEF moved, bits
<1>2. /\ DOMAIN a = DOMAIN t /\ a.frame = moved /\ a.ev = t.ev /\ a.live = t.live
      /\ a.events = t.events /\ a.immediate = t.immediate /\ a.next = t.next
      /\ a.pending = t.pending
  BY DEF AddWork, Scalars, Lists, Listed, Typed, ListFields
<1> HIDE DEF a
<1>3. Shaped(a)
  <2>1. a.frame \in Nat
    BY <1>1, <1>2, FrameFacts
  <2>2. Lists(a)
    BY <2>1, <1>2, SameLists DEF Good
  <2> QED BY <2>2, <1>2 DEF Shaped, Scalars
<1>4. Shaped(b) /\ b.ev = a.ev /\ NoneOnce(b)
  BY <1>3, ClearSees DEF NoneOnce
<1> HIDE DEF b
<1>5. Shaped(c) /\ c.ev = b.ev /\ ToSet(c.events) \subseteq ToSet(b.events)
  BY <1>4, ClearSees
<1> HIDE DEF c
<1>6. Shaped(v) /\ v.ev = c.ev /\ ToSet(v.events) \subseteq ToSet(c.events)
  BY <1>5, ClearSees
<1> HIDE DEF v
<1>7. u = [[v EXCEPT !.rec = rec] EXCEPT !.speed = 0, !.sub = ClearedSub(t)]
  BY DEF DisableRecord
<1> HIDE DEF rec, u
<1>8. u.ev = v.ev /\ u.events = v.events
  BY <1>6, <1>7 DEF Shaped, Lists, Listed, Typed, ListFields
<1>9. NoneOnce(u)
  BY <1>4, <1>5, <1>6, <1>8 DEF NoneOnce
<1> QED BY <1>9 DEF RealtimeStop, u, v, c, b, a, moved, bits

(* stop_transport: the StopOnce it may put into the list is the only one.  *)
LEMMA StopSees ==
    ASSUME NeverDry, NEW t, Fit(t)
    PROVE  LET u == StopTransport(t) IN Sees(t, u) /\ Ends(t, u)
<1>1. Shaped(t) /\ Lists(t)
  BY FitShaped DEF Fit
<1>2. CASE t.speed = 0
  <2>1. StopTransport(t) = t
    BY <1>2 DEF StopTransport
  <2> QED BY <2>1, SameAlong DEF Sees, Ends
<1>3. CASE t.speed # 0 /\ AwaitsInput(t)
  <2> DEFINE event == Event("StopOnce", "Replace", t.frame + Latency - Block, 0, FALSE)
             v == ReplaceEvent(Created(t, Held, event), New(t, Held))
             w == [v EXCEPT !.sub = @ \cup {"StopPendingCapture"}]
  <2>1. StopTransport(t) = w
    BY <1>3 DEF StopTransport
  <2>2. /\ event.frame \in Nat /\ Proper(event) /\ event.type \in OnceOnly
        /\ event.type = "StopOnce"
    <3>1. t.frame \in Nat /\ Latency > Block
      BY <1>3, FrameFacts DEF AwaitsInput, Fit, Scalars
    <3>2. t.frame + Latency - Block \in Nat
      BY <3>1, FrameFacts
    <3>3. /\ event.frame = t.frame + Latency - Block /\ event.type = "StopOnce"
          /\ event.target = 0 /\ event.on = FALSE
          /\ {"type", "frame", "target", "on"} \subseteq DOMAIN event
      BY DEF Event
    <3> HIDE DEF event
    <3> QED BY <3>2, <3>3, FrameFacts DEF Proper, Kept, OnceOnly
  <2> HIDE DEF event
  <2>3. Shaped(v) /\ Finding(v) /\ Only(t, v, {}) /\ (NoneOnce(t) => Along(t, v))
    BY <2>2, <1>1, CreateReplaceSees
  <2> HIDE DEF v
  <2>4. v.speed = t.speed /\ v.sub = t.sub /\ v.frame = t.frame /\ Busy(v) = Busy(t)
    BY <2>3, <1>1, OnlyElsewhere, ShapedOn DEF Shaped
  <2>5. /\ w.sub = v.sub \cup {"StopPendingCapture"}
        /\ w.work = v.work /\ w.speed = v.speed /\ w.frame = v.frame /\ w.rec = v.rec
        /\ w.plocate = v.plocate /\ w.astray = v.astray
        /\ w.ev = v.ev /\ w.events = v.events /\ w.next = v.next
    BY <2>3 DEF Shaped, Lists, Listed, Typed, ListFields
  <2> HIDE DEF w
  <2>6. Sees(v, w)
    BY <2>3, <2>5, SameSees DEF Shaped
  <2>7. Once(w)
    BY <2>4, <2>5, <1>3 DEF Once
  <2>8. Sees(t, w)
    BY <2>3, <2>4, <2>6, <2>7 DEF Sees
  <2>9. Once(t) => Along(t, w)
    <3>1. Once(t) => NoneOnce(t)
      BY <1>3 DEF Once, NoneOnce, AwaitsInput
    <3> QED BY <3>1, <2>3, <2>5 DEF Along
  <2> QED BY <2>1, <2>8, <2>9 DEF Ends
<1>4. CASE t.speed # 0 /\ ~AwaitsInput(t) /\ "DeclickOut" \notin t.sub
  <2> DEFINE w == [t EXCEPT !.sub = @ \cup {"DeclickOut"}]
  <2>1. StopTransport(t) = w
    BY <1>4 DEF StopTransport
  <2>2. /\ w.sub = t.sub \cup {"DeclickOut"}
        /\ w.work = t.work /\ w.speed = t.speed /\ w.frame = t.frame /\ w.rec = t.rec
        /\ w.plocate = t.plocate /\ w.astray = t.astray
        /\ w.ev = t.ev /\ w.events = t.events /\ w.next = t.next
    BY <1>1 DEF Shaped, Lists, Listed, Typed, ListFields
  <2> HIDE DEF w
  <2>3. Sees(t, w) /\ Along(t, w)
    BY <2>2, <1>1, SameSees, SameAlong
  <2> QED BY <2>1, <2>3 DEF Ends
<1>5. CASE t.speed # 0 /\ ~AwaitsInput(t) /\ "DeclickOut" \in t.sub
  <2> DEFINE v == RealtimeStop(t, FALSE)
             w == ScheduleWork(v, {})
  <2>1. StopTransport(t) = w
    BY <1>5 DEF StopTransport
  <2>2. Good(t, v) /\ Scalars(v) /\ "Stop" \in v.work /\ NoneOnce(v)
    BY RealtimeStops, RealtimeStopEnds DEF Fit
  <2> HIDE DEF v
  <2>3. w.work = v.work /\ w.ev = v.ev /\ w.events = v.events
    BY <2>2 DEF Good, Scalars, Lists, Listed, Typed, ListFields, ScheduleWork, AddWork
  <2> HIDE DEF w
  <2>4. ~Calm(w) /\ Once(w)
    BY <2>2, <2>3 DEF Calm, NoneOnce, Once
  <2> QED BY <2>1, <2>4, BusySees DEF Ends
<1> QED BY <1>2, <1>3, <1>4, <1>5

(* To begin to record leaves the events where they are, and gives a locate *)
(* up that waits.                                                          *)
LEMMA RecordSees ==
    ASSUME NEW t, Fit(t)
    PROVE  LET u == Record(t) IN Sees(t, u) /\ Along(t, u)
<1> DEFINE u == Record(t)
<1>1. /\ u.sub = t.sub /\ u.work = t.work /\ u.speed = t.speed /\ u.frame = t.frame
      /\ u.ev = t.ev /\ u.events = t.events /\ u.next = t.next
      /\ IF "Locate" \in t.sub THEN u.astray = TRUE ELSE u.astray = t.astray
  BY Recorded DEF Fit
<1> HIDE DEF u
<1>2. Busy(t) => Busy(u)
  BY <1>1 DEF Busy, Jumping, Calm
<1>3. (ClearTo(t, t.next) => ClearTo(u, u.next)) /\ (Once(t) => Once(u))
  BY <1>1 DEF ClearTo, Regular, Once
<1>4. Along(t, u)
  BY <1>1, SameAlong
<1> QED BY <1>2, <1>3, <1>4 DEF Sees, Finding, u

(* So does to end it.                                                      *)
LEMMA PunchOutSees ==
    ASSUME NEW t, Fit(t)
    PROVE  LET u == [t EXCEPT !.rec = "Enabled"] IN Sees(t, u) /\ Along(t, u)
<1> DEFINE u == [t EXCEPT !.rec = "Enabled"]
<1>1. /\ u.sub = t.sub /\ u.work = t.work /\ u.speed = t.speed /\ u.frame = t.frame
      /\ u.plocate = t.plocate /\ u.astray = t.astray /\ u.rec = "Enabled"
      /\ u.ev = t.ev /\ u.events = t.events /\ u.next = t.next
  BY DEF Fit, Scalars, Lists, Listed, Typed, ListFields
<1> HIDE DEF u
<1>2. Busy(t) => Busy(u)
  BY <1>1 DEF Busy, Jumping, Calm
<1>3. (ClearTo(t, t.next) => ClearTo(u, u.next)) /\ (Once(t) => Once(u))
  BY <1>1 DEF ClearTo, Regular, Once
<1>4. Along(t, u)
  BY <1>1, SameAlong
<1> QED BY <1>2, <1>3, <1>4 DEF Sees, Finding, u

(* A start finds the transport at rest, when nothing waits for a declick.  *)
LEMMA SpeedSees ==
    ASSUME NeverDry, NEW t, Fit(t), NEW on \in BOOLEAN, on => Calm(t)
    PROVE  LET u == SetTransportSpeed(t, on) IN Sees(t, u) /\ Goes(t, u)
<1>1. Shaped(t) /\ Lists(t)
  BY FitShaped DEF Fit
<1>2. CASE on /\ t.speed = 0
  <2> DEFINE w == StartTransport(t)
  <2>1. SetTransportSpeed(t, on) = w
    BY <1>2 DEF SetTransportSpeed
  <2>2. /\ w.frame = t.frame /\ w.ev = t.ev /\ w.events = t.events /\ w.next = t.next
        /\ t.astray = TRUE => w.astray = TRUE
    BY Starting DEF Fit
  <2> HIDE DEF w
  <2>3. Busy(t) => Busy(w)
    BY <2>2, <1>2 DEF Busy, Jumping, Fit, Fresh
  <2>4. Once(t) => Once(w)
    BY <2>2, <1>2 DEF Once
  <2>5. ClearTo(t, t.next) => ClearTo(w, w.next)
    BY <2>2 DEF ClearTo, Regular
  <2>6. Along(t, w)
    BY <2>2, SameAlong
  <2> QED BY <2>1, <2>3, <2>4, <2>5, <2>6 DEF Sees, Finding, Goes
<1>3. CASE ~on /\ t.speed # 0
  <2>1. SetTransportSpeed(t, on) = StopTransport(t)
    BY <1>3 DEF SetTransportSpeed
  <2>2. LET u == StopTransport(t) IN Sees(t, u) /\ Goes(t, u)
    BY StopSees, EndsGoes
  <2> QED BY <2>1, <2>2
<1>4. CASE ~(on /\ t.speed = 0) /\ ~(~on /\ t.speed # 0)
  <2>1. SetTransportSpeed(t, on) = t
    BY <1>4 DEF SetTransportSpeed
  <2> QED BY <2>1, SameAlong DEF Sees, Goes
<1> QED BY <1>2, <1>3, <1>4

(* Ending a loop only queues a request.                                    *)
LEMMA UnsetLoopSees ==
    ASSUME NeverDry, NEW t, Fit(t)
    PROVE  LET u == UnsetPlayLoop(t) IN Sees(t, u) /\ Along(t, u)
<1> DEFINE event == Event("AutoLoop", "Clear", 0, 0, FALSE)
           v == [t EXCEPT !.loop = FALSE]
           u == Queue(v, event)
<1>1. Proper(event) /\ Asked(event) /\ event.frame \in Nat
  BY FrameFacts DEF Event, Proper, Asked, Kept
<1>2. /\ Only(t, v, Elsewhere)
      /\ v.ev = t.ev /\ v.live = t.live /\ v.events = t.events /\ v.immediate = t.immediate
      /\ v.next = t.next /\ v.pending = t.pending
  BY DEF Only, Elsewhere, Fit, Scalars, Lists, Listed, Typed, ListFields
<1>3. /\ v.frame = t.frame /\ v.speed = t.speed /\ v.rec = t.rec /\ v.sub = t.sub
      /\ v.plocate = t.plocate /\ v.astray = t.astray /\ v.work = t.work
  BY DEF Fit, Scalars
<1> HIDE DEF v
<1>4. Fit(v) /\ Shaped(v) /\ Shaped(t)
  BY <1>2, UpdateHolds, FitShaped DEF Holds
<1>5. Sees(t, v)
  BY <1>2, <1>3, <1>4, SameSees DEF Shaped
<1> HIDE DEF event
<1>6. /\ Sees(v, u) /\ u.events = v.events /\ u.frame = v.frame
      /\ \A c \in ToSet(v.events) : u.ev[c] = v.ev[c]
  BY <1>1, <1>4, QueueSees
<1> HIDE DEF u
<1>7. Sees(t, u) /\ Along(t, u)
  BY <1>2, <1>3, <1>5, <1>6, SeesOn, SameAlong
<1> QED BY <1>7 DEF UnsetPlayLoop, u, v, event

(* Ending a range clears its events.                                       *)
LEMMA UnsetRangeSees ==
    ASSUME NEW t, Fit(t)
    PROVE  Sees(t, UnsetPlayRange(t))
<1> DEFINE v == [t EXCEPT !.range = FALSE]
           w == ClearEventType(v, "RangeStop")
           u == ClearEventType(w, "RangeLocate")
<1>1. /\ Only(t, v, Elsewhere)
      /\ v.ev = t.ev /\ v.live = t.live /\ v.events = t.events /\ v.immediate = t.immediate
      /\ v.next = t.next /\ v.pending = t.pending
  BY DEF Only, Elsewhere, Fit, Scalars, Lists, Listed, Typed, ListFields
<1>2. /\ v.frame = t.frame /\ v.speed = t.speed /\ v.rec = t.rec /\ v.sub = t.sub
      /\ v.plocate = t.plocate /\ v.astray = t.astray /\ v.work = t.work
  BY DEF Fit, Scalars
<1> HIDE DEF v
<1>3. Fit(v) /\ Shaped(v) /\ Shaped(t)
  BY <1>1, UpdateHolds, FitShaped DEF Holds
<1>4. Sees(t, v)
  BY <1>1, <1>2, <1>3, SameSees DEF Shaped
<1>5. Sees(v, w) /\ Shaped(w)
  BY <1>3, ClearSees
<1> HIDE DEF w
<1>6. Sees(w, u)
  BY <1>5, ClearSees
<1> HIDE DEF u
<1>7. Sees(t, u)
  BY <1>4, <1>5, <1>6, SeesOn
<1> QED BY <1>7 DEF UnsetPlayRange, u, v, w

-----------------------------------------------------------------------------
(* A locate changes no list, or is at work when it does.                   *)
LEMMA LocateSees ==
    ASSUME NeverDry, NEW t, Fit(t), NEW target \in Frames, NEW roll \in BOOLEAN, roll => Calm(t)
    PROVE  LET u == Locate(t, target, roll)
           IN  /\ Sees(t, u) /\ Goes(t, u)
               /\ "DeclickOut" \in t.sub =>
                    Ends(t, u) /\ (t.rec # "Recording" /\ t.frame # target => ~Calm(u))
<1> DEFINE u == Locate(t, target, roll)
           moved == [t EXCEPT !.frame = target]
           located == Located(t, target, roll)
<1>1. Shaped(t) /\ Lists(t)
  BY FitShaped DEF Fit
<1>2. CASE t.rec = "Recording"
  <2>1. u = t
    BY <1>2 DEF Locate
  <2> QED BY <2>1, <1>2, SameAlong DEF Sees, Goes, Ends
<1>3. CASE t.rec # "Recording" /\ t.frame = target
  <2>1. u = IF roll THEN SetTransportSpeed(t, TRUE) ELSE t
    BY <1>3 DEF Locate
  <2>2. CASE roll
    <3>1. u = SetTransportSpeed(t, TRUE)
      BY <2>1, <2>2
    <3>2. "DeclickOut" \in t.sub => u = t
      BY <3>1 DEF SetTransportSpeed, Fit, Fresh
    <3>3. "DeclickOut" \in t.sub => Ends(t, u)
      BY <3>2, SameAlong DEF Ends
    <3> HIDE DEF u
    <3> QED BY <3>1, <3>3, <2>2, <1>3, SpeedSees DEF u
  <2>3. CASE ~roll
    <3>1. u = t
      BY <2>1, <2>3
    <3> QED BY <3>1, <1>3, SameAlong DEF Sees, Goes, Ends
  <2> QED BY <2>2, <2>3
<1>4. CASE t.rec # "Recording" /\ t.frame # target /\ t.speed # 0 /\ "DeclickOut" \notin t.sub
  <2> DEFINE w == ScheduleDeclick(moved, target, roll)
  <2>1. u = w
    BY <1>4 DEF Locate
  <2>2. /\ w.frame = target /\ w.plocate = target
        /\ w.sub = t.sub \cup {"DeclickOut", "Locate"} /\ w.speed = t.speed
        /\ w.rec = t.rec /\ w.ev = t.ev /\ w.events = t.events
    BY DEF ScheduleDeclick, Fit, Scalars, Lists, Listed, Typed, ListFields
  <2> HIDE DEF w
  <2>3. Busy(w)
    BY <2>2, <1>4 DEF Busy, Jumping
  <2>4. Once(t) => Once(w)
    BY <2>2 DEF Once
  <2> QED BY <2>1, <2>3, <2>4, <1>4 DEF Sees, Finding, Goes
<1>5. CASE /\ t.rec # "Recording" /\ t.frame # target
           /\ ~(t.speed # 0 /\ "DeclickOut" \notin t.sub)
  <2>1. u = IF t.loop /\ (target < LoopStart \/ target > LoopEnd)
            THEN UnsetPlayLoop(located) ELSE located
    BY <1>5 DEF Locate, Located
  <2>2. Fit(located) /\ ~Calm(located)
    BY <1>5, LocatedHolds DEF Holds
  <2>3. ASSUME Once(t) PROVE Once(located)
    <3> DEFINE stopped == IF t.speed # 0 /\ ~roll THEN RealtimeStop(moved, TRUE) ELSE moved
               bits == {"Locate"} \cup (IF roll THEN {"Roll"} ELSE {})
               v == ScheduleWork(stopped, bits)
    <3>1. /\ DOMAIN moved = DOMAIN t /\ moved.frame = target
          /\ moved.sub = t.sub /\ moved.work = t.work /\ moved.speed = t.speed
          /\ moved.rec = t.rec /\ moved.plocate = t.plocate /\ moved.count = t.count
          /\ moved.lastRoll = t.lastRoll /\ moved.punchIn = t.punchIn
          /\ moved.astray = t.astray /\ moved.proll = t.proll
          /\ moved.ev = t.ev /\ moved.live = t.live /\ moved.events = t.events
          /\ moved.immediate = t.immediate /\ moved.next = t.next /\ moved.pending = t.pending
      BY <1>1 DEF Fit, Scalars, Lists, Listed, Typed, ListFields
    <3> HIDE DEF moved
    <3>2. Lists(moved) /\ Scalars(moved)
      <4>1. moved.frame \in Nat
        BY <3>1, FrameFacts
      <4>2. Lists(moved)
        BY <4>1, <3>1, <1>1, SameLists DEF Good
      <4>3. Scalars(moved)
        BY <3>1 DEF Fit, Scalars
      <4> QED BY <4>2, <4>3
    <3>3. Lists(stopped) /\ Scalars(stopped) /\ Once(stopped)
      <4>1. CASE t.speed # 0 /\ ~roll
        <5>1. stopped = RealtimeStop(moved, TRUE)
          BY <4>1
        <5> HIDE DEF stopped
        <5> QED BY <5>1, <3>2, RealtimeStops, RealtimeStopEnds DEF Good, NoneOnce, Once
      <4>2. CASE ~(t.speed # 0 /\ ~roll)
        <5>1. stopped = moved
          BY <4>2
        <5>2. Once(moved)
          BY <2>3, <3>1 DEF Once
        <5> HIDE DEF stopped
        <5> QED BY <5>1, <5>2, <3>2
      <4> QED BY <4>1, <4>2
    <3> HIDE DEF stopped, bits
    <3>4. v.events = stopped.events /\ v.ev = stopped.ev /\ v.speed = stopped.speed
          /\ v.sub = stopped.sub
      BY <3>3 DEF Scalars, Lists, Listed, Typed, ListFields, ScheduleWork, AddWork
    <3> HIDE DEF v
    <3>5. Once(v)
      BY <3>3, <3>4 DEF Once
    <3> QED BY <3>5 DEF Located, v, stopped, bits, moved
  <2> HIDE DEF located
  <2>4. Sees(t, located) /\ Busy(located)
    BY <2>2, <2>3, BusySees
  <2>5. Sees(located, UnsetPlayLoop(located))
    BY <2>2, UnsetLoopSees
  <2>6. Sees(t, UnsetPlayLoop(located)) /\ ~Calm(UnsetPlayLoop(located))
    <3>1. UnsetPlayLoop(located).work = located.work
      BY <2>2, UnsetLoopHolds
    <3> QED BY <3>1, <2>2, <2>4, <2>5, SeesOn DEF Calm
  <2>7. Sees(t, u) /\ ~Calm(u)
    BY <2>1, <2>2, <2>4, <2>6
  <2> HIDE DEF u
  <2>8. Ends(t, u) /\ Goes(t, u)
    BY <2>7, EndsGoes DEF Ends
  <2> QED BY <2>7, <2>8 DEF u
<1> QED BY <1>2, <1>3, <1>4, <1>5

(* set_play_loop.                                                          *)
LEMMA LoopSees ==
    ASSUME NeverDry, NEW t, Fit(t), NEW on \in BOOLEAN, Calm(t)
    PROVE  Sees(t, SetPlayLoop(t, on))
<1> DEFINE v == [t EXCEPT !.loop = TRUE]
           w == UnsetPlayRange(v)
           event == Event("AutoLoop", "Replace", LoopEnd, LoopStart, FALSE)
           x == ReplaceEvent(Created(w, Held, event), New(w, Held))
           u == Locate(x, LoopStart, TRUE)
<1>1. SetPlayLoop(t, on) \in {t, UnsetPlayLoop(t), u}
  BY DEF SetPlayLoop
<1>2. Sees(t, t) /\ Sees(t, UnsetPlayLoop(t))
  BY UnsetLoopSees DEF Sees
<1>3. /\ Only(t, v, Elsewhere)
      /\ v.ev = t.ev /\ v.live = t.live /\ v.events = t.events /\ v.immediate = t.immediate
      /\ v.next = t.next /\ v.pending = t.pending
      /\ v.frame = t.frame /\ v.speed = t.speed /\ v.rec = t.rec /\ v.sub = t.sub
      /\ v.plocate = t.plocate /\ v.astray = t.astray /\ v.work = t.work
  BY DEF Only, Elsewhere, Fit, Scalars, Lists, Listed, Typed, ListFields
<1> HIDE DEF v
<1>4. Fit(v) /\ Sees(t, v)
  <2>1. Fit(v)
    BY <1>3, UpdateHolds DEF Holds
  <2>2. Sees(t, v)
    BY <1>3, SameSees DEF Fit
  <2> QED BY <2>1, <2>2
<1>5. Fit(w) /\ Only(v, w, Elsewhere) /\ Sees(v, w)
  BY <1>4, UnsetRangeHolds, UnsetRangeSees DEF Holds
<1> HIDE DEF w
<1>6. /\ Proper(event) /\ event.frame \in Nat /\ event.type \in OnceOnly
      /\ event.type # "StopOnce"
  BY FrameFacts DEF Event, Proper, Kept, OnceOnly
<1> HIDE DEF event
<1>7. Good(w, x) /\ Only(w, x, {}) /\ Sees(w, x)
  BY <1>5, <1>6, CreateAndReplace, CreateReplaceSees, FitShaped DEF Fit
<1> HIDE DEF x
<1>8. Only(t, x, Elsewhere)
  BY <1>3, <1>5, <1>7 DEF Only
<1>9. Fit(x)
  <2>1. Only(w, x, Elsewhere)
    BY <1>7 DEF Only
  <2> QED BY <2>1, <1>5, <1>7, ElsewhereHolds DEF Holds
<1>10. Calm(x)
  <2>1. x.work = t.work
    BY <1>8 DEF Only, Elsewhere, Fit, Scalars, ListFields
  <2> QED BY <2>1 DEF Calm
<1>11. Sees(x, u)
  BY <1>9, <1>10, LocateSees, FrameFacts
<1> HIDE DEF u
<1>12. Sees(t, u)
  BY <1>4, <1>5, <1>7, <1>11, SeesOn
<1> QED BY <1>1, <1>2, <1>12

(* The events of the ranges, one after the other.                          *)
LEMMA RangesSee ==
    ASSUME NeverDry, NEW t, Shaped(t)
    PROVE  Sees(t, RangesAdded(t))
<1> DEFINE N == Len(Ranges)
           f == CHOOSE g : MergedTo(t, g, N)
<1>1. N \in Nat
  BY RangeAssumption, LenProperties
<1>2. RangesAdded(t) = f[N]
  BY DEF RangesAdded, MergedTo, MergedOne
<1>3. MergedTo(t, f, N)
  BY <1>1, MergedExists
<1> HIDE DEF f
<1>4. f = [i \in 0 .. N |-> IF i = 0 THEN t ELSE MergedOne(f[i - 1], i)]
  BY <1>3, Zenon DEF MergedTo
<1> HIDE DEF N
<1> DEFINE Fine(i) == Shaped(f[i]) /\ Sees(t, f[i])
           bad == {i \in 0 .. N : ~ Fine(i)}
<1>5. bad = {}
  <2> SUFFICES ASSUME bad # {} PROVE FALSE
    OBVIOUS
  <2> DEFINE m == Min(bad)
  <2>1. bad \in SUBSET Nat
    BY <1>1
  <2>2. m \in bad /\ \A i \in bad : m <= i
    <3> HIDE DEF bad
    <3> QED BY <2>1, MinOf
  <2> HIDE DEF m
  <2>3. m \in 0 .. N /\ ~ Fine(m)
    BY <2>2
  <2>4. CASE m = 0
    <3>1. f[0] = t
      BY <1>1, <1>4
    <3>2. Sees(t, t)
      BY DEF Sees
    <3> QED BY <3>1, <3>2, <2>3, <2>4
  <2>5. CASE m # 0
    <3>1. m \in 1 .. N /\ m - 1 \in 0 .. N /\ ~(m <= m - 1)
      BY <2>3, <2>5, <1>1
    <3>2. Fine(m - 1)
      BY <3>1, <2>2
    <3>3. f[m] = MergedOne(f[m - 1], m)
      BY <3>1, <2>5, <1>4
    <3> DEFINE g == f[m - 1]
    <3>4. Shaped(g) /\ Sees(t, g)
      BY <3>2
    <3>5. /\ Proper(RangeEvent(m)) /\ RangeEvent(m).frame \in Nat
          /\ RangeEvent(m).type \in Kept \ OnceOnly
      BY <3>1, RangeEventFits DEF N
    <3> HIDE DEF g
    <3>6. Shaped(MergedOne(g, m)) /\ Sees(g, MergedOne(g, m))
      BY <3>4, <3>5, CreateAddSees DEF MergedOne
    <3>7. f[m] = MergedOne(g, m)
      BY <3>3 DEF g
    <3> HIDE DEF f, Fine
    <3>8. Shaped(f[m]) /\ Sees(t, f[m])
      BY <3>4, <3>6, <3>7, SeesOn
    <3> QED BY <3>8, <2>3 DEF Fine
  <2> QED BY <2>4, <2>5
<1>6. Fine(N)
  <2>1. N \in 0 .. N
    BY <1>1
  <2> QED BY <2>1, <1>5
<1> QED BY <1>2, <1>6

(* set_play_range.                                                         *)
LEMMA RangeSees ==
    ASSUME NeverDry, NEW t, Fit(t), NEW on \in BOOLEAN, Calm(t)
    PROVE  Sees(t, SetPlayRange(t, on))
<1> DEFINE r == UnsetPlayRange(t)
<1>1. Fit(r) /\ r.work = t.work /\ Sees(t, r)
  BY UnsetRangeHolds, UnsetRangeSees DEF Holds
<1> HIDE DEF r
<1>2. Calm(r)
  BY <1>1 DEF Calm
<1>3. CASE ~on
  <2> DEFINE v == SetTransportSpeed(r, FALSE)
             u == [v EXCEPT !.goal = "stop"]
  <2>1. SetPlayRange(t, on) = u
    BY <1>3 DEF SetPlayRange, r
  <2>2. Fit(v) /\ Sees(r, v)
    BY <1>1, SpeedHolds, SpeedSees DEF Holds
  <2> HIDE DEF v
  <2>3. /\ u.events = v.events /\ u.next = v.next /\ u.ev = v.ev /\ u.frame = v.frame
        /\ u.speed = v.speed /\ u.sub = v.sub /\ u.work = v.work /\ u.rec = v.rec
        /\ u.plocate = v.plocate /\ u.astray = v.astray
    BY <2>2 DEF Fit, Scalars, Lists, Listed, Typed, ListFields
  <2> HIDE DEF u
  <2>4. Sees(v, u)
    BY <2>2, <2>3, SameSees DEF Fit
  <2>5. Sees(t, u)
    BY <1>1, <2>2, <2>4, SeesOn
  <2> QED BY <2>1, <2>5
<1>4. CASE on
  <2> DEFINE v == [r EXCEPT !.range = TRUE]
             w == UnsetPlayLoop(v)
             x == RangesAdded(w)
             u == Locate(x, Ranges[1][1], TRUE)
  <2>1. SetPlayRange(t, on) = u
    BY <1>4 DEF SetPlayRange, r
  <2>2. /\ Only(r, v, Elsewhere)
        /\ v.ev = r.ev /\ v.live = r.live /\ v.events = r.events /\ v.immediate = r.immediate
        /\ v.next = r.next /\ v.pending = r.pending
        /\ v.frame = r.frame /\ v.speed = r.speed /\ v.rec = r.rec /\ v.sub = r.sub
        /\ v.plocate = r.plocate /\ v.astray = r.astray /\ v.work = r.work
    BY <1>1 DEF Only, Elsewhere, Fit, Scalars, Lists, Listed, Typed, ListFields
  <2> HIDE DEF v
  <2>3. Fit(v) /\ Sees(r, v)
    <3>1. Fit(v)
      BY <1>1, <2>2, UpdateHolds DEF Holds
    <3>2. Sees(r, v)
      BY <1>1, <2>2, SameSees DEF Fit
    <3> QED BY <3>1, <3>2
  <2>4. Fit(w) /\ w.work = v.work /\ Sees(v, w)
    BY <2>3, UnsetLoopHolds, UnsetLoopSees DEF Holds
  <2> HIDE DEF w
  <2>5. Good(w, x) /\ Only(w, x, {}) /\ Sees(w, x)
    BY <2>4, RangesHold, RangesSee, FitShaped DEF Fit
  <2> HIDE DEF x
  <2>6. Fit(x) /\ x.work = w.work
    <3>1. Only(w, x, Elsewhere)
      BY <2>5 DEF Only
    <3> QED BY <3>1, <2>4, <2>5, ElsewhereHolds DEF Holds
  <2>7. Calm(x)
    BY <1>2, <2>2, <2>4, <2>6 DEF Calm
  <2>8. Ranges[1][1] \in Frames
    <3>1. Len(Ranges) \in Nat /\ Len(Ranges) # 0 /\ Ranges \in Seq(Frames \X Frames)
      BY RangeAssumption, EmptySeq, LenProperties
    <3>2. Ranges[1] \in Frames \X Frames
      BY <3>1, ElementOfSeq
    <3> QED BY <3>2
  <2>9. Sees(x, u)
    <3> DEFINE first == Ranges[1][1]
    <3>1. first \in Frames
      BY <2>8
    <3>2. u = Locate(x, first, TRUE)
      OBVIOUS
    <3> HIDE DEF first, u
    <3> QED BY <3>1, <3>2, <2>6, <2>7, LocateSees
  <2> HIDE DEF u
  <2>10. Sees(t, u)
    BY <1>1, <2>3, <2>4, <2>5, <2>9, SeesOn
  <2> QED BY <2>1, <2>10
<1> QED BY <1>3, <1>4

-----------------------------------------------------------------------------
(* What becomes of the events ahead when the one at hand is processed: the *)
(* others are where they were.                                             *)
Beyond(t, u, e) ==
    /\ u.frame = t.frame
    /\ \A c \in Regular(u) : c \in Regular(t) /\ u.ev[c] = t.ev[c]
    /\ e \in ToSet(t.events) =>
         \A c \in ToSet(t.events) \ {e} : c \in ToSet(u.events) /\ u.ev[c] = t.ev[c]
Passes(t, u, e) == Once(t) => Busy(u) \/ Beyond(t, u, e)

(* Where all events stay, all but the one at hand do.                      *)
LEMMA AlongBeyond ==
    ASSUME NEW t, NEW u, Along(t, u), NEW e
    PROVE  Beyond(t, u, e)
BY DEF Along, Beyond, Regular

(* The same of what may become busy.                                       *)
LEMMA GoesPasses ==
    ASSUME NEW t, NEW u, Goes(t, u), NEW e
    PROVE  Passes(t, u, e)
BY AlongBeyond DEF Goes, Passes

(* Two events of the list are the same or apart.                           *)
LEMMA TwoApart ==
    ASSUME NEW t, Listed(t), NEW e \in ToSet(t.events), NEW f \in ToSet(t.events), e # f
    PROVE  Apart(t, e, f)
<1>1. PICK i \in DOMAIN t.events, j \in DOMAIN t.events : e = t.events[i] /\ f = t.events[j]
  BY DEF ToSet
<1>2. DOMAIN t.events = 1 .. Len(t.events)
  BY LenProperties DEF Listed, Typed
<1>3. i < j \/ j < i
  BY <1>1, <1>2
<1>4. Apart(t, e, f) \/ Apart(t, f, e)
  BY <1>1, <1>3 DEF Listed, Ordered
<1> QED BY <1>4 DEF Apart

(* Every type of event, by its handler.                                    *)
LEMMA HandledSees ==
    ASSUME NeverDry, NEW t, Fit(t), NEW e \in Cells,
           t.ev[e].type \in Kept \cup Commands,
           t.ev[e].type # "Locate" => t.work = {}
    PROVE  LET u == Handled(t, e)
           IN  Sees(t, u) /\ (t.ev[e].type \in Kept => Passes(t, u, e))
<1> DEFINE ev == t.ev[e]
           u == Handled(t, e)
<1>1. ev.type \in Kept \cup Commands /\ ev.target \in Frames /\ ev.on \in BOOLEAN
  BY DEF Fit, Lists, Waiting, Proper
<1>2. ev.type # "Locate" => Calm(t)
  BY DEF Calm
<1> HIDE DEF ev
<1>3. Sees(t, t) /\ Along(t, t)
  BY DEF Sees, Along
<1>4. ASSUME NEW goal
      PROVE  LET v == [t EXCEPT !.goal = goal] IN Fit(v) /\ v.work = t.work /\ Sees(t, v)
  <2> DEFINE v == [t EXCEPT !.goal = goal]
  <2>1. Fit(v) /\ v.work = t.work
    BY GoalHolds DEF Holds
  <2>2. /\ v.events = t.events /\ v.next = t.next /\ v.ev = t.ev /\ v.frame = t.frame
        /\ v.speed = t.speed /\ v.sub = t.sub /\ v.rec = t.rec /\ v.plocate = t.plocate
        /\ v.astray = t.astray
    BY DEF Fit, Scalars, Lists, Listed, Typed, ListFields
  <2> HIDE DEF v
  <2>3. Sees(t, v)
    BY <2>1, <2>2, SameSees DEF Fit
  <2> QED BY <2>1, <2>3 DEF v
<1>5. CASE ev.type = "Speed"
  <2> DEFINE goal == IF ev.on THEN "roll" ELSE "stop"
             v == [t EXCEPT !.goal = goal]
  <2>1. u = SetTransportSpeed(v, ev.on)
    BY <1>5 DEF Handled, ev
  <2> HIDE DEF goal
  <2>2. Fit(v) /\ v.work = t.work /\ Sees(t, v)
    BY <1>4
  <2> HIDE DEF v, u
  <2>3. Calm(v)
    BY <2>2, <1>2, <1>5 DEF Calm
  <2>4. Sees(v, u)
    BY <2>1, <2>2, <2>3, <1>1, SpeedSees
  <2>5. Sees(t, u)
    BY <2>2, <2>4, SeesOn
  <2> QED BY <2>5, <1>5 DEF u, ev, Kept
<1> DEFINE want == IF ev.target = t.frame /\ t.speed # 0 THEN Nowhere ELSE ev.target
           wanted == IF t.rec = "Recording" THEN t ELSE [t EXCEPT !.want = want]
<1>6. Fit(wanted) /\ wanted.work = t.work /\ Sees(t, wanted)
  <2> HIDE DEF want
  <2> DEFINE v == [t EXCEPT !.want = want]
  <2>1. Fit(v) /\ v.work = t.work
    BY WantHolds DEF Holds
  <2>2. /\ v.events = t.events /\ v.next = t.next /\ v.ev = t.ev /\ v.frame = t.frame
        /\ v.speed = t.speed /\ v.sub = t.sub /\ v.rec = t.rec /\ v.plocate = t.plocate
        /\ v.astray = t.astray
    BY DEF Fit, Scalars, Lists, Listed, Typed, ListFields
  <2>3. wanted = t \/ wanted = v
    OBVIOUS
  <2> HIDE DEF v, wanted
  <2>4. Sees(t, v)
    BY <2>1, <2>2, SameSees DEF Fit
  <2> QED BY <2>1, <2>3, <2>4, <1>3
<1>7. CASE ev.type = "Locate"
  <2>1. u = Locate(wanted, ev.target, FALSE)
    BY <1>7 DEF Handled, ev
  <2> HIDE DEF u, wanted
  <2>2. Sees(wanted, u)
    BY <2>1, <1>1, <1>6, LocateSees
  <2>3. Sees(t, u)
    BY <2>2, <1>6, SeesOn
  <2> QED BY <2>3, <1>7 DEF u, ev, Kept
<1>8. CASE ev.type = "LocateRoll"
  <2> DEFINE v == [wanted EXCEPT !.goal = "roll"]
  <2>1. u = Locate(v, ev.target, TRUE)
    BY <1>8 DEF Handled, ev
  <2> HIDE DEF wanted
  <2>2. Fit(v) /\ v.work = wanted.work
    BY <1>6, GoalHolds DEF Holds
  <2>3. /\ v.events = wanted.events /\ v.next = wanted.next /\ v.ev = wanted.ev
        /\ v.frame = wanted.frame /\ v.speed = wanted.speed /\ v.sub = wanted.sub
        /\ v.rec = wanted.rec /\ v.plocate = wanted.plocate /\ v.astray = wanted.astray
    BY <1>6 DEF Fit, Scalars, Lists, Listed, Typed, ListFields
  <2> HIDE DEF v, u
  <2>4. Sees(wanted, v) /\ Calm(v)
    BY <2>2, <2>3, <1>2, <1>6, <1>8, SameSees DEF Fit, Calm
  <2>5. Sees(v, u)
    BY <2>1, <2>2, <2>4, <1>1, LocateSees
  <2>6. Sees(t, u)
    BY <2>4, <2>5, <1>6, SeesOn
  <2> QED BY <2>6, <1>8 DEF u, ev, Kept
<1> HIDE DEF wanted, want
<1> DEFINE told == IF ev.on THEN [t EXCEPT !.goal = "roll"] ELSE t
<1>9. Fit(told) /\ told.work = t.work /\ Sees(t, told)
  <2> DEFINE v == [t EXCEPT !.goal = "roll"]
  <2>1. Fit(v) /\ v.work = t.work /\ Sees(t, v)
    BY <1>4
  <2> HIDE DEF v
  <2> QED BY <2>1, <1>3 DEF v
<1> HIDE DEF told
<1>10. CASE ev.type = "SetLoop"
  <2>1. u = SetPlayLoop(told, ev.on)
    BY <1>10 DEF Handled, ev, told
  <2> HIDE DEF u
  <2>2. Sees(told, u)
    BY <2>1, <1>1, <1>2, <1>9, <1>10, LoopSees DEF Calm
  <2>3. Sees(t, u)
    BY <2>2, <1>9, SeesOn
  <2> QED BY <2>3, <1>10 DEF u, ev, Kept
<1>11. CASE ev.type = "SetPlayRange"
  <2>1. u = SetPlayRange(told, ev.on)
    BY <1>11 DEF Handled, ev, told
  <2> HIDE DEF u
  <2>2. Sees(told, u)
    BY <2>1, <1>1, <1>2, <1>9, <1>11, RangeSees DEF Calm
  <2>3. Sees(t, u)
    BY <2>2, <1>9, SeesOn
  <2> QED BY <2>3, <1>11 DEF u, ev, Kept
<1>12. CASE ev.type = "Overwrite"
  <2> DEFINE w == ScheduleWork(t, {"OverWrite"})
  <2>1. u = t \/ u = w
    BY <1>12 DEF Handled, ev
  <2>2. /\ w.sub = t.sub /\ w.work = t.work \cup {"OverWrite"} /\ w.speed = t.speed
        /\ w.frame = t.frame /\ w.rec = t.rec /\ w.plocate = t.plocate
        /\ w.astray = t.astray
        /\ w.events = t.events /\ w.next = t.next /\ w.ev = t.ev
    BY DEF Fit, Scalars, Lists, Listed, Typed, ListFields, ScheduleWork, AddWork
  <2> HIDE DEF w, u
  <2>3. Sees(t, w)
    BY <2>2, SameSees DEF Fit
  <2>4. Sees(t, u)
    BY <2>1, <2>3, <1>3
  <2> QED BY <2>4, <1>12 DEF u, ev, Kept
<1>13. Goes(t, t)
  BY <1>3 DEF Goes
<1>14. CASE ev.type \in {"AutoLoop", "RangeLocate"}
  <2>1. u = t \/ u = Locate(t, ev.target, TRUE)
    BY <1>14 DEF Handled, ev
  <2> HIDE DEF u
  <2>2. LET v == Locate(t, ev.target, TRUE) IN Sees(t, v) /\ Goes(t, v)
    BY <1>1, <1>2, <1>14, LocateSees
  <2>3. Sees(t, u) /\ Goes(t, u)
    BY <2>1, <2>2, <1>3, <1>13
  <2> QED BY <2>3, GoesPasses DEF u
<1>15. CASE ev.type = "StopOnce"
  <2> DEFINE v == StopTransport(t)
  <2>1. u = ClearEventType(v, "StopOnce")
    BY <1>15 DEF Handled, ev
  <2>2. Fit(v) /\ Sees(t, v) /\ Goes(t, v)
    BY StopHolds, StopSees, EndsGoes DEF Holds
  <2> HIDE DEF v, u
  <2>3. /\ Sees(v, u) /\ u.ev = v.ev /\ u.frame = v.frame
        /\ ToSet(u.events) = {c \in ToSet(v.events) : v.ev[c].type # "StopOnce"}
    <3>1. Shaped(v)
      BY <2>2, FitShaped
    <3>2. /\ Shaped(u) /\ Sees(v, u) /\ Only(v, u, {}) /\ u.ev = v.ev
          /\ ToSet(u.events) = {c \in ToSet(v.events) : v.ev[c].type # "StopOnce"}
      BY <3>1, <2>1, ClearSees
    <3> QED BY <3>1, <3>2, OnlyElsewhere, ShapedOn DEF Shaped
  <2>4. Sees(t, u)
    BY <2>2, <2>3, SeesOn
  <2>5. ASSUME Along(t, v) PROVE Beyond(t, u, e)
    <3>1. \A c \in Regular(u) : c \in Regular(t) /\ u.ev[c] = t.ev[c]
      BY <2>3, <2>5 DEF Along, Regular
    <3>2. ASSUME e \in ToSet(t.events), NEW c \in ToSet(t.events) \ {e}
          PROVE  c \in ToSet(u.events) /\ u.ev[c] = t.ev[c]
      <4>1. Apart(t, e, c)
        BY <3>2, TwoApart DEF Fit, Lists
      <4>2. t.ev[c].type # "StopOnce"
        BY <4>1, <1>15 DEF Apart, OnceOnly, ev
      <4> QED BY <4>2, <2>3, <2>5, <3>2 DEF Along
    <3> QED BY <3>1, <3>2, <2>3, <2>5 DEF Along, Beyond
  <2>6. Passes(t, u, e)
    BY <2>2, <2>3, <2>5 DEF Goes, Passes, Sees
  <2> QED BY <2>4, <2>6 DEF u
<1>16. CASE ev.type = "RangeStop"
  <2>1. u = StopTransport(t)
    BY <1>16 DEF Handled, ev
  <2> HIDE DEF u
  <2>2. Sees(t, u) /\ Goes(t, u)
    BY <2>1, StopSees, EndsGoes
  <2> QED BY <2>2, GoesPasses DEF u
<1>17. CASE ev.type = "PunchIn"
  <2>1. u = t \/ u = Record(t)
    BY <1>17 DEF Handled, ev
  <2> HIDE DEF u
  <2>2. Sees(t, u) /\ Along(t, u)
    BY <2>1, <1>3, RecordSees
  <2> QED BY <2>2, AlongBeyond DEF Passes, u
<1>18. CASE ev.type = "PunchOut"
  <2>1. u = t \/ u = [t EXCEPT !.rec = "Enabled"]
    BY <1>18 DEF Handled, ev
  <2> HIDE DEF u
  <2>2. Sees(t, u) /\ Along(t, u)
    BY <2>1, <1>3, PunchOutSees
  <2> QED BY <2>2, AlongBeyond DEF Passes, u
<1> QED
  BY <1>1, <1>5, <1>7, <1>8, <1>10, <1>11, <1>12, <1>14, <1>15, <1>16, <1>17, <1>18
  DEF Kept, Commands

-----------------------------------------------------------------------------
(* Deleting what is in no list.                                            *)
LEMMA DeleteSees ==
    ASSUME NEW t, Shaped(t), NEW e
    PROVE  Sees(t, Delete(t, e))
<1> DEFINE u == Delete(t, e)
<1>1. /\ u.events = t.events /\ u.next = t.next /\ u.ev = t.ev /\ u.frame = t.frame
      /\ u.speed = t.speed /\ u.sub = t.sub /\ u.work = t.work /\ u.rec = t.rec
      /\ u.plocate = t.plocate /\ u.astray = t.astray
  BY DEF Delete, Shaped, Lists, Listed, Typed, ListFields
<1> HIDE DEF u
<1>2. Sees(t, u)
  BY <1>1, SameSees DEF Shaped
<1> QED BY <1>2 DEF u

(* process_event.                                                          *)
LEMMA ProcessEventSees ==
    ASSUME NeverDry, NEW t, Fit(t), NEW e \in Cells,
           t.ev[e].type \in Kept \cup Commands,
           e \notin ToSet(t.pending),
           t.ev[e].type \in Commands => Aside(t, e)
    PROVE  LET u == ProcessEvent(t, e)
           IN  Sees(t, u) /\ (t.ev[e].type \in Kept => Passes(t, u, e))
<1>1. CASE ~MayProcess(t, t.ev[e].type)
  <2> DEFINE v == Deferred(t, e)
             u == RemoveEvent(v, e)
  <2>1. ProcessEvent(t, e) = u
    BY <1>1 DEF ProcessEvent, Defer
  <2>2. Lists(v) /\ Only(t, v, {})
    BY DeferredFits DEF Fit
  <2>3. v.events = t.events /\ v.next = t.next /\ v.ev = t.ev
    BY DEF Deferred, Fit, Lists, Listed, Typed, ListFields
  <2> HIDE DEF v
  <2>4. /\ Shaped(v) /\ v.frame = t.frame /\ v.speed = t.speed /\ v.rec = t.rec
        /\ v.sub = t.sub /\ v.plocate = t.plocate /\ v.work = t.work
        /\ v.astray = t.astray
    BY <2>2, FitShaped, OnlyElsewhere, ShapedOn
  <2>5. Sees(t, v)
    BY <2>3, <2>4, SameSees DEF Fit
  <2>6. /\ Shaped(u) /\ Sees(v, u) /\ Only(v, u, {}) /\ u.ev = v.ev
        /\ ToSet(u.events) = {f \in ToSet(v.events) : ~Alike(v, f, e)}
    BY <2>4, RemoveSees
  <2> HIDE DEF u
  <2>7. u.frame = v.frame
    BY <2>4, <2>6, OnlyElsewhere, ShapedOn DEF Shaped
  <2>8. Beyond(t, u, e)
    <3>1. \A c \in Regular(u) : c \in Regular(t) /\ u.ev[c] = t.ev[c]
      BY <2>3, <2>6 DEF Regular
    <3>2. ASSUME e \in ToSet(t.events), NEW c \in ToSet(t.events) \ {e}
          PROVE  c \in ToSet(u.events) /\ u.ev[c] = t.ev[c]
      <4>1. Apart(t, e, c)
        BY <3>2, TwoApart DEF Fit, Lists
      <4>2. ~Alike(v, c, e)
        BY <4>1, <2>3 DEF Apart, Alike
      <4> QED BY <4>2, <2>3, <2>6, <3>2
    <3> QED BY <3>1, <3>2, <2>4, <2>7 DEF Beyond
  <2> QED BY <2>1, <2>5, <2>6, <2>8, SeesOn DEF Passes
<1>2. CASE MayProcess(t, t.ev[e].type)
  <2> DEFINE h == Handled(t, e)
             r == RemoveEvent(h, e)
             u == Delete(r, e)
  <2>1. t.ev[e].type # "Locate" => t.work = {}
    BY <1>2 DEF MayProcess, NonRealtimeWorkPending
  <2>2. Fit(h) /\ Sees(t, h) /\ (t.ev[e].type \in Kept => Passes(t, h, e))
    BY <2>1, HandledSees, HandledHolds DEF Holds
  <2> HIDE DEF h
  <2>3. CASE t.ev[e].type \in Kept
    <3>1. ProcessEvent(t, e) = h
      BY <1>2, <2>3 DEF ProcessEvent, h
    <3> QED BY <3>1, <2>2
  <2>4. CASE t.ev[e].type \notin Kept
    <3>1. ProcessEvent(t, e) = u
      BY <1>2, <2>4 DEF ProcessEvent, h
    <3>2. Shaped(r) /\ Sees(h, r)
      BY <2>2, FitShaped, RemoveSees
    <3> HIDE DEF r
    <3>3. Sees(r, u)
      BY <3>2, DeleteSees
    <3> HIDE DEF u
    <3>4. Sees(t, u)
      BY <2>2, <3>2, <3>3, SeesOn
    <3> QED BY <3>1, <3>4, <2>4
  <2> QED BY <2>3, <2>4
<1> QED BY <1>1, <1>2

(* merge_event.                                                            *)
LEMMA MergeEventSees ==
    ASSUME NeverDry, NEW t, Fit(t), NEW e \in t.live, Asked(t.ev[e]),
           e \notin ToSet(t.events) \cup ToSet(t.immediate) \cup ToSet(t.pending)
    PROVE  Sees(t, MergeEvent(t, e))
<1> DEFINE ev == t.ev[e]
           u == MergeEvent(t, e)
<1>1. e \in Cells /\ Shaped(t) /\ Asked(ev)
  BY FitShaped DEF Fit, Lists, Listed, Typed
<1> HIDE DEF ev
<1>2. CASE ev.action = "Remove"
  <2> DEFINE r == RemoveEvent(t, e)
             v == Delete(r, e)
  <2>1. u = v
    BY <1>2 DEF MergeEvent, ev
  <2>2. Shaped(r) /\ Sees(t, r)
    BY <1>1, RemoveSees
  <2> HIDE DEF r
  <2>3. Sees(r, v)
    BY <2>2, DeleteSees
  <2> HIDE DEF v, u
  <2>4. Sees(t, u)
    BY <2>1, <2>2, <2>3, SeesOn
  <2> QED BY <2>4 DEF u
<1>3. CASE ev.action = "Replace"
  <2> DEFINE v == ReplaceEvent(t, e)
  <2>1. u = v
    BY <1>3 DEF MergeEvent, ev
  <2>2. Sees(t, v)
    BY <1>1, <1>3, ReplaceSees DEF Asked, ev
  <2> HIDE DEF v, u
  <2>3. Sees(t, u)
    BY <2>1, <2>2
  <2> QED BY <2>3 DEF u
<1>4. CASE ev.action = "Clear"
  <2> DEFINE type == ev.type
             c == ClearEventType(t, type)
             v == Delete(c, e)
  <2>1. u = v
    BY <1>4 DEF MergeEvent, ev
  <2> HIDE DEF type
  <2>2. Shaped(c) /\ Sees(t, c)
    BY <1>1, ClearSees
  <2> HIDE DEF c
  <2>3. Sees(c, v)
    BY <2>2, DeleteSees
  <2> HIDE DEF v, u
  <2>4. Sees(t, u)
    BY <2>1, <2>2, <2>3, SeesOn
  <2> QED BY <2>4 DEF u
<1>5. CASE ev.action = "Add" /\ ev.frame = Immediate
  <2>1. u = ProcessEvent(t, e)
    BY <1>5 DEF MergeEvent, ev
  <2>2. ev.type \in Commands => Aside(t, e)
    BY DEF Aside, ev
  <2>3. ev.type \in Kept \cup Commands
    BY <1>1 DEF Asked
  <2> HIDE DEF u
  <2>4. Sees(t, u)
    BY <2>1, <2>2, <2>3, <1>1, ProcessEventSees DEF ev
  <2> QED BY <2>4 DEF u
<1>6. CASE ev.action = "Add" /\ ev.frame # Immediate
  <2> DEFINE v == AddEvent(t, e)
  <2>1. u = v
    BY <1>6 DEF MergeEvent, ev
  <2>2. ev.type \in Kept \ OnceOnly
    BY <1>1, <1>6 DEF Asked
  <2>3. Sees(t, v)
    BY <2>2, <1>1, AddSees DEF ev
  <2> HIDE DEF v, u
  <2>4. Sees(t, u)
    BY <2>1, <2>3
  <2> QED BY <2>4 DEF u
<1> QED BY <1>1, <1>2, <1>3, <1>4, <1>5, <1>6 DEF Asked

-----------------------------------------------------------------------------
(* post_transport finds what is next.                                      *)
LEMMA PostTransportSees ==
    ASSUME NEW t, Fit(t)
    PROVE  LET u == PostTransport(t) IN Finding(u) /\ (Once(t) => Once(u))
<1> DEFINE a == IF "Stop" \in t.work THEN [t EXCEPT !.sub = {}] ELSE t
           b == IF "Locate" \notin t.work THEN a
                ELSE IF "Roll" \in t.work THEN StartTransport(a)
                ELSE [a EXCEPT !.sub = {}]
           c == SetNextEvent(b)
           u == [c EXCEPT !.work = {}]
           started == "Locate" \in t.work /\ "Roll" \in t.work
<1>1. /\ DOMAIN a = DOMAIN t /\ a.frame = t.frame /\ a.speed = t.speed /\ a.rec = t.rec
      /\ a.sub = IF "Stop" \in t.work THEN {} ELSE t.sub
      /\ a.plocate = t.plocate /\ a.count = t.count /\ a.lastRoll = t.lastRoll
      /\ a.punchIn = t.punchIn /\ a.astray = t.astray /\ a.proll = t.proll /\ a.work = t.work
      /\ a.ev = t.ev /\ a.live = t.live /\ a.events = t.events /\ a.immediate = t.immediate
      /\ a.next = t.next /\ a.pending = t.pending
  BY DEF Fit, Scalars, Lists, Listed, Typed, ListFields
<1> HIDE DEF a
<1>9. Lists(a) /\ Scalars(a)
  <2>1. a.frame \in Nat
    BY <1>1, FrameFacts DEF Fit, Scalars
  <2>2. Lists(a)
    BY <2>1, <1>1, SameLists DEF Fit, Good
  <2> QED BY <2>2, <1>1 DEF Fit, Scalars
<1>2. /\ DOMAIN b = DOMAIN a /\ b.frame = a.frame
      /\ b.speed = IF started THEN 1 ELSE a.speed
      /\ b.sub = IF "Locate" \notin t.work THEN a.sub
                 ELSE IF started THEN a.sub \cup {"DeclickIn"} ELSE {}
      /\ b.ev = a.ev /\ b.live = a.live /\ b.events = a.events /\ b.immediate = a.immediate
      /\ b.next = a.next /\ b.pending = a.pending
  <2>1. CASE started
    <3>1. b = StartTransport(a)
      BY <2>1 DEF started
    <3> HIDE DEF b
    <3> QED BY <2>1, <3>1, <1>9, Starting DEF started
  <2>2. CASE ~started
    <3>1. b = IF "Locate" \notin t.work THEN a ELSE [a EXCEPT !.sub = {}]
      BY <2>2 DEF started
    <3> HIDE DEF b
    <3>2. CASE "Locate" \notin t.work
      BY <2>2, <3>1, <3>2 DEF started
    <3>3. CASE "Locate" \in t.work
      BY <2>2, <3>1, <3>3, <1>9 DEF started, Scalars, Lists, Listed, Typed, ListFields
    <3> QED BY <3>2, <3>3
  <2> QED BY <2>1, <2>2
<1> HIDE DEF b
<1>3. Lists(b)
  <2>1. b.frame \in Nat
    BY <1>1, <1>2, FrameFacts DEF Fit, Scalars
  <2> QED BY <2>1, <1>1, <1>2, SameLists DEF Fit, Good
<1>4. Lists(c) /\ Only(b, c, {}) /\ Heads(c) /\ c.ev = b.ev /\ c.events = b.events
  BY <1>3, NextFits, NextKeeps DEF Good, Lists
<1> HIDE DEF c
<1>5. c.speed = b.speed /\ c.sub = b.sub /\ c.frame = b.frame /\ DOMAIN c = DOMAIN b
  BY <1>1, <1>2, <1>4 DEF Only, Fit, Scalars, ListFields
<1>6. /\ u.ev = c.ev /\ u.events = c.events /\ u.next = c.next /\ u.frame = c.frame
      /\ u.speed = c.speed /\ u.sub = c.sub
  BY <1>1, <1>2, <1>5, <1>4 DEF Fit, Scalars, Lists, Listed, Typed, ListFields
<1> HIDE DEF u
<1>7. Finding(u)
  <2>1. Heads(u)
    BY <1>4, <1>6 DEF Heads, HeadsAt
  <2> QED BY <2>1, HeadsFind
<1>8. Once(t) => Once(u)
  <2>1. CASE t.speed = 0
    BY <2>1, <1>1, <1>2, <1>4, <1>5, <1>6 DEF Once
  <2>2. CASE t.speed # 0
    <3>1. "Stop" \notin t.work /\ ("Locate" \in t.work => "Roll" \in t.work)
      BY <2>2 DEF Fit, Posted
    <3>2. u.speed # 0 /\ t.sub \subseteq u.sub
      BY <3>1, <2>2, <1>1, <1>2, <1>5, <1>6 DEF started
    <3> QED BY <3>2, <1>1, <1>2, <1>4, <1>6 DEF Once
  <2> QED BY <2>1, <2>2
<1> QED BY <1>7, <1>8 DEF PostTransport, u, c, b, a

(* To leave the events where they are is transitive.                       *)
LEMMA AlongOn ==
    ASSUME NEW t, NEW u, NEW v, Along(t, u), Along(u, v)
    PROVE  Along(t, v)
BY DEF Along

(* Rolling: a locate that waits has moved the position, so that it is      *)
(* carried out after the part; whatever else comes after it leaves the     *)
(* events where they are.                                                  *)
LEMMA RollSees ==
    ASSUME NeverDry, NEW t, Fit(t), Calm(t), Once(t), NEW n \in Nat \ {0}, NEW limit
    PROVE  LET u == CheckDeclickOut(MaybeStop(Rolled(t, n), limit))
           IN  /\ Once(u) /\ (~Calm(u) \/ Along(Rolled(t, n), u))
               /\ Jumping(t) => ~Calm(u) \/ u.frame = LastFrame
<1> DEFINE v == Rolled(t, n)
           w == MaybeStop(v, limit)
           x == AfterDeclick(w)
           u == CheckDeclickOut(w)
<1>1. /\ DOMAIN v = DOMAIN t /\ v.frame = Least(t.frame + n, LastFrame)
      /\ v.sub = t.sub /\ v.work = t.work /\ v.speed = t.speed
      /\ v.rec = t.rec /\ v.plocate = t.plocate /\ v.count = t.count
      /\ v.lastRoll = t.lastRoll /\ v.punchIn = t.punchIn
      /\ v.astray = t.astray /\ v.proll = t.proll
      /\ v.ev = t.ev /\ v.live = t.live /\ v.events = t.events
      /\ v.immediate = t.immediate /\ v.next = t.next /\ v.pending = t.pending
  BY DEF Rolled, Fit, Scalars, Lists, Listed, Typed, ListFields
<1> HIDE DEF v
<1>2. /\ v.frame \in Frames /\ t.frame \in Nat
      /\ v.frame # LastFrame => v.frame # t.frame
  BY <1>1, LengthAssumption DEF Fit, Scalars, Frames, Least
<1>3. Fit(v) /\ Calm(v) /\ Once(v)
  <2>1. v.frame \in Nat
    BY <1>2, FrameFacts
  <2>2. Good(t, v)
    BY <2>1, <1>1, SameLists DEF Fit
  <2>3. Scalars(v) /\ Fresh(v) /\ Posted(v)
    BY <1>1, <1>2 DEF Fit, Scalars, Fresh, Posted
  <2>4. Once(v)
    BY <1>1 DEF Once
  <2> QED BY <2>2, <2>3, <2>4, <1>1 DEF Fit, Good, Calm
<1>4. w = v \/ w = StopTransport(v)
  BY DEF MaybeStop
<1>5. /\ Fit(w) /\ Once(w) /\ (~Calm(w) \/ Along(v, w))
      /\ ~Calm(w) => "DeclickOut" \notin w.sub
      /\ Jumping(t) => w = v \/ ~Calm(w)
  <2>1. CASE w = v
    BY <2>1, <1>3, SameAlong
  <2>2. CASE w = StopTransport(v)
    <3> HIDE DEF w
    <3>1. Sees(v, w) /\ Ends(v, w)
      BY <2>2, <1>3, StopSees
    <3>2. /\ Fit(w)
          /\ \/ w = v
             \/ "DeclickOut" \in v.sub /\ w.sub \cap {"DeclickOut", "Locate"} = {} /\ ~Calm(w)
             \/ w.work = v.work /\ (AwaitsInput(v) \/ "DeclickOut" \notin v.sub)
      BY <2>2, <1>3, StopHolds DEF Holds
    <3>3. ~Calm(w) => "DeclickOut" \notin w.sub
      BY <3>2, <1>3 DEF Calm
    <3>4. Jumping(t) => w = v \/ ~Calm(w)
      <4>1. Jumping(t) => "DeclickOut" \in v.sub /\ ~AwaitsInput(v)
        BY <1>1 DEF Jumping, Fit, Fresh, AwaitsInput
      <4> QED BY <4>1, <3>2
    <3> QED BY <3>1, <3>2, <3>3, <3>4, <1>3 DEF Sees, Ends
  <2> QED BY <1>4, <2>1, <2>2
<1> HIDE DEF w
<1>6. CASE "DeclickOut" \notin w.sub
  <2>1. u = w
    BY <1>6 DEF CheckDeclickOut
  <2>2. Jumping(t) => ~Calm(w)
    BY <1>1, <1>5, <1>6 DEF Jumping, Fit, Fresh
  <2> HIDE DEF u
  <2> QED BY <2>1, <2>2, <1>5 DEF u, w, v
<1>7. CASE "DeclickOut" \in w.sub
  <2>1. Calm(w) /\ Along(v, w)
    BY <1>5, <1>7
  <2>2. u = [x EXCEPT !.sub = @ \ {"DeclickOut", "Locate"}]
    BY <1>7 DEF CheckDeclickOut
  <2>3. w.plocate \in Frames /\ w.proll \in BOOLEAN
    BY <1>5 DEF Fit, Scalars
  <2>4. /\ Fit(x) /\ Sees(w, x) /\ Ends(w, x)
        /\ "Locate" \in w.sub /\ w.rec # "Recording" /\ w.frame # w.plocate => ~Calm(x)
    <3>1. CASE "Locate" \in w.sub
      <4> DEFINE target == w.plocate
                 roll == w.proll
      <4>1. x = Locate(w, target, roll)
        BY <3>1 DEF AfterDeclick
      <4>2. target \in Frames /\ roll \in BOOLEAN
        BY <2>3
      <4> HIDE DEF x, target, roll
      <4>3. Fit(x)
        BY <4>1, <4>2, <2>1, <1>5, LocateHolds DEF Holds
      <4>4. /\ Sees(w, x) /\ Ends(w, x)
            /\ w.rec # "Recording" /\ w.frame # target => ~Calm(x)
        BY <4>1, <4>2, <2>1, <1>5, <1>7, LocateSees
      <4> QED BY <4>3, <4>4 DEF target
    <3>2. CASE "Locate" \notin w.sub
      <4>1. x = StopTransport(w)
        BY <3>2 DEF AfterDeclick
      <4> HIDE DEF x
      <4> QED BY <4>1, <3>2, <1>5, StopHolds, StopSees DEF Holds
    <3> QED BY <3>1, <3>2
  <2> HIDE DEF x, u
  <2>5. /\ u.frame = x.frame /\ u.sub = x.sub \ {"DeclickOut", "Locate"}
        /\ u.work = x.work /\ u.speed = x.speed /\ u.ev = x.ev /\ u.events = x.events
    BY <2>2, <2>4 DEF Fit, Scalars, Lists, Listed, Typed, ListFields
  <2>6. Once(u)
    BY <2>4, <2>5, <1>5 DEF Sees, Once
  <2>7. ~Calm(u) \/ Along(v, u)
    <3>1. ~Calm(x) \/ Along(v, x)
      BY <2>1, <2>4, <1>5, AlongOn DEF Ends
    <3> QED BY <3>1, <2>5 DEF Calm, Along
  <2>8. Jumping(t) => ~Calm(u) \/ u.frame = LastFrame
    <3> SUFFICES ASSUME Jumping(t), Calm(u) PROVE u.frame = LastFrame
      OBVIOUS
    <3>1. w = v
      BY <2>1, <1>5
    <3>2. Calm(x)
      BY <2>5 DEF Calm
    <3>3. v.frame = LastFrame
      BY <3>1, <3>2, <2>4, <1>1, <1>2 DEF Jumping
    <3> QED BY <3>3, <2>7 DEF Along
  <2> QED BY <2>6, <2>7, <2>8 DEF u, w, v
<1> QED BY <1>6, <1>7

(* A position that has gone astray from the tracks is not found by rolling.*)
LEMMA RollStrays ==
    ASSUME NeverDry, NEW t, Fit(t), Calm(t), t.astray = TRUE, NEW n \in Nat \ {0}, NEW limit
    PROVE  LET u == CheckDeclickOut(MaybeStop(Rolled(t, n), limit))
           IN  Busy(u) \/ u.frame = LastFrame
<1> DEFINE v == Rolled(t, n)
           u == CheckDeclickOut(MaybeStop(v, limit))
<1>1. v.sub = t.sub /\ v.speed = t.speed /\ v.astray = t.astray
  BY DEF Rolled, Fit, Scalars
<1> HIDE DEF v
<1>2. CASE t.speed = 0
  <2>1. MaybeStop(v, limit) = v
    BY <1>1, <1>2 DEF MaybeStop
  <2>2. "DeclickOut" \notin v.sub
    BY <1>1, <1>2 DEF Fit, Fresh
  <2>3. u = v
    BY <2>1, <2>2 DEF CheckDeclickOut
  <2> QED BY <2>3, <1>1 DEF Busy, v
<1>3. CASE t.speed # 0
  <2>1. Fit(u) /\ \A d \in Nat : Placed(t, d) => Placed(u, d + n)
    BY RollHolds DEF v
  <2> HIDE DEF u
  <2>2. u.frame \in Nat
    BY <2>1, FrameFacts DEF Fit, Scalars
  <2>3. Placed(u, (u.frame + 1) + n)
    <3>1. Placed(t, u.frame + 1)
      BY <1>3 DEF Placed, Firm
    <3> QED BY <3>1, <2>1, <2>2
  <2>4. (u.frame + 1) + n # u.frame
    BY <2>2
  <2>5. Busy(u) \/ u.frame = LastFrame
    BY <2>3, <2>4 DEF Placed, Firm, Busy, Jumping
  <2> QED BY <2>5 DEF u, v
<1> QED BY <1>2, <1>3

-----------------------------------------------------------------------------
(* Within a cycle the event at hand is the first that is not behind the    *)
(* transport, and the iterator is at the one after it, whenever anything   *)
(* is ahead.                                                               *)
Walks(t, a, b) ==
    \A e \in Regular(t) : t.ev[e].frame > t.frame =>
      /\ a \in ToSet(t.events) /\ t.ev[a].frame \in t.frame .. t.ev[e].frame
      /\ t.ev[e].frame > t.ev[a].frame =>
           b \in ToSet(t.events) /\ b # a /\ t.ev[b].frame \in t.ev[a].frame .. t.ev[e].frame
InPart == pc \in {"roll", "events"}
Looking == ~InPart => Finding(s)
Walking == InPart /\ ~Busy(s) => Walks(s, this, the_next_one)
Ahead == Looking /\ Once(s) /\ Walking
PInv == IInv /\ Ahead

(* Nothing has been put into the lists.                                    *)
LEMMA InitAhead == Init => Ahead
<1> SUFFICES ASSUME Init PROVE Ahead
  OBVIOUS
<1>1. s.events = <<>> /\ pc = "idle"
  BY DEF Init
<1>2. ToSet(s.events) = {}
  BY <1>1 DEF ToSet
<1>3. Regular(s) = {}
  BY <1>2 DEF Regular
<1> QED BY <1>1, <1>2, <1>3 DEF Ahead, Looking, Walking, InPart, Finding, ClearTo, Once

(* A session sees itself.                                                  *)
LEMMA SeesItself ==
    ASSUME NEW t
    PROVE  Sees(t, t) /\ Along(t, t)
BY DEF Sees, Along

(* What is regular there was here.                                         *)
LEMMA AlongRegular ==
    ASSUME NEW t, NEW u, Along(t, u)
    PROVE  \A e \in Regular(u) : e \in Regular(t) /\ u.ev[e] = t.ev[e]
BY DEF Along, Regular

(* The iterators stay right where the events stay.                         *)
LEMMA AlongWalks ==
    ASSUME NEW t, NEW u, Along(t, u), NEW a, NEW b, Walks(t, a, b)
    PROVE  Walks(u, a, b)
<1>1. \A e \in Regular(u) : e \in Regular(t) /\ u.ev[e] = t.ev[e]
  BY AlongRegular
<1>2. /\ u.frame = t.frame /\ ToSet(t.events) \subseteq ToSet(u.events)
      /\ \A c \in ToSet(t.events) : u.ev[c] = t.ev[c]
  BY DEF Along
<1> QED BY <1>1, <1>2 DEF Walks

(* Steps outside the parts of a cycle.                                     *)
LEMMA SeenStep ==
    ASSUME Ahead, Sees(s, s'), ~InPart, ~InPart'
    PROVE  Ahead'
<1>1. Finding(s') /\ Once(s')
  BY DEF Ahead, Looking, Sees
<1>2. Finding(s)' /\ Once(s)'
  BY <1>1 DEF Finding, ClearTo, Regular, Busy, Jumping, Calm, Once
<1> QED BY <1>2 DEF Ahead, Looking, Walking

(* Steps of the butler and the user, within a cycle or not.                *)
LEMMA AsideStep ==
    ASSUME Ahead, Sees(s, s'), Busy(s') \/ Along(s, s'), UNCHANGED cycle
    PROVE  Ahead'
<1>1. /\ InPart' = InPart /\ this' = this /\ the_next_one' = the_next_one
  BY DEF cycle, InPart
<1>2. Once(s)'
  <2>1. Once(s')
    BY DEF Ahead, Sees
  <2> QED BY <2>1 DEF Once
<1>3. Looking'
  <2>1. ~InPart => Finding(s')
    BY DEF Ahead, Looking, Sees
  <2> QED BY <2>1, <1>1 DEF Looking, Finding, ClearTo, Regular, Busy, Jumping, Calm
<1>4. Walking'
  <2>1. ASSUME InPart, ~Busy(s') PROVE Walks(s', this, the_next_one)
    <3>1. ~Busy(s) /\ Along(s, s')
      BY <2>1 DEF Sees
    <3>2. Walks(s, this, the_next_one)
      BY <2>1, <3>1 DEF Ahead, Walking
    <3> QED BY <3>1, <3>2, AlongWalks
  <2> QED BY <2>1, <1>1 DEF Walking, Walks, Regular, Busy, Jumping, Calm
<1> QED BY <1>2, <1>3, <1>4 DEF Ahead

-----------------------------------------------------------------------------
(* The process thread, outside the parts.                                  *)
LEMMA ProcessAhead ==
    ASSUME PInv, Process
    PROVE  Ahead'
<1>1. (s' = PostTransport(s) \/ s' = s) /\ ~InPart /\ ~InPart'
  BY DEF Process, Goto, InPart
<1>2. LET u == PostTransport(s) IN Finding(u) /\ (Once(s) => Once(u))
  BY PostTransportSees DEF PInv, IInv
<1>3. Sees(s, s) /\ Finding(s)
  BY <1>1, SeesItself DEF PInv, Ahead, Looking
<1>4. Finding(s') /\ Once(s')
  BY <1>1, <1>2, <1>3 DEF PInv, Ahead
<1>5. Finding(s)' /\ Once(s)'
  BY <1>4 DEF Finding, ClearTo, Regular, Busy, Jumping, Calm, Once
<1> QED BY <1>1, <1>5 DEF Ahead, Looking, Walking

(* An event taken from where it waits.                                     *)
LEMMA TakenSees ==
    ASSUME NEW t, Fit(t), NEW u, Lists(u), Only(t, u, Elsewhere),
           u.events = t.events, u.next = t.next, u.ev = t.ev
    PROVE  Sees(t, u)
<1>1. /\ u.frame = t.frame /\ u.speed = t.speed /\ u.rec = t.rec
      /\ u.sub = t.sub /\ u.plocate = t.plocate /\ u.astray = t.astray /\ u.work = t.work
  BY FitShaped, ShapedOn
<1> QED BY <1>1, SameSees DEF Fit

(* An event is merged.                                                     *)
LEMMA MergeAhead ==
    ASSUME NeverDry, PInv, Merge
    PROVE  Ahead'
<1> DEFINE t == [s EXCEPT !.pending = Tail(@)]
           e == Head(s.pending)
<1>1. /\ Keeps(s, t) /\ e \in t.live /\ Asked(t.ev[e])
      /\ e \notin ToSet(t.events) \cup ToSet(t.immediate) \cup ToSet(t.pending)
  BY NextPending DEF PInv, IInv, Merge
<1>2. s' = MergeEvent(t, e) /\ ~InPart /\ ~InPart'
  BY DEF Merge, cycle, InPart
<1>3. Only(s, t, Elsewhere) /\ t.events = s.events /\ t.next = s.next /\ t.ev = s.ev
  BY DEF PInv, IInv, Fit, Only, Lists, Listed, Typed, ListFields
<1> HIDE DEF t, e
<1>4. Sees(s, t)
  BY <1>1, <1>3, TakenSees DEF PInv, IInv, Keeps, Fit
<1>5. Sees(t, s')
  BY <1>1, <1>2, MergeEventSees DEF Keeps
<1>6. Sees(s, s')
  BY <1>4, <1>5, SeesOn
<1> QED BY <1>2, <1>6, SeenStep DEF PInv

(* An immediate event is processed.                                        *)
LEMMA ImmediateAhead ==
    ASSUME NeverDry, PInv, ProcessImmediate
    PROVE  Ahead'
<1> DEFINE t == [s EXCEPT !.immediate = Tail(@)]
           e == Head(s.immediate)
<1>1. /\ Keeps(s, t) /\ e \in Cells /\ t.ev[e].type \in Kept \cup Commands
      /\ e \notin ToSet(t.pending)
      /\ t.ev[e].type \in Commands => Aside(t, e)
  BY NextImmediate DEF PInv, IInv, ProcessImmediate, MayProcessImmediate
<1>2. s' = ProcessEvent(t, e) /\ ~InPart /\ ~InPart'
  BY DEF ProcessImmediate, cycle, InPart
<1>3. Only(s, t, Elsewhere) /\ t.events = s.events /\ t.next = s.next /\ t.ev = s.ev
  BY DEF PInv, IInv, Fit, Only, Lists, Listed, Typed, ListFields
<1> HIDE DEF t, e
<1>4. Sees(s, t)
  BY <1>1, <1>3, TakenSees DEF PInv, IInv, Keeps, Fit
<1>5. Sees(t, s')
  BY <1>1, <1>2, ProcessEventSees DEF Keeps
<1>6. Sees(s, s')
  BY <1>4, <1>5, SeesOn
<1> QED BY <1>2, <1>6, SeenStep DEF PInv

(* A cycle that does not roll, or that is stopped at the end.              *)
LEMMA DoNotRollAhead ==
    ASSUME NeverDry, PInv, DoNotRoll
    PROVE  Ahead'
<1>1. (s' = s \/ s' = StopTransport(s)) /\ ~InPart /\ ~InPart'
  BY DEF DoNotRoll, Goto, InPart
<1>2. Sees(s, StopTransport(s)) /\ Sees(s, s)
  BY StopSees, SeesItself DEF PInv, IInv
<1>3. Sees(s, s')
  BY <1>1, <1>2
<1> QED BY <1>1, <1>3, SeenStep DEF PInv

-----------------------------------------------------------------------------
(* Rolling. No event that is ahead is beyond the last frame.               *)
LEMMA AheadFrames ==
    ASSUME NEW t, Fit(t), NEW e \in Regular(t)
    PROVE  e \in Cells /\ t.ev[e].frame \in Nat /\ t.ev[e].frame <= LastFrame
<1>1. e \in Cells /\ t.ev[e].type # "StopOnce"
  BY ToSetFinite DEF Fit, Lists, Listed, Typed, Regular
<1>2. t.ev[e].frame \in Frames
  BY <1>1 DEF Fit, Lists, Waiting, Proper
<1> QED BY <1>1, <1>2, LengthAssumption DEF Frames

(* What process_routes and the handlers after it leave ahead was ahead.    *)
LEMMA RolledAhead ==
    ASSUME NeverDry, PInv, Calm(s), NEW n \in Nat \ {0}, NEW limit, Roll(n, limit)
    PROVE  /\ Once(s') /\ disk' = disk + n
           /\ ~Busy(s') =>
                /\ s'.frame = Least(s.frame + n, LastFrame)
                /\ ToSet(s.events) \subseteq ToSet(s'.events)
                /\ \A c \in ToSet(s.events) : s'.ev[c] = s.ev[c]
                /\ \A e \in Regular(s') : s'.ev[e].frame > s'.frame =>
                     /\ ~Busy(s) /\ e \in Regular(s) /\ s'.ev[e] = s.ev[e]
                     /\ s.ev[e].frame > s.frame
<1> DEFINE v == Rolled(s, n)
<1>1. disk' = disk + n /\ s' = CheckDeclickOut(MaybeStop(v, limit))
  BY DEF Roll, Rolled
<1>2. v.frame = Least(s.frame + n, LastFrame) /\ v.ev = s.ev /\ v.events = s.events
  BY DEF Rolled, PInv, IInv, Fit, Scalars, Lists, Listed, Typed, ListFields
<1>3. /\ Once(s') /\ (~Calm(s') \/ Along(v, s'))
      /\ Jumping(s) => ~Calm(s') \/ s'.frame = LastFrame
  BY <1>1, RollSees DEF PInv, IInv, Ahead
<1>8. s.astray = TRUE => Busy(s') \/ s'.frame = LastFrame
  BY <1>1, RollStrays DEF PInv, IInv
<1> HIDE DEF v
<1>4. SUFFICES ASSUME ~Busy(s')
               PROVE  /\ s'.frame = Least(s.frame + n, LastFrame)
                      /\ ToSet(s.events) \subseteq ToSet(s'.events)
                      /\ \A c \in ToSet(s.events) : s'.ev[c] = s.ev[c]
                      /\ \A e \in Regular(s') : s'.ev[e].frame > s'.frame =>
                           /\ ~Busy(s) /\ e \in Regular(s) /\ s'.ev[e] = s.ev[e]
                           /\ s.ev[e].frame > s.frame
  BY <1>1, <1>3
<1>5. Calm(s') /\ Along(v, s')
  BY <1>3, <1>4 DEF Busy
<1>6. /\ s'.frame = Least(s.frame + n, LastFrame)
      /\ ToSet(s.events) \subseteq ToSet(s'.events)
      /\ \A c \in ToSet(s.events) : s'.ev[c] = s.ev[c]
  BY <1>2, <1>5 DEF Along
<1>7. ASSUME NEW e \in Regular(s'), s'.ev[e].frame > s'.frame
      PROVE  /\ ~Busy(s) /\ e \in Regular(s) /\ s'.ev[e] = s.ev[e]
             /\ s.ev[e].frame > s.frame
  <2>1. e \in Regular(v) /\ s'.ev[e] = v.ev[e]
    BY <1>5, AlongRegular
  <2>2. e \in Regular(s) /\ s'.ev[e] = s.ev[e]
    BY <2>1, <1>2 DEF Regular
  <2>3. s.ev[e].frame \in Nat /\ s.ev[e].frame <= LastFrame
    BY <2>2, AheadFrames DEF PInv, IInv
  <2>4. s.frame \in Nat /\ s.frame <= LastFrame /\ LastFrame \in Nat
    BY LengthAssumption DEF PInv, IInv, Fit, Scalars, Frames
  <2>5. s'.frame # LastFrame /\ s.ev[e].frame > s.frame
    BY <2>2, <2>3, <2>4, <1>6, <1>7 DEF Least
  <2>6. ~Jumping(s)
    BY <2>5, <1>3, <1>5
  <2>7. ~(s.astray = TRUE)
    BY <2>5, <1>4, <1>8
  <2> QED BY <2>2, <2>5, <2>6, <2>7 DEF Busy
<1> QED BY <1>6, <1>7

(* A cycle without events finds none ahead.                                *)
LEMMA WithoutEventsAhead ==
    ASSUME NeverDry, PInv, WithoutEvents
    PROVE  Ahead'
<1>1. Calm(s) /\ Roll(Block, Limit) /\ s.next = End /\ ~InPart /\ ~InPart'
  BY RollsCalmly DEF WithoutEvents, Goto, InPart
<1>2. /\ Once(s')
      /\ ~Busy(s') => \A e \in Regular(s') : s'.ev[e].frame > s'.frame =>
           ~Busy(s) /\ e \in Regular(s) /\ s.ev[e].frame > s.frame
  BY <1>1, RolledAhead, FrameFacts
<1>3. ~Busy(s) => \A e \in Regular(s) : ~(s.ev[e].frame > s.frame)
  BY <1>1 DEF PInv, Ahead, Looking, Finding, ClearTo
<1>4. Finding(s')
  BY <1>2, <1>3 DEF Finding, ClearTo
<1>5. Finding(s)' /\ Once(s)'
  BY <1>2, <1>4 DEF Finding, ClearTo, Regular, Busy, Jumping, Calm, Once
<1> QED BY <1>1, <1>5 DEF Ahead, Looking, Walking

(* The iterators are set at the next event and the one after.              *)
LEMMA WithEventsAhead ==
    ASSUME PInv, WithEvents
    PROVE  Ahead'
<1>1. /\ s' = s /\ InPart' /\ ~InPart
      /\ this' = s.next /\ the_next_one' = After(s.events, s.next)
  BY DEF WithEvents, Goto, InPart
<1> DEFINE a == s.next
           b == After(s.events, s.next)
<1>2. ASSUME ~Busy(s) PROVE Walks(s, a, b)
  <2> SUFFICES ASSUME NEW e \in Regular(s), s.ev[e].frame > s.frame
               PROVE  /\ a \in ToSet(s.events) /\ s.ev[a].frame \in s.frame .. s.ev[e].frame
                      /\ s.ev[e].frame > s.ev[a].frame =>
                           /\ b \in ToSet(s.events) /\ b # a
                           /\ s.ev[b].frame \in s.ev[a].frame .. s.ev[e].frame
    BY DEF Walks
  <2>1. a # End /\ s.ev[a].frame \in s.frame .. s.ev[e].frame
    BY <1>1, <1>2 DEF PInv, Ahead, Looking, Finding, ClearTo
  <2>2. Listed(s) /\ s.events \in Seq(Cells)
    BY DEF PInv, IInv, Fit, Lists, Listed, Typed
  <2>3. a \in ToSet(s.events) /\ e \in ToSet(s.events)
    BY <2>1, <2>2 DEF Listed, Regular
  <2>4. \A i, j \in DOMAIN s.events : i < j => s.events[i] # s.events[j]
    BY <2>2 DEF Listed, Ordered, Apart
  <2>5. b \in ToSet(s.events) \cup {End} /\ b # a
    BY <2>1, <2>2, <2>4, AfterLeads
  <2>6. s.ev[e].frame > s.ev[a].frame =>
          b # End /\ s.ev[b].frame \in s.ev[a].frame .. s.ev[e].frame
    BY <2>2, <2>3, AfterIsNext
  <2> QED BY <2>1, <2>3, <2>5, <2>6
<1>3. Once(s)'
  BY <1>1 DEF PInv, Ahead, Once
<1>4. Walking'
  BY <1>1, <1>2 DEF Walking, Walks, Regular, Busy, Jumping, Calm
<1> QED BY <1>1, <1>3, <1>4 DEF Ahead, Looking

(* A part ends at or before the event at hand.                             *)
LEMMA PartLength ==
    ASSUME PInv, pc = "roll", this \in ToSet(s.events), s.ev[this].frame >= s.frame
    PROVE  /\ s.ev[this].frame \in Nat /\ s.frame \in Nat
           /\ s.frame + ThisPart <= s.ev[this].frame
<1>1. /\ end_frame = s.frame + left /\ s.frame \in Nat /\ left \in Nat
  <2>1. end_frame = s.frame + left /\ left \in 0 .. Block /\ s.frame \in Frames
    BY DEF PInv, IInv, Cycling, Fit, Scalars
  <2>2. Block \in Nat /\ Frames \subseteq Nat
    BY FrameFacts
  <2>3. s.frame \in Nat
    BY <2>1, <2>2
  <2>4. left \in Nat
    BY <2>1, <2>2
  <2> QED BY <2>1, <2>3, <2>4
<1>2. this \in Cells /\ this # End
  BY ToSetFinite, CellAssumption DEF PInv, IInv, Fit, Lists, Listed, Typed
<1>3. s.ev[this].frame \in Nat
  BY <1>2 DEF PInv, IInv, Fit, Lists, Listed, Typed
<1> DEFINE f == s.ev[this].frame
<1>4. ThisPart = IF f <= end_frame THEN f - s.frame ELSE left
  BY <1>2 DEF ThisPart, Due
<1>5. f \in Nat /\ f >= s.frame
  BY <1>3
<1> HIDE DEF f
<1>6. s.frame + ThisPart <= f
  BY <1>1, <1>4, <1>5
<1> QED BY <1>1, <1>3, <1>6 DEF f

(* A part that is rolled leads no further than the event at hand.          *)
LEMMA RollPartAhead ==
    ASSUME NeverDry, PInv, RollPart
    PROVE  Ahead'
<1>1. /\ Calm(s) /\ pc = "roll" /\ InPart /\ InPart'
      /\ this' = this /\ the_next_one' = the_next_one
  BY DEF PInv, IInv, Cycling, RollPart, Goto, InPart
<1>2. CASE ThisPart > 0
  <2>1. Roll(ThisPart, stop_limit)
    BY <1>2 DEF RollPart
  <2>2. ThisPart \in Nat \ {0}
    <3>1. ThisPart \in Int
      <4>1. CASE Due
        <5>1. this \in Cells /\ s.frame \in Nat
          BY <4>1, FrameFacts DEF Due, PInv, IInv, Fit, Lists, Waiting, Held, Scalars
        <5>2. s.ev[this].frame \in Nat
          BY <5>1 DEF PInv, IInv, Fit, Lists, Listed, Typed
        <5> QED BY <4>1, <5>1, <5>2 DEF ThisPart
      <4>2. CASE ~Due
        BY <4>2, FrameFacts DEF ThisPart, PInv, IInv, Cycling
      <4> QED BY <4>1, <4>2
    <3> QED BY <3>1, <1>2
  <2>3. /\ Once(s')
        /\ ~Busy(s') =>
             /\ s'.frame = Least(s.frame + ThisPart, LastFrame)
             /\ ToSet(s.events) \subseteq ToSet(s'.events)
             /\ \A c \in ToSet(s.events) : s'.ev[c] = s.ev[c]
             /\ \A e \in Regular(s') : s'.ev[e].frame > s'.frame =>
                  /\ ~Busy(s) /\ e \in Regular(s) /\ s'.ev[e] = s.ev[e]
                  /\ s.ev[e].frame > s.frame
    BY <2>1, <2>2, <1>1, RolledAhead
  <2>4. ASSUME ~Busy(s') PROVE Walks(s', this, the_next_one)
    <3> SUFFICES ASSUME NEW e \in Regular(s'), s'.ev[e].frame > s'.frame
                 PROVE  /\ this \in ToSet(s'.events)
                        /\ s'.ev[this].frame \in s'.frame .. s'.ev[e].frame
                        /\ s'.ev[e].frame > s'.ev[this].frame =>
                             /\ the_next_one \in ToSet(s'.events) /\ the_next_one # this
                             /\ s'.ev[the_next_one].frame \in s'.ev[this].frame .. s'.ev[e].frame
      BY DEF Walks
    <3>1. /\ ~Busy(s) /\ e \in Regular(s) /\ s'.ev[e] = s.ev[e] /\ s.ev[e].frame > s.frame
      BY <2>3, <2>4
    <3>2. /\ this \in ToSet(s.events) /\ s.ev[this].frame \in s.frame .. s.ev[e].frame
          /\ s.ev[e].frame > s.ev[this].frame =>
               /\ the_next_one \in ToSet(s.events) /\ the_next_one # this
               /\ s.ev[the_next_one].frame \in s.ev[this].frame .. s.ev[e].frame
      BY <3>1, <1>1 DEF PInv, Ahead, Walking, Walks
    <3>3. /\ s.ev[this].frame \in Nat /\ s.frame \in Nat
          /\ s.frame + ThisPart <= s.ev[this].frame
      BY <3>2, <1>1, PartLength
    <3>4. s'.frame \in Nat /\ s'.frame <= s.frame + ThisPart
      BY <3>3, <2>2, <2>3, <2>4, LengthAssumption DEF Least
    <3>5. s'.frame <= s.ev[this].frame
      BY <3>3, <3>4, <2>2
    <3>6. s'.ev[this] = s.ev[this] /\ this \in ToSet(s'.events)
      BY <3>2, <2>3, <2>4
    <3>7. the_next_one \in ToSet(s.events) =>
            s'.ev[the_next_one] = s.ev[the_next_one] /\ the_next_one \in ToSet(s'.events)
      BY <2>3, <2>4
    <3>8. s.ev[e].frame \in Nat
      BY <3>1, AheadFrames DEF PInv, IInv
    <3>9. s'.ev[this].frame \in s'.frame .. s'.ev[e].frame
      BY <3>1, <3>2, <3>3, <3>4, <3>5, <3>6, <3>8
    <3>10. s'.ev[e].frame > s'.ev[this].frame =>
             /\ the_next_one \in ToSet(s'.events) /\ the_next_one # this
             /\ s'.ev[the_next_one].frame \in s'.ev[this].frame .. s'.ev[e].frame
      BY <3>1, <3>2, <3>6, <3>7
    <3> QED BY <3>6, <3>9, <3>10
  <2>5. Once(s)' /\ Walking'
    BY <2>3, <2>4, <1>1 DEF Once, Walking, Walks, Regular, Busy, Jumping, Calm
  <2> QED BY <2>5, <1>1 DEF Ahead, Looking
<1>3. CASE ~(ThisPart > 0)
  <2>1. s' = s
    BY <1>3 DEF RollPart
  <2>2. Walking'
    BY <2>1, <1>1 DEF PInv, Ahead, Walking, Walks, Regular, Busy, Jumping, Calm
  <2>3. Once(s)'
    BY <2>1 DEF PInv, Ahead, Once
  <2> QED BY <2>2, <2>3, <1>1 DEF Ahead, Looking
<1> QED BY <1>2, <1>3

-----------------------------------------------------------------------------
(* The event at hand is processed, and the one after it is at hand.        *)
LEMMA ProcessHereAhead ==
    ASSUME NeverDry, PInv, ProcessHere
    PROVE  Ahead'
<1>1. /\ s' = ProcessEvent(s, this) /\ this # End /\ s.ev[this].frame = s.frame
      /\ pc' = pc /\ pc = "events" /\ this' = the_next_one
      /\ the_next_one' \in IF the_next_one = End THEN {End} ELSE AfterErased(s', the_next_one)
  BY DEF ProcessHere, EventHere
<1>2. this \in Held
  BY DEF Held
<1>3. this \in Cells /\ s.ev[this].type \in Kept /\ this \notin ToSet(s.pending)
  BY <1>1, <1>2 DEF PInv, IInv, Fit, Lists, Waiting, PendingWaits, ToSet
<1>4. Fit(s') /\ Sees(s, s') /\ Passes(s, s', this)
  BY <1>1, <1>3, ProcessEventKeeps, ProcessEventSees, Kinds DEF PInv, IInv, Keeps
<1>5. InPart /\ InPart'
  BY <1>1 DEF InPart
<1>6. Once(s) /\ Once(s')
  BY <1>4 DEF PInv, Ahead, Sees
<1> DEFINE b == the_next_one
           x == After(s'.events, b)
<1>7. ASSUME ~Busy(s') PROVE Walks(s', b, the_next_one')
  <2>1. ~Busy(s) /\ Beyond(s, s', this)
    BY <1>4, <1>6, <1>7 DEF Sees, Passes
  <2> SUFFICES ASSUME NEW e \in Regular(s'), s'.ev[e].frame > s'.frame
               PROVE  /\ b \in ToSet(s'.events)
                      /\ s'.ev[b].frame \in s'.frame .. s'.ev[e].frame
                      /\ s'.ev[e].frame > s'.ev[b].frame =>
                           /\ the_next_one' \in ToSet(s'.events) /\ the_next_one' # b
                           /\ s'.ev[the_next_one'].frame \in s'.ev[b].frame .. s'.ev[e].frame
    BY DEF Walks
  <2>2. e \in Regular(s) /\ s'.ev[e] = s.ev[e] /\ s'.frame = s.frame
    BY <2>1 DEF Beyond
  <2>3. /\ this \in ToSet(s.events) /\ b \in ToSet(s.events) /\ b # this
        /\ s.ev[b].frame \in s.frame .. s.ev[e].frame
    BY <2>1, <2>2, <1>1, <1>5 DEF PInv, Ahead, Walking, Walks
  <2>4. b \in ToSet(s'.events) /\ s'.ev[b] = s.ev[b]
    BY <2>1, <2>3 DEF Beyond
  <2>5. Listed(s') /\ s'.events \in Seq(Cells)
    BY <1>4 DEF Fit, Lists, Listed, Typed
  <2>6. b # End
    BY <2>4, <2>5, ToSetFinite, CellAssumption
  <2>7. the_next_one' = x
    <3>1. Contains(s'.events, b)
      BY <2>4 DEF Contains, ToSet
    <3> QED BY <3>1, <2>6, <1>1 DEF AfterErased
  <2>8. x \in ToSet(s'.events) \cup {End} /\ x # b
    <3>1. \A i, j \in DOMAIN s'.events : i < j => s'.events[i] # s'.events[j]
      BY <2>5 DEF Listed, Ordered, Apart
    <3> QED BY <3>1, <2>5, <2>6, AfterLeads
  <2>9. s'.ev[e].frame > s'.ev[b].frame =>
          x # End /\ s'.ev[x].frame \in s'.ev[b].frame .. s'.ev[e].frame
    <3>1. e \in ToSet(s'.events)
      BY DEF Regular
    <3> QED BY <3>1, <2>4, <2>5, AfterIsNext
  <2> QED BY <2>2, <2>3, <2>4, <2>7, <2>8, <2>9
<1>8. Once(s)' /\ Walking'
  BY <1>1, <1>6, <1>7 DEF Once, Walking, Walks, Regular, Busy, Jumping, Calm
<1> QED BY <1>5, <1>8 DEF Ahead, Looking

(* The next part begins with the same iterators.                           *)
LEMMA PartDoneAhead ==
    ASSUME PInv, PartDone
    PROVE  Ahead'
<1>1. /\ s' = s /\ InPart /\ InPart' /\ this' = this /\ the_next_one' = the_next_one
  BY DEF PartDone, Goto, InPart
<1>2. Once(s)'
  BY <1>1 DEF PInv, Ahead, Once
<1>3. Walking'
  BY <1>1 DEF PInv, Ahead, Walking, Walks, Regular, Busy, Jumping, Calm
<1> QED BY <1>1, <1>2, <1>3 DEF Ahead, Looking

(* The cycle ends with next_event set anew.                                *)
LEMMA CycleDoneAhead ==
    ASSUME PInv, CycleDone
    PROVE  Ahead'
<1>1. s' = SetNextEvent(s) /\ ~InPart'
  BY DEF CycleDone, Goto, InPart
<1>2. Lists(s') /\ Only(s, s', {})
  BY <1>1, NextFits DEF PInv, IInv, Fit, Good
<1>3. Heads(s') /\ s'.ev = s.ev /\ s'.events = s.events
  BY <1>1, NextKeeps DEF PInv, IInv, Fit, Lists
<1>4. s'.speed = s.speed /\ s'.sub = s.sub
  BY <1>2, FitShaped, OnlyElsewhere, ShapedOn DEF PInv, IInv
<1>5. Finding(s') /\ Once(s')
  BY <1>3, <1>4, HeadsFind DEF PInv, Ahead, Once
<1>6. Finding(s)' /\ Once(s)'
  BY <1>5 DEF Finding, ClearTo, Regular, Busy, Jumping, Calm, Once
<1> QED BY <1>1, <1>6 DEF Ahead, Looking, Walking

-----------------------------------------------------------------------------
(* The butler's passes, which leave the events and the position alone ...  *)
LEMMA CountedAhead ==
    ASSUME PInv, WorkDone
    PROVE  Ahead'
<1> DEFINE t == CountedDown(s)
<1>1. s' = t /\ UNCHANGED cycle
  BY DEF WorkDone, CountedDown
<1>2. /\ t.events = s.events /\ t.next = s.next /\ t.ev = s.ev /\ t.frame = s.frame
      /\ t.work = s.work /\ t.speed = s.speed /\ t.sub = s.sub /\ t.plocate = s.plocate
      /\ t.rec = s.rec /\ t.astray = s.astray
  BY DEF CountedDown, PInv, IInv, Fit, Scalars, Lists, Listed, Typed, ListFields
<1> HIDE DEF t
<1>3. Sees(s, t) /\ Along(s, t)
  BY <1>2, SameSees, SameAlong DEF PInv, IInv, Fit
<1> QED BY <1>1, <1>3, AsideStep DEF PInv

(* ... but for the seeks, each that of a locate or stop at work ...        *)
LEMMA SoughtAhead ==
    ASSUME PInv, NonRealtimeLocate \/ Seek
    PROVE  Ahead'
<1>1. /\ s'.work = s.work /\ s'.speed = s.speed /\ s'.sub = s.sub
      /\ s'.ev = s.ev /\ s'.events = s.events
  <2>1. CASE NonRealtimeLocate
    <3>1. s' = [s EXCEPT !.astray = FALSE]
      BY <2>1 DEF NonRealtimeLocate
    <3> QED BY <3>1, Sought DEF PInv, IInv
  <2>2. CASE Seek
    <3>1. s' = SoughtDown(s) /\ bpc # "idle"
      BY <2>2 DEF Seek, ButlerGoto, SoughtDown
    <3> QED BY <3>1, SeekingDown DEF PInv, IInv
  <2> QED BY <2>1, <2>2
<1>2. bpc \in {"locate", "seek"} /\ UNCHANGED cycle
  BY DEF NonRealtimeLocate, Seek, ButlerGoto
<1>3. ~Calm(s')
  BY <1>1, <1>2 DEF PInv, IInv, Fit, Owed, Posted, Calm
<1>4. Once(s) => Once(s')
  BY <1>1 DEF Once
<1>5. Sees(s, s') /\ Busy(s')
  BY <1>3, <1>4, BusySees
<1> QED BY <1>2, <1>5, AsideStep DEF PInv

(* A stop returns to a frame of the session.                               *)
LEMMA ReturnsToFrame ==
    ASSUME Scalars(s)
    PROVE  ReturnFrame(s) \in Frames
<1>1. LoopStart \in Frames /\ s.lastRoll \in Frames
  BY FrameFacts DEF Scalars
<1>2. Ranges[1][1] \in Frames
  <2>1. Len(Ranges) \in Nat /\ Len(Ranges) # 0 /\ Ranges \in Seq(Frames \X Frames)
    BY RangeAssumption, EmptySeq, LenProperties
  <2>2. Ranges[1] \in Frames \X Frames
    BY <2>1, ElementOfSeq
  <2> QED BY <2>2
<1> QED BY <1>1, <1>2 DEF ReturnFrame

(* ... and for the return of a stop, which is at work.                     *)
LEMMA ReturnAhead ==
    ASSUME NeverDry, PInv, Return
    PROVE  Ahead'
<1> DEFINE t == Returned(s)
           u == [t EXCEPT !.range = FALSE]
           v == UnsetPlayLoop(u)
<1>1. s' \in {t, v} /\ UNCHANGED cycle /\ bpc = "return"
  BY DEF Return, ButlerGoto
<1>2. ReturnFrame(s) \in Frames
  BY ReturnsToFrame DEF PInv, IInv, Fit
<1>3. /\ DOMAIN t = DOMAIN s /\ t.frame \in Frames
      /\ t.sub = s.sub /\ t.work = s.work /\ t.speed = s.speed
      /\ t.rec = s.rec /\ t.plocate = s.plocate /\ t.count = s.count
      /\ t.lastRoll = s.lastRoll /\ t.punchIn = s.punchIn
      /\ t.astray = s.astray /\ t.proll = s.proll
      /\ t.ev = s.ev /\ t.live = s.live /\ t.events = s.events
      /\ t.immediate = s.immediate /\ t.next = s.next /\ t.pending = s.pending
  BY <1>2 DEF Returned, PInv, IInv, Fit, Scalars, Lists, Listed, Typed, ListFields
<1> HIDE DEF t
<1>4. Fit(t)
  <2>1. t.frame \in Nat
    BY <1>3, FrameFacts
  <2>2. Good(s, t)
    BY <2>1, <1>3, SameLists DEF PInv, IInv, Fit
  <2>3. Scalars(t) /\ Fresh(t) /\ Posted(t)
    BY <1>3 DEF PInv, IInv, Fit, Scalars, Fresh, Posted
  <2> QED BY <2>2, <2>3 DEF PInv, IInv, Fit, Good
<1>5. ~Calm(t)
  BY <1>1, <1>3 DEF PInv, IInv, Fit, Owed, Posted, Calm
<1>6. Sees(s, t) /\ Busy(t)
  <2>1. Once(s) => Once(t)
    BY <1>3 DEF Once
  <2> QED BY <2>1, <1>5, BusySees
<1>7. /\ Only(t, u, Elsewhere)
      /\ u.ev = t.ev /\ u.live = t.live /\ u.events = t.events /\ u.immediate = t.immediate
      /\ u.next = t.next /\ u.pending = t.pending
  BY <1>4 DEF Only, Elsewhere, Fit, Scalars, Lists, Listed, Typed, ListFields
<1>8. /\ u.frame = t.frame /\ u.speed = t.speed /\ u.rec = t.rec /\ u.sub = t.sub
      /\ u.plocate = t.plocate /\ u.astray = t.astray /\ u.work = t.work
  BY <1>4 DEF Fit, Scalars
<1> HIDE DEF u
<1>9. Fit(u) /\ Sees(t, u)
  <2>1. Fit(u)
    BY <1>4, <1>7, UpdateHolds DEF Holds
  <2>2. Sees(t, u)
    BY <1>4, <1>7, <1>8, SameSees DEF Fit
  <2> QED BY <2>1, <2>2
<1>10. Sees(u, v)
  BY <1>9, UnsetLoopSees
<1> HIDE DEF v
<1>11. Sees(s, s') /\ Busy(s')
  <2>1. Sees(s, u) /\ Sees(t, v)
    BY <1>6, <1>9, <1>10, SeesOn
  <2>2. Sees(s, v) /\ Busy(v)
    BY <2>1, <1>6, <1>10, SeesOn DEF Sees
  <2> QED BY <2>2, <1>1, <1>6
<1> QED BY <1>1, <1>11, AsideStep DEF PInv

(* ... and the end of a stop, which only queues a request.                 *)
LEMMA StoppedAhead ==
    ASSUME NeverDry, PInv, Stopped
    PROVE  Ahead'
<1> DEFINE t == [s EXCEPT !.range = FALSE, !.loop = FALSE]
           v == Queue(t, RollRequest)
           u == [v EXCEPT !.proll = FALSE]
<1>1. s' \in {t, u} /\ UNCHANGED cycle
  BY DEF Stopped
<1>2. /\ Only(s, t, Elsewhere)
      /\ t.ev = s.ev /\ t.live = s.live /\ t.events = s.events /\ t.immediate = s.immediate
      /\ t.next = s.next /\ t.pending = s.pending
  BY DEF Only, Elsewhere, PInv, IInv, Fit, Scalars, Lists, Listed, Typed, ListFields
<1>3. /\ t.frame = s.frame /\ t.speed = s.speed /\ t.rec = s.rec /\ t.sub = s.sub
      /\ t.plocate = s.plocate /\ t.astray = s.astray /\ t.work = s.work
  BY DEF PInv, IInv, Fit, Scalars
<1> HIDE DEF t
<1>4. Shaped(t) /\ Sees(s, t) /\ Along(s, t)
  <2>1. Fit(t)
    BY <1>2, UpdateHolds DEF PInv, IInv, Holds
  <2> QED BY <2>1, <1>2, <1>3, SameSees, SameAlong, FitShaped DEF PInv, IInv, Fit
<1>5. Proper(RollRequest) /\ Asked(RollRequest) /\ RollRequest.frame \in Nat
  BY FrameFacts DEF RollRequest, Event, Proper, Asked, Commands, OnceOnly, Immediate
<1>6. /\ Shaped(v) /\ Sees(t, v)
      /\ v.events = t.events /\ v.frame = t.frame
      /\ \A c \in ToSet(t.events) : v.ev[c] = t.ev[c]
  BY <1>4, <1>5, QueueSees
<1> HIDE DEF v
<1>7. /\ u.events = v.events /\ u.next = v.next /\ u.ev = v.ev /\ u.frame = v.frame
      /\ u.work = v.work /\ u.speed = v.speed /\ u.sub = v.sub /\ u.plocate = v.plocate
      /\ u.astray = v.astray
      /\ u.rec = v.rec
  BY <1>6 DEF Shaped, Lists, Listed, Typed, ListFields
<1> HIDE DEF u
<1>8. Sees(v, u)
  BY <1>6, <1>7, SameSees DEF Shaped
<1>9. Sees(s, u) /\ Along(s, u)
  <2>1. Sees(s, v)
    BY <1>4, <1>6, SeesOn
  <2>2. Along(s, u)
    BY <1>2, <1>3, <1>6, <1>7, SameAlong
  <2> QED BY <2>1, <2>2, <1>8, SeesOn
<1> QED BY <1>1, <1>4, <1>9, AsideStep DEF PInv

(* Every step of the butler.                                               *)
LEMMA ButlerAhead ==
    ASSUME NeverDry, PInv, Butler
    PROVE  Ahead'
<1>1. StartWork \/ ReadWork => Ahead'
  <2>1. StartWork \/ ReadWork => s' = s /\ UNCHANGED cycle
    BY DEF StartWork, ReadWork
  <2> QED BY <2>1, SeesItself, AsideStep DEF PInv
<1> QED BY <1>1, CountedAhead, SoughtAhead, ReturnAhead, StoppedAhead DEF Butler

-----------------------------------------------------------------------------
(* The user.                                                               *)
LEMMA RequestAhead ==
    ASSUME NeverDry, PInv, Request
    PROVE  Ahead'
<1>1. PICK r \in Requests : s' = Queue(s, r)
  BY DEF Request
<1>2. Proper(r) /\ Asked(r) /\ r.frame \in Nat
  BY RequestFits
<1>3. /\ Sees(s, s') /\ s'.events = s.events /\ s'.frame = s.frame
      /\ \A c \in ToSet(s.events) : s'.ev[c] = s.ev[c]
  BY <1>1, <1>2, FitShaped, QueueSees DEF PInv, IInv
<1>4. UNCHANGED cycle
  BY DEF Request
<1> QED BY <1>3, <1>4, SameAlong, AsideStep DEF PInv

(* Arming, which begins to record if the transport rolls.                  *)
LEMMA ArmRecordAhead ==
    ASSUME PInv, ArmRecord
    PROVE  Ahead'
<1>1. s' = Record(s) \/ s' = [s EXCEPT !.rec = "Enabled"]
  BY DEF ArmRecord
<1>2. Sees(s, s') /\ Along(s, s')
  BY <1>1, RecordSees, PunchOutSees DEF PInv, IInv
<1>3. UNCHANGED cycle
  BY DEF ArmRecord
<1> QED BY <1>2, <1>3, AsideStep DEF PInv

(* Every step keeps it.                                                    *)
LEMMA NextPInv ==
    ASSUME NeverDry, PInv, [Next]_vars
    PROVE  PInv'
<1>1. IInv'
  BY NextIInv DEF PInv
<1>2. CASE ProcessThread
  <2>1. Merged => Ahead'
    <3>1. Merged => s' = s /\ ~InPart /\ ~InPart'
      BY DEF Merged, Goto, InPart
    <3> QED BY <3>1, SeesItself, SeenStep DEF PInv
  <2>2. Ahead'
    BY <1>2, <2>1, ProcessAhead, MergeAhead, ImmediateAhead, DoNotRollAhead,
       WithoutEventsAhead, WithEventsAhead, RollPartAhead, ProcessHereAhead, PartDoneAhead,
       CycleDoneAhead
    DEF ProcessThread
  <2> QED BY <2>2, <1>1 DEF PInv
<1>3. CASE Butler
  BY <1>1, <1>3, ButlerAhead DEF PInv
<1>4. CASE Request
  BY <1>1, <1>4, RequestAhead DEF PInv
<1>5. CASE ArmRecord
  BY <1>1, <1>5, ArmRecordAhead DEF PInv
<1>6. CASE UNCHANGED vars
  <2>1. s' = s /\ UNCHANGED cycle
    BY <1>6 DEF vars, cycle
  <2>2. Ahead'
    BY <2>1, SeesItself, AsideStep DEF PInv
  <2> QED BY <2>2, <1>1 DEF PInv
<1> QED BY <1>2, <1>3, <1>4, <1>5, <1>6 DEF Next

-----------------------------------------------------------------------------
(* Only rolling moves the tracks while the process thread goes on.         *)
LEMMA StepPassesNone ==
    ASSUME PInv, Next, pc' # pc, "DeclickOut" \notin s.sub, ~s.astray
    PROVE  \A i \in DOMAIN s.events : ~Passed(s.events[i])
<1> SUFFICES ASSUME NEW e \in ToSet(s.events), Passed(e)
             PROVE  FALSE
  BY DEF ToSet
<1>1. e \in Regular(s) /\ s.ev[e].frame > s.frame
  BY DEF Passed, Regular
<1>2. /\ e \in Cells /\ s.ev[e].frame \in Nat /\ s.ev[e].frame <= LastFrame
      /\ s.frame \in Nat /\ disk \in Nat
  BY <1>1, AheadFrames, FrameFacts DEF PInv, IInv, Fit, Scalars, Cycling
<1>3. ~Jumping(s) /\ ~(s.astray = TRUE)
  <2>1. ~Jumping(s)
    BY DEF PInv, IInv, Fit, Fresh, Jumping
  <2>2. ~(s.astray = TRUE)
    BY Zenon
  <2> QED BY <2>1, <2>2
<1>4. CASE disk' = disk
  BY <1>1, <1>2, <1>4 DEF Passed
<1>5. CASE WithoutEvents
  <2>1. Rolls /\ s.next = End /\ pc = "immediate"
    BY <1>5 DEF WithoutEvents, Goto
  <2>2. ~Busy(s) /\ ~InPart
    BY <2>1, <1>3, RollsCalmly DEF Busy, InPart
  <2> QED BY <2>1, <2>2, <1>1 DEF PInv, Ahead, Looking, Finding, ClearTo
<1>6. CASE RollPart /\ disk' # disk
  <2>1. Roll(ThisPart, stop_limit) /\ pc = "roll" /\ InPart
    BY <1>6 DEF RollPart, Goto, InPart
  <2>2. ~Busy(s)
    BY <2>1, <1>3 DEF PInv, IInv, Cycling, Busy
  <2>3. this \in ToSet(s.events) /\ s.ev[this].frame \in s.frame .. s.ev[e].frame
    BY <2>1, <2>2, <1>1 DEF PInv, Ahead, Walking, Walks
  <2>4. /\ s.ev[this].frame \in Nat /\ s.frame + ThisPart <= s.ev[this].frame
    BY <2>1, <2>3, PartLength
  <2>5. disk' = disk + ThisPart /\ ThisPart \in Int
    <3>1. ThisPart \in Int
      BY <1>2, <2>4, FrameFacts DEF ThisPart, PInv, IInv, Cycling
    <3> QED BY <3>1, <2>1 DEF Roll
  <2> QED BY <1>2, <2>3, <2>4, <2>5 DEF Passed
<1>7. disk' = disk \/ WithoutEvents \/ RollPart
  <2>1. CASE ProcessThread
    BY <2>1 DEF ProcessThread, Process, Merge, Merged, ProcessImmediate, DoNotRoll, WithEvents,
       ProcessHere, PartDone, CycleDone
  <2>2. CASE ~ProcessThread
    BY <2>2 DEF Next, Butler, StartWork, NonRealtimeLocate, ReadWork, Return, Seek, Stopped,
       WorkDone, Request, ArmRecord, cycle
  <2> QED BY <2>1, <2>2
<1> QED BY <1>4, <1>5, <1>6, <1>7

(* The tracks are never rolled past the frame of an event: next_event, the *)
(* part that ends at the event at hand and the iterator to the one after   *)
(* it are right, whatever was merged, cleared, replaced or processed since *)
(* they were set (session_process.cc:334-396), but for the exceptions that *)
(* NoEventPassed names.                                                    *)
THEOREM EventsNotPassed ==
    NeverDry => (Spec => NoEventPassed)
<1> SUFFICES ASSUME NeverDry PROVE Spec => NoEventPassed
  OBVIOUS
<1>1. Init => PInv
  BY InitIInv, InitAhead DEF PInv
<1>2. PInv /\ [Next]_vars => PInv'
  BY NextPInv
<1>3. PInv /\ [Next]_vars
        => [pc' # pc /\ "DeclickOut" \notin s.sub /\ ~s.astray
              => \A i \in DOMAIN s.events : ~Passed(s.events[i])]_vars
  BY StepPassesNone
<1> QED BY <1>1, <1>2, <1>3, PTL DEF Spec, NoEventPassed

=============================================================================
