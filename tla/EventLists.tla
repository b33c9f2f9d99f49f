----------------------------- MODULE EventLists -----------------------------
(***************************************************************************)
(* The event lists of a session (libs/ardour/session_events.cc): events    *)
(* kept in order of the frame they are for, with next_event an iterator    *)
(* into them, and immediate events kept for the end of a state change.     *)
(*                                                                         *)
(* A session is a record s.  Here its fields are                           *)
(*   ev         the SessionEvent in each cell of the pools                 *)
(*   live       the cells that hold an event nobody deleted                *)
(*   events, immediate, pending   lists of cells                           *)
(*   next       the cell *next_event, or End                               *)
(*   frame      _transport_frame.                                          *)
(* A pool hands out its cells in the order they came back, so a deleted    *)
(* event keeps its contents long after: New takes a cell nothing refers to.*)
(***************************************************************************)
EXTENDS Integers, Sequences, SequencesExt

CONSTANT Cells     \* bound: the events that exist at one time

End == 0
ASSUME CellAssumption == Cells \subseteq Nat \ {End}

NoEvent == [type |-> "None", action |-> "Add", frame |-> 0, target |-> 0, on |-> FALSE]
Immediate == 0     \* SessionEvent::Immediate, an action_frame

(* kept: cells that something outside the lists still refers to.           *)
New(s, kept) ==
    LET referred == kept \cup s.live \cup ToSet(s.immediate)
    IN  CHOOSE e \in Cells \ referred : \A f \in Cells \ referred : e <= f
HasNew(s, kept) ==
    Cells \ (kept \cup s.live \cup ToSet(s.immediate)) # {}
Created(s, kept, event) ==
    LET e == New(s, kept) IN [s EXCEPT !.ev[e] = event, !.live = @ \cup {e}]

Delete(s, e) == [s EXCEPT !.live = @ \ {e}]

(* The first of a list that passes a test, or End.                         *)
First(q, Test(_)) ==
    LET i == SelectInSeq(q, Test) IN IF i = 0 THEN End ELSE q[i]

(* What an iterator at a cell of the list designates after ++.             *)
After(q, e) ==
    LET i == SelectInSeq(q, LAMBDA f : f = e)
    IN  IF i = Len(q) THEN End ELSE q[i + 1]

-----------------------------------------------------------------------------
(* The first event at or after the transport, searched from next_event     *)
(* unless that is ahead of the transport already.                          *)
NeverAhead(s) == FALSE
AheadOfTransport(s) == s.ev[s.next].frame > s.frame
NextAhead(s) ==
    LET from == IF s.next = End \/ AheadOfTransport(s) THEN 1
                ELSE SelectInSeq(s.events, LAMBDA f : f = s.next)
    IN  First(SubSeq(s.events, from, Len(s.events)),
              LAMBDA e : s.ev[e].frame >= s.frame)
SetNextEvent(s) ==
    [s EXCEPT !.next = IF s.events = <<>> THEN End ELSE NextAhead(s)]

(* What is in q at some of its positions, by key, and in the order it has  *)
(* in q where keys are equal.                                              *)
Before(key, j, i) == key[j] < key[i] \/ (key[j] = key[i] /\ j < i)
Rank(S, key, i) == Cardinality({j \in S : Before(key, j, i)})
Arranged(q, S, key) ==
    [k \in 1 .. Cardinality(S) |-> q[CHOOSE i \in S : Rank(S, key, i) = k - 1]]

(* list::sort (SessionEvent::compare), which is stable.                    *)
Unsorted(s) == s.events
InFrameOrder(s) ==
    LET q == s.events
    IN  Arranged(q, DOMAIN q, [i \in DOMAIN q |-> s.ev[q[i]].frame])

(* Some events leave both lists and are deleted.                           *)
ClearedOf(s, gone) ==
    LET Without(q) ==
            Arranged(q, {i \in DOMAIN q : q[i] \notin gone}, [i \in DOMAIN q |-> 0])
        at == SelectInSeq(s.events, LAMBDA e : e = s.next)
        rest == SubSeq(s.events, at, Len(s.events))
    IN  [s EXCEPT
           !.events = Without(@),
           !.next = IF @ = End THEN End ELSE First(rest, LAMBDA e : e \notin gone),
           !.immediate = Without(@),
           !.live = @ \ (gone \cap (ToSet(s.events) \cup ToSet(s.immediate)))]
ClearEventType(s, type) ==
    SetNextEvent(ClearedOf(s, {e \in Cells : s.ev[e].type = type}))

Insert(s, e) ==
    LET t == [s EXCEPT !.events = <<e>> \o @]
    IN  [t EXCEPT !.events = InFrameOrder(t)]

Occupied(s, e) ==
    \E i \in DOMAIN s.events : /\ s.ev[s.events[i]].type = s.ev[e].type
                               /\ s.ev[s.events[i]].frame = s.ev[e].frame
(* merge_event of an Add: an event that may occur once takes the place of  *)
(* the last one; a second of any other type at the same frame is refused,  *)
(* and stays allocated.                                                    *)
AddEvent(s, e) ==
    IF s.ev[e].type \in {"AutoLoop", "StopOnce"}
    THEN LET t == Insert(ClearEventType(s, s.ev[e].type), e)
         IN  SetNextEvent([t EXCEPT !.next = t.events[1]])
    ELSE IF Occupied(s, e) THEN s
    ELSE LET t == Insert(s, e) IN SetNextEvent([t EXCEPT !.next = t.events[1]])

(* "Used only for events that can only exist once in the queue."           *)
OnceOnly == {"AutoLoop", "StopOnce", "PunchIn", "PunchOut"}
ReplaceEvent(s, e) ==
    LET old == First(s.events, LAMBDA f : s.ev[f].type = s.ev[e].type)
        t == IF old = End THEN Insert(s, e)
             ELSE Delete([s EXCEPT !.ev[old].frame = s.ev[e].frame,
                                   !.ev[old].target = s.ev[e].target], e)
    IN  SetNextEvent([t EXCEPT !.events = InFrameOrder(t), !.next = End])

(* The first event of the same type and frame, which may be ev itself.     *)
RemoveEvent(s, e) ==
    LET old == First(s.events, LAMBDA f : /\ s.ev[f].type = s.ev[e].type
                                          /\ s.ev[f].frame = s.ev[e].frame)
    IN  IF old = End THEN s
        ELSE SetNextEvent([Delete(s, old) EXCEPT
                 !.next = IF @ = old THEN After(s.events, old) ELSE @,
                 !.events = RemoveFirst(@, old)])
=============================================================================
