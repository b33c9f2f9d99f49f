-------------------------- MODULE EventListsProofs --------------------------
(***************************************************************************)
(* What the operators on event lists keep of them, for lists of any length *)
(* and events of any kind.                                                 *)
(***************************************************************************)
EXTENDS EventLists, FiniteSetTheorems, SequenceTheorems, WellFoundedInduction, TLAPS

(* The first of a list that passes a test is the one at the least of the   *)
(* positions that do.                                                      *)
LEMMA MinOf ==
    ASSUME NEW I \in SUBSET Nat, I # {}
    PROVE  Min(I) \in I /\ \A i \in I : Min(I) <= i
<1> DEFINE R == OpToRel(<, Nat)
<1>1. \A m, n \in Nat : m < n => <<m, n>> \in R
  BY DEF OpToRel
<1>2. IsWellFoundedOn(R, Nat)
  BY NatLessThanWellFounded
<1> HIDE DEF R
<1>3. PICK n \in I : \A m \in I : ~ (<<m, n>> \in R)
  BY <1>2, WFMin
<1>4. \A m \in I : ~ (m < n)
  BY <1>1, <1>3, Zenon
<1>5. \A m \in I : n <= m
  BY <1>4
<1> QED
  BY <1>5, Zenon DEF Min

(* SelectInSeq, and with it First, in terms of that position.              *)
LEMMA Found ==
    ASSUME NEW n \in Nat, NEW I \in SUBSET (1 .. n)
    PROVE  LET i == IF I # {} THEN Min(I) ELSE 0
           IN  /\ i \in 0 .. n
               /\ (i = 0) <=> (I = {})
               /\ i # 0 => i \in I /\ \A j \in I : i <= j
<1>1. CASE I = {}
  BY <1>1
<1>2. CASE I # {}
  <2>1. Min(I) \in I /\ \A j \in I : Min(I) <= j
    BY <1>2, MinOf
  <2>2. Min(I) \in 1 .. n
    BY <2>1
  <2> HIDE DEF Min
  <2> QED BY <2>1, <2>2, <1>2
<1> QED
  BY <1>1, <1>2

-----------------------------------------------------------------------------
(* Positions have different ranks, so that each rank has a position.       *)
LEMMA Ranks ==
    ASSUME NEW n \in Nat, NEW S \in SUBSET (1 .. n), NEW key, \A i \in S : key[i] \in Int
    PROVE  /\ Cardinality(S) \in Nat
           /\ \A i \in S : Rank(S, key, i) \in 0 .. Cardinality(S) - 1
           /\ \A i, j \in S : Before(key, j, i) => Rank(S, key, j) < Rank(S, key, i)
           /\ \A k \in 1 .. Cardinality(S) : \E i \in S : Rank(S, key, i) = k - 1
<1> DEFINE Lower(i) == {j \in S : Before(key, j, i)}
           N == Cardinality(S)
<1>1. IsFiniteSet(S) /\ N \in Nat
  <2>1. IsFiniteSet(1 .. n)
    BY FS_Interval
  <2> QED BY <2>1, FS_Subset, FS_CardinalityType
<1>2. \A i \in S : Rank(S, key, i) = Cardinality(Lower(i))
  BY DEF Rank
<1>3. \A i, j, k \in S : Before(key, i, j) /\ Before(key, j, k) => Before(key, i, k)
  BY DEF Before
<1>4. \A i \in S : ~Before(key, i, i)
  BY DEF Before
<1>5. \A i, j \in S : i # j => Before(key, i, j) \/ Before(key, j, i)
  BY DEF Before
<1>6. ASSUME NEW i \in S
      PROVE  Cardinality(Lower(i)) \in 0 .. N - 1
  <2>1. Lower(i) \in SUBSET (S \ {i})
    BY <1>4
  <2>2. IsFiniteSet(S \ {i}) /\ Cardinality(S \ {i}) = N - 1
    BY <1>1, FS_RemoveElement
  <2>3. IsFiniteSet(Lower(i)) /\ Cardinality(Lower(i)) <= N - 1
    BY <2>1, <2>2, FS_Subset
  <2> QED
    BY <1>1, <2>3, FS_CardinalityType
<1>7. ASSUME NEW i \in S, NEW j \in S, Before(key, j, i)
      PROVE  Cardinality(Lower(j)) < Cardinality(Lower(i))
  <2>1. Lower(j) \in SUBSET Lower(i) /\ j \in Lower(i) /\ j \notin Lower(j)
    BY <1>3, <1>4, <1>7
  <2>2. IsFiniteSet(Lower(i))
    <3>1. Lower(i) \in SUBSET S
      OBVIOUS
    <3> QED BY <3>1, <1>1, FS_Subset
  <2>3. Cardinality(Lower(j)) <= Cardinality(Lower(i))
    BY <2>1, <2>2, FS_Subset
  <2>4. Cardinality(Lower(j)) # Cardinality(Lower(i))
    <3>1. Lower(j) # Lower(i)
      BY <2>1
    <3> QED BY <3>1, <2>1, <2>2, FS_Subset
  <2> QED
    BY <2>3, <2>4, <1>6
<1> HIDE DEF Lower
<1>8. \A k \in 1 .. N : \E i \in S : Cardinality(Lower(i)) = k - 1
  <2> DEFINE f == [i \in S |-> Cardinality(Lower(i))]
             T == 0 .. N - 1
  <2>1. IsFiniteSet(T) /\ Cardinality(T) = N
    <3> HIDE DEF N
    <3>1. N - 1 \in Int /\ (0 > N - 1 => N = 0) /\ N - 1 - 0 + 1 = N
      BY <1>1
    <3> QED BY <3>1, FS_Interval
  <2>2. \A i, j \in S : i # j => Cardinality(Lower(i)) # Cardinality(Lower(j))
    BY <1>5, <1>6, <1>7
  <2>3. f \in [S -> T]
    BY <1>6
  <2>4. f \in Injection(S, T)
    <3>1. \A i, j \in DOMAIN f : f[i] = f[j] => i = j
      BY <2>2
    <3> HIDE DEF f
    <3> QED BY <3>1, <2>3, Zenon DEF Injection, IsInjective
  <2>5. f \in Surjection(S, T)
    BY <2>1, <2>4, FS_Injection
  <2>6. \A k \in T : \E i \in S : f[i] = k
    BY <2>5 DEF Surjection
  <2> QED
    BY <2>6, <1>1
<1> QED
  BY <1>1, <1>2, <1>6, <1>7, <1>8

(* An arrangement is a list of the chosen positions in order.              *)
Arranges(r, q, S, key) ==
    \E p \in [DOMAIN r -> S] :
      /\ \A k \in DOMAIN r : r[k] = q[p[k]]
      /\ \A i \in S : \E k \in DOMAIN r : p[k] = i
      /\ \A k, l \in DOMAIN r : k < l => Before(key, p[k], p[l])
(* Arranged lists what is at the positions S, each once, by key and then   *)
(* by place.                                                               *)
LEMMA Arranging ==
    ASSUME NEW C, NEW q \in Seq(C), NEW S \in SUBSET DOMAIN q, NEW key,
           \A i \in DOMAIN q : key[i] \in Int
    PROVE  /\ Arranged(q, S, key) \in Seq(C)
           /\ Arranges(Arranged(q, S, key), q, S, key)
<1> DEFINE N == Cardinality(S)
           p == [k \in 1 .. N |-> CHOOSE i \in S : Rank(S, key, i) = k - 1]
           r == [k \in 1 .. N |-> q[CHOOSE i \in S : Rank(S, key, i) = k - 1]]
<1>1. Len(q) \in Nat /\ DOMAIN q = 1 .. Len(q) /\ S \in SUBSET (1 .. Len(q))
  BY LenProperties
<1>2. /\ N \in Nat
      /\ \A i \in S : Rank(S, key, i) \in 0 .. N - 1
      /\ \A i, j \in S : Before(key, j, i) => Rank(S, key, j) < Rank(S, key, i)
      /\ \A k \in 1 .. N : \E i \in S : Rank(S, key, i) = k - 1
  BY <1>1, Ranks
<1>3. Arranged(q, S, key) = r
  BY DEF Arranged
<1>4. \A k \in 1 .. N : p[k] \in S /\ Rank(S, key, p[k]) = k - 1
  BY <1>2
<1>5. \A k \in 1 .. N : r[k] = q[p[k]]
  OBVIOUS
<1> HIDE DEF p, N
<1>6. p \in [1 .. N -> S]
  BY <1>4 DEF p
<1>7. DOMAIN r = 1 .. N /\ r \in Seq(C)
  <2>1. \A k \in 1 .. N : r[k] \in C
    BY <1>1, <1>4, <1>5, ElementOfSeq
  <2>2. r \in [1 .. N -> C]
    BY <2>1
  <2> QED BY <2>2, <1>2, SeqDef
<1> HIDE DEF r
<1>8. ASSUME NEW i \in S PROVE \E k \in 1 .. N : p[k] = i
  <2> DEFINE k == Rank(S, key, i) + 1
  <2>1. k \in 1 .. N /\ k - 1 = Rank(S, key, i)
    BY <1>2
  <2> HIDE DEF k
  <2>2. p[k] \in S /\ Rank(S, key, p[k]) = Rank(S, key, i)
    BY <2>1, <1>4
  <2>3. ~Before(key, p[k], i) /\ ~Before(key, i, p[k])
    BY <1>2, <2>2
  <2>4. p[k] = i
    BY <2>2, <2>3, <1>1 DEF Before
  <2> QED BY <2>1, <2>4
<1>9. ASSUME NEW k \in 1 .. N, NEW l \in 1 .. N, k < l PROVE Before(key, p[k], p[l])
  <2>1. Rank(S, key, p[k]) < Rank(S, key, p[l])
    BY <1>4, <1>9, <1>2
  <2>2. ~Before(key, p[l], p[k]) /\ p[k] # p[l]
    BY <2>1, <1>2, <1>4
  <2> QED BY <2>2, <1>1, <1>4 DEF Before
<1> QED
  BY <1>3, <1>5, <1>6, <1>7, <1>8, <1>9 DEF Arranges


-----------------------------------------------------------------------------
(* The lists of a session as every operator finds and leaves them.         *)
ListFields == {"ev", "live", "events", "immediate", "next"}
Rest(t, u) == DOMAIN u = DOMAIN t /\ \A f \in DOMAIN t \ ListFields : u[f] = t[f]

Apart(t, e, f) ==
    /\ e # f
    /\ t.ev[e].type = t.ev[f].type =>
          t.ev[e].type \notin OnceOnly /\ t.ev[e].frame # t.ev[f].frame
Ordered(t) ==
    \A i, j \in DOMAIN t.events : i < j =>
      /\ t.ev[t.events[i]].frame <= t.ev[t.events[j]].frame
      /\ Apart(t, t.events[i], t.events[j])
Typed(t) ==
    /\ ListFields \cup {"frame", "pending"} \subseteq DOMAIN t
    /\ DOMAIN t.ev = Cells
    /\ \A e \in Cells : /\ {"type", "frame", "target"} \subseteq DOMAIN t.ev[e]
                        /\ t.ev[e].frame \in Nat
    /\ t.frame \in Nat
    /\ t.live \in SUBSET Cells /\ IsFiniteSet(t.live)
    /\ t.events \in Seq(Cells) /\ t.immediate \in Seq(Cells)
Listed(t) ==
    /\ Typed(t) /\ Ordered(t)
    /\ ToSet(t.events) \subseteq t.live
    /\ t.next \in ToSet(t.events) \cup {End}

(* r is q without what is in gone.                                         *)
Thinned(q, r, gone) ==
    \E p \in [DOMAIN r -> DOMAIN q] :
      /\ \A k, l \in DOMAIN r : k < l => p[k] < p[l]
      /\ \A k \in DOMAIN r : r[k] = q[p[k]] /\ r[k] \notin gone
      /\ \A i \in DOMAIN q : q[i] \notin gone => \E k \in DOMAIN r : r[k] = q[i]

LEMMA ThinnedSet ==
    ASSUME NEW q, NEW r, NEW gone, Thinned(q, r, gone)
    PROVE  ToSet(r) = ToSet(q) \ gone
BY DEF Thinned, ToSet

(* A thinned event list is in order still.                                 *)
LEMMA ThinnedOrder ==
    ASSUME NEW t, NEW u, Listed(t), NEW gone, Thinned(t.events, u.events, gone),
           u.ev = t.ev, u.events \in Seq(Cells)
    PROVE  Ordered(u)
<1>1. DOMAIN t.events = 1 .. Len(t.events) /\ DOMAIN u.events = 1 .. Len(u.events)
  BY LenProperties DEF Listed, Typed
<1>2. PICK p \in [DOMAIN u.events -> DOMAIN t.events] :
         /\ \A k, l \in DOMAIN u.events : k < l => p[k] < p[l]
         /\ \A k \in DOMAIN u.events : u.events[k] = t.events[p[k]]
  BY DEF Thinned
<1>3. ASSUME NEW k \in DOMAIN u.events, NEW l \in DOMAIN u.events, k < l
      PROVE  /\ u.ev[u.events[k]].frame <= u.ev[u.events[l]].frame
             /\ Apart(u, u.events[k], u.events[l])
  <2>1. p[k] \in DOMAIN t.events /\ p[l] \in DOMAIN t.events /\ p[k] < p[l]
    BY <1>2, <1>3
  <2>2. /\ t.ev[t.events[p[k]]].frame <= t.ev[t.events[p[l]]].frame
        /\ Apart(t, t.events[p[k]], t.events[p[l]])
    BY <2>1 DEF Listed, Ordered
  <2> QED BY <2>2, <1>2 DEF Apart
<1> QED BY <1>3 DEF Ordered

(* What ClearedOf leaves of a list.                                        *)
Remaining(q, gone) ==
    Arranged(q, {i \in DOMAIN q : q[i] \notin gone}, [i \in DOMAIN q |-> 0])
(* Without, the local of ClearedOf, thins a list.                          *)
LEMMA Remains ==
    ASSUME NEW C, NEW q \in Seq(C), NEW gone
    PROVE  Remaining(q, gone) \in Seq(C) /\ Thinned(q, Remaining(q, gone), gone)
<1> DEFINE S == {i \in DOMAIN q : q[i] \notin gone}
           key == [i \in DOMAIN q |-> 0]
           r == Arranged(q, S, key)
<1>1. r = Remaining(q, gone)
  BY DEF Remaining
<1>2. S \in SUBSET DOMAIN q /\ \A i \in DOMAIN q : key[i] = 0
  OBVIOUS
<1> HIDE DEF key, S
<1>3. r \in Seq(C) /\ Arranges(r, q, S, key)
  BY <1>2, Arranging
<1> HIDE DEF r
<1>4. PICK p \in [DOMAIN r -> S] :
         /\ \A k \in DOMAIN r : r[k] = q[p[k]]
         /\ \A i \in S : \E k \in DOMAIN r : p[k] = i
         /\ \A k, l \in DOMAIN r : k < l => Before(key, p[k], p[l])
  BY <1>3 DEF Arranges
<1>5. p \in [DOMAIN r -> DOMAIN q]
  BY <1>2
<1>6. \A k, l \in DOMAIN r : k < l => p[k] < p[l]
  <2>1. \A i, j \in S : Before(key, i, j) => i < j
    BY <1>2 DEF Before
  <2> QED BY <2>1, <1>4
<1>7. \A k \in DOMAIN r : r[k] \notin gone
  BY <1>4 DEF S
<1>8. \A i \in DOMAIN q : q[i] \notin gone => \E k \in DOMAIN r : r[k] = q[i]
  <2>1. \A i \in DOMAIN q : q[i] \notin gone => i \in S
    BY DEF S
  <2> QED BY <2>1, <1>4
<1>9. Thinned(q, r, gone)
  BY <1>4, <1>5, <1>6, <1>7, <1>8 DEF Thinned
<1> QED
  BY <1>1, <1>3, <1>9

(* Sorting a list of events that are apart.                                *)
LEMMA Sorts ==
    ASSUME NEW t, Typed(t), NEW u, u.events = InFrameOrder(t), u.ev = t.ev,
           \A i, j \in DOMAIN t.events : i # j => Apart(t, t.events[i], t.events[j])
    PROVE  u.events \in Seq(Cells) /\ ToSet(u.events) = ToSet(t.events) /\ Ordered(u)
<1> DEFINE q == t.events
           S == DOMAIN q
           key == [i \in DOMAIN q |-> t.ev[q[i]].frame]
           r == Arranged(q, S, key)
<1>1. q \in Seq(Cells) /\ S = 1 .. Len(q) /\ Len(q) \in Nat
  BY LenProperties DEF Typed
<1>2. \A i \in S : q[i] \in Cells /\ key[i] = t.ev[q[i]].frame /\ key[i] \in Int
  BY <1>1, ElementOfSeq DEF Typed
<1>3. u.events = r
  BY DEF InFrameOrder
<1> HIDE DEF key, S, q
<1>4. S \in SUBSET DOMAIN q /\ \A i \in DOMAIN q : key[i] \in Int
  BY <1>2 DEF S
<1>5. r \in Seq(Cells) /\ Arranges(r, q, S, key)
  BY <1>1, <1>4, Arranging
<1> HIDE DEF r
<1>6. PICK p \in [DOMAIN r -> S] :
         /\ \A k \in DOMAIN r : r[k] = q[p[k]]
         /\ \A i \in S : \E k \in DOMAIN r : p[k] = i
         /\ \A k, l \in DOMAIN r : k < l => Before(key, p[k], p[l])
  BY <1>5 DEF Arranges
<1>7. ToSet(r) = ToSet(q)
  BY <1>6 DEF ToSet, S
<1>8. ASSUME NEW k \in DOMAIN r, NEW l \in DOMAIN r, k < l
      PROVE  /\ u.ev[r[k]].frame <= u.ev[r[l]].frame
             /\ Apart(u, r[k], r[l])
  <2>1. p[k] \in S /\ p[l] \in S /\ Before(key, p[k], p[l])
    BY <1>6, <1>8
  <2>2. p[k] # p[l] /\ key[p[k]] <= key[p[l]]
    BY <2>1, <1>1, <1>2 DEF Before
  <2>3. Apart(t, q[p[k]], q[p[l]])
    BY <2>1, <2>2 DEF S, q
  <2> QED BY <2>1, <2>2, <2>3, <1>2, <1>6 DEF Apart
<1> QED
  BY <1>3, <1>5, <1>7, <1>8 DEF Ordered, q

-----------------------------------------------------------------------------
(* No event is between the transport and next_event.                       *)
HeadsAt(t, x) ==
    \A e \in ToSet(t.events) : t.ev[e].frame > t.frame =>
      x # End /\ t.ev[x].frame \in t.frame .. t.ev[e].frame
Heads(t) == HeadsAt(t, t.next)

(* set_next_event designates the first event of the list that is not       *)
(* behind the transport, or its end: what it leaves out is behind.         *)
LEMMA NextIsSet ==
    ASSUME NEW t, Typed(t), t.next \in ToSet(t.events) \cup {End}
    PROVE  \E x \in ToSet(t.events) \cup {End} :
             /\ SetNextEvent(t) = [t EXCEPT !.next = x]
             /\ Ordered(t) => HeadsAt(t, x)
<1> DEFINE q == t.events
           n == Len(q)
           I == {i \in 1 .. n : q[i] = t.next}
           at == IF I # {} THEN Min(I) ELSE 0
           from == IF t.next = End \/ AheadOfTransport(t) THEN 1 ELSE at
           r == SubSeq(q, from, n)
           J == {i \in 1 .. Len(r) : t.ev[r[i]].frame >= t.frame}
           k == IF J # {} THEN Min(J) ELSE 0
           x == IF q = <<>> THEN End ELSE IF k = 0 THEN End ELSE r[k]
<1>1. q \in Seq(Cells) /\ n \in Nat /\ DOMAIN q = 1 .. n /\ (q # <<>> => n # 0)
  BY LenProperties, EmptySeq DEF Typed
<1>2. SetNextEvent(t) = [t EXCEPT !.next = x]
  BY DEF SetNextEvent, NextAhead, First, SelectInSeq
<1>3. CASE q = <<>>
  <2>1. ToSet(q) = {}
    BY <1>3 DEF ToSet
  <2> QED BY <2>1, <1>2, <1>3 DEF HeadsAt
<1>4. CASE q # <<>>
  <2>1. n # 0
    BY <1>1, <1>4
  <2>2. /\ at \in 0 .. n
        /\ (at = 0) <=> (I = {})
        /\ at # 0 => at \in I
    <3> HIDE DEF n
    <3>1. I \in SUBSET (1 .. n)
      OBVIOUS
    <3> HIDE DEF I
    <3> QED BY <3>1, <1>1, Found
  <2>3. t.next # End => I # {}
    BY <1>1 DEF ToSet
  <2>11. t.next # End => q[at] = t.next
    BY <2>2, <2>3
  <2> HIDE DEF at, I
  <2>4. from \in 1 .. n
    BY <2>1, <2>2, <2>3, <1>1
  <2>12. from = 1 \/ (from = at /\ t.next # End /\ t.ev[t.next].frame <= t.frame)
    <3>1. t.next # End => t.ev[t.next].frame \in Nat /\ t.frame \in Nat
      BY <2>11, <2>4, <1>1, ElementOfSeq DEF Typed, ToSet
    <3> QED BY <3>1 DEF AheadOfTransport
  <2> HIDE DEF from, q, n
  <2>5. \A i \in from .. n : q[i] \in Cells
    BY <2>4, <1>1, ElementOfSeq DEF n
  <2>6. /\ r \in Seq(Cells) /\ Len(r) = n - from + 1
        /\ \A i \in 1 .. Len(r) : r[i] = q[from + i - 1]
    BY <2>4, <2>5, <1>1, SubSeqProperties
  <2> HIDE DEF r
  <2>7. Len(r) \in Nat /\ J \in SUBSET (1 .. Len(r))
    BY <2>4, <2>6, <1>1
  <2>13. \A j \in 1 .. Len(r) : j \in J <=> t.ev[r[j]].frame >= t.frame
    OBVIOUS
  <2> HIDE DEF J
  <2>8. /\ k \in 0 .. Len(r)
        /\ (k = 0) <=> (J = {})
        /\ k # 0 => k \in J /\ \A j \in J : k <= j
    BY <2>7, Found
  <2> HIDE DEF k
  <2>9. k # 0 => r[k] \in ToSet(q)
    <3>1. k # 0 => from + k - 1 \in 1 .. n /\ r[k] = q[from + k - 1]
      BY <2>4, <2>6, <2>8, <1>1
    <3> QED BY <3>1, <1>1 DEF ToSet
  <2>10. x \in ToSet(q) \cup {End}
    BY <2>9
  <2>14. ASSUME Ordered(t) PROVE HeadsAt(t, x)
    <3> SUFFICES ASSUME NEW e \in ToSet(q), t.ev[e].frame > t.frame
                 PROVE  x # End /\ t.ev[x].frame \in t.frame .. t.ev[e].frame
      BY DEF HeadsAt, q
    <3>1. PICK i \in 1 .. n : q[i] = e
      BY <1>1 DEF ToSet
    <3>2. \A l \in 1 .. n : q[l] \in Cells /\ t.ev[q[l]].frame \in Nat
      BY <1>1, ElementOfSeq DEF Typed
    <3>3. \A l, m \in 1 .. n : l <= m => t.ev[q[l]].frame <= t.ev[q[m]].frame
      <4>1. \A l, m \in 1 .. n : l < m => t.ev[q[l]].frame <= t.ev[q[m]].frame
        BY <2>14, <1>1 DEF Ordered, q
      <4> QED BY <4>1, <3>2, <1>1
    <3>4. from <= i
      <4>1. CASE from = 1
        BY <4>1
      <4>2. CASE from = at /\ t.next # End /\ t.ev[t.next].frame <= t.frame
        <5>1. q[from] = t.next /\ from \in 1 .. n
          BY <4>2, <2>4, <2>11
        <5>2. t.ev[q[from]].frame <= t.frame /\ t.frame \in Nat /\ t.ev[q[i]].frame > t.frame
          BY <5>1, <4>2, <3>1 DEF Typed
        <5> QED BY <5>1, <5>2, <3>1, <3>2, <3>3, <1>1
      <4> QED BY <4>1, <4>2, <2>12
    <3>5. i - from + 1 \in 1 .. Len(r) /\ r[i - from + 1] = e
      <4>1. i - from + 1 \in 1 .. Len(r)
        BY <3>4, <2>4, <2>6, <1>1
      <4>2. r[i - from + 1] = q[from + (i - from + 1) - 1]
        BY <4>1, <2>6
      <4>3. from + (i - from + 1) - 1 = i
        BY <2>4, <1>1
      <4> QED BY <4>1, <4>2, <4>3, <3>1
    <3>6. i - from + 1 \in J
      BY <3>1, <3>2, <3>5, <2>13 DEF Typed
    <3>7. k \in J /\ k # 0 /\ k <= i - from + 1 /\ k \in 1 .. Len(r)
      BY <3>6, <2>7, <2>8
    <3>8. r[k] = q[from + k - 1] /\ from + k - 1 \in 1 .. n /\ from + k - 1 <= i
      BY <3>4, <3>7, <2>4, <2>6, <1>1
    <3>9. t.ev[r[k]].frame >= t.frame /\ t.ev[r[k]].frame <= t.ev[e].frame
      BY <3>1, <3>3, <3>7, <3>8, <2>13
    <3>10. r[k] # End
      BY <3>2, <3>8, CellAssumption
    <3>11. t.ev[r[k]].frame \in Nat /\ t.frame \in Nat /\ t.ev[e].frame \in Nat
      BY <3>1, <3>2, <3>8 DEF Typed
    <3>12. x = r[k]
      BY <3>7, <1>4
    <3> HIDE DEF x, k
    <3> QED BY <3>9, <3>10, <3>11, <3>12
  <2> QED BY <2>10, <2>14, <1>2 DEF q
<1> QED
  BY <1>3, <1>4

(* set_next_event changes next_event only, to one of the list or its end.  *)
LEMMA NextKeeps ==
    ASSUME NEW t, Listed(t)
    PROVE  LET u == SetNextEvent(t)
           IN  /\ Listed(u) /\ Rest(t, u) /\ Heads(u)
               /\ u.ev = t.ev /\ u.live = t.live
               /\ u.events = t.events /\ u.immediate = t.immediate
<1>1. PICK x \in ToSet(t.events) \cup {End} :
        SetNextEvent(t) = [t EXCEPT !.next = x] /\ HeadsAt(t, x)
  BY NextIsSet DEF Listed
<1> DEFINE u == [t EXCEPT !.next = x]
<1>2. /\ Rest(t, u) /\ u.ev = t.ev /\ u.live = t.live
      /\ u.events = t.events /\ u.immediate = t.immediate /\ u.next = x /\ u.frame = t.frame
      /\ DOMAIN u = DOMAIN t
  BY DEF Rest, Listed, Typed, ListFields
<1> HIDE DEF u
<1>3. Typed(u)
  BY <1>2 DEF Typed, Listed
<1>4. Ordered(u)
  BY <1>2 DEF Ordered, Apart, Listed
<1>5. Listed(u)
  BY <1>1, <1>2, <1>3, <1>4 DEF Listed
<1>6. Heads(u)
  BY <1>1, <1>2 DEF Heads, HeadsAt
<1> QED
  BY <1>1, <1>2, <1>5, <1>6 DEF u

(* Clearing takes the events of a set away, and nothing else.              *)
Cleared(t, u, gone) ==
    /\ Listed(u) /\ Rest(t, u) /\ u.ev = t.ev
    /\ Thinned(t.events, u.events, gone) /\ Thinned(t.immediate, u.immediate, gone)
    /\ u.live = t.live \ (gone \cap (ToSet(t.events) \cup ToSet(t.immediate)))
(* _clear_event_type: the iterator and the two lists, whatever leaves.     *)
LEMMA ClearedOfClears ==
    ASSUME NEW t, Listed(t), NEW gone
    PROVE  Cleared(t, ClearedOf(t, gone), gone)
<1> DEFINE q == t.events
           n == Len(q)
           I == {i \in 1 .. n : q[i] = t.next}
           at == IF I # {} THEN Min(I) ELSE 0
           r == SubSeq(q, at, n)
           J == {i \in 1 .. Len(r) : r[i] \notin gone}
           k == IF J # {} THEN Min(J) ELSE 0
           x == IF t.next = End THEN End ELSE IF k = 0 THEN End ELSE r[k]
           lost == gone \cap (ToSet(t.events) \cup ToSet(t.immediate))
           u == [t EXCEPT !.events = Remaining(@, gone), !.next = x,
                          !.immediate = Remaining(@, gone), !.live = @ \ lost]
<1>1. q \in Seq(Cells) /\ n \in Nat /\ DOMAIN q = 1 .. n
  BY LenProperties DEF Typed, Listed
<1>2. ClearedOf(t, gone) = u
  BY DEF ClearedOf, First, SelectInSeq, Remaining
<1>3. x \in (ToSet(q) \ gone) \cup {End}
  <2>1. CASE t.next = End
    BY <2>1
  <2>2. CASE t.next # End
    <3>1. /\ at \in 0 .. n
          /\ (at = 0) <=> (I = {})
      <4> HIDE DEF n
      <4>1. I \in SUBSET (1 .. n)
        OBVIOUS
      <4> HIDE DEF I
      <4> QED BY <4>1, <1>1, Found
    <3>2. I # {}
      BY <1>1, <2>2 DEF Listed, ToSet
    <3> HIDE DEF at, I
    <3>3. at \in 1 .. n
      BY <3>1, <3>2, <1>1
    <3> HIDE DEF q, n
    <3>4. \A i \in at .. n : q[i] \in Cells
      BY <3>3, <1>1, ElementOfSeq DEF n
    <3>5. /\ r \in Seq(Cells) /\ Len(r) = n - at + 1
          /\ \A i \in 1 .. Len(r) : r[i] = q[at + i - 1]
      BY <3>3, <3>4, <1>1, SubSeqProperties
    <3> HIDE DEF r
    <3>6. Len(r) \in Nat /\ J \in SUBSET (1 .. Len(r)) /\ \A i \in J : r[i] \notin gone
      BY <3>3, <3>5, <1>1
    <3> HIDE DEF J
    <3>7. k \in 0 .. Len(r) /\ (k # 0 => k \in J)
      <4>1. /\ k \in 0 .. Len(r)
            /\ (k = 0) <=> (J = {})
            /\ k # 0 => (k \in J /\ \A j \in J : k <= j)
        BY <3>6, Found
      <4> QED BY <4>1
    <3> HIDE DEF k
    <3>8. k # 0 => r[k] \in ToSet(q) \ gone
      <4>1. k # 0 => at + k - 1 \in 1 .. n /\ r[k] = q[at + k - 1]
        BY <3>3, <3>5, <3>7, <1>1
      <4> QED BY <4>1, <1>1, <3>6, <3>7 DEF ToSet
    <3> QED BY <3>8
  <2> QED BY <2>1, <2>2
<1> HIDE DEF x, lost
<1>4. /\ Rest(t, u) /\ u.ev = t.ev /\ u.live = t.live \ lost /\ u.next = x
      /\ u.events = Remaining(q, gone) /\ u.immediate = Remaining(t.immediate, gone)
      /\ u.frame = t.frame /\ DOMAIN u = DOMAIN t
  BY DEF Rest, Listed, Typed, ListFields
<1> HIDE DEF u
<1>5. /\ u.events \in Seq(Cells) /\ Thinned(t.events, u.events, gone)
      /\ u.immediate \in Seq(Cells) /\ Thinned(t.immediate, u.immediate, gone)
  BY <1>4, Remains DEF Listed, Typed
<1>6. IsFiniteSet(u.live) /\ u.live \in SUBSET Cells
  <2>1. u.live \in SUBSET t.live
    BY <1>4
  <2> QED BY <2>1, FS_Subset DEF Listed, Typed
<1>7. Typed(u)
  BY <1>4, <1>5, <1>6 DEF Typed, Listed
<1>8. Ordered(u)
  BY <1>4, <1>5, ThinnedOrder
<1>9. ToSet(u.events) = ToSet(q) \ gone
  BY <1>5, ThinnedSet
<1>10. ToSet(u.events) \subseteq u.live
  BY <1>9, <1>4 DEF Listed, lost
<1>11. Listed(u)
  BY <1>3, <1>4, <1>7, <1>8, <1>9, <1>10 DEF Listed
<1> QED
  BY <1>2, <1>4, <1>5, <1>11 DEF Cleared, lost

LEMMA ClearingClears ==
    ASSUME NEW t, Listed(t), NEW type
    PROVE  /\ Cleared(t, ClearEventType(t, type), {e \in Cells : t.ev[e].type = type})
           /\ Heads(ClearEventType(t, type))
<1> DEFINE gone == {e \in Cells : t.ev[e].type = type}
           u == ClearedOf(t, gone)
           v == SetNextEvent(u)
<1>1. Cleared(t, u, gone)
  BY ClearedOfClears
<1> HIDE DEF u
<1>2. /\ Listed(v) /\ Rest(u, v) /\ v.ev = u.ev /\ v.live = u.live
      /\ v.events = u.events /\ v.immediate = u.immediate /\ Heads(v)
  BY <1>1, NextKeeps DEF Cleared
<1>3. Rest(t, v)
  BY <1>1, <1>2 DEF Rest, Cleared
<1> HIDE DEF gone, v
<1>4. Cleared(t, v, gone)
  BY <1>1, <1>2, <1>3 DEF Cleared
<1> QED
  BY <1>2, <1>4 DEF ClearEventType, u, v, gone

-----------------------------------------------------------------------------
(* An event enters the list where it belongs.                              *)
Inserted(t, u, e) ==
    /\ Rest(t, u) /\ u.ev = t.ev /\ u.live = t.live /\ u.immediate = t.immediate
    /\ Typed(u) /\ Ordered(u)
    /\ ToSet(u.events) = ToSet(t.events) \cup {e}
(* An event goes to the front of the list, which is then sorted.           *)
LEMMA InsertInserts ==
    ASSUME NEW t, Listed(t), NEW e \in Cells, \A f \in ToSet(t.events) : Apart(t, e, f)
    PROVE  Inserted(t, Insert(t, e), e) /\ Insert(t, e).next = t.next
<1> DEFINE v == [t EXCEPT !.events = <<e>> \o @]
           u == [v EXCEPT !.events = InFrameOrder(v)]
           q == t.events
           r == v.events
<1>1. Insert(t, e) = u
  BY DEF Insert
<1>2. /\ DOMAIN v = DOMAIN t /\ Rest(t, v) /\ v.ev = t.ev /\ v.live = t.live
      /\ v.immediate = t.immediate /\ v.frame = t.frame /\ v.events = <<e>> \o t.events
      /\ v.next = t.next
  BY DEF Rest, Listed, Typed, ListFields
<1>3. q \in Seq(Cells) /\ Len(q) \in Nat /\ DOMAIN q = 1 .. Len(q)
  BY LenProperties DEF Listed, Typed
<1>4. <<e>> \in Seq(Cells) /\ Len(<<e>>) = 1 /\ <<e>>[1] = e
  OBVIOUS
<1>5. /\ r \in Seq(Cells) /\ DOMAIN r = 1 .. Len(q) + 1
      /\ \A i \in 1 .. Len(q) + 1 : r[i] = IF i <= 1 THEN e ELSE q[i - 1]
  <2>1. /\ <<e>> \o q \in Seq(Cells) /\ Len(<<e>> \o q) = 1 + Len(q)
        /\ \A i \in 1 .. 1 + Len(q) : (<<e>> \o q)[i] = IF i <= 1 THEN <<e>>[i] ELSE q[i - 1]
    BY <1>3, <1>4, ConcatProperties
  <2>2. DOMAIN (<<e>> \o q) = 1 .. Len(q) + 1
    BY <2>1, <1>3, LenProperties
  <2> HIDE DEF v, q
  <2>3. r = <<e>> \o q
    BY <1>2 DEF q
  <2> QED BY <2>1, <2>2, <2>3, <1>3, <1>4
<1> HIDE DEF v
<1>6. Typed(v)
  BY <1>2, <1>5 DEF Typed, Listed
<1>7. \A i, j \in DOMAIN r : i # j => Apart(v, r[i], r[j])
  <2>1. \A i, j \in DOMAIN q : i # j => Apart(t, q[i], q[j])
    BY <1>3 DEF Listed, Ordered, Apart
  <2>2. \A i \in DOMAIN q : q[i] \in ToSet(q)
    BY DEF ToSet
  <2>3. \A i \in DOMAIN q : Apart(t, e, q[i]) /\ Apart(t, q[i], e)
    BY <2>2 DEF Apart
  <2> HIDE DEF q, r
  <2>4. ASSUME NEW i \in DOMAIN r, NEW j \in DOMAIN r, i # j PROVE Apart(t, r[i], r[j])
    <3>1. i - 1 \in DOMAIN q \/ i = 1
      BY <1>3, <1>5
    <3>2. j - 1 \in DOMAIN q \/ j = 1
      BY <1>3, <1>5
    <3>3. CASE i = 1
      BY <3>2, <3>3, <2>4, <2>3, <1>3, <1>5
    <3>4. CASE j = 1
      BY <3>1, <3>4, <2>4, <2>3, <1>3, <1>5
    <3>5. CASE i - 1 \in DOMAIN q /\ j - 1 \in DOMAIN q
      BY <3>5, <2>4, <2>1, <1>3, <1>5
    <3> QED BY <3>1, <3>2, <3>3, <3>4, <3>5
  <2> QED BY <2>4, <1>2 DEF Apart
<1>8. /\ DOMAIN u = DOMAIN v /\ Rest(v, u) /\ u.ev = v.ev /\ u.live = v.live
      /\ u.immediate = v.immediate /\ u.frame = v.frame /\ u.next = v.next
      /\ u.events = InFrameOrder(v)
  BY <1>6 DEF Rest, Typed, ListFields
<1> HIDE DEF u
<1>9. u.events \in Seq(Cells) /\ ToSet(u.events) = ToSet(r) /\ Ordered(u)
  BY <1>6, <1>7, <1>8, Sorts
<1>10. ToSet(r) = ToSet(q) \cup {e}
  <2> HIDE DEF r, q
  <2>1. ToSet(r) \subseteq ToSet(q) \cup {e}
    <3>1. \A i \in DOMAIN r : i = 1 \/ (i # 1 /\ i - 1 \in DOMAIN q)
      BY <1>3, <1>5
    <3>2. \A i \in DOMAIN r : r[i] = e \/ (i - 1 \in DOMAIN q /\ r[i] = q[i - 1])
      BY <3>1, <1>3, <1>5
    <3> QED BY <3>2 DEF ToSet
  <2>2. e \in ToSet(r)
    <3>1. 1 \in DOMAIN r /\ r[1] = e
      BY <1>3, <1>5
    <3> QED BY <3>1 DEF ToSet
  <2>3. ToSet(q) \subseteq ToSet(r)
    <3>1. \A i \in DOMAIN q : i + 1 \in DOMAIN r /\ r[i + 1] = q[i]
      BY <1>3, <1>5
    <3> QED BY <3>1 DEF ToSet
  <2> QED BY <2>1, <2>2, <2>3
<1>11. Rest(t, u) /\ Typed(u)
  BY <1>2, <1>6, <1>8, <1>9 DEF Rest, Typed
<1> QED
  BY <1>1, <1>2, <1>8, <1>9, <1>10, <1>11 DEF Inserted

(* What merging an event of a type that may occur often leaves.            *)
LEMMA AddKeeps ==
    ASSUME NEW t, Listed(t), NEW e \in t.live \ ToSet(t.events), t.ev[e].type \notin OnceOnly
    PROVE  LET u == AddEvent(t, e)
           IN  /\ Listed(u) /\ Rest(t, u) /\ u.ev = t.ev /\ u.live = t.live
               /\ u.immediate = t.immediate
               /\ ToSet(u.events) \subseteq ToSet(t.events) \cup {e}
               /\ u = t \/ Heads(u)
<1>1. e \in Cells /\ t.ev[e].type \notin {"AutoLoop", "StopOnce"}
  BY DEF Listed, Typed, OnceOnly
<1>2. CASE Occupied(t, e)
  <2>1. AddEvent(t, e) = t
    BY <1>1, <1>2 DEF AddEvent
  <2> QED BY <2>1 DEF Rest
<1>3. CASE ~Occupied(t, e)
  <2> DEFINE v == Insert(t, e)
             w == [v EXCEPT !.next = v.events[1]]
             u == SetNextEvent(w)
  <2>1. AddEvent(t, e) = u
    BY <1>1, <1>3 DEF AddEvent
  <2>2. \A f \in ToSet(t.events) : Apart(t, e, f)
    BY <1>3 DEF Occupied, ToSet, Apart
  <2>3. Inserted(t, v, e)
    BY <1>1, <2>2, InsertInserts
  <2> HIDE DEF v
  <2>4. /\ Rest(v, w) /\ w.ev = v.ev /\ w.live = v.live /\ w.immediate = v.immediate
        /\ w.events = v.events /\ w.frame = v.frame /\ DOMAIN w = DOMAIN v
        /\ w.next = v.events[1]
    BY <2>3 DEF Rest, Inserted, Typed, ListFields
  <2> HIDE DEF w
  <2>5. v.events[1] \in ToSet(v.events)
    <3>1. v.events \in Seq(Cells) /\ e \in ToSet(v.events)
      BY <2>3 DEF Inserted, Typed
    <3>2. Len(v.events) \in Nat /\ DOMAIN v.events = 1 .. Len(v.events)
      BY <3>1, LenProperties
    <3>3. PICK i \in DOMAIN v.events : v.events[i] = e
      BY <3>1 DEF ToSet
    <3>4. 1 \in DOMAIN v.events
      BY <3>2, <3>3
    <3> QED BY <3>4 DEF ToSet
  <2>6. Typed(w) /\ Ordered(w)
    BY <2>3, <2>4 DEF Typed, Ordered, Apart, Inserted
  <2>7. Listed(w)
    BY <2>3, <2>4, <2>5, <2>6 DEF Listed, Inserted
  <2>8. /\ Listed(u) /\ Rest(w, u) /\ u.ev = w.ev /\ u.live = w.live
        /\ u.events = w.events /\ u.immediate = w.immediate /\ Heads(u)
    BY <2>7, NextKeeps
  <2> HIDE DEF u
  <2>9. Rest(t, u)
    BY <2>3, <2>4, <2>8 DEF Inserted, Rest
  <2> QED BY <2>1, <2>3, <2>4, <2>8, <2>9 DEF Inserted
<1> QED BY <1>2, <1>3

(* What merging an event of a type that occurs once leaves: it or the one  *)
(* that was there, with its frame and target.                              *)
Replaced(t, u, e) ==
    /\ Listed(u) /\ Rest(t, u) /\ u.immediate = t.immediate
    /\ u.live \in {t.live, t.live \ {e}}
    /\ ToSet(t.events) \subseteq ToSet(u.events)
    /\ ToSet(u.events) \subseteq ToSet(t.events) \cup {e}
    /\ Heads(u)
    /\ \A c \in Cells :
         \/ u.ev[c] = t.ev[c]
         \/ /\ c \in ToSet(t.events) /\ t.ev[c].type = t.ev[e].type
            /\ u.ev[c] = [t.ev[c] EXCEPT !.frame = t.ev[e].frame, !.target = t.ev[e].target]
(* _replace_event sorts and sets next_event at the end, on either way.     *)
LEMMA SortedAgain ==
    ASSUME NEW t, Typed(t), ToSet(t.events) \subseteq t.live,
           \A i, j \in DOMAIN t.events : i # j => Apart(t, t.events[i], t.events[j])
    PROVE  LET u == SetNextEvent([t EXCEPT !.events = InFrameOrder(t), !.next = End])
           IN  /\ Listed(u) /\ Rest(t, u) /\ u.ev = t.ev /\ u.live = t.live
               /\ u.immediate = t.immediate /\ ToSet(u.events) = ToSet(t.events) /\ Heads(u)
<1> DEFINE v == [t EXCEPT !.events = InFrameOrder(t), !.next = End]
           u == SetNextEvent(v)
<1>1. /\ DOMAIN v = DOMAIN t /\ Rest(t, v) /\ v.ev = t.ev /\ v.live = t.live
      /\ v.immediate = t.immediate /\ v.frame = t.frame /\ v.next = End
      /\ v.events = InFrameOrder(t)
  BY DEF Rest, Typed, ListFields
<1> HIDE DEF v
<1>2. v.events \in Seq(Cells) /\ ToSet(v.events) = ToSet(t.events) /\ Ordered(v)
  BY <1>1, Sorts
<1>3. Typed(v)
  BY <1>1, <1>2 DEF Typed
<1>4. Listed(v)
  BY <1>1, <1>2, <1>3 DEF Listed
<1>5. /\ Listed(u) /\ Rest(v, u) /\ u.ev = v.ev /\ u.live = v.live
      /\ u.events = v.events /\ u.immediate = v.immediate /\ Heads(u)
  BY <1>4, NextKeeps
<1> HIDE DEF u
<1>6. Rest(t, u)
  BY <1>1, <1>5 DEF Rest
<1> QED BY <1>1, <1>2, <1>5, <1>6 DEF u, v

(* In an ordered list any two events are apart, whichever comes first.     *)
LEMMA OrderedApart ==
    ASSUME NEW t, Typed(t), Ordered(t)
    PROVE  \A i, j \in DOMAIN t.events : i # j => Apart(t, t.events[i], t.events[j])
<1>1. DOMAIN t.events = 1 .. Len(t.events) /\ Len(t.events) \in Nat
  BY LenProperties DEF Typed
<1> QED BY <1>1 DEF Ordered, Apart

(* _replace_event: the last of the type takes the new frame and target, or *)
(* the event itself is inserted.                                           *)
LEMMA ReplaceReplaces ==
    ASSUME NEW t, Listed(t), NEW e \in t.live \ ToSet(t.events), t.ev[e].type \in OnceOnly
    PROVE  Replaced(t, ReplaceEvent(t, e), e)
<1> DEFINE q == t.events
           n == Len(q)
           I == {i \in 1 .. n : t.ev[q[i]].type = t.ev[e].type}
           at == IF I # {} THEN Min(I) ELSE 0
           old == IF at = 0 THEN End ELSE q[at]
           moved == [t EXCEPT !.ev[old].frame = t.ev[e].frame,
                              !.ev[old].target = t.ev[e].target]
           v == IF old = End THEN Insert(t, e) ELSE Delete(moved, e)
           u == SetNextEvent([v EXCEPT !.events = InFrameOrder(v), !.next = End])
<1>1. /\ q \in Seq(Cells) /\ n \in Nat /\ DOMAIN q = 1 .. n /\ e \in Cells
      /\ \A i \in DOMAIN q : q[i] \in Cells /\ q[i] # End
  <2>1. /\ q \in Seq(Cells) /\ n \in Nat /\ DOMAIN q = 1 .. n /\ e \in Cells
    BY LenProperties DEF Typed, Listed
  <2>2. \A i \in DOMAIN q : q[i] \in Cells
    BY <2>1, ElementOfSeq
  <2> QED BY <2>1, <2>2, CellAssumption
<1>2. ReplaceEvent(t, e) = u
  BY DEF ReplaceEvent, First, SelectInSeq
<1>3. /\ at \in 0 .. n
      /\ (at = 0) <=> (I = {})
      /\ at # 0 => at \in I
  <2> HIDE DEF n
  <2>1. I \in SUBSET (1 .. n)
    OBVIOUS
  <2> HIDE DEF I
  <2> QED BY <2>1, <1>1, Found
<1>4. old = End => \A i \in DOMAIN q : t.ev[q[i]].type # t.ev[e].type
  <2>1. at # 0 => q[at] # End
    BY <1>1, <1>3
  <2>2. old = End => I = {}
    BY <2>1, <1>3
  <2> QED BY <2>2, <1>1
<1>5. old # End => /\ old \in ToSet(q) /\ old \in Cells /\ old # e
                   /\ t.ev[old].type = t.ev[e].type
  BY <1>1, <1>3 DEF ToSet
<1> HIDE DEF old, at, I
<1>6. CASE old = End
  <2>1. \A f \in ToSet(t.events) : Apart(t, e, f)
    BY <1>4, <1>6 DEF ToSet, Apart
  <2>2. Inserted(t, v, e)
    BY <2>1, <1>1, <1>6, InsertInserts
  <2> HIDE DEF v
  <2>3. \A i, j \in DOMAIN v.events : i # j => Apart(v, v.events[i], v.events[j])
    BY <2>2, OrderedApart DEF Inserted
  <2>4. ToSet(v.events) \subseteq v.live
    BY <2>2 DEF Inserted, Listed
  <2>5. /\ Listed(u) /\ Rest(v, u) /\ u.ev = v.ev /\ u.live = v.live
        /\ u.immediate = v.immediate /\ ToSet(u.events) = ToSet(v.events) /\ Heads(u)
    BY <2>2, <2>3, <2>4, SortedAgain DEF Inserted
  <2> HIDE DEF u
  <2>6. Rest(t, u)
    BY <2>2, <2>5 DEF Rest, Inserted
  <2> QED BY <1>2, <2>2, <2>5, <2>6 DEF Replaced, Inserted
<1>7. CASE old # End
  <2> DEFINE evs == [t.ev EXCEPT ![old] = [@ EXCEPT !.frame = t.ev[e].frame,
                                                    !.target = t.ev[e].target]]
  <2>0. moved = [t EXCEPT !.ev = evs]
    <3>1. "ev" \in DOMAIN t /\ old \in DOMAIN t.ev
      BY <1>5, <1>7 DEF Listed, Typed, ListFields
    <3> QED BY <3>1
  <2>1. v = [[t EXCEPT !.ev = evs] EXCEPT !.live = @ \ {e}]
    BY <1>7, <2>0 DEF Delete
  <2>2. /\ DOMAIN v = DOMAIN t /\ Rest(t, v) /\ v.live = t.live \ {e} /\ v.frame = t.frame
        /\ v.immediate = t.immediate /\ v.events = t.events /\ DOMAIN v.ev = DOMAIN t.ev
        /\ \A c \in Cells : v.ev[c] =
             IF c = old THEN [t.ev[c] EXCEPT !.frame = t.ev[e].frame, !.target = t.ev[e].target]
             ELSE t.ev[c]
    <3>1. DOMAIN evs = DOMAIN t.ev /\ \A c \in Cells : evs[c] =
             IF c = old THEN [t.ev[c] EXCEPT !.frame = t.ev[e].frame, !.target = t.ev[e].target]
             ELSE t.ev[c]
      BY <1>5, <1>7 DEF Listed, Typed
    <3> HIDE DEF evs
    <3>2. /\ DOMAIN v = DOMAIN t /\ Rest(t, v) /\ v.live = t.live \ {e} /\ v.frame = t.frame
          /\ v.immediate = t.immediate /\ v.events = t.events /\ v.ev = evs
      <4> HIDE DEF v
      <4> QED BY <2>1 DEF Rest, Listed, Typed, ListFields
    <3> QED BY <3>1, <3>2
  <2> HIDE DEF v, moved, evs
  <2>3. \A c \in Cells : /\ {"type", "frame", "target"} \subseteq DOMAIN v.ev[c]
                         /\ v.ev[c].frame \in Nat /\ v.ev[c].type = t.ev[c].type
                         /\ c # old => v.ev[c].frame = t.ev[c].frame
    <3>1. ASSUME NEW c \in Cells
          PROVE  /\ {"type", "frame", "target"} \subseteq DOMAIN v.ev[c]
                 /\ v.ev[c].frame \in Nat /\ v.ev[c].type = t.ev[c].type
                 /\ c # old => v.ev[c].frame = t.ev[c].frame
      <4>1. /\ {"type", "frame", "target"} \subseteq DOMAIN t.ev[c]
            /\ t.ev[c].frame \in Nat /\ t.ev[e].frame \in Nat
        BY <1>1 DEF Listed, Typed
      <4>2. CASE c = old
        <5>1. v.ev[c] = [t.ev[c] EXCEPT !.frame = t.ev[e].frame, !.target = t.ev[e].target]
          BY <4>2, <2>2
        <5> QED BY <5>1, <4>1, <4>2
      <4>3. CASE c # old
        BY <4>1, <4>3, <2>2
      <4> QED BY <4>2, <4>3
    <3> QED BY <3>1
  <2>4. IsFiniteSet(v.live) /\ v.live \in SUBSET Cells
    <3>1. v.live \in SUBSET t.live
      BY <2>2
    <3> QED BY <3>1, FS_Subset DEF Listed, Typed
  <2>5. Typed(v)
    BY <2>2, <2>3, <2>4 DEF Typed, Listed
  <2>6. ASSUME NEW i \in DOMAIN v.events, NEW j \in DOMAIN v.events, i # j
        PROVE  Apart(v, v.events[i], v.events[j])
    <3>1. Apart(t, q[i], q[j])
      BY <2>2, <2>6, OrderedApart DEF Listed
    <3>2. q[i] \in Cells /\ q[j] \in Cells
      BY <1>1, <2>2
    <3>3. t.ev[q[i]].type = t.ev[q[j]].type => q[i] # old /\ q[j] # old
      BY <3>1, <1>5, <1>7 DEF Apart
    <3> HIDE DEF q
    <3>4. Apart(v, q[i], q[j])
      BY <3>1, <3>2, <3>3, <2>3 DEF Apart
    <3> QED BY <3>4, <2>2 DEF q
  <2>7. ToSet(v.events) \subseteq v.live
    BY <2>2 DEF Listed
  <2>8. /\ Listed(u) /\ Rest(v, u) /\ u.ev = v.ev /\ u.live = v.live
        /\ u.immediate = v.immediate /\ ToSet(u.events) = ToSet(v.events) /\ Heads(u)
    BY <2>5, <2>6, <2>7, SortedAgain
  <2> HIDE DEF u
  <2>9. Rest(t, u)
    BY <2>2, <2>8 DEF Rest
  <2>10. \A c \in Cells :
           \/ u.ev[c] = t.ev[c]
           \/ /\ c \in ToSet(t.events) /\ t.ev[c].type = t.ev[e].type
              /\ u.ev[c] = [t.ev[c] EXCEPT !.frame = t.ev[e].frame, !.target = t.ev[e].target]
    BY <2>2, <2>8, <1>5, <1>7
  <2> QED BY <1>2, <2>2, <2>8, <2>9, <2>10 DEF Replaced
<1> QED BY <1>6, <1>7

-----------------------------------------------------------------------------
(* ++ leads to another of the list or to its end.                          *)
LEMMA AfterLeads ==
    ASSUME NEW C, NEW q \in Seq(C), NEW e
    PROVE  /\ After(q, e) \in ToSet(q) \cup {End}
           /\ (/\ \A i, j \in DOMAIN q : i < j => q[i] # q[j]
               /\ e # End)
              => After(q, e) # e
<1> DEFINE n == Len(q)
           I == {i \in 1 .. n : q[i] = e}
           at == IF I # {} THEN Min(I) ELSE 0
<1>1. n \in Nat /\ DOMAIN q = 1 .. n
  BY LenProperties
<1>2. After(q, e) = IF at = n THEN End ELSE q[at + 1]
  BY DEF After, SelectInSeq
<1>3. /\ at \in 0 .. n
      /\ (at = 0) <=> (I = {})
      /\ at # 0 => at \in I
  <2> HIDE DEF n
  <2>1. I \in SUBSET (1 .. n)
    OBVIOUS
  <2> HIDE DEF I
  <2> QED BY <2>1, <1>1, Found
<1>4. at # 0 => at \in DOMAIN q /\ q[at] = e
  BY <1>1, <1>3
<1>5. at = 0 => \A i \in DOMAIN q : q[i] # e
  BY <1>1, <1>3
<1> HIDE DEF at, n, I
<1>6. at # n => at + 1 \in DOMAIN q
  BY <1>1, <1>3
<1>7. After(q, e) \in ToSet(q) \cup {End}
  BY <1>2, <1>6 DEF ToSet
<1>8. ASSUME \A i, j \in DOMAIN q : i < j => q[i] # q[j], e # End, at # n
      PROVE  q[at + 1] # e
  BY <1>8, <1>1, <1>3, <1>4, <1>5, <1>6
<1> QED BY <1>2, <1>7, <1>8

(* In a list in order it leads to the first event behind.                  *)
LEMMA AfterIsNext ==
    ASSUME NEW t, Listed(t), NEW b \in ToSet(t.events), NEW e \in ToSet(t.events),
           t.ev[e].frame > t.ev[b].frame
    PROVE  LET x == After(t.events, b)
           IN  x # End /\ t.ev[x].frame \in t.ev[b].frame .. t.ev[e].frame
<1> DEFINE q == t.events
           n == Len(q)
           I == {i \in 1 .. n : q[i] = b}
           at == IF I # {} THEN Min(I) ELSE 0
<1>1. /\ q \in Seq(Cells) /\ n \in Nat /\ DOMAIN q = 1 .. n
  BY LenProperties DEF Typed, Listed
<1>2. After(q, b) = IF at = n THEN End ELSE q[at + 1]
  BY DEF After, SelectInSeq
<1>3. /\ at \in 0 .. n
      /\ (at = 0) <=> (I = {})
      /\ at # 0 => at \in I
  <2> HIDE DEF n
  <2>1. I \in SUBSET (1 .. n)
    OBVIOUS
  <2> HIDE DEF I
  <2> QED BY <2>1, <1>1, Found
<1>4. I # {}
  BY <1>1 DEF ToSet
<1>5. at \in 1 .. n /\ q[at] = b
  BY <1>1, <1>3, <1>4
<1> HIDE DEF at, I, n
<1>6. PICK i \in 1 .. n : q[i] = e
  BY <1>1 DEF ToSet
<1>7. \A l \in 1 .. n : q[l] \in Cells /\ q[l] # End /\ t.ev[q[l]].frame \in Nat
  <2>1. \A l \in 1 .. n : q[l] \in Cells
    BY <1>1, ElementOfSeq DEF n
  <2> QED BY <2>1, CellAssumption DEF Typed, Listed
<1>8. \A l, m \in 1 .. n : l < m => t.ev[q[l]].frame <= t.ev[q[m]].frame
  BY <1>1 DEF Ordered, Listed, q
<1>9. at < i
  <2>1. ~(i < at) /\ i # at
    BY <1>5, <1>6, <1>7, <1>8
  <2> QED BY <2>1, <1>1, <1>5
<1>10. at + 1 \in 1 .. n /\ at # n /\ at < at + 1 /\ (at + 1 < i \/ at + 1 = i)
  BY <1>1, <1>5, <1>9
<1>11. /\ t.ev[b].frame <= t.ev[q[at + 1]].frame
       /\ t.ev[q[at + 1]].frame <= t.ev[e].frame
  BY <1>5, <1>6, <1>7, <1>8, <1>10
<1>12. After(q, b) = q[at + 1]
  BY <1>2, <1>10
<1> QED BY <1>5, <1>6, <1>7, <1>10, <1>11, <1>12 DEF q

(* Erasing the first of the events alike leaves none, as the list has no   *)
(* two.                                                                    *)
LEMMA FirstRemoved ==
    ASSUME NEW C, NEW q \in Seq(C), NEW e \in ToSet(q),
           \A i, j \in DOMAIN q : i < j => q[i] # q[j]
    PROVE  RemoveFirst(q, e) \in Seq(C) /\ Thinned(q, RemoveFirst(q, e), {e})
<1> DEFINE n == Len(q)
           I == {i \in 1 .. n : q[i] = e}
           at == IF I # {} THEN Min(I) ELSE 0
           a == SubSeq(q, 1, at - 1)
           b == SubSeq(q, at + 1, n)
           r == a \o b
<1>1. n \in Nat /\ DOMAIN q = 1 .. n
  BY LenProperties
<1>2. \E i \in 1 .. n : q[i] = e
  BY <1>1 DEF ToSet
<1>3. RemoveFirst(q, e) = r
  BY <1>2 DEF RemoveFirst, RemoveAt, SelectInSeq
<1>4. at \in 1 .. n /\ q[at] = e
  <2>1. I # {}
    BY <1>2
  <2>2. /\ at \in 0 .. n
        /\ (at = 0) <=> (I = {})
        /\ at # 0 => at \in I
    <3> HIDE DEF n
    <3>1. I \in SUBSET (1 .. n)
      OBVIOUS
    <3> HIDE DEF I
    <3> QED BY <3>1, <1>1, Found
  <2> QED BY <2>1, <2>2
<1> HIDE DEF at, I, n
<1>5. \A i \in 1 .. n : q[i] \in C
  BY ElementOfSeq DEF n
<1>6. a \in Seq(C) /\ Len(a) = at - 1 /\ \A i \in 1 .. at - 1 : a[i] = q[i]
  <2>1. \A i \in 1 .. at - 1 : q[i] \in C
    BY <1>1, <1>4, <1>5
  <2>2. /\ a \in Seq(C)
        /\ Len(a) = IF 1 <= at - 1 THEN at - 1 - 1 + 1 ELSE 0
        /\ \A i \in 1 .. at - 1 - 1 + 1 : a[i] = q[1 + i - 1]
    BY <2>1, <1>1, <1>4, SubSeqProperties
  <2> HIDE DEF a
  <2> QED BY <2>2, <1>1, <1>4
<1>7. b \in Seq(C) /\ Len(b) = n - at /\ \A i \in 1 .. n - at : b[i] = q[at + i]
  <2>1. \A i \in at + 1 .. n : q[i] \in C
    BY <1>1, <1>4, <1>5
  <2>2. /\ b \in Seq(C)
        /\ Len(b) = IF at + 1 <= n THEN n - (at + 1) + 1 ELSE 0
        /\ \A i \in 1 .. n - (at + 1) + 1 : b[i] = q[at + 1 + i - 1]
    BY <2>1, <1>1, <1>4, SubSeqProperties
  <2> HIDE DEF b
  <2> QED BY <2>2, <1>1, <1>4
<1> HIDE DEF a, b
<1>8. /\ r \in Seq(C) /\ Len(r) = n - 1 /\ DOMAIN r = 1 .. n - 1
      /\ \A i \in 1 .. n - 1 : r[i] = IF i < at THEN q[i] ELSE q[i + 1]
  <2>1. /\ r \in Seq(C) /\ Len(r) = Len(a) + Len(b)
        /\ \A i \in 1 .. Len(a) + Len(b) : r[i] = IF i <= Len(a) THEN a[i] ELSE b[i - Len(a)]
    BY <1>6, <1>7, ConcatProperties
  <2>2. DOMAIN r = 1 .. Len(r)
    BY <2>1, LenProperties
  <2> HIDE DEF r
  <2>3. Len(a) + Len(b) = n - 1
    BY <1>1, <1>4, <1>6, <1>7
  <2>4. ASSUME NEW i \in 1 .. n - 1 PROVE r[i] = IF i < at THEN q[i] ELSE q[i + 1]
    <3>1. r[i] = IF i <= Len(a) THEN a[i] ELSE b[i - Len(a)]
      BY <2>1, <2>3
    <3>2. CASE i < at
      BY <3>1, <3>2, <1>4, <1>6
    <3>3. CASE ~(i < at)
      <4>1. i - Len(a) \in 1 .. n - at /\ at + (i - Len(a)) = i + 1 /\ ~(i <= Len(a))
        BY <3>3, <1>1, <1>4, <1>6
      <4>2. r[i] = b[i - Len(a)] /\ b[i - Len(a)] = q[at + (i - Len(a))]
        BY <3>1, <4>1, <1>7
      <4> QED BY <4>1, <4>2, <3>3
    <3> QED BY <3>2, <3>3
  <2> QED BY <2>1, <2>2, <2>3, <2>4
<1> HIDE DEF r
<1> DEFINE p == [k \in DOMAIN r |-> IF k < at THEN k ELSE k + 1]
<1>9. p \in [DOMAIN r -> DOMAIN q]
  BY <1>1, <1>4, <1>8
<1>10. \A k, l \in DOMAIN r : k < l => p[k] < p[l]
  BY <1>1, <1>4, <1>8
<1>11. \A k \in DOMAIN r : r[k] = q[p[k]] /\ p[k] # at
  BY <1>1, <1>4, <1>8
<1>12. \A i \in DOMAIN q : i # at => q[i] # e
  BY <1>1, <1>4
<1>13. \A i \in DOMAIN q : i # at => \E k \in DOMAIN r : r[k] = q[i]
  <2>1. ASSUME NEW i \in DOMAIN q, i # at PROVE \E k \in DOMAIN r : r[k] = q[i]
    <3>1. CASE i < at
      BY <3>1, <1>1, <1>4, <1>8
    <3>2. CASE i > at
      <4>1. i - 1 \in DOMAIN r /\ r[i - 1] = q[i]
        BY <3>2, <1>1, <1>4, <1>8
      <4> QED BY <4>1
    <3> QED BY <3>1, <3>2, <2>1, <1>1, <1>4
  <2> QED BY <2>1
<1> HIDE DEF p
<1>14. Thinned(q, r, {e})
  <2>1. \A k \in DOMAIN r : r[k] = q[p[k]] /\ r[k] \notin {e}
    BY <1>9, <1>11, <1>12
  <2>2. \A i \in DOMAIN q : q[i] \notin {e} => \E k \in DOMAIN r : r[k] = q[i]
    BY <1>4, <1>13
  <2> QED BY <2>1, <2>2, <1>9, <1>10 DEF Thinned
<1> QED BY <1>3, <1>8, <1>14

(* _remove_event deletes the event like the given one, if there is one.    *)
Alike(t, e, f) == t.ev[e].type = t.ev[f].type /\ t.ev[e].frame = t.ev[f].frame
Removed(t, u, e) ==
    /\ Listed(u) /\ Rest(t, u) /\ u.ev = t.ev /\ u.immediate = t.immediate
    /\ ToSet(u.events) = {f \in ToSet(t.events) : ~Alike(t, f, e)}
    /\ u.live = t.live \ {f \in ToSet(t.events) : Alike(t, f, e)}
    /\ u = t \/ Heads(u)
(* _remove_event, which moves next_event on when it erases that.           *)
LEMMA RemoveRemoves ==
    ASSUME NEW t, Listed(t), NEW e
    PROVE  Removed(t, RemoveEvent(t, e), e)
<1> DEFINE q == t.events
           n == Len(q)
           I == {i \in 1 .. n : /\ t.ev[q[i]].type = t.ev[e].type
                                /\ t.ev[q[i]].frame = t.ev[e].frame}
           at == IF I # {} THEN Min(I) ELSE 0
           old == IF at = 0 THEN End ELSE q[at]
           gone == {f \in ToSet(q) : Alike(t, f, e)}
           v == [Delete(t, old) EXCEPT !.next = IF @ = old THEN After(q, old) ELSE @,
                                       !.events = RemoveFirst(@, old)]
           u == SetNextEvent(v)
<1>1. /\ q \in Seq(Cells) /\ n \in Nat /\ DOMAIN q = 1 .. n
      /\ \A i \in DOMAIN q : q[i] \in Cells /\ q[i] # End
  <2>1. /\ q \in Seq(Cells) /\ n \in Nat /\ DOMAIN q = 1 .. n
    BY LenProperties DEF Typed, Listed
  <2>2. \A i \in DOMAIN q : q[i] \in Cells
    BY <2>1, ElementOfSeq
  <2> QED BY <2>1, <2>2, CellAssumption
<1>2. RemoveEvent(t, e) = IF old = End THEN t ELSE u
  BY DEF RemoveEvent, First, SelectInSeq
<1>3. /\ at \in 0 .. n
      /\ (at = 0) <=> (I = {})
      /\ at # 0 => at \in I
  <2> HIDE DEF n
  <2>1. I \in SUBSET (1 .. n)
    OBVIOUS
  <2> HIDE DEF I
  <2> QED BY <2>1, <1>1, Found
<1>4. \A i \in DOMAIN q : Alike(t, q[i], e) <=> i \in I
  BY <1>1 DEF Alike
<1>5. old = End => gone = {}
  <2>1. at # 0 => q[at] # End
    BY <1>1, <1>3
  <2>2. old = End => I = {}
    BY <2>1, <1>3
  <2> QED BY <2>2, <1>4 DEF ToSet
<1>6. old # End => old \in ToSet(q) /\ Alike(t, old, e)
  BY <1>1, <1>3, <1>4 DEF ToSet
<1> HIDE DEF at, I, old, n
<1>7. CASE old = End
  <2>1. gone = {}
    BY <1>5, <1>7
  <2>2. RemoveEvent(t, e) = t
    BY <1>2, <1>7
  <2> QED BY <2>1, <2>2 DEF Removed, Rest
<1>8. CASE old # End
  <2>1. \A i, j \in DOMAIN q : i # j => Apart(t, q[i], q[j])
    BY OrderedApart DEF Listed
  <2>2. \A f \in ToSet(q) : f # old => Apart(t, f, old)
    BY <2>1, <1>6, <1>8 DEF ToSet
  <2>3. gone = {old}
    BY <2>2, <1>6, <1>8 DEF Apart, Alike
  <2>4. \A i, j \in DOMAIN q : i < j => q[i] # q[j]
    BY DEF Listed, Ordered, Apart
  <2>5. /\ RemoveFirst(q, old) \in Seq(Cells)
        /\ Thinned(q, RemoveFirst(q, old), {old})
    BY <2>4, <1>1, <1>6, <1>8, FirstRemoved
  <2>6. After(q, old) \in ToSet(q) \cup {End} /\ After(q, old) # old
    BY <2>4, <1>1, <1>8, AfterLeads
  <2>7. /\ DOMAIN v = DOMAIN t /\ Rest(t, v) /\ v.ev = t.ev /\ v.live = t.live \ {old}
        /\ v.immediate = t.immediate /\ v.frame = t.frame /\ v.events = RemoveFirst(q, old)
        /\ v.next = IF t.next = old THEN After(q, old) ELSE t.next
    BY DEF Rest, Listed, Typed, ListFields, Delete
  <2> HIDE DEF v
  <2>8. IsFiniteSet(v.live) /\ v.live \in SUBSET Cells
    <3>1. v.live \in SUBSET t.live
      BY <2>7
    <3> QED BY <3>1, FS_Subset DEF Listed, Typed
  <2>9. Typed(v)
    BY <2>5, <2>7, <2>8 DEF Typed, Listed
  <2>10. Ordered(v)
    BY <2>5, <2>7, ThinnedOrder
  <2>11. ToSet(v.events) = ToSet(q) \ {old}
    BY <2>5, <2>7, ThinnedSet
  <2>12. Listed(v)
    BY <2>6, <2>7, <2>9, <2>10, <2>11, <1>8 DEF Listed
  <2>13. /\ Listed(u) /\ Rest(v, u) /\ u.ev = v.ev /\ u.live = v.live
         /\ u.events = v.events /\ u.immediate = v.immediate /\ Heads(u)
    BY <2>12, NextKeeps
  <2> HIDE DEF u
  <2>14. Rest(t, u)
    BY <2>7, <2>13 DEF Rest
  <2>15. ToSet(u.events) = {f \in ToSet(q) : ~Alike(t, f, e)}
    BY <2>3, <2>11, <2>13
  <2>16. u.live = t.live \ gone
    BY <2>3, <2>7, <2>13
  <2>17. RemoveEvent(t, e) = u
    BY <1>2, <1>8
  <2> QED BY <2>7, <2>13, <2>14, <2>15, <2>16, <2>17 DEF Removed
<1> QED BY <1>7, <1>8

-----------------------------------------------------------------------------
(* A pool that never runs dry: the code does not outlive one that does.    *)
NeverDry == \A S \in SUBSET Cells : IsFiniteSet(S) => Cells \ S # {}

LEMMA ToSetFinite ==
    ASSUME NEW C, NEW q \in Seq(C)
    PROVE  IsFiniteSet(ToSet(q)) /\ ToSet(q) \subseteq C
<1>1. Len(q) \in Nat /\ DOMAIN q = 1 .. Len(q) /\ q \in [1 .. Len(q) -> C]
  BY LenProperties
<1>2. IsFiniteSet(1 .. Len(q))
  BY <1>1, FS_Interval
<1>3. q \in Surjection(1 .. Len(q), ToSet(q))
  <2>1. q \in [1 .. Len(q) -> ToSet(q)]
    BY <1>1 DEF ToSet
  <2>2. \A e \in ToSet(q) : \E i \in 1 .. Len(q) : q[i] = e
    BY <1>1 DEF ToSet
  <2> QED BY <2>1, <2>2, Zenon DEF Surjection
<1> QED BY <1>1, <1>2, <1>3, FS_Surjection DEF ToSet

(* A pool that is never dry hands out a cell that nothing refers to.       *)
LEMMA NewIsFree ==
    ASSUME NeverDry, NEW t, Listed(t), NEW kept, IsFiniteSet(kept)
    PROVE  New(t, kept) \in Cells \ (kept \cup t.live \cup ToSet(t.immediate))
<1> DEFINE referred == kept \cup t.live \cup ToSet(t.immediate)
           S == Cells \cap referred
           X == Cells \ referred
<1>1. IsFiniteSet(S)
  <2>1. IsFiniteSet(ToSet(t.immediate)) /\ IsFiniteSet(t.live)
    BY ToSetFinite DEF Listed, Typed
  <2>2. IsFiniteSet(referred)
    BY <2>1, FS_Union
  <2>3. S \in SUBSET referred
    OBVIOUS
  <2> QED BY <2>2, <2>3, FS_Subset
<1>2. X # {} /\ X \in SUBSET Nat
  <2>1. Cells \ S # {}
    BY <1>1 DEF NeverDry
  <2> QED BY <2>1, CellAssumption
<1> HIDE DEF X
<1>3. Min(X) \in X /\ \A f \in X : Min(X) <= f
  BY <1>2, MinOf
<1>4. (CHOOSE e \in X : \A f \in X : e <= f) \in X
  BY <1>3
<1> QED BY <1>4 DEF New, X

(* A new event is in no list yet.                                          *)
Begun(t, u, e, event) ==
    /\ Listed(u) /\ Rest(t, u) /\ u.live = t.live \cup {e}
    /\ u.events = t.events /\ u.immediate = t.immediate
    /\ u.ev[e] = event /\ \A c \in Cells \ {e} : u.ev[c] = t.ev[c]
(* A new event is in no list, and the others are what they were.           *)
LEMMA CreatedBegins ==
    ASSUME NEW t, Listed(t), NEW kept, NEW event,
           New(t, kept) \in Cells \ t.live,
           {"type", "frame", "target"} \subseteq DOMAIN event, event.frame \in Nat
    PROVE  Begun(t, Created(t, kept, event), New(t, kept), event)
<1> DEFINE e == New(t, kept)
           evs == [t.ev EXCEPT ![e] = event]
           u == [t EXCEPT !.ev = evs, !.live = @ \cup {e}]
<1>1. Created(t, kept, event) = u
  BY DEF Created, Listed, Typed, ListFields
<1>2. e \in Cells \ t.live
  OBVIOUS
<1> HIDE DEF e
<1>3. DOMAIN evs = Cells /\ evs[e] = event /\ \A c \in Cells \ {e} : evs[c] = t.ev[c]
  BY <1>2 DEF Listed, Typed
<1> HIDE DEF evs
<1>4. /\ DOMAIN u = DOMAIN t /\ Rest(t, u) /\ u.ev = evs /\ u.live = t.live \cup {e}
      /\ u.immediate = t.immediate /\ u.frame = t.frame /\ u.events = t.events
      /\ u.next = t.next
  BY DEF Rest, Listed, Typed, ListFields
<1> HIDE DEF u
<1>5. IsFiniteSet(u.live) /\ u.live \in SUBSET Cells
  BY <1>2, <1>4, FS_AddElement DEF Listed, Typed
<1>6. \A c \in Cells : /\ {"type", "frame", "target"} \subseteq DOMAIN u.ev[c]
                       /\ u.ev[c].frame \in Nat
  <2>1. \A c \in Cells : c = e \/ u.ev[c] = t.ev[c]
    BY <1>3, <1>4
  <2> QED BY <2>1, <1>3, <1>4 DEF Listed, Typed
<1>7. Typed(u)
  BY <1>3, <1>4, <1>5, <1>6 DEF Typed, Listed
<1>8. \A i \in DOMAIN u.events : u.events[i] \in Cells \ {e}
  <2>1. \A i \in DOMAIN t.events : t.events[i] \in t.live
    BY DEF Listed, ToSet
  <2> QED BY <2>1, <1>2, <1>4 DEF Listed, Typed
<1>9. Ordered(u)
  <2>1. \A i \in DOMAIN u.events : u.ev[u.events[i]] = t.ev[t.events[i]]
    BY <1>3, <1>4, <1>8
  <2> QED BY <2>1, <1>4 DEF Ordered, Apart, Listed
<1>10. Listed(u)
  BY <1>4, <1>7, <1>9 DEF Listed
<1>11. Begun(t, u, e, event)
  BY <1>3, <1>4, <1>10 DEF Begun
<1> QED BY <1>1, <1>11 DEF e

(* To delete an event that is in no list leaves the lists sound.           *)
LEMMA DeleteKeeps ==
    ASSUME NEW t, Listed(t), NEW e, e \notin ToSet(t.events)
    PROVE  LET u == Delete(t, e)
           IN  /\ Listed(u) /\ Rest(t, u) /\ u.ev = t.ev /\ u.live = t.live \ {e}
               /\ u.events = t.events /\ u.immediate = t.immediate
<1> DEFINE u == Delete(t, e)
<1>1. /\ DOMAIN u = DOMAIN t /\ Rest(t, u) /\ u.ev = t.ev /\ u.live = t.live \ {e}
      /\ u.immediate = t.immediate /\ u.frame = t.frame /\ u.events = t.events
      /\ u.next = t.next
  BY DEF Rest, Listed, Typed, ListFields, Delete
<1> HIDE DEF u
<1>2. IsFiniteSet(u.live) /\ u.live \in SUBSET Cells
  <2>1. u.live \in SUBSET t.live
    BY <1>1
  <2> QED BY <2>1, FS_Subset DEF Listed, Typed
<1>3. Typed(u)
  BY <1>1, <1>2 DEF Typed, Listed
<1>4. Ordered(u)
  BY <1>1 DEF Ordered, Apart, Listed
<1>5. Listed(u)
  BY <1>1, <1>3, <1>4 DEF Listed
<1> QED BY <1>1, <1>5 DEF u
=============================================================================
