-------------------------- MODULE RingBufferProofs --------------------------
(***************************************************************************)
(* What the arithmetic of RingBufferNPT guarantees for every size.         *)
(***************************************************************************)
EXTENDS RingBuffer, SequenceTheorems, TLAPS

(* The modulus of a sum that is less than twice around.                    *)
LEMMA Once ==
    ASSUME HasCells, NEW a \in Nat, a < Size
    PROVE  a % Size = a
BY DEF HasCells

(* and of one that is once around.                                         *)
LEMMA Twice ==
    ASSUME HasCells, NEW a \in Nat, Size <= a, a < 2 * Size
    PROVE  a % Size = a - Size
BY Z3 DEF HasCells

(* How far it is from the one position to the other.                       *)
Ahead(r, w) == IF w >= r THEN w - r ELSE w - r + Size
Sum(p, n) == IF p + n < Size THEN p + n ELSE p + n - Size

(* A position that is moved on by no more than the whole ring              *)
LEMMA AdvancedIs ==
    ASSUME HasCells, NEW p \in Positions, NEW n \in 0 .. Size
    PROVE  Advanced(p, n) = Sum(p, n)
<1>1. p \in Nat /\ p < Size /\ n \in Nat /\ Size \in Nat
  BY DEF HasCells, Positions
<1>2. CASE p + n < Size
  BY <1>1, <1>2, Once DEF Advanced, Sum
<1>3. CASE p + n >= Size
  BY <1>1, <1>3, Twice DEF Advanced, Sum
<1> QED
  BY <1>1, <1>2, <1>3

(* What there is to read                                                   *)
LEMMA ReadSpaceIs ==
    ASSUME HasCells, NEW r \in Positions, NEW w \in Positions
    PROVE  ReadSpace(r, w) = Ahead(r, w)
<1>1. r \in Nat /\ w \in Nat /\ r < Size /\ w < Size /\ Size \in Nat
  BY DEF HasCells, Positions
<1>2. CASE w > r
  BY <1>1, <1>2 DEF ReadSpace, Ahead
<1>3. CASE w = r
  <2>1. (w - r + Size) % Size = 0
    BY <1>1, <1>3, Twice
  <2> QED
    BY <1>1, <1>3, <2>1 DEF ReadSpace, Ahead
<1>4. CASE w < r
  <2>1. (w - r + Size) % Size = w - r + Size
    BY <1>1, <1>4, Once
  <2> QED
    BY <1>1, <1>4, <2>1 DEF ReadSpace, Ahead
<1> QED
  BY <1>1, <1>2, <1>3, <1>4

(* One cell is neither to be read nor to be written                        *)
(* (RingBufferNPT::read_space, write_space).                               *)
THEOREM SpacesAddUp ==
    ASSUME HasCells, NEW r \in Positions, NEW w \in Positions
    PROVE  /\ ReadSpace(r, w) \in 0 .. Size - 1
           /\ WriteSpace(r, w) = Size - 1 - ReadSpace(r, w)
<1>1. r \in Nat /\ w \in Nat /\ r < Size /\ w < Size /\ Size \in Nat
  BY DEF HasCells, Positions
<1>2. ReadSpace(r, w) = Ahead(r, w)
  BY ReadSpaceIs
<1>3. CASE w > r
  <2>1. (r - w + Size) % Size = r - w + Size
    BY <1>1, <1>3, Once
  <2> QED
    BY <1>1, <1>2, <1>3, <2>1 DEF WriteSpace, Ahead
<1>4. CASE w <= r
  BY <1>1, <1>2, <1>4 DEF WriteSpace, Ahead
<1> QED
  BY <1>1, <1>3, <1>4

(* A writer that stays within its space adds to what the reader sees       *)
(* (increment_write_ptr).                                                  *)
THEOREM AfterWriting ==
    ASSUME HasCells, NEW r \in Positions, NEW w \in Positions, NEW n \in 0 .. WriteSpace(r, w)
    PROVE  /\ Advanced(w, n) \in Positions
           /\ ReadSpace(r, Advanced(w, n)) = ReadSpace(r, w) + n
           /\ WriteSpace(r, Advanced(w, n)) = WriteSpace(r, w) - n
<1>1. r \in Nat /\ w \in Nat /\ r < Size /\ w < Size /\ Size \in Nat
  BY DEF HasCells, Positions
<1>2. ReadSpace(r, w) = Ahead(r, w) /\ WriteSpace(r, w) = Size - 1 - Ahead(r, w)
  BY SpacesAddUp, ReadSpaceIs
<1>3. n \in 0 .. Size /\ n <= Size - 1 - Ahead(r, w)
  BY <1>1, <1>2 DEF Ahead
<1>4. Advanced(w, n) = Sum(w, n)
  BY <1>3, AdvancedIs
<1>5. Sum(w, n) \in Positions /\ Ahead(r, Sum(w, n)) = Ahead(r, w) + n
  BY <1>1, <1>3 DEF Ahead, Sum, Positions
<1>6. /\ ReadSpace(r, Sum(w, n)) = Ahead(r, Sum(w, n))
      /\ WriteSpace(r, Sum(w, n)) = Size - 1 - Ahead(r, Sum(w, n))
  BY <1>5, SpacesAddUp, ReadSpaceIs
<1>7. Ahead(r, w) \in Int /\ n \in Int
  BY <1>1 DEF Ahead
<1> QED
  BY <1>1, <1>2, <1>4, <1>5, <1>6, <1>7

(* A reader that takes no more than there is gives it back to the writer   *)
(* (increment_read_ptr).                                                   *)
THEOREM AfterReading ==
    ASSUME HasCells, NEW r \in Positions, NEW w \in Positions, NEW n \in 0 .. ReadSpace(r, w)
    PROVE  /\ Advanced(r, n) \in Positions
           /\ ReadSpace(Advanced(r, n), w) = ReadSpace(r, w) - n
           /\ WriteSpace(Advanced(r, n), w) = WriteSpace(r, w) + n
<1>1. r \in Nat /\ w \in Nat /\ r < Size /\ w < Size /\ Size \in Nat
  BY DEF HasCells, Positions
<1>2. ReadSpace(r, w) = Ahead(r, w) /\ WriteSpace(r, w) = Size - 1 - Ahead(r, w)
  BY SpacesAddUp, ReadSpaceIs
<1>3. n \in 0 .. Size /\ n <= Ahead(r, w)
  BY <1>1, <1>2 DEF Ahead
<1>4. Advanced(r, n) = Sum(r, n)
  BY <1>3, AdvancedIs
<1>5. Sum(r, n) \in Positions /\ Ahead(Sum(r, n), w) = Ahead(r, w) - n
  BY <1>1, <1>3 DEF Ahead, Sum, Positions
<1>6. /\ ReadSpace(Sum(r, n), w) = Ahead(Sum(r, n), w)
      /\ WriteSpace(Sum(r, n), w) = Size - 1 - Ahead(Sum(r, n), w)
  BY <1>5, SpacesAddUp, ReadSpaceIs
<1>7. Ahead(r, w) \in Int /\ n \in Int
  BY <1>1 DEF Ahead
<1> QED
  BY <1>1, <1>2, <1>4, <1>5, <1>6, <1>7

(* Two steps of the reader are one.                                        *)
LEMMA Further ==
    ASSUME HasCells, NEW p \in Positions, NEW n \in 0 .. Size, NEW k \in 0 .. Size - n
    PROVE  Advanced(Advanced(p, n), k) = Advanced(p, n + k)
<1>1. p \in Nat /\ p < Size /\ n \in Nat /\ k \in Nat /\ n + k <= Size /\ Size \in Nat
  BY DEF HasCells, Positions
<1>2. Advanced(p, n) = Sum(p, n) /\ Sum(p, n) \in Positions
  BY <1>1, AdvancedIs DEF Sum, Positions
<1>3. k \in 0 .. Size
  BY <1>1
<1>4. Advanced(Sum(p, n), k) = Sum(Sum(p, n), k)
  BY <1>2, <1>3, AdvancedIs
<1>5. n + k \in 0 .. Size /\ Sum(Sum(p, n), k) = Sum(p, n + k)
  BY <1>1 DEF Sum
<1> QED
  BY <1>2, <1>4, <1>5, AdvancedIs

(* A reader that takes more than there is, as process does when it plays   *)
(* what it records, has almost a whole ring of stale cells before it.      *)
THEOREM Overtaking ==
    ASSUME HasCells, NEW r \in Positions, NEW w \in Positions,
           NEW n \in ReadSpace(r, w) + 1 .. Size - 1
    PROVE  ReadSpace(Advanced(r, n), w) = Size - (n - ReadSpace(r, w))
<1>1. r \in Nat /\ w \in Nat /\ r < Size /\ w < Size /\ Size \in Nat
  BY DEF HasCells, Positions
<1>2. ReadSpace(r, w) = Ahead(r, w) /\ Ahead(r, w) \in Nat
  BY <1>1, ReadSpaceIs DEF Ahead
<1>3. n \in 0 .. Size /\ n > Ahead(r, w) /\ n < Size
  BY <1>1, <1>2
<1>4. Advanced(r, n) = Sum(r, n)
  BY <1>3, AdvancedIs
<1>5. Sum(r, n) \in Positions /\ Ahead(Sum(r, n), w) = Size - (n - Ahead(r, w))
  BY <1>1, <1>3 DEF Ahead, Sum, Positions
<1> QED
  BY <1>2, <1>4, <1>5, ReadSpaceIs

-----------------------------------------------------------------------------
(* Vectors.                                                                *)

(* The k-th cell of a vector.                                              *)
Cell(vec, k) == IF k < vec[1].len THEN vec[1].at + k ELSE vec[2].at + k - vec[1].len

(* get_read_vector and get_write_vector go through the ring, and the two   *)
(* parts do not overlap, also when the first ends exactly at its end.      *)
THEOREM VectorGoesRound ==
    ASSUME HasCells, NEW p \in Positions, NEW n \in 0 .. Size - 1
    PROVE  /\ Vector(p, n)[1].len + Vector(p, n)[2].len = n
           /\ Vector(p, n)[1].at = p /\ Vector(p, n)[2].at = 0
           /\ Vector(p, n)[1].len \in Nat /\ Vector(p, n)[2].len \in Nat
           /\ p + Vector(p, n)[1].len <= Size
           /\ Vector(p, n)[2].len > 0 => p + Vector(p, n)[1].len = Size
           /\ \A k \in 0 .. n - 1 : Cell(Vector(p, n), k) = Advanced(p, k)
<1>1. p \in Nat /\ p < Size /\ n \in Nat /\ n < Size /\ Size \in Nat
  BY DEF HasCells, Positions
<1>2. CASE p + n > Size
  <2>1. (p + n) % Size = p + n - Size
    BY <1>1, <1>2, Twice
  <2>2. Vector(p, n) = <<[at |-> p, len |-> Size - p], [at |-> 0, len |-> p + n - Size]>>
    BY <1>2, <2>1 DEF Vector
  <2>3. ASSUME NEW k \in 0 .. n - 1 PROVE Cell(Vector(p, n), k) = Sum(p, k)
    BY <1>1, <1>2, <2>2 DEF Cell, Sum
  <2> QED
    BY <1>1, <1>2, <2>2, <2>3, AdvancedIs
<1>3. CASE p + n <= Size
  <2>1. Vector(p, n) = <<[at |-> p, len |-> n], [at |-> 0, len |-> 0]>>
    BY <1>1, <1>3 DEF Vector
  <2>2. ASSUME NEW k \in 0 .. n - 1 PROVE Cell(Vector(p, n), k) = Sum(p, k)
    BY <1>1, <1>3, <2>1 DEF Cell, Sum
  <2> QED
    BY <1>1, <1>3, <2>1, <2>2, AdvancedIs
<1> QED
  BY <1>1, <1>2, <1>3

(* What is copied into a write vector is what the reader gets, and what    *)
(* was there to be read stays as it is.                                    *)
THEOREM WrittenIsRead ==
    ASSUME HasCells, NEW r \in Positions, NEW w \in Positions, NEW n \in 0 .. WriteSpace(r, w),
           NEW cell, NEW first \in Int
    PROVE  LET new == Written(cell, WriteVector(r, w), n, first)
           IN  /\ \A k \in 0 .. n - 1 : new[Advanced(w, k)] = first + k
               /\ \A k \in 0 .. ReadSpace(r, w) - 1 :
                     new[Advanced(r, k)] = cell[Advanced(r, k)]
<1> DEFINE s == WriteSpace(r, w)
           v == Vector(w, s)
           n1 == IF n <= v[1].len THEN n ELSE v[1].len
           new == Written(cell, v, n, first)
<1>1. r \in Nat /\ w \in Nat /\ r < Size /\ w < Size /\ Size \in Nat
  BY DEF HasCells, Positions
<1>2. ReadSpace(r, w) = Ahead(r, w) /\ s = Size - 1 - Ahead(r, w) /\ s \in 0 .. Size - 1
  BY <1>1, SpacesAddUp, ReadSpaceIs DEF Ahead
<1>3. /\ v[1].len + v[2].len = s /\ v[1].at = w /\ v[2].at = 0
      /\ v[1].len \in Nat /\ v[2].len \in Nat
      /\ w + v[1].len <= Size
      /\ v[2].len > 0 => w + v[1].len = Size
  BY <1>2, VectorGoesRound
<1>4. n \in Nat /\ n <= s /\ n1 \in Nat /\ n - n1 \in Nat /\ n1 <= v[1].len
      /\ n - n1 <= v[2].len
  BY <1>2, <1>3
<1>5. ASSUME NEW c \in Positions
      PROVE  new[c] = IF c < n - n1 THEN first + n1 + c
                      ELSE IF w <= c /\ c < w + n1 THEN first + c - w ELSE cell[c]
  <2>1. c \in Nat /\ c < Size
    BY <1>1 DEF Positions
  <2> QED
    BY <1>1, <1>3, <1>4, <2>1 DEF Written, Stored
<1> HIDE DEF v, n1, s, new
<1>6. ASSUME NEW k \in 0 .. n - 1 PROVE new[Advanced(w, k)] = first + k
  <2>1. Advanced(w, k) = Sum(w, k) /\ Sum(w, k) \in Positions
    BY <1>1, <1>2, <1>4, AdvancedIs DEF Sum, Positions
  <2>2. CASE k < n1
    <3>1. Sum(w, k) = w + k /\ w + k >= n - n1
      BY <1>1, <1>2, <1>3, <1>4, <2>2 DEF Sum, Ahead
    <3> QED
      BY <1>1, <1>4, <1>5, <2>1, <2>2, <3>1
  <2>3. CASE k >= n1
    <3>1. n > n1 /\ n1 = v[1].len /\ v[2].len > 0
      BY <1>3, <1>4, <2>3 DEF n1
    <3>2. Sum(w, k) = k - n1 /\ k - n1 < n - n1
      BY <1>1, <1>3, <1>4, <2>3, <3>1 DEF Sum
    <3> QED
      BY <1>1, <1>4, <1>5, <2>1, <2>3, <3>2
  <2> QED
    BY <1>4, <2>2, <2>3
<1>7. ASSUME NEW k \in 0 .. ReadSpace(r, w) - 1
      PROVE  new[Advanced(r, k)] = cell[Advanced(r, k)]
  <2>1. Advanced(r, k) = Sum(r, k) /\ Sum(r, k) \in Positions
    BY <1>1, <1>2, AdvancedIs DEF Sum, Positions, Ahead
  <2>2. ~(w <= Sum(r, k) /\ Sum(r, k) < w + n1)
    BY <1>1, <1>2, <1>3, <1>4 DEF Sum, Ahead
  <2>3. ~(Sum(r, k) < n - n1)
    <3>1. CASE n > n1
      <4>1. w + v[1].len = Size /\ n1 = v[1].len
        BY <1>3, <1>4, <3>1 DEF n1
      <4> QED
        BY <1>1, <1>2, <1>3, <1>4, <4>1 DEF Sum, Ahead
    <3>2. CASE n = n1
      BY <1>1, <1>4, <2>1, <3>2 DEF Positions
    <3> QED
      BY <1>4, <3>1, <3>2
  <2> QED
    BY <1>4, <1>5, <2>1, <2>2, <2>3
<1> QED
  BY <1>6, <1>7 DEF new, v, s, WriteVector

(* What is copied into one part that begins at the writer is what the      *)
(* reader gets after what it had before it.                                *)
THEOREM PartIsRead ==
    ASSUME HasCells, NEW r \in Positions, NEW w \in Positions, NEW n \in 0 .. WriteSpace(r, w),
           NEW cell, NEW first \in Int, NEW part, part.at \in Int,
           n > 0 => part.at = w, w + n <= Size
    PROVE  LET new == Stored(cell, part, n, first)
               had == ReadSpace(r, w)
           IN  \A k \in 0 .. ReadSpace(r, Advanced(w, n)) - 1 :
                  new[Advanced(r, k)] = IF k < had THEN cell[Advanced(r, k)]
                                                   ELSE first + k - had
<1> DEFINE new == Stored(cell, part, n, first)
           had == ReadSpace(r, w)
<1>1. r \in Nat /\ w \in Nat /\ r < Size /\ w < Size /\ Size \in Nat
  BY DEF HasCells, Positions
<1>2. had = Ahead(r, w) /\ WriteSpace(r, w) = Size - 1 - Ahead(r, w) /\ Ahead(r, w) \in Nat
  BY <1>1, SpacesAddUp, ReadSpaceIs DEF Ahead
<1>3. n \in Nat /\ ReadSpace(r, Advanced(w, n)) = had + n /\ had + n < Size
  BY <1>1, <1>2, AfterWriting
<1>4. ASSUME NEW c \in Positions
      PROVE  new[c] = IF w <= c /\ c < w + n THEN first + c - w ELSE cell[c]
  <2>1. c \in Nat
    BY DEF Positions
  <2> QED
    BY <1>1, <1>3, <2>1 DEF Stored
<1> HIDE DEF new, had
<1>5. ASSUME NEW k \in 0 .. ReadSpace(r, Advanced(w, n)) - 1
      PROVE  new[Advanced(r, k)] = IF k < had THEN cell[Advanced(r, k)] ELSE first + k - had
  <2>0. k \in Nat /\ k < had + n
    BY <1>1, <1>2, <1>3
  <2>1. Advanced(r, k) = Sum(r, k) /\ Sum(r, k) \in Positions
    BY <1>1, <1>2, <1>3, <2>0, AdvancedIs DEF Sum, Positions
  <2>2. CASE k < had
    <3>1. ~(w <= Sum(r, k) /\ Sum(r, k) < w + n)
      BY <1>1, <1>2, <1>3, <2>0, <2>2 DEF Sum, Ahead
    <3> QED
      BY <1>4, <2>1, <2>2, <3>1
  <2>3. CASE k >= had
    <3>1. Sum(r, k) = w + (k - had) /\ k - had < n
      BY <1>1, <1>2, <1>3, <2>0, <2>3 DEF Sum, Ahead
    <3> QED
      BY <1>1, <1>2, <1>3, <1>4, <2>1, <2>0, <2>3, <3>1
  <2> QED
    BY <1>2, <1>3, <2>0, <2>2, <2>3
<1> QED
  BY <1>5 DEF new, had

-----------------------------------------------------------------------------
(* What is in a ring, as a sequence.                                       *)
Contiguous(first, n) == [k \in 1 .. n |-> first + k - 1]

(* A sequence whose parts are two sequences                                *)
LEMMA Joined ==
    ASSUME NEW a \in Seq(Int), NEW b \in Seq(Int), NEW c \in Seq(Int),
           NEW m \in Nat, NEW n \in Nat, Len(a) = m, Len(b) = n, Len(c) = m + n,
           \A k \in 1 .. m : c[k] = a[k], \A k \in 1 .. n : c[m + k] = b[k]
    PROVE  c = a \o b
<1>1. /\ a \o b \in Seq(Int) /\ Len(a \o b) = m + n
      /\ \A k \in 1 .. m + n : (a \o b)[k] = IF k <= m THEN a[k] ELSE b[k - m]
  BY ConcatProperties
<1>2. ASSUME NEW k \in 1 .. m + n PROVE c[k] = (a \o b)[k]
  <2>1. CASE k <= m
    <3>1. k \in 1 .. m
      BY <2>1
    <3> QED BY <1>1, <2>1, <3>1
  <2>2. CASE ~ (k <= m)
    <3>1. k - m \in 1 .. n /\ m + (k - m) = k
      BY <2>2
    <3>2. c[m + (k - m)] = b[k - m]
      BY <3>1
    <3> QED BY <1>1, <2>2, <3>1, <3>2
  <2> QED BY <2>1, <2>2
<1>3. Len(c) = Len(a \o b) /\ \A k \in 1 .. Len(c) : c[k] = (a \o b)[k]
  BY <1>1, <1>2
<1> QED BY <1>1, <1>3, SeqEqual

LEMMA ContentsAre ==
    ASSUME HasCells, NEW r \in Positions, NEW w \in Positions, NEW cell \in [Positions -> Int]
    PROVE  /\ Contents(cell, r, w) \in Seq(Int)
           /\ Len(Contents(cell, r, w)) = ReadSpace(r, w)
           /\ \A k \in 1 .. ReadSpace(r, w) :
                Contents(cell, r, w)[k] = cell[Advanced(r, k - 1)]
<1>1. r \in Nat /\ r < Size /\ Size \in Nat /\ ReadSpace(r, w) \in Nat
      /\ ReadSpace(r, w) <= Size
  <2>1. ReadSpace(r, w) \in 0 .. Size - 1
    BY SpacesAddUp
  <2> QED BY <2>1 DEF HasCells, Positions
<1>2. ASSUME NEW k \in 1 .. ReadSpace(r, w) PROVE cell[Advanced(r, k - 1)] \in Int
  <2>1. k - 1 \in 0 .. Size
    BY <1>1
  <2>2. Advanced(r, k - 1) = Sum(r, k - 1) /\ Sum(r, k - 1) \in Positions
    BY <1>1, <2>1, AdvancedIs DEF Sum, Positions
  <2> QED BY <2>2
<1> QED
  BY <1>1, <1>2 DEF Contents

LEMMA ContiguousIs ==
    ASSUME NEW first \in Int, NEW n \in Nat
    PROVE  /\ Contiguous(first, n) \in Seq(Int) /\ Len(Contiguous(first, n)) = n
           /\ \A k \in 1 .. n : Contiguous(first, n)[k] = first + k - 1
BY DEF Contiguous

(* The writer's frames are appended to what is there (process).            *)
THEOREM WritingAppends ==
    ASSUME HasCells, NEW r \in Positions, NEW w \in Positions, NEW n \in 0 .. WriteSpace(r, w),
           NEW cell \in [Positions -> Int], NEW first \in Int
    PROVE  LET new == Written(cell, WriteVector(r, w), n, first)
           IN  /\ new \in [Positions -> Int]
               /\ Contents(new, r, Advanced(w, n)) =
                    Contents(cell, r, w) \o Contiguous(first, n)
<1> DEFINE new == Written(cell, WriteVector(r, w), n, first)
           had == Contents(cell, r, w)
           has == Contents(new, r, Advanced(w, n))
           space == ReadSpace(r, w)
<1>1. /\ r \in Nat /\ w \in Nat /\ r < Size /\ w < Size /\ Size \in Nat
      /\ space \in 0 .. Size - 1 /\ WriteSpace(r, w) = Size - 1 - space
  BY SpacesAddUp DEF HasCells, Positions
<1>2. n \in Nat /\ space + n < Size
  BY <1>1
<1>3. new \in [Positions -> Int]
  <2>1. /\ WriteVector(r, w)[1].at = w /\ WriteVector(r, w)[2].at = 0
        /\ WriteVector(r, w)[1].len \in Nat /\ WriteVector(r, w)[2].len \in Nat
    <3>1. WriteSpace(r, w) \in 0 .. Size - 1
      BY <1>1
    <3> QED BY <3>1, VectorGoesRound DEF WriteVector
  <2>2. \A c \in Positions : c \in Int
    BY DEF Positions
  <2> QED BY <1>1, <1>2, <2>1, <2>2 DEF Written, Stored
<1>4. /\ \A k \in 0 .. n - 1 : new[Advanced(w, k)] = first + k
      /\ \A k \in 0 .. space - 1 : new[Advanced(r, k)] = cell[Advanced(r, k)]
  BY WrittenIsRead
<1> HIDE DEF new
<1>5. Advanced(w, n) \in Positions /\ ReadSpace(r, Advanced(w, n)) = space + n
  BY AfterWriting
<1> HIDE DEF space
<1>6. /\ had \in Seq(Int) /\ Len(had) = space
      /\ \A k \in 1 .. space : had[k] = cell[Advanced(r, k - 1)]
  BY ContentsAre DEF space
<1>7. /\ has \in Seq(Int) /\ Len(has) = space + n
      /\ \A k \in 1 .. space + n : has[k] = new[Advanced(r, k - 1)]
  <2> DEFINE end == Advanced(w, n)
  <2> HIDE DEF end
  <2>1. end \in Positions /\ ReadSpace(r, end) = space + n
    BY <1>5 DEF end
  <2>2. /\ Contents(new, r, end) \in Seq(Int)
        /\ Len(Contents(new, r, end)) = ReadSpace(r, end)
        /\ \A k \in 1 .. ReadSpace(r, end) :
             Contents(new, r, end)[k] = new[Advanced(r, k - 1)]
    BY <1>3, <2>1, ContentsAre
  <2> QED BY <2>1, <2>2, Zenon DEF end, has
<1>8. /\ Contiguous(first, n) \in Seq(Int) /\ Len(Contiguous(first, n)) = n
      /\ \A k \in 1 .. n : Contiguous(first, n)[k] = first + k - 1
  BY <1>2, ContiguousIs
<1> HIDE DEF had, has, space
<1>9. ASSUME NEW k \in 1 .. space PROVE has[k] = had[k]
  <2>1. k - 1 \in 0 .. space - 1 /\ k \in 1 .. space + n
    BY <1>1, <1>2
  <2> QED BY <1>4, <1>6, <1>7, <2>1
<1>10. ASSUME NEW k \in 1 .. n PROVE has[space + k] = Contiguous(first, n)[k]
  <2>1. /\ space + k \in 1 .. space + n /\ k - 1 \in 0 .. n - 1 /\ space \in Nat
        /\ space + k - 1 = space + (k - 1) /\ k - 1 \in Nat /\ space + (k - 1) < Size
    BY <1>1, <1>2
  <2>2. Advanced(r, space + (k - 1)) = Advanced(w, k - 1)
    <3>1. space = Ahead(r, w)
      BY ReadSpaceIs DEF space
    <3>2. space + (k - 1) \in 0 .. Size /\ k - 1 \in 0 .. Size
      BY <1>1, <2>1
    <3>3. /\ Advanced(r, space + (k - 1)) = Sum(r, space + (k - 1))
          /\ Advanced(w, k - 1) = Sum(w, k - 1)
      BY <3>2, AdvancedIs
    <3>4. Sum(r, space + (k - 1)) = Sum(w, k - 1)
      BY <1>1, <2>1, <3>1 DEF Sum, Ahead
    <3> QED BY <3>3, <3>4
  <2>3. new[Advanced(w, k - 1)] = first + (k - 1)
    BY <1>4, <2>1
  <2>4. has[space + k] = new[Advanced(r, space + (k - 1))]
    BY <1>7, <2>1
  <2>5. Contiguous(first, n)[k] = first + k - 1
    BY <1>8
  <2> QED BY <2>2, <2>3, <2>4, <2>5
<1>11. has = had \o Contiguous(first, n)
  <2>1. space \in Nat
    BY <1>1
  <2> QED BY <1>2, <1>6, <1>7, <1>8, <1>9, <1>10, <2>1, Joined
<1> QED BY <1>3, <1>11 DEF new, had, has

(* What is taken through a read vector comes off the front (do_flush).     *)
THEOREM TakingShortens ==
    ASSUME HasCells, NEW r \in Positions, NEW w \in Positions, NEW n \in 0 .. ReadSpace(r, w),
           NEW cell \in [Positions -> Int]
    PROVE  /\ Taken(cell, ReadVector(r, w), n) \in Seq(Int)
           /\ Contents(cell, r, w) =
                Taken(cell, ReadVector(r, w), n) \o Contents(cell, Advanced(r, n), w)
<1> DEFINE taken == Taken(cell, ReadVector(r, w), n)
           had == Contents(cell, r, w)
           has == Contents(cell, Advanced(r, n), w)
           space == ReadSpace(r, w)
<1>1. /\ r \in Nat /\ w \in Nat /\ r < Size /\ w < Size /\ Size \in Nat
      /\ space \in 0 .. Size - 1
  BY SpacesAddUp DEF HasCells, Positions
<1>2. n \in Nat /\ n <= space
  BY <1>1
<1>3. Advanced(r, n) \in Positions /\ ReadSpace(Advanced(r, n), w) = space - n
  BY AfterReading
<1>4. /\ had \in Seq(Int) /\ Len(had) = space
      /\ \A k \in 1 .. space : had[k] = cell[Advanced(r, k - 1)]
  BY ContentsAre
<1>5. /\ has \in Seq(Int) /\ Len(has) = space - n
      /\ \A k \in 1 .. space - n : has[k] = cell[Advanced(Advanced(r, n), k - 1)]
  BY <1>3, ContentsAre
<1>6. ASSUME NEW k \in 1 .. n
      PROVE  taken[k] = cell[Advanced(r, k - 1)]
  <2> DEFINE v == Vector(r, space)
  <2>1. k - 1 \in 0 .. space - 1 /\ k \in Nat
    BY <1>1, <1>2
  <2>2. /\ Cell(v, k - 1) = Advanced(r, k - 1)
        /\ v[1].len \in Nat /\ v[1].at = r /\ v[2].at = 0
    BY <1>1, <2>1, VectorGoesRound
  <2>3. taken[k] = IF k <= v[1].len THEN cell[v[1].at + k - 1]
                   ELSE cell[v[2].at + k - 1 - v[1].len]
    BY DEF Taken, ReadVector
  <2> HIDE DEF v, taken
  <2>4. Cell(v, k - 1) = IF k <= v[1].len THEN v[1].at + k - 1
                         ELSE v[2].at + k - 1 - v[1].len
    BY <1>1, <2>1, <2>2 DEF Cell
  <2> QED BY <2>2, <2>3, <2>4
<1>7. taken \in Seq(Int) /\ Len(taken) = n
  <2>1. ASSUME NEW k \in 1 .. n PROVE taken[k] \in Int
    <3>1. k \in 1 .. space
      BY <1>1, <1>2
    <3>2. had[k] \in Int
      BY <1>4, <3>1, ElementOfSeq
    <3> QED BY <1>4, <1>6, <3>1, <3>2
  <2>2. taken = [k \in 1 .. n |-> taken[k]]
    BY DEF Taken
  <2> HIDE DEF taken
  <2>3. [k \in 1 .. n |-> taken[k]] \in Seq(Int) /\ Len([k \in 1 .. n |-> taken[k]]) = n
    BY <1>2, <2>1
  <2> QED BY <2>2, <2>3
<1> HIDE DEF taken, had, has, space
<1>8. ASSUME NEW k \in 1 .. n PROVE had[k] = taken[k]
  <2>1. k \in 1 .. space
    BY <1>1, <1>2
  <2> QED BY <1>4, <1>6, <2>1
<1>9. ASSUME NEW k \in 1 .. space - n PROVE had[n + k] = has[k]
  <2>1. n + k \in 1 .. space /\ n \in 0 .. Size /\ k - 1 \in 0 .. Size - n
    BY <1>1, <1>2
  <2>2. Advanced(Advanced(r, n), k - 1) = Advanced(r, n + (k - 1))
    BY <2>1, Further
  <2>3. n + (k - 1) = n + k - 1
    BY <1>2
  <2>4. had[n + k] = cell[Advanced(r, n + (k - 1))]
    BY <1>4, <2>1, <2>3
  <2>5. has[k] = cell[Advanced(Advanced(r, n), k - 1)]
    BY <1>5
  <2> QED BY <2>2, <2>4, <2>5
<1>10. had = taken \o has
  <2> DEFINE rest == space - n
  <2>1. rest \in Nat /\ n + rest = space
    BY <1>1, <1>2
  <2>2. /\ Len(has) = rest /\ Len(had) = n + rest
        /\ \A k \in 1 .. rest : had[n + k] = has[k]
    BY <1>4, <1>5, <1>9, <2>1
  <2> HIDE DEF rest
  <2> QED BY <1>2, <1>4, <1>5, <1>7, <1>8, <2>1, <2>2, Joined
<1> QED BY <1>7, <1>10 DEF taken, had, has

(* A reader that has taken all has nothing before it.                      *)
LEMMA NothingLeft ==
    ASSUME HasCells, NEW w \in Positions, NEW cell
    PROVE  ReadSpace(w, w) = 0 /\ Contents(cell, w, w) = <<>>
<1>1. ReadSpace(w, w) = 0
  BY ReadSpaceIs DEF Ahead, Positions
<1> QED BY <1>1 DEF Contents
=============================================================================
