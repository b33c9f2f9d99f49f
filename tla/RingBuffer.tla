----------------------------- MODULE RingBuffer -----------------------------
(***************************************************************************)
(* The arithmetic of RingBufferNPT (libs/pbd/pbd/ringbufferNPT.h): a ring  *)
(* of Size cells with the reader at r and the writer at w, of which one    *)
(* cell always stays free.  A stretch of the ring is a vector of at most   *)
(* two parts, since it may go on at cell 0.                                *)
(***************************************************************************)
EXTENDS Integers

CONSTANT Size       \* of cells, at least one
HasCells == Size \in Nat \ {0}

Positions == 0 .. Size - 1

(* The spaces and a vector, each from one look at both positions.          *)
ReadSpace(r, w) == IF w > r THEN w - r ELSE (w - r + Size) % Size
WriteSpace(r, w) ==
    CASE w > r -> ((r - w + Size) % Size) - 1
      [] w < r -> r - w - 1
      [] w = r -> Size - 1

AdvancedUnwrapped(p, n) == p + n
Advanced(p, n) == (p + n) % Size

Vector(p, n) ==
    IF p + n > Size
    THEN <<[at |-> p, len |-> Size - p], [at |-> 0, len |-> (p + n) % Size]>>
    ELSE <<[at |-> p, len |-> n], [at |-> 0, len |-> 0]>>
ReadVector(r, w) == Vector(r, ReadSpace(r, w))
WriteVector(r, w) == Vector(w, WriteSpace(r, w))

(* Copying consecutive frames, from first on, into the first n cells of a  *)
(* part or of a vector, and copying out of one.                            *)
Stored(cell, part, n, first) ==
    [c \in Positions |->
        IF part.at <= c /\ c < part.at + n THEN first + c - part.at ELSE cell[c]]
Written(cell, vec, n, first) ==
    LET n1 == IF n <= vec[1].len THEN n ELSE vec[1].len
    IN  Stored(Stored(cell, vec[1], n1, first), vec[2], n - n1, first + n1)
Taken(cell, vec, n) ==
    [k \in 1 .. n |-> IF k <= vec[1].len THEN cell[vec[1].at + k - 1]
                     ELSE cell[vec[2].at + k - 1 - vec[1].len]]

(* What a reader has before it.                                            *)
Contents(cell, r, w) ==
    [k \in 1 .. ReadSpace(r, w) |-> cell[Advanced(r, k - 1)]]
=============================================================================
