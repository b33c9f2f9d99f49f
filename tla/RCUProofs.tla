----------------------------- MODULE RCUProofs -----------------------------
(***************************************************************************)
(* What holds of RCU for any readers, writers, addresses and number of     *)
(* scopes.  The inductive invariant says who may touch what: a scope's     *)
(* version is its own until update() gives it an address, and whoever is   *)
(* between write_copy's lock and update's unlock knows the current cell.   *)
(***************************************************************************)
EXTENDS RCU, FiniteSetTheorems, TLAPS

(* Scopes have numbers of their own, and nothing is ahead of them.         *)
Numbered ==
    /\ \A w \in Writers : /\ wpc[w] = "idle" <=> copy[w] = None
                          /\ copy[w] # None => copy[w] <= opened
    /\ \A w, x \in Writers : copy[w] = copy[x] /\ w # x => copy[w] = None
    /\ \A c \in Cells : cell[c] # None => cell[c] <= opened
    /\ \A r \in Readers : held[r] # None => held[r] <= opened

(* From write_copy's lock to update's unlock the lock is the writer's.     *)
Locking == {"editing", "edited", "allocated", "exchanged", "deleting",
            "unlocking"}

Exclusive == \A w \in Writers : wpc[w] \in Locking => lock = w

(* Until its edit is made nobody but its writer knows a version.           *)
Private ==
    \A w \in Writers :
        wpc[w] \in {"waiting", "editing"}
          => /\ \A c \in Cells : cell[c] # copy[w]
             /\ \A r \in Readers : held[r] # copy[w]

(* How far an update has come.                                             *)
Updating ==
    \A w \in Writers :
        /\ wpc[w] \in {"editing", "edited", "allocated"}
             => old = gptr /\ contents[cell[gptr]] \subseteq contents[copy[w]]
        /\ wpc[w] \in Locking \ {"editing"} => copy[w] \in contents[copy[w]]
        /\ wpc[w] = "allocated"
             => new[w] \in Cells /\ new[w] # gptr /\ cell[new[w]] = copy[w]
        /\ wpc[w] \in {"exchanged", "deleting"}
             => old \in Cells /\ old # gptr /\ cell[old] # None
        /\ wpc[w] \in {"exchanged", "deleting", "unlocking"}
             => cell[gptr] = copy[w]
        /\ wpc[w] = "deleting" => cell[old] \in dead

(* What a reader has, or is about to have, includes what it should.        *)
Fresh ==
    \A r \in Readers :
        /\ rpc[r] = "reading" <=> held[r] # None
        /\ since[r] \subseteq done
        /\ held[r] # None => since[r] \subseteq contents[held[r]]
        /\ rpc[r] = "loaded"
             => /\ addr[r] \in Cells
                /\ cell[addr[r]] # None
                     => since[r] \subseteq contents[cell[addr[r]]]

(* A version that is read is current, on the dead wood or was flushed.     *)
Retained ==
    \A r \in Readers :
        held[r] # None => \/ \E c \in Cells : cell[c] = held[r]
                          \/ held[r] \in dead \cup swept

Inv ==
    /\ TypeOK /\ Numbered /\ Exclusive /\ Private /\ Updating
    /\ NoUpdateLost /\ Fresh /\ Retained

-----------------------------------------------------------------------------

LEMMA InitInv == Init => Inv
<1> SUFFICES ASSUME Init PROVE Inv
  OBVIOUS
<1> USE BoundAssumption, NoneAssumption DEF Init, Versions
<1>1. PICK c \in Cells :
        gptr = c /\ cell = [d \in Cells |-> IF d = c THEN 0 ELSE None]
  OBVIOUS
<1>2. TypeOK
  BY <1>1 DEF TypeOK
<1>3. Numbered
  BY <1>1 DEF Numbered
<1>4. Exclusive /\ Private /\ Updating
  BY DEF Exclusive, Private, Updating, Locking
<1>5. NoUpdateLost /\ Fresh /\ Retained
  BY <1>1 DEF NoUpdateLost, Fresh, Retained
<1> QED
  BY <1>2, <1>3, <1>4, <1>5 DEF Inv

(* Types are kept: the old cell is known when its version is pushed.       *)
LEMMA TypesStep ==
    ASSUME Inv, [Next]_vars
    PROVE  TypeOK'
<1> USE BoundAssumption, NoneAssumption
        DEF Inv, TypeOK, Versions, Goto, managed, writers, readers
<1>1. ASSUME NEW w \in Writers, Open(w) PROVE TypeOK'
  BY <1>1 DEF Open
<1>2. ASSUME NEW w \in Writers, WriteCopy(w) PROVE TypeOK'
  BY <1>2 DEF WriteCopy, LiveWood, Unlocked, Numbered, NoUpdateLost
<1>3. ASSUME NEW w \in Writers, Edit(w) PROVE TypeOK'
  BY <1>3 DEF Edit, WritersVersion, Numbered
<1>4. ASSUME NEW w \in Writers, Allocate(w) PROVE TypeOK'
  BY <1>4 DEF Allocate, Numbered
<1>5. ASSUME NEW w \in Writers, CompareAndExchange(w) PROVE TypeOK'
  BY <1>5 DEF CompareAndExchange, Unchanged, Updating
<1>6. ASSUME NEW w \in Writers, PushDeadWood(w) PROVE TypeOK'
  BY <1>6 DEF PushDeadWood, OldVersion, Updating
<1>7. ASSUME NEW w \in Writers, Delete(w) PROVE TypeOK'
  BY <1>7 DEF Delete
<1>8. ASSUME NEW w \in Writers, Unlock(w) PROVE TypeOK'
  BY <1>8 DEF Unlock, Released, Numbered
<1>9. ASSUME NEW w \in Writers, NotUnique(w) PROVE TypeOK'
  BY <1>9 DEF NotUnique
<1>10. ASSUME NEW w \in Writers, Leave(w) PROVE TypeOK'
  BY <1>10 DEF Leave
<1>11. ASSUME NEW w \in Writers, Flush(w) PROVE TypeOK'
  BY <1>11 DEF Flush
<1>12. ASSUME NEW r \in Readers, Load(r) PROVE TypeOK'
  BY <1>12 DEF Load
<1>13. ASSUME NEW r \in Readers, Copy(r) PROVE TypeOK'
  BY <1>13 DEF Copy, Fresh
<1>14. ASSUME NEW r \in Readers, Release(r) PROVE TypeOK'
  BY <1>14 DEF Release
<1>15. CASE UNCHANGED vars
  BY <1>15 DEF vars
<1> QED
  BY <1>1, <1>2, <1>3, <1>4, <1>5, <1>6, <1>7,
     <1>8, <1>9, <1>10, <1>11, <1>12, <1>13, <1>14, <1>15 DEF Next, Write, Read

(* Numbers are new when they are given.                                    *)
LEMMA NumberedStep ==
    ASSUME Inv, [Next]_vars
    PROVE  Numbered'
<1> USE BoundAssumption, NoneAssumption
        DEF Inv, TypeOK, Numbered, Versions, Goto, managed, writers, readers
<1>1. ASSUME NEW w \in Writers, Open(w) PROVE Numbered'
  BY <1>1 DEF Open
<1>2. ASSUME NEW w \in Writers, WriteCopy(w) PROVE Numbered'
  BY <1>2 DEF WriteCopy
<1>3. ASSUME NEW w \in Writers, Edit(w) PROVE Numbered'
  BY <1>3 DEF Edit
<1>4. ASSUME NEW w \in Writers, Allocate(w) PROVE Numbered'
  BY <1>4 DEF Allocate
<1>5. ASSUME NEW w \in Writers, CompareAndExchange(w) PROVE Numbered'
  BY <1>5 DEF CompareAndExchange
<1>6. ASSUME NEW w \in Writers, PushDeadWood(w) PROVE Numbered'
  BY <1>6 DEF PushDeadWood
<1>7. ASSUME NEW w \in Writers, Delete(w) PROVE Numbered'
  BY <1>7 DEF Delete
<1>8. ASSUME NEW w \in Writers, Unlock(w) PROVE Numbered'
  BY <1>8 DEF Unlock, Released
<1>9. ASSUME NEW w \in Writers, NotUnique(w) PROVE Numbered'
  BY <1>9 DEF NotUnique
<1>10. ASSUME NEW w \in Writers, Leave(w) PROVE Numbered'
  BY <1>10 DEF Leave
<1>11. ASSUME NEW w \in Writers, Flush(w) PROVE Numbered'
  BY <1>11 DEF Flush
<1>12. ASSUME NEW r \in Readers, Load(r) PROVE Numbered'
  BY <1>12 DEF Load
<1>13. ASSUME NEW r \in Readers, Copy(r) PROVE Numbered'
  BY <1>13 DEF Copy, Fresh
<1>14. ASSUME NEW r \in Readers, Release(r) PROVE Numbered'
  BY <1>14 DEF Release
<1>15. CASE UNCHANGED vars
  BY <1>15 DEF vars
<1> QED
  BY <1>1, <1>2, <1>3, <1>4, <1>5, <1>6, <1>7,
     <1>8, <1>9, <1>10, <1>11, <1>12, <1>13, <1>14, <1>15 DEF Next, Write, Read

(* The lock is taken when it is free.                                      *)
LEMMA ExclusiveStep ==
    ASSUME Inv, [Next]_vars
    PROVE  Exclusive'
<1> USE NoneAssumption
        DEF Inv, TypeOK, Exclusive, Locking, Goto, managed, writers, readers
<1>1. ASSUME NEW w \in Writers, Open(w) PROVE Exclusive'
  BY <1>1 DEF Open
<1>2. ASSUME NEW w \in Writers, WriteCopy(w) PROVE Exclusive'
  BY <1>2 DEF WriteCopy, Unlocked
<1>3. ASSUME NEW w \in Writers, Edit(w) PROVE Exclusive'
  BY <1>3 DEF Edit
<1>4. ASSUME NEW w \in Writers, Allocate(w) PROVE Exclusive'
  BY <1>4 DEF Allocate
<1>5. ASSUME NEW w \in Writers, CompareAndExchange(w) PROVE Exclusive'
  BY <1>5 DEF CompareAndExchange
<1>6. ASSUME NEW w \in Writers, PushDeadWood(w) PROVE Exclusive'
  BY <1>6 DEF PushDeadWood
<1>7. ASSUME NEW w \in Writers, Delete(w) PROVE Exclusive'
  BY <1>7 DEF Delete
<1>8. ASSUME NEW w \in Writers, Unlock(w) PROVE Exclusive'
  BY <1>8 DEF Unlock, Released
<1>9. ASSUME NEW w \in Writers, NotUnique(w) PROVE Exclusive'
  BY <1>9 DEF NotUnique
<1>10. ASSUME NEW w \in Writers, Leave(w) PROVE Exclusive'
  BY <1>10 DEF Leave
<1>11. ASSUME NEW w \in Writers, Flush(w) PROVE Exclusive'
  BY <1>11 DEF Flush
<1>12. ASSUME NEW r \in Readers, Load(r) PROVE Exclusive'
  BY <1>12 DEF Load
<1>13. ASSUME NEW r \in Readers, Copy(r) PROVE Exclusive'
  BY <1>13 DEF Copy
<1>14. ASSUME NEW r \in Readers, Release(r) PROVE Exclusive'
  BY <1>14 DEF Release
<1>15. CASE UNCHANGED vars
  BY <1>15 DEF vars
<1> QED
  BY <1>1, <1>2, <1>3, <1>4, <1>5, <1>6, <1>7,
     <1>8, <1>9, <1>10, <1>11, <1>12, <1>13, <1>14, <1>15 DEF Next, Write, Read

(* A copy leaves its writer's hands only in update.                        *)
LEMMA PrivateStep ==
    ASSUME Inv, [Next]_vars
    PROVE  Private'
<1> USE BoundAssumption, NoneAssumption
        DEF Inv, TypeOK, Private, Versions, Goto, managed, writers, readers
<1>1. ASSUME NEW w \in Writers, Open(w) PROVE Private'
  BY <1>1 DEF Open, Numbered
<1>2. ASSUME NEW w \in Writers, WriteCopy(w) PROVE Private'
  BY <1>2 DEF WriteCopy
<1>3. ASSUME NEW w \in Writers, Edit(w) PROVE Private'
  BY <1>3 DEF Edit
<1>4. ASSUME NEW w \in Writers, Allocate(w) PROVE Private'
  BY <1>4 DEF Allocate, Numbered
<1>5. ASSUME NEW w \in Writers, CompareAndExchange(w) PROVE Private'
  BY <1>5 DEF CompareAndExchange
<1>6. ASSUME NEW w \in Writers, PushDeadWood(w) PROVE Private'
  BY <1>6 DEF PushDeadWood
<1>7. ASSUME NEW w \in Writers, Delete(w) PROVE Private'
  BY <1>7 DEF Delete, Numbered
<1>8. ASSUME NEW w \in Writers, Unlock(w) PROVE Private'
  BY <1>8 DEF Unlock
<1>9. ASSUME NEW w \in Writers, NotUnique(w) PROVE Private'
  BY <1>9 DEF NotUnique
<1>10. ASSUME NEW w \in Writers, Leave(w) PROVE Private'
  BY <1>10 DEF Leave
<1>11. ASSUME NEW w \in Writers, Flush(w) PROVE Private'
  BY <1>11 DEF Flush
<1>12. ASSUME NEW r \in Readers, Load(r) PROVE Private'
  BY <1>12 DEF Load
<1>13. ASSUME NEW r \in Readers, Copy(r) PROVE Private'
  BY <1>13 DEF Copy, Fresh
<1>14. ASSUME NEW r \in Readers, Release(r) PROVE Private'
  BY <1>14 DEF Release, Numbered
<1>15. CASE UNCHANGED vars
  BY <1>15 DEF vars
<1> QED
  BY <1>1, <1>2, <1>3, <1>4, <1>5, <1>6, <1>7,
     <1>8, <1>9, <1>10, <1>11, <1>12, <1>13, <1>14, <1>15 DEF Next, Write, Read

(* Whoever holds the lock is alone with the current cell.                  *)
LEMMA UpdatingStep ==
    ASSUME Inv, [Next]_vars
    PROVE  Updating'
<1> USE BoundAssumption, NoneAssumption
        DEF Inv, TypeOK, Updating, Exclusive, Locking, Versions, Goto,
            managed, writers, readers
<1>1. ASSUME NEW w \in Writers, Open(w) PROVE Updating'
  BY <1>1 DEF Open
<1>2. ASSUME NEW w \in Writers, WriteCopy(w) PROVE Updating'
  BY <1>2 DEF WriteCopy, Private, NoUpdateLost, Numbered, Unlocked
<1>3. ASSUME NEW w \in Writers, Edit(w) PROVE Updating'
  BY <1>3 DEF Edit, WritersVersion, Private, NoUpdateLost, Numbered
<1>4. ASSUME NEW w \in Writers, Allocate(w) PROVE Updating'
  BY <1>4 DEF Allocate, NoUpdateLost, Numbered
<1>5. ASSUME NEW w \in Writers, CompareAndExchange(w) PROVE Updating'
  BY <1>5 DEF CompareAndExchange, Unchanged, NoUpdateLost
<1>6. ASSUME NEW w \in Writers, PushDeadWood(w) PROVE Updating'
  BY <1>6 DEF PushDeadWood, OldVersion
<1>7. ASSUME NEW w \in Writers, Delete(w) PROVE Updating'
  BY <1>7 DEF Delete
<1>8. ASSUME NEW w \in Writers, Unlock(w) PROVE Updating'
  BY <1>8 DEF Unlock, Released
<1>9. ASSUME NEW w \in Writers, NotUnique(w) PROVE Updating'
  BY <1>9 DEF NotUnique
<1>10. ASSUME NEW w \in Writers, Leave(w) PROVE Updating'
  BY <1>10 DEF Leave
<1>11. ASSUME NEW w \in Writers, Flush(w) PROVE Updating'
  BY <1>11 DEF Flush
<1>12. ASSUME NEW r \in Readers, Load(r) PROVE Updating'
  BY <1>12 DEF Load
<1>13. ASSUME NEW r \in Readers, Copy(r) PROVE Updating'
  BY <1>13 DEF Copy
<1>14. ASSUME NEW r \in Readers, Release(r) PROVE Updating'
  BY <1>14 DEF Release
<1>15. CASE UNCHANGED vars
  BY <1>15 DEF vars
<1> QED
  BY <1>1, <1>2, <1>3, <1>4, <1>5, <1>6, <1>7,
     <1>8, <1>9, <1>10, <1>11, <1>12, <1>13, <1>14, <1>15 DEF Next, Write, Read

(* The current version includes whatever is done.                          *)
LEMMA CurrentStep ==
    ASSUME Inv, [Next]_vars
    PROVE  NoUpdateLost'
<1> USE BoundAssumption, NoneAssumption
        DEF Inv, TypeOK, NoUpdateLost, Updating, Locking, Versions, Goto,
            managed, writers, readers
<1>1. ASSUME NEW w \in Writers, Open(w) PROVE NoUpdateLost'
  BY <1>1 DEF Open
<1>2. ASSUME NEW w \in Writers, WriteCopy(w) PROVE NoUpdateLost'
  BY <1>2 DEF WriteCopy, Private, Numbered
<1>3. ASSUME NEW w \in Writers, Edit(w) PROVE NoUpdateLost'
  BY <1>3 DEF Edit, WritersVersion, Private, Numbered
<1>4. ASSUME NEW w \in Writers, Allocate(w) PROVE NoUpdateLost'
  BY <1>4 DEF Allocate
<1>5. ASSUME NEW w \in Writers, CompareAndExchange(w) PROVE NoUpdateLost'
  BY <1>5 DEF CompareAndExchange, Unchanged, Numbered
<1>6. ASSUME NEW w \in Writers, PushDeadWood(w) PROVE NoUpdateLost'
  BY <1>6 DEF PushDeadWood
<1>7. ASSUME NEW w \in Writers, Delete(w) PROVE NoUpdateLost'
  BY <1>7 DEF Delete
<1>8. ASSUME NEW w \in Writers, Unlock(w) PROVE NoUpdateLost'
  BY <1>8 DEF Unlock
<1>9. ASSUME NEW w \in Writers, NotUnique(w) PROVE NoUpdateLost'
  BY <1>9 DEF NotUnique
<1>10. ASSUME NEW w \in Writers, Leave(w) PROVE NoUpdateLost'
  BY <1>10 DEF Leave
<1>11. ASSUME NEW w \in Writers, Flush(w) PROVE NoUpdateLost'
  BY <1>11 DEF Flush
<1>12. ASSUME NEW r \in Readers, Load(r) PROVE NoUpdateLost'
  BY <1>12 DEF Load
<1>13. ASSUME NEW r \in Readers, Copy(r) PROVE NoUpdateLost'
  BY <1>13 DEF Copy
<1>14. ASSUME NEW r \in Readers, Release(r) PROVE NoUpdateLost'
  BY <1>14 DEF Release
<1>15. CASE UNCHANGED vars
  BY <1>15 DEF vars
<1> QED
  BY <1>1, <1>2, <1>3, <1>4, <1>5, <1>6, <1>7,
     <1>8, <1>9, <1>10, <1>11, <1>12, <1>13, <1>14, <1>15 DEF Next, Write, Read

(* An address that is used again holds a version that includes all that was *)
(* done, so a reader that is late is none the worse.                       *)
LEMMA FreshStep ==
    ASSUME Inv, [Next]_vars
    PROVE  Fresh'
<1> USE BoundAssumption, NoneAssumption
        DEF Inv, TypeOK, Fresh, Versions, Goto, managed, writers, readers
<1>1. ASSUME NEW w \in Writers, Open(w) PROVE Fresh'
  BY <1>1 DEF Open
<1>2. ASSUME NEW w \in Writers, WriteCopy(w) PROVE Fresh'
  BY <1>2 DEF WriteCopy, Private, Numbered
<1>3. ASSUME NEW w \in Writers, Edit(w) PROVE Fresh'
  BY <1>3 DEF Edit, WritersVersion, Private, Numbered
<1>4. ASSUME NEW w \in Writers, Allocate(w) PROVE Fresh'
  BY <1>4 DEF Allocate, Updating, NoUpdateLost, Locking, Numbered
<1>5. ASSUME NEW w \in Writers, CompareAndExchange(w) PROVE Fresh'
  BY <1>5 DEF CompareAndExchange
<1>6. ASSUME NEW w \in Writers, PushDeadWood(w) PROVE Fresh'
  BY <1>6 DEF PushDeadWood
<1>7. ASSUME NEW w \in Writers, Delete(w) PROVE Fresh'
  BY <1>7 DEF Delete
<1>8. ASSUME NEW w \in Writers, Unlock(w) PROVE Fresh'
  BY <1>8 DEF Unlock
<1>9. ASSUME NEW w \in Writers, NotUnique(w) PROVE Fresh'
  BY <1>9 DEF NotUnique
<1>10. ASSUME NEW w \in Writers, Leave(w) PROVE Fresh'
  BY <1>10 DEF Leave
<1>11. ASSUME NEW w \in Writers, Flush(w) PROVE Fresh'
  BY <1>11 DEF Flush
<1>12. ASSUME NEW r \in Readers, Load(r) PROVE Fresh'
  <2>1. cell[gptr] # None /\ done \subseteq contents[cell[gptr]]
    BY DEF NoUpdateLost
  <2>2. ASSUME NEW x \in Readers, x # r
        PROVE  /\ rpc'[x] = rpc[x] /\ since'[x] = since[x]
               /\ held'[x] = held[x] /\ addr'[x] = addr[x]
    BY <1>12, <2>2 DEF Load
  <2>3. /\ rpc'[r] = "loaded" /\ since'[r] = done
        /\ held'[r] = None /\ addr'[r] = gptr
    BY <1>12 DEF Load
  <2>4. UNCHANGED <<cell, contents, done>>
    BY <1>12 DEF Load
  <2>5. ASSUME NEW x \in Readers
        PROVE  /\ rpc'[x] = "reading" <=> held'[x] # None
               /\ since'[x] \subseteq done'
               /\ held'[x] # None => since'[x] \subseteq contents'[held'[x]]
               /\ rpc'[x] = "loaded"
                    => /\ addr'[x] \in Cells
                       /\ cell'[addr'[x]] # None
                            => since'[x] \subseteq contents'[cell'[addr'[x]]]
    <3>1. CASE x = r
      BY <2>1, <2>3, <2>4, <3>1
    <3>2. CASE x # r
      BY <2>2, <2>4, <3>2
    <3> QED
      BY <3>1, <3>2
  <2> QED
    BY <2>5
<1>13. ASSUME NEW r \in Readers, Copy(r) PROVE Fresh'
  BY <1>13 DEF Copy
<1>14. ASSUME NEW r \in Readers, Release(r) PROVE Fresh'
  BY <1>14 DEF Release
<1>15. CASE UNCHANGED vars
  BY <1>15 DEF vars
<1> QED
  BY <1>1, <1>2, <1>3, <1>4, <1>5, <1>6, <1>7,
     <1>8, <1>9, <1>10, <1>11, <1>12, <1>13, <1>14, <1>15 DEF Next, Write, Read

(* Cleaning the dead wood keeps what is read; what is deleted was pushed.  *)
LEMMA RetainedStep ==
    ASSUME Inv, [Next]_vars
    PROVE  Retained'
<1> USE NoneAssumption
        DEF Inv, TypeOK, Retained, Goto, managed, writers, readers
<1>1. ASSUME NEW w \in Writers, Open(w) PROVE Retained'
  BY <1>1 DEF Open
<1>2. ASSUME NEW w \in Writers, WriteCopy(w) PROVE Retained'
  BY <1>2 DEF WriteCopy, LiveWood, Referenced
<1>3. ASSUME NEW w \in Writers, Edit(w) PROVE Retained'
  BY <1>3 DEF Edit
<1>4. ASSUME NEW w \in Writers, Allocate(w) PROVE Retained'
  BY <1>4 DEF Allocate, Private
<1>5. ASSUME NEW w \in Writers, CompareAndExchange(w) PROVE Retained'
  BY <1>5 DEF CompareAndExchange
<1>6. ASSUME NEW w \in Writers, PushDeadWood(w) PROVE Retained'
  BY <1>6 DEF PushDeadWood
<1>7. ASSUME NEW w \in Writers, Delete(w) PROVE Retained'
  BY <1>7 DEF Delete, Updating
<1>8. ASSUME NEW w \in Writers, Unlock(w) PROVE Retained'
  BY <1>8 DEF Unlock
<1>9. ASSUME NEW w \in Writers, NotUnique(w) PROVE Retained'
  BY <1>9 DEF NotUnique
<1>10. ASSUME NEW w \in Writers, Leave(w) PROVE Retained'
  BY <1>10 DEF Leave
<1>11. ASSUME NEW w \in Writers, Flush(w) PROVE Retained'
  BY <1>11 DEF Flush
<1>12. ASSUME NEW r \in Readers, Load(r) PROVE Retained'
  BY <1>12 DEF Load
<1>13. ASSUME NEW r \in Readers, Copy(r) PROVE Retained'
  BY <1>13 DEF Copy, Fresh
<1>14. ASSUME NEW r \in Readers, Release(r) PROVE Retained'
  BY <1>14 DEF Release
<1>15. CASE UNCHANGED vars
  BY <1>15 DEF vars
<1> QED
  BY <1>1, <1>2, <1>3, <1>4, <1>5, <1>6, <1>7,
     <1>8, <1>9, <1>10, <1>11, <1>12, <1>13, <1>14, <1>15 DEF Next, Write, Read

-----------------------------------------------------------------------------
(* The size of the dead wood.  Nothing on it has an address any more, save *)
(* what is being deleted, and no copy that was left behind gets there: so  *)
(* what write_copy leaves on it has a reader, or another writer that is    *)
(* about to leave.                                                         *)
Apart ==
    /\ \A c, d \in Cells : cell[c] = cell[d] /\ c # d => cell[c] = None
    /\ \A w \in Writers : wpc[w] \in {"waiting", "editing", "edited"}
                            => \A c \in Cells : cell[c] # copy[w]
    /\ \A w \in Writers :
         wpc[w] \in {"waiting", "editing", "edited", "allocated"}
           => copy[w] \notin dead
    /\ \A v \in kept : v \notin dead /\ \A c \in Cells : cell[c] # v
    /\ \A c \in Cells :
         cell[c] \in dead => \E w \in Writers : wpc[w] = "deleting" /\ c = old
    /\ \A v \in dead \cup kept : v <= opened

Room == Cardinality(Readers) + Cardinality(Writers)

Counted ==
    /\ IsFiniteSet(dead) /\ Cardinality(dead) <= Room
    /\ \A w \in Writers :
         wpc[w] \in {"editing", "edited", "allocated", "exchanged"}
           => Cardinality(dead) <= Room - 1

Values(f, S) == {f[x] : x \in S}

(* Two families indexed by finite sets have at most as many members        *)
(* together as the sets.                                                   *)
LEMMA TwoFamilies ==
    ASSUME NEW S, NEW T, IsFiniteSet(S), IsFiniteSet(T), NEW f, NEW g
    PROVE  /\ IsFiniteSet(Values(f, S) \cup Values(g, T))
           /\ Cardinality(Values(f, S) \cup Values(g, T))
                <= Cardinality(S) + Cardinality(T)
<1> DEFINE U == Values(f, S) \cup Values(g, T)
           m == Cardinality(S)
           n == Cardinality(T)
<1>1. m \in Nat /\ n \in Nat
      /\ ExistsBijection(1..m, S) /\ ExistsBijection(1..n, T)
  BY FS_CardinalityType
<1>2. PICK b \in Bijection(1..m, S), c \in Bijection(1..n, T) : TRUE
  BY <1>1 DEF ExistsBijection
<1>3. /\ b \in [1..m -> S] /\ \A x \in S : \E i \in 1..m : b[i] = x
      /\ c \in [1..n -> T] /\ \A y \in T : \E i \in 1..n : c[i] = y
  BY <1>2 DEF Bijection, Surjection, Injection
<1> HIDE DEF m, n
<1> DEFINE h == [i \in 1..(m + n) |->
                   IF i <= m THEN f[b[i]] ELSE g[c[i - m]]]
<1>4. h \in [1..(m + n) -> U]
  BY <1>1, <1>3 DEF Values
<1>5. ASSUME NEW u \in U PROVE \E i \in 1..(m + n) : h[i] = u
  <2>1. CASE \E x \in S : u = f[x]
    <3>1. PICK x \in S : u = f[x]
      BY <2>1
    <3>2. PICK i \in 1..m : b[i] = x
      BY <1>3
    <3> QED
      BY <1>1, <3>1, <3>2
  <2>2. CASE \E y \in T : u = g[y]
    <3>1. PICK y \in T : u = g[y]
      BY <2>2
    <3>2. PICK i \in 1..n : c[i] = y
      BY <1>3
    <3>3. i + m \in 1..(m + n) /\ ~(i + m <= m) /\ (i + m) - m = i
      BY <1>1
    <3> QED
      BY <3>1, <3>2, <3>3
  <2> QED
    BY <2>1, <2>2 DEF Values
<1>6. h \in Surjection(1..(m + n), U)
  BY <1>4, <1>5 DEF Surjection
<1>7. IsFiniteSet(1..(m + n)) /\ Cardinality(1..(m + n)) = m + n
  BY <1>1, FS_Interval
<1> HIDE DEF h, U
<1>8. IsFiniteSet(U) /\ Cardinality(U) <= m + n
  BY <1>6, <1>7, FS_Surjection
<1> QED
  BY <1>8 DEF U, m, n

LEMMA ApartStep ==
    ASSUME Inv, Apart, [Next]_vars
    PROVE  Apart'
<1> USE BoundAssumption, NoneAssumption
        DEF Inv, TypeOK, Apart, Versions, Goto, managed, writers, readers
<1>1. ASSUME NEW w \in Writers, Open(w) PROVE Apart'
  BY <1>1 DEF Open, Numbered
<1>2. ASSUME NEW w \in Writers, WriteCopy(w) PROVE Apart'
  BY <1>2 DEF WriteCopy, LiveWood, Exclusive, Locking, Unlocked
<1>3. ASSUME NEW w \in Writers, Edit(w) PROVE Apart'
  <2>1. /\ wpc[w] = "editing" /\ wpc' = [wpc EXCEPT ![w] = "edited"]
        /\ UNCHANGED <<cell, old, copy, dead, opened>>
        /\ kept' \subseteq kept \cup {copy[w]}
    BY <1>3 DEF Edit
  <2>2. /\ copy[w] \notin dead /\ copy[w] <= opened
        /\ \A c \in Cells : cell[c] # copy[w]
    BY <2>1 DEF Numbered
  <2>3. \A x \in Writers : wpc'[x] # "edited" => wpc'[x] = wpc[x]
    BY <2>1
  <2>4. \A x \in Writers : x # w => wpc'[x] = wpc[x]
    BY <2>1
  <2> QED
    BY <2>1, <2>2, <2>3, <2>4
<1>4. ASSUME NEW w \in Writers, Allocate(w) PROVE Apart'
  BY <1>4 DEF Allocate, Numbered
<1>5. ASSUME NEW w \in Writers, CompareAndExchange(w) PROVE Apart'
  BY <1>5 DEF CompareAndExchange, Unchanged, Updating
<1>6. ASSUME NEW w \in Writers, PushDeadWood(w) PROVE Apart'
  BY <1>6 DEF PushDeadWood, OldVersion, Updating, Exclusive, Locking, Numbered
<1>7. ASSUME NEW w \in Writers, Delete(w) PROVE Apart'
  <2>1. /\ wpc[w] = "deleting" /\ wpc' = [wpc EXCEPT ![w] = "unlocking"]
        /\ cell' = [cell EXCEPT ![old] = None]
        /\ UNCHANGED <<old, copy, dead, kept, opened>>
    BY <1>7 DEF Delete
  <2>2. None \notin dead \cup kept
    <3>1. dead \cup kept \subseteq Nat
      OBVIOUS
    <3> QED
      BY <3>1
  <2>3. \A c \in Cells : cell'[c] \in {cell[c], None}
                         /\ (cell[c] \in dead => cell'[c] = None)
    BY <2>1
  <2>4. \A x \in Writers :
          wpc'[x] # "unlocking" => wpc'[x] = wpc[x] /\ copy[x] = copy'[x]
    BY <2>1
  <2>5. \A x \in Writers : wpc[x] = "waiting" \/ wpc[x] = "editing"
                            \/ wpc[x] = "edited" => copy[x] # None
    BY DEF Numbered
  <2> QED
    BY <2>1, <2>2, <2>3, <2>4, <2>5
<1>8. ASSUME NEW w \in Writers, Unlock(w) PROVE Apart'
  BY <1>8 DEF Unlock
<1>9. ASSUME NEW w \in Writers, NotUnique(w) PROVE Apart'
  BY <1>9 DEF NotUnique
<1>10. ASSUME NEW w \in Writers, Leave(w) PROVE Apart'
  BY <1>10 DEF Leave
<1>11. ASSUME NEW w \in Writers, Flush(w) PROVE Apart'
  BY <1>11 DEF Flush
<1>12. ASSUME NEW r \in Readers, Load(r) PROVE Apart'
  BY <1>12 DEF Load
<1>13. ASSUME NEW r \in Readers, Copy(r) PROVE Apart'
  BY <1>13 DEF Copy
<1>14. ASSUME NEW r \in Readers, Release(r) PROVE Apart'
  BY <1>14 DEF Release
<1>15. CASE UNCHANGED vars
  BY <1>15 DEF vars
<1> QED
  BY <1>1, <1>2, <1>3, <1>4, <1>5, <1>6, <1>7,
     <1>8, <1>9, <1>10, <1>11, <1>12, <1>13, <1>14, <1>15 DEF Next, Write, Read

(* The dead wood is counted when it is cleaned; then update adds to it once. *)
LEMMA CountedStep ==
    ASSUME Inv, Apart, Counted, [Next]_vars
    PROVE  Counted'
<1> USE BoundAssumption, NoneAssumption
        DEF Inv, TypeOK, Counted, Versions, Goto, managed, writers, readers
<1>1. ASSUME NEW w \in Writers, Open(w) PROVE Counted'
  BY <1>1 DEF Open
<1>2. ASSUME NEW w \in Writers, WriteCopy(w) PROVE Counted'
  <2> DEFINE Copying == Writers \ {w}
             U == Values(held, Readers) \cup Values(copy, Copying)
  <2>1. lock = None /\ wpc[w] = "waiting" /\ dead' = LiveWood
    BY <1>2 DEF WriteCopy, Unlocked
  <2>2. LiveWood \subseteq U
    <3>1. SUFFICES ASSUME NEW v \in dead, Referenced(v) PROVE v \in U
      BY DEF LiveWood
    <3>2. \A c \in Cells : cell[c] # v
      BY <2>1 DEF Apart, Exclusive, Locking
    <3>3. copy[w] # v /\ v \notin kept
      BY <2>1 DEF Apart
    <3> QED
      BY <3>1, <3>2, <3>3 DEF Referenced, Values
  <2>3. IsFiniteSet(Copying)
        /\ Cardinality(Copying) = Cardinality(Writers) - 1
    BY FiniteAssumption, FS_RemoveElement
  <2>4. /\ IsFiniteSet(U)
        /\ Cardinality(U) <= Cardinality(Readers) + Cardinality(Copying)
    <3> HIDE DEF Copying
    <3> QED
      BY <2>3, FiniteAssumption, TwoFamilies
  <2> HIDE DEF U
  <2>5. IsFiniteSet(LiveWood) /\ Cardinality(LiveWood) <= Cardinality(U)
        /\ Cardinality(LiveWood) \in Nat
    BY <2>2, <2>4, FS_Subset, FS_CardinalityType
  <2>6. /\ Cardinality(Readers) \in Nat /\ Cardinality(Writers) \in Nat
        /\ Cardinality(U) \in Nat
    BY <2>4, FiniteAssumption, FS_CardinalityType
  <2>7. Cardinality(LiveWood) <= Room - 1
    BY <2>3, <2>4, <2>5, <2>6 DEF Room
  <2> HIDE DEF Copying
  <2> QED
    BY <2>1, <2>5, <2>6, <2>7 DEF Room
<1>3. ASSUME NEW w \in Writers, Edit(w) PROVE Counted'
  BY <1>3 DEF Edit
<1>4. ASSUME NEW w \in Writers, Allocate(w) PROVE Counted'
  BY <1>4 DEF Allocate
<1>5. ASSUME NEW w \in Writers, CompareAndExchange(w) PROVE Counted'
  BY <1>5 DEF CompareAndExchange
<1>6. ASSUME NEW w \in Writers, PushDeadWood(w) PROVE Counted'
  <2>1. /\ wpc[w] = "exchanged" /\ dead' = dead \cup {cell[old]}
        /\ wpc' = [wpc EXCEPT ![w] = "deleting"]
    BY <1>6 DEF PushDeadWood, OldVersion
  <2>2. IsFiniteSet(dead) /\ Cardinality(dead) <= Room - 1
    BY <2>1
  <2>3. /\ IsFiniteSet(dead')
        /\ Cardinality(dead') <= Cardinality(dead) + 1
    <3>1. /\ IsFiniteSet(dead \cup {cell[old]})
          /\ Cardinality(dead \cup {cell[old]})
               = IF cell[old] \in dead THEN Cardinality(dead)
                                      ELSE Cardinality(dead) + 1
      BY <2>2, FS_AddElement
    <3>2. Cardinality(dead) \in Nat
      BY <2>2, FS_CardinalityType
    <3> QED
      BY <2>1, <3>1, <3>2
  <2>4. /\ Cardinality(dead) \in Nat /\ Cardinality(dead') \in Nat
        /\ Cardinality(Readers) \in Nat /\ Cardinality(Writers) \in Nat
    BY <2>2, <2>3, FiniteAssumption, FS_CardinalityType
  <2>5. Cardinality(dead') <= Room
    BY <2>2, <2>3, <2>4 DEF Room
  <2>6. \A x \in Writers : wpc'[x] \notin {"editing", "edited", "allocated",
                                          "exchanged"}
    BY <2>1 DEF Exclusive, Locking
  <2> QED
    BY <2>3, <2>5, <2>6 DEF Room
<1>7. ASSUME NEW w \in Writers, Delete(w) PROVE Counted'
  BY <1>7 DEF Delete
<1>8. ASSUME NEW w \in Writers, Unlock(w) PROVE Counted'
  BY <1>8 DEF Unlock
<1>9. ASSUME NEW w \in Writers, NotUnique(w) PROVE Counted'
  BY <1>9 DEF NotUnique
<1>10. ASSUME NEW w \in Writers, Leave(w) PROVE Counted'
  BY <1>10 DEF Leave
<1>11. ASSUME NEW w \in Writers, Flush(w) PROVE Counted'
  <2>1. dead' = {} /\ lock = None /\ wpc' = wpc
    BY <1>11 DEF Flush
  <2>2. Cardinality(Readers) \in Nat /\ Cardinality(Writers) \in Nat
    BY FiniteAssumption, FS_CardinalityType
  <2>3. IsFiniteSet({}) /\ Cardinality({}) = 0
    BY FS_EmptySet
  <2>4. \A x \in Writers : wpc[x] \notin Locking
    BY <2>1 DEF Exclusive
  <2> QED
    BY <2>1, <2>2, <2>3, <2>4 DEF Room, Locking
<1>12. ASSUME NEW r \in Readers, Load(r) PROVE Counted'
  BY <1>12 DEF Load
<1>13. ASSUME NEW r \in Readers, Copy(r) PROVE Counted'
  BY <1>13 DEF Copy
<1>14. ASSUME NEW r \in Readers, Release(r) PROVE Counted'
  BY <1>14 DEF Release
<1>15. CASE UNCHANGED vars
  BY <1>15 DEF vars
<1> QED
  BY <1>1, <1>2, <1>3, <1>4, <1>5, <1>6, <1>7,
     <1>8, <1>9, <1>10, <1>11, <1>12, <1>13, <1>14, <1>15 DEF Next, Write, Read

-----------------------------------------------------------------------------
(* The theorems                                                            *)

LEMMA InvStep == Inv /\ [Next]_vars => Inv'
<1> SUFFICES ASSUME Inv, [Next]_vars PROVE Inv'
  OBVIOUS
<1>1. TypeOK' /\ Numbered' /\ Exclusive' /\ Private'
  BY TypesStep, NumberedStep, ExclusiveStep, PrivateStep
<1>2. Updating' /\ NoUpdateLost' /\ Fresh' /\ Retained'
  BY UpdatingStep, CurrentStep, FreshStep, RetainedStep
<1> QED
  BY <1>1, <1>2 DEF Inv

LEMMA Invariant == Spec => []Inv
<1> QED
  BY InitInv, InvStep, PTL DEF Spec

LEMMA WoodInit == Init => Apart /\ Counted
<1> SUFFICES ASSUME Init PROVE Apart /\ Counted
  OBVIOUS
<1>1. Apart
  BY NoneAssumption DEF Init, Apart
<1>2. /\ IsFiniteSet(dead) /\ Cardinality(dead) = 0
      /\ Cardinality(Readers) \in Nat /\ Cardinality(Writers) \in Nat
  BY FiniteAssumption, FS_EmptySet, FS_CardinalityType DEF Init
<1>3. Counted
  BY <1>2 DEF Init, Counted, Room
<1> QED
  BY <1>1, <1>3

(* Every variable of the RCU manager keeps its type, for any number of     *)
(* readers, writers and scopes.                                            *)
THEOREM TypeCorrect == Spec => []TypeOK
<1>1. Inv => TypeOK
  BY DEF Inv
<1> QED
  BY <1>1, Invariant, PTL

(* The edit of every scope whose update() has returned is in the current   *)
(* version, in whatever order the writers get the lock.                    *)
THEOREM UpdatesKept == Spec => []NoUpdateLost
<1>1. Inv => NoUpdateLost
  BY DEF Inv
<1> QED
  BY <1>1, Invariant, PTL

(* What reader() returns includes all that was done when it was called.    *)
THEOREM ReadersUpToDate == Spec => []ReadsAreFresh
<1>1. Inv => ReadsAreFresh
  BY DEF Inv, Fresh, ReadsAreFresh
<1> QED
  BY <1>1, Invariant, PTL

(* What a reader holds is not written: write_copy and the scope write only *)
(* to a version that is still private.                                     *)
THEOREM HeldUnchanged == Spec => HeldIsStable
<1> DEFINE Stable == \A r \in Readers :
                       held[r] # None => contents'[held[r]] = contents[held[r]]
<1>1. ASSUME Inv, [Next]_vars PROVE Stable
  <2> USE <1>1 DEF Inv, TypeOK, Goto
  <2>1. ASSUME NEW w \in Writers, WriteCopy(w) PROVE Stable
    BY <2>1 DEF WriteCopy, Private
  <2>2. ASSUME NEW w \in Writers, Edit(w) PROVE Stable
    BY <2>2 DEF Edit, WritersVersion, Private
  <2>3. contents' = contents
        \/ \E w \in Writers : WriteCopy(w) \/ Edit(w)
    BY DEF Next, Write, Read, Open, Allocate, CompareAndExchange,
                PushDeadWood, Delete, Unlock, NotUnique, Leave, Flush, Load,
                Copy, Release, vars
  <2> QED
    BY <2>1, <2>2, <2>3
<1>2. Inv /\ [Next]_vars => [Stable]_vars
  BY <1>1
<1> QED
  BY <1>2, Invariant, PTL DEF Spec, HeldIsStable

(* A reader that lets go of a version never destroys it, unless a flush    *)
(* had taken it off the dead wood.                                         *)
THEOREM DestroyedByWriters == Spec => ReadersDestroyNothing
<1> DEFINE Kept == \A r \in Readers, v \in Versions :
                     held[r] = v /\ held'[r] # v
                       => Referenced(v)' \/ v \in dead' \cup swept
<1>1. ASSUME Inv, [Next]_vars PROVE Kept
  <2> SUFFICES ASSUME NEW r \in Readers, NEW v \in Versions,
                      held[r] = v, held'[r] # v
               PROVE  Referenced(v)' \/ v \in dead' \cup swept
    OBVIOUS
  <2> USE <1>1, NoneAssumption DEF Inv, TypeOK, Versions
  <2>1. v # None
    OBVIOUS
  <2>2. rpc[r] = "reading"
    BY <2>1 DEF Fresh
  <2>3. PICK x \in Readers : Read(x)
    BY DEF Next, Write, Open, WriteCopy, Edit, Allocate,
                CompareAndExchange, PushDeadWood, Delete, Unlock, NotUnique,
                Leave, Flush, vars, readers
  <2>4. x = r /\ Release(r)
    BY <2>2, <2>3 DEF Read, Load, Copy, Release
  <2>5. UNCHANGED <<cell, dead>>
    BY <2>4 DEF Release, managed
  <2> QED
    BY <2>1, <2>5 DEF Retained, Referenced
<1>2. Inv /\ [Next]_vars => [Kept]_vars
  BY <1>1
<1> QED
  BY <1>2, Invariant, PTL DEF Spec, ReadersDestroyNothing

(* The dead wood is never larger than the readers and the writers are      *)
(* many, however many scopes there were.                                   *)
THEOREM DeadWoodStaysSmall == Spec => []DeadWoodBounded
<1>1. Inv /\ Apart /\ Counted /\ [Next]_vars => Apart' /\ Counted'
  BY ApartStep, CountedStep
<1>2. Counted => DeadWoodBounded
  BY DEF Counted, Room, DeadWoodBounded
<1> QED
  BY <1>1, <1>2, WoodInit, Invariant, PTL DEF Spec
=============================================================================
