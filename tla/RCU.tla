-------------------------------- MODULE RCU --------------------------------
(***************************************************************************)
(* Read-copy-update of one managed object (libs/pbd/pbd/rcu.h): the route  *)
(* list, the bundles, the ports or a track's channels.  A writer is a      *)
(* thread that opens an RCUWriter scope, edits the copy and leaves the     *)
(* scope, or that flushes the dead wood.  A reader calls reader(), which   *)
(* is two steps to the machine: load the address of the current            *)
(* shared_ptr, then copy what it finds there.  Nothing keeps a writer from *)
(* deleting that shared_ptr in between, and the allocator may hand the     *)
(* same address to the next one.                                           *)
(*                                                                         *)
(* An object is a version and its contents are the set of edits it         *)
(* includes.  A scope has a number, and so have the version it makes and   *)
(* the edit it makes to it.                                                *)
(***************************************************************************)
EXTENDS Integers, FiniteSets

CONSTANTS
    Readers, Writers,
    Keepers,       \* the writers whose scope may leave a reference to its
                   \* copy behind
    Cells,         \* addresses at which a shared_ptr may be allocated
    MaxVersions,   \* bound: RCUWriter scopes opened in one behaviour
    None

Versions == 0 .. MaxVersions

ASSUME BoundAssumption == MaxVersions \in Nat
ASSUME KeeperAssumption == Keepers \subseteq Writers
ASSUME CellAssumption == \E c \in Cells, d \in Cells : c # d
ASSUME FiniteAssumption == IsFiniteSet(Readers) /\ IsFiniteSet(Writers)
ASSUME NoneAssumption == None \notin Nat \cup Cells \cup Writers

VARIABLES
    gptr,          \* x.gptr, which is x.m_rcu_value
    cell,          \* the shared_ptr at an address: its version, or None
                   \* where nothing is allocated
    contents,      \* what a version includes
    opened,        \* how many scopes have been opened
    dead,          \* m_dead_wood
    lock, old,     \* who holds m_lock, and current_write_old
    wpc, copy, new,     \* writers: m_copy and new_spp
    kept,          \* copies that something outside their scope refers to
    rpc, addr, held,    \* readers: the address loaded, the version held
    done,          \* history: the edits of the updates that have returned
    since,         \* history: what was done when the reader loaded gptr
    swept          \* history: versions a flush dropped

managed == <<gptr, cell, dead, lock, old>>
writers == <<wpc, copy, new, kept>>
readers == <<rpc, addr, held, since>>
vars == <<gptr, cell, contents, opened, dead, lock, old, wpc, copy, new, kept,
          rpc, addr, held, done, since, swept>>

Init ==
    /\ \E c \in Cells :
         /\ gptr = c
         /\ cell = [d \in Cells |-> IF d = c THEN 0 ELSE None]
    /\ contents = [v \in Versions |-> {}] /\ opened = 0
    /\ dead = {} /\ lock = None /\ old = None
    /\ wpc = [w \in Writers |-> "idle"] /\ kept = {}
    /\ copy = [w \in Writers |-> None] /\ new = [w \in Writers |-> None]
    /\ rpc = [r \in Readers |-> "idle"]
    /\ addr = [r \in Readers |-> None] /\ held = [r \in Readers |-> None]
    /\ done = {} /\ since = [r \in Readers |-> {}] /\ swept = {}

(* The references to a version other than the dead wood's: shared_ptr's    *)
(* unique() is asked of the dead wood and of a writer's own copy.          *)
Referenced(v) ==
    \/ \E c \in Cells : cell[c] = v
    \/ \E w \in Writers : copy[w] = v
    \/ \E r \in Readers : held[r] = v
    \/ v \in kept

-----------------------------------------------------------------------------
(* The writers                                                             *)

Goto(w, from, to) == wpc[w] = from /\ wpc' = [wpc EXCEPT ![w] = to]

(* The RCUWriter constructor calls write_copy, which blocks on m_lock.     *)
Open(w) ==
    /\ opened < MaxVersions
    /\ Goto(w, "idle", "waiting")
    /\ opened' = opened + 1
    /\ copy' = [copy EXCEPT ![w] = opened + 1]
    /\ UNCHANGED <<managed, contents, new, kept, readers, done, swept>>

(* Dead wood nobody else refers to is dropped; then the copy is made.  A   *)
(* reader cannot gain a reference to dead wood here, so cleaning the list  *)
(* and copying are one step.                                               *)
AllWood == dead
LiveWood == {v \in dead : Referenced(v)}

NoLock == TRUE
Unlocked == lock = None

WriteCopy(w) ==
    /\ Unlocked
    /\ Goto(w, "waiting", "editing")
    /\ lock' = w
    /\ dead' = LiveWood
    /\ old' = gptr
    /\ contents' = [contents EXCEPT ![copy[w]] = contents[cell[gptr]]]
    /\ UNCHANGED <<gptr, cell, opened, copy, new, kept, readers, done, swept>>

(* The body of the scope changes the copy, through get_copy().             *)
ReadersVersion(w) == cell[gptr]
WritersVersion(w) == copy[w]

Edit(w) ==
    /\ Goto(w, "editing", "edited")
    /\ contents' = [contents EXCEPT ![WritersVersion(w)] = @ \cup {copy[w]}]
    /\ \/ UNCHANGED kept
       \/ w \in Keepers /\ kept' = kept \cup {copy[w]}
    /\ UNCHANGED <<managed, opened, copy, new, readers, done, swept>>

(* ~RCUWriter, m_copy.unique(): update() allocates the new shared_ptr ...  *)
Allocate(w) ==
    /\ copy[w] \notin kept
    /\ Goto(w, "edited", "allocated")
    /\ \E c \in Cells :
         /\ cell[c] = None
         /\ cell' = [cell EXCEPT ![c] = copy[w]]
         /\ new' = [new EXCEPT ![w] = c]
    /\ UNCHANGED <<gptr, contents, opened, dead, lock, old, copy, kept,
                   readers, done, swept>>

(* ... exchanges it for the old one if that is still current ...           *)
Changed == gptr # old
Unchanged == gptr = old

CompareAndExchange(w) ==
    /\ Goto(w, "allocated", IF Unchanged THEN "exchanged" ELSE "unlocking")
    /\ gptr' = IF Unchanged THEN new[w] ELSE gptr
    /\ UNCHANGED <<cell, contents, opened, dead, lock, old, copy, new, kept,
                   readers, done, swept>>

(* ... puts the old version on the dead wood ...                           *)
Nothing == {}
OldVersion == {cell[old]}

PushAfterDelete(w) ==
    /\ Goto(w, "exchanged", "unlocking")
    /\ cell' = [cell EXCEPT ![old] = None]
    /\ dead' = dead \cup {cell'[old]}
    /\ UNCHANGED <<gptr, contents, opened, lock, old, copy, new, kept,
                   readers, done, swept>>

PushDeadWood(w) ==
    /\ Goto(w, "exchanged", "deleting")
    /\ dead' = dead \cup OldVersion
    /\ UNCHANGED <<gptr, cell, contents, opened, lock, old, copy, new, kept,
                   readers, done, swept>>

(* ... deletes the old shared_ptr ...                                      *)
Delete(w) ==
    /\ Goto(w, "deleting", "unlocking")
    /\ cell' = [cell EXCEPT ![old] = None]
    /\ UNCHANGED <<gptr, contents, opened, dead, lock, old, copy, new, kept,
                   readers, done, swept>>

(* ... and unlocks.                                                        *)
StillLocked == lock
Released == None

Unlock(w) ==
    /\ Goto(w, "unlocking", "leaving")
    /\ lock' = Released
    /\ done' = done \cup {copy[w]}
    /\ UNCHANGED <<gptr, cell, contents, opened, dead, old, copy, new, kept,
                   readers, swept>>

(* The destructor's other branch does not update, and does not unlock.     *)
NotUnique(w) ==
    /\ copy[w] \in kept
    /\ Goto(w, "edited", "leaving")
    /\ UNCHANGED <<managed, contents, opened, copy, new, kept, readers, done,
                   swept>>

(* m_copy is destroyed after the destructor's body.                        *)
Leave(w) ==
    /\ Goto(w, "leaving", "idle")
    /\ copy' = [copy EXCEPT ![w] = None]
    /\ new' = [new EXCEPT ![w] = None]
    /\ UNCHANGED <<managed, contents, opened, kept, readers, done, swept>>

(* flush(), as Session::remove_route calls it after its scope.             *)
Flush(w) ==
    /\ wpc[w] = "idle" /\ lock = None
    /\ dead' = {}
    /\ swept' = swept \cup dead
    /\ UNCHANGED <<gptr, cell, contents, opened, lock, old, writers, readers,
                   done>>

-----------------------------------------------------------------------------
(* The readers                                                             *)

Load(r) ==
    /\ rpc[r] = "idle"
    /\ rpc' = [rpc EXCEPT ![r] = "loaded"]
    /\ addr' = [addr EXCEPT ![r] = gptr]
    /\ since' = [since EXCEPT ![r] = done]
    /\ UNCHANGED <<managed, contents, opened, writers, held, done, swept>>

(* The copy of the shared_ptr found at the address loaded.  Where nothing  *)
(* is allocated any more its outcome is undefined and the reader is lost.  *)
Copy(r) ==
    /\ rpc[r] = "loaded"
    /\ rpc' = [rpc EXCEPT ![r] = IF cell[addr[r]] = None
                                 THEN "lost" ELSE "reading"]
    /\ held' = [held EXCEPT ![r] = cell[addr[r]]]
    /\ addr' = [addr EXCEPT ![r] = None]
    /\ UNCHANGED <<managed, contents, opened, writers, since, done, swept>>

(* The reader's shared_ptr is destroyed.                                   *)
Release(r) ==
    /\ rpc[r] = "reading"
    /\ rpc' = [rpc EXCEPT ![r] = "idle"]
    /\ held' = [held EXCEPT ![r] = None]
    /\ since' = [since EXCEPT ![r] = {}]
    /\ UNCHANGED <<managed, contents, opened, writers, addr, done, swept>>

Write(w) ==
    \/ WriteCopy(w) \/ Edit(w) \/ Allocate(w) \/ CompareAndExchange(w)
    \/ PushDeadWood(w) \/ Delete(w) \/ Unlock(w) \/ NotUnique(w) \/ Leave(w)

Read(r) == Load(r) \/ Copy(r) \/ Release(r)

Next ==
    \/ \E w \in Writers : Open(w) \/ Write(w) \/ Flush(w)
    \/ \E r \in Readers : Read(r)

Spec == Init /\ [][Next]_vars

(* Whoever is inside write_copy, the scope or update goes on.  A writer    *)
(* waiting for m_lock gets it if it stays free: nothing is assumed of the  *)
(* order in which the mutex is granted.                                    *)
FairSpec == Spec /\ \A w \in Writers : WF_vars(Write(w))

-----------------------------------------------------------------------------
(* Properties                                                              *)

(* Every variable has its type.                                            *)
TypeOK ==
    /\ gptr \in Cells /\ cell \in [Cells -> Versions \cup {None}]
    /\ contents \in [Versions -> SUBSET Versions] /\ opened \in Versions
    /\ dead \subseteq Versions
    /\ lock \in Writers \cup {None} /\ old \in Cells \cup {None}
    /\ wpc \in [Writers -> {"idle", "waiting", "editing", "edited",
                            "allocated", "exchanged", "deleting",
                            "unlocking", "leaving"}]
    /\ copy \in [Writers -> Versions \cup {None}]
    /\ new \in [Writers -> Cells \cup {None}]
    /\ kept \subseteq Versions
    /\ rpc \in [Readers -> {"idle", "loaded", "reading", "lost"}]
    /\ addr \in [Readers -> Cells \cup {None}]
    /\ held \in [Readers -> Versions \cup {None}]
    /\ done \subseteq Versions
    /\ since \in [Readers -> SUBSET Versions]
    /\ swept \subseteq Versions

(* No update is lost: the current version includes the edit of every scope *)
(* whose update() has returned, whatever writers competed for the object.  *)
NoUpdateLost == cell[gptr] # None /\ done \subseteq contents[cell[gptr]]

(* A reader sees everything that was done when it called reader(), even if *)
(* the address it loaded was deleted and allocated again meanwhile.        *)
ReadsAreFresh ==
    \A r \in Readers : held[r] # None => since[r] \subseteq contents[held[r]]

(* "Any existing users of the value returned by reader() can continue to   *)
(* use their copy even as a write_copy()/update() takes place": what a     *)
(* reader holds does not change under it.                                  *)
HeldIsStable ==
    [][\A r \in Readers :
         held[r] # None => contents'[held[r]] = contents[held[r]]]_vars

(* A version is destroyed by whoever drops the last reference to it.  That *)
(* is never a reader, which may be the process thread, unless a flush had  *)
(* taken the version off the dead wood.                                    *)
ReadersDestroyNothing ==
    [][\A r \in Readers, v \in Versions :
         held[r] = v /\ held'[r] # v
           => Referenced(v)' \/ v \in dead' \cup swept]_vars

(* Old versions do not pile up: beside the newest one, what waits on the   *)
(* dead wood is there for a reader, or for a writer about to leave.        *)
DeadWoodBounded ==
    Cardinality(dead) <= Cardinality(Readers) + Cardinality(Writers)

(* A writer gets its copy, unless an earlier scope left a reference to its *)
(* own behind and so never unlocked.                                       *)
WritersProceed ==
    \A w \in Writers :
        wpc[w] = "waiting" ~> wpc[w] = "editing" \/ kept # {}

(* "reader() : obtains a shared pointer to the managed object that may be  *)
(* used for reading, without synchronization": it always obtains one.      *)
ReaderObtains == \A r \in Readers : rpc[r] # "lost"
=============================================================================
