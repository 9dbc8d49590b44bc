----------------------------- MODULE Ownership ------------------------------
(***************************************************************************)
(* Owners of objects and of locks: shared_ptr, then unique_lock.           *)
(*                                                                         *)
(* dsac::shared_ptr with a counter that several threads change.  The       *)
(* fields ptr_, ref_count_ and deleter_ are always set together, so a      *)
(* pointer is the object it holds.  An operation changes the pointers of   *)
(* its caller in one step; what it gave up is in a temporary whose         *)
(* destructor decrements the counter in a second step and, at zero,        *)
(* deletes counter and object in a third.  Operations on the same pointer  *)
(* are ordered by their callers, operations on its copies are not.         *)
(***************************************************************************)
EXTENDS ThreadSet, Naturals

CONSTANTS Pointers,  \* the shared_ptr variables of the program
          Objects,   \* the objects, or addresses, they can hold
          NoObject   \* nullptr

ASSUME SharedPtrAssumption == /\ IsFiniteSet(Pointers) /\ NoObject \notin Objects

VARIABLES
    holds,     \* of each pointer: its object or NoObject
    refs,      \* of each object: *ref_count_
    exists,    \* the objects that have been created and not deleted
    spc, tmp,  \* of each thread: its next step and the object of its temporary
    stealing   \* of each thread: the pointers of the move assignment under way

sharedVars == <<holds, refs, exists, spc, tmp, stealing>>

SharedInit ==
    /\ holds = [p \in Pointers |-> NoObject]
    /\ refs = [o \in Objects |-> 0] /\ exists = {}
    /\ spc = [t \in Threads |-> "idle"] /\ tmp = [t \in Threads |-> NoObject]
    /\ stealing = [t \in Threads |-> <<>>]

\* Thread t, in no operation, may use pointer p: no other thread is in the
\* middle of assigning to it or moving from it.
MayUse(t, p) ==
    /\ spc[t] = "idle"
    /\ \A u \in Threads : stealing[u] # <<>> => p \notin {stealing[u][1], stealing[u][2]}

\* The temporary of thread t receives o and is destroyed next.
Discard(t, o) ==
    /\ tmp' = [tmp EXCEPT ![t] = o]
    /\ spc' = [spc EXCEPT ![t] = IF o = NoObject THEN "idle" ELSE "release"]

-----------------------------------------------------------------------------
\* reset(o): a pointer that wraps o is swapped with the present one.
ResetTo(t, p, o) ==
    /\ MayUse(t, p) /\ o \notin exists
    /\ exists' = exists \union {o} /\ refs' = [refs EXCEPT ![o] = 1]
    /\ holds' = [holds EXCEPT ![p] = o]
    /\ Discard(t, holds[p]) /\ UNCHANGED stealing

\* Constructor from a raw pointer, and make_shared.
Wrap(t, p, o) == holds[p] = NoObject /\ ResetTo(t, p, o)

\* A copy of a pointer to o counts itself.
Counted(o) == IF o = NoObject THEN refs ELSE [refs EXCEPT ![o] = @ + 1]

\* Copy assignment p = q, and copy construction when p is empty: a copy of q
\* is swapped with p.
Copy(t, p, q) ==
    /\ MayUse(t, p) /\ MayUse(t, q) /\ p # q
    /\ refs' = Counted(holds[q])
    /\ holds' = [holds EXCEPT ![p] = holds[q]]
    /\ Discard(t, holds[p]) /\ UNCHANGED <<exists, stealing>>

Swap(t, p, q) ==
    /\ MayUse(t, p) /\ MayUse(t, q)
    /\ holds' = [holds EXCEPT ![p] = holds[q], ![q] = holds[p]]
    /\ UNCHANGED <<refs, exists, spc, tmp, stealing>>

\* The new pointer takes the object, the old one is left empty.
MovePointer(t, p, q) == holds[p] = NoObject /\ Swap(t, p, q)

\* reset(), and the destructor of a pointer.
Reset(t, p) ==
    /\ MayUse(t, p) /\ holds[p] # NoObject
    /\ holds' = [holds EXCEPT ![p] = NoObject]
    /\ Discard(t, holds[p]) /\ UNCHANGED <<refs, exists, stealing>>

\* Move assignment p = std::move(q) starts with reset() ...
MoveAssign(t, p, q) ==
    /\ MayUse(t, p) /\ MayUse(t, q)
    /\ holds' = [holds EXCEPT ![p] = NoObject]
    /\ stealing' = [stealing EXCEPT ![t] = <<p, q>>]
    /\ tmp' = [tmp EXCEPT ![t] = holds[p]]
    /\ spc' = [spc EXCEPT ![t] = IF holds[p] = NoObject THEN "steal" ELSE "release"]
    /\ UNCHANGED <<refs, exists>>

\* ... and ends with the exchange of the fields.
Steal(t) ==
    /\ spc[t] = "steal" /\ spc' = [spc EXCEPT ![t] = "idle"]
    /\ LET p == stealing[t][1]
           q == stealing[t][2]
       IN holds' = [holds EXCEPT ![q] = NoObject, ![p] = holds[q]]
    /\ stealing' = [stealing EXCEPT ![t] = <<>>]
    /\ UNCHANGED <<refs, exists, tmp>>

\* Thread t has destroyed its temporary: it ends the move assignment it is
\* in, or the operation is over.
Proceed(t) ==
    /\ spc' = [spc EXCEPT ![t] = IF stealing[t] = <<>> THEN "idle" ELSE "steal"]
    /\ tmp' = [tmp EXCEPT ![t] = NoObject]

\* A defect: the test reads the counter before the decrement of another thread.
ReleaseStale(t) ==
    /\ spc[t] = "release"
    /\ refs' = [refs EXCEPT ![tmp[t]] = @ - 1]
    /\ IF refs[tmp[t]] <= 2 THEN spc' = [spc EXCEPT ![t] = "delete"] /\ UNCHANGED tmp ELSE Proceed(t)
    /\ UNCHANGED <<holds, exists, stealing>>

\* The destructor of the temporary: --(*ref_count_) == 0.
Release(t) ==
    /\ spc[t] = "release"
    /\ refs' = [refs EXCEPT ![tmp[t]] = @ - 1]
    /\ IF refs[tmp[t]] = 1 THEN spc' = [spc EXCEPT ![t] = "delete"] /\ UNCHANGED tmp ELSE Proceed(t)
    /\ UNCHANGED <<holds, exists, stealing>>

\* The counter, the object and the deleter are deleted.
DeleteObject(t) ==
    /\ spc[t] = "delete" /\ Proceed(t)
    /\ exists' = exists \ {tmp[t]}
    /\ UNCHANGED <<holds, refs, stealing>>

SharedStep(t) ==
    \/ \E p \in Pointers, o \in Objects : Wrap(t, p, o) \/ ResetTo(t, p, o)
    \/ \E p, q \in Pointers : \/ Copy(t, p, q) \/ Swap(t, p, q)
                             \/ MovePointer(t, p, q) \/ MoveAssign(t, p, q)
    \/ \E p \in Pointers : Reset(t, p)
    \/ Steal(t) \/ Release(t) \/ DeleteObject(t)

SharedNext == \E t \in Threads : SharedStep(t)

SharedSpec == SharedInit /\ [][SharedNext]_sharedVars

-----------------------------------------------------------------------------
\* The references to an object: pointers, and temporaries not yet destroyed.
Holders(o) == {p \in Pointers : holds[p] = o}
Releasing(o) == {t \in Threads : spc[t] = "release" /\ tmp[t] = o}
Deleting(o) == {t \in Threads : spc[t] = "delete" /\ tmp[t] = o}

\* The counter is exact in every interleaving of copies, moves and drops.
RefCountExact ==
    \A o \in exists : refs[o] = Cardinality(Holders(o)) + Cardinality(Releasing(o))

\* An object is deleted with its last reference, neither earlier nor never,
\* and by one thread: it exists exactly as long as something refers to it or
\* somebody is about to delete it, and nothing refers to it by then.
DeletedWithLastReference ==
    \A o \in Objects :
        /\ o \in exists <=> Holders(o) \union Releasing(o) \union Deleting(o) # {}
        /\ Deleting(o) # {} => Holders(o) \union Releasing(o) = {} /\ Cardinality(Deleting(o)) = 1

\* Copies, moves and drops in any interleaving keep the counter exact and
\* delete an object once, with its last reference (shared_ptr, ref_count).
ObjectsOwned == RefCountExact /\ DeletedWithLastReference

-----------------------------------------------------------------------------
(***************************************************************************)
(* dsac::unique_lock: guards that own a lock on a mutex and hand it over   *)
(* by moves.  A guard belongs to one thread; the mutexes are shared and    *)
(* locking one waits until it is free.                                     *)
(***************************************************************************)

CONSTANTS Mutexes,  \* the mutexes that guards are made for
          NoMutex,  \* the mutex_ of a guard that was moved from or destroyed
          Names     \* the guards of each thread

ASSUME UniqueLockAssumption == NoMutex \notin Mutexes

Guards == Threads \X Names

VARIABLES
    mutexOf,   \* mutex_ of each guard
    isLocked,  \* is_locked_ of each guard
    ownerOf    \* of each mutex: the thread that has locked it, or Nobody

guardVars == <<mutexOf, isLocked, ownerOf>>

UniqueLockInit ==
    /\ mutexOf = [g \in Guards |-> NoMutex] /\ isLocked = [g \in Guards |-> FALSE]
    /\ ownerOf = [m \in Mutexes |-> Nobody]

\* What unlock() of the mutexes of guards gs leaves.
Unlocked(gs) == [m \in Mutexes |-> IF \E g \in gs : mutexOf[g] = m THEN Nobody ELSE ownerOf[m]]

\* The constructor locks.
Guard(g, m) ==
    /\ mutexOf[g] = NoMutex /\ ownerOf[m] = Nobody
    /\ mutexOf' = [mutexOf EXCEPT ![g] = m]
    /\ isLocked' = [isLocked EXCEPT ![g] = TRUE]
    /\ ownerOf' = [ownerOf EXCEPT ![m] = g[1]]

\* lock() and unlock() of a guard that still has its mutex.
LockAgain(g) ==
    /\ mutexOf[g] # NoMutex /\ ~isLocked[g] /\ ownerOf[mutexOf[g]] = Nobody
    /\ isLocked' = [isLocked EXCEPT ![g] = TRUE]
    /\ ownerOf' = [ownerOf EXCEPT ![mutexOf[g]] = g[1]]
    /\ UNCHANGED mutexOf

UnlockEarly(g) ==
    /\ isLocked[g]
    /\ isLocked' = [isLocked EXCEPT ![g] = FALSE]
    /\ ownerOf' = Unlocked({g}) /\ UNCHANGED mutexOf

\* A defect: the guard that was moved from still believes to own the lock.
MoveConstructKeeps(g, h) ==
    /\ g # h /\ mutexOf[g] = NoMutex
    /\ mutexOf' = [mutexOf EXCEPT ![g] = mutexOf[h]]
    /\ isLocked' = [isLocked EXCEPT ![g] = isLocked[h]]
    /\ UNCHANGED ownerOf

\* Move constructor.
MoveConstruct(g, h) ==
    /\ g # h /\ mutexOf[g] = NoMutex
    /\ mutexOf' = [mutexOf EXCEPT ![g] = mutexOf[h], ![h] = NoMutex]
    /\ isLocked' = [isLocked EXCEPT ![g] = isLocked[h], ![h] = FALSE]
    /\ UNCHANGED ownerOf

\* Move assignment unlocks first; assigned to itself a guard ends unlocked.
MoveAssignGuard(g, h) ==
    /\ ownerOf' = IF isLocked[g] THEN Unlocked({g}) ELSE ownerOf
    /\ mutexOf' = [mutexOf EXCEPT ![h] = NoMutex, ![g] = mutexOf[h]]
    /\ isLocked' = [isLocked EXCEPT ![h] = FALSE, ![g] = g # h /\ isLocked[h]]

\* Destructor.
EndOfScope(g) ==
    /\ mutexOf[g] # NoMutex
    /\ ownerOf' = IF isLocked[g] THEN Unlocked({g}) ELSE ownerOf
    /\ mutexOf' = [mutexOf EXCEPT ![g] = NoMutex]
    /\ isLocked' = [isLocked EXCEPT ![g] = FALSE]

UniqueLockNext ==
    \/ \E g \in Guards : LockAgain(g) \/ UnlockEarly(g) \/ EndOfScope(g)
    \/ \E g \in Guards, m \in Mutexes : Guard(g, m)
    \/ \E t \in Threads, i, j \in Names :
           MoveConstruct(<<t, i>>, <<t, j>>) \/ MoveAssignGuard(<<t, i>>, <<t, j>>)

UniqueLockSpec == UniqueLockInit /\ [][UniqueLockNext]_guardVars

-----------------------------------------------------------------------------
\* After any sequence of moves a mutex is locked exactly while one guard
\* says so, and that guard is one of the thread that locked the mutex: no
\* lock is lost in a move, and none is given back twice.
GuardsOwnTheirLocks ==
    \A m \in Mutexes :
        LET locked == {g \in Guards : mutexOf[g] = m /\ isLocked[g]}
        IN IF ownerOf[m] = Nobody THEN locked = {}
           ELSE \E g \in Guards : locked = {g} /\ g[1] = ownerOf[m]

=============================================================================
