----------------------- MODULE SynchronizationProofs ------------------------
(***************************************************************************)
(* The primitives that threads synchronize with, for any number of them.   *)
(*                                                                         *)
(* dsac::mutex is a lock: mutual exclusion, no lost wake-up (inductive     *)
(* invariant MutexInv), and refinement of Exclusion; so is                 *)
(* dsac::critical_section (SpinInv).  Those that wait on condition         *)
(* variables: dsac::semaphore conserves its permits (SemaphoreInv), the    *)
(* blocking queue (QInv) and dsac::mvar (MVarInv) lose no wake-up, and     *)
(* nobody passes dsac::barrier early (BarrierInv).                         *)
(***************************************************************************)
EXTENDS Locks, Semaphore, Barrier, BlockingQueue, MVar, FiniteSetTheorems, SequenceTheorems, TLAPS

\* The initial states satisfy the inductive invariant.
LEMMA InitInv == MutexInit => MutexInv
  BY DEF MutexInit, MutexInv, MutexTypeOK, MutexPCs, MutualExclusion, ZeroMeansFree, NoLostFutexWakeup,
         MutexOwners, FutexSleepers

\* Every step of lock(), unlock() and the kernel preserves the invariant.
LEMMA NextInv == MutexInv /\ [MutexNext]_mutexVars => MutexInv'
<1> SUFFICES ASSUME MutexInv, [MutexNext]_mutexVars
             PROVE  MutexInv'
    OBVIOUS
<1> USE DEF MutexInv, MutexTypeOK, MutexPCs, MutexGoto, MutualExclusion, ZeroMeansFree,
            NoLostFutexWakeup, MutexOwners, FutexSleepers
<1>1. ASSUME NEW t \in Threads, CallMutexLock(t)   PROVE MutexInv'
    BY <1>1 DEF CallMutexLock
<1>2. ASSUME NEW t \in Threads, CasZeroOne(t) PROVE MutexInv'
    BY <1>2 DEF CasZeroOne
<1>3. ASSUME NEW t \in Threads, CasOneTwo(t)  PROVE MutexInv'
    BY <1>3 DEF CasOneTwo
<1>4. ASSUME NEW t \in Threads, FutexWait(t)  PROVE MutexInv'
    BY <1>4 DEF FutexWait
<1>5. ASSUME NEW t \in Threads, FutexSpuriousWake(t) PROVE MutexInv'
    BY <1>5 DEF FutexSpuriousWake
<1>6. ASSUME NEW t \in Threads, CasZeroTwo(t) PROVE MutexInv'
    BY <1>6 DEF CasZeroTwo
<1>7. ASSUME NEW t \in Threads, FetchSub(t)   PROVE MutexInv'
    BY <1>7 DEF FetchSub
<1>8. ASSUME NEW t \in Threads, StoreZero(t)  PROVE MutexInv'
    BY <1>8 DEF StoreZero
<1>9. ASSUME NEW t \in Threads, FutexWake(t)  PROVE MutexInv'
    BY <1>9 DEF FutexWake
<1>10. CASE UNCHANGED mutexVars
    BY <1>10 DEF mutexVars
<1> QED
    BY <1>1, <1>2, <1>3, <1>4, <1>5, <1>6, <1>7, <1>8, <1>9, <1>10
    DEF MutexNext, MutexStep

\* For any number of threads, at most one is between lock() and unlock(), the
\* futex word is 0 exactly while the mutex is free, and no sleeper is left
\* behind by an unlock().
THEOREM MutexSafe == MutexSpec => [](MutualExclusion /\ ZeroMeansFree /\ NoLostFutexWakeup)
<1>1. MutexInv => MutualExclusion /\ ZeroMeansFree /\ NoLostFutexWakeup
    BY DEF MutexInv
<1> QED
    BY <1>1, InitInv, NextInv, PTL DEF MutexSpec

-----------------------------------------------------------------------------
\* Every step of the mutex is a step of the abstract lock or a stutter.
LEMMA NextLock == MutexInv /\ [MutexNext]_mutexVars
                  => [ML!LockReturns \/ ML!UnlockCalled]_MutexOwners
<1> SUFFICES ASSUME MutexInv, [MutexNext]_mutexVars
             PROVE  ML!LockReturns \/ ML!UnlockCalled \/ UNCHANGED MutexOwners
    OBVIOUS
<1>0. MutexInv'
    BY NextInv
<1> USE DEF MutexGoto
<1>1. ASSUME NEW t \in Threads, mutexPc' = [mutexPc EXCEPT ![t] = "owns"], mutexState = 0
      PROVE  ML!LockReturns
    <2>1. MutexOwners = {}
        BY <1>1 DEF MutexInv, ZeroMeansFree
    <2>2. t \in MutexOwners'
        BY <1>1 DEF MutexOwners, MutexInv, MutexTypeOK
    <2>3. MutexOwners' = {t}
        BY <1>0, <2>2 DEF MutexInv, MutualExclusion
    <2> QED
        BY <2>1, <2>3 DEF ML!LockReturns, ML!Available
<1>2. ASSUME NEW t \in Threads, t \in MutexOwners, mutexState' = 0
      PROVE  ML!UnlockCalled
    <2>1. MutexOwners' = {}
        BY <1>0, <1>2 DEF MutexInv, ZeroMeansFree
    <2> QED
        BY <1>2, <2>1 DEF ML!UnlockCalled, ML!Available
<1>3. ASSUME NEW t \in Threads, CallMutexLock(t) \/ CasOneTwo(t) \/ FutexWait(t) \/ FutexSpuriousWake(t)
      PROVE  UNCHANGED MutexOwners
    BY <1>3 DEF CallMutexLock, CasOneTwo, FutexWait, FutexSpuriousWake, MutexOwners, MutexInv, MutexTypeOK
<1>4. ASSUME NEW t \in Threads, CasZeroOne(t) \/ CasZeroTwo(t)
      PROVE  ML!LockReturns \/ UNCHANGED MutexOwners
    <2>1. CASE mutexState = 0
        BY <1>1, <1>4, <2>1 DEF CasZeroOne, CasZeroTwo
    <2>2. CASE mutexState # 0
        BY <1>4, <2>2 DEF CasZeroOne, CasZeroTwo, MutexOwners, MutexInv, MutexTypeOK
    <2> QED
        BY <2>1, <2>2
<1>5. ASSUME NEW t \in Threads, FetchSub(t)
      PROVE  ML!UnlockCalled \/ UNCHANGED MutexOwners
    <2>1. CASE mutexState = 1
        BY <1>2, <1>5, <2>1 DEF FetchSub, MutexOwners
    <2>2. CASE mutexState # 1
        BY <1>5, <2>2 DEF FetchSub, MutexOwners, MutexInv, MutexTypeOK
    <2> QED
        BY <2>1, <2>2
<1>6. ASSUME NEW t \in Threads, StoreZero(t)
      PROVE  ML!UnlockCalled
    BY <1>2, <1>6 DEF StoreZero, MutexOwners
<1>7. ASSUME NEW t \in Threads, FutexWake(t)
      PROVE  UNCHANGED MutexOwners
    BY <1>7 DEF FutexWake, FutexSleepers, MutexOwners, MutexInv, MutexTypeOK
<1>8. CASE UNCHANGED mutexVars
    BY <1>8 DEF mutexVars, MutexOwners
<1> QED
    BY <1>3, <1>4, <1>5, <1>6, <1>7, <1>8 DEF MutexNext, MutexStep

\* dsac::mutex implements the abstract lock of mutex.hpp's comments.
THEOREM MutexImplementsLock == MutexSpec => MutexIsLock
<1>1. MutexInit => ML!Available
    BY DEF MutexInit, ML!Available, MutexOwners
<1> QED
    BY <1>1, InitInv, NextInv, NextLock, PTL DEF MutexSpec, MutexIsLock, ML!Exclusive

-----------------------------------------------------------------------------
\* The inductive invariant of the spin lock: the flag is set exactly while
\* somebody is inside, and nobody else is.
SpinInv ==
    /\ SpinTypeOK
    /\ locked <=> SpinOwners # {}
    /\ \A t, u \in SpinOwners : t = u

\* Initially the flag is clear and nobody is inside.
LEMMA SpinInitInv == SpinInit => SpinInv
  BY DEF SpinInit, SpinInv, SpinTypeOK, SpinOwners

\* Every access of the flag preserves the invariant.
LEMMA SpinNextInv == SpinInv /\ [SpinNext]_spinVars => SpinInv'
<1> SUFFICES ASSUME SpinInv, [SpinNext]_spinVars PROVE SpinInv'
    OBVIOUS
<1> USE DEF SpinInv, SpinTypeOK, SpinOwners, SpinGoto
<1>1. ASSUME NEW t \in Threads, CallSpinLock(t) PROVE SpinInv'
    BY <1>1 DEF CallSpinLock
<1>2. ASSUME NEW t \in Threads, Exchange(t) PROVE SpinInv'
    BY <1>2 DEF Exchange
<1>3. ASSUME NEW t \in Threads, SpinLoad(t) PROVE SpinInv'
    BY <1>3 DEF SpinLoad
<1>4. ASSUME NEW t \in Threads, SpinUnlock(t) PROVE SpinInv'
    BY <1>4 DEF SpinUnlock
<1>5. CASE UNCHANGED spinVars
    BY <1>5 DEF spinVars
<1> QED
    BY <1>1, <1>2, <1>3, <1>4, <1>5 DEF SpinNext

\* Every step of the spin lock is a step of the abstract lock or a stutter.
LEMMA SpinNextLock == SpinInv /\ [SpinNext]_spinVars
                      => [SL!LockReturns \/ SL!UnlockCalled]_SpinOwners
<1> SUFFICES ASSUME SpinInv, [SpinNext]_spinVars
             PROVE  SL!LockReturns \/ SL!UnlockCalled \/ UNCHANGED SpinOwners
    OBVIOUS
<1> USE DEF SpinInv, SpinTypeOK, SpinOwners, SpinGoto
<1>1. ASSUME NEW t \in Threads, Exchange(t), ~locked PROVE SL!LockReturns
    <2>1. SpinOwners = {} /\ SpinOwners' = {t}
        BY <1>1 DEF Exchange
    <2> QED
        BY <2>1 DEF SL!LockReturns, SL!Available
<1>2. ASSUME NEW t \in Threads, SpinUnlock(t) PROVE SL!UnlockCalled
    <2>1. t \in SpinOwners /\ SpinOwners' = {}
        BY <1>2 DEF SpinUnlock
    <2> QED
        BY <2>1 DEF SL!UnlockCalled, SL!Available
<1>3. ASSUME NEW t \in Threads, CallSpinLock(t) \/ SpinLoad(t) \/ (Exchange(t) /\ locked)
      PROVE  UNCHANGED SpinOwners
    BY <1>3 DEF CallSpinLock, SpinLoad, Exchange
<1>4. CASE UNCHANGED spinVars
    BY <1>4 DEF spinVars
<1> QED
    BY <1>1, <1>2, <1>3, <1>4 DEF SpinNext

\* dsac::critical_section implements the abstract lock of its comments,
\* although a caller that saw the flag clear may find it taken again by the
\* time of its exchange.
THEOREM SpinImplementsLock == SpinSpec => SpinIsLock
<1>1. SpinInit => SL!Available
    BY DEF SpinInit, SL!Available, SpinOwners
<1> QED
    BY <1>1, SpinInitInv, SpinNextInv, SpinNextLock, PTL DEF SpinSpec, SpinIsLock, SL!Exclusive

-----------------------------------------------------------------------------
\* Holders is finite, and has the cardinality that a thread's arrival or
\* departure gives it.
LEMMA HoldersFinite == IsFiniteSet(Holders) /\ Cardinality(Holders) \in Nat
  BY SemaphoreAssumption, ThreadsAssumption, FS_Subset, FS_CardinalityType DEF Holders

\* Initially nobody holds a permit and all of them are available.
LEMMA SemaphoreInitInv == SemaphoreInit => SemaphoreInv
<1> SUFFICES ASSUME SemaphoreInit PROVE SemaphoreInv
    OBVIOUS
<1>1. SemaphoreTypeOK /\ MutexOwned /\ NoUnderflow
    BY SemaphoreAssumption, ThreadsAssumption
    DEF SemaphoreInit, SemaphoreTypeOK, SemaphorePCs, MutexOwned, NoUnderflow, Inside
<1>2. Holders = {}
    BY DEF SemaphoreInit, Holders
<1>3. AllAccountedFor
    BY <1>2, FS_EmptySet, SemaphoreAssumption, ThreadsAssumption DEF SemaphoreInit, AllAccountedFor
<1> QED
    BY <1>1, <1>3 DEF SemaphoreInv, PermitsConserved

\* Every step but the conservation of permits, which needs cardinalities.
LEMMA SemaphoreNextShape ==
  ASSUME SemaphoreInv, [SemaphoreNext]_semaphoreVars
  PROVE  MutexOwned' /\ NoUnderflow' /\ holder' \in Threads \cup {Nobody}
         /\ semaphorePc' \in [Threads -> SemaphorePCs] /\ tokens' \in Int
<1> USE SemaphoreAssumption, ThreadsAssumption
    DEF SemaphoreInv, PermitsConserved, SemaphoreTypeOK, SemaphorePCs, SemaphoreGoto, MutexOwned, NoUnderflow, Inside, Enqueued
<1>1. ASSUME NEW t \in Threads, CallAcquire(t) \/ SemaphoreSpuriousWake(t) \/ Test(t)
      PROVE  MutexOwned' /\ NoUnderflow' /\ UNCHANGED <<holder, tokens>>
    BY <1>1 DEF CallAcquire, SemaphoreSpuriousWake, Test
<1>2. ASSUME NEW t \in Threads, LockMutex(t) \/ Block(t) \/ Take(t)
      PROVE  MutexOwned' /\ NoUnderflow' /\ holder' \in {t, Nobody}
    BY <1>2 DEF LockMutex, Block, Take
<1>3. ASSUME NEW t \in Threads, Increment(t) \/ NotifyNotZero(t)
      PROVE  MutexOwned' /\ NoUnderflow' /\ UNCHANGED holder
    BY <1>3 DEF Increment, NotifyNotZero
<1>4. ASSUME NEW t \in Threads, CallAcquire(t) \/ SemaphoreSpuriousWake(t) \/ SemaphoreStep(t) \/ Increment(t)
      PROVE  semaphorePc' \in [Threads -> SemaphorePCs] /\ tokens' \in Int
    BY <1>4 DEF CallAcquire, SemaphoreSpuriousWake, SemaphoreStep, LockMutex, Test, Block, Take, NotifyNotZero, Increment
<1>5. CASE UNCHANGED semaphoreVars
    BY <1>5 DEF semaphoreVars
<1> QED
    BY <1>1, <1>2, <1>3, <1>4, <1>5 DEF SemaphoreNext, SemaphoreStep

\* acquire() turns one token into one holder, release() turns it back.
LEMMA SemaphoreNextConserves ==
  ASSUME SemaphoreInv, [SemaphoreNext]_semaphoreVars
  PROVE  AllAccountedFor'
<1> USE DEF SemaphoreInv, PermitsConserved, SemaphoreTypeOK, SemaphorePCs, SemaphoreGoto, AllAccountedFor
<1>0. SUFFICES tokens' + Cardinality(Holders') = tokens + Cardinality(Holders)
    OBVIOUS
<1>1. ASSUME Holders' = Holders, tokens' = tokens
      PROVE  tokens' + Cardinality(Holders') = tokens + Cardinality(Holders)
    BY <1>1
<1>2. ASSUME NEW t \in Threads, Take(t)
      PROVE  tokens' + Cardinality(Holders') = tokens + Cardinality(Holders)
    <2>1. Holders' = Holders \cup {t} /\ t \notin Holders
        BY <1>2 DEF Take, Holders
    <2>2. Cardinality(Holders') = Cardinality(Holders) + 1
        BY <2>1, HoldersFinite, FS_AddElement
    <2> QED
        BY <1>2, <2>2, HoldersFinite DEF Take
<1>3. ASSUME NEW t \in Threads, Increment(t)
      PROVE  tokens' + Cardinality(Holders') = tokens + Cardinality(Holders)
    <2>1. Holders' = Holders \ {t} /\ t \in Holders
        BY <1>3 DEF Increment, Holders
    <2>2. Cardinality(Holders') = Cardinality(Holders) - 1
        BY <2>1, HoldersFinite, FS_RemoveElement
    <2> QED
        BY <1>3, <2>2, HoldersFinite DEF Increment
<1>4. ASSUME NEW t \in Threads, CallAcquire(t) \/ SemaphoreSpuriousWake(t) \/ LockMutex(t) \/ Test(t) \/ Block(t)
      PROVE  Holders' = Holders /\ tokens' = tokens
    BY <1>4 DEF CallAcquire, SemaphoreSpuriousWake, LockMutex, Test, Block, Holders
<1>5. ASSUME NEW t \in Threads, NotifyNotZero(t)
      PROVE  Holders' = Holders /\ tokens' = tokens
    BY <1>5 DEF NotifyNotZero, Enqueued, Holders
<1>6. CASE UNCHANGED semaphoreVars
    BY <1>1, <1>6 DEF semaphoreVars, Holders
<1> QED
    BY <1>1, <1>2, <1>3, <1>4, <1>5, <1>6 DEF SemaphoreNext, SemaphoreStep

\* Every step of acquire(), release() and the condition variable preserves
\* the invariant.
LEMMA SemaphoreNextInv == SemaphoreInv /\ [SemaphoreNext]_semaphoreVars => SemaphoreInv'
<1> SUFFICES ASSUME SemaphoreInv, [SemaphoreNext]_semaphoreVars PROVE SemaphoreInv'
    OBVIOUS
<1>1. MutexOwned' /\ NoUnderflow' /\ AllAccountedFor' /\ tokens' \in Int
    BY SemaphoreNextShape, SemaphoreNextConserves
<1>2. Cardinality(Holders') \in Nat
    <2>1. Holders' \subseteq Threads
        BY DEF Holders
    <2> QED
        BY <2>1, SemaphoreAssumption, ThreadsAssumption, FS_Subset, FS_CardinalityType
<1>3. tokens' >= 0
    <2>1. ASSUME NEW t \in Threads, Take(t) PROVE tokens' >= 0
        BY <2>1 DEF Take, SemaphoreGoto, SemaphoreInv, PermitsConserved, SemaphoreTypeOK, NoUnderflow
    <2>2. ASSUME NEW t \in Threads, CallAcquire(t) \/ SemaphoreSpuriousWake(t) \/ LockMutex(t) \/ Test(t)
                                    \/ Block(t) \/ NotifyNotZero(t) \/ Increment(t)
          PROVE  tokens' >= 0
        BY <2>2, SemaphoreAssumption, ThreadsAssumption DEF CallAcquire, SemaphoreSpuriousWake, LockMutex, Test, Block, NotifyNotZero,
               Increment, SemaphoreInv, SemaphoreTypeOK
    <2>3. CASE UNCHANGED semaphoreVars
        BY <2>3, SemaphoreAssumption, ThreadsAssumption DEF semaphoreVars, SemaphoreInv, SemaphoreTypeOK
    <2> QED
        BY <2>1, <2>2, <2>3 DEF SemaphoreNext, SemaphoreStep
<1>4. tokens' \in 0..Permits
    BY <1>1, <1>2, <1>3, SemaphoreAssumption, ThreadsAssumption DEF AllAccountedFor
<1> QED
    BY <1>1, <1>4, SemaphoreNextShape DEF SemaphoreInv, PermitsConserved, SemaphoreTypeOK

\* For any number of threads and permits, no more permits are given out than
\* the constructor's argument says, although release() runs without the mutex:
\* counter and holders add up to it, and the decrement never wraps around.
THEOREM SemaphoreSafe == SemaphoreSpec => [](SemaphoreTypeOK /\ PermitsConserved)
<1>1. SemaphoreInv => SemaphoreTypeOK /\ PermitsConserved
    BY DEF SemaphoreInv
<1> QED
    BY <1>1, SemaphoreInitInv, SemaphoreNextInv, PTL DEF SemaphoreSpec

-----------------------------------------------------------------------------
\* The threads at some place are finitely many.
LEMMA AtFinite ==
  ASSUME NEW where
  PROVE  IsFiniteSet(At(where)) /\ Cardinality(At(where)) \in Nat
  BY QueueAssumption, FS_Subset, FS_CardinalityType DEF At

\* A thread that moves from one place to another adds one to the place it
\* comes to, takes one from the place it leaves and disturbs no other place.
LEMMA QMoves ==
  ASSUME NEW t \in QThreads, NEW from, NEW to, from # to,
         qpc \in [QThreads -> {"idle", "notify", "pop", "asleep"}],
         QGoto(t, from, to)
  PROVE  /\ Cardinality(At(to)') = Cardinality(At(to)) + 1
         /\ Cardinality(At(from)') = Cardinality(At(from)) - 1
         /\ \A other : other \notin {from, to} => At(other)' = At(other)
<1>1. At(to)' = At(to) \cup {t} /\ t \notin At(to)
    BY DEF QGoto, At
<1>2. At(from)' = At(from) \ {t} /\ t \in At(from)
    BY DEF QGoto, At
<1>3. ASSUME NEW other, other \notin {from, to} PROVE At(other)' = At(other)
    BY <1>3 DEF QGoto, At
<1>4. Cardinality(At(to)') = Cardinality(At(to)) + 1
    BY <1>1, AtFinite, FS_AddElement
<1>5. Cardinality(At(from)') = Cardinality(At(from)) - 1
    BY <1>2, AtFinite, FS_RemoveElement
<1> QED
    BY <1>3, <1>4, <1>5

\* Initially nobody waits.
LEMMA QInitInv == QInit => QInv
  BY DEF QInit, QInv, QTypeOK, NoLostNotification, At

\* The buffer grows by one, shrinks by one or stays.
LEMMA QNextType == QInv /\ [QNext]_qvars => QTypeOK'
<1> SUFFICES ASSUME QInv, [QNext]_qvars PROVE QTypeOK'
    OBVIOUS
<1> USE DEF QInv, QTypeOK, QGoto
<1>1. ASSUME NEW t \in QThreads, NEW v \in Values, Push(t, v) PROVE QTypeOK'
    BY <1>1 DEF Push
<1>2. ASSUME NEW t \in QThreads, NotifyOne(t) PROVE QTypeOK'
    BY <1>2 DEF NotifyOne, At
<1>3. ASSUME NEW t \in QThreads, NEW v \in Values, PopValue(t, v) PROVE QTypeOK'
    BY <1>3, HeadTailProperties DEF PopValue
<1>4. ASSUME NEW t \in QThreads, CallPop(t) \/ PopWait(t) \/ QSpuriousWake(t) PROVE QTypeOK'
    BY <1>4 DEF CallPop, PopWait, QSpuriousWake
<1>5. CASE UNCHANGED qvars
    BY <1>5 DEF qvars
<1> QED
    BY <1>1, <1>2, <1>3, <1>4, <1>5 DEF QNext, Consume

\* Every element keeps somebody who will deal with it.
LEMMA QNextInv == QInv /\ [QNext]_qvars => QInv'
<1> SUFFICES ASSUME QInv, [QNext]_qvars PROVE NoLostNotification'
    BY QNextType DEF QInv
<1>0. /\ \A where : Cardinality(At(where)) \in Nat /\ IsFiniteSet(At(where))
      /\ Len(buffer) \in Nat
    BY AtFinite DEF QInv, QTypeOK
<1> USE DEF QInv, QTypeOK, NoLostNotification
<1>1. ASSUME NEW t \in QThreads, NEW v \in Values, Push(t, v) PROVE NoLostNotification'
    <2>1. Cardinality(At("notify")') = Cardinality(At("notify")) + 1
          /\ At("asleep")' = At("asleep") /\ At("pop")' = At("pop")
        BY <1>1, QMoves DEF Push
    <2>2. Len(buffer') = Len(buffer) + 1
        BY <1>1 DEF Push
    <2> QED
        BY <1>0, <2>1, <2>2
<1>2. ASSUME NEW t \in QThreads, NotifyOne(t) PROVE NoLostNotification'
    <2>1. CASE At("asleep") = {}
        <3>1. At("asleep")' = {}
            BY <1>2, <2>1 DEF NotifyOne, At
        <3> QED
            BY <3>1
    <2>2. CASE At("asleep") # {}
        <3>1. PICK s \in At("asleep") : qpc' = [qpc EXCEPT ![t] = "idle", ![s] = "pop"]
            BY <1>2, <2>2 DEF NotifyOne
        <3>2. At("notify")' = At("notify") \ {t} /\ t \in At("notify")
            BY <1>2, <3>1 DEF NotifyOne, At
        <3>3. At("pop")' = At("pop") \cup {s} /\ s \notin At("pop")
            BY <1>2, <3>1 DEF NotifyOne, At
        <3>4. Cardinality(At("notify")') = Cardinality(At("notify")) - 1
            BY <1>0, <3>2, FS_RemoveElement
        <3>5. Cardinality(At("pop")') = Cardinality(At("pop")) + 1
            BY <1>0, <3>3, FS_AddElement
        <3> QED
            BY <1>0, <1>2, <2>2, <3>4, <3>5 DEF NotifyOne
    <2> QED
        BY <2>1, <2>2
<1>3. ASSUME NEW t \in QThreads, CallPop(t) PROVE NoLostNotification'
    <2>1. Cardinality(At("pop")') = Cardinality(At("pop")) + 1
          /\ At("asleep")' = At("asleep") /\ At("notify")' = At("notify")
        BY <1>3, QMoves DEF CallPop
    <2> QED
        BY <1>0, <1>3, <2>1 DEF CallPop
<1>4. ASSUME NEW t \in QThreads, NEW v \in Values, PopValue(t, v) PROVE NoLostNotification'
    <2>1. Cardinality(At("pop")') = Cardinality(At("pop")) - 1
          /\ At("asleep")' = At("asleep") /\ At("notify")' = At("notify")
        BY <1>4, QMoves DEF PopValue
    <2>2. Len(buffer') = Len(buffer) - 1
        BY <1>4, HeadTailProperties DEF PopValue
    <2> QED
        BY <1>0, <2>1, <2>2
<1>5. ASSUME NEW t \in QThreads, PopWait(t) PROVE NoLostNotification'
    <2>1. Len(buffer') = 0
        BY <1>5 DEF PopWait
    <2>2. Cardinality(At("notify")') \in Nat /\ Cardinality(At("pop")') \in Nat
        <3>1. ASSUME NEW where PROVE At(where)' \in SUBSET QThreads
            BY DEF At
        <3> QED
            BY <3>1, QueueAssumption, FS_Subset, FS_CardinalityType
    <2> QED
        BY <2>1, <2>2
<1>6. ASSUME NEW t \in QThreads, QSpuriousWake(t) PROVE NoLostNotification'
    <2>1. Cardinality(At("pop")') = Cardinality(At("pop")) + 1
          /\ At("notify")' = At("notify")
        BY <1>6, QMoves DEF QSpuriousWake
    <2>2. t \in At("asleep")
        BY <1>6 DEF QSpuriousWake, QGoto, At
    <2> QED
        BY <1>0, <1>6, <2>1, <2>2 DEF QSpuriousWake
<1>7. CASE UNCHANGED qvars
    BY <1>7 DEF qvars, At
<1> QED
    BY <1>1, <1>2, <1>3, <1>4, <1>5, <1>6, <1>7 DEF QNext, Consume

\* For any number of threads and any bound on the buffer, no notification of
\* push() is lost: while a consumer waits, every element has a push() that
\* will notify or a pop() that is awake.
THEOREM QueueLosesNoWakeup == QSpec => []NoLostNotification
<1>1. QInv => NoLostNotification
    BY DEF QInv
<1> QED
    BY <1>1, QInitInv, QNextInv, PTL DEF QSpec

-----------------------------------------------------------------------------
\* The inductive invariant of mvar.
MVarInv == MVarTypeOK /\ SleepersHaveReason

\* Nobody sleeps initially.
LEMMA MVarInitInv == MVarInit => MVarInv
  BY DEF MVarInit, MVarInv, MVarTypeOK, SleepersHaveReason

\* Whoever makes a predicate true wakes all who sleep on it.
LEMMA MVarNextInv == MVarInv /\ [MVarNext]_mvarVars => MVarInv'
<1> SUFFICES ASSUME MVarInv, [MVarNext]_mvarVars PROVE MVarInv'
    OBVIOUS
<1> USE DEF MVarInv, MVarTypeOK, SleepersHaveReason, Runs, Return, NotifyAllIn
<1>1. ASSUME NEW t \in Threads, CallMVar(t) PROVE MVarInv'
    BY <1>1 DEF CallMVar
<1>2. ASSUME NEW t \in Threads, PutValue(t) PROVE MVarInv'
    BY <1>2, MVarAssumption DEF PutValue
<1>3. ASSUME NEW t \in Threads, TakeValue(t) PROVE MVarInv'
    BY <1>3 DEF TakeValue
<1>4. ASSUME NEW t \in Threads, ReadOnly(t) PROVE MVarInv'
    BY <1>4 DEF ReadOnly
<1>5. ASSUME NEW t \in Threads, MVarWait(t) PROVE MVarInv'
    BY <1>5 DEF MVarWait
<1>6. ASSUME NEW t \in Threads, MVarSpuriousWake(t) PROVE MVarInv'
    BY <1>6 DEF MVarSpuriousWake
<1>7. CASE UNCHANGED mvarVars
    BY <1>7 DEF mvarVars
<1> QED
    BY <1>1, <1>2, <1>3, <1>4, <1>5, <1>6, <1>7 DEF MVarNext, MVarRun

\* For any threads and values nobody sleeps in an operation of mvar whose
\* predicate holds: put(), take() and read_only() lose no wake-up.
THEOREM MVarLosesNoWakeup == MVarSpec => []SleepersHaveReason
<1>1. MVarInv => SleepersHaveReason
    BY DEF MVarInv
<1> QED
    BY <1>1, MVarInitInv, MVarNextInv, PTL DEF MVarSpec

-----------------------------------------------------------------------------
(* The barrier.                                                            *)

\* Sets of threads are finite and no larger than the barrier.
LEMMA ThreadSets ==
  ASSUME NEW S \in SUBSET Threads
  PROVE  /\ IsFiniteSet(S) /\ Cardinality(S) \in Nat
         /\ BarrierSize \in Nat \ {0} /\ Cardinality(S) <= BarrierSize
<1>1. IsFiniteSet(Threads) /\ BarrierSize \in Nat
    BY BarrierAssumption, ThreadsAssumption, FS_CardinalityType DEF BarrierSize
<1>2. BarrierSize # 0
    BY <1>1, BarrierAssumption, ThreadsAssumption, FS_EmptySet DEF BarrierSize
<1> QED
    BY <1>1, <1>2, FS_Subset, FS_CardinalityType DEF BarrierSize

\* Initially nobody waits and the count stands at the size of the barrier.
LEMMA BarrierInitInv == BarrierInit => BarrierInv
<1> SUFFICES ASSUME BarrierInit PROVE BarrierInv
    OBVIOUS
<1>1. StillWaiting = {}
    BY DEF BarrierInit, StillWaiting
<1>2. BarrierSize \in Nat \ {0} /\ Cardinality({}) = 0
    BY ThreadSets, FS_EmptySet
<1>3. BarrierTypeOK /\ CounterExact
    BY <1>1, <1>2, BarrierAssumption, ThreadsAssumption DEF BarrierInit, BarrierTypeOK, BarrierStates, CounterExact
<1>4. PhaseIs(0)
    BY <1>1 DEF BarrierInit, PhaseIs
<1> QED
    BY <1>2, <1>3, <1>4, BarrierAssumption, ThreadsAssumption DEF BarrierInit, BarrierInv

\* A thread that has to wait joins the waiting threads and moves the count.
LEMMA JoinWaiting ==
  ASSUME BarrierInv, NEW t \in Threads, CallArrive(t), NEW s \in BarrierStates, s # barrierState, WaitFor(t, s)
  PROVE  /\ StillWaiting' = StillWaiting \cup {t}
         /\ Cardinality(StillWaiting') = Cardinality(StillWaiting) + 1
         /\ \E k \in 0..MaxPhases : PhaseIs(k)'
<1>1. StillWaiting' = StillWaiting \cup {t} /\ t \notin StillWaiting
    BY DEF BarrierInv, BarrierTypeOK, CallArrive, WaitFor, StillWaiting
<1>2. Cardinality(StillWaiting') = Cardinality(StillWaiting) + 1
    BY <1>1, ThreadSets, FS_AddElement DEF StillWaiting
<1>3. PICK k \in 0..MaxPhases : PhaseIs(k)
    BY DEF BarrierInv
<1>4. PhaseIs(k)'
    BY <1>1, <1>3 DEF PhaseIs, CallArrive, BarrierInv, BarrierTypeOK
<1> QED
    BY <1>1, <1>2, <1>4

\* When the last thread arrives, all the others wait, all of them are let go
\* at once and the next phase begins.
LEMMA LetGo ==
  ASSUME BarrierInv, NEW t \in Threads, CallArrive(t), Cardinality(StillWaiting) = BarrierSize - 1,
         NEW s \in BarrierStates, s # barrierState, TurnRound(s)
  PROVE  StillWaiting' = {} /\ Cardinality(StillWaiting') = 0
         /\ \E k \in 0..MaxPhases : PhaseIs(k)'
<1>1. t \notin StillWaiting /\ StillWaiting \in SUBSET (Threads \ {t})
    BY DEF CallArrive, StillWaiting
<1>2. Cardinality(Threads \ {t}) = BarrierSize - 1 /\ IsFiniteSet(Threads \ {t})
    BY BarrierAssumption, ThreadsAssumption, FS_RemoveElement DEF BarrierSize
<1>3. StillWaiting = Threads \ {t}
    BY <1>1, <1>2, FS_Subset
<1>4. StillWaiting' = {}
    BY <1>3 DEF CallArrive, StillWaiting, TurnRound, NotifyAll, BarrierInv, BarrierTypeOK, BarrierStates
<1>5. PICK k \in 0..MaxPhases : PhaseIs(k)
    BY DEF BarrierInv
<1>6. k + 1 \in 0..MaxPhases /\ PhaseIs(k + 1)'
    BY <1>1, <1>3, <1>4, <1>5, BarrierAssumption, ThreadsAssumption DEF PhaseIs, CallArrive, BarrierInv, BarrierTypeOK
<1> QED
    BY <1>4, <1>6, FS_EmptySet

\* A step that leaves the count, the state and the waiting threads alone.
LEMMA SameWaiting ==
  ASSUME BarrierInv, StillWaiting' = StillWaiting, UNCHANGED <<barrierState, current, arrived>>
  PROVE  /\ CounterExact'
         /\ barrierState' = "blocking" => current' # 0
         /\ barrierState' = "unblocking" => current' # BarrierSize
         /\ \E k \in 0..MaxPhases : PhaseIs(k)'
  BY DEF BarrierInv, CounterExact, PhaseIs

\* Every step of arrive_and_wait() preserves the invariant.
LEMMA BarrierNextInv == BarrierInv /\ [BarrierNext]_barrierVars => BarrierInv'
<1> SUFFICES ASSUME BarrierInv, [BarrierNext]_barrierVars PROVE BarrierInv'
    OBVIOUS
<1>0. Cardinality(StillWaiting) \in Nat /\ BarrierSize \in Nat \ {0} /\ Cardinality(StillWaiting) <= BarrierSize
    BY ThreadSets DEF StillWaiting
<1>1. ASSUME NEW t \in Threads, ArriveBlocking(t) PROVE BarrierInv'
    <2>1. Cardinality(StillWaiting) = BarrierSize - current /\ current \in 1..BarrierSize
        BY <1>0, <1>1 DEF ArriveBlocking, BarrierInv, BarrierTypeOK, CounterExact
    <2>2. CASE current' = 0
        <3>1. TurnRound("unblocking") /\ CallArrive(t) /\ Cardinality(StillWaiting) = BarrierSize - 1
            BY <1>0, <1>1, <2>1, <2>2 DEF ArriveBlocking
        <3>2. Cardinality(StillWaiting') = 0 /\ \E k \in 0..MaxPhases : PhaseIs(k)'
            BY <1>1, <3>1, LetGo DEF ArriveBlocking, BarrierStates
        <3>3. BarrierTypeOK'
            BY <1>0, <1>1, <2>2, <3>1, BarrierAssumption, ThreadsAssumption
            DEF BarrierInv, BarrierTypeOK, BarrierStates, TurnRound, NotifyAll, CallArrive
        <3> QED
            BY <1>0, <2>2, <3>1, <3>2, <3>3 DEF BarrierInv, CounterExact, TurnRound
    <2>3. CASE current' # 0
        <3>1. WaitFor(t, "unblocking") /\ CallArrive(t) /\ barrierState = "blocking"
            BY <1>1, <2>3 DEF ArriveBlocking
        <3>2. Cardinality(StillWaiting') = Cardinality(StillWaiting) + 1
              /\ \E k \in 0..MaxPhases : PhaseIs(k)'
            BY <3>1, JoinWaiting DEF BarrierStates
        <3>3. BarrierTypeOK'
            BY <1>0, <1>1, <2>1, <3>1, BarrierAssumption, ThreadsAssumption
            DEF ArriveBlocking, BarrierInv, BarrierTypeOK, BarrierStates, WaitFor, CallArrive
        <3> QED
            BY <1>0, <1>1, <2>1, <2>3, <3>1, <3>2, <3>3
            DEF ArriveBlocking, BarrierInv, CounterExact, WaitFor
    <2> QED
        BY <2>2, <2>3
<1>2. ASSUME NEW t \in Threads, ArriveUnblocking(t) PROVE BarrierInv'
    <2>1. Cardinality(StillWaiting) = current /\ current \in 0..(BarrierSize - 1) /\ barrierState = "unblocking"
        BY <1>0, <1>2 DEF ArriveUnblocking, BarrierInv, BarrierTypeOK, CounterExact
    <2>2. CASE current' = BarrierSize
        <3>1. TurnRound("blocking") /\ CallArrive(t) /\ Cardinality(StillWaiting) = BarrierSize - 1
            BY <1>0, <1>2, <2>1, <2>2 DEF ArriveUnblocking
        <3>2. Cardinality(StillWaiting') = 0 /\ \E k \in 0..MaxPhases : PhaseIs(k)'
            BY <2>1, <3>1, LetGo DEF BarrierStates
        <3>3. BarrierTypeOK'
            BY <1>0, <1>2, <2>2, <3>1, BarrierAssumption, ThreadsAssumption
            DEF BarrierInv, BarrierTypeOK, BarrierStates, TurnRound, NotifyAll, CallArrive
        <3> QED
            BY <1>0, <2>2, <3>1, <3>2, <3>3 DEF BarrierInv, CounterExact, TurnRound
    <2>3. CASE current' # BarrierSize
        <3>1. WaitFor(t, "blocking") /\ CallArrive(t)
            BY <1>2, <2>3 DEF ArriveUnblocking
        <3>2. Cardinality(StillWaiting') = Cardinality(StillWaiting) + 1
              /\ \E k \in 0..MaxPhases : PhaseIs(k)'
            BY <2>1, <3>1, JoinWaiting DEF BarrierStates
        <3>3. BarrierTypeOK'
            BY <1>0, <1>2, <2>1, <3>1, BarrierAssumption, ThreadsAssumption
            DEF ArriveUnblocking, BarrierInv, BarrierTypeOK, BarrierStates, WaitFor, CallArrive
        <3> QED
            BY <1>0, <1>2, <2>1, <2>3, <3>1, <3>2, <3>3
            DEF ArriveUnblocking, BarrierInv, CounterExact, WaitFor
    <2> QED
        BY <2>2, <2>3
<1>3. ASSUME NEW t \in Threads, BarrierSpuriousWake(t) PROVE BarrierInv'
    <2>1. BarrierTypeOK' /\ StillWaiting' = StillWaiting
        BY <1>3 DEF BarrierSpuriousWake, BarrierInv, BarrierTypeOK, StillWaiting
    <2> QED
        BY <1>3, <2>1, SameWaiting DEF BarrierSpuriousWake, BarrierInv
<1>4. ASSUME NEW t \in Threads, Recheck(t) PROVE BarrierInv'
    <2>1. BarrierTypeOK' /\ StillWaiting' = StillWaiting
        BY <1>4 DEF Recheck, BarrierInv, BarrierTypeOK, StillWaiting
    <2> QED
        BY <1>4, <2>1, SameWaiting DEF Recheck, BarrierInv
<1>5. CASE UNCHANGED barrierVars
    <2>1. BarrierTypeOK' /\ StillWaiting' = StillWaiting
        BY <1>5 DEF barrierVars, BarrierInv, BarrierTypeOK, StillWaiting
    <2> QED
        BY <1>5, <2>1, SameWaiting DEF barrierVars, BarrierInv
<1> QED
    BY <1>1, <1>2, <1>3, <1>4, <1>5 DEF BarrierNext, Arrive, BarrierTerminated

\* For any number of threads and calls, no call of arrive_and_wait() returns
\* before every thread has made the call of the same phase, and the counter
\* is exact.
THEOREM BarrierSafe == BarrierSpec => [](BarrierTypeOK /\ CounterExact /\ NobodyPassesEarly)
<1>1. BarrierInv => BarrierTypeOK /\ CounterExact /\ NobodyPassesEarly
    <2> SUFFICES ASSUME BarrierInv PROVE NobodyPassesEarly
        BY DEF BarrierInv
    <2>1. PICK k \in 0..MaxPhases : PhaseIs(k)
        BY DEF BarrierInv
    <2>2. ASSUME NEW t \in Threads PROVE Returned(t) <= k
        BY <2>1 DEF PhaseIs, Returned, StillWaiting
    <2>3. ASSUME NEW u \in Threads PROVE k <= arrived[u]
        BY <2>1 DEF PhaseIs
    <2>4. ASSUME NEW t \in Threads PROVE Returned(t) \in Int /\ arrived[t] \in Int
        BY DEF Returned, BarrierInv, BarrierTypeOK
    <2> QED
        BY <2>2, <2>3, <2>4 DEF NobodyPassesEarly
<1> QED
    BY <1>1, BarrierInitInv, BarrierNextInv, PTL DEF BarrierSpec

=============================================================================
