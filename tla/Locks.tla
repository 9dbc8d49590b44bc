------------------------------- MODULE Locks --------------------------------
(***************************************************************************)
(* The two locks: mutex, then critical_section.                            *)
(*                                                                         *)
(* dsac::mutex (mutex.hpp, mutex.cpp): a lock made of one atomic integer   *)
(* and the futex system call.                                              *)
(*                                                                         *)
(*   state = 0  unlocked                                                   *)
(*   state = 1  locked, no waiters                                         *)
(*   state = 2  locked, there may be waiters in lock()                     *)
(*                                                                         *)
(* Every atomic access of state_ and every system call is one step.  The   *)
(* kernel's futex queue is the set of threads whose pc is "asleep".        *)
(***************************************************************************)
EXTENDS Integers, ThreadSet

VARIABLES mutexState,  \* mutex::state_
          mutexPc,     \* where each thread stands in lock() / unlock()
          mutexC       \* the local c of lock(): the last value the CAS saw

mutexVars == <<mutexState, mutexPc, mutexC>>

MutexPCs == {"idle", "cas_0_1", "cas_1_2", "futex_wait", "asleep", "cas_0_2",
        "owns", "store_0", "futex_wake"}

MutexTypeOK == /\ mutexState \in 0..2
               /\ mutexPc \in [Threads -> MutexPCs]
               /\ mutexC \in [Threads -> 0..2]

MutexInit == /\ mutexState = 0
             /\ mutexPc = [t \in Threads |-> "idle"]
             /\ mutexC = [t \in Threads |-> 0]

MutexGoto(t, from, to) == mutexPc[t] = from /\ mutexPc' = [mutexPc EXCEPT ![t] = to]

FutexSleepers == {t \in Threads : mutexPc[t] = "asleep"}

-----------------------------------------------------------------------------
\* A thread calls lock().
CallMutexLock(t) == MutexGoto(t, "idle", "cas_0_1") /\ UNCHANGED <<mutexState, mutexC>>

\* A defect: the uncontended path does not look at what the CAS returned.
CasZeroOneBlind(t) == MutexGoto(t, "cas_0_1", "owns") /\ mutexState' = 1 /\ UNCHANGED mutexC

\* compare_and_set(&state_, 0, 1), the uncontended path.
CasZeroOne(t) ==
    IF mutexState = 0
    THEN MutexGoto(t, "cas_0_1", "owns") /\ mutexState' = 1 /\ UNCHANGED mutexC
    ELSE /\ MutexGoto(t, "cas_0_1", "cas_1_2")
         /\ mutexC' = [mutexC EXCEPT ![t] = mutexState]
         /\ UNCHANGED mutexState

\* c == 2 || compare_and_set(&state_, 1, 2) != 0: announce a waiter.  The
\* CAS is not evaluated when c is 2; if it finds 0 the wait is skipped.
CasOneTwo(t) ==
    /\ UNCHANGED mutexC
    /\ \/ mutexC[t] = 2 /\ MutexGoto(t, "cas_1_2", "futex_wait") /\ UNCHANGED mutexState
       \/ /\ mutexC[t] # 2 /\ mutexState # 0
          /\ MutexGoto(t, "cas_1_2", "futex_wait") /\ mutexState' = 2
       \/ /\ mutexC[t] # 2 /\ mutexState = 0
          /\ MutexGoto(t, "cas_1_2", "cas_0_2") /\ UNCHANGED mutexState

\* FUTEX_WAIT with expected value 2: the kernel compares and enqueues in one
\* step; with any other value the call returns at once.
FutexWait(t) ==
    /\ MutexGoto(t, "futex_wait", IF mutexState = 2 THEN "asleep" ELSE "cas_0_2")
    /\ UNCHANGED <<mutexState, mutexC>>

\* FUTEX_WAIT may also return without a wake-up (a signal).
FutexSpuriousWake(t) == MutexGoto(t, "asleep", "cas_0_2") /\ UNCHANGED <<mutexState, mutexC>>

\* A defect: a woken thread takes the lock as if nobody else waited.
CasZeroTwoForgetful(t) ==
    IF mutexState = 0
    THEN MutexGoto(t, "cas_0_2", "owns") /\ mutexState' = 1 /\ mutexC' = [mutexC EXCEPT ![t] = 0]
    ELSE /\ MutexGoto(t, "cas_0_2", "cas_1_2")
         /\ mutexC' = [mutexC EXCEPT ![t] = mutexState]
         /\ UNCHANGED mutexState

\* compare_and_set(&state_, 0, 2): a thread that waited takes the lock in
\* the contended state, because others may still be asleep.
CasZeroTwo(t) ==
    IF mutexState = 0
    THEN /\ MutexGoto(t, "cas_0_2", "owns")
         /\ mutexState' = 2
         /\ mutexC' = [mutexC EXCEPT ![t] = 0]
    ELSE /\ MutexGoto(t, "cas_0_2", "cas_1_2")
         /\ mutexC' = [mutexC EXCEPT ![t] = mutexState]
         /\ UNCHANGED mutexState

\* unlock(): state_.fetch_sub(1), the uncontended path when it was 1.
FetchSub(t) ==
    /\ MutexGoto(t, "owns", IF mutexState = 1 THEN "idle" ELSE "store_0")
    /\ mutexState' = mutexState - 1
    /\ UNCHANGED mutexC

\* unlock(): state_.store(0) when there may be waiters.
StoreZero(t) == MutexGoto(t, "store_0", "futex_wake") /\ mutexState' = 0 /\ UNCHANGED mutexC

\* A defect: FUTEX_WAKE is called on another address and wakes nobody.
FutexWakeNobody(t) == MutexGoto(t, "futex_wake", "idle") /\ UNCHANGED <<mutexState, mutexC>>

\* unlock(): FUTEX_WAKE of one sleeper, if there is one.
FutexWake(t) ==
    /\ mutexPc[t] = "futex_wake"
    /\ IF FutexSleepers = {}
       THEN mutexPc' = [mutexPc EXCEPT ![t] = "idle"]
       ELSE \E s \in FutexSleepers : mutexPc' = [mutexPc EXCEPT ![t] = "idle", ![s] = "cas_0_2"]
    /\ UNCHANGED <<mutexState, mutexC>>

\* The steps a thread inside lock() or unlock() takes by itself.
MutexStep(t) == \/ CasZeroOne(t) \/ CasOneTwo(t) \/ FutexWait(t) \/ CasZeroTwo(t)
                \/ StoreZero(t) \/ FutexWake(t)

MutexNext ==
    \E t \in Threads : CallMutexLock(t) \/ MutexStep(t) \/ FetchSub(t) \/ FutexSpuriousWake(t)

MutexSpec == MutexInit /\ [][MutexNext]_mutexVars

\* The operating system keeps running every thread that is not asleep, and
\* an owner eventually calls unlock().  Nobody is forced to call lock().
MutexFairness ==
    \A t \in Threads : WF_mutexVars(MutexStep(t)) /\ WF_mutexVars(FetchSub(t))

-----------------------------------------------------------------------------
\* The threads whose lock() has returned and whose unlock() has not yet
\* made the mutex available.
MutexOwners == {t \in Threads : mutexPc[t] \in {"owns", "store_0"}}

\* At most one thread is between lock() and unlock(), however the
\* compare-and-set steps of the others interleave with a contended unlock(),
\* which passes through state 1 before it stores 0 (mutex.cpp unlock).
MutualExclusion == \A t, u \in MutexOwners : t = u

\* The word tells the truth: it is 0 exactly while nobody owns the mutex.
ZeroMeansFree == (mutexState = 0) <=> (MutexOwners = {})

\* No lost wake-up: while somebody sleeps in the kernel, either the word
\* says 2, so that the owner's unlock() will wake a sleeper, or some thread
\* is on its way to set it to 2 or to wake one.
NoLostFutexWakeup ==
    FutexSleepers # {} =>
        \/ mutexState = 2
        \/ \E t \in Threads : mutexPc[t] \in {"cas_1_2", "futex_wait", "cas_0_2",
                                              "store_0", "futex_wake"}

\* The inductive invariant behind the two properties.
MutexInv == MutexTypeOK /\ MutualExclusion /\ ZeroMeansFree /\ NoLostFutexWakeup

\* The lock as its callers see it: unlock() takes effect when the word
\* becomes 0.
ML == INSTANCE Exclusion WITH inside <- MutexOwners

\* dsac::mutex implements the abstract lock: each of its steps acquires the
\* lock while it is free, releases it by its owner, or changes nothing.
MutexIsLock == ML!Exclusive

\* Whoever waits, the lock does not stay free: if some thread is in lock(),
\* then some thread comes to own the mutex.  (lock() is not fair, so
\* a given thread may be overtaken for ever.)
MutexContended == \E t \in Threads : mutexPc[t] \in {"cas_0_1", "cas_1_2", "futex_wait",
                                                     "asleep", "cas_0_2"}
MutexProgress == MutexContended ~> (MutexOwners # {})

-----------------------------------------------------------------------------
(***************************************************************************)
(* dsac::critical_section (critical_section.hpp, critical_section.cpp): a  *)
(* test-and-test-and-set spin lock on one atomic flag.  Every atomic       *)
(* access of locked_ is one step.                                          *)
(***************************************************************************)

VARIABLES locked,  \* critical_section::locked_
          spinPc   \* where each thread stands in lock() / unlock()

spinVars == <<locked, spinPc>>

SpinTypeOK == /\ locked \in BOOLEAN
              /\ spinPc \in [Threads -> {"idle", "exchange", "load", "owns"}]

SpinInit == locked = FALSE /\ spinPc = [t \in Threads |-> "idle"]

SpinGoto(t, from, to) == spinPc[t] = from /\ spinPc' = [spinPc EXCEPT ![t] = to]

\* A thread calls lock().
CallSpinLock(t) == SpinGoto(t, "idle", "exchange") /\ UNCHANGED locked

\* A defect: having seen the flag clear, the caller ignores what the exchange
\* returns.
ExchangeBlind(t) == SpinGoto(t, "exchange", "owns") /\ locked' = TRUE

\* while (locked_.exchange(true)): the caller owns the lock if it was clear.
Exchange(t) ==
    /\ SpinGoto(t, "exchange", IF locked THEN "load" ELSE "owns")
    /\ locked' = TRUE

\* while (locked_.load()): spin on a read until the flag looks clear.
SpinLoad(t) ==
    /\ SpinGoto(t, "load", IF locked THEN "load" ELSE "exchange")
    /\ UNCHANGED locked

\* unlock(): locked_.store(false).
SpinUnlock(t) == SpinGoto(t, "owns", "idle") /\ locked' = FALSE

SpinNext == \E t \in Threads : CallSpinLock(t) \/ Exchange(t) \/ SpinLoad(t) \/ SpinUnlock(t)

SpinSpec == SpinInit /\ [][SpinNext]_spinVars

\* Every thread inside lock() keeps running, and an owner calls unlock().
SpinFairness ==
    \A t \in Threads : WF_spinVars(Exchange(t) \/ SpinLoad(t)) /\ WF_spinVars(SpinUnlock(t))

-----------------------------------------------------------------------------
SpinOwners == {t \in Threads : spinPc[t] = "owns"}

SL == INSTANCE Exclusion WITH inside <- SpinOwners

\* critical_section implements the abstract lock of its brief comments.
SpinIsLock == SL!Exclusive

=============================================================================
