----------------------------- MODULE Semaphore ------------------------------
(***************************************************************************)
(* dsac::semaphore (semaphore.hpp, semaphore.cpp): an atomic counter, a    *)
(* std::mutex and a std::condition_variable.  acquire() works under the    *)
(* mutex; release() does not take it, so its two steps fall anywhere       *)
(* between the steps of an acquire(), the window between the evaluation of *)
(* the wait predicate and the enqueueing on the condition variable         *)
(* included.  Threads acquire a permit, use it and release it.             *)
(***************************************************************************)
EXTENDS Integers, FiniteSets, ThreadSet

CONSTANT Permits  \* the consumers argument of the constructor

ASSUME SemaphoreAssumption == Permits \in Nat

VARIABLES tokens,      \* pimpl::tokens_
          holder,      \* the thread that holds pimpl::mutex_, or Nobody
          semaphorePc  \* where each thread stands in acquire() / release()

semaphoreVars == <<tokens, holder, semaphorePc>>

SemaphorePCs == {"idle", "lock", "test", "block", "asleep", "take", "holds", "notify"}

SemaphoreTypeOK == /\ tokens \in 0..Permits
                   /\ holder \in Threads \cup {Nobody}
                   /\ semaphorePc \in [Threads -> SemaphorePCs]

SemaphoreInit == /\ tokens = Permits
                 /\ holder = Nobody
                 /\ semaphorePc = [t \in Threads |-> "idle"]

SemaphoreGoto(t, from, to) ==
    semaphorePc[t] = from /\ semaphorePc' = [semaphorePc EXCEPT ![t] = to]

\* The threads enqueued on not_zero_.
Enqueued == {t \in Threads : semaphorePc[t] = "asleep"}

-----------------------------------------------------------------------------
\* A thread calls acquire().
CallAcquire(t) == SemaphoreGoto(t, "idle", "lock") /\ UNCHANGED <<tokens, holder>>

\* A defect: acquire() tests and decrements without the mutex, as release() does.
LockNothing(t) == SemaphoreGoto(t, "lock", "test") /\ UNCHANGED <<tokens, holder>>

\* std::unique_lock guard(mutex_), and the re-acquisition after a wake-up.
LockMutex(t) ==
    /\ holder = Nobody
    /\ holder' = t
    /\ SemaphoreGoto(t, "lock", "test")
    /\ UNCHANGED tokens

\* The predicate of wait: tokens_.load() != 0.
Test(t) ==
    /\ SemaphoreGoto(t, "test", IF tokens # 0 THEN "take" ELSE "block")
    /\ UNCHANGED <<tokens, holder>>

\* wait: release the mutex and enqueue on the condition variable, one step
\* for those who take the mutex or notify.
Block(t) ==
    /\ SemaphoreGoto(t, "block", "asleep")
    /\ holder' = Nobody
    /\ UNCHANGED tokens

\* A condition variable may wake a thread without a notification.
SemaphoreSpuriousWake(t) == SemaphoreGoto(t, "asleep", "lock") /\ UNCHANGED <<tokens, holder>>

\* --tokens_ and the destructor of the guard.
Take(t) ==
    /\ SemaphoreGoto(t, "take", "holds")
    /\ tokens' = tokens - 1
    /\ holder' = Nobody

\* release(): ++tokens_, without the mutex.
Increment(t) ==
    /\ SemaphoreGoto(t, "holds", "notify")
    /\ tokens' = tokens + 1
    /\ UNCHANGED holder

\* release(): not_zero_.notify_one() wakes one enqueued thread, if any.
NotifyNotZero(t) ==
    /\ semaphorePc[t] = "notify"
    /\ IF Enqueued = {}
       THEN semaphorePc' = [semaphorePc EXCEPT ![t] = "idle"]
       ELSE \E s \in Enqueued : semaphorePc' = [semaphorePc EXCEPT ![t] = "idle", ![s] = "lock"]
    /\ UNCHANGED <<tokens, holder>>

\* What a thread inside acquire() or release() does by itself.
SemaphoreStep(t) == LockMutex(t) \/ Test(t) \/ Block(t) \/ Take(t) \/ NotifyNotZero(t)

SemaphoreNext ==
    \E t \in Threads : CallAcquire(t) \/ SemaphoreStep(t) \/ SemaphoreSpuriousWake(t) \/ Increment(t)

SemaphoreSpec == SemaphoreInit /\ [][SemaphoreNext]_semaphoreVars

\* Every thread that is neither idle nor asleep keeps running, std::mutex does
\* not lock a thread out for ever, and a holder eventually calls release().
SemaphoreFairSpec ==
    /\ SemaphoreSpec
    /\ \A t \in Threads : /\ WF_semaphoreVars(SemaphoreStep(t)) /\ SF_semaphoreVars(LockMutex(t))
                          /\ WF_semaphoreVars(Increment(t))

-----------------------------------------------------------------------------
\* The threads between the return of acquire() and the ++ of release().
Holders == {t \in Threads : semaphorePc[t] = "holds"}

\* The threads inside the critical section of acquire().
Inside == {t \in Threads : semaphorePc[t] \in {"test", "block", "take"}}

\* A thread that tested the counter still finds a token when it decrements
\* it, whatever the others do in between: size_t does not wrap around.
NoUnderflow == (\E t \in Threads : semaphorePc[t] = "take") => tokens > 0

\* The counter stands for the permits that nobody holds.
AllAccountedFor == tokens + Cardinality(Holders) = Permits

\* No more permits are given out than there are: the test of the counter and
\* its decrement are two steps, and release() changes it between them without
\* the mutex, yet whoever is about to decrement it still finds a token, which
\* nobody else holds (semaphore::pimpl::acquire, release).
PermitsConserved == AllAccountedFor /\ NoUnderflow

\* Exactly the holder of mutex_ is inside the critical section.
MutexOwned == Inside = IF holder = Nobody THEN {} ELSE {holder}

\* The inductive invariant: only the owner of the mutex takes tokens away.
SemaphoreInv == SemaphoreTypeOK /\ MutexOwned /\ PermitsConserved

\* Whoever is inside acquire() while permits are available does not wait for
\* ever: the permits are taken, by this thread or by others.  This is what
\* semaphore.hpp:23 says of release(): "increments the internal counter and
\* unblocks acquirers".
AcquirersUnblocked ==
    \A t \in Threads :
        (semaphorePc[t] \in {"lock", "test", "block", "asleep", "take"} /\ tokens > 0)
                     ~> (tokens = 0 \/ semaphorePc[t] = "holds")

=============================================================================
