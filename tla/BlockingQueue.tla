--------------------------- MODULE BlockingQueue ----------------------------
(***************************************************************************)
(* dsac::unbounded_blocking_mpmc_queue (blocking_queue.hpp,                *)
(* blocking_queue-inl.hpp).  Every critical section of mutex_ is one       *)
(* action: push() up to the end of its inner block, pop() up to its return *)
(* or to the wait on not_empty_.  The notification of push() comes after   *)
(* the mutex is given up and is a step of its own.                         *)
(***************************************************************************)
EXTENDS Integers, Sequences, FiniteSets

CONSTANTS QThreads,  \* the threads that push and pop
          Values,    \* what they push
          MaxLen     \* the bound on the buffer, for the queue by itself

ASSUME QueueAssumption == IsFiniteSet(QThreads) /\ MaxLen \in Nat

VARIABLES buffer,  \* buffer_
          qpc      \* where each thread stands in push() / pop()

qvars == <<buffer, qpc>>

QTypeOK == /\ buffer \in Seq(Values)
           /\ qpc \in [QThreads -> {"idle", "notify", "pop", "asleep"}]

QInit == buffer = <<>> /\ qpc = [t \in QThreads |-> "idle"]

QGoto(t, from, to) == qpc[t] = from /\ qpc' = [qpc EXCEPT ![t] = to]

At(where) == {t \in QThreads : qpc[t] = where}

-----------------------------------------------------------------------------
\* push(): buffer_.push_back under the mutex.
Push(t, v) == QGoto(t, "idle", "notify") /\ buffer' = Append(buffer, v)

\* A defect: push() notifies only when it made the buffer non-empty.
NotifyOneIfFirst(t) ==
    /\ qpc[t] = "notify"
    /\ IF At("asleep") = {} \/ Len(buffer) > 1
       THEN qpc' = [qpc EXCEPT ![t] = "idle"]
       ELSE \E s \in At("asleep") : qpc' = [qpc EXCEPT ![t] = "idle", ![s] = "pop"]
    /\ UNCHANGED buffer

\* push(): not_empty_.notify_one() wakes one waiting consumer, if any.
NotifyOne(t) ==
    /\ qpc[t] = "notify"
    /\ IF At("asleep") = {}
       THEN qpc' = [qpc EXCEPT ![t] = "idle"]
       ELSE \E s \in At("asleep") : qpc' = [qpc EXCEPT ![t] = "idle", ![s] = "pop"]
    /\ UNCHANGED buffer

\* A thread calls pop().
CallPop(t) == QGoto(t, "idle", "pop") /\ UNCHANGED buffer

\* A defect: pop_no_lock() takes the youngest element.
PopNewest(t, v) ==
    /\ QGoto(t, "pop", "idle")
    /\ buffer # <<>>
    /\ v = buffer[Len(buffer)]
    /\ buffer' = SubSeq(buffer, 1, Len(buffer) - 1)

\* pop() finds the buffer non-empty; pop_no_lock() returns its front, v.
PopValue(t, v) ==
    /\ QGoto(t, "pop", "idle")
    /\ buffer # <<>>
    /\ v = Head(buffer)
    /\ buffer' = Tail(buffer)

\* pop() finds the buffer empty and waits.
PopWait(t) == QGoto(t, "pop", "asleep") /\ buffer = <<>> /\ UNCHANGED buffer

\* A condition variable may wake a thread without a notification.
QSpuriousWake(t) == QGoto(t, "asleep", "pop") /\ UNCHANGED buffer

Consume(t) == (\E v \in Values : PopValue(t, v)) \/ PopWait(t)

QNext ==
    \E t \in QThreads :
        \/ Len(buffer) < MaxLen /\ \E v \in Values : Push(t, v)
        \/ NotifyOne(t) \/ CallPop(t) \/ Consume(t) \/ QSpuriousWake(t)

QSpec == QInit /\ [][QNext]_qvars

\* A thread inside push() or pop() that does not wait keeps running.
QFairness == \A t \in QThreads : WF_qvars(NotifyOne(t)) /\ WF_qvars(Consume(t))

-----------------------------------------------------------------------------
\* No lost wake-up: while a consumer waits on not_empty_, every element of
\* the buffer has somebody of its own who will deal with it, a push() that
\* has yet to notify or a pop() that is awake.  notify_one outside the mutex
\* and consumers that barge in before a woken one do not break this.
NoLostNotification ==
    At("asleep") # {} =>
        Len(buffer) <= Cardinality(At("notify")) + Cardinality(At("pop"))

\* The inductive invariant.
QInv == QTypeOK /\ NoLostNotification

\* While a consumer is inside pop(), the queue does not stay non-empty: its
\* elements are taken until none is left, or a consumer has what it wants.
ElementsServed ==
    \A t \in QThreads :
        (qpc[t] \in {"pop", "asleep"} /\ buffer # <<>>)
            ~> (buffer = <<>> \/ qpc[t] = "idle")

=============================================================================
