------------------------------ MODULE Barrier -------------------------------
(***************************************************************************)
(* dsac::barrier (barrier.hpp, barrier.cpp): a cyclic barrier that counts  *)
(* down in one phase and up in the next.  arrive_and_wait() runs under a   *)
(* std::mutex up to its return or to the wait on the condition variable,   *)
(* which gives the mutex up, so each such stretch is one action.           *)
(*                                                                         *)
(* The barrier is used by exactly the threads it was constructed for;      *)
(* arrived counts, for each of them, the calls of arrive_and_wait().       *)
(***************************************************************************)
EXTENDS Integers, FiniteSets, ThreadSet

CONSTANT MaxPhases  \* the bound on the calls each thread makes

ASSUME BarrierAssumption == MaxPhases \in Nat

\* size_awaited_threads_
BarrierSize == Cardinality(Threads)

VARIABLES barrierState,  \* pimpl::state_
          current,       \* pimpl::current_awaited_threads_
          barrierPc,     \* where each thread stands
          awaits,        \* the state a thread inside wait() waits for
          arrived        \* the number of calls each thread has made

barrierVars == <<barrierState, current, barrierPc, awaits, arrived>>

BarrierStates == {"blocking", "unblocking"}

BarrierTypeOK == /\ barrierState \in BarrierStates
                 /\ current \in 0..BarrierSize
                 /\ barrierPc \in [Threads -> {"outside", "asleep", "awake"}]
                 /\ awaits \in [Threads -> BarrierStates]
                 /\ arrived \in [Threads -> 0..MaxPhases]

BarrierInit == /\ barrierState = "blocking"
               /\ current = BarrierSize
               /\ barrierPc = [t \in Threads |-> "outside"]
               /\ awaits = [t \in Threads |-> "unblocking"]
               /\ arrived = [t \in Threads |-> 0]

-----------------------------------------------------------------------------
\* A defect: only one of the sleepers is notified.
NotifyOneWaiter ==
    \/ \A u \in Threads : barrierPc[u] # "asleep" /\ UNCHANGED barrierPc
    \/ \E u \in Threads : /\ barrierPc[u] = "asleep"
                          /\ barrierPc' = [barrierPc EXCEPT ![u] = "awake"]

\* cv_.notify_all(): every sleeper is to evaluate its predicate again.
NotifyAll ==
    barrierPc' = [u \in Threads |-> IF barrierPc[u] = "asleep" THEN "awake" ELSE barrierPc[u]]

\* The last thread of a phase turns the barrier round and does not wait.
TurnRound(s) == barrierState' = s /\ NotifyAll /\ UNCHANGED awaits

\* A thread waits until the barrier has turned to state s.
WaitFor(t, s) ==
    /\ barrierPc' = [barrierPc EXCEPT ![t] = "asleep"]
    /\ awaits' = [awaits EXCEPT ![t] = s]
    /\ UNCHANGED barrierState

\* A thread calls arrive_and_wait().
CallArrive(t) ==
    /\ barrierPc[t] = "outside"
    /\ arrived[t] < MaxPhases
    /\ arrived' = [arrived EXCEPT ![t] = @ + 1]

\* arrive_and_wait() in a phase that counts down.
ArriveBlocking(t) ==
    /\ CallArrive(t)
    /\ barrierState = "blocking"
    /\ current' = current - 1
    /\ IF current' = 0 THEN TurnRound("unblocking") ELSE WaitFor(t, "unblocking")

\* arrive_and_wait() in a phase that counts up.
ArriveUnblocking(t) ==
    /\ CallArrive(t)
    /\ barrierState = "unblocking"
    /\ current' = current + 1
    /\ IF current' = BarrierSize THEN TurnRound("blocking") ELSE WaitFor(t, "blocking")

\* A condition variable may wake a thread without a notification.
BarrierSpuriousWake(t) ==
    /\ barrierPc[t] = "asleep"
    /\ barrierPc' = [barrierPc EXCEPT ![t] = "awake"]
    /\ UNCHANGED <<barrierState, current, awaits, arrived>>

\* A defect: a woken thread returns without a look at the predicate.
ReturnBlind(t) ==
    /\ barrierPc[t] = "awake"
    /\ barrierPc' = [barrierPc EXCEPT ![t] = "outside"]
    /\ UNCHANGED <<barrierState, current, awaits, arrived>>

\* A woken thread takes the mutex again and evaluates the wait predicate.
Recheck(t) ==
    /\ barrierPc[t] = "awake"
    /\ barrierPc' =
         [barrierPc EXCEPT ![t] = IF barrierState = awaits[t] THEN "outside" ELSE "asleep"]
    /\ UNCHANGED <<barrierState, current, awaits, arrived>>

\* All threads have made all their calls.
BarrierTerminated == /\ \A t \in Threads : barrierPc[t] = "outside" /\ arrived[t] = MaxPhases
                     /\ UNCHANGED barrierVars

Arrive(t) == ArriveBlocking(t) \/ ArriveUnblocking(t)

BarrierNext ==
    BarrierTerminated \/ \E t \in Threads : Arrive(t) \/ BarrierSpuriousWake(t) \/ Recheck(t)

BarrierSpec == BarrierInit /\ [][BarrierNext]_barrierVars

\* Every thread makes its calls, and a woken thread gets the mutex back.
BarrierFairness ==
    \A t \in Threads : WF_barrierVars(Arrive(t)) /\ WF_barrierVars(Recheck(t))

-----------------------------------------------------------------------------
\* The calls of arrive_and_wait() that have returned to t.
Returned(t) == IF barrierPc[t] = "outside" THEN arrived[t] ELSE arrived[t] - 1

\* Nobody gets past the barrier before everybody has reached it: when a call
\* returns to t for the k-th time, every thread has called at least k times.
\* A slow thread may still be on its way out of the previous phase while the
\* fast ones already arrive at the next one.
NobodyPassesEarly == \A t, u \in Threads : Returned(t) <= arrived[u]

\* The threads still waiting for the barrier to turn to the other state.
StillWaiting == {t \in Threads : barrierPc[t] # "outside" /\ awaits[t] # barrierState}

\* The counter is exact: it has moved by the number of threads that wait for
\* the current phase to complete, and by nothing else.
CounterExact ==
    current = IF barrierState = "blocking" THEN BarrierSize - Cardinality(StillWaiting)
                                           ELSE Cardinality(StillWaiting)

\* The inductive invariant: for some k, the threads that wait for the current
\* phase have made k + 1 calls and all the others k; so whoever the barrier
\* has let go, and has not yet returned, keeps it from turning round again.
PhaseIs(k) == \A t \in Threads : arrived[t] = IF t \in StillWaiting THEN k + 1 ELSE k

BarrierInv == /\ BarrierTypeOK
              /\ CounterExact
              /\ barrierState = "blocking" => current # 0
              /\ barrierState = "unblocking" => current # BarrierSize
              /\ \E k \in 0..MaxPhases : PhaseIs(k)

\* Every call of arrive_and_wait() returns, provided every thread keeps
\* arriving: "blocks until current phase completes" (barrier.hpp:56).
EveryCallReturns == \A t \in Threads : (barrierPc[t] # "outside") ~> (barrierPc[t] = "outside")

=============================================================================
