-------------------------------- MODULE MVar --------------------------------
(***************************************************************************)
(* dsac::mvar: a place for one value, with a condition variable for those  *)
(* who wait for a value and one for those who wait for room.  Every        *)
(* critical section of mutex_, which includes its notify_all(), is one     *)
(* action.  mvar<void> is the instance with a single value; is_empty()     *)
(* changes nothing.                                                        *)
(***************************************************************************)
EXTENDS ThreadSet, Naturals

CONSTANTS MValues,  \* the values that are put
          NoMValue  \* the empty storage_

ASSUME MVarAssumption == NoMValue \notin MValues

VARIABLES
    storage,  \* storage_, or contains_
    call,     \* of each thread: the operation it is in
    asleep    \* the threads that wait on a condition variable

mvarVars == <<storage, call, asleep>>

MVarTypeOK == /\ storage \in MValues \union {NoMValue}
              /\ call \in [Threads -> {"none", "put", "take", "read_only"}]
              /\ asleep \subseteq {t \in Threads : call[t] # "none"}

\* mvar() is empty, mvar(value) is not.
MVarInit ==
    /\ storage \in MValues \union {NoMValue}
    /\ call = [t \in Threads |-> "none"] /\ asleep = {}

CallMVar(t) ==
    /\ call[t] = "none"
    /\ \E op \in {"put", "take", "read_only"} : call' = [call EXCEPT ![t] = op]
    /\ UNCHANGED <<storage, asleep>>

\* Thread t is in operation op, holds mutex_ and tests its predicate.
Runs(t, op) == call[t] = op /\ t \notin asleep

Return(t) == call' = [call EXCEPT ![t] = "none"]

\* notify_all() on the condition variable where the operations ops wait.
NotifyAllIn(ops) == asleep' = {t \in asleep : call[t] \notin ops}

\* A defect: put() wakes only one of those who wait for a value.
PutValueNotifyOne(t) ==
    /\ Runs(t, "put") /\ storage = NoMValue /\ storage' \in MValues /\ Return(t)
    /\ LET waiting == {u \in asleep : call[u] \in {"take", "read_only"}}
       IN IF waiting = {} THEN UNCHANGED asleep ELSE \E u \in waiting : asleep' = asleep \ {u}

PutValue(t) ==
    /\ Runs(t, "put") /\ storage = NoMValue
    /\ storage' \in MValues
    /\ NotifyAllIn({"take", "read_only"}) /\ Return(t)

\* A defect: take() notifies nobody.
TakeValueSilently(t) ==
    /\ Runs(t, "take") /\ storage # NoMValue
    /\ storage' = NoMValue
    /\ Return(t) /\ UNCHANGED asleep

TakeValue(t) ==
    /\ Runs(t, "take") /\ storage # NoMValue
    /\ storage' = NoMValue
    /\ NotifyAllIn({"put"}) /\ Return(t)

\* read_only() returns a reference to the value, which stays.
ReadOnly(t) ==
    /\ Runs(t, "read_only") /\ storage # NoMValue
    /\ Return(t) /\ UNCHANGED <<storage, asleep>>

\* The predicate is false: the thread waits.
MVarWait(t) ==
    /\ \/ Runs(t, "put") /\ storage # NoMValue
       \/ Runs(t, "take") /\ storage = NoMValue
       \/ Runs(t, "read_only") /\ storage = NoMValue
    /\ asleep' = asleep \union {t} /\ UNCHANGED <<storage, call>>

\* A condition variable may wake a thread without a notification.
MVarSpuriousWake(t) ==
    /\ t \in asleep
    /\ asleep' = asleep \ {t} /\ UNCHANGED <<storage, call>>

MVarRun(t) == PutValue(t) \/ TakeValue(t) \/ ReadOnly(t) \/ MVarWait(t)

MVarNext == \E t \in Threads : CallMVar(t) \/ MVarRun(t) \/ MVarSpuriousWake(t)

\* A thread that is awake inside an operation goes on.
MVarFairness == \A t \in Threads : WF_mvarVars(MVarRun(t))

MVarSpec == MVarInit /\ [][MVarNext]_mvarVars /\ MVarFairness

-----------------------------------------------------------------------------
\* Nobody sleeps on a predicate that has become true: takers and readers
\* sleep while there is no value, putters while there is one.
SleepersHaveReason ==
    \A t \in asleep : IF call[t] = "put" THEN storage # NoMValue ELSE storage = NoMValue

\* While somebody is inside take() a value does not stay in the storage;
\* while somebody is inside put() the storage does not stay empty.
ValuesHandedOver ==
    LET Inside(op) == \E t \in Threads : call[t] = op IN
    /\ (Inside("take") /\ storage # NoMValue) ~> (storage = NoMValue \/ ~Inside("take"))
    /\ (Inside("put") /\ storage = NoMValue) ~> (storage # NoMValue \/ ~Inside("put"))

=============================================================================
