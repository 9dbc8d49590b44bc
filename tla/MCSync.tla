------------------------------- MODULE MCSync -------------------------------
(***************************************************************************)
(* TLC instance of the synchronization primitives.  The primitives share   *)
(* no state, so one instance checks them side by side: a behaviour         *)
(* exercises the primitive named by chosen and leaves the others alone.    *)
(***************************************************************************)
EXTENDS Locks, Semaphore, Barrier, BlockingQueue, MVar

VARIABLE chosen  \* the primitive that this behaviour exercises

Exercise(primitive, next, others) ==
    chosen = primitive /\ next /\ UNCHANGED <<chosen, others>>

Init == /\ MutexInit /\ SpinInit /\ SemaphoreInit /\ BarrierInit /\ QInit /\ MVarInit
        /\ chosen \in {"mutex", "critical_section", "semaphore", "barrier", "queue", "mvar"}
        /\ chosen = "mvar" \/ storage = NoMValue

Next ==
    \/ Exercise("mutex", MutexNext, <<spinVars, semaphoreVars, barrierVars, qvars, mvarVars>>)
    \/ Exercise("critical_section", SpinNext, <<mutexVars, semaphoreVars, barrierVars, qvars, mvarVars>>)
    \/ Exercise("semaphore", SemaphoreNext, <<mutexVars, spinVars, barrierVars, qvars, mvarVars>>)
    \/ Exercise("barrier", BarrierNext, <<mutexVars, spinVars, semaphoreVars, qvars, mvarVars>>)
    \/ Exercise("queue", QNext, <<mutexVars, spinVars, semaphoreVars, barrierVars, mvarVars>>)
    \/ Exercise("mvar", MVarNext, <<mutexVars, spinVars, semaphoreVars, barrierVars, qvars>>)

vars == <<chosen, mutexVars, spinVars, semaphoreVars, barrierVars, qvars, mvarVars>>

\* Each primitive under the fairness of its own module.  The threads of the
\* barrier are bound to arrive only when the barrier is exercised; all other
\* fair actions are disabled before somebody calls an operation.
Spec == /\ Init /\ [][Next]_vars
        /\ MutexFairness /\ SpinFairness /\ QFairness /\ MVarFairness
        /\ chosen = "barrier" => BarrierFairness

=============================================================================
