----------------------------- MODULE ThreadPool -----------------------------
(***************************************************************************)
(* static_thread_poll (static_thread_pool.cpp): worker threads that pop    *)
(* tasks from one blocking queue until they pop an empty task, the poison  *)
(* pill, of which join() pushes one per worker.  The queue is an instance  *)
(* of BlockingQueue.                                                       *)
(*                                                                         *)
(* The main thread submits the tasks of Roots and calls join().  A running *)
(* task may submit further tasks to the pool, as shared_state::do_callback *)
(* (state-inl.hpp) does with the continuation of a future.                 *)
(***************************************************************************)
EXTENDS Integers, Sequences, FiniteSets

CONSTANTS Workers,  \* the worker threads
          Main,     \* the thread that owns the pool
          Tasks,    \* all tasks
          Roots,    \* the tasks that the main thread submits
          Child,    \* Child[k]: the tasks that task k submits while it runs
          Pill      \* the empty task

ASSUME PoolAssumption == /\ IsFiniteSet(Workers) /\ Main \notin Workers
                         /\ Pill \notin Tasks /\ Roots \subseteq Tasks
                         /\ Child \in [Tasks -> SUBSET Tasks]

VARIABLES tasks,      \* tasks_.buffer_
          qpc,        \* where each thread stands in tasks_.push() / pop()
          mpc,        \* where the main thread stands
          pills,      \* the pills that join() has pushed
          running,    \* the task each worker runs, Pill when it runs none
          exited,     \* the workers that returned from worker_routine()
          submitted,  \* the tasks submitted so far
          early,      \* the tasks submitted before join() was called
          executed    \* the number of times each task ran to its end

poolVars == <<tasks, qpc, mpc, pills, running, exited, submitted, early, executed>>

Threads == Workers \cup {Main}

Q == INSTANCE BlockingQueue
        WITH QThreads <- Threads, Values <- Tasks \cup {Pill}, MaxLen <- 0, buffer <- tasks

PoolTypeOK == /\ Q!QTypeOK
              /\ mpc \in {"submit", "pills", "join", "joined"}
              /\ pills \in 0..Cardinality(Workers)
              /\ running \in [Workers -> Tasks \cup {Pill}]
              /\ exited \subseteq Workers
              /\ submitted \subseteq Tasks /\ early \subseteq submitted
              /\ executed \in [Tasks -> Nat]

\* start_worker_threads has started all workers; their first step is a pop().
PoolInit == /\ Q!QInit
            /\ mpc = "submit" /\ pills = 0
            /\ running = [w \in Workers |-> Pill] /\ exited = {}
            /\ submitted = {} /\ early = {}
            /\ executed = [k \in Tasks |-> 0]

-----------------------------------------------------------------------------
\* submit(): tasks_.push(task).
Submit(t, k) ==
    /\ k \notin submitted
    /\ Q!Push(t, k)
    /\ submitted' = submitted \cup {k}
    /\ UNCHANGED <<mpc, pills, running, exited, early, executed>>

\* The main thread submits a task.
MainSubmit(k) == mpc = "submit" /\ k \in Roots /\ Submit(Main, k)

\* The main thread has submitted its tasks and calls join().
CallJoin ==
    /\ mpc = "submit" /\ Roots \subseteq submitted /\ qpc[Main] = "idle"
    /\ mpc' = IF Workers = {} THEN "join" ELSE "pills"
    /\ early' = submitted
    /\ UNCHANGED <<tasks, qpc, pills, running, exited, submitted, executed>>

\* A defect: join() pushes one pill too few.
PushPillOneLess ==
    /\ mpc = "pills"
    /\ Q!Push(Main, Pill)
    /\ pills' = pills + 1
    /\ mpc' = IF pills' >= Cardinality(Workers) - 1 THEN "join" ELSE "pills"
    /\ UNCHANGED <<running, exited, submitted, early, executed>>

\* join(): tasks_.push({}), once for every worker.
PushPill ==
    /\ mpc = "pills"
    /\ Q!Push(Main, Pill)
    /\ pills' = pills + 1
    /\ mpc' = IF pills' = Cardinality(Workers) THEN "join" ELSE "pills"
    /\ UNCHANGED <<running, exited, submitted, early, executed>>

\* join(): worker.join() for every worker, then workers_.clear().
JoinWorkers ==
    /\ mpc = "join" /\ qpc[Main] = "idle"
    /\ exited = Workers
    /\ mpc' = "joined"
    /\ UNCHANGED <<tasks, qpc, pills, running, exited, submitted, early, executed>>

\* The rest of a push().
Notify(t) == /\ Q!NotifyOne(t)
             /\ UNCHANGED <<mpc, pills, running, exited, submitted, early, executed>>

\* worker_routine(): the loop calls tasks_.pop().
CallPop(w) ==
    /\ w \notin exited /\ running[w] = Pill
    /\ Q!CallPop(w)
    /\ UNCHANGED <<mpc, pills, running, exited, submitted, early, executed>>

\* pop() waits, or is woken without a notification.
Wait(w) == /\ Q!PopWait(w) \/ Q!QSpuriousWake(w)
           /\ UNCHANGED <<mpc, pills, running, exited, submitted, early, executed>>

\* pop() returns a task: the worker starts to run it, or leaves the loop if
\* the task is empty.
Take(w) ==
    \E v \in Tasks \cup {Pill} :
        /\ Q!PopValue(w, v)
        /\ running' = [running EXCEPT ![w] = v]
        /\ exited' = IF v = Pill THEN exited \cup {w} ELSE exited
        /\ UNCHANGED <<mpc, pills, submitted, early, executed>>

\* A running task submits another one.
TaskSubmit(w, k) == running[w] # Pill /\ k \in Child[running[w]] /\ Submit(w, k)

\* std::move(task)() returns.
Finish(w) ==
    /\ running[w] # Pill /\ Child[running[w]] \subseteq submitted /\ qpc[w] = "idle"
    /\ executed' = [executed EXCEPT ![running[w]] = @ + 1]
    /\ running' = [running EXCEPT ![w] = Pill]
    /\ UNCHANGED <<tasks, qpc, mpc, pills, exited, submitted, early>>

\* join() has returned; what is left in the queue stays there.
Terminated == mpc = "joined" /\ qpc[Main] = "idle" /\ UNCHANGED poolVars

MainStep == (\E k \in Roots : MainSubmit(k)) \/ CallJoin \/ PushPill \/ JoinWorkers
            \/ Notify(Main)

WorkerStep(w) ==
    \/ CallPop(w) \/ Take(w) \/ Finish(w) \/ Notify(w)
    \/ \E k \in Tasks : TaskSubmit(w, k)

PoolNext == Terminated \/ MainStep \/ \E w \in Workers : WorkerStep(w) \/ Wait(w)

PoolSpec == PoolInit /\ [][PoolNext]_poolVars

\* Every thread that does not wait for another one keeps running; every task
\* comes to its end.
PoolFairness == WF_poolVars(MainStep) /\ \A w \in Workers : WF_poolVars(WorkerStep(w))

-----------------------------------------------------------------------------
Occurrences(k) == Cardinality({i \in DOMAIN tasks : tasks[i] = k})
Runners(k) == {w \in Workers : running[w] = k}

\* No task is lost or duplicated between submit(), the queue and the workers:
\* a submitted task is in the queue, in the hands of one worker or executed.
TasksConserved ==
    \A k \in Tasks :
        Occurrences(k) + Cardinality(Runners(k)) + executed[k]
            = IF k \in submitted THEN 1 ELSE 0

\* When join() returns, every task submitted before the call has run to its
\* end: the pills are behind it in the queue, and every worker has taken one.
JoinCompletesEarlyTasks == mpc = "joined" => \A k \in early : executed[k] = 1

\* Between submit() and join() every task is run once (static_thread_poll).
TasksRunOnce == TasksConserved /\ JoinCompletesEarlyTasks

\* join() returns.
JoinReturns == (mpc \in {"pills", "join"}) ~> (mpc = "joined")

\* Every submitted task is executed, those that running tasks submit
\* included: a callback is "to be executed when the value is received via
\* dsac::promise" (future.hpp:101), and the continuations that
\* test_future.cpp:100 chains through an executor before join() expect it.
EverySubmittedTaskRuns == \A k \in Tasks : (k \in submitted) ~> (executed[k] = 1)

=============================================================================
