-------------------------- MODULE ThreadPoolProofs --------------------------
(***************************************************************************)
(* Safety of static_thread_poll for any number of workers and any tasks,   *)
(* whichever tasks they submit in turn: no task is lost, none is run       *)
(* twice, and join() returns after the tasks submitted before it have run. *)
(***************************************************************************)
EXTENDS ThreadPool, FiniteSetTheorems, SequenceTheorems, TLAPS

InQueue(k) == \E i \in 1 .. Len(tasks) : tasks[i] = k

\* A worker inside pop() runs no task and has not left its loop.
PoppersFree ==
    \A w \in Workers : /\ qpc[w] \in {"pop", "asleep"} => running[w] = Pill /\ w \notin exited
                       /\ w \in exited => running[w] = Pill

\* A task is in one place: once in the queue, with one worker, or executed.
OnePlace ==
    \A k \in Tasks :
        /\ executed[k] \in {0, 1}
        /\ \A i, j \in 1 .. Len(tasks) : tasks[i] = k /\ tasks[j] = k => i = j
        /\ \A w, x \in Workers : running[w] = k /\ running[x] = k => w = x
        /\ InQueue(k) => k \in submitted /\ executed[k] = 0 /\ \A w \in Workers : running[w] # k
        /\ \A w \in Workers : running[w] = k => k \in submitted /\ executed[k] = 0
        /\ executed[k] = 1 => k \in submitted
        /\ k \in submitted => executed[k] = 1 \/ InQueue(k) \/ \E w \in Workers : running[w] = k

\* join() pushes its pills after the early tasks, and a worker leaves its
\* loop by a pill.
PillsBehind ==
    /\ \A i, j \in 1 .. Len(tasks) : tasks[i] = Pill /\ i < j => tasks[j] \notin early
    /\ exited # {} => \A i \in 1 .. Len(tasks) : tasks[i] \notin early
    /\ mpc = "submit" => early = {} /\ exited = {} /\ ~InQueue(Pill)

\* Where join() stands.
JoinInStep == /\ mpc = "submit" => pills = 0
              /\ mpc = "pills" => pills < Cardinality(Workers)
              /\ mpc = "joined" => exited = Workers

PoolInv == PoolTypeOK /\ PoppersFree /\ OnePlace /\ PillsBehind /\ JoinInStep

\* The number of workers is a number.
LEMMA WorkersFinite == Cardinality(Workers) \in Nat /\ (Workers # {} => Cardinality(Workers) > 0)
  BY FS_EmptySet, FS_CardinalityType, PoolAssumption

\* What is in the queue behind an element is no concern of that element's.
LEMMA QueueAppend ==
    ASSUME tasks \in Seq(Tasks \cup {Pill}), NEW v \in Tasks \cup {Pill}, tasks' = Append(tasks, v)
    PROVE  /\ tasks' \in Seq(Tasks \cup {Pill}) /\ Len(tasks) \in Nat /\ Len(tasks') = Len(tasks) + 1
           /\ \A i \in 1 .. Len(tasks) : tasks'[i] = tasks[i]
           /\ tasks'[Len(tasks) + 1] = v
           /\ \A i \in 1 .. Len(tasks) + 1 : i # Len(tasks) + 1 => i \in 1 .. Len(tasks)
<1>1. Len(tasks) \in Nat
    BY LenProperties
<1> QED
    BY <1>1, AppendProperties

\* Taking the head moves the others by one.
LEMMA QueueTail ==
    ASSUME tasks \in Seq(Tasks \cup {Pill}), tasks # <<>>, tasks' = Tail(tasks)
    PROVE  /\ tasks' \in Seq(Tasks \cup {Pill}) /\ Len(tasks) \in Nat /\ Len(tasks') = Len(tasks) - 1
           /\ Len(tasks) > 0 /\ Head(tasks) = tasks[1]
           /\ \A i \in 1 .. Len(tasks') : tasks'[i] = tasks[i + 1] /\ i + 1 \in 1 .. Len(tasks)
           /\ \A i \in 1 .. Len(tasks) : i # 1 => i - 1 \in 1 .. Len(tasks') /\ tasks'[i - 1] = tasks[i]
<1>1. Len(tasks) \in Nat /\ Len(tasks) # 0
    BY LenProperties, EmptySeq
<1>2. /\ tasks' \in Seq(Tasks \cup {Pill}) /\ Len(tasks') = Len(tasks) - 1
      /\ \A i \in 1 .. Len(tasks') : tasks'[i] = tasks[i + 1]
    BY HeadTailProperties
<1>3. \A i \in 1 .. Len(tasks) : i # 1 => i - 1 \in 1 .. Len(tasks') /\ tasks'[i - 1] = tasks[(i - 1) + 1]
    BY <1>1, <1>2
<1> QED
    BY <1>1, <1>2, <1>3

\* The invariant holds initially.
LEMMA PoolInitInv == PoolInit => PoolInv
<1> SUFFICES ASSUME PoolInit PROVE PoolInv
    OBVIOUS
<1>1. PoolTypeOK
    BY WorkersFinite DEF PoolInit, PoolTypeOK, Q!QInit, Q!QTypeOK
<1>2. Len(tasks) = 0
    BY DEF PoolInit, Q!QInit
<1>3. OnePlace
    BY <1>2, PoolAssumption DEF PoolInit, OnePlace, InQueue
<1> QED
    BY <1>1, <1>2, <1>3 DEF PoolInit, Q!QInit, PoolInv, PoppersFree, PillsBehind, JoinInStep, InQueue, Threads

\* A push() of a thread that runs leaves those inside pop() where they are.
LEMMA PushFacts ==
    ASSUME PoolInv, NEW t \in Threads, NEW v \in Tasks \cup {Pill}, Q!Push(t, v),
           UNCHANGED <<running, exited>>
    PROVE  Q!QTypeOK' /\ PoppersFree'
<1>1. qpc' = [qpc EXCEPT ![t] = "notify"] /\ tasks' = Append(tasks, v)
    BY DEF Q!Push, Q!QGoto
<1>2. Q!QTypeOK'
    BY <1>1, QueueAppend DEF PoolInv, PoolTypeOK, Q!QTypeOK
<1> QED
    BY <1>1, <1>2 DEF PoolInv, PoolTypeOK, Q!QTypeOK, PoppersFree, Threads

\* A new task is appended to the queue.
LEMMA SubmitInv ==
    ASSUME PoolInv, NEW t \in Threads, NEW k \in Tasks, Submit(t, k) PROVE PoolInv'
<1>1. Q!QTypeOK' /\ PoppersFree'
    BY PushFacts DEF Submit
<1>2. tasks' = Append(tasks, k) /\ k \notin submitted /\ submitted' = submitted \cup {k}
      /\ UNCHANGED <<mpc, pills, running, exited, early, executed>>
    BY DEF Submit, Q!Push
<1>3. /\ Len(tasks) \in Nat /\ Len(tasks') = Len(tasks) + 1
      /\ \A i \in 1 .. Len(tasks) : tasks'[i] = tasks[i]
      /\ tasks'[Len(tasks) + 1] = k
      /\ \A i \in 1 .. Len(tasks) + 1 : i # Len(tasks) + 1 => i \in 1 .. Len(tasks)
    BY <1>2, QueueAppend DEF PoolInv, PoolTypeOK, Q!QTypeOK
<1>4. PoolTypeOK'
    BY <1>1, <1>2 DEF PoolInv, PoolTypeOK
<1>5. k \notin early /\ k # Pill /\ ~InQueue(k) /\ executed[k] = 0 /\ \A w \in Workers : running[w] # k
    BY <1>2, PoolAssumption DEF PoolInv, PoolTypeOK, OnePlace
<1>6. \A l : InQueue(l)' <=> InQueue(l) \/ l = k
    BY <1>3 DEF InQueue
<1>7. OnePlace'
  <2> SUFFICES ASSUME NEW l \in Tasks PROVE OnePlace!(l)'
      BY DEF OnePlace
  <2>1. \A i, j \in 1 .. Len(tasks') : tasks'[i] = l /\ tasks'[j] = l => i = j
      BY <1>3, <1>5 DEF PoolInv, OnePlace, InQueue
  <2> QED
      BY <1>2, <1>5, <1>6, <2>1 DEF PoolInv, OnePlace
<1>8. PillsBehind'
    BY <1>2, <1>3, <1>5, <1>6 DEF PoolInv, PillsBehind
<1> QED
    BY <1>1, <1>2, <1>4, <1>7, <1>8 DEF PoolInv, JoinInStep

\* join() appends a pill.
LEMMA PushPillInv == ASSUME PoolInv, PushPill PROVE PoolInv'
<1>1. Q!QTypeOK' /\ PoppersFree'
    BY PushFacts DEF PushPill, Threads
<1>2. tasks' = Append(tasks, Pill) /\ mpc = "pills" /\ mpc' \in {"pills", "join"}
      /\ UNCHANGED <<running, exited, submitted, early, executed>>
    BY DEF PushPill, Q!Push
<1>3. /\ Len(tasks) \in Nat /\ Len(tasks') = Len(tasks) + 1
      /\ \A i \in 1 .. Len(tasks) : tasks'[i] = tasks[i]
      /\ tasks'[Len(tasks) + 1] = Pill
      /\ \A i \in 1 .. Len(tasks) + 1 : i # Len(tasks) + 1 => i \in 1 .. Len(tasks)
    BY <1>2, QueueAppend DEF PoolInv, PoolTypeOK, Q!QTypeOK
<1>4. pills' \in 0 .. Cardinality(Workers) /\ (mpc' = "pills" => pills' < Cardinality(Workers))
    BY WorkersFinite DEF PushPill, PoolInv, PoolTypeOK, JoinInStep
<1>5. PoolTypeOK' /\ JoinInStep'
    BY <1>1, <1>2, <1>4 DEF PoolInv, PoolTypeOK, JoinInStep
<1>6. Pill \notin Tasks /\ Pill \notin early
    BY PoolAssumption DEF PoolInv, PoolTypeOK
<1>7. \A l \in Tasks : InQueue(l)' <=> InQueue(l)
    BY <1>3, <1>6 DEF InQueue
<1>8. OnePlace'
  <2> SUFFICES ASSUME NEW l \in Tasks PROVE OnePlace!(l)'
      BY DEF OnePlace
  <2>1. \A i, j \in 1 .. Len(tasks') : tasks'[i] = l /\ tasks'[j] = l => i = j
      BY <1>3, <1>6 DEF PoolInv, OnePlace
  <2> QED
      BY <1>2, <1>7, <2>1 DEF PoolInv, OnePlace
<1>9. PillsBehind'
    BY <1>2, <1>3, <1>6 DEF PoolInv, PillsBehind
<1> QED
    BY <1>1, <1>5, <1>8, <1>9 DEF PoolInv

\* A worker takes the oldest task, or a pill: then no early task is left.
LEMMA TakeInv == ASSUME PoolInv, NEW w \in Workers, Take(w) PROVE PoolInv'
<1>1. PICK v \in Tasks \cup {Pill} :
        /\ Q!PopValue(w, v)
        /\ running' = [running EXCEPT ![w] = v]
        /\ exited' = IF v = Pill THEN exited \cup {w} ELSE exited
        /\ UNCHANGED <<mpc, pills, submitted, early, executed>>
    BY DEF Take
<1>2. /\ qpc[w] = "pop" /\ qpc' = [qpc EXCEPT ![w] = "idle"]
      /\ tasks # <<>> /\ tasks' = Tail(tasks) /\ v = Head(tasks)
    BY <1>1 DEF Q!PopValue, Q!QGoto
<1>3. /\ tasks' \in Seq(Tasks \cup {Pill}) /\ Len(tasks) \in Nat /\ Len(tasks') = Len(tasks) - 1
      /\ Len(tasks) > 0 /\ Head(tasks) = tasks[1]
      /\ \A i \in 1 .. Len(tasks') : tasks'[i] = tasks[i + 1] /\ i + 1 \in 1 .. Len(tasks)
      /\ \A i \in 1 .. Len(tasks) : i # 1 => i - 1 \in 1 .. Len(tasks') /\ tasks'[i - 1] = tasks[i]
    BY <1>2, QueueTail DEF PoolInv, PoolTypeOK, Q!QTypeOK
<1>4. 1 \in 1 .. Len(tasks) /\ v = tasks[1] /\ running[w] = Pill /\ w \notin exited
    BY <1>2, <1>3 DEF PoolInv, PoppersFree
<1>5. \A x \in Workers : running'[x] = IF x = w THEN v ELSE running[x]
    BY <1>1 DEF PoolInv, PoolTypeOK
<1>6. PoolTypeOK'
    BY <1>1, <1>2, <1>3 DEF PoolInv, PoolTypeOK, Q!QTypeOK
<1>7. PoppersFree'
    BY <1>1, <1>2, <1>4, <1>5 DEF PoolInv, PoppersFree, PoolTypeOK, Q!QTypeOK, Threads
<1>8. \A l \in Tasks : InQueue(l)' <=> InQueue(l) /\ l # v
  <2> SUFFICES ASSUME NEW l \in Tasks PROVE InQueue(l)' <=> InQueue(l) /\ l # v
      OBVIOUS
  <2>1. ASSUME InQueue(l)' PROVE InQueue(l) /\ l # v
    <3>1. PICK i \in 1 .. Len(tasks') : tasks'[i] = l
        BY <2>1 DEF InQueue
    <3>2. i + 1 \in 1 .. Len(tasks) /\ tasks[i + 1] = l /\ i + 1 # 1
        BY <1>3, <3>1
    <3> QED
        BY <1>4, <3>2 DEF InQueue, PoolInv, OnePlace
  <2>2. ASSUME InQueue(l), l # v PROVE InQueue(l)'
    <3>1. PICK i \in 1 .. Len(tasks) : tasks[i] = l
        BY <2>2 DEF InQueue
    <3> QED
        BY <1>3, <1>4, <2>2, <3>1 DEF InQueue
  <2> QED
      BY <2>1, <2>2
<1>9. OnePlace'
  <2> SUFFICES ASSUME NEW l \in Tasks PROVE OnePlace!(l)'
      BY DEF OnePlace
  <2>1. \A i, j \in 1 .. Len(tasks') : tasks'[i] = l /\ tasks'[j] = l => i = j
    <3> SUFFICES ASSUME NEW i \in 1 .. Len(tasks'), NEW j \in 1 .. Len(tasks'), tasks'[i] = l, tasks'[j] = l
                 PROVE  i = j
        OBVIOUS
    <3>1. i + 1 = j + 1
        BY <1>3 DEF PoolInv, OnePlace
    <3> QED
        BY <3>1
  <2>2. CASE l = v
    <3>1. InQueue(l) /\ ~InQueue(l)'
        BY <1>4, <1>8, <2>2 DEF InQueue
    <3>2. l \in submitted /\ executed[l] = 0 /\ \A x \in Workers : running[x] # l
        BY <3>1 DEF PoolInv, OnePlace
    <3>3. running'[w] = l /\ \A x \in Workers : running'[x] = l => x = w
        BY <1>5, <2>2, <3>2
    <3> QED
        BY <1>1, <2>1, <3>1, <3>2, <3>3
  <2>3. CASE l # v
    <3>1. (InQueue(l)' <=> InQueue(l)) /\ \A x \in Workers : running'[x] = l <=> running[x] = l
        BY <1>4, <1>5, <1>8, <2>3, PoolAssumption
    <3> QED
        BY <1>1, <2>1, <3>1 DEF PoolInv, OnePlace
  <2> QED
      BY <2>2, <2>3
<1>10. PillsBehind'
  <2>1. \A i, j \in 1 .. Len(tasks') : tasks'[i] = Pill /\ i < j => tasks'[j] \notin early
    <3> SUFFICES ASSUME NEW i \in 1 .. Len(tasks'), NEW j \in 1 .. Len(tasks'), tasks'[i] = Pill, i < j
                 PROVE  tasks'[j] \notin early
        OBVIOUS
    <3>1. i + 1 < j + 1 /\ tasks[i + 1] = Pill /\ tasks'[j] = tasks[j + 1]
        BY <1>3
    <3> QED
        BY <1>3, <3>1 DEF PoolInv, PillsBehind
  <2>2. ASSUME exited' # {}, NEW i \in 1 .. Len(tasks') PROVE tasks'[i] \notin early
    <3>1. i + 1 \in 1 .. Len(tasks) /\ tasks'[i] = tasks[i + 1] /\ 1 < i + 1
        BY <1>3
    <3>2. CASE exited # {}
        BY <3>1, <3>2 DEF PoolInv, PillsBehind
    <3>3. CASE v = Pill
        BY <1>4, <3>1, <3>3 DEF PoolInv, PillsBehind
    <3> QED
        BY <1>1, <2>2, <3>2, <3>3
  <2>3. mpc = "submit" => v # Pill /\ ~InQueue(Pill)'
    <3> SUFFICES ASSUME mpc = "submit" PROVE v # Pill /\ ~InQueue(Pill)'
        OBVIOUS
    <3>1. \A i \in 1 .. Len(tasks) : tasks[i] # Pill
        BY DEF PoolInv, PillsBehind, InQueue
    <3> QED
        BY <1>3, <1>4, <3>1 DEF InQueue
  <2> QED
      BY <1>1, <2>1, <2>2, <2>3 DEF PoolInv, PillsBehind
<1>11. JoinInStep'
    BY <1>1, <1>4 DEF PoolInv, JoinInStep
<1> QED
    BY <1>6, <1>7, <1>9, <1>10, <1>11 DEF PoolInv

\* A task has run to its end.
LEMMA FinishInv == ASSUME PoolInv, NEW w \in Workers, Finish(w) PROVE PoolInv'
<1>1. PICK k \in Tasks : k = running[w]
    BY DEF Finish, PoolInv, PoolTypeOK
<1>2. /\ executed' = [executed EXCEPT ![k] = executed[k] + 1] /\ running' = [running EXCEPT ![w] = Pill]
      /\ qpc[w] = "idle" /\ UNCHANGED <<tasks, qpc, mpc, pills, exited, submitted, early>>
    BY <1>1 DEF Finish
<1>3. executed[k] = 0 /\ k \in submitted /\ ~InQueue(k) /\ \A x \in Workers : running[x] = k => x = w
    BY <1>1 DEF PoolInv, OnePlace
<1>4. \A x \in Workers : running'[x] = IF x = w THEN Pill ELSE running[x]
    BY <1>2 DEF PoolInv, PoolTypeOK
<1>5. \A l \in Tasks : executed'[l] = IF l = k THEN 1 ELSE executed[l]
    BY <1>2, <1>3 DEF PoolInv, PoolTypeOK
<1>6. PoolTypeOK'
    BY <1>2 DEF PoolInv, PoolTypeOK, Q!QTypeOK
<1>7. PoppersFree' /\ PillsBehind' /\ JoinInStep'
    BY <1>2, <1>4 DEF PoolInv, PoppersFree, PillsBehind, JoinInStep, InQueue
<1>8. \A l : InQueue(l)' <=> InQueue(l)
    BY <1>2 DEF InQueue
<1>9. OnePlace'
  <2> SUFFICES ASSUME NEW l \in Tasks PROVE OnePlace!(l)'
      BY DEF OnePlace
  <2>1. l # Pill
      BY PoolAssumption
  <2>2. CASE l = k
    <3>1. executed'[l] = 1 /\ ~InQueue(l)' /\ \A x \in Workers : running'[x] # l
        BY <1>3, <1>4, <1>5, <1>8, <2>1, <2>2
    <3>2. \A i, j \in 1 .. Len(tasks') : tasks'[i] = l /\ tasks'[j] = l => i = j
        BY <1>2 DEF PoolInv, OnePlace
    <3> QED
        BY <1>2, <1>3, <2>2, <3>1, <3>2
  <2>3. CASE l # k
      BY <1>1, <1>2, <1>4, <1>5, <1>8, <2>1, <2>3 DEF PoolInv, OnePlace
  <2> QED
      BY <2>2, <2>3
<1> QED
    BY <1>6, <1>7, <1>9 DEF PoolInv

\* The steps that only move a thread inside push() or pop().
LEMMA QueueStepInv ==
    ASSUME PoolInv, UNCHANGED <<tasks, mpc, pills, running, exited, submitted, early, executed>>,
           Q!QTypeOK', PoppersFree'
    PROVE  PoolInv'
<1>1. \A l : InQueue(l)' <=> InQueue(l)
    BY DEF InQueue
<1> QED
    BY <1>1 DEF PoolInv, PoolTypeOK, OnePlace, PillsBehind, JoinInStep

\* Every step keeps the invariant.
LEMMA PoolNextInv == PoolInv /\ [PoolNext]_poolVars => PoolInv'
<1> SUFFICES ASSUME PoolInv, [PoolNext]_poolVars PROVE PoolInv'
    OBVIOUS
<1>1. ASSUME NEW k \in Roots, MainSubmit(k) PROVE PoolInv'
    BY <1>1, SubmitInv, PoolAssumption DEF MainSubmit, Threads
<1>2. CASE CallJoin
  <2>1. PoolTypeOK' /\ PoppersFree' /\ OnePlace'
      BY <1>2 DEF CallJoin, PoolInv, PoolTypeOK, PoppersFree, OnePlace, InQueue, Q!QTypeOK
  <2>2. PillsBehind'
      BY <1>2 DEF CallJoin, PoolInv, PillsBehind, InQueue
  <2>3. JoinInStep'
      BY <1>2, WorkersFinite DEF CallJoin, PoolInv, JoinInStep
  <2> QED
      BY <2>1, <2>2, <2>3 DEF PoolInv
<1>3. CASE JoinWorkers
    BY <1>3 DEF JoinWorkers, PoolInv, PoolTypeOK, PoppersFree, OnePlace, PillsBehind, JoinInStep, InQueue, Q!QTypeOK
<1>4. ASSUME NEW t \in Threads, Notify(t) PROVE PoolInv'
  <2>1. /\ qpc' \in [Threads -> {"idle", "notify", "pop", "asleep"}]
        /\ \A u \in Threads : qpc'[u] \in {"pop", "asleep"} => qpc[u] \in {"pop", "asleep"}
    <3>1. CASE qpc' = [qpc EXCEPT ![t] = "idle"]
        BY <3>1 DEF PoolInv, PoolTypeOK, Q!QTypeOK
    <3>2. ASSUME NEW s \in Q!At("asleep"), qpc' = [qpc EXCEPT ![t] = "idle", ![s] = "pop"]
          PROVE  <2>1
        BY <3>2 DEF PoolInv, PoolTypeOK, Q!QTypeOK, Q!At
    <3> QED
        BY <1>4, <3>1, <3>2 DEF Notify, Q!NotifyOne
  <2>2. tasks' = tasks /\ UNCHANGED <<mpc, pills, running, exited, submitted, early, executed>>
      BY <1>4 DEF Notify, Q!NotifyOne
  <2>3. Q!QTypeOK' /\ PoppersFree'
      BY <2>1, <2>2 DEF PoolInv, PoolTypeOK, Q!QTypeOK, PoppersFree, Threads
  <2> QED
      BY <2>2, <2>3, QueueStepInv
<1>5. ASSUME NEW w \in Workers, CallPop(w) \/ Wait(w) PROVE PoolInv'
  <2>1. /\ qpc' = [qpc EXCEPT ![w] = "pop"] \/ qpc' = [qpc EXCEPT ![w] = "asleep"]
        /\ UNCHANGED <<tasks, mpc, pills, running, exited, submitted, early, executed>>
        /\ running[w] = Pill /\ w \notin exited
      BY <1>5 DEF CallPop, Wait, Q!CallPop, Q!PopWait, Q!QSpuriousWake, Q!QGoto, PoolInv, PoppersFree
  <2>2. Q!QTypeOK' /\ PoppersFree'
      BY <2>1 DEF PoolInv, PoolTypeOK, Q!QTypeOK, PoppersFree, Threads
  <2> QED
      BY <2>1, <2>2, QueueStepInv
<1>6. ASSUME NEW w \in Workers, NEW k \in Tasks, TaskSubmit(w, k) PROVE PoolInv'
    BY <1>6, SubmitInv DEF TaskSubmit, Threads
<1>7. CASE UNCHANGED poolVars
    BY <1>7, QueueStepInv DEF poolVars, PoolInv, PoolTypeOK, Q!QTypeOK, PoppersFree
<1> QED
    BY <1>1, <1>2, <1>3, <1>4, <1>5, <1>6, <1>7, PushPillInv, TakeInv, FinishInv
    DEF PoolNext, MainStep, WorkerStep, Terminated, Threads

\* The places of a task, counted.
LEMMA PlacesCounted == PoolInv => TasksConserved
<1> SUFFICES ASSUME PoolInv, NEW k \in Tasks
             PROVE  Occurrences(k) + Cardinality(Runners(k)) + executed[k] = IF k \in submitted THEN 1 ELSE 0
    BY DEF TasksConserved
<1>1. DOMAIN tasks = 1 .. Len(tasks)
    BY LenProperties DEF PoolInv, PoolTypeOK, Q!QTypeOK
<1>2. Occurrences(k) = IF InQueue(k) THEN 1 ELSE 0
  <2>1. CASE ~InQueue(k)
    <3>1. {i \in DOMAIN tasks : tasks[i] = k} = {}
        BY <1>1, <2>1 DEF InQueue
    <3> QED
        BY <2>1, <3>1, FS_EmptySet DEF Occurrences
  <2>2. CASE InQueue(k)
    <3>1. PICK i \in 1 .. Len(tasks) : tasks[i] = k
        BY <2>2 DEF InQueue
    <3>2. {j \in DOMAIN tasks : tasks[j] = k} = {i}
        BY <1>1, <3>1 DEF PoolInv, OnePlace
    <3> QED
        BY <2>2, <3>2, FS_Singleton DEF Occurrences
  <2> QED
      BY <2>1, <2>2
<1>3. Cardinality(Runners(k)) = IF \E w \in Workers : running[w] = k THEN 1 ELSE 0
  <2>1. CASE \A w \in Workers : running[w] # k
    <3>1. Runners(k) = {}
        BY <2>1 DEF Runners
    <3> QED
        BY <2>1, <3>1, FS_EmptySet
  <2>2. ASSUME NEW w \in Workers, running[w] = k PROVE <1>3
    <3>1. Runners(k) = {w}
        BY <2>2 DEF Runners, PoolInv, OnePlace
    <3> QED
        BY <2>2, <3>1, FS_Singleton
  <2> QED
      BY <2>1, <2>2
<1> QED
    BY <1>2, <1>3 DEF PoolInv, OnePlace

\* For any workers and any tasks no task is lost or duplicated, whichever
\* tasks submit others.
THEOREM PoolConservesTasks == PoolSpec => [](PoolTypeOK /\ TasksConserved)
<1>1. PoolInv => PoolTypeOK /\ TasksConserved
    BY PlacesCounted DEF PoolInv
<1> QED
    BY <1>1, PoolInitInv, PoolNextInv, PTL DEF PoolSpec

\* In a pool with a worker, every task submitted before join() has run once
\* when join() returns, and no task is lost or run twice.  Without a worker
\* join() returns at once and leaves the tasks in the queue.
THEOREM PoolRunsTasksOnce ==
    ASSUME Workers # {}
    PROVE  PoolSpec => []TasksRunOnce
<1>1. PoolInv => JoinCompletesEarlyTasks
  <2> SUFFICES ASSUME PoolInv, mpc = "joined", NEW k \in early PROVE executed[k] = 1
      BY DEF JoinCompletesEarlyTasks
  <2>1. k \in Tasks /\ k \in submitted /\ k # Pill
      BY PoolAssumption DEF PoolInv, PoolTypeOK
  <2>2. exited = Workers /\ ~InQueue(k) /\ \A w \in Workers : running[w] = Pill
      BY DEF PoolInv, JoinInStep, PillsBehind, PoppersFree, InQueue
  <2> QED
      BY <2>1, <2>2 DEF PoolInv, OnePlace
<1>2. PoolInv => TasksRunOnce
    BY <1>1, PlacesCounted DEF TasksRunOnce
<1> QED
    BY <1>2, PoolInitInv, PoolNextInv, PTL DEF PoolSpec

=============================================================================
