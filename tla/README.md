# Verification of dsac

dsac is a C++20 library of concurrency primitives, executors, futures, caches,
containers and algorithms, with a replicated register as its largest example.
This directory models the parts of it whose correctness depends on
interleavings, ordering and failure, checks the models with TLC on small
instances and proves the central invariants with TLAPS for every instance.
`PROJECT.json` ties every definition to the lines it models and lists runs,
mutants, hazards, findings and theorems.

All source paths below are relative to `src/dsac/`; `sync/` abbreviates
`include/dsac/concurrency/synchronization/` and
`src/concurrency/synchronization/`, `futures/` abbreviates
`include/dsac/concurrency/futures/`, `executors/` abbreviates
`include/dsac/concurrency/executors/` and `src/concurrency/executors/`.

## 1. Inventory

| Component | State | Operations | Used by | What is hard |
|---|---|---|---|---|
| `sync/mutex` | one atomic int (0 free, 1 locked, 2 contended), the kernel's futex queue | `lock`, `unlock` | blocking stack, lock guards | interleaving of compare-and-set with a two-step `unlock`; a sleeper nobody wakes |
| `sync/critical_section` | one atomic flag | `lock`, `unlock` | spin-locked sections | several spinners see the flag clear at once |
| `sync/semaphore` | atomic counter, `std::mutex`, condition variable | `acquire`, `release` | callers | `release` does not take the mutex |
| `sync/barrier` | counter, direction, `std::mutex`, condition variable | `arrive_and_wait` | callers | slow threads of one phase and fast threads of the next |
| `sync/mvar`, `sync/unique_lock` | storage and two condition variables; ownership flag | `put`, `take`, `read_only`; moves | callers | a reference that outlives the critical section |
| `executors/blocking_queue` | deque, mutex, condition variable | `push`, `pop` | thread pool | notification outside the mutex, barging consumers |
| `executors/static_thread_pool` | the queue, worker threads | `submit`, `join` | futures, the register | poison pills against tasks submitted late |
| `futures/state`, `promise`, `future` | atomic state, result, callback, executor | `set_result`, `set_callback`, `get_result`, `via`, `then` | combinators, coroutines, the register | two sides meet lock-free; relaxed publication |
| `futures/combine/first_n`, `first_of` | two counters, an array of results, a promise | callbacks | quorum waits of the register | callbacks race with each other and with the caller |
| `async_via`, `then`, coroutines | promises, callbacks, coroutine frames | `then`, `subscribe`, `co_await` | callers | resumption in another thread before the suspension is over; exceptions out of callbacks that run in place |
| fibers | run queue, pool of stacks, contexts | `go` | callers | order of recycling and switching |
| `lockfree/stack` | head, free list, counter of pops | `push`, `pop` | callers | deferred reclamation |
| `memory/shared_ptr` | reference counter | copy, move, destruction | callers | last reference |
| `pattern/singleton` | pointer and lock per type, destructors to run at exit | `singleton` | registrator, callers | racing first uses, throwing constructors, order of destruction |
| `cache/lru`, `lru-k` | index and intrusive list, twice in `lru-k` | `put`, `get` | callers | eviction at the limit; two structures that must agree |
| `container/hash` | chains; a directory of shared buckets | insertion, removal, lookup | callers | growth and splits must keep every key |
| `container/tree`, `heap` | nodes with pointers, heights, colours | insertion, deletion, iteration | callers | balance after long sequences of calls, dangling pointers |
| `container/dynamic_array` | one block, its constructed part | construction, assignment, growth, `reserve` | callers | a constructor that throws in the middle |
| `container/graph`, Graphviz | adjacency lists, matrices, parents | searches, tours, unions, parsing | callers | answers for every small graph and text |
| `algorithm` | none | sorts, breadth first search | callers | equal elements, short and sorted inputs |
| `functional/expected`, `function2` | a union under a flag; a vtable and a small buffer | construction, assignment, `emplace`, `swap`, `map`; moves, calls | futures, tasks, callbacks | constructors that throw between the end of the old content and the beginning of the new |
| `web/detail/httplib` of the example | sockets, pool of threads, requests in flight; parsers of bodies, forms, ranges, texts | `listen`, `stop`, the verbs of a client | the register | timeouts and broken connections at any byte, reuse of connections, redirections, `stop` from another thread |
| `examples/dist.registry.replication` | a register per node, coordinator operations in flight | replica read / write / reset, coordinator read / write | HTTP clients | lost, late and failing calls, restarts, quorums |

Calls: a coordinator of the register asks every replica through a future per
call, combines them with `first_n`, and blocks in `get`. Futures run their
callbacks in place or on the thread pool; the pool is built on the blocking
queue. The calls to replicas travel over httplib, a client and a connection for
each of them. The other components do not depend on each other in ways that matter to
their properties.

What makes each component correct is listed with its properties in section 3;
what can go wrong at which line is the list `hazards` of `PROJECT.json`.

## 2. Plan

Modules are written so that they can be proved about: constants with named
assumptions, one action per atomic step or critical section, invariants as
conjunctions of named parts, no recursive operator.

1. Done: the synchronization primitives with `mvar` and `unique_lock`, blocking
   queue, thread pool, shared state, `first_n`, `first_of`, `async_via`, `then`,
   `co_await`, the lock-free stack, `shared_ptr`, the fiber scheduler, the
   singleton, and the replicated register, which composes the quorum wait with
   delayed and failing calls. Abstract specifications: `Exclusion` (for the two
   locks) and `OneShot` (for the shared state).
2. Done: the sequential components against reference definitions: caches,
   intrusive list, hash tables, trees, heap, dynamic array, sorts, graph
   algorithms and the Graphviz reader.
3. Done: what the register and the library stand on: `httplib` (connections,
   calls, messages), `expected` and `unique_function`.
4. Done: the theorems of section 5, for the concurrent components and for those
   of the sequential ones that use no recursive operators.
5. Done: theorems about the calls of `httplib` with their redirections, the bodies of
   its messages, and its connections and threads. The other modules of the sequential
   components use recursive operators and stay with TLC.

## 3. Modules, properties and runs

Parts that share no state are checked side by side: `MCSync`, `MCFutures`,
`MCStructures` and `MCReplication` have a variable `chosen` that names, from the initial state on, the part that
takes steps; the others stay in their initial states. The fairness of a part is
conjoined as its module states it; for the two parts with fair actions that are
enabled initially (the threads of the barrier, the caller of `first_n`) it is
assumed only when the part is chosen.

### `Locks`, `Exclusion`, `ThreadSet`

`Locks` follows `mutex.cpp` with one step per atomic access and system call.
`mutexState` is `state_`, `mutexC` the local `c` of `lock`, `mutexPc` the place
of each thread; FUTEX_WAIT compares and enqueues in one step, FUTEX_WAKE wakes
any one sleeper, and a sleeper may wake without cause. Its
second half follows `critical_section.cpp` in the same way. `ThreadSet` declares the threads.

* `NoLostFutexWakeup`: a sleeper always has the word 2 or a thread on its way to
  set it or to wake somebody.
* `MutexIsLock`, `SpinIsLock`: both refine `Exclusion` with the owners as the
  mapping, although a contended `unlock` passes through 1 before it stores 0 and
  several spinners see the flag clear. `MutualExclusion` and `ZeroMeansFree` are
  the parts of the mutex' invariant that the proof needs for it.
* `MutexProgress`: the mutex does not stay free while somebody
  wants it. Starvation of one thread is possible and not excluded.

### `Semaphore`

`acquire` locks, tests, blocks (releasing and enqueueing in one step) and
takes; `release` increments and notifies in two steps without the mutex, as in
`semaphore.cpp`. The test of the predicate and the enqueueing are two steps,
which a `release` can fall between.

* `PermitsConserved`: no more permits are given out than there are. The counter is
  the number of permits that nobody holds (`AllAccountedFor`), which the paired
  changes of `Take` and `Increment` keep by themselves; and whoever is about to
  decrement it finds a token (`NoUnderflow`), although the test and the decrement
  are two steps and `release` changes the counter between them. This second part
  is what the mutex is for: without it two threads pass the test for one token, and
  the unsigned counter wraps.
* `AcquirersUnblocked` is violated, see section 6.

### `Barrier`

Each stretch of `arrive_and_wait` under the mutex is one action; `awaits` is the
state a sleeper's predicate waits for, `arrived` counts calls. The number of
calls per thread is bounded by `MaxPhases`. The barrier is used by exactly the
number of threads it was made for.

* `NobodyPassesEarly`, and `EveryCallReturns` under fairness. `CounterExact` is
  proved with the former.

### `MVar`

A critical section of `put`, `take` or `read_only` is one action that includes
its `notify_all`; a call whose predicate fails goes to sleep on the condition
variable it waits for, and may wake without cause. `mvar<void>` is the same
class with a unit value.

* `SleepersHaveReason`: who sleeps, sleeps because the storage is full (`put`) or
  empty (`take`, `read_only`). `ValuesHandedOver`: a waiting `take` is served or the storage runs empty.

### `BlockingQueue` and `ThreadPool`

A critical section of `push` or `pop` is one action, the notification of `push`
a separate one. `ThreadPool` instantiates the queue and adds `submit`, `join`
with its pills, `worker_routine`, and tasks that submit further tasks while they
run, as `shared_state::do_callback` does.

* `NoLostNotification`: while a consumer sleeps, each element has a `push` about
  to notify or a consumer awake. `ElementsServed`: a consumer inside `pop` is
  served or the queue runs empty.
* `TasksRunOnce`: no task is lost or run twice (`TasksConserved`), and when `join`
  returns, everything submitted before it was called has run
  (`JoinCompletesEarlyTasks`). `JoinReturns`.
* `EverySubmittedTaskRuns` is violated, see section 6.

### `OneShot`, `SharedState`

One step per access of `state_`; `set_result` and `set_callback` are one
algorithm with the two sides exchanged (`Own`, `Peer`). `acquired` records
whether the consumer has read a value of `state_` that the producer wrote with
release order; without it the read of `result_` is a data race and may see the
empty optional. A failed assertion or thrown `shared_state_unexpected_state` is
the place `failed`.

* `NobodyFails`, `ImplementsOneShot`, `CallbackIsCalled`. `DeliveredAsAsked`: the
  callback is called once with the result (`CalledOnceWithResult`), in the executor
  exactly if `via` named one (`CalledWhereAsked`), and `get` without a subscription
  returns the result (`PlainGetReturnsResult`).
* `GetReturnsResult`, the last of these after a subscription, is violated.

### `Combinators`: `first_n`

Counters, array and promise of `first_n.hpp` with one step per access, callbacks
in any threads, and the caller that subscribes, takes the combined future and
calls `get`.

* `ExactlyMinResults`: n results of n different futures, and the array, which is
  not atomic, is not written while it is read. `QuorumSuffices`: n ready futures
  are enough, whatever becomes of the others.
* `ReturnsValidFuture` is violated.

### `Combinators`: `first_of`, and `Continuations`

The second half of `Combinators` has the flag, the promise and the callbacks of
`first_of.hpp`.
`Continuations` is a chain of consumers behind `async_via`: each is a continuation
of `then`, a coroutine that awaits the future, or a plain callback. The caller
attaches them while the worker runs the chain; a consumer whose result is there
already runs inside the call that attaches it. `frames` are the calls under way
in a thread, because `set` of a state without an executor calls the next consumer
in place. A shared state is used here as `OneShot` describes it.

* `OneWinner`: one of the racing callbacks sets the promise.
* `ConsumersCalledOnce`: each consumer runs at most once and after its result, no
  promise is set twice, no coroutine frame is used after its end, and the program
  aborts only because a plain callback throws inside `set`: the exception reaches
  the catch block of `then`, which sets the promise again.
* `ChainCompletes`: value or exception travel to the end of the chain.

### `LockFreeStack`

`push`, `pop` and the deferred reclamation of `lockfree/stack.hpp` with one step
per atomic access: the stack and the free list are chains of nodes, `pop` counts
itself, reads the head and its successor, swings the head, and on leaving either
deletes its node, and the free list if it was alone, or defers it.
`compare_exchange_weak` may fail without cause. `Recycling` says whether the
allocator may hand out an address again.

* `NodesOwned`: no node is read, deleted or linked after its deletion
  (`NoUseAfterFree`), and what is allocated is in a list or in the hands of a
  thread (`NoLeak`). The former holds when addresses are not reused and is violated
  when they are (section 6).
* `StackIsLifo`: the content, which is the chain from the head, changes only where
  a `push` puts its node on top, a `pop` takes the node that it returns from the
  top, or the destructor runs.

### `Ownership`, `Fibers`

`Ownership` has the pointers `shared_ptr` of several threads, counters per object,
and the decrement and the deletion of the destructor as two steps. It also has the
guards per thread that are constructed, moved, unlocked early, locked again and
destroyed. `Fibers` follows `go`, the scheduler's queue, and the pool of
stacks, with up to `MaxGo` calls of `go`, nested ones included. Their properties
are `ObjectsOwned` and, with those of unique functions and `DynamicArray`, the
parts of `OwnedAsMeant`.

* `ObjectsOwned`: the counter of an object is the number of its references, and it
  exists exactly as long as something refers to it or one thread is about to
  delete it.
* `GuardsOwnTheirLocks`: each locked mutex has exactly one owning guard, through
  every sequence of moves.
* `StacksConserved`: every stack is in the pool once or belongs to one fiber.
  `GoRunsEverything`: the outer `go` returns when all fibers have run.

### `Singleton`

`singletonInt` and `singletonBase` with the load of the pointer, the lock, the
second load, construction, registration and publication as separate steps of
several threads; constructors may throw and ask for other singletons, and the
destructors that `TAtExit::Finish` calls may do so too.

* `SingletonsOutliveUsers`: an object is made and destroyed at most once, and what
  a constructor got from `singleton` is alive when the destructor runs. The pointer
  stays set after destruction, so a destructor that asks for a singleton it did not
  use before may get a dead one; `deadUse` records this and the property excludes
  only the uses that the constructor announced.

### Containers and algorithms

Each is a state machine whose steps are the calls, beside a variable that holds
what the calls should have left.

| Module | Code | Property |
|---|---|---|
| `Caches` | ring of pointers; `lru`, `lru_k` | `KeysKept`: `lru` holds the keys used last in their order; of `lru_k`, rings and indexes agree and the capacity holds. The buffer exceeds k exactly from the first `get` on that moves a key to it when it is full, and an eviction meets an empty history only when the buffer has taken up the whole capacity |
| `HashTables` | `hashtable.hpp`, `extendible_hashtable.hpp` | `KeysKept`: no growth loses a key. The extendible table fails an assertion only after it has split a bucket of more than two directory entries, and recurses without end only when a key in a full bucket of equal hashes is inserted again |
| `SearchTrees`, `Ordering` | the four trees | `KeysKept`: order, content and balance. Exceptions that the code makes: a child that an erased node handed up keeps the pointer to the destroyed parent, and while there is one, an iterator goes to the next key or along that pointer; AVL heights after a deletion; each split of an inner node of the B-tree drops one child, and exactly the keys below it are lost |
| `Sorting` | sorts, `is_sorted`, `BinaryHeap` | `AlgorithmsAnswerRight`: every array up to the bound is sorted by every sort; the heap gives the smallest first |
| `DynamicArray` | `dynamic_array` | `ArrayOwnsItsElements` (in `OwnedAsMeant`): the first `size()` cells are constructed and no others, at whichever element a constructor throws; the catch block of the growth destroys a cell that was not constructed exactly when the constructor of the new element threw |
| `GraphSearch`, `DirectedGraph` | legacy graph with depth first and Dijkstra's search, union-find, tour, `directed_graph` with `bfs` | `AlgorithmsAnswerRight`: ways, shortest ways, components and the least tour, for every small graph |
| `Graphviz` | lexer, parser, `read_graphviz` | `GraphvizReadsArrows` (in `AlgorithmsAnswerRight`): the language of the grammar in `detail/README.md`, and an edge for every arrow, except that two arrows whose names joined by '_' look the same get one |

Where a property makes an exception, the flag in its premise records the first
call after which the code no longer keeps the promise, so that the property is
exact about when that happens.

### `Functional`

`Functional` takes a call of `expected<T, E>` as the sequence of its accesses to the
two members of the union, each of which may throw unless the traits by which the
overload was chosen exclude it; `traits` is chosen initially. A throw goes to the
catch block of the call, or ends the program inside the `noexcept` function
`construct`, which makes the catch blocks of some `assign` overloads unreachable.
Its second half follows callables through `fu2::unique_function`: inside the
buffer or on the heap, with the commands of the vtable. Moves of a function to
itself are left out.

* `UnionMatchesFlag`: a call has done what it is for or nothing, and no member is
  destroyed twice or overwritten. Where a catch block brings back the content of a
  destroyed member it does so by assignment, to a member that is not alive; this
  is possible only if the traits do not exclude the throw.
* `FunctionsOwnCallables` (in `OwnedAsMeant`): each callable has one function that
  knows where it is. After a throw during assignment the function keeps the vtable
  of a callable that it does not hold (`failed`).

### Connections: `Sockets`, `HttpServer`, `Http`

`Sockets` is the view that the socket functions of `httplib.hpp` have of TCP:
segments on their way in both directions, and how far each end has got.
`HttpServer` has `listen` with its pool of threads, keep-alive, the steps of
`process_request` and a handler that may throw; `Http` the steps of
`ClientImpl::send` under `request_mutex_` and `socket_mutex_`, with reuse of the
connection, `stop` and the destructor. Timeouts may strike whenever there is
nothing to read. One `trouble` per behaviour: another thread stops the server or
the client, or `accept` fails.

`HttpExchangesSafe` has five parts. `CallsKeepSockets`: nobody closes the socket
under a call. `AnswersBelong`: an answer is that to the call's own request; the
exception is a kept connection on which a body came after the server had given
up waiting for it: the server answers 400 and keeps the connection, and takes the
late body for a request. `HandledOnce`. `ConnectionsServed`: an accepted connection
has one place, and none is open when `listen` has returned. `SocketsReturned`.
`NobodyStuck` is a property of its own: whoever falls silent, each thread can go
on or waits for one that can.

### Messages: `HttpContent`, `HttpParsing`

They follow what one side makes of a message and the other side of what it
receives. `BodiesArrive` is a property of its own, and the other three together are
`MessagesArrive`; each says exactly where the code does not keep the promise.

| Part | Code | Property |
|---|---|---|
| bodies (`HttpContent`) | `write_content`, `write_content_chunked`, `write_content_without_length`, `read_content` and its parts | `BodiesArrive`: a framed body arrives whole or the call fails, whichever byte the connection ends at, and the next message is left alone. A chunked body that ends between the two characters after a chunk passes for a complete one, and an empty write ends the loop of a chunked provider but not the body |
| forms (`HttpParsing`) | `serialize_multipart_formdata`, `MultipartFormDataParser` | `FormsArrive`: all items with type and content, in whatever pieces the body comes. If a piece ends inside of the first boundary line, the parser drops what it has of it and with it the item |
| ranges (`HttpContent`) | `make_range_header`, `parse_range_header`, `get_range_offset_and_length`, `apply_ranges`, `write_content_with_provider` | `RangesAnswered`: the bytes asked for, or 416. From a content provider it holds for ranges within the content, and for several at once only if both ends of each are given, since their size is taken from `res.body`, which is empty |
| texts (`HttpParsing`) | `encode_url`, `encode_query_param`, `decode_url`, `parse_query_text`, `parse_header` | `TextArrives`: paths, parameters and header values arrive unless they look escaped themselves (paths, headers) or their keys need escaping (keys are not escaped); equal parameters arrive once |

### Calls with redirections: `HttpRequests`

One call of a client, by any of its verbs and kinds of bodies, over kept
connections to two hosts: `write_request`, `handle_request` with `redirect`, and on
the server `process_request` with the handlers that may come before the routing,
the expectation `100-continue`, content readers, files and exceptions. What is on
a connection is a sequence of heads and bodies; a body that nobody has read is
what the server reads next.

* `RequestsInStep`: the call returns the answer to its last request and leaves
  nothing behind on the connections (`InStep`), handlers get the body of the caller
  (`BodiesFollow`), and redirections end (`RedirectsEnd`). `LeftUnread` and
  `AnsweredTwice` name the cases in which the code gets out of step: it answers
  without reading the body and keeps the connection (a handler before the routing,
  a content reader that does not read, a range, form or expectation that is
  refused), it follows a 303 by a GET that still has the content provider, and it
  goes on after 417.
* That the call returns at all is the absence of deadlock in this part of the run.

### `Register`

`store` is the register of every replica, `phase`, `reply` and `object` the
operation each coordinator handles, `late` the writes that are still on their way
when a coordinator has its quorum. A call completes when its request has been
handled; `first_n` lets the coordinator go on with any majority of completed
calls. `seen` and `floor` are history: what has been confirmed or returned, and
how much of it before an operation was called. A scenario, chosen initially,
says which faults may happen: `unreachable` (the request is lost and the call
fails), `timeout` (the call fails and the request arrives later), `restart` and
`reset` (a replica forgets). A failed read counts as a snapshot without a
value, a failed write as an acknowledgement, as in `register_replica_client.cpp`.

* Without faults: `ConfirmedStored` (what was confirmed is on a majority ever
  after), `ReadsAreAtomic` (a read is not older than anything confirmed or
  returned before it was called), `ReplicasConverge`.
* With every fault: `NoRollback`.
* `MajorityHolds` with unreachable replicas, and `ReadsAreAtomic` when a client
  lowers the value, are violated.

### The runs

| Run | Instance | Result |
|---|---|---|
| `synchronization` | 4 threads; 2 permits; 3 phases; queue: 3 threads, 2 values, 3 elements; mvar: 2 values | passes, 35 232 states |
| `futures` | 1 promise, 2 values; first 2 of 4; first of 4; 4 consumers in the chain; 2 workers, 2 tasks, 1 continuation | passes, 9 876 states |
| `register` | 3 replicas, 2 clients, 2 registers; 2 operations each without faults, 1 with all faults; bodies of 3 bytes, 2 allowed, 2 in one write; forms of 3 items, 2 allowed, 3 boundaries; 2 ranges of 3 bytes, sizes of 4 bits; texts of 3 characters out of 9; 2 redirections, 7 kinds of handlers | passes, 992 421 states |
| `structures` | 3 threads; stack: 3 nodes, addresses not reused; 3 pointers, 2 objects; 2 mutexes, 2 guards per thread; 5 calls of `go`; 3 singletons, 2 callers, 1 exception; caches of 3 keys out of 4, k = 2; 5 hash keys of 3 bits; trees of 4 to 9 keys; arrays of 5; 3 vertices, 4 edges; 5 nodes, 5 links for `bfs`; 4 towns; Graphviz texts of 3 tokens and pairs of chains; HTTP: 1 thread of the pool, 2 calls of one client, backlog of 2; 2 objects of `expected`; 3 functions, 4 callables | passes, 514 139 states |
| `stack_recycling` | 3 threads, 2 nodes, addresses reused | violates `NoUseAfterFree` |
| `semaphore_lost_wakeup` | 2 threads, 1 permit | violates `AcquirersUnblocked` |
| `pool_continuation` | as in `futures` | violates `EverySubmittedTaskRuns` |
| `shared_state_get` | as `futures` | violates `GetReturnsResult` |
| `first_n_null_future` | first 2 of 3 | violates `ReturnsValidFuture` |
| `register_by_value` | 1 client, 3 operations, descending values | violates `ReadsAreAtomic` |
| `register_unreachable` | 1 client, 1 operation | violates `MajorityHolds` |
| `dijkstra_unreached` | 3 vertices, 3 edges | violates `DijkstraFindsWays` |

Why the bounds suffice for the cases of interest: four threads give the mutex an
owner, a sleeper, a woken thread and a newcomer at the same time; three phases
take the barrier through both directions and back; with more permits than one
and fewer than threads the semaphore has holders and sleepers together; three
elements and three threads let pushes overtake a woken consumer; three replicas
are the least for which a majority is a proper subset, and two
operations of two clients are enough for two overlapping reads during a write
(the new/old inversion that the write-back prevents). For reclamation three
threads matter: one that erases the free list, one that pops and defers, and one
that still reads the node in question. Two objects and three pointers include
self-assignment, a last reference and a revived counter. Three types of
singletons give a chain of users. Four cached keys overflow a cache of three and
k = 2 leaves room in the history; hash keys of three bits with buckets of one
force cascades of splits; nine keys are the first number that splits an inner
node of a B-tree with t = 2, eight keys reach every case of the red-black
balancing, six keys both kinds of AVL rotation after deletions. Five nodes and
five links are the least for which a wrong order of the queue makes a way of `bfs`
too long. Two calls of one client and one thread of the server are enough for a
reused connection, for a call that waits for another, and for a connection that
is queued while the thread is busy; the pieces of a form are of one, two or five
characters or all there is, so that every boundary is cut everywhere. Two
redirections lead to another path, to it again, and beyond the limit; sizes of
four bits let every wrong sign of a range wrap round. The bounds
`MaxLen`, `MaxPhases`, `MaxContent`, `MaxPayload`, `MaxWrite` and the number of
operations of a scenario are arbitrary numbers in the proofs.

Every property has a mutant: a definition replaced by one with a plausible
defect, kept next to it and marked "A defect", for which TLC must find the
property violated.

## 4. Fairness

Weak fairness of the steps inside an operation: the operating system keeps
running every thread that is not asleep. Owners of a lock and holders of a
permit eventually release it, since the properties are about the primitives and
not about their callers; nobody is forced to call `lock`, `acquire`, `push` or
`pop`. The barrier assumes in addition that its threads keep arriving, without
which no barrier returns. `Semaphore` assumes strong fairness of the
acquisition of the `std::mutex`, so that the violation found there is not due to
starvation. `MVar` assumes weak fairness of every thread that is awake. The
`structures` run checks safety only: `lock_free_stack` is not wait-free, and of the
other parts only HTTP waits, for which `NobodyStuck` states that every thread can go on.
`ThreadPool` assumes that tasks end. `first_n` does not assume
that the input promises are set. `Continuations` assumes that the worker keeps
running and that what it runs ends. Spurious wake-ups, faults of the register and
calls of clients are never fair.

## 5. Proofs

All theorems hold for every value of the constants under the named assumptions
of the modules (finite, non-empty sets of threads, natural bounds,
distinguished values that differ).

| Theorem | States | Argument |
|---|---|---|
| `SynchronizationProofs!MutexSafe` | mutual exclusion, truthful word, no lost futex wake-up | `MutexInv` is inductive: the three properties support each other (`ZeroMeansFree` is what makes a successful compare-and-set exclusive) |
| `SynchronizationProofs!MutexImplementsLock` | refinement of `Exclusion` | the abstract owner changes only in a compare-and-set from 0, in an uncontended `fetch_sub`, and in the store of 0 |
| `SynchronizationProofs!SpinImplementsLock` | refinement of `Exclusion` | the flag is set exactly while somebody is inside, so one exchange at a time finds it clear |
| `SynchronizationProofs!SemaphoreSafe` | types, `PermitsConserved` | needs `MutexOwned`: only the holder of the mutex can decrease the counter between the test and the decrement |
| `SynchronizationProofs!QueueLosesNoWakeup` | `NoLostNotification` | counting: each step moves one thread and at most one element |
| `SynchronizationProofs!MVarLosesNoWakeup` | `SleepersHaveReason` | every change of the storage wakes all whose predicate it makes true, in the critical section that makes it |
| `SynchronizationProofs!BarrierSafe` | types, `CounterExact`, `NobodyPassesEarly` | `BarrierInv`: for some k all threads have called k times, those that wait for the phase k + 1 times; the last arrival finds everybody else waiting |
| `FuturesProofs!SharedStateSafe`, `SharedStateDelivers` | no assertion fails; one call with the result where asked | `Inv`: what each side may find in `state_` at each place |
| `FuturesProofs!SharedStateImplementsOneShot` | refinement of `OneShot` | from the same invariant |
| `FuturesProofs!FirstNDelivers` | `ExactlyMinResults` | `FirstNInv`: the counters count the callbacks past them, so the last of n finds the array full (`FullWhenAnnounced`) and one callback at most collects |
| `FuturesProofs!FirstOfHasOneWinner` | `OneWinner` | `FirstOfInv`: `done_` is set exactly when one callback has won, and it alone has the promise |
| `FuturesProofs!ChainCallsOnce` | `ConsumersCalledOnce`, for chains of any length | `ChainInv`: the calls on the stacks of the threads and the closure in the queue are at neighbouring links, results are a prefix of the chain, and one place at most can go on |
| `ThreadPoolProofs!PoolConservesTasks` | types, `TasksConserved` | `OnePlace`: a submitted task is in one position of the queue, with one worker, or executed |
| `ThreadPoolProofs!PoolRunsTasksOnce` | `TasksRunOnce`, for a pool with at least one worker | `PillsBehind`: tasks submitted before `join` are in front of every pill, and `join` returns when every worker has taken one |
| `RegisterProofs!ConfirmedStaysStored` | `ConfirmedStored`, without faults | an acknowledged write is stored by a majority, and replicas never go back |
| `RegisterProofs!RegisterIsAtomic` | `ReadsAreAtomic`, without faults, for values that grow with their timestamps | `FloorKept`: everything a read must not miss stays visible on a majority, through replicas not heard of or answers received; majorities meet |
| `RegisterProofs!ReplicasDoConverge` | `ReplicasConverge`, without faults | `NoWriteLost`: whatever has been requested is stored by a replica or on its way to it |
| `RegisterProofs!ReplicasGoForward` | `NoRollback`, under every fault | a replica stores only what is newer than what it has |
| `OwnershipProofs!SharedPtrOwnsObjects` | `ObjectsOwned` | `SharedInv`: the count of an object is the number of pointers and unfinished drops that lead to it, and the one who counts down to 0 is alone with it |
| `OwnershipProofs!UniqueLockOwnsMutexes` | `GuardsOwnTheirLocks` | `GuardInv`: a guard that says locked is the owner's, two such guards never have the same mutex |
| `OwnershipProofs!SingletonsOutlive` | `SingletonsOutliveUsers` | `SingletonInv`: the calls of `singleton` on the stacks of the threads are nested and each is in step with the object it asks for; what a constructor got was registered before the object of that constructor, and is destroyed after it |
| `OwnershipProofs!FibersKeepStacks`, `GoWaitsForAll` | `StacksConserved`, `GoRunsEverything` | `FibersInv`: a fiber is queued once, current or finished, and the stacks of the fibers alive, apart from each other and from the pool, are all that were mapped |
| `StructuresProofs!StackNodesOwned`, `StackLifo` | `NodesOwned`, `StackIsLifo`, while no address is allocated twice | `StackInv`: a node is unused, in the stack, in one thread's hands, in the free list or deleted, in this order; whoever deletes was once alone in `pop` when the nodes had left the stack, so nobody who came later has loaded one (`ThreadInStep`, `PairInStep`) |
| `StructuresProofs!FunctionsKeepCallables` | `FunctionsOwnCallables` | `Owned(w, out)`: the functions outside `out` own what their vtables say; every command of the vtable takes such a world to such a world, and the operations are sequences of commands |
| `StructuresProofs!ArrayKeepsElements` | `ArrayOwnsItsElements` | `ArrayInv`: the block is filled to `size()`; whatever an operation frees, also a failed one, is filled exactly as far as it destroys |
| `StructuresProofs!ExpectedKeepsUnion` | `UnionMatchesFlag` | `ExpectedInv`: what is left of a call leads (`Leads`), through states in which every access is proper, to the goal of the call, and may throw only where the objects are as when it began, or into a catch block that unsafe traits alone allow; one lemma per overload shows that a call begins so |
| `HttpProofs!RequestsKeepInStep` | `RequestsInStep`, for any limit on redirections and any handlers | `RequestsInv`: client and servers take turns, so a request with its body is on its way, or the answers to it, or nothing, and only to the host that the client is busy with; a redirection keeps the request or empties it (`Kept`, `Emptied`), and unless the call is one of `LeftUnread`, each branch of the server reads the body that is there (`Unhindered`, `Serves`); `Counting` adds the requests written to the redirections left |
| `HttpProofs!BodiesKeepWhole` | `BodiesArrive`, for contents, writes and a limit of any size | `BodyInv`: all that has been sent is the beginning of one sequence of tokens, of which the reader has taken a part and the next part is on its way (`Stream`). In a chunked body the reader is in front of, inside or behind one of the places where a chunk begins (`Chunks`, `ReaderPlaced`), and each such place is as many bytes into the content as have been received there; the token behind the body is the next message, which no reader takes |
| `HttpExchangesProofs!ExchangesSafe`, `HttpInvariant` | `HttpExchangesSafe`, for any number of clients, calls and threads | `HttpInv`: a connection has one client while that has not closed it (`OwnedInv`) and one place in the server (`QueuesInv`); the head of a request is sent once and read once (`HandledInv`); `ExchangesInv` says how far an exchange is (`Sent`, `Taken`, `Begun`, `Complete`, `Late`), which ties what is under way in both directions to the thread that serves the connection and to the call that holds it |

Some theorems have an assumption of their own. `ValuesFollowTimestamps` of
`RegisterIsAtomic` cannot be dropped: `register_by_value` is the counterexample.
`PoolRunsTasksOnce` needs a worker: `make_static_thread_pool(0)` is legal, and the
`join` of such a pool returns at once with its tasks still queued. The theorems
about the lock-free stack assume that the allocator does not hand out an address
again (`Recycling = FALSE`): `stack_recycling` is the counterexample to `NodesOwned`
without this.
`GuardsOwnTheirLocks`, `StacksConserved`, `FunctionsOwnCallables` and
`ArrayOwnsItsElements` are the four parts of `OwnedAsMeant`, which the run
`structures` checks; each is proved of the specification of its own component.
The lists of the stack have any length, and yet no induction over lists is needed:
`ListNodes` is the least set of nodes closed under the links, and the lemmas about
it (`ListLeast` to `Relinked`) instantiate that set with the one at hand.

Only model-checked:

* all liveness properties (fairness and ENABLED are out of the prover's reach);
* what recursive operators or functions compute (induction over data): the
  sequential components of `MCStructures` (caches, hash tables, trees, sorts, graphs,
  Graphviz) and `MessagesArrive`, that is the text of HTTP in `HttpParsing` and the
  ranges, whose numbers are written and read as text;
* `NobodyStuck`, which is about ENABLED.

## 6. Where code and documentation disagree

* `semaphore.cpp:32`: `release` may increment and notify between the test and the
  wait of an `acquire`; the acquirer then sleeps although a permit is free.
* `static_thread_pool.cpp:35`: a continuation submitted by a running task after
  `join` has pushed its pills is never executed.
* `state-inl.hpp:54`: `done` is stored with relaxed order, so `get` after
  `subscribe` reads the result without being ordered behind its construction.
* `first_n.hpp:59`: if n callbacks have run before the return statement, the
  promise has given its state away and the caller gets a future without one.
* `first_of.hpp:27` has the same order: if a callback has run before the return
  statement, the caller gets a future without a state. `FirstOf` has this
  (`returned = "null"`), and `OneWinner` says that it happens only after a winner; no
  run of its own repeats the finding of `first_n`.
* `lockfree/stack.hpp:77`: `try_to_erase_free_list` reads the head of the free list
  before the count of running pops. If the list is erased, its address allocated,
  pushed, popped and deferred again in between, the compare-and-set succeeds on
  a list never seen, and a node is deleted that a later `pop` is about to read.
* `dijkstra_search.cpp:57`: a node without outgoing edges has no entry in the map of
  distances, which answers 0 for it; the search never goes there and denies that
  there is a way.
* `cluster.cpp:25`: the freshest snapshot is chosen by value, not by timestamp.
* `register_replica_client.cpp:44`: a write that cannot be delivered counts as an
  acknowledgement.

* `expected.hpp:735`: a comment claims the strong exception guarantee for the
  overloads of `assign`. Two things stand against it. The catch blocks assign to a
  member that has been destroyed (`ghosts` in `Functional`; `UnionMatchesFlag` says for
  which traits it cannot happen). And `construct` is `noexcept` (line 716), as two of
  the overloads that the comment covers are, so that a throw inside ends the program
  (`ended`) and the catch blocks around `construct` are never reached. This was found
  in the model and has no run of its own.

A restarted replica loses its register, which is kept in memory although the
README of the example lists restarts; this is in the model as the fault
`restart`, and no property claims atomicity or durability with it: `NoRollback`
excepts the restart itself.

Where a component does not keep a promise, its property is stated up to the place
where the code breaks it, in terms of the state or of a variable that records the
break. Such a property would catch a fault anywhere else, and not the known one;
the notes to the hazards in `PROJECT.json` say which these are.

## 7. Not modelled

`PROJECT.json` lists every component with its status. Left out: the blocking
stack (a `std::stack` under one mutex, without a step of its own), the
registrator (a map of factories under a shared mutex), `memory/not_null` and the
rest of the type machinery of `functional`, the socket loops of the echo examples,
and the assembly of the context switch. The parser of forms is modelled without
its limit of 8192 characters for a header line (`httplib.hpp:4265`). Of `expected`, the specialization for
`void`, the comparisons and the conversions between instances; of `function2`,
copyable functions, views and the generation of overloads.

`httplib.hpp` makes up almost half of the lines of the repository. Lines 9019 to
14309 are a second copy of the file inside `#ifdef CPPHTTPLIB_OPENSSL_SUPPORT`;
neither this macro nor those for zlib and brotli are defined by the build, so
encryption, digests and compression do not exist in the program. `class Client`
(lines 7800 to 9018) forwards every call to `ClientImpl`. What else is left out of
it has no state or is input and output: name resolution and socket options,
proxies and their authentication, the reading of files, tables of types and status
texts, setters. With the tests and benchmarks this is why most of the remaining
lines cannot be covered by a model.

`std::mutex`, `std::condition_variable` and futex are
external and modelled by their contracts, spurious wake-ups included. Of the
memory model only the pairing that the shared state relies on is modelled; all
other atomic accesses of the modelled parts are sequentially consistent or
used under a mutex. In `Register`, HTTP and JSON are
abstracted to requests, answers and failures; HTTP has its own modules. Of `shared_ptr`, pointers stored
inside the objects they lead to are left out; of `mvar`, what a caller does with
the reference that `read_only` returns; of the fibers, the switch itself.
