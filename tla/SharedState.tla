---------------------------- MODULE SharedState -----------------------------
(***************************************************************************)
(* dsac::shared_state (state.hpp, state-inl.hpp), the meeting point of a   *)
(* promise and a future.  The producer calls set_result() once, through    *)
(* promise::set(), which gives its reference up.  The consumer may call    *)
(* via(), subscribe() and get() of the future, in this order, each at most *)
(* once and none of them necessarily.                                      *)
(*                                                                         *)
(* Every access of the atomic state_ is one step; set_result() and         *)
(* set_callback() are the same algorithm seen from the two sides.  A       *)
(* thread that fails an assertion or throws                                *)
(* shared_state_unexpected_state goes to "failed".                         *)
(***************************************************************************)
EXTENDS Integers, Sequences

CONSTANTS Values,   \* the results a promise may be set to
          NoValue   \* what an optional holds before it is set

ASSUME SharedStateAssumption == NoValue \notin Values

Actors == {"producer", "consumer"}

VARIABLES state,    \* state_
          result,   \* result_
          callback, \* callback_: TRUE once emplaced
          executor, \* executor_: TRUE once set
          pc,       \* where the producer and the consumer stand
          acquired, \* TRUE once the consumer has read, with acquire order,
                    \*   a state_ that the producer wrote with release order
          pool,     \* the results in the closures submitted to the executor
          calls,    \* the calls of the callback: by whom, with which result
          got       \* what get() returned

vars == <<state, result, callback, executor, pc, acquired, pool, calls, got>>

States == {"start", "only_result", "only_callback", "done"}
PCs == {"idle", "load", "cas", "store", "do", "returned", "got", "failed"}

TypeOK == /\ state \in States
          /\ result \in Values \cup {NoValue}
          /\ callback \in BOOLEAN /\ executor \in BOOLEAN /\ acquired \in BOOLEAN
          /\ pc \in [Actors -> PCs]
          /\ pool \in Seq(Values \cup {NoValue})
          /\ calls \in Seq([by : Actors \cup {"pool"}, value : Values \cup {NoValue}])
          /\ got \in Values \cup {NoValue}

Init == /\ state = "start" /\ result = NoValue
        /\ callback = FALSE /\ executor = FALSE
        /\ pc = [a \in Actors |-> "idle"] /\ acquired = FALSE
        /\ pool = <<>> /\ calls = <<>> /\ got = NoValue

\* What an actor leaves in state_ when it comes first.
Own(a) == IF a = "producer" THEN "only_result" ELSE "only_callback"
Peer(a) == IF a = "producer" THEN "only_callback" ELSE "only_result"

Goto(a, from, to) == pc[a] = from /\ pc' = [pc EXCEPT ![a] = to]

\* The consumer reads state_ with memory_order_acquire.  The producer writes
\* only_result with release order, done with relaxed order.
Acquire(a) == acquired' = (acquired \/ (a = "consumer" /\ state = "only_result"))

-----------------------------------------------------------------------------
\* set_result(): assert(!has_result()), result_.emplace.
SetResult(v) ==
    /\ Goto("producer", "idle", IF state \in {"only_result", "done"} THEN "failed" ELSE "load")
    /\ result' = v
    /\ UNCHANGED <<state, callback, executor, acquired, pool, calls, got>>

\* future::via(): set_executor, before subscribe().
Via ==
    /\ pc["consumer"] = "idle" /\ ~executor
    /\ executor' = TRUE
    /\ UNCHANGED <<state, result, callback, pc, acquired, pool, calls, got>>

\* set_callback(): assert(!has_callback()), callback_.emplace.
SetCallback ==
    /\ Goto("consumer", "idle", IF state \in {"only_callback", "done"} THEN "failed" ELSE "load")
    /\ callback' = TRUE
    /\ Acquire("consumer")
    /\ UNCHANGED <<state, result, executor, pool, calls, got>>

\* The load of state_: start, or the peer has come first.
Load(a) ==
    /\ Goto(a, "load", CASE state = "start" -> "cas"
                         [] state = Peer(a) -> "store"
                         [] OTHER           -> "failed")
    /\ Acquire(a)
    /\ UNCHANGED <<state, result, callback, executor, pool, calls, got>>

\* A defect: a failed compare-exchange is taken for success.
CasBlind(a) ==
    /\ Goto(a, "cas", "returned")
    /\ state' = IF state = "start" THEN Own(a) ELSE state
    /\ Acquire(a)
    /\ UNCHANGED <<result, callback, executor, pool, calls, got>>

\* A defect: an unconditional store for the compare-exchange.
CasStore(a) ==
    /\ Goto(a, "cas", IF state \in {"start", Peer(a)} THEN "store" ELSE "failed")
    /\ state' = Own(a)
    /\ Acquire(a)
    /\ UNCHANGED <<result, callback, executor, pool, calls, got>>

\* The compare-exchange of start for the actor's own mark; when it fails the
\* peer has come in between.
Cas(a) ==
    /\ Goto(a, "cas", CASE state = "start" -> "returned"
                        [] state = Peer(a) -> "store"
                        [] OTHER           -> "failed")
    /\ state' = IF state = "start" THEN Own(a) ELSE state
    /\ Acquire(a)
    /\ UNCHANGED <<result, callback, executor, pool, calls, got>>

\* state_.store(done): the actor came second and has to run the callback.
Store(a) ==
    /\ Goto(a, "store", "do")
    /\ state' = "done"
    /\ UNCHANGED <<result, callback, executor, acquired, pool, calls, got>>

\* A defect: the callback is run in place and submitted as well.
DoCallbackTwice(a) ==
    /\ Goto(a, "do", IF state = "done" THEN "returned" ELSE "failed")
    /\ pool' = IF executor THEN Append(pool, result) ELSE pool
    /\ calls' = Append(calls, [by |-> a, value |-> result])
    /\ UNCHANGED <<state, result, callback, executor, acquired, got>>

\* do_callback(): assert(state_ == done), then submit the callback with a
\* copy of the result to the executor, or call it in place.
DoCallback(a) ==
    /\ Goto(a, "do", IF state = "done" THEN "returned" ELSE "failed")
    /\ IF executor
       THEN pool' = Append(pool, result) /\ UNCHANGED calls
       ELSE calls' = Append(calls, [by |-> a, value |-> result]) /\ UNCHANGED pool
    /\ UNCHANGED <<state, result, callback, executor, acquired, got>>

\* The executor runs a submitted closure: (*callback)(data).
PoolRun ==
    /\ pool # <<>>
    /\ calls' = Append(calls, [by |-> "pool", value |-> Head(pool)])
    /\ pool' = Tail(pool)
    /\ UNCHANGED <<state, result, callback, executor, pc, acquired, got>>

\* get_result(): spin until has_result(), then read *result_.  The read is
\* ordered behind the producer's write of result_ only if the value of state_
\* that ended the spin, or an earlier one, was a release; else it is a data
\* race and may see the optional as it was.
Get ==
    /\ pc["consumer"] \in {"idle", "returned"}
    /\ state \in {"only_result", "done"}
    /\ pc' = [pc EXCEPT !["consumer"] = "got"]
    /\ Acquire("consumer")
    /\ got' \in IF acquired' THEN {result} ELSE {result, NoValue}
    /\ UNCHANGED <<state, result, callback, executor, pool, calls>>

Step(a) == Load(a) \/ Cas(a) \/ Store(a) \/ DoCallback(a)

\* Neither side is forced to do anything more.
Done == /\ pc["producer"] = "returned" /\ pc["consumer"] \in {"idle", "returned", "got"}
        /\ UNCHANGED vars

Next == \/ \E v \in Values : SetResult(v)
        \/ Via \/ SetCallback \/ Get \/ PoolRun \/ Done
        \/ \E a \in Actors : Step(a)

Spec == Init /\ [][Next]_vars

\* A thread inside set_result(), set_callback() or get() keeps running, and
\* the executor runs what was submitted to it.
Fairness == WF_vars(PoolRun) /\ \A a \in Actors : WF_vars(Step(a))

-----------------------------------------------------------------------------
\* The assertions of set_result(), set_callback() and do_callback() hold and
\* shared_state_unexpected_state is never thrown, however the two sides race
\* between the load of state_ and the compare-exchange.
NobodyFails == \A a \in Actors : pc[a] # "failed"

\* The callback is called at most once, by the side that comes second or by
\* the executor, and always with the result that the promise was set to.
CalledOnceWithResult ==
    /\ Len(pool) + Len(calls) <= 1
    /\ \A i \in DOMAIN calls : calls[i].value = result /\ result # NoValue

\* A callback is called by the executor if and only if via() named one before
\* the subscription, never in the thread that happens to come second.
CalledWhereAsked == \A i \in DOMAIN calls : (calls[i].by = "pool") <=> executor

\* The inductive invariant.  Whoever is past the point of no return finds the
\* state that its peer left; the callback is called by one side only.
Entered(a) == pc[a] \in {"load", "cas"}
Fired == pool # <<>> \/ calls # <<>>

Sides ==
    /\ \A a \in Actors : Entered(a) => state \in {"start", Peer(a)}
    /\ \A a \in Actors : pc[a] = "store" => state = Peer(a)
    /\ \A a \in Actors : pc[a] = "do" => state = "done" /\ ~Fired
    /\ \A a \in Actors : state = Own(a) => pc[a] \in {"returned", "got"}
    /\ state = "done" => \A a \in Actors : pc[a] \in {"do", "returned", "got"}
    /\ state = "done" => ~(pc["producer"] = "do" /\ pc["consumer"] = "do")
    /\ pc["producer"] = "idle" => state \in {"start", "only_callback"}
    /\ pc["producer"] # "got"
    /\ pc["consumer"] = "idle" => state \in {"start", "only_result"}

Inv == /\ TypeOK /\ NobodyFails /\ Sides /\ CalledOnceWithResult /\ CalledWhereAsked
       /\ result = NoValue <=> pc["producer"] = "idle"
       /\ Fired => state = "done"
       /\ pool # <<>> => executor
       /\ \A i \in DOMAIN pool : pool[i] = result

\* The contract that state.hpp gives a promise and a subscriber.
O == INSTANCE OneShot WITH hasResult   <- state \in {"only_result", "done"},
                           hasCallback <- state \in {"only_callback", "done"},
                           called      <- calls # <<>>

\* shared_state implements it.
ImplementsOneShot == O!OneShotSpec

\* get() without a subscription returns what the promise was set to.
PlainGetReturnsResult == (pc["consumer"] = "got" /\ ~callback) => got = result

\* However the two sides race, the result is delivered once, in the thread
\* asked for with via(), and to a get() without a subscription
\* (set_result, set_callback, do_callback, get_result).
DeliveredAsAsked == CalledOnceWithResult /\ CalledWhereAsked /\ PlainGetReturnsResult

\* get() returns what the promise was set to, after a subscription too: "Get
\* the result obtained through the object dsac::promise" (future.hpp:57).
GetReturnsResult == pc["consumer"] = "got" => got = result

\* Once both sides are there the callback is called.
CallbackIsCalled == (result # NoValue /\ callback) ~> (calls # <<>>)

=============================================================================
