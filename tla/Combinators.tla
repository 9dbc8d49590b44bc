---------------------------- MODULE Combinators -----------------------------
(***************************************************************************)
(* Combinators of futures: first_n, then first_of.                         *)
(*                                                                         *)
(* dsac::first_n (combine/first_n.hpp): a future of the first n results of *)
(* a list of futures.  The caller subscribes one callback to every future  *)
(* and then takes the future of the combined promise; the callbacks run in *)
(* the threads of an executor, concurrently with each other and with the   *)
(* caller.  Each atomic counter access, each access of the array v and of  *)
(* the promise is one step.                                                *)
(*                                                                         *)
(* promise::set() moves the reference to the shared state out of the       *)
(* promise (hold_state::release_state), promise::make_future() copies it.  *)
(***************************************************************************)
EXTENDS Integers, FiniteSets

CONSTANTS Size,  \* futures.size()
          Min    \* n

ASSUME FirstNAssumption == Size \in Nat /\ Min \in Nat

Futures == 1..Size

VARIABLES caller,      \* where the caller of first_n() stands
          subscribed,  \* the number of futures subscribed to
          ready,       \* the futures whose promises have been set
          callbackPc,  \* where the callback of each future stands
          completed,   \* context::completed
          stored,      \* context::stored
          filled,      \* the indices i for which context::v[i] has a value
          held,        \* context::promise_ still refers to the shared state
          output,      \* the indices of the results in the combined future
          future       \* what first_n() returned: "none", "valid", "null"

firstNVars == <<caller, subscribed, ready, callbackPc, completed, stored, filled, held, output, future>>

NoOutput == {0}  \* no set of indices: the combined future has no result yet

FirstNTypeOK == /\ caller \in {"subscribe", "get", "returned", "failed"}
                /\ subscribed \in 0..Size /\ ready \subseteq Futures
                /\ callbackPc \in [Futures -> {"waiting", "store", "bump", "collect", "ended", "failed"}]
                /\ completed \in 0..Size /\ stored \in 0..Size /\ filled \subseteq Futures
                /\ held \in BOOLEAN /\ output \in (SUBSET Futures) \cup {NoOutput}
                /\ future \in {"none", "valid", "null"}

\* With fewer futures than n the caller gets a future that holds an error.
FirstNInit == /\ caller = IF Size < Min THEN "returned" ELSE "subscribe"
              /\ subscribed = 0 /\ ready = {}
              /\ callbackPc = [i \in Futures |-> "waiting"]
              /\ completed = 0 /\ stored = 0 /\ filled = {}
              /\ held = TRUE /\ output = NoOutput /\ future = "none"

FirstNGoto(i, from, to) == callbackPc[i] = from /\ callbackPc' = [callbackPc EXCEPT ![i] = to]

-----------------------------------------------------------------------------
\* A promise of the input is set, at any time.
Complete(i) ==
    /\ i \notin ready
    /\ ready' = ready \cup {i}
    /\ UNCHANGED <<caller, subscribed, callbackPc, completed, stored, filled, held, output, future>>

\* The loop of the caller: subscribe to the next future.
Subscribe ==
    /\ caller = "subscribe"
    /\ subscribed < Size
    /\ subscribed' = subscribed + 1
    /\ UNCHANGED <<caller, ready, callbackPc, completed, stored, filled, held, output, future>>

\* return ctx->promise_.make_future(): copies what the promise refers to.
MakeFuture ==
    /\ caller = "subscribe" /\ subscribed = Size
    /\ caller' = "get"
    /\ future' = IF held THEN "valid" ELSE "null"
    /\ UNCHANGED <<subscribed, ready, callbackPc, completed, stored, filled, held, output>>

\* The caller calls get(): release_state() asserts that there is a state,
\* then get_result() spins until the result is there.
GetCombined ==
    /\ caller = "get"
    /\ future = "valid" => output # NoOutput
    /\ caller' = IF future = "null" THEN "failed" ELSE "returned"
    /\ UNCHANGED <<subscribed, ready, callbackPc, completed, stored, filled, held, output, future>>

\* get_result(): the loop goes round while the result is not there.
SpinInGet ==
    caller = "get" /\ future = "valid" /\ output = NoOutput /\ UNCHANGED firstNVars

\* A defect: min - 1 callbacks may store.
CountOneLess(i) ==
    /\ i \in ready /\ i <= subscribed
    /\ completed' = completed + 1
    /\ FirstNGoto(i, "waiting", IF completed' >= Min THEN "ended" ELSE "store")
    /\ UNCHANGED <<caller, subscribed, ready, stored, filled, held, output, future>>

\* The callback of future i runs: 1 + completed.fetch_add(1), and nothing
\* more if enough callbacks came before.
Count(i) ==
    /\ i \in ready /\ i <= subscribed
    /\ completed' = completed + 1
    /\ FirstNGoto(i, "waiting", IF completed' > Min THEN "ended" ELSE "store")
    /\ UNCHANGED <<caller, subscribed, ready, stored, filled, held, output, future>>

\* v[i] = std::move(result_data).
StoreResult(i) ==
    /\ FirstNGoto(i, "store", "bump")
    /\ filled' = filled \cup {i}
    /\ UNCHANGED <<caller, subscribed, ready, completed, stored, held, output, future>>

\* A defect: the counter of the completed callbacks stands in for stored.
BumpCompleted(i) ==
    /\ stored' = stored + 1
    /\ FirstNGoto(i, "bump", IF completed < Min THEN "ended" ELSE "collect")
    /\ UNCHANGED <<caller, subscribed, ready, completed, filled, held, output, future>>

\* 1 + stored.fetch_add(1): the last of the first n goes on.
Bump(i) ==
    /\ stored' = stored + 1
    /\ FirstNGoto(i, "bump", IF stored' < Min THEN "ended" ELSE "collect")
    /\ UNCHANGED <<caller, subscribed, ready, completed, filled, held, output, future>>

\* Collect the entries of v that have a value, and promise_.set(): asserts
\* that the promise still refers to the state, and moves it out.
Collect(i) ==
    /\ FirstNGoto(i, "collect", IF held THEN "ended" ELSE "failed")
    /\ output' = IF held THEN filled ELSE output
    /\ held' = FALSE
    /\ UNCHANGED <<caller, subscribed, ready, completed, stored, filled, future>>

Callback(i) == Count(i) \/ StoreResult(i) \/ Bump(i) \/ Collect(i)

FirstNDone == caller \in {"returned", "failed"} /\ ready = Futures /\ UNCHANGED firstNVars

FirstNNext == \/ Subscribe \/ MakeFuture \/ GetCombined \/ SpinInGet \/ FirstNDone
              \/ \E i \in Futures : Complete(i) \/ Callback(i)

FirstNSpec == FirstNInit /\ [][FirstNNext]_firstNVars

\* The caller and the threads of the executor keep running.  The promises of
\* the input need not be set.
FirstNFairness ==
    /\ WF_firstNVars(Subscribe) /\ WF_firstNVars(MakeFuture) /\ WF_firstNVars(GetCombined)
    /\ \A i \in Futures : WF_firstNVars(Callback(i))

-----------------------------------------------------------------------------
\* While one callback reads the array v no other callback writes an entry of
\* it, although v itself is not atomic: the entries are counted in stored
\* after they are written, and nobody past the n-th writes any.
NobodyWritesWhileCollecting ==
    \A i, j \in Futures :
        (callbackPc[i] = "collect" /\ i # j) => callbackPc[j] \notin {"store", "collect"}

\* The promise is set at most once (no callback fails the assertion of
\* release_state()) and then with exactly n results: "REQUIRE(sequence.size()
\* == kQuorum)" (test_combine.cpp:65).  Nobody writes while they are collected.
ExactlyMinResults ==
    /\ NobodyWritesWhileCollecting
    /\ \A i \in Futures : callbackPc[i] # "failed"
    /\ output # NoOutput => Cardinality(output) = Min /\ output \subseteq ready

\* Once n futures are ready the combined future gets its result, whichever
\* of them they are and however many others never complete.
QuorumSuffices ==
    (Min > 0 /\ Size >= Min /\ Cardinality(ready) >= Min) ~> (output # NoOutput)

\* first_n() returns a future that refers to a shared state, as the assertion
\* of hold_state::release_state (state-inl.hpp:114) requires when the caller
\* uses it.
ReturnsValidFuture == caller # "failed"

-----------------------------------------------------------------------------
(* dsac::first_of (combine/first_of.hpp): a future of the first result of a *)
(* list of futures.  The callbacks run in the threads of an executor, at    *)
(* the same time as each other and as the caller that subscribes them.      *)

CONSTANT Racers   \* futures.size()

ASSUME RacersAssumption == Racers \in Nat

VARIABLES asked,      \* the number of futures subscribed to; Racers + 1 at the return
          arrived,    \* the futures whose promises have been set
          racerPc,    \* where the callback of each future stands
          taken,      \* context::done_
          promiseOf,  \* context::promise_ refers to the shared state
          winner,     \* the future whose result the state has, 0 for none
          returned    \* what first_of() returned: "none", "valid", "null"

firstOfVars == <<asked, arrived, racerPc, taken, promiseOf, winner, returned>>

FirstOfInit == /\ asked = 0 /\ arrived = {} /\ racerPc = [i \in 1 .. Racers |-> "waiting"]
               /\ taken = FALSE /\ promiseOf = TRUE /\ winner = 0 /\ returned = "none"

\* A promise of the input is set, at any time.
Arrive(i) == /\ i \notin arrived /\ arrived' = arrived \cup {i}
             /\ UNCHANGED <<asked, racerPc, taken, promiseOf, winner, returned>>

Ask == /\ asked < Racers /\ asked' = asked + 1
       /\ UNCHANGED <<arrived, racerPc, taken, promiseOf, winner, returned>>

\* return ctx->promise_.make_future().
ReturnFuture ==
    /\ asked = Racers /\ asked' = Racers + 1
    /\ returned' = IF promiseOf THEN "valid" ELSE "null"
    /\ UNCHANGED <<arrived, racerPc, taken, promiseOf, winner>>

\* A defect: done_ is read, and written only when the promise is set.
ExchangeDoneLate(i) ==
    /\ i \in arrived /\ i <= asked /\ racerPc[i] = "waiting"
    /\ racerPc' = [racerPc EXCEPT ![i] = IF taken THEN "ended" ELSE "set"]
    /\ taken' = (racerPc[i] = "set" \/ taken)
    /\ UNCHANGED <<asked, arrived, promiseOf, winner, returned>>

\* The callback: done_.exchange(true).
ExchangeDone(i) ==
    /\ i \in arrived /\ i <= asked /\ racerPc[i] = "waiting"
    /\ racerPc' = [racerPc EXCEPT ![i] = IF taken THEN "ended" ELSE "set"]
    /\ taken' = TRUE
    /\ UNCHANGED <<asked, arrived, promiseOf, winner, returned>>

\* promise_.set(), which asserts that the promise refers to a state.
SetWinner(i) ==
    /\ racerPc[i] = "set"
    /\ racerPc' = [racerPc EXCEPT ![i] = IF promiseOf THEN "ended" ELSE "failed"]
    /\ winner' = IF promiseOf THEN i ELSE winner
    /\ promiseOf' = FALSE
    /\ UNCHANGED <<asked, arrived, taken, returned>>

FirstOfDone == asked > Racers /\ arrived = 1 .. Racers /\ UNCHANGED firstOfVars

FirstOfNext == \/ Ask \/ ReturnFuture \/ FirstOfDone
               \/ \E i \in 1 .. Racers : Arrive(i) \/ ExchangeDone(i) \/ SetWinner(i)

FirstOfSpec == FirstOfInit /\ [][FirstOfNext]_firstOfVars

\* The promise is set once, by one of the callbacks that race for done_, with
\* the result of a future that is ready, and not before.  The future that
\* first_of() returns refers to a state unless a callback has set the promise
\* before the return statement, which the code does not prevent.
OneWinner ==
    /\ \A i \in 1 .. Racers : racerPc[i] # "failed"
    /\ Cardinality({i \in 1 .. Racers : racerPc[i] = "set"}) + (IF winner = 0 THEN 0 ELSE 1) <= 1
    /\ winner # 0 => winner \in arrived /\ taken
    /\ taken => winner # 0 \/ \E i \in 1 .. Racers : racerPc[i] = "set"
    /\ returned = "null" => winner # 0

=============================================================================
