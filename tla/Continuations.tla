---- MODULE Continuations ----
(* async_via(), future::then(), subscribe() and the coroutines: a chain in  *)
(* which consumer s reads the shared state s - 1 and, unless it is a plain  *)
(* callback, sets the state s.  State 0 belongs to the routine that         *)
(* async_via() submits, and has the executor; the states behind it have     *)
(* none, so that set() runs the next consumer inside the one that sets it.  *)
(* A shared state is used as OneShot says: result and callback meet at one  *)
(* moment.                                                                  *)
EXTENDS Integers, Sequences

CONSTANT Stages   \* bound: consumers in the chain

ASSUME StagesAssumption == Stages \in Nat

ChainThreads == {"caller", "worker"}

VARIABLES kinds,     \* the consumers attached so far: "then", "coroutine", "callback"
          inCall,    \* the caller has yet to return from the last subscribe()
          closures,  \* what the executor has to run: consumers, 0 for the routine
          frames,    \* the calls under way in each thread, the innermost last
          results,   \* results[s + 1]: "none", "value" or "error" in state s
          holds,     \* holds[s + 1]: the promise of state s refers to its state
          entered,   \* how often consumer s has been called
          alive,     \* the coroutines whose frame exists
          strayed,   \* a coroutine frame has been used after its end
          threw,     \* a plain callback has thrown
          ended      \* "no", "abort" (an assertion failed) or "terminate"

chainVars == <<kinds, inCall, closures, frames, results, holds, entered, alive, strayed, threw, ended>>

\* async_via() has made its promise and taken the future.
ChainInit == /\ kinds = <<>> /\ inCall = FALSE /\ closures = <<0>>
             /\ frames = [t \in ChainThreads |-> <<>>]
             /\ results = [i \in 1 .. Stages + 1 |-> "none"]
             /\ holds = [i \in 1 .. Stages + 1 |-> TRUE]
             /\ entered = [s \in 1 .. Stages |-> 0]
             /\ alive = {} /\ strayed = FALSE /\ threw = FALSE /\ ended = "no"

IsCoroutine(s) == s > 0 /\ kinds[s] = "coroutine"
IsCallback(s) == s > 0 /\ kinds[s] = "callback"

\* A consumer is called.  The closure of future_awaiter writes result_ in
\* the frame of its coroutine and resumes it.
Enter(s) == /\ entered' = IF s = 0 THEN entered ELSE [entered EXCEPT ![s] = @ + 1]
            /\ strayed' = (strayed \/ (IsCoroutine(s) /\ s \notin alive))

-----------------------------------------------------------------------------
\* then(), co_await in a new coroutine, or subscribe(), by the caller.  When
\* the result is there already the consumer runs in the caller, or is
\* submitted to the executor of state 0.
AttachConsumer(kind) ==
    LET s == Len(kinds) + 1 IN
    /\ ended = "no" /\ ~inCall /\ frames["caller"] = <<>> /\ s <= Stages
    /\ \A i \in DOMAIN kinds : kinds[i] # "callback"
    /\ kinds' = Append(kinds, kind) /\ inCall' = TRUE
    /\ alive' = IF kind = "coroutine" THEN alive \cup {s} ELSE alive
    /\ IF results[s] # "none" /\ s > 1
       THEN /\ frames' = [frames EXCEPT !["caller"] = <<s>>]
            /\ entered' = [entered EXCEPT ![s] = @ + 1]
       ELSE UNCHANGED <<frames, entered>>
    /\ closures' = IF results[s] # "none" /\ s = 1 THEN Append(closures, s) ELSE closures
    /\ UNCHANGED <<results, holds, strayed, threw, ended>>

\* A defect: await_suspend() uses the awaiter once more.
AttachReturnsTouching ==
    /\ inCall /\ frames["caller"] = <<>> /\ ended = "no"
    /\ inCall' = FALSE
    /\ strayed' = (strayed \/ (IsCoroutine(Len(kinds)) /\ Len(kinds) \notin alive))
    /\ UNCHANGED <<kinds, closures, frames, results, holds, entered, alive, threw, ended>>

\* The call returns.  Meanwhile the consumer may have come to its end in the
\* worker; subscribe() works on the state it has moved out of the future.
AttachReturns ==
    /\ inCall /\ frames["caller"] = <<>> /\ ended = "no"
    /\ inCall' = FALSE
    /\ UNCHANGED <<kinds, closures, frames, results, holds, entered, alive, strayed, threw, ended>>

\* The executor runs a closure.
RunClosure ==
    /\ ended = "no" /\ closures # <<>> /\ frames["worker"] = <<>>
    /\ frames' = [frames EXCEPT !["worker"] = <<Head(closures)>>]
    /\ closures' = Tail(closures)
    /\ Enter(Head(closures))
    /\ UNCHANGED <<kinds, inCall, results, holds, alive, threw, ended>>

\* All the calls under way in a thread return, coroutines to their end.
Unwound(t) == /\ frames' = [frames EXCEPT ![t] = <<>>]
              /\ alive' = alive \ {frames[t][i] : i \in DOMAIN frames[t]}

\* A defect: the consumer that subscribed before is not called.
PromiseSetQuietly(t, s, outcome) ==
    /\ results' = [results EXCEPT ![s + 1] = outcome]
    /\ holds' = [holds EXCEPT ![s + 1] = FALSE]
    /\ Unwound(t)
    /\ UNCHANGED <<closures, entered, strayed, ended>>

\* promise::set() of state s: the promise gives its state up, the state its
\* result to the consumer, if there is one.
PromiseSet(t, s, outcome) ==
    /\ results' = [results EXCEPT ![s + 1] = outcome]
    /\ holds' = [holds EXCEPT ![s + 1] = FALSE]
    /\ IF s = Len(kinds) THEN Unwound(t) /\ UNCHANGED <<closures, entered, strayed>>
       ELSE IF s = 0 THEN Unwound(t) /\ closures' = Append(closures, 1) /\ UNCHANGED <<entered, strayed>>
       ELSE /\ frames' = [frames EXCEPT ![t] = Append(@, s + 1)]
            /\ Enter(s + 1)
            /\ UNCHANGED <<closures, alive>>
    /\ UNCHANGED ended

Innermost(t) == frames[t][Len(frames[t])]

\* The routine, the continuation or the body of the coroutine returns or
\* throws: the promise is set to its value or to the exception.
Resolve(t, outcome) ==
    /\ ended = "no" /\ frames[t] # <<>> /\ ~IsCallback(Innermost(t))
    /\ PromiseSet(t, Innermost(t), outcome)
    /\ UNCHANGED <<kinds, inCall, threw>>

CallbackReturns(t) ==
    /\ ended = "no" /\ frames[t] # <<>> /\ IsCallback(Innermost(t))
    /\ Unwound(t)
    /\ UNCHANGED <<kinds, inCall, closures, results, holds, entered, strayed, threw, ended>>

\* A plain callback throws.  Out of set() the exception reaches the catch
\* block of then() or unhandled_exception(), which sets the promise again:
\* the assertion of release_state() fails.  Out of a task of the executor it
\* terminates the program; out of subscribe() it is the caller's.
CallbackThrows(t) ==
    /\ ended = "no" /\ frames[t] # <<>> /\ IsCallback(Innermost(t))
    /\ threw' = TRUE
    /\ ended' = CASE Len(frames[t]) > 1 -> IF holds[Innermost(t)] THEN "no" ELSE "abort"
                  [] t = "worker"       -> "terminate"
                  [] OTHER              -> "no"
    /\ Unwound(t)
    /\ UNCHANGED <<kinds, inCall, closures, results, holds, entered, strayed>>

ThreadStep(t) == (\E outcome \in {"value", "error"} : Resolve(t, outcome))
                 \/ CallbackReturns(t) \/ CallbackThrows(t)

\* The chain is complete or given up.
ChainEnds == /\ frames = [t \in ChainThreads |-> <<>>] /\ closures = <<>> /\ ~inCall
             /\ UNCHANGED chainVars

ChainAborted == ended # "no" /\ UNCHANGED chainVars

ChainNext ==
    \/ \E kind \in {"then", "coroutine", "callback"} : AttachConsumer(kind)
    \/ AttachReturns \/ RunClosure \/ ChainEnds \/ ChainAborted
    \/ \E t \in ChainThreads : ThreadStep(t)

ChainSpec == ChainInit /\ [][ChainNext]_chainVars

\* The worker keeps running, and what it runs comes to an end.
ChainFairness == WF_chainVars(RunClosure) /\ \A t \in ChainThreads : WF_chainVars(ThreadStep(t))

-----------------------------------------------------------------------------
\* However the caller races with the worker, every consumer is called at most
\* once and after its state has a result, no promise is set twice, a
\* coroutine frame lives until its promise is set and is not used afterwards,
\* and the program is aborted only by a plain callback that throws (then(),
\* async_via(), future_awaiter, coroutine_promise).
ConsumersCalledOnce ==
    /\ \A s \in 1 .. Stages : entered[s] <= 1 /\ (entered[s] = 1 => results[s] # "none")
    /\ \A i \in 1 .. Stages + 1 : holds[i] <=> results[i] = "none"
    /\ \A s \in DOMAIN kinds : IsCoroutine(s) => (s \in alive \/ results[s + 1] # "none")
    /\ ~strayed
    /\ ended # "no" => threw

\* Every consumer of the chain is called in the end: the result of the
\* routine, or its exception, travels through all of them.
ChainCompletes == \A s \in 1 .. Stages : (Len(kinds) >= s) ~> (entered[s] = 1 \/ ended # "no")

====
