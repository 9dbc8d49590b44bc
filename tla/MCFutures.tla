------------------------------ MODULE MCFutures -----------------------------
(***************************************************************************)
(* TLC instance of the parts that carry a result from a task to those who  *)
(* wait for it: the shared state of a future, first_n and first_of over    *)
(* several, chains of continuations and coroutines, and the thread pool    *)
(* below them, one of whose tasks submits a continuation.  They share no   *)
(* state here: a behaviour exercises the part named by chosen and leaves   *)
(* the others alone.                                                       *)
(***************************************************************************)
EXTENDS SharedState, Combinators, Continuations, ThreadPool, TLC

CONSTANTS a, b, c   \* tasks

MCChild == (a :> {c}) @@ (b :> {}) @@ (c :> {})

VARIABLE chosen  \* the part that this behaviour exercises

Exercise(part, step, others) == chosen = part /\ step /\ UNCHANGED <<chosen, others>>

FuturesInit ==
    /\ Init /\ FirstNInit /\ FirstOfInit /\ ChainInit /\ PoolInit
    /\ chosen \in {"shared_state", "first_n", "first_of", "chain", "pool"}

FuturesNext ==
    \/ Exercise("shared_state", Next, <<firstNVars, firstOfVars, chainVars, poolVars>>)
    \/ Exercise("first_n", FirstNNext, <<vars, firstOfVars, chainVars, poolVars>>)
    \/ Exercise("first_of", FirstOfNext, <<vars, firstNVars, chainVars, poolVars>>)
    \/ Exercise("chain", ChainNext, <<vars, firstNVars, firstOfVars, poolVars>>)
    \/ Exercise("pool", PoolNext, <<vars, firstNVars, firstOfVars, chainVars>>)

\* Each under the fairness of its module.  The threads of the pool, of the
\* chain and the caller of first_n() are there only when they are exercised;
\* the fair actions of the shared state are disabled before somebody calls
\* an operation.
FuturesSpec ==
    /\ FuturesInit
    /\ [][FuturesNext]_<<chosen, vars, firstNVars, firstOfVars, chainVars, poolVars>>
    /\ Fairness
    /\ chosen = "first_n" => FirstNFairness
    /\ chosen = "chain" => ChainFairness
    /\ chosen = "pool" => PoolFairness

=============================================================================
