--------------------------- MODULE FuturesProofs ----------------------------
(***************************************************************************)
(* Safety of futures for any values, any number of futures and chains of   *)
(* any length.  The shared state: however set_result() and set_callback()  *)
(* race, nobody fails, and the callback is called once, with the result,   *)
(* where it was asked for.  The combinators first_n() and first_of(): the  *)
(* callbacks that run at the same time set the combined promise once, with *)
(* what it is meant to have.  Continuations: every consumer is called once.*)
(***************************************************************************)
EXTENDS SharedState, Combinators, Continuations, FiniteSetTheorems, SequenceTheorems, TLAPS

(***************************************************************************)
(* The shared state.  The inductive invariant is Inv /\ GetInv.            *)
(***************************************************************************)

\* Initially neither side has begun.
LEMMA InitInv == Init => Inv
<1> SUFFICES ASSUME Init PROVE Inv
    OBVIOUS
<1>1. TypeOK
    <2>1. \A S : <<>> \in Seq(S)
        BY EmptySeq
    <2> QED
        BY <2>1 DEF Init, TypeOK, States, PCs
<1>2. NobodyFails /\ Sides
    BY DEF Init, NobodyFails, Sides, Entered, Fired, Own, Peer, Actors
<1>3. CalledOnceWithResult /\ CalledWhereAsked
    BY DEF Init, CalledOnceWithResult, CalledWhereAsked
<1> QED
    BY <1>1, <1>2, <1>3 DEF Init, Inv, Fired, Actors

\* A step that leaves the executor's queue and the calls alone.
LEMMA Quiet ==
  ASSUME Inv, UNCHANGED <<pool, calls, executor>>, result' = result \/ ~Fired
  PROVE  CalledOnceWithResult' /\ CalledWhereAsked'
         /\ (pool # <<>> => executor)' /\ (\A i \in DOMAIN pool : pool[i] = result)'
         /\ Fired' = Fired
<1>1. CASE result' = result
    BY <1>1 DEF Inv, CalledOnceWithResult, CalledWhereAsked, Fired
<1>2. CASE ~Fired
    <2>1. pool = <<>> /\ calls = <<>>
        BY <1>2 DEF Fired
    <2> QED
        BY <2>1 DEF CalledOnceWithResult, CalledWhereAsked, Fired
<1> QED
    BY <1>1, <1>2

\* Every step before the callback is run: only state_, pc and the optionals
\* change.
LEMMA RaceStep ==
  ASSUME Inv,
         \/ \E v \in Values : SetResult(v)
         \/ SetCallback \/ Get
         \/ \E a \in Actors : Load(a) \/ Cas(a) \/ Store(a)
  PROVE  Inv'
<1>0. Fired => pc["producer"] # "idle"
    BY DEF Inv, Sides
<1> USE SharedStateAssumption
    DEF Inv, TypeOK, States, PCs, Actors, NobodyFails, Sides, Entered, Own, Peer, Goto, Acquire
<1>1. ASSUME NEW v \in Values, SetResult(v) PROVE Inv'
    BY <1>0, <1>1, Quiet DEF SetResult
<1>2. CASE SetCallback
    BY <1>2, Quiet DEF SetCallback
<1>3. CASE Get
    BY <1>3, Quiet DEF Get
<1>4. ASSUME NEW a \in Actors, Load(a) PROVE Inv'
    BY <1>4, Quiet DEF Load
<1>5. ASSUME NEW a \in Actors, Cas(a) PROVE Inv'
    BY <1>5, Quiet DEF Cas
<1>6. ASSUME NEW a \in Actors, Store(a) PROVE Inv'
    BY <1>6, Quiet DEF Store
<1> QED
    BY <1>1, <1>2, <1>3, <1>4, <1>5, <1>6

\* The side that comes second submits the callback or calls it, once.
LEMMA CallStep ==
  ASSUME Inv, NEW a \in Actors, DoCallback(a)
  PROVE  Inv'
<1>0. pool = <<>> /\ calls = <<>> /\ state = "done" /\ pc[a] = "do" /\ result \in Values
    BY DEF DoCallback, Goto, Inv, TypeOK, Sides, Fired, Actors
<1>1. pc' = [pc EXCEPT ![a] = "returned"]
    BY <1>0 DEF DoCallback, Goto
<1>2. TypeOK' /\ NobodyFails'
    <2>1. [by |-> a, value |-> result]
            \in [by : Actors \cup {"pool"}, value : Values \cup {NoValue}]
        BY <1>0
    <2>2. pool' \in Seq(Values \cup {NoValue})
        <3>1. pool' = pool \/ pool' = Append(pool, result)
            BY DEF DoCallback
        <3>2. pool \in Seq(Values \cup {NoValue})
            BY DEF Inv, TypeOK
        <3>3. Append(pool, result) \in Seq(Values \cup {NoValue})
            BY <1>0, <3>2, AppendProperties
        <3> QED
            BY <3>1, <3>2, <3>3, Zenon
    <2>3. calls' \in Seq([by : Actors \cup {"pool"}, value : Values \cup {NoValue}])
        <3>1. calls' = calls \/ calls' = Append(calls, [by |-> a, value |-> result])
            BY DEF DoCallback
        <3>2. calls \in Seq([by : Actors \cup {"pool"}, value : Values \cup {NoValue}])
            BY DEF Inv, TypeOK
        <3> DEFINE R == [by : Actors \cup {"pool"}, value : Values \cup {NoValue}]
        <3>3. Append(calls, [by |-> a, value |-> result]) \in Seq(R)
            BY <2>1, <3>2, AppendProperties
        <3> QED
            BY <3>1, <3>2, <3>3, Zenon
    <2> QED
        BY <1>0, <1>1, <2>2, <2>3 DEF DoCallback, Inv, TypeOK, NobodyFails, PCs
<1>3. Sides'
    BY <1>0, <1>1 DEF DoCallback, Inv, TypeOK, Sides, Entered, Own, Peer, Actors
<1>4. CalledOnceWithResult' /\ CalledWhereAsked' /\ (\A i \in DOMAIN pool : pool[i] = result)'
      /\ (pool # <<>> => executor)'
    <2>1. CASE executor
        <3>1. pool' = <<result>> /\ calls' = <<>> /\ executor' = executor /\ result' = result
            BY <1>0, <2>1 DEF DoCallback
        <3> QED
            BY <2>1, <3>1 DEF CalledOnceWithResult, CalledWhereAsked
    <2>2. CASE ~executor
        <3>1. pool' = <<>> /\ calls' = <<[by |-> a, value |-> result]>> /\ executor' = executor
              /\ result' = result
            BY <1>0, <2>2 DEF DoCallback
        <3>2. result # NoValue /\ a # "pool"
            BY <1>0, SharedStateAssumption DEF Actors
        <3> QED
            BY <2>2, <3>1, <3>2 DEF CalledOnceWithResult, CalledWhereAsked
    <2> QED
        BY <2>1, <2>2
<1>5. (result = NoValue <=> pc["producer"] = "idle")' /\ (Fired => state = "done")'
    BY <1>0, <1>1, SharedStateAssumption DEF DoCallback, Inv, TypeOK, Fired, Actors
<1> QED
    BY <1>2, <1>3, <1>4, <1>5 DEF Inv

\* The executor calls the callback that was submitted to it.
LEMMA PoolStep ==
  ASSUME Inv, PoolRun
  PROVE  Inv'
<1>1. Len(pool) = 1 /\ Len(calls) = 0 /\ pool[1] = result /\ executor /\ state = "done"
    <2>1. Len(pool) \in Nat /\ Len(calls) \in Nat /\ Len(pool) # 0
        BY EmptySeq DEF PoolRun, Inv, TypeOK
    <2>2. Len(pool) = 1 /\ Len(calls) = 0
        BY <2>1 DEF Inv, CalledOnceWithResult
    <2> QED
        BY <2>2 DEF PoolRun, Inv, TypeOK, Fired
<1>2. calls = <<>>
    BY <1>1, EmptySeq DEF Inv, TypeOK
<1>3. calls' = <<[by |-> "pool", value |-> result]>>
    BY <1>1, <1>2 DEF PoolRun, Inv, TypeOK
<1>4. pool' = <<>>
    BY <1>1, HeadTailProperties, EmptySeq DEF PoolRun, Inv, TypeOK
<1>5. result # NoValue
    BY <1>1 DEF Inv, Sides
<1>6. TypeOK' /\ NobodyFails' /\ Sides'
    BY <1>1, <1>3, <1>4 DEF PoolRun, Inv, TypeOK, NobodyFails, Sides, Fired, Entered, Own, Peer
<1>7. CalledOnceWithResult' /\ CalledWhereAsked'
    <2>1. Len(pool') = 0 /\ Len(calls') = 1 /\ DOMAIN calls' = {1}
        BY <1>3, <1>4
    <2>2. calls'[1].by = "pool" /\ calls'[1].value = result
        BY <1>3
    <2>3. executor' /\ result' = result /\ result # NoValue
        BY <1>1, <1>5 DEF PoolRun
    <2> QED
        BY <2>1, <2>2, <2>3 DEF CalledOnceWithResult, CalledWhereAsked
<1> QED
    BY <1>1, <1>3, <1>4, <1>6, <1>7 DEF PoolRun, Inv, Fired

\* Every step of the two sides and of the executor preserves the invariant.
LEMMA NextInv == Inv /\ [Next]_vars => Inv'
<1> SUFFICES ASSUME Inv, [Next]_vars PROVE Inv'
    OBVIOUS
<1>1. CASE Via
    <2>1. pool = <<>> /\ calls = <<>>
        BY <1>1 DEF Via, Inv, Sides, Fired
    <2> QED
        BY <1>1, <2>1 DEF Via, Inv, TypeOK, NobodyFails, Sides, Entered, Fired, Own, Peer,
               CalledOnceWithResult, CalledWhereAsked
<1>2. CASE UNCHANGED vars
    BY <1>2 DEF vars, Inv, TypeOK, NobodyFails, Sides, Entered, Fired, Own, Peer,
           CalledOnceWithResult, CalledWhereAsked
<1> QED
    BY <1>1, <1>2, RaceStep, CallStep, PoolStep DEF Next, Step, Done

\* Before the callback is set a get() reads state_ as the producer released it.
GetInv ==
    /\ pc["consumer"] = "got" => state \in {"only_result", "done"}
    /\ pc["consumer"] \notin {"idle", "got"} => callback
    /\ PlainGetReturnsResult

\* No step takes the result away from a get() without a subscription.
LEMMA NextGetInv == Inv /\ GetInv /\ [Next]_vars => GetInv'
<1> SUFFICES ASSUME Inv, GetInv, [Next]_vars PROVE GetInv'
    OBVIOUS
<1> USE DEF Inv, TypeOK, Sides, Goto, Acquire, Actors, GetInv, PlainGetReturnsResult
<1>1. ASSUME NEW v \in Values, SetResult(v) PROVE GetInv'
    BY <1>1 DEF SetResult
<1>2. CASE Via \/ SetCallback
    BY <1>2 DEF Via, SetCallback
<1>3. CASE Get
    <2>1. callback \/ state = "only_result"
        BY <1>3 DEF Get
    <2> QED
        BY <1>3, <2>1 DEF Get
<1>4. ASSUME NEW a \in Actors, Load(a) \/ Store(a) \/ DoCallback(a) PROVE GetInv'
    BY <1>4 DEF Load, Store, DoCallback
<1>5. ASSUME NEW a \in Actors, Cas(a) PROVE GetInv'
    BY <1>5 DEF Cas, Own
<1>6. CASE PoolRun \/ Done \/ UNCHANGED vars
    BY <1>6 DEF PoolRun, Done, vars
<1> QED
    BY <1>1, <1>2, <1>3, <1>4, <1>5, <1>6 DEF Next, Step

\* However the two sides race, no assertion of shared_state fails and nothing is
\* thrown.
THEOREM SharedStateSafe == Spec => []NobodyFails
<1>1. Inv => NobodyFails
    BY DEF Inv
<1> QED
    BY <1>1, InitInv, NextInv, PTL DEF Spec

\* However the two sides race, the callback is called at most once, with the
\* promised result, by the executor that via() named or else by the side that
\* came second, and a get() without a subscription returns the promised result.
THEOREM SharedStateDelivers == Spec => []DeliveredAsAsked
<1>1. Init => GetInv
    BY DEF Init, GetInv, PlainGetReturnsResult, Actors
<1>2. Inv /\ GetInv => DeliveredAsAsked
    BY DEF Inv, GetInv, DeliveredAsAsked
<1> QED
    BY <1>1, <1>2, InitInv, NextInv, NextGetInv, PTL DEF Spec

-----------------------------------------------------------------------------
\* Every step is a step of OneShot or leaves its variables alone.
LEMMA NextOneShot == Inv /\ [Next]_vars => [O!OneShotNext]_(O!oneShotVars)
<1> SUFFICES ASSUME Inv, [Next]_vars PROVE O!OneShotNext \/ UNCHANGED O!oneShotVars
    OBVIOUS
<1> USE DEF O!OneShotNext, O!oneShotVars
<1>1. ASSUME state' = state, calls' = calls PROVE UNCHANGED O!oneShotVars
    BY <1>1
<1>2. ASSUME NEW a \in Actors, Cas(a) PROVE O!OneShotNext \/ UNCHANGED O!oneShotVars
    <2>1. CASE state = "start"
        <3>1. state' = Own(a) /\ calls' = calls
            BY <1>2, <2>1 DEF Cas
        <3> QED
            BY <2>1, <3>1 DEF Own, O!SetResult, O!SetCallback
    <2>2. CASE state # "start"
        BY <1>1, <1>2, <2>2 DEF Cas
    <2> QED
        BY <2>1, <2>2
<1>3. ASSUME NEW a \in Actors, Store(a) PROVE O!OneShotNext
    <2>1. state = Peer(a) /\ state' = "done" /\ calls' = calls
        BY <1>3 DEF Store, Goto, Inv, Sides
    <2> QED
        BY <2>1 DEF Peer, O!SetResult, O!SetCallback
<1>4. ASSUME state = "done", state' = state, calls = <<>>, calls' # <<>> PROVE O!Call
    BY <1>4 DEF O!Call
<1>5. ASSUME NEW a \in Actors, DoCallback(a) PROVE O!OneShotNext \/ UNCHANGED O!oneShotVars
    <2>1. state = "done" /\ state' = state /\ calls = <<>>
        BY <1>5 DEF DoCallback, Goto, Inv, Sides, Fired
    <2> QED
        BY <1>1, <1>4, <2>1
<1>6. ASSUME PoolRun PROVE O!OneShotNext
    <2>1. Len(pool) \in Nat \ {0} /\ Len(calls) \in Nat
        BY <1>6, EmptySeq DEF PoolRun, Inv, TypeOK
    <2>2. Len(calls) = 0
        BY <2>1 DEF Inv, CalledOnceWithResult
    <2>3. calls = <<>>
        BY <2>2, EmptySeq DEF Inv, TypeOK
    <2>4. calls' # <<>>
        BY <1>6, <2>3 DEF PoolRun
    <2>5. state = "done" /\ state' = state
        BY <1>6 DEF PoolRun, Inv, Fired
    <2> QED
        BY <1>4, <2>3, <2>4, <2>5
<1>7. ASSUME Via \/ SetCallback \/ Get \/ Done \/ (\E v \in Values : SetResult(v))
             \/ (\E a \in Actors : Load(a)) \/ UNCHANGED vars
      PROVE  UNCHANGED O!oneShotVars
    BY <1>1, <1>7 DEF Via, SetCallback, Get, Done, SetResult, Load, vars
<1> QED
    BY <1>2, <1>3, <1>5, <1>6, <1>7 DEF Next, Step

\* shared_state implements its contract: each side is heard once, in either
\* order, and the callback is called once, after both.
THEOREM SharedStateImplementsOneShot == Spec => ImplementsOneShot
<1>1. Init => O!OneShotInit
    BY DEF Init, O!OneShotInit
<1> QED
    BY <1>1, InitInv, NextInv, NextOneShot, PTL
    DEF Spec, ImplementsOneShot, O!OneShotSpec

(***************************************************************************)
(* first_n().  The callbacks are told apart by where they stand.  Passed   *)
(* are those that the counter completed has let through: they will store   *)
(* or have stored a result.  The counter stored counts the results that    *)
(* are in the array and announced.                                         *)
(***************************************************************************)
Standing(place) == {i \in Futures : callbackPc[i] = place}
Counted == {i \in Futures : callbackPc[i] # "waiting"}
Passed == filled \cup Standing("store")
Announced == filled \ Standing("bump")

\* A callback has a ready future; it stores its result before it announces it
\* and announces it before it collects.
CallbacksInOrder ==
    \A i \in Futures : /\ callbackPc[i] # "waiting" => i \in ready
                       /\ callbackPc[i] # "failed"
                       /\ callbackPc[i] \in {"waiting", "store"} => i \notin filled
                       /\ callbackPc[i] \in {"bump", "collect"} => i \in filled

\* What the two counters count; only n callbacks pass.
CountersCount ==
    /\ completed = Cardinality(Counted)
    /\ Cardinality(Passed) = IF completed <= Min THEN completed ELSE Min
    /\ stored = Cardinality(Announced)

\* One callback collects, after n results have been announced, and before the
\* promise is set.
OneCollects ==
    /\ \A i, j \in Standing("collect") : i = j
    /\ Standing("collect") # {} => stored = Min /\ held
    /\ ~held => stored = Min
    /\ held <=> output = NoOutput

\* The combined future has n results of futures that are ready.
OutputRight == output # NoOutput => Cardinality(output) = Min /\ output \subseteq ready

FirstNInv == FirstNTypeOK /\ CallbacksInOrder /\ CountersCount /\ OneCollects /\ OutputRight

\* The sets of callbacks are finite.
LEMMA FuturesFinite == \A S : S \subseteq Futures => IsFiniteSet(S) /\ Cardinality(S) \in Nat /\ Cardinality(S) <= Size
<1>1. IsFiniteSet(Futures) /\ Cardinality(Futures) = Size
    BY FS_Interval, FirstNAssumption DEF Futures
<1> QED
    BY <1>1, FS_Subset, FS_CardinalityType

\* When n results are announced, nobody is about to store or to announce.
LEMMA FullWhenAnnounced ==
    ASSUME FirstNInv, stored >= Min
    PROVE  stored = Min /\ Standing("store") = {} /\ Standing("bump") = {} /\ filled = Announced
<1>1. Announced \subseteq Passed /\ Passed \subseteq Futures
    BY DEF Announced, Passed, Standing, FirstNInv, FirstNTypeOK
<1>2. IsFiniteSet(Passed) /\ Cardinality(Passed) \in Nat /\ Cardinality(Passed) <= Min
    BY <1>1, FuturesFinite, FirstNAssumption DEF FirstNInv, CountersCount, FirstNTypeOK
<1>3. Cardinality(Announced) <= Cardinality(Passed)
      /\ (Cardinality(Announced) = Cardinality(Passed) => Announced = Passed)
    BY <1>1, <1>2, FS_Subset
<1>4. stored = Min /\ Announced = Passed
    BY <1>2, <1>3, FirstNAssumption DEF FirstNInv, CountersCount, FirstNTypeOK
<1> QED
    BY <1>4 DEF Announced, Passed, Standing, FirstNInv, CallbacksInOrder

\* The invariant holds initially.
LEMMA FirstNInitInv == FirstNInit => FirstNInv
<1> SUFFICES ASSUME FirstNInit PROVE FirstNInv
    OBVIOUS
<1>1. Counted = {} /\ Passed = {} /\ Announced = {} /\ \A p : p # "waiting" => Standing(p) = {}
    BY DEF FirstNInit, Counted, Passed, Announced, Standing
<1>2. FirstNTypeOK /\ CallbacksInOrder
    BY FirstNAssumption DEF FirstNInit, FirstNTypeOK, CallbacksInOrder, Futures
<1>3. CountersCount
    BY <1>1, FS_EmptySet, FirstNAssumption DEF FirstNInit, CountersCount
<1>4. OneCollects /\ OutputRight
    BY <1>1 DEF FirstNInit, OneCollects, OutputRight
<1> QED
    BY <1>2, <1>3, <1>4 DEF FirstNInv

\* A callback is counted: the first n of them pass.
LEMMA CountInv == ASSUME FirstNInv, NEW i \in Futures, Count(i) PROVE FirstNInv'
<1> USE DEF FirstNInv
<1>1. /\ Counted' = Counted \cup {i} /\ i \notin Counted /\ Counted \subseteq Futures /\ Counted' \subseteq Futures
      /\ Standing("bump")' = Standing("bump") /\ Standing("collect")' = Standing("collect")
      /\ Standing("store")' = IF completed + 1 > Min THEN Standing("store") ELSE Standing("store") \cup {i}
      /\ i \notin Passed /\ Passed \subseteq Futures /\ Announced' = Announced
    BY DEF Count, FirstNGoto, FirstNTypeOK, Counted, Standing, Passed, Announced, CallbacksInOrder
<1>2. Cardinality(Counted') = completed + 1 /\ Cardinality(Counted') <= Size
    BY <1>1, FuturesFinite, FS_AddElement DEF CountersCount
<1>3. FirstNTypeOK'
    BY <1>2 DEF Count, FirstNGoto, FirstNTypeOK
<1>4. CallbacksInOrder'
    BY DEF Count, FirstNGoto, FirstNTypeOK, CallbacksInOrder
<1>5. Passed' = IF completed + 1 > Min THEN Passed ELSE Passed \cup {i}
    BY <1>1 DEF Count, Passed
<1>6. Cardinality(Passed \cup {i}) = Cardinality(Passed) + 1
    BY <1>1, FuturesFinite, FS_AddElement
<1>7. CountersCount'
    BY <1>1, <1>2, <1>5, <1>6, FirstNAssumption DEF Count, CountersCount, FirstNTypeOK
<1>8. OneCollects' /\ OutputRight'
    BY <1>1 DEF Count, OneCollects, OutputRight
<1> QED
    BY <1>3, <1>4, <1>7, <1>8

\* A callback stores its result: nobody collects meanwhile.
LEMMA StoreInv == ASSUME FirstNInv, NEW i \in Futures, StoreResult(i) PROVE FirstNInv'
<1> USE DEF FirstNInv
<1>1. /\ Counted' = Counted /\ Passed' = Passed /\ Announced' = Announced
      /\ Standing("collect")' = Standing("collect")
    BY DEF StoreResult, FirstNGoto, FirstNTypeOK, Counted, Standing, Passed, Announced, CallbacksInOrder
<1>2. FirstNTypeOK' /\ CallbacksInOrder'
    BY DEF StoreResult, FirstNGoto, FirstNTypeOK, CallbacksInOrder
<1>3. CountersCount' /\ OneCollects' /\ OutputRight'
    BY <1>1 DEF StoreResult, CountersCount, OneCollects, OutputRight
<1> QED
    BY <1>2, <1>3

\* A callback announces its result; the n-th to do so collects.
LEMMA BumpInv == ASSUME FirstNInv, NEW i \in Futures, Bump(i) PROVE FirstNInv'
<1> USE DEF FirstNInv
<1>1. i \in Standing("bump") /\ i \in filled /\ i \notin Announced
    BY DEF Bump, FirstNGoto, Standing, CallbacksInOrder, Announced
<1>2. stored < Min
    BY <1>1, FullWhenAnnounced, FirstNAssumption DEF FirstNTypeOK
<1>3. Standing("collect") = {} /\ held
    BY <1>2, FirstNAssumption DEF OneCollects, FirstNTypeOK
<1>4. /\ Counted' = Counted /\ Passed' = Passed /\ Announced' = Announced \cup {i}
      /\ Announced' \subseteq Passed /\ Announced \subseteq Futures /\ Passed \subseteq Futures
      /\ Standing("collect")' = IF stored + 1 < Min THEN {} ELSE {i}
    BY <1>1, <1>3 DEF Bump, FirstNGoto, FirstNTypeOK, Counted, Standing, Passed, Announced, CallbacksInOrder
<1>5. Cardinality(Announced') = stored + 1
    BY <1>1, <1>4, FuturesFinite, FS_AddElement DEF CountersCount
<1>6. stored + 1 <= Cardinality(Passed) /\ Cardinality(Passed) <= Size /\ Cardinality(Passed) \in Nat
    BY <1>4, <1>5, FuturesFinite, FS_Subset
<1>7. FirstNTypeOK' /\ CallbacksInOrder'
  <2>1. stored' \in 0..Size
      BY <1>6, FirstNAssumption DEF Bump, FirstNTypeOK
  <2>2. FirstNTypeOK'
      BY <2>1 DEF Bump, FirstNGoto, FirstNTypeOK
  <2> QED
      BY <1>1, <2>2 DEF Bump, FirstNGoto, FirstNTypeOK, CallbacksInOrder
<1>8. CountersCount'
    BY <1>4, <1>5 DEF Bump, CountersCount
<1>9. OneCollects' /\ OutputRight'
    BY <1>2, <1>3, <1>4, FirstNAssumption DEF Bump, OneCollects, OutputRight, FirstNTypeOK
<1> QED
    BY <1>7, <1>8, <1>9

\* The collector sets the promise with the n results.
LEMMA CollectInv == ASSUME FirstNInv, NEW i \in Futures, Collect(i) PROVE FirstNInv'
<1> USE DEF FirstNInv
<1>1. i \in Standing("collect")
    BY DEF Collect, FirstNGoto, Standing
<1>2. stored = Min /\ held /\ Standing("collect") = {i}
    BY <1>1 DEF OneCollects
<1>3. filled = Announced /\ Cardinality(filled) = Min
  <2>1. stored >= Min
      BY <1>2, FirstNAssumption
  <2>2. filled = Announced
      BY <2>1, FullWhenAnnounced
  <2> QED
      BY <1>2, <2>2 DEF CountersCount
<1>4. /\ Counted' = Counted /\ Passed' = Passed /\ Announced' = Announced
      /\ Standing("collect")' = {}
    BY <1>1, <1>2 DEF Collect, FirstNGoto, FirstNTypeOK, Counted, Standing, Passed, Announced, CallbacksInOrder
<1>5. filled \subseteq ready /\ filled # NoOutput
    BY DEF CallbacksInOrder, FirstNTypeOK, NoOutput, Futures
<1>6. FirstNTypeOK' /\ CallbacksInOrder'
    BY <1>1, <1>2 DEF Collect, FirstNGoto, FirstNTypeOK, CallbacksInOrder
<1>7. CountersCount' /\ OneCollects' /\ OutputRight'
    BY <1>2, <1>3, <1>4, <1>5 DEF Collect, CountersCount, OneCollects, OutputRight
<1> QED
    BY <1>6, <1>7

\* Every step of the caller, of a promise or of a callback keeps the invariant.
LEMMA FirstNNextInv == FirstNInv /\ [FirstNNext]_firstNVars => FirstNInv'
<1> SUFFICES ASSUME FirstNInv, [FirstNNext]_firstNVars PROVE FirstNInv'
    OBVIOUS
<1>1. ASSUME UNCHANGED <<callbackPc, completed, stored, filled, held, output>>,
             FirstNTypeOK', ready \subseteq ready'
      PROVE  FirstNInv'
    BY <1>1 DEF FirstNInv, CallbacksInOrder, CountersCount, OneCollects, OutputRight,
                Counted, Passed, Announced, Standing
<1>2. ASSUME NEW i \in Futures, Complete(i) PROVE FirstNInv'
    BY <1>1, <1>2 DEF Complete, FirstNInv, FirstNTypeOK
<1>3. CASE Subscribe
    BY <1>1, <1>3, FirstNAssumption DEF Subscribe, FirstNInv, FirstNTypeOK
<1>4. CASE MakeFuture \/ GetCombined
    BY <1>1, <1>4 DEF MakeFuture, GetCombined, FirstNInv, FirstNTypeOK
<1>5. CASE UNCHANGED firstNVars
    BY <1>1, <1>5 DEF firstNVars, FirstNInv, FirstNTypeOK
<1> QED
    BY <1>2, <1>3, <1>4, <1>5, CountInv, StoreInv, BumpInv, CollectInv
    DEF FirstNNext, Callback, SpinInGet, FirstNDone

\* For any number of futures and any n, the callbacks of first_n() set the
\* combined promise at most once, with exactly n results of ready futures, and
\* the array is not written while it is collected.
THEOREM FirstNDelivers == FirstNSpec => []ExactlyMinResults
<1>1. FirstNInv => ExactlyMinResults
  <2> SUFFICES ASSUME FirstNInv PROVE ExactlyMinResults
      OBVIOUS
  <2>1. NobodyWritesWhileCollecting
    <3> SUFFICES ASSUME NEW i \in Futures, NEW j \in Futures, callbackPc[i] = "collect", i # j
                 PROVE  callbackPc[j] \notin {"store", "collect"}
        BY DEF NobodyWritesWhileCollecting
    <3>1. i \in Standing("collect")
        BY DEF Standing
    <3>2. stored = Min /\ j \notin Standing("collect")
        BY <3>1 DEF FirstNInv, OneCollects
    <3>3. Standing("store") = {}
        BY <3>2, FullWhenAnnounced, FirstNAssumption
    <3> QED
        BY <3>2, <3>3 DEF Standing
  <2> QED
      BY <2>1 DEF ExactlyMinResults, FirstNInv, CallbacksInOrder, OutputRight
<1> QED
    BY <1>1, FirstNInitInv, FirstNNextInv, PTL DEF FirstNSpec

-----------------------------------------------------------------------------
(***************************************************************************)
(* first_of().  done_ goes to one callback; until that one has set the     *)
(* promise the promise refers to its state.                                *)
(***************************************************************************)
FirstOfTypeOK == /\ asked \in 0 .. Racers + 1 /\ arrived \subseteq 1 .. Racers
                 /\ racerPc \in [1 .. Racers -> {"waiting", "set", "ended", "failed"}]
                 /\ taken \in BOOLEAN /\ promiseOf \in BOOLEAN /\ winner \in 0 .. Racers
                 /\ returned \in {"none", "valid", "null"}

Setters == {i \in 1 .. Racers : racerPc[i] = "set"}

FirstOfInv ==
    /\ FirstOfTypeOK
    /\ \A i \in 1 .. Racers : racerPc[i] # "failed" /\ (racerPc[i] # "waiting" => i \in arrived)
    /\ \A i, j \in Setters : i = j
    /\ Setters # {} => taken /\ winner = 0
    /\ promiseOf <=> winner = 0
    /\ winner # 0 => winner \in arrived /\ taken
    /\ taken => winner # 0 \/ Setters # {}
    /\ returned = "null" => winner # 0

\* Every step keeps the invariant.
LEMMA FirstOfNextInv == FirstOfInv /\ [FirstOfNext]_firstOfVars => FirstOfInv'
<1> SUFFICES ASSUME FirstOfInv, [FirstOfNext]_firstOfVars PROVE FirstOfInv'
    OBVIOUS
<1> USE RacersAssumption DEF FirstOfInv, FirstOfTypeOK, Setters
<1>1. ASSUME NEW i \in 1 .. Racers, Arrive(i) PROVE FirstOfInv'
    BY <1>1 DEF Arrive
<1>2. CASE Ask
    BY <1>2 DEF Ask
<1>3. CASE ReturnFuture
    BY <1>3 DEF ReturnFuture
<1>4. ASSUME NEW i \in 1 .. Racers, ExchangeDone(i) PROVE FirstOfInv'
    BY <1>4 DEF ExchangeDone
<1>5. ASSUME NEW i \in 1 .. Racers, SetWinner(i) PROVE FirstOfInv'
  <2>1. promiseOf /\ Setters = {i}
      BY <1>5 DEF SetWinner
  <2>2. Setters' = {} /\ winner' = i /\ promiseOf' = FALSE /\ UNCHANGED <<asked, arrived, taken, returned>>
        /\ racerPc' = [racerPc EXCEPT ![i] = "ended"]
      BY <1>5, <2>1 DEF SetWinner
  <2>3. taken /\ i \in arrived /\ i # 0
      BY <2>1
  <2>4. FirstOfTypeOK'
    <3>1. promiseOf' \in BOOLEAN
        BY <2>2, Zenon
    <3>2. winner' \in 0 .. Racers
        BY <2>2
    <3> QED
        BY <2>2, <3>1, <3>2
  <2> QED
      BY <2>2, <2>3, <2>4
<1>6. CASE UNCHANGED firstOfVars
    BY <1>6 DEF firstOfVars
<1> QED
    BY <1>1, <1>2, <1>3, <1>4, <1>5, <1>6 DEF FirstOfNext, FirstOfDone

\* For any number of futures first_of() sets its promise once, with the result
\* of a future that is ready.
THEOREM FirstOfHasOneWinner == FirstOfSpec => []OneWinner
<1>1. ASSUME FirstOfInit PROVE FirstOfInv
  <2>1. taken \in BOOLEAN /\ promiseOf \in BOOLEAN
      BY <1>1 DEF FirstOfInit
  <2>3. asked \in 0 .. Racers + 1 /\ winner \in 0 .. Racers
      BY <1>1, RacersAssumption DEF FirstOfInit
  <2>4. FirstOfTypeOK
      BY <1>1, <2>1, <2>3 DEF FirstOfInit, FirstOfTypeOK
  <2>2. Setters = {} /\ \A i \in 1 .. Racers : racerPc[i] = "waiting"
      BY <1>1 DEF FirstOfInit, Setters
  <2> QED
      BY <1>1, <2>2, <2>4 DEF FirstOfInit, FirstOfInv
<1>2. FirstOfInv => OneWinner
  <2> SUFFICES ASSUME FirstOfInv PROVE OneWinner
      OBVIOUS
  <2>1. CASE Setters = {}
      BY <2>1, FS_EmptySet DEF FirstOfInv, OneWinner, Setters
  <2>2. ASSUME NEW i \in Setters PROVE OneWinner
    <3>1. Setters = {i} /\ winner = 0
        BY DEF FirstOfInv
    <3>2. Cardinality(Setters) = 1
        BY <3>1, FS_Singleton
    <3> QED
        BY <3>1, <3>2 DEF FirstOfInv, OneWinner, Setters
  <2> QED
      BY <2>1, <2>2
<1> QED
    BY <1>1, <1>2, FirstOfNextInv, PTL DEF FirstOfSpec

-----------------------------------------------------------------------------
(***************************************************************************)
(* Chains of continuations.  At most one thing is under way: a closure     *)
(* that the executor has to run, or the calls of one thread.  Everything   *)
(* behind it in the chain is untouched, everything before it has a result. *)
(***************************************************************************)
ChainTypeOK ==
    /\ kinds \in Seq({"then", "coroutine", "callback"}) /\ Len(kinds) <= Stages
    /\ closures \in {<<>>, <<0>>, <<1>>}
    /\ frames \in [ChainThreads -> Seq(0 .. Stages)]
    /\ results \in [1 .. Stages + 1 -> {"none", "value", "error"}]
    /\ holds \in [1 .. Stages + 1 -> BOOLEAN]
    /\ entered \in [1 .. Stages -> 0 .. 1]

Idle(t) == frames[t] = <<>>

\* The states from j on have no result.
NoResultFrom(j) == \A i \in 1 .. Stages + 1 : i >= j => results[i] = "none"

\* The innermost call of a thread has yet to set its state; the others of
\* the thread have set theirs, which is what called the next one.
CallsInOrder ==
    \A t \in ChainThreads : ~Idle(t) =>
        /\ closures = <<>>
        /\ \A u \in ChainThreads : u # t => Idle(u)
        /\ \A i \in 1 .. Len(frames[t]) :
              frames[t][i] <= Len(kinds)
              /\ (i # Len(frames[t]) => results[frames[t][i] + 1] # "none")
        /\ NoResultFrom(Innermost(t) + 1)
        /\ Innermost(t) # 0 => entered[Innermost(t)] = 1

\* A closure waits in the executor for its own turn only.
ClosureInOrder ==
    /\ closures # <<>> => \A t \in ChainThreads : Idle(t)
    /\ closures = <<0>> => NoResultFrom(1)
    /\ closures = <<1>> => Len(kinds) >= 1 /\ entered[1] = 0 /\ results[1] # "none" /\ NoResultFrom(2)

\* A consumer is called with the result before it, and sets the one behind it.
ResultsInOrder ==
    \A s \in 1 .. Stages : /\ entered[s] = 1 => s <= Len(kinds) /\ results[s] # "none"
                           /\ results[s + 1] # "none" => entered[s] = 1

PromisesInStep == \A i \in 1 .. Stages + 1 : holds[i] <=> results[i] = "none"

FramesLive == \A s \in 1 .. Len(kinds) :
                 kinds[s] = "coroutine" => (s \in alive \/ results[s + 1] # "none")

Sane == strayed = FALSE /\ (ended # "no" => threw)

ChainInv == /\ ChainTypeOK /\ CallsInOrder /\ ClosureInOrder /\ ResultsInOrder
            /\ PromisesInStep /\ FramesLive /\ Sane

\* The invariant holds initially.
LEMMA ChainInitInv == ChainInit => ChainInv
<1> SUFFICES ASSUME ChainInit PROVE ChainInv
    OBVIOUS
<1>1. ChainTypeOK
    BY StagesAssumption DEF ChainInit, ChainTypeOK, ChainThreads
<1>2. \A t \in ChainThreads : Idle(t)
    BY DEF ChainInit, Idle
<1>3. CallsInOrder /\ ClosureInOrder /\ NoResultFrom(1)
    BY <1>2 DEF ChainInit, CallsInOrder, ClosureInOrder, NoResultFrom
<1>4. ResultsInOrder /\ PromisesInStep /\ FramesLive /\ Sane
    BY StagesAssumption DEF ChainInit, ResultsInOrder, PromisesInStep, FramesLive, Sane
<1> QED
    BY <1>1, <1>3, <1>4 DEF ChainInv

\* What is known of the innermost call of a thread.
LEMMA InnermostFacts ==
    ASSUME ChainInv, NEW t \in ChainThreads, ~Idle(t)
    PROVE  LET m == Innermost(t) IN
           /\ Len(frames[t]) \in Nat \ {0} /\ m \in 0 .. Stages /\ m <= Len(kinds)
           /\ m + 1 \in 1 .. Stages + 1 /\ results[m + 1] = "none" /\ NoResultFrom(m + 1)
           /\ \A i \in 1 .. Len(frames[t]) : frames[t][i] \in 0 .. Stages
<1> USE StagesAssumption DEF ChainInv, ChainTypeOK, Idle
<1>1. frames[t] \in Seq(0 .. Stages) /\ frames[t] # <<>>
    OBVIOUS
<1>2. Len(frames[t]) \in Nat \ {0}
    BY <1>1, EmptySeq
<1>3. \A i \in 1 .. Len(frames[t]) : frames[t][i] \in 0 .. Stages
    BY <1>1, ElementOfSeq
<1>4. Len(frames[t]) \in 1 .. Len(frames[t])
    BY <1>2
<1>5. Innermost(t) \in 0 .. Stages
    BY <1>3, <1>4 DEF Innermost
<1>6. Innermost(t) <= Len(kinds) /\ NoResultFrom(Innermost(t) + 1)
    BY <1>4 DEF CallsInOrder, Innermost
<1>7. Innermost(t) + 1 \in 1 .. Stages + 1 /\ Innermost(t) + 1 >= Innermost(t) + 1
    BY <1>5
<1> QED
    BY <1>2, <1>3, <1>5, <1>6, <1>7 DEF NoResultFrom

\* A consumer is attached; when its state has a result nothing else is under
\* way, and the consumer has not been called.
LEMMA AttachInv ==
    ASSUME ChainInv, NEW kind \in {"then", "coroutine", "callback"}, AttachConsumer(kind) PROVE ChainInv'
<1> USE StagesAssumption DEF ChainInv
<1>0. PICK s \in 1 .. Stages : s = Len(kinds) + 1
    BY LenProperties DEF AttachConsumer, ChainTypeOK
<1>1. /\ kinds' \in Seq({"then", "coroutine", "callback"}) /\ Len(kinds') = s
      /\ \A i \in 1 .. Len(kinds) : kinds'[i] = kinds[i]
      /\ kinds'[s] = kind /\ s \in 1 .. Stages /\ Len(kinds) \in Nat
    BY <1>0, AppendProperties, LenProperties DEF AttachConsumer, ChainTypeOK
<1>2. /\ UNCHANGED <<results, holds, strayed, threw, ended>> /\ Idle("caller")
      /\ alive \subseteq alive' /\ (kind = "coroutine" => s \in alive')
    BY <1>0 DEF AttachConsumer, Idle
<1>3. PromisesInStep' /\ Sane' /\ FramesLive'
    BY <1>0, <1>1, <1>2 DEF PromisesInStep, Sane, FramesLive
<1>4. entered[s] = 0 /\ results[s + 1] = "none"
    BY <1>0, <1>1 DEF ResultsInOrder, ChainTypeOK
<1>5. CASE results[s] = "none"
  <2>1. UNCHANGED <<frames, entered, closures>>
      BY <1>0, <1>5 DEF AttachConsumer
  <2>2. ChainTypeOK' /\ ResultsInOrder'
      BY <1>0, <1>1, <1>2, <2>1 DEF ChainTypeOK, ResultsInOrder
  <2>3. ClosureInOrder'
      BY <1>0, <1>1, <1>2, <2>1 DEF ClosureInOrder, NoResultFrom, Idle
  <2>4. CallsInOrder'
    <3> SUFFICES ASSUME NEW t \in ChainThreads, ~Idle(t) PROVE CallsInOrder!(t)'
        BY <2>1 DEF CallsInOrder, Idle
    <3>1. \A i \in 1 .. Len(frames[t]) : frames[t][i] \in 0 .. Stages
        BY InnermostFacts
    <3> QED
        BY <1>0, <1>1, <1>2, <2>1, <3>1 DEF CallsInOrder, Idle, NoResultFrom, Innermost
  <2> QED
      BY <1>3, <2>2, <2>3, <2>4
<1>6. CASE results[s] # "none"
  <2>1. closures = <<>> /\ Idle("worker")
    <3>1. ASSUME ~Idle("worker") PROVE FALSE
      <4>1. Innermost("worker") \in 0 .. Stages /\ Innermost("worker") <= Len(kinds)
            /\ NoResultFrom(Innermost("worker") + 1)
          BY <3>1, InnermostFacts DEF ChainThreads
      <4> QED
          BY <1>0, <1>1, <1>6, <4>1 DEF NoResultFrom
    <3>2. closures # <<0>>
        BY <1>0, <1>1, <1>6 DEF ClosureInOrder, NoResultFrom
    <3>3. closures # <<1>>
        BY <1>0, <1>1, <1>6 DEF ClosureInOrder, NoResultFrom
    <3> QED
        BY <3>1, <3>2, <3>3 DEF ChainTypeOK
  <2>2. NoResultFrom(s + 1)
    <3> SUFFICES ASSUME NEW i \in 1 .. Stages + 1, i >= s + 1, results[i] # "none" PROVE FALSE
        BY DEF NoResultFrom
    <3>1. i - 1 \in 1 .. Stages /\ (i - 1) + 1 = i /\ ~(i - 1 <= Len(kinds))
        BY <1>0, <1>1
    <3> QED
        BY <3>1 DEF ResultsInOrder
  <2>3. CASE s = 1
    <3>1. closures' = <<1>> /\ UNCHANGED <<frames, entered>>
        BY <1>0, <1>6, <2>1, <2>3 DEF AttachConsumer
    <3>2. ChainTypeOK' /\ ResultsInOrder'
        BY <1>0, <1>1, <1>2, <3>1 DEF ChainTypeOK, ResultsInOrder
    <3>3. \A t \in ChainThreads : Idle(t)'
        BY <1>2, <2>1, <3>1 DEF Idle, ChainThreads
    <3>4. CallsInOrder' /\ ClosureInOrder'
        BY <1>0, <1>1, <1>2, <1>4, <1>6, <2>2, <2>3, <3>1, <3>3 DEF CallsInOrder, ClosureInOrder, NoResultFrom
    <3> QED
        BY <1>3, <3>2, <3>4
  <2>4. CASE s > 1
    <3>1. /\ frames' = [frames EXCEPT !["caller"] = <<s>>]
          /\ entered' = [entered EXCEPT ![s] = 1] /\ closures' = <<>>
        BY <1>0, <1>1, <1>4, <1>6, <2>1, <2>4 DEF AttachConsumer, ChainTypeOK
    <3>2. ChainTypeOK' /\ ResultsInOrder'
      <4>1. <<s>> \in Seq(0 .. Stages)
          BY <1>0, <1>1
      <4>2. frames' \in [ChainThreads -> Seq(0 .. Stages)]
          BY <3>1, <4>1 DEF ChainTypeOK
      <4>3. entered' \in [1 .. Stages -> 0 .. 1]
          BY <1>0, <1>1, <3>1 DEF ChainTypeOK
      <4>4. ChainTypeOK'
          BY <1>0, <1>1, <1>2, <3>1, <4>2, <4>3 DEF ChainTypeOK
      <4>5. \A i \in 1 .. Stages : entered'[i] = IF i = s THEN 1 ELSE entered[i]
          BY <1>0, <1>1, <3>1 DEF ChainTypeOK
      <4>6. ResultsInOrder'
        <5> SUFFICES ASSUME NEW i \in 1 .. Stages PROVE ResultsInOrder!(i)'
            BY DEF ResultsInOrder
        <5>1. results' = results /\ Len(kinds') = s /\ Len(kinds) = s - 1
            BY <1>0, <1>1, <1>2
        <5>2. CASE i = s
            BY <1>6, <4>5, <5>1, <5>2
        <5>3. CASE i # s
            BY <4>5, <5>1, <5>3 DEF ResultsInOrder
        <5> QED
            BY <5>2, <5>3
      <4> QED
          BY <4>4, <4>6
    <3>3. frames'["caller"] = <<s>> /\ frames'["worker"] = <<>> /\ Innermost("caller")' = s
        BY <1>2, <2>1, <3>1 DEF Idle, ChainTypeOK, ChainThreads, Innermost
    <3>4. CallsInOrder' /\ ClosureInOrder'
      <4>1. Len(<<s>>) = 1 /\ \A i \in 1 .. 1 : <<s>>[i] = s
          OBVIOUS
      <4>2. Idle("worker")' /\ entered'[s] = 1 /\ s # 0 /\ closures' = <<>>
          BY <1>0, <1>1, <3>1, <3>3 DEF Idle, ChainTypeOK
      <4>3. NoResultFrom(s + 1)'
          BY <1>2, <2>2 DEF NoResultFrom
      <4>4. CallsInOrder!("caller")'
          BY <1>0, <1>1, <3>3, <4>1, <4>2, <4>3 DEF Idle, ChainThreads
      <4>5. ClosureInOrder'
          BY <4>2 DEF ClosureInOrder
      <4> QED
          BY <4>2, <4>4, <4>5 DEF CallsInOrder, ChainThreads
    <3> QED
        BY <1>3, <3>2, <3>4
  <2> QED
      BY <1>0, <1>1, <2>3, <2>4
<1> QED
    BY <1>5, <1>6

\* The executor runs the closure, whose coroutine has its frame.
LEMMA RunClosureInv == ASSUME ChainInv, RunClosure PROVE ChainInv'
<1> USE StagesAssumption DEF ChainInv
<1>0. PICK s \in {0, 1} : closures = <<s>>
    BY DEF RunClosure, ChainTypeOK
<1>1. /\ Head(closures) = s /\ Tail(closures) = <<>> /\ closures' = <<>> /\ closures # <<>>
      /\ Len(<<s>>) = 1 /\ \A i \in 1 .. 1 : <<s>>[i] = s
    BY <1>0 DEF RunClosure
<1>2. /\ NoResultFrom(s + 1) /\ s <= Len(kinds) /\ Len(kinds) \in Nat
      /\ s # 0 => s \in 1 .. Stages /\ s \in 1 .. Len(kinds) /\ entered[s] = 0 /\ results[s] # "none"
      /\ \A t \in ChainThreads : Idle(t)
  <2>1. Len(kinds) \in Nat
      BY LenProperties DEF ChainTypeOK
  <2>2. CASE s = 0
      BY <1>0, <1>1, <2>1, <2>2 DEF ClosureInOrder
  <2>3. CASE s = 1
      BY <1>0, <1>1, <2>1, <2>3 DEF ClosureInOrder, ChainTypeOK
  <2> QED
      BY <2>2, <2>3
<1>3. /\ frames' = [frames EXCEPT !["worker"] = <<s>>]
      /\ entered' = IF s = 0 THEN entered ELSE [entered EXCEPT ![s] = 1]
      /\ UNCHANGED <<kinds, results, holds, alive, threw, ended>>
  <2>1. entered' = IF s = 0 THEN entered ELSE [entered EXCEPT ![s] = entered[s] + 1]
      BY <1>1 DEF RunClosure, Enter
  <2>2. s # 0 => entered[s] + 1 = 1
      BY <1>2
  <2>3. entered' = IF s = 0 THEN entered ELSE [entered EXCEPT ![s] = 1]
      BY <2>1, <2>2
  <2> QED
      BY <1>1, <2>3 DEF RunClosure
<1>4. frames'["worker"] = <<s>> /\ frames'["caller"] = <<>> /\ Innermost("worker")' = s
    BY <1>1, <1>2, <1>3 DEF Idle, ChainTypeOK, ChainThreads, Innermost
<1>5. strayed' = FALSE
  <2>1. ~(IsCoroutine(s) /\ s \notin alive)
      BY <1>2 DEF IsCoroutine, FramesLive, NoResultFrom
  <2> QED
      BY <1>1, <2>1, Zenon DEF RunClosure, Enter, Sane
<1>6. \A i \in 1 .. Stages : entered'[i] = IF i = s THEN 1 ELSE entered[i]
    BY <1>2, <1>3 DEF ChainTypeOK
<1>7. ChainTypeOK'
  <2>1. frames' \in [ChainThreads -> Seq(0 .. Stages)]
    <3>1. <<s>> \in Seq(0 .. Stages)
        BY <1>2
    <3> QED
        BY <1>3, <3>1 DEF ChainTypeOK
  <2>2. entered' \in [1 .. Stages -> 0 .. 1]
      BY <1>2, <1>3 DEF ChainTypeOK
  <2> QED
      BY <1>1, <1>3, <2>1, <2>2 DEF ChainTypeOK
<1>8. ResultsInOrder'
    BY <1>2, <1>3, <1>6 DEF ResultsInOrder
<1>9. CallsInOrder' /\ ClosureInOrder'
  <2>1. Idle("caller")' /\ NoResultFrom(s + 1)' /\ (s # 0 => entered'[s] = 1)
      BY <1>2, <1>3, <1>4, <1>6 DEF Idle, NoResultFrom
  <2>2. CallsInOrder!("worker")'
      BY <1>1, <1>2, <1>3, <1>4, <2>1 DEF Idle, ChainThreads
  <2> QED
      BY <1>1, <2>1, <2>2 DEF CallsInOrder, ClosureInOrder, ChainThreads
<1> QED
    BY <1>3, <1>5, <1>7, <1>8, <1>9 DEF PromisesInStep, FramesLive, Sane

\* When the calls of a thread return, the coroutines among them have set
\* their promises, the innermost one excepted.
LEMMA UnwoundLive ==
    ASSUME ChainInv, NEW t \in ChainThreads, ~Idle(t), Unwound(t), kinds' = kinds,
           \A i \in 1 .. Stages + 1 : results[i] # "none" => results'[i] # "none",
           ~IsCoroutine(Innermost(t)) \/ results'[Innermost(t) + 1] # "none"
    PROVE  FramesLive' /\ \A u \in ChainThreads : Idle(u)'
<1> USE StagesAssumption
<1>1. \A u \in ChainThreads : Idle(u)'
    BY DEF Unwound, Idle, ChainInv, ChainTypeOK, CallsInOrder
<1>2. ASSUME NEW s \in 1 .. Len(kinds), kinds[s] = "coroutine", s \notin alive', s \in alive
      PROVE  results'[s + 1] # "none"
  <2>1. frames[t] \in Seq(0 .. Stages) /\ DOMAIN frames[t] = 1 .. Len(frames[t])
      BY LenProperties DEF ChainInv, ChainTypeOK
  <2>2. PICK i \in 1 .. Len(frames[t]) : s = frames[t][i]
      BY <1>2, <2>1 DEF Unwound
  <2>3. s \in 1 .. Stages
      BY <1>2, LenProperties DEF ChainInv, ChainTypeOK
  <2>4. CASE i = Len(frames[t])
      BY <1>2, <2>2, <2>3, <2>4 DEF Innermost, IsCoroutine
  <2>5. CASE i # Len(frames[t])
      BY <2>2, <2>3, <2>5 DEF ChainInv, CallsInOrder
  <2> QED
      BY <2>4, <2>5
<1>3. \A s \in 1 .. Len(kinds) : s + 1 \in 1 .. Stages + 1
    BY LenProperties DEF ChainInv, ChainTypeOK
<1> QED
    BY <1>1, <1>2, <1>3 DEF ChainInv, FramesLive

\* A state gets its result: its consumer is called, submitted, or not there yet.
LEMMA ResolveInv ==
    ASSUME ChainInv, NEW t \in ChainThreads, NEW outcome \in {"value", "error"}, Resolve(t, outcome)
    PROVE  ChainInv'
<1> USE StagesAssumption
<1>1. ~Idle(t) /\ ended = "no"
    BY DEF Resolve, Idle
<1>2. PICK m \in 0 .. Stages : m = Innermost(t)
    BY <1>1, InnermostFacts
<1>3. /\ Len(frames[t]) \in Nat \ {0} /\ m <= Len(kinds) /\ Len(kinds) \in 0 .. Stages
      /\ m + 1 \in 1 .. Stages + 1 /\ results[m + 1] = "none" /\ NoResultFrom(m + 1)
      /\ \A i \in 1 .. Len(frames[t]) : frames[t][i] \in 0 .. Stages /\ frames[t][i] <= Len(kinds)
    BY <1>1, <1>2, InnermostFacts, LenProperties DEF ChainInv, ChainTypeOK, CallsInOrder
<1>4. closures = <<>> /\ (\A u \in ChainThreads : u # t => Idle(u)) /\ (m # 0 => entered[m] = 1)
    BY <1>1, <1>2 DEF ChainInv, CallsInOrder
<1>5. /\ results' = [results EXCEPT ![m + 1] = outcome] /\ holds' = [holds EXCEPT ![m + 1] = FALSE]
      /\ UNCHANGED <<kinds, inCall, threw, ended>>
    BY <1>2 DEF Resolve, PromiseSet
<1>6. \A i \in 1 .. Stages + 1 : results'[i] = IF i = m + 1 THEN outcome ELSE results[i]
    BY <1>3, <1>5 DEF ChainInv, ChainTypeOK
<1>7. results' \in [1 .. Stages + 1 -> {"none", "value", "error"}]
      /\ holds' \in [1 .. Stages + 1 -> BOOLEAN]
    BY <1>3, <1>5 DEF ChainInv, ChainTypeOK
<1>8. PromisesInStep'
  <2> SUFFICES ASSUME NEW i \in 1 .. Stages + 1 PROVE holds'[i] <=> results'[i] = "none"
      BY DEF PromisesInStep
  <2>1. holds'[i] = IF i = m + 1 THEN FALSE ELSE holds[i]
      BY <1>3, <1>5 DEF ChainInv, ChainTypeOK
  <2> QED
      BY <1>6, <2>1 DEF ChainInv, PromisesInStep
<1>9. NoResultFrom(m + 2)'
    BY <1>3, <1>6 DEF NoResultFrom
<1>10. CASE m = Len(kinds) \/ m = 0
  <2>1. Unwound(t) /\ UNCHANGED <<entered, strayed>>
        /\ closures' = IF m = Len(kinds) THEN <<>> ELSE <<1>>
      BY <1>2, <1>4, <1>10 DEF Resolve, PromiseSet
  <2>2. FramesLive' /\ \A u \in ChainThreads : Idle(u)'
      BY <1>1, <1>2, <1>3, <1>5, <1>6, <2>1, UnwoundLive
  <2>3. ChainTypeOK'
    <3>1. frames' \in [ChainThreads -> Seq(0 .. Stages)]
        BY <2>1 DEF Unwound, ChainInv, ChainTypeOK
    <3> QED
        BY <1>5, <1>7, <2>1, <3>1 DEF ChainInv, ChainTypeOK
  <2>4. ResultsInOrder'
      BY <1>4, <1>5, <1>6, <2>1 DEF ChainInv, ResultsInOrder
  <2>5. CallsInOrder'
      BY <2>2 DEF CallsInOrder
  <2>6. ClosureInOrder'
    <3>1. CASE m = Len(kinds)
        BY <2>1, <3>1 DEF ClosureInOrder
    <3>2. CASE m # Len(kinds)
      <4>1. m = 0 /\ Len(kinds) >= 1 /\ 1 \in 1 .. Stages /\ closures' = <<1>>
          BY <1>3, <1>10, <2>1, <3>2
      <4>2. entered[1] = 0 /\ results'[1] # "none"
          BY <1>3, <1>6, <4>1 DEF ChainInv, ResultsInOrder, ChainTypeOK
      <4> QED
          BY <1>5, <1>9, <2>1, <2>2, <4>1, <4>2 DEF ClosureInOrder
    <3> QED
        BY <3>1, <3>2
  <2> QED
      BY <1>5, <1>8, <2>4, <2>1, <2>2, <2>3, <2>5, <2>6 DEF ChainInv, Sane
<1>11. CASE m # Len(kinds) /\ m # 0
  <2>1. m + 1 \in 1 .. Stages /\ m + 1 \in 1 .. Len(kinds) /\ entered[m + 1] = 0 /\ results[m + 2] = "none"
      BY <1>3, <1>11 DEF ChainInv, ResultsInOrder, ChainTypeOK, NoResultFrom
  <2>2. /\ frames' = [frames EXCEPT ![t] = Append(frames[t], m + 1)]
        /\ Enter(m + 1) /\ UNCHANGED <<closures, alive>>
      BY <1>2, <1>11 DEF Resolve, PromiseSet
  <2>3. entered' = [entered EXCEPT ![m + 1] = 1]
    <3>1. entered' = [entered EXCEPT ![m + 1] = entered[m + 1] + 1] /\ entered[m + 1] + 1 = 1
        BY <2>1, <2>2 DEF Enter
    <3> QED
        BY <3>1
  <2>4. strayed' = FALSE
    <3>1. ~(IsCoroutine(m + 1) /\ m + 1 \notin alive)
        BY <2>1 DEF IsCoroutine, ChainInv, FramesLive
    <3> QED
        BY <2>2, <3>1, Zenon DEF Enter, ChainInv, Sane
  <2>5. \A i \in 1 .. Stages : entered'[i] = IF i = m + 1 THEN 1 ELSE entered[i]
      BY <2>1, <2>3 DEF ChainInv, ChainTypeOK
  <2>6. /\ frames'[t] \in Seq(0 .. Stages) /\ Len(frames'[t]) = Len(frames[t]) + 1
        /\ frames'[t][Len(frames[t]) + 1] = m + 1
        /\ \A i \in 1 .. Len(frames[t]) : frames'[t][i] = frames[t][i]
        /\ frames' \in [ChainThreads -> Seq(0 .. Stages)]
        /\ \A u \in ChainThreads : u # t => Idle(u)'
    <3>1. frames[t] \in Seq(0 .. Stages) /\ m + 1 \in 0 .. Stages
        BY <2>1 DEF ChainInv, ChainTypeOK
    <3>2. frames'[t] = Append(frames[t], m + 1) /\ \A u \in ChainThreads : u # t => frames'[u] = frames[u]
        BY <2>2 DEF ChainInv, ChainTypeOK
    <3>3. frames'[t] \in Seq(0 .. Stages)
        BY <3>1, <3>2, AppendProperties
    <3>4. frames' \in [ChainThreads -> Seq(0 .. Stages)]
        BY <2>2, <3>2, <3>3 DEF ChainInv, ChainTypeOK
    <3>5. /\ Len(frames'[t]) = Len(frames[t]) + 1 /\ frames'[t][Len(frames[t]) + 1] = m + 1
          /\ \A i \in 1 .. Len(frames[t]) : frames'[t][i] = frames[t][i]
        BY <3>1, <3>2, AppendProperties
    <3>6. \A u \in ChainThreads : u # t => Idle(u)'
        BY <1>4, <3>2 DEF Idle
    <3> QED
        BY <3>3, <3>4, <3>5, <3>6
  <2>7. ChainTypeOK'
    <3>1. entered' \in [1 .. Stages -> 0 .. 1]
        BY <2>1, <2>3 DEF ChainInv, ChainTypeOK
    <3> QED
        BY <1>5, <1>7, <2>2, <2>6, <3>1 DEF ChainInv, ChainTypeOK
  <2>8. ResultsInOrder'
    <3> SUFFICES ASSUME NEW i \in 1 .. Stages PROVE ResultsInOrder!(i)'
        BY DEF ResultsInOrder
    <3> QED
        BY <1>4, <1>5, <1>6, <2>1, <2>5 DEF ChainInv, ResultsInOrder
  <2>9. CallsInOrder!(t)'
    <3>1. Innermost(t)' = m + 1
        BY <2>6 DEF Innermost
    <3>2. NoResultFrom(Innermost(t) + 1)'
      <4>1. \A i \in 1 .. Stages + 1 : i >= m + 2 => results'[i] = "none"
          BY <1>9 DEF NoResultFrom
      <4>2. (m + 1) + 1 = m + 2
          BY <1>3
      <4> QED
          BY <3>1, <4>1, <4>2, Zenon DEF NoResultFrom
    <3>3. ASSUME NEW i \in 1 .. Len(frames'[t])
          PROVE  frames'[t][i] <= Len(kinds) /\ (i # Len(frames'[t]) => results'[frames'[t][i] + 1] # "none")
      <4>1. CASE i = Len(frames[t]) + 1
          BY <1>3, <2>1, <2>6, <4>1
      <4>2. CASE i = Len(frames[t])
        <5>1. frames'[t][i] = m
          <6>1. i \in 1 .. Len(frames[t])
              BY <1>3, <4>2
          <6>2. frames'[t][i] = frames[t][i]
              BY <2>6, <6>1
          <6> QED
              BY <1>2, <4>2, <6>2 DEF Innermost
        <5>2. results'[m + 1] # "none"
            BY <1>3, <1>6
        <5> QED
            BY <1>3, <5>1, <5>2
      <4>3. CASE i \in 1 .. Len(frames[t]) /\ i # Len(frames[t])
        <5>1. frames'[t][i] = frames[t][i] /\ frames[t][i] \in 0 .. Stages /\ results[frames[t][i] + 1] # "none"
            BY <1>1, <2>6, <4>3, <1>3 DEF ChainInv, CallsInOrder
        <5> QED
            BY <1>3, <1>6, <4>3, <5>1
      <4>4. i \in 1 .. Len(frames[t]) + 1
          BY <2>6
      <4> QED
          BY <1>3, <4>1, <4>2, <4>3, <4>4
    <3>4. entered'[m + 1] = 1
        BY <2>1, <2>5
    <3> QED
        BY <1>4, <1>5, <2>2, <2>6, <3>1, <3>2, <3>3, <3>4
  <2>10. CallsInOrder' /\ ClosureInOrder'
      BY <1>4, <2>2, <2>6, <2>9 DEF CallsInOrder, ClosureInOrder
  <2>11. FramesLive'
      BY <1>3, <1>5, <1>6, <2>2 DEF ChainInv, FramesLive
  <2> QED
      BY <1>5, <1>8, <2>4, <2>7, <2>8, <2>10, <2>11 DEF ChainInv, Sane
<1> QED
    BY <1>10, <1>11

\* A plain callback returns or throws.
LEMMA CallbackEndsInv ==
    ASSUME ChainInv, NEW t \in ChainThreads, CallbackReturns(t) \/ CallbackThrows(t) PROVE ChainInv'
<1>1. /\ ~Idle(t) /\ IsCallback(Innermost(t)) /\ Unwound(t) /\ Sane'
      /\ UNCHANGED <<kinds, closures, results, holds, entered>>
    BY DEF CallbackReturns, CallbackThrows, Idle, ChainInv, Sane
<1>2. ~IsCoroutine(Innermost(t))
    BY <1>1 DEF IsCallback, IsCoroutine
<1>3. FramesLive' /\ \A u \in ChainThreads : Idle(u)'
    BY <1>1, <1>2, UnwoundLive
<1>4. ChainTypeOK'
  <2>1. frames' \in [ChainThreads -> Seq(0 .. Stages)]
      BY <1>1 DEF Unwound, ChainInv, ChainTypeOK
  <2> QED
      BY <1>1, <2>1 DEF ChainInv, ChainTypeOK
<1>5. ResultsInOrder' /\ PromisesInStep'
    BY <1>1 DEF ChainInv, ResultsInOrder, PromisesInStep
<1>6. CallsInOrder' /\ ClosureInOrder'
    BY <1>1, <1>3 DEF ChainInv, CallsInOrder, ClosureInOrder, NoResultFrom
<1> QED
    BY <1>1, <1>3, <1>4, <1>5, <1>6 DEF ChainInv

\* Every step of the caller and of the worker keeps the invariant.
LEMMA ChainNextInv == ChainInv /\ [ChainNext]_chainVars => ChainInv'
<1> SUFFICES ASSUME ChainInv, [ChainNext]_chainVars PROVE ChainInv'
    OBVIOUS
<1>1. ASSUME UNCHANGED <<kinds, closures, frames, results, holds, entered, alive, strayed, threw, ended>>
      PROVE  ChainInv'
    BY <1>1 DEF ChainInv, ChainTypeOK, CallsInOrder, ClosureInOrder, ResultsInOrder, PromisesInStep,
                FramesLive, Sane, Idle, Innermost, NoResultFrom
<1>2. CASE AttachReturns
    BY <1>1, <1>2 DEF AttachReturns
<1>3. CASE UNCHANGED chainVars
    BY <1>1, <1>3 DEF chainVars
<1> QED
    BY <1>2, <1>3, AttachInv, RunClosureInv, ResolveInv, CallbackEndsInv
    DEF ChainNext, ThreadStep, ChainEnds, ChainAborted

\* For a chain of any length and any mixture of continuations, coroutines and
\* callbacks: every consumer is called at most once, with a result, no promise
\* is set twice and no coroutine frame is used after its end.
THEOREM ChainCallsOnce == ChainSpec => []ConsumersCalledOnce
<1>1. ChainInv => ConsumersCalledOnce
  <2> SUFFICES ASSUME ChainInv PROVE ConsumersCalledOnce
      OBVIOUS
  <2>1. \A s \in 1 .. Stages : entered[s] <= 1 /\ (entered[s] = 1 => results[s] # "none")
      BY DEF ChainInv, ChainTypeOK, ResultsInOrder
  <2>2. \A s \in DOMAIN kinds : IsCoroutine(s) => (s \in alive \/ results[s + 1] # "none")
      BY LenProperties DEF ChainInv, ChainTypeOK, FramesLive, IsCoroutine
  <2> QED
      BY <2>1, <2>2 DEF ConsumersCalledOnce, ChainInv, PromisesInStep, Sane
<1> QED
    BY <1>1, ChainInitInv, ChainNextInv, PTL DEF ChainSpec

=============================================================================
