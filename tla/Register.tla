------------------------------ MODULE Register ------------------------------
(***************************************************************************)
(* The replicated register of examples/dist.registry.replication: every    *)
(* node is a replica (/v1/replica/{read,write,reset}) and a coordinator    *)
(* (/v1/coordinator/{read,write}).  A coordinator sends a request to every *)
(* replica and goes on when the first n/2 + 1 calls have completed.  A     *)
(* read that finds its quorum inconsistent writes the freshest register    *)
(* back before it answers.                                                 *)
(*                                                                         *)
(* Requests to different replicas are handled in any order and at any      *)
(* time; a write that the coordinator does not wait for any longer stays   *)
(* on its way.  A coordinator that crashes is one that takes no further    *)
(* step.  A scenario names what else may happen:                           *)
(*   "unreachable"  a call fails and its request is lost,                  *)
(*   "timeout"      a call fails and its request arrives later,            *)
(*   "restart"      a replica restarts (its register is in memory),        *)
(*   "reset"        somebody calls /v1/replica/reset.                      *)
(***************************************************************************)
EXTENDS Integers, FiniteSets

CONSTANTS N,          \* the number of replicas, in the order of their names
          Clients,    \* the requests that coordinators handle concurrently
          Writes,     \* the registers clients write: value and timestamp
          NoRegister, \* a replica that is not initialized, a failed read
          Waiting,    \* a call, or an operation, that has not completed
          Ack,        \* the answer to a write
          Scenarios   \* what may fail, and how many operations a client calls

FaultKinds == {"unreachable", "timeout", "restart", "reset"}

ASSUME RegisterAssumption ==
    /\ N \in Nat \ {0}
    /\ Scenarios \subseteq [faults : SUBSET FaultKinds, ops : Nat]
    /\ Writes \subseteq [value : Int, timestamp : Nat]
    /\ NoRegister \notin Writes /\ Waiting \notin Writes /\ Ack \notin Writes
    /\ Waiting # NoRegister /\ Waiting # Ack /\ NoRegister # Ack

Replicas == 1..N

\* majority_quorum_policy::quorum.
Quorum == N \div 2 + 1

VARIABLES scenario,  \* the scenario of this behaviour
          store,     \* register_ of each replica
          phase,     \* what each client's coordinator is doing
          reply,     \* the completed calls of the phase, per replica
          object,    \* the register a coordinator writes
          late,      \* writes on their way that nobody waits for
          ops,       \* the number of operations called
          requested, \* the registers that clients asked to write
          seen,      \* the registers confirmed to writers, returned to readers
          floor,     \* seen, at the time a client called its operation
          answer     \* what the client's last operation returned

vars == <<scenario, store, phase, reply, object, late, ops, requested, seen, floor, answer>>

Registers == Writes \cup {NoRegister}
Messages == [to : Replicas, register : Writes]

TypeOK ==
    /\ store \in [Replicas -> Registers]
    /\ phase \in [Clients -> {"idle", "read", "write", "back"}]
    /\ reply \in [Clients -> [Replicas -> Registers \cup {Ack, Waiting}]]
    /\ object \in [Clients -> Registers]
    /\ late \subseteq Messages
    /\ ops \in [Clients -> Nat]
    /\ requested \subseteq Writes /\ seen \subseteq Writes
    /\ floor \in [Clients -> SUBSET Writes]
    /\ answer \in [Clients -> Registers \cup {Ack, Waiting}]

Init ==
    /\ scenario \in Scenarios
    /\ store = [r \in Replicas |-> NoRegister]
    /\ phase = [c \in Clients |-> "idle"]
    /\ reply = [c \in Clients |-> [r \in Replicas |-> Waiting]]
    /\ object = [c \in Clients |-> NoRegister]
    /\ late = {} /\ ops = [c \in Clients |-> 0]
    /\ requested = {} /\ seen = {}
    /\ floor = [c \in Clients |-> {}]
    /\ answer = [c \in Clients |-> Waiting]

-----------------------------------------------------------------------------
(* A replica.                                                              *)

\* A defect: the timestamps are not compared.
StoreAlways(r, w) == store' = [store EXCEPT ![r] = w]

\* register_::pimpl::write: only over nothing or an older timestamp.
Store(r, w) ==
    store' = IF store[r] = NoRegister \/ store[r].timestamp < w.timestamp
             THEN [store EXCEPT ![r] = w] ELSE store

Writing(c) == phase[c] \in {"write", "back"}
Pending(c, r) == phase[c] # "idle" /\ reply[c][r] = Waiting
Reply(c, r, x) == reply' = [reply EXCEPT ![c][r] = x]

\* A read request is handled and its call completes.
ReplicaRead(c, r) ==
    /\ phase[c] = "read" /\ Pending(c, r)
    /\ Reply(c, r, store[r])
    /\ UNCHANGED <<scenario, store, phase, object, late, ops, requested, seen, floor, answer>>

\* A write request is handled and its call completes.
ReplicaWrite(c, r) ==
    /\ Writing(c) /\ Pending(c, r)
    /\ Store(r, object[c])
    /\ Reply(c, r, Ack)
    /\ UNCHANGED <<scenario, phase, object, late, ops, requested, seen, floor, answer>>

\* A write request is handled whose coordinator has gone on.
LateWrite(m) ==
    /\ m \in late
    /\ Store(m.to, m.register)
    /\ late' = late \ {m}
    /\ UNCHANGED <<scenario, phase, reply, object, ops, requested, seen, floor, answer>>

\* The register of a replica is gone: the handler of reset, or a restart.
Clear(r) ==
    /\ store' = [store EXCEPT ![r] = NoRegister]
    /\ UNCHANGED <<scenario, phase, reply, object, late, ops, requested, seen, floor, answer>>

Reset(r) == "reset" \in scenario.faults /\ Clear(r)
Restart(r) == "restart" \in scenario.faults /\ Clear(r)

\* async_read throws service_unavailable; async_write ignores the result of
\* Post and completes as if the request had been handled.
CallFails(c, r) == Pending(c, r) /\ Reply(c, r, IF Writing(c) THEN Ack ELSE NoRegister)

Unreachable(c, r) ==
    /\ "unreachable" \in scenario.faults
    /\ CallFails(c, r)
    /\ UNCHANGED <<scenario, store, phase, object, late, ops, requested, seen, floor, answer>>

TimedOut(c, r) ==
    /\ "timeout" \in scenario.faults
    /\ CallFails(c, r)
    /\ late' = IF Writing(c) THEN late \cup {[to |-> r, register |-> object[c]]} ELSE late
    /\ UNCHANGED <<scenario, store, phase, object, ops, requested, seen, floor, answer>>

-----------------------------------------------------------------------------
(* A coordinator.                                                          *)

\* The handlers start: requests go to all replicas.
Call(c, p, w) ==
    /\ phase[c] = "idle" /\ ops[c] < scenario.ops
    /\ phase' = [phase EXCEPT ![c] = p]
    /\ object' = [object EXCEPT ![c] = w]
    /\ reply' = [reply EXCEPT ![c] = [r \in Replicas |-> Waiting]]
    /\ ops' = [ops EXCEPT ![c] = @ + 1]
    /\ floor' = [floor EXCEPT ![c] = seen]
    /\ answer' = [answer EXCEPT ![c] = Waiting]
    /\ UNCHANGED <<scenario, store, late, seen>>

CallRead(c) == Call(c, "read", NoRegister) /\ UNCHANGED requested
CallWrite(c, w) == Call(c, "write", w) /\ requested' = requested \cup {w}

\* first_n: the first Quorum calls that complete.
Completed(c, P) ==
    /\ P \subseteq {r \in Replicas : reply[c][r] # Waiting}
    /\ Cardinality(P) = Quorum

\* get_fresh_snapshot: the first snapshot with the greatest value.
Freshest(c, P, f) ==
    /\ f \in P /\ reply[c][f] # NoRegister
    /\ \A r \in P : reply[c][r] # NoRegister =>
          \/ reply[c][r].value < reply[c][f].value
          \/ reply[c][r].value = reply[c][f].value /\ f <= r

\* The client is answered: x, on account of register w.
Answer(c, x, w) ==
    /\ phase' = [phase EXCEPT ![c] = "idle"]
    /\ answer' = [answer EXCEPT ![c] = x]
    /\ seen' = IF w = NoRegister THEN seen ELSE seen \cup {w}
    /\ UNCHANGED <<scenario, store, reply, object, ops, requested, floor>>

\* The writes that have not been handled when the coordinator goes on.
Leftover(c) == {[to |-> r, register |-> object[c]] : r \in {q \in Replicas : Pending(c, q)}}

\* No snapshot of the quorum has a value: not_found_latest_value, 404.
ReadNothing(c) ==
    /\ phase[c] = "read"
    /\ \E P \in SUBSET Replicas : Completed(c, P) /\ \A r \in P : reply[c][r] = NoRegister
    /\ Answer(c, NoRegister, NoRegister)
    /\ UNCHANGED late

\* is_consistent: the freshest register is returned at once.
ReadConsistent(c) ==
    /\ phase[c] = "read"
    /\ \E P \in SUBSET Replicas : \E f \in P :
         /\ Completed(c, P) /\ Freshest(c, P, f)
         /\ \A r \in P : reply[c][r] = reply[c][f]
         /\ Answer(c, reply[c][f], reply[c][f])
    /\ UNCHANGED late

\* A defect: an inconsistent quorum is answered without writing back.
ReadAtOnce(c) ==
    /\ phase[c] = "read"
    /\ \E P \in SUBSET Replicas : \E f \in P :
         /\ Completed(c, P) /\ Freshest(c, P, f)
         /\ \E r \in P : reply[c][r] # reply[c][f]
         /\ Answer(c, reply[c][f], reply[c][f])
    /\ UNCHANGED late

\* The freshest register is written back first.
ReadInconsistent(c) ==
    /\ phase[c] = "read"
    /\ \E P \in SUBSET Replicas : \E f \in P :
         /\ Completed(c, P) /\ Freshest(c, P, f)
         /\ \E r \in P : reply[c][r] # reply[c][f]
         /\ object' = [object EXCEPT ![c] = reply[c][f]]
    /\ phase' = [phase EXCEPT ![c] = "back"]
    /\ reply' = [reply EXCEPT ![c] = [r \in Replicas |-> Waiting]]
    /\ UNCHANGED <<scenario, store, late, ops, requested, seen, floor, answer>>

\* A defect: one call less than a majority is waited for.
FinishWriteEarly(c) ==
    /\ Writing(c)
    /\ Cardinality({r \in Replicas : reply[c][r] # Waiting}) >= Quorum - 1
    /\ late' = late \cup Leftover(c)
    /\ Answer(c, IF phase[c] = "write" THEN Ack ELSE object[c], object[c])

\* store_to_replicas returns: the write is confirmed, or the read answered.
FinishWrite(c) ==
    /\ Writing(c)
    /\ \E P \in SUBSET Replicas : Completed(c, P)
    /\ late' = late \cup Leftover(c)
    /\ Answer(c, IF phase[c] = "write" THEN Ack ELSE object[c], object[c])

Coordinator(c) == ReadNothing(c) \/ ReadConsistent(c) \/ ReadInconsistent(c) \/ FinishWrite(c)
Replica(c, r) == ReplicaRead(c, r) \/ ReplicaWrite(c, r)

\* Every client has been answered and nothing is on its way.
Done == /\ \A c \in Clients : phase[c] = "idle" /\ ops[c] = scenario.ops
        /\ late = {}
        /\ UNCHANGED vars

Next ==
    \/ \E c \in Clients : CallRead(c) \/ Coordinator(c) \/ \E w \in Writes : CallWrite(c, w)
    \/ \E c \in Clients, r \in Replicas : Replica(c, r) \/ Unreachable(c, r) \/ TimedOut(c, r)
    \/ \E r \in Replicas : Reset(r) \/ Restart(r)
    \/ \E m \in late : LateWrite(m)
    \/ Done

Spec == Init /\ [][Next]_vars

-----------------------------------------------------------------------------
Holds(r, w) == store[r] # NoRegister /\ store[r].timestamp >= w.timestamp

\* What was confirmed to a writer or returned to a reader is held, or has been
\* superseded, on a majority of the replicas from then on: '200' means "The
\* new value was successfully written" (apis__register.v1_openapi.yaml:65).
MajorityHolds ==
    \A w \in seen : \E P \in SUBSET Replicas :
        Cardinality(P) = Quorum /\ \A r \in P : Holds(r, w)

FaultFree == scenario.faults = {}

\* The same, while nothing fails: neither concurrent writes nor late ones, nor
\* the write-backs of reads, take a confirmed register from its majority
\* (cluster_value_object::store_to_replicas).
ConfirmedStored == FaultFree => MajorityHolds

NewerOrSame(x, w) == x # NoRegister /\ x.timestamp >= w.timestamp

ReadIsAtomic(c) ==
    answer[c] \notin {Waiting, Ack} => \A w \in floor[c] : NewerOrSame(answer[c], w)

\* While nothing fails, a read returns a register no older than any that had
\* been confirmed to a writer, or returned to another reader, before the read
\* was called: take the maximum "by timestamp"
\* (test_spec_majority_quorum.py:7-9).
ReadsAreAtomic == FaultFree => \A c \in Clients : ReadIsAtomic(c)

\* The inductive invariant.  FloorKept: what a read must not miss stays
\* visible to it, on a majority, through the replicas that it has not heard of
\* yet or through the answers it has.  What a read returns, or writes back, is
\* no older if values grow with timestamps.
ValuesFollowTimestamps ==
    \A v, w \in Writes : v.value <= w.value <=> v.timestamp <= w.timestamp

AcksTrue(c) == Writing(c) =>
    /\ object[c] \in Writes
    /\ \A r \in Replicas : reply[c][r] # Waiting => Holds(r, object[c])

SnapshotsTrue(c) == phase[c] = "read" =>
    \A r \in Replicas : /\ reply[c][r] # Ack
                        /\ reply[c][r] \in Writes => Holds(r, reply[c][r])

Visible(c, r, w) == IF reply[c][r] = Waiting THEN Holds(r, w) ELSE NewerOrSame(reply[c][r], w)

FloorKept(c) == phase[c] = "read" =>
    \A w \in floor[c] : \E P \in SUBSET Replicas :
        Cardinality(P) = Quorum /\ \A r \in P : Visible(c, r, w)

BackFresh(c) == phase[c] = "back" => \A w \in floor[c] : NewerOrSame(object[c], w)

ClientInv(c) ==
    /\ AcksTrue(c) /\ SnapshotsTrue(c) /\ FloorKept(c)
    /\ ValuesFollowTimestamps => ReadIsAtomic(c) /\ BackFresh(c)

Inv == TypeOK /\ MajorityHolds /\ \A c \in Clients : ClientInv(c)

\* While nothing fails, and nothing is on its way any more, every replica holds the register with
\* the greatest timestamp of all those requested, slow replicas included.
ReplicasConverge ==
    (FaultFree /\ (\A c \in Clients : phase[c] = "idle") /\ late = {}) =>
        \A r \in Replicas, w \in requested : Holds(r, w)

\* Whatever fails and however late a write arrives, a replica that has a
\* register never goes back to an older one.
NoRollback ==
    [][\A r \in Replicas : (store[r] # NoRegister /\ store'[r] # NoRegister) =>
          store'[r].timestamp >= store[r].timestamp]_vars

=============================================================================
