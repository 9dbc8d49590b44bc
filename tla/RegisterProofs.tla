--------------------------- MODULE RegisterProofs ---------------------------
(***************************************************************************)
(* The replicated register for any number of replicas and clients.  While  *)
(* nothing fails: what is confirmed stays on a majority, a read misses     *)
(* nothing that was confirmed or returned before it was called, and every  *)
(* write reaches every replica.  Whatever fails: a replica never goes back *)
(* to an older register.  The inductive invariant of the first two is Inv; *)
(* the proof uses that majorities intersect and that replicas never lose   *)
(* anything.                                                               *)
(***************************************************************************)
EXTENDS Register, FiniteSetTheorems, TLAPS

\* Any two quorums of majority_quorum_policy have a replica in common.
LEMMA QuorumsMeet ==
  ASSUME NEW P \in SUBSET Replicas, NEW Q \in SUBSET Replicas,
         Cardinality(P) = Quorum, Cardinality(Q) = Quorum
  PROVE  \E r \in Replicas : r \in P /\ r \in Q
<1>1. IsFiniteSet(Replicas) /\ Cardinality(Replicas) = N
    BY FS_Interval, RegisterAssumption DEF Replicas
<1>2. Quorum + Quorum > N
    BY RegisterAssumption DEF Quorum
<1>3. P \cap Q # {}
    BY <1>1, <1>2, FS_MajoritiesIntersect
<1> QED
    BY <1>3

\* register_::pimpl::write: afterwards the replica holds what was written or
\* something newer, and no replica has lost anything.
LEMMA StoreGrows ==
  ASSUME TypeOK, NEW r \in Replicas, NEW w \in Writes, Store(r, w)
  PROVE  /\ store' \in [Replicas -> Registers]
         /\ Holds(r, w)'
         /\ \A q \in Replicas, v \in Writes : Holds(q, v) => Holds(q, v)'
<1>1. \A x \in Writes : x.timestamp \in Nat
    BY RegisterAssumption
<1>2. \A q \in Replicas : store[q] = NoRegister \/ store[q] \in Writes
    BY DEF TypeOK, Registers
<1>3. CASE store[r] = NoRegister \/ store[r].timestamp < w.timestamp
  <2>1. store' = [store EXCEPT ![r] = w]
      BY <1>3 DEF Store
  <2> QED
      BY <1>1, <1>2, <1>3, <2>1, RegisterAssumption DEF TypeOK, Registers, Holds
<1>4. CASE ~(store[r] = NoRegister \/ store[r].timestamp < w.timestamp)
  <2>1. store' = store
      BY <1>4 DEF Store
  <2> QED
      BY <1>1, <1>2, <1>4, <2>1 DEF TypeOK, Registers, Holds
<1> QED
    BY <1>3, <1>4

\* No replica loses anything in a step.
Grows == \A q \in Replicas, v \in Writes : Holds(q, v) => Holds(q, v)'

\* What was confirmed stays on its majority.
LEMMA ConfirmedKept ==
  ASSUME TypeOK, MajorityHolds, Grows, NEW S \in SUBSET Writes, seen' = seen \cup S,
         \A w \in S : \E P \in SUBSET Replicas :
            Cardinality(P) = Quorum /\ \A r \in P : Holds(r, w)'
  PROVE  MajorityHolds'
<1> SUFFICES ASSUME NEW w \in seen'
             PROVE  \E P \in SUBSET Replicas : Cardinality(P) = Quorum /\ \A r \in P : Holds(r, w)'
    BY DEF MajorityHolds, Holds
<1>1. CASE w \in seen
  <2>1. PICK P \in SUBSET Replicas : Cardinality(P) = Quorum /\ \A r \in P : Holds(r, w)
      BY <1>1 DEF MajorityHolds
  <2>2. w \in Writes
      BY <1>1 DEF TypeOK
  <2> QED
      BY <2>1, <2>2 DEF Grows
<1>2. CASE w \in S
    BY <1>2
<1> QED
    BY <1>1, <1>2

\* A client that a step does not concern keeps its part of the invariant.
Untouched(c) == /\ phase'[c] = phase[c] /\ reply'[c] = reply[c] /\ object'[c] = object[c]
                /\ floor'[c] = floor[c] /\ answer'[c] = answer[c]

LEMMA UntouchedKept ==
  ASSUME TypeOK, Grows, NEW c \in Clients, ClientInv(c), Untouched(c)
  PROVE  ClientInv(c)'
<1>1. floor[c] \subseteq Writes
    BY DEF TypeOK
<1>2. \A r \in Replicas, w \in floor[c] : Visible(c, r, w) => Visible(c, r, w)'
    BY <1>1 DEF Visible, Untouched, Grows, NewerOrSame
<1>3. AcksTrue(c)'
    BY DEF ClientInv, AcksTrue, Untouched, Grows, Writing
<1>4. SnapshotsTrue(c)'
    BY DEF ClientInv, SnapshotsTrue, Untouched, Grows
<1>5. FloorKept(c)'
  <2> SUFFICES ASSUME phase'[c] = "read", NEW w \in floor'[c]
               PROVE  \E P \in SUBSET Replicas :
                         Cardinality(P) = Quorum /\ \A r \in P : Visible(c, r, w)'
      BY DEF FloorKept
  <2>1. phase[c] = "read" /\ w \in floor[c]
      BY DEF Untouched
  <2>2. PICK P \in SUBSET Replicas : Cardinality(P) = Quorum /\ \A r \in P : Visible(c, r, w)
      BY <2>1 DEF ClientInv, FloorKept
  <2> QED
      BY <1>2, <2>1, <2>2
<1>6. ValuesFollowTimestamps => ReadIsAtomic(c)' /\ BackFresh(c)'
    BY DEF ClientInv, BackFresh, ReadIsAtomic, Untouched, NewerOrSame
<1> QED
    BY <1>3, <1>4, <1>5, <1>6 DEF ClientInv

\* A read that has heard of a quorum has heard of everything in its floor.
LEMMA FloorHeard ==
  ASSUME TypeOK, NEW c \in Clients, ClientInv(c), phase[c] = "read",
         NEW P \in SUBSET Replicas, Completed(c, P), NEW w \in floor[c]
  PROVE  \E r \in P : reply[c][r] \in Writes /\ NewerOrSame(reply[c][r], w)
<1>1. PICK Q \in SUBSET Replicas : Cardinality(Q) = Quorum /\ \A r \in Q : Visible(c, r, w)
    BY DEF ClientInv, FloorKept
<1>2. PICK r \in Replicas : r \in P /\ r \in Q
    BY <1>1, QuorumsMeet DEF Completed
<1>3. reply[c][r] # Waiting /\ reply[c][r] # Ack
    BY <1>2 DEF Completed, ClientInv, SnapshotsTrue
<1>4. NewerOrSame(reply[c][r], w)
    BY <1>1, <1>2, <1>3 DEF Visible
<1>5. reply[c][r] \in Registers \cup {Ack, Waiting}
    BY DEF TypeOK
<1> QED
    BY <1>2, <1>3, <1>4, <1>5 DEF Registers, NewerOrSame

\* Initially nothing has been confirmed.
LEMMA InitInv == Init => Inv
<1> SUFFICES ASSUME Init PROVE Inv
    OBVIOUS
<1>1. TypeOK
    BY RegisterAssumption DEF Init, TypeOK, Registers, Messages
<1>2. MajorityHolds
    BY DEF Init, MajorityHolds
<1>3. ASSUME NEW c \in Clients PROVE ClientInv(c)
    BY DEF Init, ClientInv, ReadIsAtomic, AcksTrue, Writing, SnapshotsTrue, FloorKept, BackFresh
<1> QED
    BY <1>1, <1>2, <1>3 DEF Inv

\* Steps that do not touch the clients' history or the confirmed registers.
LEMMA ReplicaReadKeeps ==
  ASSUME Inv, NEW c \in Clients, NEW r \in Replicas, ReplicaRead(c, r)
  PROVE  Inv'
<1>1. TypeOK'
    BY DEF Inv, TypeOK, ReplicaRead, Reply
<1>2. Grows
    BY DEF ReplicaRead, Grows, Holds
<1>3. MajorityHolds'
    BY <1>2 DEF Inv, MajorityHolds, ReplicaRead, Holds
<1>4. ASSUME NEW d \in Clients, d # c PROVE ClientInv(d)'
    BY <1>2, <1>4, UntouchedKept DEF Inv, TypeOK, ReplicaRead, Reply, Untouched
<1>5. /\ phase'[c] = "read" /\ phase' = phase /\ store' = store /\ floor' = floor
      /\ answer' = answer /\ reply[c][r] = Waiting
      /\ reply'[c][r] = store[r]
      /\ \A q \in Replicas : q # r => reply'[c][q] = reply[c][q]
    BY DEF Inv, TypeOK, ReplicaRead, Pending, Reply
<1>6. store[r] \in Registers /\ store[r] # Ack /\ store[r] # Waiting
    BY RegisterAssumption DEF Inv, TypeOK, Registers
<1>7. SnapshotsTrue(c)'
  <2>1. store[r] \in Writes => store[r].timestamp \in Nat
      BY RegisterAssumption
  <2> QED
      BY <1>5, <1>6, <2>1, RegisterAssumption DEF Inv, ClientInv, SnapshotsTrue, Holds
<1>8. FloorKept(c)'
  <2>1. \A q \in Replicas, w \in floor[c] : Visible(c, q, w) => Visible(c, q, w)'
      BY <1>5, <1>6 DEF Visible, Holds, NewerOrSame
  <2> QED
      BY <1>5, <2>1 DEF Inv, ClientInv, FloorKept
<1>9. AcksTrue(c)' /\ (ValuesFollowTimestamps => ReadIsAtomic(c)' /\ BackFresh(c)')
    BY <1>5 DEF Inv, ClientInv, ReadIsAtomic, AcksTrue, BackFresh, Writing, NewerOrSame
<1> QED
    BY <1>1, <1>3, <1>4, <1>7, <1>8, <1>9 DEF Inv, ClientInv

LEMMA ReplicaWriteKeeps ==
  ASSUME Inv, NEW c \in Clients, NEW r \in Replicas, ReplicaWrite(c, r)
  PROVE  Inv'
<1>1. object[c] \in Writes
    BY DEF Inv, ClientInv, AcksTrue, ReplicaWrite
<1>2. store' \in [Replicas -> Registers] /\ Holds(r, object[c])' /\ Grows
    BY <1>1, StoreGrows DEF Inv, ReplicaWrite, Grows, Holds
<1>3. TypeOK'
    BY <1>2 DEF Inv, TypeOK, ReplicaWrite, Reply
<1>4. MajorityHolds'
  <2>1. seen' = seen \cup {} /\ {} \in SUBSET Writes
      BY DEF ReplicaWrite
  <2> QED
      BY <1>2, <2>1, ConfirmedKept DEF Inv
<1>5. ASSUME NEW d \in Clients, d # c PROVE ClientInv(d)'
    BY <1>2, <1>5, UntouchedKept DEF Inv, TypeOK, ReplicaWrite, Reply, Untouched
<1>6. /\ phase' = phase /\ phase[c] \in {"write", "back"} /\ object' = object
      /\ floor' = floor /\ answer' = answer
      /\ \A q \in Replicas : q # r => reply'[c][q] = reply[c][q]
    BY DEF Inv, TypeOK, ReplicaWrite, Writing, Reply
<1>7. AcksTrue(c)'
    BY <1>1, <1>2, <1>6 DEF Inv, ClientInv, AcksTrue, Writing, Grows
<1>8. SnapshotsTrue(c)' /\ FloorKept(c)' /\ (ValuesFollowTimestamps => ReadIsAtomic(c)' /\ BackFresh(c)')
    BY <1>6 DEF Inv, ClientInv, ReadIsAtomic, SnapshotsTrue, FloorKept, BackFresh, NewerOrSame
<1> QED
    BY <1>3, <1>4, <1>5, <1>7, <1>8 DEF Inv, ClientInv

LEMMA LateWriteKeeps ==
  ASSUME Inv, NEW m \in late, LateWrite(m)
  PROVE  Inv'
<1>1. m.to \in Replicas /\ m.register \in Writes
    BY DEF Inv, TypeOK, Messages
<1>2. store' \in [Replicas -> Registers] /\ Grows
    BY <1>1, StoreGrows DEF Inv, LateWrite, Grows
<1>3. TypeOK'
    BY <1>2 DEF Inv, TypeOK, LateWrite
<1>4. MajorityHolds'
  <2>1. seen' = seen \cup {} /\ {} \in SUBSET Writes
      BY DEF LateWrite
  <2> QED
      BY <1>2, <2>1, ConfirmedKept DEF Inv
<1>5. ASSUME NEW d \in Clients PROVE ClientInv(d)'
    BY <1>2, UntouchedKept DEF Inv, LateWrite, Untouched
<1> QED
    BY <1>3, <1>4, <1>5 DEF Inv

\* A new operation: everything confirmed so far becomes its floor.
LEMMA CallKeeps ==
  ASSUME Inv, NEW c \in Clients, NEW p \in {"read", "write"}, NEW x \in Registers,
         p = "write" => x \in Writes, Call(c, p, x),
         requested' \subseteq Writes
  PROVE  Inv'
<1>1. TypeOK'
    BY DEF Inv, TypeOK, Call
<1>2. Grows
    BY DEF Call, Grows, Holds
<1>3. MajorityHolds'
    BY DEF Inv, MajorityHolds, Call, Holds
<1>4. ASSUME NEW d \in Clients, d # c PROVE ClientInv(d)'
    BY <1>2, <1>4, UntouchedKept DEF Inv, TypeOK, Call, Untouched
<1>5. /\ phase'[c] = p /\ object'[c] = x /\ floor'[c] = seen /\ answer'[c] = Waiting
      /\ store' = store
      /\ \A r \in Replicas : reply'[c][r] = Waiting
    BY DEF Inv, TypeOK, Call
<1>6. AcksTrue(c)' /\ (ValuesFollowTimestamps => ReadIsAtomic(c)' /\ BackFresh(c)')
    BY <1>5 DEF ReadIsAtomic, AcksTrue, BackFresh, Writing
<1>7. SnapshotsTrue(c)'
    BY <1>5, RegisterAssumption DEF SnapshotsTrue
<1>8. FloorKept(c)'
    BY <1>5 DEF Inv, MajorityHolds, FloorKept, Visible, Holds
<1> QED
    BY <1>1, <1>3, <1>4, <1>6, <1>7, <1>8 DEF Inv, ClientInv

\* An operation is answered with x: x must not be older than the floor of a
\* read, and the register w behind the answer must be on a majority.
LEMMA AnswerKeeps ==
  ASSUME Inv, NEW c \in Clients, NEW x \in Registers \cup {Ack}, NEW w \in Registers,
         Answer(c, x, w), late' \subseteq Messages,
         ValuesFollowTimestamps /\ x # Ack => \A v \in floor[c] : NewerOrSame(x, v),
         w \in Writes => \E P \in SUBSET Replicas :
            Cardinality(P) = Quorum /\ \A r \in P : Holds(r, w)
  PROVE  Inv'
<1> DEFINE S == {w} \ {NoRegister}
<1>1. S \in SUBSET Writes /\ seen' = seen \cup S
    BY DEF Answer, Registers
<1>2. TypeOK'
    BY <1>1 DEF Inv, TypeOK, Answer
<1>3. Grows /\ \A q \in Replicas : Holds(q, w) => Holds(q, w)'
    BY DEF Answer, Grows, Holds
<1>4. ASSUME NEW v \in S
      PROVE  \E P \in SUBSET Replicas : Cardinality(P) = Quorum /\ \A r \in P : Holds(r, v)'
    BY <1>1, <1>3
<1>5. MajorityHolds'
    BY <1>1, <1>3, <1>4, ConfirmedKept DEF Inv
<1>6. ASSUME NEW d \in Clients, d # c PROVE ClientInv(d)'
    BY <1>3, <1>6, UntouchedKept DEF Inv, TypeOK, Answer, Untouched
<1>7. phase'[c] = "idle" /\ answer'[c] = x /\ floor' = floor
    BY DEF Inv, TypeOK, Answer
<1>8. ValuesFollowTimestamps => ReadIsAtomic(c)'
    BY <1>7 DEF ReadIsAtomic, NewerOrSame
<1>9. AcksTrue(c)' /\ SnapshotsTrue(c)' /\ FloorKept(c)' /\ BackFresh(c)'
    BY <1>7 DEF AcksTrue, SnapshotsTrue, FloorKept, BackFresh, Writing
<1> QED
    BY <1>2, <1>5, <1>6, <1>8, <1>9 DEF Inv, ClientInv

\* A quorum without any register: nothing can have been confirmed before.
LEMMA ReadNothingKeeps ==
  ASSUME Inv, NEW c \in Clients, ReadNothing(c)
  PROVE  Inv'
<1>1. PICK P \in SUBSET Replicas : Completed(c, P) /\ \A r \in P : reply[c][r] = NoRegister
    BY DEF ReadNothing
<1>2. floor[c] = {}
    BY <1>1, FloorHeard DEF Inv, ReadNothing, NewerOrSame
<1>3. Answer(c, NoRegister, NoRegister) /\ late' \subseteq Messages
    BY DEF Inv, TypeOK, ReadNothing
<1> QED
    BY <1>2, <1>3, AnswerKeeps, RegisterAssumption DEF Registers

\* The freshest register of a quorum is a register of some client.
LEMMA FreshestIsRegister ==
  ASSUME Inv, NEW c \in Clients, phase[c] = "read", NEW P \in SUBSET Replicas,
         Completed(c, P), NEW f \in P, Freshest(c, P, f)
  PROVE  reply[c][f] \in Writes
<1>1. reply[c][f] # Waiting /\ reply[c][f] # Ack /\ reply[c][f] # NoRegister
    BY DEF Inv, ClientInv, SnapshotsTrue, Completed, Freshest
<1>2. reply[c][f] \in Registers \cup {Ack, Waiting}
    BY DEF Inv, TypeOK
<1> QED
    BY <1>1, <1>2 DEF Registers

\* A consistent quorum is a majority that holds what is returned.
LEMMA ReadConsistentKeeps ==
  ASSUME Inv, NEW c \in Clients, ReadConsistent(c)
  PROVE  Inv'
<1>1. PICK P \in SUBSET Replicas : \E f \in P :
         /\ Completed(c, P) /\ Freshest(c, P, f)
         /\ \A r \in P : reply[c][r] = reply[c][f]
         /\ Answer(c, reply[c][f], reply[c][f])
    BY DEF ReadConsistent
<1>2. PICK f \in P :
         /\ Completed(c, P) /\ Freshest(c, P, f)
         /\ \A r \in P : reply[c][r] = reply[c][f]
         /\ Answer(c, reply[c][f], reply[c][f])
    BY <1>1
<1> DEFINE x == reply[c][f]
<1>3. phase[c] = "read" /\ late' \subseteq Messages
    BY DEF Inv, TypeOK, ReadConsistent
<1>4. x \in Writes
    BY <1>2, <1>3, FreshestIsRegister
<1>5. \A v \in floor[c] : NewerOrSame(x, v)
    BY <1>2, <1>3, FloorHeard DEF Inv
<1>6. Cardinality(P) = Quorum /\ \A r \in P : Holds(r, x)
    BY <1>2, <1>3, <1>4 DEF Completed, Inv, ClientInv, SnapshotsTrue
<1>7. x \in Registers /\ Answer(c, x, x)
    BY <1>2, <1>4 DEF Registers
<1> HIDE DEF x
<1> QED
    BY <1>3, <1>5, <1>6, <1>7, AnswerKeeps

\* The register written back is no older than the floor of the read: the
\* greatest value of the quorum has the greatest timestamp.
LEMMA ReadInconsistentKeeps ==
  ASSUME Inv, NEW c \in Clients, ReadInconsistent(c)
  PROVE  Inv'
<1>1. PICK P \in SUBSET Replicas : \E f \in P :
         /\ Completed(c, P) /\ Freshest(c, P, f)
         /\ object' = [object EXCEPT ![c] = reply[c][f]]
    BY DEF ReadInconsistent
<1>2. PICK f \in P : /\ Completed(c, P) /\ Freshest(c, P, f)
                     /\ object' = [object EXCEPT ![c] = reply[c][f]]
    BY <1>1
<1>3. phase[c] = "read"
    BY DEF ReadInconsistent
<1>4. reply[c][f] \in Writes
    BY <1>2, <1>3, FreshestIsRegister
<1>5. ASSUME ValuesFollowTimestamps, NEW v \in floor[c] PROVE NewerOrSame(reply[c][f], v)
  <2>1. PICK r \in P : reply[c][r] \in Writes /\ NewerOrSame(reply[c][r], v)
      BY <1>2, <1>3, FloorHeard DEF Inv
  <2>2. reply[c][r].value <= reply[c][f].value
      BY <1>2, <1>4, <2>1, RegisterAssumption DEF Freshest
  <2>3. reply[c][r].timestamp <= reply[c][f].timestamp
      BY <1>4, <1>5, <2>1, <2>2 DEF ValuesFollowTimestamps
  <2>4. v \in Writes
      BY DEF Inv, TypeOK
  <2> QED
      BY <1>4, <2>1, <2>3, <2>4, RegisterAssumption DEF NewerOrSame
<1>6. TypeOK'
    BY <1>2, <1>4 DEF Inv, TypeOK, Registers, ReadInconsistent
<1>7. Grows
    BY DEF ReadInconsistent, Grows, Holds
<1>8. MajorityHolds'
    BY DEF Inv, MajorityHolds, ReadInconsistent, Holds
<1>9. ASSUME NEW d \in Clients, d # c PROVE ClientInv(d)'
    BY <1>2, <1>7, <1>9, UntouchedKept DEF Inv, TypeOK, ReadInconsistent, Untouched
<1>10. /\ phase'[c] = "back" /\ object'[c] = reply[c][f] /\ floor' = floor /\ answer' = answer
       /\ \A r \in Replicas : reply'[c][r] = Waiting
    BY <1>2 DEF Inv, TypeOK, ReadInconsistent
<1>11. AcksTrue(c)' /\ SnapshotsTrue(c)' /\ FloorKept(c)'
    BY <1>4, <1>10 DEF AcksTrue, SnapshotsTrue, FloorKept
<1>12. ValuesFollowTimestamps => ReadIsAtomic(c)' /\ BackFresh(c)'
    BY <1>5, <1>10 DEF Inv, ClientInv, BackFresh, ReadIsAtomic, NewerOrSame
<1> QED
    BY <1>6, <1>8, <1>9, <1>11, <1>12 DEF Inv, ClientInv

\* The calls that completed did store the register: nothing fails.
LEMMA FinishWriteKeeps ==
  ASSUME Inv, NEW c \in Clients, FinishWrite(c)
  PROVE  Inv'
<1>1. PICK P \in SUBSET Replicas : Completed(c, P)
    BY DEF FinishWrite
<1> DEFINE x == IF phase[c] = "write" THEN Ack ELSE object[c]
<1>2. object[c] \in Writes /\ Writing(c)
    BY DEF FinishWrite, Inv, ClientInv, AcksTrue
<1>3. Cardinality(P) = Quorum /\ \A r \in P : Holds(r, object[c])
    BY <1>1, <1>2 DEF Completed, Inv, ClientInv, AcksTrue
<1>4. late' \subseteq Messages
    BY <1>2 DEF FinishWrite, Leftover, Messages, Inv, TypeOK
<1>5. x \in Registers \cup {Ack} /\ object[c] \in Registers
    BY <1>2 DEF Registers
<1>6. ValuesFollowTimestamps /\ x # Ack => \A v \in floor[c] : NewerOrSame(x, v)
    BY <1>2 DEF Inv, ClientInv, BackFresh, Writing
<1>7. Answer(c, x, object[c])
    BY DEF FinishWrite
<1> HIDE DEF x
<1> QED
    BY <1>3, <1>4, <1>5, <1>6, <1>7, AnswerKeeps

\* Stuttering.
LEMMA UnchangedKeeps == (Inv /\ UNCHANGED vars) => Inv'
<1> SUFFICES ASSUME Inv, UNCHANGED vars PROVE Inv'
    OBVIOUS
<1>1. Grows
    BY DEF vars, Grows, Holds
<1>2. TypeOK' /\ MajorityHolds'
    BY DEF Inv, vars, TypeOK, MajorityHolds, Holds
<1>3. ASSUME NEW c \in Clients PROVE ClientInv(c)'
    BY <1>1, UntouchedKept DEF Inv, vars, Untouched
<1> QED
    BY <1>2, <1>3 DEF Inv

\* One step of the register without faults.
LEMMA NextInv ==
  ASSUME FaultFree, Inv, [Next]_vars
  PROVE  Inv'
<1>1. CASE \E c \in Clients : CallRead(c)
  <2>1. PICK c \in Clients : CallRead(c)
      BY <1>1
  <2> QED
      BY <2>1, CallKeeps, RegisterAssumption DEF CallRead, Registers, Inv, TypeOK
<1>2. CASE \E c \in Clients : \E w \in Writes : CallWrite(c, w)
  <2>1. PICK c \in Clients, w \in Writes : CallWrite(c, w)
      BY <1>2
  <2>2. Call(c, "write", w) /\ requested' \subseteq Writes /\ w \in Registers
      BY <2>1 DEF CallWrite, Inv, TypeOK, Registers
  <2> QED
      BY <2>2, CallKeeps
<1>3. CASE \E c \in Clients : Coordinator(c)
    BY <1>3, ReadNothingKeeps, ReadConsistentKeeps, ReadInconsistentKeeps, FinishWriteKeeps
    DEF Coordinator
<1>4. CASE \E c \in Clients, r \in Replicas : Replica(c, r)
    BY <1>4, ReplicaReadKeeps, ReplicaWriteKeeps DEF Replica
<1>5. CASE \E m \in late : LateWrite(m)
    BY <1>5, LateWriteKeeps
<1>6. CASE Done \/ UNCHANGED vars
    BY <1>6, UnchangedKeeps DEF Done
<1>7. \A c \in Clients, r \in Replicas :
        ~Unreachable(c, r) /\ ~TimedOut(c, r) /\ ~Reset(r) /\ ~Restart(r)
    BY DEF FaultFree, Unreachable, TimedOut, Reset, Restart
<1>8. \A r \in Replicas : ~Reset(r) /\ ~Restart(r)
    BY DEF FaultFree, Reset, Restart
<1> QED
    BY <1>1, <1>2, <1>3, <1>4, <1>5, <1>6, <1>7, <1>8 DEF Next

\* Nothing else happens to the scenario.
LEMMA ScenarioKept == [Next]_vars => (FaultFree' <=> FaultFree)
  BY DEF Next, vars, FaultFree, CallRead, CallWrite, Call, Coordinator, ReadNothing,
         ReadConsistent, ReadInconsistent, FinishWrite, Answer, Replica, ReplicaRead,
         ReplicaWrite, Unreachable, TimedOut, Reset, Restart, Clear, LateWrite, Done

\* The invariant holds as long as nothing fails.
LEMMA InvKept == Spec => [](FaultFree => Inv)
<1>1. Init => (FaultFree => Inv)
    BY InitInv
<1>2. (FaultFree => Inv) /\ [Next]_vars => (FaultFree => Inv)'
    BY ScenarioKept, NextInv
<1> QED
    BY <1>1, <1>2, PTL DEF Spec

\* For any number of replicas and clients and for any values, if nothing
\* fails: what is confirmed to a writer or returned to a reader is held by a
\* majority from then on (cluster_value_object::store_to_replicas).
THEOREM ConfirmedStaysStored == Spec => []ConfirmedStored
<1>1. (FaultFree => Inv) => ConfirmedStored
    BY DEF Inv, ConfirmedStored
<1> QED
    BY <1>1, InvKept, PTL

\* If in addition greater values carry greater timestamps, no read misses what
\* was confirmed or returned before it was called
\* (read_and_write_register_command_handler::handle).
THEOREM RegisterIsAtomic ==
  ASSUME ValuesFollowTimestamps
  PROVE  Spec => []ReadsAreAtomic
<1>1. (FaultFree => Inv) => ReadsAreAtomic
    BY DEF Inv, ClientInv, ReadsAreAtomic
<1> QED
    BY <1>1, InvKept, PTL

-----------------------------------------------------------------------------
\* A register is with the replica, or on its way there with or without a
\* coordinator that waits for it.
Delivered(r, w) ==
    \/ Holds(r, w)
    \/ [to |-> r, register |-> w] \in late
    \/ \E c \in Clients : Writing(c) /\ object[c] = w /\ reply[c][r] = Waiting

\* No write is lost: every register that was requested reaches every replica.
NoWriteLost == \A r \in Replicas, w \in requested : Delivered(r, w)

\* Steps that handle no write and end none.
LEMMA DeliveredKept ==
  ASSUME Inv, NEW r \in Replicas, NEW w \in Writes, Delivered(r, w), Grows, late \subseteq late',
         \A c \in Clients : Writing(c) =>
             /\ phase'[c] = phase[c] /\ object'[c] = object[c]
             /\ reply[c][r] = Waiting => reply'[c][r] = Waiting
  PROVE  Delivered(r, w)'
  BY DEF Delivered, Grows, Writing

\* A replica that handles a write of a coordinator holds it then.
LEMMA ReplicaWriteDelivers ==
  ASSUME Inv, NEW c \in Clients, NEW q \in Replicas, ReplicaWrite(c, q), NoWriteLost
  PROVE  NoWriteLost'
<1> SUFFICES ASSUME NEW r \in Replicas, NEW w \in requested' PROVE Delivered(r, w)'
    BY DEF NoWriteLost
<1>1. requested' = requested /\ w \in Writes /\ Delivered(r, w)
    BY DEF ReplicaWrite, Inv, TypeOK, NoWriteLost
<1>2. object[c] \in Writes
    BY DEF Inv, ClientInv, AcksTrue, ReplicaWrite
<1>3. Holds(q, object[c])' /\ Grows
    BY <1>2, StoreGrows DEF Inv, ReplicaWrite, Grows, Holds
<1>4. CASE Holds(r, w) \/ [to |-> r, register |-> w] \in late
    BY <1>1, <1>3, <1>4 DEF Delivered, Grows, ReplicaWrite
<1>5. ASSUME NEW d \in Clients, Writing(d), object[d] = w, reply[d][r] = Waiting
      PROVE  Delivered(r, w)'
    <2>1. CASE d = c /\ r = q
        BY <1>3, <1>5, <2>1 DEF Delivered, Holds, ReplicaWrite
    <2>2. CASE ~(d = c /\ r = q)
        <3>1. reply'[d][r] = Waiting /\ phase' = phase /\ object' = object
            BY <1>5, <2>2 DEF ReplicaWrite, Reply, Inv, TypeOK
        <3> QED
            BY <1>5, <3>1 DEF Delivered, Writing
    <2> QED
        BY <2>1, <2>2
<1> QED
    BY <1>1, <1>4, <1>5 DEF Delivered

\* So does a replica that handles a write nobody waits for.
LEMMA LateWriteDelivers ==
  ASSUME Inv, NEW m \in late, LateWrite(m), NoWriteLost
  PROVE  NoWriteLost'
<1> SUFFICES ASSUME NEW r \in Replicas, NEW w \in requested' PROVE Delivered(r, w)'
    BY DEF NoWriteLost
<1>1. requested' = requested /\ w \in Writes /\ Delivered(r, w)
    BY DEF LateWrite, Inv, TypeOK, NoWriteLost
<1>2. m.to \in Replicas /\ m.register \in Writes
    BY DEF Inv, TypeOK, Messages
<1>3. Holds(m.to, m.register)' /\ Grows
    BY <1>2, StoreGrows DEF Inv, LateWrite, Grows, Holds
<1>4. CASE Holds(r, w)
    BY <1>1, <1>3, <1>4 DEF Delivered, Grows
<1>5. CASE [to |-> r, register |-> w] \in late
    <2>1. CASE m = [to |-> r, register |-> w]
        BY <1>3, <2>1 DEF Delivered
    <2>2. CASE m # [to |-> r, register |-> w]
        BY <1>5, <2>2 DEF Delivered, LateWrite
    <2> QED
        BY <2>1, <2>2
<1>6. CASE \E c \in Clients : Writing(c) /\ object[c] = w /\ reply[c][r] = Waiting
    BY <1>6 DEF Delivered, LateWrite, Writing
<1> QED
    BY <1>1, <1>4, <1>5, <1>6 DEF Delivered

\* A coordinator that goes on leaves the rest of its writes on their way.
LEMMA FinishWriteDelivers ==
  ASSUME Inv, NEW c \in Clients, FinishWrite(c), NoWriteLost
  PROVE  NoWriteLost'
<1> SUFFICES ASSUME NEW r \in Replicas, NEW w \in requested' PROVE Delivered(r, w)'
    BY DEF NoWriteLost
<1>1. requested' = requested /\ w \in Writes /\ Delivered(r, w)
    BY DEF FinishWrite, Answer, Inv, TypeOK, NoWriteLost
<1>2. store' = store /\ object' = object /\ reply' = reply /\ late \subseteq late'
    BY DEF FinishWrite, Answer
<1>3. CASE Holds(r, w) \/ [to |-> r, register |-> w] \in late
    BY <1>2, <1>3 DEF Delivered, Holds
<1>4. ASSUME NEW d \in Clients, Writing(d), object[d] = w, reply[d][r] = Waiting
      PROVE  Delivered(r, w)'
    <2>1. CASE d = c
        <3>1. [to |-> r, register |-> w] \in Leftover(c)
            BY <1>4, <2>1 DEF Leftover, Pending, Writing
        <3> QED
            BY <3>1 DEF Delivered, FinishWrite
    <2>2. CASE d # c
        <3>1. phase'[d] = phase[d]
            BY <1>4, <2>2 DEF FinishWrite, Answer, Inv, TypeOK
        <3> QED
            BY <1>2, <1>4, <3>1 DEF Delivered, Writing
    <2> QED
        BY <2>1, <2>2
<1> QED
    BY <1>1, <1>3, <1>4 DEF Delivered

\* A new write is on its way to every replica.
LEMMA CallDelivers ==
  ASSUME Inv, NEW c \in Clients, NoWriteLost,
         CallRead(c) \/ \E w \in Writes : CallWrite(c, w)
  PROVE  NoWriteLost'
<1> SUFFICES ASSUME NEW r \in Replicas, NEW w \in requested' PROVE Delivered(r, w)'
    BY DEF NoWriteLost
<1>1. /\ store' = store /\ late' = late /\ phase[c] = "idle"
      /\ phase'[c] \in {"read", "write"} /\ reply'[c][r] = Waiting
      /\ \A d \in Clients : d # c =>
            phase'[d] = phase[d] /\ object'[d] = object[d] /\ reply'[d] = reply[d]
    BY DEF CallRead, CallWrite, Call, Inv, TypeOK
<1>2. CASE w \in requested
    <2>1. w \in Writes /\ Delivered(r, w) /\ Grows
        BY <1>1, <1>2 DEF Inv, TypeOK, NoWriteLost, Grows, Holds
    <2> QED
        BY <1>1, <2>1, DeliveredKept DEF Writing
<1>3. CASE w \notin requested
    <2>1. phase'[c] = "write" /\ object'[c] = w
        BY <1>3 DEF CallRead, CallWrite, Call, Inv, TypeOK
    <2> QED
        BY <1>1, <2>1 DEF Delivered, Writing
<1> QED
    BY <1>2, <1>3

\* Reading loses no write.
LEMMA ReadDelivers ==
  ASSUME Inv, NEW c \in Clients, NoWriteLost,
         \/ ReadNothing(c) \/ ReadConsistent(c) \/ ReadInconsistent(c)
         \/ \E r \in Replicas : ReplicaRead(c, r)
  PROVE  NoWriteLost'
<1> SUFFICES ASSUME NEW r \in Replicas, NEW w \in requested' PROVE Delivered(r, w)'
    BY DEF NoWriteLost
<1>1. /\ store' = store /\ late' = late /\ requested' = requested /\ phase[c] = "read"
      /\ \A d \in Clients : d # c =>
            phase'[d] = phase[d] /\ object'[d] = object[d] /\ reply'[d] = reply[d]
    BY DEF ReadNothing, ReadConsistent, ReadInconsistent, Answer, ReplicaRead, Reply, Inv, TypeOK
<1>2. w \in Writes /\ Delivered(r, w) /\ Grows
    BY <1>1 DEF Inv, TypeOK, NoWriteLost, Grows, Holds
<1> QED
    BY <1>1, <1>2, DeliveredKept DEF Writing

\* One step without faults.
LEMMA NextDelivers ==
  ASSUME FaultFree, Inv, NoWriteLost, [Next]_vars
  PROVE  NoWriteLost'
<1>1. CASE Done \/ UNCHANGED vars
    <2>1. /\ UNCHANGED <<store, phase, reply, object, late, requested>>
          /\ Grows
        BY <1>1 DEF Done, vars, Grows, Holds
    <2> QED
        BY <2>1, DeliveredKept DEF NoWriteLost, Inv, TypeOK
<1>2. \A c \in Clients, r \in Replicas : ~Unreachable(c, r) /\ ~TimedOut(c, r)
    BY DEF FaultFree, Unreachable, TimedOut
<1>3. \A r \in Replicas : ~Reset(r) /\ ~Restart(r)
    BY DEF FaultFree, Reset, Restart
<1> QED
    BY <1>1, <1>2, <1>3, CallDelivers, ReadDelivers, FinishWriteDelivers, ReplicaWriteDelivers,
       LateWriteDelivers DEF Next, Coordinator, Replica

\* While nothing fails every replica ends up with the register of the greatest
\* timestamp, also the replicas that no quorum has waited for.
THEOREM ReplicasDoConverge == Spec => []ReplicasConverge
<1>1. Init => (FaultFree => NoWriteLost)
    BY DEF Init, NoWriteLost
<1>2. (FaultFree => Inv /\ NoWriteLost) /\ [Next]_vars => (FaultFree => NoWriteLost)'
    BY ScenarioKept, NextDelivers
<1>3. (FaultFree => NoWriteLost) => ReplicasConverge
    BY DEF NoWriteLost, Delivered, Writing, ReplicasConverge
<1> QED
    BY <1>1, <1>2, <1>3, InvKept, PTL DEF Spec

-----------------------------------------------------------------------------
\* What holds whatever fails: a coordinator writes a register of some client,
\* and the answers to a read are registers or failures.
Typed ==
    /\ TypeOK
    /\ \A c \in Clients : Writing(c) => object[c] \in Writes
    /\ \A c \in Clients, r \in Replicas : phase[c] = "read" => reply[c][r] # Ack

\* Every step, faults included, keeps the types.
LEMMA NextTyped == Typed /\ [Next]_vars => Typed'
<1> SUFFICES ASSUME Typed, [Next]_vars PROVE Typed'
    OBVIOUS
<1> USE DEF Typed, Writing
<1>1. ASSUME NEW c \in Clients, CallRead(c) \/ \E w \in Writes : CallWrite(c, w) PROVE Typed'
    <2>1. PICK p \in {"read", "write"}, x \in Registers :
             Call(c, p, x) /\ (p = "write" => x \in Writes)
        BY <1>1 DEF CallRead, CallWrite, Registers
    <2>2. reply' \in [Clients -> [Replicas -> Registers \cup {Ack, Waiting}]]
          /\ \A r \in Replicas : reply'[c][r] = Waiting
        BY <2>1 DEF Call, TypeOK
    <2>3. requested' \subseteq Writes
        BY <1>1 DEF CallRead, CallWrite, TypeOK
    <2>4. \A d \in Clients : d # c =>
             phase'[d] = phase[d] /\ object'[d] = object[d] /\ reply'[d] = reply[d]
        BY <2>1 DEF Call, TypeOK
    <2>5. phase'[c] = p /\ object'[c] = x
        BY <2>1 DEF Call, TypeOK
    <2>6. TypeOK'
        BY <2>1, <2>2, <2>3 DEF Call, TypeOK
    <2> QED
        BY <2>1, <2>2, <2>4, <2>5, <2>6, RegisterAssumption
<1>2. ASSUME NEW c \in Clients, ReadNothing(c) PROVE Typed'
    BY <1>2 DEF ReadNothing, Answer, TypeOK, Registers
<1>3. ASSUME NEW c \in Clients, NEW P \in SUBSET Replicas, NEW f \in P, phase[c] = "read",
             Completed(c, P), Freshest(c, P, f)
      PROVE  reply[c][f] \in Writes
    BY <1>3 DEF Completed, Freshest, TypeOK, Registers
<1>4. ASSUME NEW c \in Clients, ReadConsistent(c) PROVE Typed'
    <2>1. PICK x \in Writes : Answer(c, x, x)
        BY <1>3, <1>4 DEF ReadConsistent
    <2> QED
        BY <1>4, <2>1 DEF ReadConsistent, Answer, TypeOK, Registers
<1>5. ASSUME NEW c \in Clients, ReadInconsistent(c) PROVE Typed'
    <2>1. PICK x \in Writes : object' = [object EXCEPT ![c] = x]
        BY <1>3, <1>5 DEF ReadInconsistent
    <2> QED
        BY <1>5, <2>1 DEF ReadInconsistent, TypeOK, Registers
<1>6. ASSUME NEW c \in Clients, FinishWrite(c) PROVE Typed'
    <2>1. late' \subseteq Messages
        BY <1>6 DEF FinishWrite, Leftover, Messages, TypeOK
    <2> QED
        BY <1>6, <2>1 DEF FinishWrite, Answer, TypeOK, Registers
<1>7. ASSUME NEW c \in Clients, NEW r \in Replicas, ReplicaRead(c, r) PROVE Typed'
    <2>1. store[r] \in Registers /\ store[r] # Ack
        BY RegisterAssumption DEF TypeOK, Registers
    <2> QED
        BY <1>7, <2>1 DEF ReplicaRead, Reply, TypeOK
<1>8. ASSUME NEW c \in Clients, NEW r \in Replicas, ReplicaWrite(c, r) PROVE Typed'
    <2>1. store' \in [Replicas -> Registers]
        BY <1>8, StoreGrows DEF ReplicaWrite
    <2> QED
        BY <1>8, <2>1 DEF ReplicaWrite, Reply, TypeOK
<1>9. ASSUME NEW c \in Clients, NEW r \in Replicas, Unreachable(c, r) \/ TimedOut(c, r)
      PROVE  Typed'
    <2>1. late' \subseteq Messages
        BY <1>9 DEF Unreachable, TimedOut, Messages, TypeOK
    <2>2. /\ UNCHANGED <<store, phase, object, ops, requested, seen, floor, answer>>
          /\ CallFails(c, r)
        BY <1>9 DEF Unreachable, TimedOut
    <2>3. PICK x \in {Ack, NoRegister} : /\ reply' = [reply EXCEPT ![c][r] = x]
                                         /\ phase[c] = "read" => x = NoRegister
        BY <2>2 DEF CallFails, Reply
    <2>4. TypeOK'
        BY <2>1, <2>2, <2>3 DEF TypeOK, Registers
    <2>5. \A d \in Clients, q \in Replicas : phase'[d] = "read" => reply'[d][q] # Ack
        BY <2>2, <2>3, RegisterAssumption DEF TypeOK
    <2> QED
        BY <2>2, <2>4, <2>5
<1>10. ASSUME NEW r \in Replicas, Reset(r) \/ Restart(r) PROVE Typed'
    BY <1>10 DEF Reset, Restart, Clear, TypeOK, Registers
<1>11. ASSUME NEW m \in late, LateWrite(m) PROVE Typed'
    <2>1. m.to \in Replicas /\ m.register \in Writes
        BY DEF TypeOK, Messages
    <2>2. store' \in [Replicas -> Registers]
        BY <1>11, <2>1, StoreGrows DEF LateWrite
    <2> QED
        BY <1>11, <2>2 DEF LateWrite, TypeOK
<1>12. CASE Done \/ UNCHANGED vars
    BY <1>12 DEF Done, vars, TypeOK
<1> QED
    BY <1>1, <1>2, <1>4, <1>5, <1>6, <1>7, <1>8, <1>9, <1>10, <1>11, <1>12
    DEF Next, Coordinator, Replica

\* A replica goes from its register to a newer one, or to none.
Forward(r) == (store[r] # NoRegister /\ store'[r] # NoRegister) =>
                 store'[r].timestamp >= store[r].timestamp

\* Every step, faults included, moves the replicas forward.
LEMMA NextForward ==
  ASSUME Typed, [Next]_vars, NEW r \in Replicas
  PROVE  Forward(r)
<1>0. /\ store[r] # NoRegister => store[r].timestamp \in Nat
      /\ store \in [Replicas -> Registers]
    BY RegisterAssumption DEF Typed, TypeOK, Registers
<1>1. ASSUME UNCHANGED store PROVE Forward(r)
    BY <1>0, <1>1 DEF Forward
<1>2. ASSUME NEW q \in Replicas, NEW w \in Writes, Store(q, w) PROVE Forward(r)
    BY <1>0, <1>2, RegisterAssumption DEF Store, Forward
<1>3. ASSUME NEW q \in Replicas, Clear(q) PROVE Forward(r)
    BY <1>0, <1>3 DEF Clear, Forward
<1>4. ASSUME NEW c \in Clients, NEW q \in Replicas, ReplicaWrite(c, q) PROVE Forward(r)
    BY <1>2, <1>4 DEF ReplicaWrite, Typed
<1>5. ASSUME NEW m \in late, LateWrite(m) PROVE Forward(r)
    BY <1>2, <1>5 DEF LateWrite, Typed, TypeOK, Messages
<1>6. CASE \E c \in Clients, q \in Replicas :
             ReplicaRead(c, q) \/ Unreachable(c, q) \/ TimedOut(c, q)
    BY <1>1, <1>6 DEF ReplicaRead, Unreachable, TimedOut
<1>7. CASE \E c \in Clients : CallRead(c) \/ Coordinator(c) \/ \E w \in Writes : CallWrite(c, w)
    BY <1>1, <1>7 DEF CallRead, CallWrite, Call, Coordinator, ReadNothing, ReadConsistent,
                      ReadInconsistent, FinishWrite, Answer
<1>8. CASE Done \/ UNCHANGED vars
    BY <1>1, <1>8 DEF Done, vars
<1> QED
    BY <1>3, <1>4, <1>5, <1>6, <1>7, <1>8 DEF Next, Replica, Reset, Restart

\* Whatever fails, for any values, and however late a write arrives: a replica
\* that has a register never goes back to an older one
\* (register_::pimpl::write).
THEOREM ReplicasGoForward == Spec => NoRollback
<1>1. Init => Typed
    BY InitInv, RegisterAssumption DEF Init, Inv, Typed, Writing
<1>2. Typed /\ [Next]_vars => [\A r \in Replicas : Forward(r)]_vars
    BY NextForward
<1> QED
    BY <1>1, <1>2, NextTyped, PTL DEF Spec, NoRollback, Forward

=============================================================================
