-------------------------- MODULE OwnershipProofs ---------------------------
(***************************************************************************)
(* Safety of shared_ptr, unique_lock, singleton and fibers for any         *)
(* threads, pointers, objects, guards, mutexes, types, fibers and stacks.  *)
(***************************************************************************)
EXTENDS Ownership, Singleton, Fibers, FiniteSetTheorems, SequenceTheorems, TLAPS

(***************************************************************************)
(* shared_ptr.  References to an object are pointers that hold it and      *)
(* temporaries that have yet to be destroyed; the proof counts both.       *)
(***************************************************************************)
OrNone == Objects \cup {NoObject}

SharedTypeOK ==
    /\ holds \in [Pointers -> OrNone] /\ refs \in [Objects -> Int] /\ exists \subseteq Objects
    /\ spc \in [Threads -> {"idle", "release", "delete", "steal"}]
    /\ tmp \in [Threads -> OrNone]
    /\ stealing \in [Threads -> {<<>>} \cup (Pointers \X Pointers)]

\* A temporary has an object as long as it is to be destroyed.
TemporariesUsed ==
    \A t \in Threads : /\ spc[t] \in {"release", "delete"} <=> tmp[t] # NoObject
                       /\ spc[t] = "idle" => stealing[t] = <<>>
                       /\ spc[t] = "steal" => stealing[t] # <<>>

\* The pointers of a move assignment under way are its own, and the one that
\* is assigned to is empty.
StealsApart ==
    \A t \in Threads : stealing[t] # <<>> =>
        /\ holds[stealing[t][1]] = NoObject
        /\ \A u \in Threads : u # t /\ stealing[u] # <<>> =>
              {stealing[t][1], stealing[t][2]} \cap {stealing[u][1], stealing[u][2]} = {}

References(o) == Cardinality(Holders(o)) + Cardinality(Releasing(o))

\* An object is in use, about to be deleted by one thread, or not there.
Owned(o) ==
    \/ o \in exists /\ Deleting(o) = {} /\ References(o) > 0 /\ refs[o] = References(o)
    \/ o \in exists /\ (\E t \in Threads : Deleting(o) = {t}) /\ References(o) = 0 /\ refs[o] = 0
    \/ o \notin exists /\ Deleting(o) = {} /\ References(o) = 0

SharedInv == SharedTypeOK /\ TemporariesUsed /\ StealsApart /\ \A o \in Objects : Owned(o)

Same(a, b) == IF a = b THEN 1 ELSE 0

\* The references of an object, counted.
LEMMA ReferencesType ==
    ASSUME NEW o
    PROVE  /\ Cardinality(Holders(o)) \in Nat /\ Cardinality(Releasing(o)) \in Nat
           /\ References(o) \in Nat
           /\ References(o) = 0 <=> Holders(o) \union Releasing(o) = {}
<1>1. IsFiniteSet(Holders(o)) /\ IsFiniteSet(Releasing(o))
    BY FS_Subset, SharedPtrAssumption, ThreadsAssumption DEF Holders, Releasing
<1> QED
    BY <1>1, FS_CardinalityType, FS_EmptySet DEF References

\* A pointer is given another object.
LEMMA HoldersExcept ==
    ASSUME SharedTypeOK, NEW p \in Pointers, NEW v,
           holds' = [holds EXCEPT ![p] = v], NEW o
    PROVE  Cardinality(Holders(o)') = Cardinality(Holders(o)) - Same(holds[p], o) + Same(v, o)
<1> DEFINE H == Holders(o)
<1>1. IsFiniteSet(H) /\ Cardinality(H) \in Nat
    BY FS_Subset, FS_CardinalityType, SharedPtrAssumption DEF Holders
<1>2. Holders(o)' = IF v = o THEN (H \ {p}) \cup {p} ELSE H \ {p}
    BY DEF Holders, SharedTypeOK
<1>3. p \in H <=> holds[p] = o
    BY DEF Holders
<1>4. IsFiniteSet(H \ {p}) /\ Cardinality(H \ {p}) = Cardinality(H) - Same(holds[p], o)
    BY <1>1, <1>3, FS_RemoveElement DEF Same
<1>5. Cardinality((H \ {p}) \cup {p}) = Cardinality(H \ {p}) + 1
    BY <1>4, FS_AddElement
<1> HIDE DEF H
<1>6. Cardinality(Holders(o)') = Cardinality(H) - Same(holds[p], o) + Same(v, o)
    BY <1>1, <1>2, <1>4, <1>5 DEF Same
<1> QED
    BY <1>6 DEF H

\* A thread goes on, with another temporary.
LEMMA ReleasingExcept ==
    ASSUME SharedTypeOK, NEW t \in Threads, NEW v, NEW s,
           spc' = [spc EXCEPT ![t] = s], tmp' = [tmp EXCEPT ![t] = v], NEW o
    PROVE  /\ Cardinality(Releasing(o)')
                = Cardinality(Releasing(o)) - (IF spc[t] = "release" THEN Same(tmp[t], o) ELSE 0)
                  + (IF s = "release" THEN Same(v, o) ELSE 0)
           /\ Deleting(o)' = IF s = "delete" /\ v = o THEN Deleting(o) \cup {t} ELSE Deleting(o) \ {t}
<1> DEFINE R == Releasing(o)
<1>1. IsFiniteSet(R) /\ Cardinality(R) \in Nat
    BY FS_Subset, FS_CardinalityType, ThreadsAssumption DEF Releasing
<1>2. Releasing(o)' = IF s = "release" /\ v = o THEN (R \ {t}) \cup {t} ELSE R \ {t}
    BY DEF Releasing, SharedTypeOK
<1>3. t \in R <=> spc[t] = "release" /\ tmp[t] = o
    BY DEF Releasing
<1>4. IsFiniteSet(R \ {t}) /\ Cardinality(R \ {t}) = Cardinality(R) - (IF spc[t] = "release" THEN Same(tmp[t], o) ELSE 0)
    BY <1>1, <1>3, FS_RemoveElement DEF Same
<1>5. Cardinality((R \ {t}) \cup {t}) = Cardinality(R \ {t}) + 1
    BY <1>4, FS_AddElement
<1>6. Deleting(o)' = IF s = "delete" /\ v = o THEN Deleting(o) \cup {t} ELSE Deleting(o) \ {t}
    BY DEF Deleting, SharedTypeOK
<1>7. Cardinality(Releasing(o)')
        = Cardinality(R) - (IF spc[t] = "release" THEN Same(tmp[t], o) ELSE 0) + (IF s = "release" THEN Same(v, o) ELSE 0)
  <2> HIDE DEF R
  <2> QED
      BY <1>1, <1>2, <1>4, <1>5 DEF Same
<1> QED
    BY <1>6, <1>7

\* An object whose references only change hands stays owned.
LEMMA OwnedStays ==
    ASSUME NEW o \in Objects, Owned(o), UNCHANGED <<o \in exists, refs[o], Deleting(o), References(o)>>
    PROVE  Owned(o)'
  BY DEF Owned

\* Nothing is there initially.
LEMMA SharedInitInv == SharedInit => SharedInv
<1> SUFFICES ASSUME SharedInit PROVE SharedInv
    OBVIOUS
<1>1. SharedTypeOK
    BY DEF SharedInit, SharedTypeOK, OrNone
<1>2. TemporariesUsed /\ StealsApart
    BY DEF SharedInit, TemporariesUsed, StealsApart
<1>3. ASSUME NEW o \in Objects PROVE Owned(o)
  <2>1. Holders(o) = {} /\ Releasing(o) = {} /\ Deleting(o) = {}
      BY SharedPtrAssumption DEF SharedInit, Holders, Releasing, Deleting
  <2> QED
      BY <2>1, ReferencesType DEF Owned, SharedInit
<1> QED
    BY <1>1, <1>2, <1>3 DEF SharedInv

\* A pointer gives up its object to the temporary of thread t and gets v.
\* The references to every object stay, but for the new one to v.
LEMMA Given ==
    ASSUME SharedInv, NEW t \in Threads, spc[t] = "idle", NEW p \in Pointers, NEW v \in OrNone, NEW s,
           holds' = [holds EXCEPT ![p] = v],
           tmp' = [tmp EXCEPT ![t] = holds[p]], spc' = [spc EXCEPT ![t] = s],
           s = "release" <=> holds[p] # NoObject, s \in {"idle", "release", "steal"},
           NEW o \in Objects
    PROVE  References(o)' = References(o) + Same(v, o) /\ Deleting(o)' = Deleting(o)
<1>1. o # NoObject /\ holds[p] \in OrNone
    BY SharedPtrAssumption DEF SharedInv, SharedTypeOK
<1>2. Cardinality(Holders(o)') = Cardinality(Holders(o)) - Same(holds[p], o) + Same(v, o)
  <2>1. SharedTypeOK
      BY DEF SharedInv
  <2> QED
      BY <2>1, HoldersExcept
<1>3. /\ Cardinality(Releasing(o)')
           = Cardinality(Releasing(o)) - (IF spc[t] = "release" THEN Same(tmp[t], o) ELSE 0)
             + (IF s = "release" THEN Same(holds[p], o) ELSE 0)
      /\ Deleting(o)' = IF s = "delete" /\ holds[p] = o THEN Deleting(o) \cup {t} ELSE Deleting(o) \ {t}
    BY ReleasingExcept DEF SharedInv
<1>4. t \notin Deleting(o) /\ Deleting(o)' = Deleting(o)
    BY <1>3 DEF Deleting
<1>5. Cardinality(Holders(o)) \in Nat /\ Cardinality(Releasing(o)) \in Nat
    BY ReferencesType
<1>6. Cardinality(Releasing(o)') = Cardinality(Releasing(o)) + Same(holds[p], o)
    BY <1>1, <1>3, <1>5 DEF Same
<1>7. References(o)' = References(o) + Same(v, o)
    BY <1>2, <1>5, <1>6 DEF References, Same
<1> QED
    BY <1>4, <1>7

\* What a thread does with pointers it may use leaves the others' moves alone.
LEMMA MovesLeftAlone ==
    ASSUME SharedInv, NEW t \in Threads, NEW p \in Pointers, MayUse(t, p), NEW v,
           holds' = [holds EXCEPT ![p] = v], UNCHANGED stealing
    PROVE  StealsApart'
  BY DEF SharedInv, SharedTypeOK, StealsApart, MayUse

\* reset(o), the constructor from a raw pointer and make_shared.
LEMMA ResetToInv ==
    ASSUME SharedInv, NEW t \in Threads, NEW p \in Pointers, NEW o \in Objects, ResetTo(t, p, o)
    PROVE  SharedInv'
<1>1. /\ spc[t] = "idle" /\ o \notin exists /\ exists' = exists \union {o} /\ refs' = [refs EXCEPT ![o] = 1]
      /\ holds' = [holds EXCEPT ![p] = o] /\ tmp' = [tmp EXCEPT ![t] = holds[p]]
      /\ spc' = [spc EXCEPT ![t] = IF holds[p] = NoObject THEN "idle" ELSE "release"] /\ UNCHANGED stealing
    BY DEF ResetTo, Discard, MayUse
<1>2. holds[p] \in OrNone /\ o \in OrNone
    BY DEF SharedInv, SharedTypeOK, OrNone
<1>3. SharedTypeOK'
    BY <1>1, <1>2 DEF SharedInv, SharedTypeOK
<1>4. TemporariesUsed'
    BY <1>1, <1>2 DEF SharedInv, SharedTypeOK, TemporariesUsed
<1>5. StealsApart'
    BY <1>1, MovesLeftAlone DEF ResetTo
<1>6. ASSUME NEW x \in Objects PROVE Owned(x)'
  <2>1. References(x)' = References(x) + Same(o, x) /\ Deleting(x)' = Deleting(x)
      BY <1>1, <1>2, Given
  <2>2. References(x) \in Nat
      BY ReferencesType
  <2>3. CASE x = o
      BY <1>1, <2>1, <2>2, <2>3 DEF Same, Owned, SharedInv, SharedTypeOK
  <2>4. CASE x # o
      BY <1>1, <2>1, <2>2, <2>4 DEF Same, Owned, SharedInv, SharedTypeOK
  <2> QED
      BY <2>3, <2>4
<1> QED
    BY <1>3, <1>4, <1>5, <1>6 DEF SharedInv

\* Copy construction and copy assignment.
LEMMA CopyInv ==
    ASSUME SharedInv, NEW t \in Threads, NEW p \in Pointers, NEW q \in Pointers, Copy(t, p, q)
    PROVE  SharedInv'
<1>1. PICK v \in OrNone : v = holds[q]
    BY DEF SharedInv, SharedTypeOK
<1>2. /\ spc[t] = "idle" /\ refs' = Counted(v) /\ UNCHANGED <<exists, stealing>>
      /\ holds' = [holds EXCEPT ![p] = v] /\ tmp' = [tmp EXCEPT ![t] = holds[p]]
      /\ spc' = [spc EXCEPT ![t] = IF holds[p] = NoObject THEN "idle" ELSE "release"]
    BY <1>1 DEF Copy, Discard, MayUse
<1>3. holds[p] \in OrNone
    BY DEF SharedInv, SharedTypeOK
<1>4. refs' \in [Objects -> Int] /\ \A x \in Objects : refs'[x] = refs[x] + Same(v, x)
    BY <1>1, <1>2, SharedPtrAssumption DEF Counted, Same, SharedInv, SharedTypeOK, OrNone
<1>5. SharedTypeOK'
    BY <1>2, <1>3, <1>4 DEF SharedInv, SharedTypeOK
<1>6. TemporariesUsed'
    BY <1>2, <1>3 DEF SharedInv, SharedTypeOK, TemporariesUsed
<1>7. StealsApart'
    BY <1>2, MovesLeftAlone DEF Copy
<1>8. ASSUME NEW x \in Objects PROVE Owned(x)'
  <2>1. References(x)' = References(x) + Same(v, x) /\ Deleting(x)' = Deleting(x)
      BY <1>2, <1>3, Given
  <2>2. References(x) \in Nat /\ (References(x) = 0 <=> Holders(x) \union Releasing(x) = {})
      BY ReferencesType
  <2>3. v = x => References(x) > 0
    <3>1. v = x => q \in Holders(x)
        BY <1>1 DEF Holders
    <3> QED
        BY <2>2, <3>1
  <2> QED
      BY <1>2, <1>4, <2>1, <2>2, <2>3 DEF Same, Owned, SharedInv, SharedTypeOK
<1> QED
    BY <1>5, <1>6, <1>7, <1>8 DEF SharedInv

\* reset(), the destructor, and the first half of a move assignment.
LEMMA DropInv ==
    ASSUME SharedInv, NEW t \in Threads, NEW p \in Pointers,
           Reset(t, p) \/ \E q \in Pointers : MoveAssign(t, p, q)
    PROVE  SharedInv'
<1>1. PICK s \in {"idle", "release", "steal"} :
        /\ s = "release" <=> holds[p] # NoObject
        /\ spc[t] = "idle" /\ UNCHANGED <<refs, exists>>
        /\ holds' = [holds EXCEPT ![p] = NoObject] /\ tmp' = [tmp EXCEPT ![t] = holds[p]]
        /\ spc' = [spc EXCEPT ![t] = s]
        /\ \/ s # "steal" /\ UNCHANGED stealing
           \/ s # "idle" /\ \E q \in Pointers : MayUse(t, q) /\ stealing' = [stealing EXCEPT ![t] = <<p, q>>]
    BY DEF Reset, MoveAssign, Discard, MayUse
<1>2. holds[p] \in OrNone /\ NoObject \in OrNone /\ MayUse(t, p)
    BY DEF SharedInv, SharedTypeOK, OrNone, Reset, MoveAssign
<1>3. SharedTypeOK'
    BY <1>1, <1>2 DEF SharedInv, SharedTypeOK
<1>4. TemporariesUsed'
  <2> SUFFICES ASSUME NEW u \in Threads PROVE TemporariesUsed!(u)'
      BY DEF TemporariesUsed
  <2>1. CASE u = t
    <3>1. spc'[t] = s /\ tmp'[t] = holds[p] /\ stealing[t] = <<>>
        BY <1>1 DEF SharedInv, SharedTypeOK, TemporariesUsed
    <3>2. (s = "idle" => stealing'[t] = <<>>) /\ (s = "steal" => stealing'[t] # <<>>)
      <4>1. CASE s # "steal" /\ UNCHANGED stealing
          BY <3>1, <4>1
      <4>2. ASSUME s # "idle", NEW q \in Pointers, stealing' = [stealing EXCEPT ![t] = <<p, q>>] PROVE <3>2
        <5>1. stealing'[t] = <<p, q>>
            BY <4>2 DEF SharedInv, SharedTypeOK
        <5>2. <<p, q>> # <<>>
            OBVIOUS
        <5> QED
            BY <4>2, <5>1, <5>2
      <4> QED
          BY <1>1, <4>1, <4>2
    <3> QED
        BY <1>1, <2>1, <3>1, <3>2
  <2>2. CASE u # t
      BY <1>1, <2>2 DEF SharedInv, SharedTypeOK, TemporariesUsed
  <2> QED
      BY <2>1, <2>2
<1>5. StealsApart'
  <2>1. CASE UNCHANGED stealing
      BY <1>1, <1>2, <2>1, MovesLeftAlone
  <2>2. ASSUME NEW q \in Pointers, MayUse(t, q), stealing' = [stealing EXCEPT ![t] = <<p, q>>]
        PROVE  StealsApart'
      BY <1>1, <1>2, <2>2 DEF SharedInv, SharedTypeOK, StealsApart, MayUse
  <2> QED
      BY <1>1, <2>1, <2>2
<1>6. ASSUME NEW x \in Objects PROVE Owned(x)'
  <2>1. References(x)' = References(x) + Same(NoObject, x) /\ Deleting(x)' = Deleting(x)
      BY <1>1, <1>2, Given
  <2>2. References(x)' = References(x)
      BY <2>1, ReferencesType, SharedPtrAssumption DEF Same
  <2> QED
      BY <1>1, <2>1, <2>2, OwnedStays DEF SharedInv
<1> QED
    BY <1>3, <1>4, <1>5, <1>6 DEF SharedInv

\* Two pointers exchange what they hold.
LEMMA Exchanged ==
    ASSUME SharedInv, NEW p \in Pointers, NEW q \in Pointers,
           holds' = [holds EXCEPT ![p] = holds[q], ![q] = holds[p]],
           UNCHANGED <<exists, refs>>, NEW o \in Objects, UNCHANGED <<Releasing(o), Deleting(o)>>
    PROVE  Owned(o)'
<1> DEFINE H == Holders(o)
<1>1. IsFiniteSet(H) /\ Cardinality(H) \in Nat
    BY FS_Subset, FS_CardinalityType, SharedPtrAssumption DEF Holders
<1>2. holds \in [Pointers -> OrNone]
    BY DEF SharedInv, SharedTypeOK
<1>3. CASE (holds[p] = o) = (holds[q] = o)
  <2>1. Holders(o)' = H
      BY <1>2, <1>3 DEF Holders
  <2> QED
      BY <2>1, OwnedStays DEF References, SharedInv
<1>4. ASSUME NEW a \in Pointers, NEW b \in Pointers, holds[a] = o, holds[b] # o, {a, b} = {p, q}
      PROVE  Owned(o)'
  <2>1. Holders(o)' = (H \ {a}) \cup {b} /\ a \in H /\ b \notin H \ {a}
      BY <1>2, <1>4 DEF Holders
  <2>2. IsFiniteSet(H \ {a}) /\ Cardinality(H \ {a}) = Cardinality(H) - 1
      BY <1>1, <2>1, FS_RemoveElement
  <2>3. Cardinality((H \ {a}) \cup {b}) = Cardinality(H \ {a}) + 1
      BY <2>1, <2>2, FS_AddElement
  <2>4. Cardinality(Holders(o)') = Cardinality(Holders(o))
    <3> HIDE DEF H
    <3>1. Cardinality(Holders(o)') = Cardinality(H)
        BY <1>1, <2>1, <2>2, <2>3
    <3> QED
        BY <3>1 DEF H
  <2> QED
      BY <2>4, OwnedStays DEF References, SharedInv
<1> QED
    BY <1>3, <1>4

\* swap(), and the move constructor.
LEMMA SwapInv ==
    ASSUME SharedInv, NEW t \in Threads, NEW p \in Pointers, NEW q \in Pointers, Swap(t, p, q)
    PROVE  SharedInv'
<1>1. holds' = [holds EXCEPT ![p] = holds[q], ![q] = holds[p]] /\ UNCHANGED <<refs, exists, spc, tmp, stealing>>
      /\ MayUse(t, p) /\ MayUse(t, q)
    BY DEF Swap
<1>2. SharedTypeOK' /\ TemporariesUsed'
    BY <1>1 DEF SharedInv, SharedTypeOK, TemporariesUsed
<1>3. StealsApart'
    BY <1>1 DEF SharedInv, SharedTypeOK, StealsApart, MayUse
<1>4. ASSUME NEW x \in Objects PROVE Owned(x)'
  <2>1. UNCHANGED <<Releasing(x), Deleting(x)>>
      BY <1>1 DEF Releasing, Deleting
  <2> QED
      BY <1>1, <2>1, Exchanged
<1> QED
    BY <1>2, <1>3, <1>4 DEF SharedInv

\* The second half of a move assignment: the pointer assigned to is empty, so
\* that the two fields are exchanged; assigned to itself a pointer ends empty.
LEMMA StealInv == ASSUME SharedInv, NEW t \in Threads, Steal(t) PROVE SharedInv'
<1>1. stealing[t] \in Pointers \X Pointers /\ spc[t] = "steal" /\ stealing[t] # <<>>
    BY DEF Steal, SharedInv, SharedTypeOK, TemporariesUsed
<1>2. PICK p \in Pointers, q \in Pointers : stealing[t] = <<p, q>>
    BY <1>1
<1>3. stealing[t][1] = p /\ stealing[t][2] = q /\ holds[p] = NoObject
    BY <1>1, <1>2 DEF SharedInv, StealsApart
<1>4. /\ holds' = [holds EXCEPT ![q] = NoObject, ![p] = holds[q]]
      /\ spc' = [spc EXCEPT ![t] = "idle"] /\ stealing' = [stealing EXCEPT ![t] = <<>>]
      /\ UNCHANGED <<refs, exists, tmp>>
    BY <1>3 DEF Steal
<1>5. holds' = [holds EXCEPT ![p] = holds[q], ![q] = holds[p]]
    BY <1>3, <1>4 DEF SharedInv, SharedTypeOK
<1>6. SharedTypeOK' /\ TemporariesUsed'
    BY <1>1, <1>4, <1>5 DEF SharedInv, SharedTypeOK, TemporariesUsed
<1>7. StealsApart'
  <2> SUFFICES ASSUME NEW u \in Threads, stealing'[u] # <<>> PROVE StealsApart!(u)'
      BY DEF StealsApart
  <2>1. u # t /\ stealing'[u] = stealing[u] /\ stealing[u] # <<>>
      BY <1>4 DEF SharedInv, SharedTypeOK
  <2>2. stealing[u][1] \notin {p, q} /\ stealing[u] \in Pointers \X Pointers
      BY <1>1, <1>3, <2>1 DEF SharedInv, SharedTypeOK, StealsApart
  <2>3. holds'[stealing[u][1]] = NoObject
      BY <1>4, <2>1, <2>2 DEF SharedInv, SharedTypeOK, StealsApart
  <2>4. \A w \in Threads : stealing'[w] # <<>> => stealing'[w] = stealing[w]
      BY <1>4 DEF SharedInv, SharedTypeOK
  <2> QED
      BY <2>1, <2>3, <2>4 DEF SharedInv, StealsApart
<1>8. ASSUME NEW x \in Objects PROVE Owned(x)'
  <2>1. UNCHANGED <<Releasing(x), Deleting(x)>>
      BY <1>1, <1>4 DEF Releasing, Deleting, SharedInv, SharedTypeOK
  <2> QED
      BY <1>4, <1>5, <2>1, Exchanged
<1> QED
    BY <1>6, <1>7, <1>8 DEF SharedInv

\* The destructor of a temporary; then the deletion, when it was the last.
LEMMA ReleaseInv ==
    ASSUME SharedInv, NEW t \in Threads, Release(t) \/ DeleteObject(t) PROVE SharedInv'
<1>1. PICK o \in Objects : o = tmp[t]
    BY DEF Release, DeleteObject, SharedInv, SharedTypeOK, TemporariesUsed, OrNone
<1>2. o # NoObject /\ spc[t] \in {"release", "delete"} /\ UNCHANGED <<holds, stealing>>
    BY SharedPtrAssumption DEF Release, DeleteObject
<1>3. PICK s \in {"delete", "idle", "steal"}, v \in {o, NoObject} :
        /\ spc' = [spc EXCEPT ![t] = s] /\ tmp' = [tmp EXCEPT ![t] = v]
        /\ IF s = "delete" THEN v = o /\ spc[t] = "release" /\ refs[o] = 1
           ELSE v = NoObject /\ s = (IF stealing[t] = <<>> THEN "idle" ELSE "steal")
                /\ (spc[t] = "release" => refs[o] # 1)
  <2>1. CASE Release(t) /\ refs[o] = 1
    <3>1. tmp' = [tmp EXCEPT ![t] = o]
        BY <1>1, <2>1 DEF Release, SharedInv, SharedTypeOK
    <3> QED
        BY <1>1, <2>1, <3>1 DEF Release
  <2>2. CASE Release(t) /\ refs[o] # 1
      BY <1>1, <2>2 DEF Release, Proceed
  <2>3. CASE DeleteObject(t)
      BY <1>1, <2>3 DEF DeleteObject, Proceed
  <2> QED
      BY <2>1, <2>2, <2>3
<1>4. /\ refs' = IF spc[t] = "release" THEN [refs EXCEPT ![o] = refs[o] - 1] ELSE refs
      /\ exists' = IF spc[t] = "release" THEN exists ELSE exists \ {o}
    BY <1>1 DEF Release, DeleteObject
<1>5. SharedTypeOK'
    BY <1>1, <1>2, <1>3, <1>4 DEF SharedInv, SharedTypeOK, OrNone
<1>6. TemporariesUsed'
    BY <1>2, <1>3 DEF SharedInv, SharedTypeOK, TemporariesUsed
<1>7. StealsApart'
    BY <1>2 DEF SharedInv, StealsApart
<1>8. ASSUME NEW x \in Objects PROVE Owned(x)'
  <2>1. /\ Cardinality(Releasing(x)')
             = Cardinality(Releasing(x)) - (IF spc[t] = "release" THEN Same(tmp[t], x) ELSE 0)
               + (IF s = "release" THEN Same(v, x) ELSE 0)
        /\ Deleting(x)' = IF s = "delete" /\ v = x THEN Deleting(x) \cup {t} ELSE Deleting(x) \ {t}
      BY <1>3, ReleasingExcept DEF SharedInv
  <2>2. Holders(x)' = Holders(x)
      BY <1>2 DEF Holders
  <2>3. /\ Cardinality(Holders(x)) \in Nat /\ Cardinality(Releasing(x)) \in Nat /\ References(x) \in Nat
        /\ References(x) = 0 <=> Holders(x) \union Releasing(x) = {}
      BY ReferencesType
  <2>4. References(x)' = References(x) - (IF spc[t] = "release" /\ x = o THEN 1 ELSE 0)
      BY <1>1, <1>3, <2>1, <2>2, <2>3 DEF References, Same
  <2>5. CASE x # o
    <3>1. t \notin Deleting(x) /\ Deleting(x)' = Deleting(x) /\ References(x)' = References(x)
        BY <1>1, <1>3, <2>1, <2>3, <2>4, <2>5, SharedPtrAssumption DEF Deleting
    <3>2. refs'[x] = refs[x] /\ (x \in exists' <=> x \in exists)
        BY <1>4, <2>5 DEF SharedInv, SharedTypeOK
    <3> QED
        BY <3>1, <3>2, OwnedStays DEF SharedInv
  <2>6. CASE x = o /\ spc[t] = "release"
    <3>1. t \in Releasing(x) /\ t \notin Deleting(x)
        BY <1>1, <2>6 DEF Releasing, Deleting
    <3>2. x \in exists /\ Deleting(x) = {} /\ References(x) > 0 /\ refs[x] = References(x)
        BY <2>3, <3>1 DEF SharedInv, Owned
    <3>3. refs'[x] = refs[x] - 1 /\ x \in exists' /\ References(x)' = References(x) - 1
        BY <1>4, <2>4, <2>6, <3>2 DEF SharedInv, SharedTypeOK
    <3>4. Deleting(x)' = IF refs[x] = 1 THEN {t} ELSE {}
        BY <1>2, <1>3, <2>1, <2>6, <3>2
    <3> QED
        BY <2>3, <3>2, <3>3, <3>4 DEF Owned
  <2>7. CASE x = o /\ spc[t] = "delete"
    <3>1. t \in Deleting(x)
        BY <1>1, <2>7 DEF Deleting
    <3>2. Deleting(x) = {t} /\ References(x) = 0
        BY <3>1 DEF SharedInv, Owned
    <3>3. Deleting(x)' = {} /\ References(x)' = 0 /\ x \notin exists'
        BY <1>2, <1>3, <1>4, <2>1, <2>4, <2>7, <3>2
    <3> QED
        BY <3>3 DEF Owned
  <2> QED
      BY <1>2, <2>5, <2>6, <2>7
<1> QED
    BY <1>5, <1>6, <1>7, <1>8 DEF SharedInv

\* Every step of every thread keeps the invariant.
LEMMA SharedNextInv == SharedInv /\ [SharedNext]_sharedVars => SharedInv'
<1> SUFFICES ASSUME SharedInv, [SharedNext]_sharedVars PROVE SharedInv'
    OBVIOUS
<1>1. ASSUME NEW t \in Threads, SharedStep(t) PROVE SharedInv'
    BY <1>1, ResetToInv, CopyInv, SwapInv, DropInv, StealInv, ReleaseInv DEF SharedStep, Wrap, MovePointer
<1>2. CASE UNCHANGED sharedVars
    BY <1>2 DEF sharedVars, SharedInv, SharedTypeOK, TemporariesUsed, StealsApart, Owned, References,
                Holders, Releasing, Deleting
<1> QED
    BY <1>1, <1>2 DEF SharedNext

\* For any threads, pointers and objects: the counter of a shared_ptr is
\* exact, and an object is deleted once, with its last reference.
THEOREM SharedPtrOwnsObjects == SharedSpec => []ObjectsOwned
<1>1. SharedInv => ObjectsOwned
  <2> SUFFICES ASSUME SharedInv PROVE ObjectsOwned
      OBVIOUS
  <2>1. RefCountExact
      BY ReferencesType, FS_EmptySet DEF RefCountExact, SharedInv, SharedTypeOK, Owned, References
  <2>2. ASSUME NEW o \in Objects
        PROVE  /\ o \in exists <=> Holders(o) \union Releasing(o) \union Deleting(o) # {}
               /\ Deleting(o) # {} => Holders(o) \union Releasing(o) = {} /\ Cardinality(Deleting(o)) = 1
    <3>1. Owned(o) /\ References(o) \in Nat /\ (References(o) = 0 <=> Holders(o) \union Releasing(o) = {})
        BY ReferencesType DEF SharedInv
    <3>2. Deleting(o) # {} => Cardinality(Deleting(o)) = 1
        BY <3>1, FS_Singleton DEF Owned
    <3> QED
        BY <3>1, <3>2 DEF Owned
  <2> QED
      BY <2>1, <2>2 DEF ObjectsOwned, DeletedWithLastReference
<1> QED
    BY <1>1, SharedInitInv, SharedNextInv, PTL DEF SharedSpec

-----------------------------------------------------------------------------
(***************************************************************************)
(* unique_lock.  A guard that says it is locked has a mutex, its thread    *)
(* has locked that mutex, and no other guard says the same of it.          *)
(***************************************************************************)
GuardTypeOK == /\ mutexOf \in [Guards -> Mutexes \cup {NoMutex}]
               /\ isLocked \in [Guards -> BOOLEAN]
               /\ ownerOf \in [Mutexes -> Threads \cup {Nobody}]

LockedOwn ==
    \A g \in Guards : isLocked[g] =>
        /\ mutexOf[g] \in Mutexes /\ ownerOf[mutexOf[g]] = g[1]
        /\ \A h \in Guards : isLocked[h] /\ mutexOf[h] = mutexOf[g] => h = g

OwnedLocked ==
    \A m \in Mutexes : ownerOf[m] # Nobody => \E g \in Guards : isLocked[g] /\ mutexOf[g] = m

GuardInv == GuardTypeOK /\ LockedOwn /\ OwnedLocked

\* Every step of every guard keeps the invariant.
LEMMA GuardNextInv == GuardInv /\ [UniqueLockNext]_guardVars => GuardInv'
<1> SUFFICES ASSUME GuardInv, [UniqueLockNext]_guardVars PROVE GuardInv'
    OBVIOUS
<1>0. \A g \in Guards : g[1] \in Threads /\ g[1] # Nobody
    BY ThreadsAssumption DEF Guards
<1> USE DEF GuardInv, GuardTypeOK, LockedOwn, OwnedLocked
<1>1. ASSUME NEW g \in Guards, LockAgain(g) PROVE GuardInv'
  <2>1. mutexOf[g] \in Mutexes
      BY <1>1 DEF LockAgain
  <2>2. GuardTypeOK'
      BY <1>0, <1>1, <2>1 DEF LockAgain
  <2> QED
      BY <1>0, <1>1, <2>1, <2>2 DEF LockAgain
<1>2. ASSUME NEW g \in Guards, UnlockEarly(g) PROVE GuardInv'
    BY <1>0, <1>2 DEF UnlockEarly, Unlocked
<1>3. ASSUME NEW g \in Guards, EndOfScope(g) PROVE GuardInv'
    BY <1>0, <1>3 DEF EndOfScope, Unlocked
<1>4. ASSUME NEW g \in Guards, NEW m \in Mutexes, Guard(g, m) PROVE GuardInv'
    BY <1>0, <1>4, UniqueLockAssumption DEF Guard
<1>5. ASSUME NEW g \in Guards, NEW h \in Guards, g[1] = h[1], MoveConstruct(g, h) PROVE GuardInv'
  <2>1. GuardTypeOK'
      BY <1>5 DEF MoveConstruct
  <2>2. \A x \in Guards :
           /\ x # g /\ x # h => mutexOf'[x] = mutexOf[x] /\ isLocked'[x] = isLocked[x]
           /\ x = g => mutexOf'[x] = mutexOf[h] /\ isLocked'[x] = isLocked[h]
           /\ x = h => ~isLocked'[x]
      BY <1>5 DEF MoveConstruct
  <2>3. ownerOf' = ownerOf /\ ~isLocked[g] /\ g # h
      BY <1>5, UniqueLockAssumption DEF MoveConstruct
  <2>4. LockedOwn'
    <3> SUFFICES ASSUME NEW x \in Guards, isLocked'[x] PROVE LockedOwn!(x)'
        BY DEF LockedOwn
    <3>1. x # h
        BY <2>2
    <3>2. CASE x = g
      <4>1. isLocked[h] /\ mutexOf'[x] = mutexOf[h]
          BY <2>2, <2>3, <3>2
      <4>2. mutexOf[h] \in Mutexes /\ ownerOf[mutexOf[h]] = x[1]
          BY <1>5, <3>2, <4>1
      <4>3. ASSUME NEW y \in Guards, isLocked'[y], mutexOf'[y] = mutexOf[h] PROVE y = x
        <5>1. y # h
            BY <2>2, <4>3
        <5>2. CASE y # g
          <6>1. isLocked[y] /\ mutexOf[y] = mutexOf[h]
              BY <2>2, <4>3, <5>1, <5>2
          <6>2. y = h
              BY <4>1, <6>1 DEF LockedOwn
          <6> QED BY <5>1, <6>2
        <5> QED BY <3>2, <5>2
      <4> QED
          BY <2>3, <4>1, <4>2, <4>3
    <3>3. CASE x # g
      <4>1. isLocked[x] /\ mutexOf'[x] = mutexOf[x]
          BY <2>2, <3>1, <3>3
      <4>2. ASSUME NEW y \in Guards, isLocked'[y], mutexOf'[y] = mutexOf[x] PROVE y = x
          BY <2>2, <3>1, <3>3, <4>1, <4>2
      <4> QED
          BY <2>3, <4>1, <4>2
    <3> QED
        BY <3>2, <3>3
  <2>5. ASSUME NEW m \in Mutexes, ownerOf[m] # Nobody PROVE \E x \in Guards : isLocked'[x] /\ mutexOf'[x] = m
    <3>1. PICK x \in Guards : isLocked[x] /\ mutexOf[x] = m
        BY <2>5
    <3>2. CASE x = h
        BY <2>2, <2>3, <3>1, <3>2
    <3>3. CASE x # h
        BY <2>2, <2>3, <3>1, <3>3
    <3> QED
        BY <3>2, <3>3
  <2> QED
      BY <2>1, <2>3, <2>4, <2>5
<1>6. ASSUME NEW g \in Guards, NEW h \in Guards, g[1] = h[1], MoveAssignGuard(g, h) PROVE GuardInv'
  <2>1. GuardTypeOK'
      BY <1>6 DEF MoveAssignGuard, Unlocked
  <2>2. \A x \in Guards :
           /\ x # g /\ x # h => mutexOf'[x] = mutexOf[x] /\ isLocked'[x] = isLocked[x]
           /\ x = g => mutexOf'[x] = mutexOf[h] /\ isLocked'[x] = (g # h /\ isLocked[h])
           /\ x = h /\ x # g => ~isLocked'[x]
      BY <1>6 DEF MoveAssignGuard
  <2>3. \A m \in Mutexes : ownerOf'[m] = IF isLocked[g] /\ mutexOf[g] = m THEN Nobody ELSE ownerOf[m]
      BY <1>6 DEF MoveAssignGuard, Unlocked
  <2>4. LockedOwn'
    <3> SUFFICES ASSUME NEW x \in Guards, isLocked'[x] PROVE LockedOwn!(x)'
        BY DEF LockedOwn
    <3>1. CASE x = g
      <4>1. g # h /\ isLocked[h] /\ mutexOf'[x] = mutexOf[h]
          BY <2>2, <3>1
      <4> QED
          BY <1>6, <2>2, <2>3, <3>1, <4>1
    <3>2. CASE x # g
      <4>1. x # h /\ isLocked[x] /\ mutexOf'[x] = mutexOf[x]
          BY <2>2, <3>2
      <4>2. mutexOf[x] \in Mutexes /\ ownerOf'[mutexOf[x]] = x[1]
          BY <2>3, <3>2, <4>1
      <4>3. ASSUME NEW y \in Guards, isLocked'[y], mutexOf'[y] = mutexOf[x] PROVE y = x
          BY <2>2, <3>2, <4>1, <4>3
      <4> QED
          BY <4>1, <4>2, <4>3
    <3> QED
        BY <3>1, <3>2
  <2>5. ASSUME NEW m \in Mutexes, ownerOf'[m] # Nobody PROVE \E x \in Guards : isLocked'[x] /\ mutexOf'[x] = m
    <3>1. PICK x \in Guards : isLocked[x] /\ mutexOf[x] = m
        BY <2>3, <2>5
    <3>2. x # g
        BY <2>3, <2>5, <3>1
    <3>3. CASE x = h
        BY <2>2, <3>1, <3>2, <3>3
    <3>4. CASE x # h
        BY <2>2, <3>1, <3>2, <3>4
    <3> QED
        BY <3>3, <3>4
  <2> QED
      BY <2>1, <2>4, <2>5
<1>7. CASE UNCHANGED guardVars
    BY <1>7 DEF guardVars
<1>8. \A t \in Threads, i, j \in Names :
        <<t, i>> \in Guards /\ <<t, j>> \in Guards /\ <<t, i>>[1] = <<t, j>>[1]
    BY DEF Guards
<1> QED
    BY <1>1, <1>2, <1>3, <1>4, <1>5, <1>6, <1>7, <1>8 DEF UniqueLockNext

\* For any threads, guards and mutexes: after any moves a mutex is locked
\* exactly while one guard, of the thread that locked it, says so.
THEOREM UniqueLockOwnsMutexes == UniqueLockSpec => []GuardsOwnTheirLocks
<1>1. UniqueLockInit => GuardInv
    BY UniqueLockAssumption DEF UniqueLockInit, GuardInv, GuardTypeOK, LockedOwn, OwnedLocked
<1>2. GuardInv => GuardsOwnTheirLocks
  <2> SUFFICES ASSUME GuardInv, NEW m \in Mutexes
               PROVE  LET locked == {g \in Guards : mutexOf[g] = m /\ isLocked[g]}
                      IN IF ownerOf[m] = Nobody THEN locked = {}
                         ELSE \E g \in Guards : locked = {g} /\ g[1] = ownerOf[m]
      BY DEF GuardsOwnTheirLocks
  <2>1. CASE ownerOf[m] = Nobody
      BY <2>1, ThreadsAssumption DEF GuardInv, LockedOwn, Guards
  <2>2. CASE ownerOf[m] # Nobody
    <3>1. PICK g \in Guards : isLocked[g] /\ mutexOf[g] = m
        BY <2>2 DEF GuardInv, OwnedLocked
    <3>2. {h \in Guards : mutexOf[h] = m /\ isLocked[h]} = {g} /\ g[1] = ownerOf[m]
        BY <3>1 DEF GuardInv, LockedOwn
    <3> QED
        BY <2>2, <3>2
  <2> QED
      BY <2>1, <2>2
<1> QED
    BY <1>1, <1>2, GuardNextInv, PTL DEF UniqueLockSpec

-----------------------------------------------------------------------------
(***************************************************************************)
(* dsac::singleton.  The stacks of calls tell who is where in              *)
(* singletonBase(); everything else is determined by them.                 *)
(***************************************************************************)
Askers == Callers \cup {ExitThread}
Places == {"lock", "construct", "register", "publish", "unlock"}
Calls == [type : Types, at : Places]

SingletonTypeOK ==
    /\ published \subseteq Types /\ lockOf \in [Types -> Askers \cup {"free"}]
    /\ work \in [Askers -> Seq(Calls)]
    /\ life \in [Types -> {"none", "alive", "dead", "twice"}]
    /\ users \in [Types -> SUBSET Types]
    /\ DOMAIN items \subseteq Types /\ items \in [DOMAIN items -> Nat]
    /\ registered \in Nat /\ throws \in Nat
    /\ finishing \in [started : BOOLEAN, object : Types \cup {NoType}]

Depth(t) == Len(work[t])

\* The calls of a thread are nested: all but the innermost are in a
\* constructor, and each has asked for a larger type.
CallsNested ==
    \A t \in Askers :
        /\ \A i \in 1 .. Depth(t) : i < Depth(t) => work[t][i].at = "construct"
        /\ \A i, j \in 1 .. Depth(t) : i < j => work[t][i].type < work[t][j].type

\* Finish() is alone, and what its destructors create is of a larger type.
FinishAlone ==
    /\ finishing.object # NoType => finishing.started
    /\ finishing.started => \A t \in Callers : work[t] = <<>>
    /\ work[ExitThread] # <<>> => finishing.object # NoType
    /\ \A i \in 1 .. Depth(ExitThread) : finishing.object < work[ExitThread][i].type

\* What a call of thread t for type x at place a knows.
CallInStep(t, x, a) ==
    /\ life[x] # "dead"
    /\ a # "lock" => lockOf[x] = t
    /\ a = "construct" => life[x] = "none"
    /\ a = "register" => /\ life[x] = "alive" /\ x \notin DOMAIN items
                         /\ x \notin published /\ finishing.object # x
    /\ a = "publish" => life[x] = "alive" /\ x \in DOMAIN items
    /\ a = "unlock" => x \in published

CallsInStep ==
    \A t \in Askers : \A i \in 1 .. Depth(t) : CallInStep(t, work[t][i].type, work[t][i].at)

Calling(x, places) ==
    \E t \in Askers : \E i \in 1 .. Depth(t) : work[t][i].type = x /\ work[t][i].at \in places

ObjectInStep(x) ==
    /\ life[x] # "twice"
    /\ life[x] = "none" => x \notin published
    /\ x \in DOMAIN items => life[x] = "alive"
    /\ finishing.object = x => life[x] = "alive" /\ x \notin DOMAIN items
    /\ life[x] = "alive" => \/ x \in DOMAIN items \/ finishing.object = x
                            \/ Calling(x, {"register"})
    /\ life[x] # "none" => x \in published \/ Calling(x, {"register", "publish"})

ObjectsInStep == \A x \in Types : ObjectInStep(x)

\* What a constructor got was registered before the object it makes.
UsedBefore(by) ==
    /\ life[by] # "dead" => users[by] \subseteq DOMAIN items
    /\ life[by] = "none" /\ users[by] # {} => Calling(by, {"construct"})
    /\ by \in DOMAIN items => \A x \in users[by] : items[x] < items[by]

UsersInStep ==
    /\ \A by \in Types : UsedBefore(by)
    /\ \A x \in DOMAIN items : items[x] < registered

DeadUnused ==
    \A use \in deadUse : /\ use[1] \in Types /\ use[2] \in Types
                         /\ life[use[2]] = "dead" /\ use[2] \notin users[use[1]]

SingletonInv == /\ SingletonTypeOK /\ CallsNested /\ FinishAlone /\ CallsInStep
                /\ ObjectsInStep /\ UsersInStep /\ DeadUnused

-----------------------------------------------------------------------------
\* What the three changes of a stack of calls leave.
LEMMA PushedCall ==
    ASSUME work \in [Askers -> Seq(Calls)], NEW t \in Askers, NEW c \in Calls,
           work' = [work EXCEPT ![t] = Append(@, c)]
    PROVE  /\ work' \in [Askers -> Seq(Calls)] /\ Len(work[t]) \in Nat
           /\ \A s \in Askers : s # t => work'[s] = work[s]
           /\ Len(work'[t]) = Len(work[t]) + 1
           /\ \A i \in 1 .. Len(work[t]) : work'[t][i] = work[t][i]
           /\ work'[t][Len(work[t]) + 1] = c
<1>1. work[t] \in Seq(Calls) /\ work'[t] = Append(work[t], c)
    OBVIOUS
<1> QED
    BY <1>1

LEMMA PoppedCall ==
    ASSUME work \in [Askers -> Seq(Calls)], NEW t \in Askers, work[t] # <<>>,
           work' = [work EXCEPT ![t] = SubSeq(work[t], 1, Len(work[t]) - 1)]
    PROVE  /\ work' \in [Askers -> Seq(Calls)] /\ Len(work[t]) \in Nat \ {0}
           /\ \A s \in Askers : s # t => work'[s] = work[s]
           /\ Len(work'[t]) = Len(work[t]) - 1
           /\ \A i \in 1 .. Len(work[t]) - 1 : work'[t][i] = work[t][i]
<1>1. work[t] \in Seq(Calls) /\ Len(work[t]) \in Nat \ {0}
    OBVIOUS
<1>2. \A i \in 1 .. Len(work[t]) - 1 : work[t][i] \in Calls
    BY <1>1
<1>3. /\ SubSeq(work[t], 1, Len(work[t]) - 1) \in Seq(Calls)
      /\ Len(SubSeq(work[t], 1, Len(work[t]) - 1)) = Len(work[t]) - 1
      /\ \A i \in 1 .. Len(work[t]) - 1 : SubSeq(work[t], 1, Len(work[t]) - 1)[i] = work[t][i]
  <2>0. Len(work[t]) - 1 \in Nat
      BY <1>1
  <2>1. PICK n \in Nat : n = Len(work[t]) - 1
      BY <2>0
  <2>2. \A i \in 1 .. n : work[t][i] \in Calls
      BY <1>2, <2>1
  <2>3. /\ SubSeq(work[t], 1, n) \in Seq(Calls)
        /\ Len(SubSeq(work[t], 1, n)) = IF 1 <= n THEN n - 1 + 1 ELSE 0
        /\ \A i \in 1 .. n - 1 + 1 : SubSeq(work[t], 1, n)[i] = work[t][1 + i - 1]
      BY <2>2, SubSeqProperties
  <2> QED
      BY <2>1, <2>3
<1> QED
    BY <1>1, <1>3

LEMMA MovedCall ==
    ASSUME work \in [Askers -> Seq(Calls)], NEW t \in Askers, work[t] # <<>>, NEW a \in Places,
           work' = [work EXCEPT ![t][Len(work[t])].at = a]
    PROVE  /\ work' \in [Askers -> Seq(Calls)] /\ Len(work[t]) \in Nat \ {0}
           /\ \A s \in Askers : s # t => work'[s] = work[s]
           /\ Len(work'[t]) = Len(work[t])
           /\ \A i \in 1 .. Len(work[t]) : i # Len(work[t]) => work'[t][i] = work[t][i]
           /\ work'[t][Len(work[t])].type = work[t][Len(work[t])].type
           /\ work'[t][Len(work[t])].at = a
<1>1. work[t] \in Seq(Calls) /\ Len(work[t]) \in Nat \ {0} /\ work[t][Len(work[t])] \in Calls
    OBVIOUS
<1> DEFINE c == [work[t][Len(work[t])] EXCEPT !.at = a]
<1>2. c \in Calls /\ c.type = work[t][Len(work[t])].type /\ c.at = a
    BY <1>1 DEF Calls
<1>3. work'[t] = [work[t] EXCEPT ![Len(work[t])] = c]
    OBVIOUS
<1>4. /\ work'[t] \in Seq(Calls) /\ Len(work'[t]) = Len(work[t])
      /\ \A i \in 1 .. Len(work[t]) : work'[t][i] = IF i = Len(work[t]) THEN c ELSE work[t][i]
    <2>1. PICK q \in Seq(Calls) : q = work[t]
        BY <1>1
    <2>2. Len(q) \in 1 .. Len(q) /\ work'[t] = [q EXCEPT ![Len(q)] = c]
        BY <1>1, <1>3, <2>1
    <2> HIDE DEF c
    <2>3. /\ [q EXCEPT ![Len(q)] = c] \in Seq(Calls)
          /\ Len([q EXCEPT ![Len(q)] = c]) = Len(q)
          /\ \A i \in 1 .. Len(q) : [q EXCEPT ![Len(q)] = c][i] = IF i = Len(q) THEN c ELSE q[i]
        BY <1>2, <2>2, ExceptSeq
    <2> QED BY <2>1, <2>2, <2>3
<1>5. \A s \in Askers : s # t => work'[s] = work[s]
    OBVIOUS
<1>6. work' \in [Askers -> Seq(Calls)]
    BY <1>4, <1>5
<1> HIDE DEF c
<1> QED
    BY <1>1, <1>2, <1>4, <1>5, <1>6

\* Of the items registered with numbers below a bound one has the greatest.
LEMMA LatestItem ==
    ASSUME NEW D, IsFiniteSet(D), D # {}, NEW f \in [D -> Nat]
    PROVE  \E y \in D : \A z \in D : f[z] <= f[y]
<1> DEFINE Above(y) == {z \in D : f[z] > f[y]}
           T == {Above(y) : y \in D}
<1>1. IsWellFoundedOn(StrictSubsetOrdering(D), FiniteSubsetsOf(D))
    BY FS_StrictSubsetOrderingWellFounded
<1>2. T \subseteq FiniteSubsetsOf(D)
    BY FS_FiniteSubsetsOfFinite
<1>3. T # {}
    <2>1. PICK y \in D : TRUE
        OBVIOUS
    <2>2. Above(y) \in T
        OBVIOUS
    <2> QED BY <2>2
<1>4. \E U \in T : \A V \in T : ~ (<<V, U>> \in StrictSubsetOrdering(D))
    <2> HIDE DEF T
    <2> QED BY <1>1, <1>2, <1>3, WFMin
<1>5. PICK y \in D : \A z \in D : ~ (<<Above(z), Above(y)>> \in StrictSubsetOrdering(D))
    BY <1>4
<1>6. ASSUME NEW z \in D, f[z] > f[y] PROVE FALSE
    <2>1. z \in Above(y) /\ z \notin Above(z) /\ Above(z) \subseteq Above(y)
        BY <1>6
    <2>2. Above(z) \in SUBSET D /\ Above(y) \in SUBSET D
        OBVIOUS
    <2> HIDE DEF Above
    <2>3. <<Above(z), Above(y)>> \in StrictSubsetOrdering(D)
        BY <2>1, <2>2 DEF StrictSubsetOrdering
    <2> QED BY <2>3, <1>5
<1> QED
    BY <1>6

-----------------------------------------------------------------------------
\* Two calls past the lock of a type are one.
LEMMA OneInside ==
    ASSUME SingletonTypeOK, CallsNested, CallsInStep, NEW s \in Askers, NEW t \in Askers,
           NEW i \in 1 .. Len(work[s]), NEW j \in 1 .. Len(work[t]),
           work[s][i].type = work[t][j].type, work[s][i].at # "lock", work[t][j].at # "lock"
    PROVE  s = t /\ i = j
<1>1. s = t
    BY DEF CallsInStep, CallInStep, Depth
<1>2. work[s] \in Seq(Calls)
    BY DEF SingletonTypeOK
<1>3. Len(work[s]) \in Nat /\ i \in Nat /\ j \in Nat
    BY <1>1, <1>2
<1>4. work[s][i].type \in Nat
    <2>1. work[s][i] \in Calls
        BY <1>2
    <2> QED BY <2>1, SingletonAssumption DEF Calls
<1> QED
    BY <1>1, <1>3, <1>4 DEF CallsNested, Depth

\* While Finish() pops items and destroys objects nobody is inside singleton().
LEMMA NobodyCalls ==
    ASSUME SingletonTypeOK, FinishAlone, finishing.started, work[ExitThread] = <<>>
    PROVE  \A s \in Askers : work[s] = <<>> /\ Len(work[s]) = 0
    BY DEF FinishAlone, Askers

LEMMA CallTyped ==
    ASSUME SingletonTypeOK, NEW s \in Askers, NEW i \in 1 .. Len(work[s])
    PROVE  work[s][i].type \in Types /\ work[s][i].type \in Nat \ {0} /\ work[s][i].at \in Places
<1>1. work[s] \in Seq(Calls)
    BY DEF SingletonTypeOK
<1>2. work[s][i] \in Calls
    BY <1>1
<1> QED
    BY <1>2, SingletonAssumption DEF Calls

\* The innermost call.
LEMMA InnerCall ==
    ASSUME SingletonTypeOK, NEW t \in Askers, work[t] # <<>>
    PROVE  /\ Len(work[t]) \in Nat \ {0} /\ Len(work[t]) \in 1 .. Len(work[t])
           /\ Inner(t) = work[t][Len(work[t])]
           /\ Inner(t) \in Calls /\ Inner(t).type \in Types /\ Inner(t).type \in Nat \ {0}
<1>1. work[t] \in Seq(Calls)
    BY DEF SingletonTypeOK
<1>2. Len(work[t]) \in Nat \ {0} /\ work[t][Len(work[t])] \in Calls
    BY <1>1
<1>3. Inner(t) = work[t][Len(work[t])]
    BY DEF Inner
<1>4. Inner(t) \in Calls /\ Inner(t).type \in Types
    BY <1>2, <1>3 DEF Calls
<1>5. Inner(t).type \in Nat \ {0}
    BY <1>4, SingletonAssumption
<1>6. Len(work[t]) \in 1 .. Len(work[t])
    BY <1>2
<1> QED
    BY <1>2, <1>3, <1>4, <1>5, <1>6

\* A call that goes on stays where it is nested.
LEMMA MoveKeepsNesting ==
    ASSUME SingletonTypeOK, CallsNested, FinishAlone, NEW t \in Askers, work[t] # <<>>,
           NEW a \in Places, Continue(t, a), finishing' = finishing
    PROVE  /\ work' \in [Askers -> Seq(Calls)] /\ CallsNested' /\ FinishAlone'
           /\ \A s \in Askers : Len(work'[s]) = Len(work[s])
           /\ \A s \in Askers : \A i \in 1 .. Len(work[s]) :
                 /\ work'[s][i].type = work[s][i].type
                 /\ s # t \/ i # Len(work[t]) => work'[s][i] = work[s][i]
           /\ work'[t][Len(work[t])].at = a
<1>1. /\ work' \in [Askers -> Seq(Calls)] /\ Len(work[t]) \in Nat \ {0}
      /\ \A s \in Askers : s # t => work'[s] = work[s]
      /\ Len(work'[t]) = Len(work[t])
      /\ \A i \in 1 .. Len(work[t]) : i # Len(work[t]) => work'[t][i] = work[t][i]
      /\ work'[t][Len(work[t])].type = work[t][Len(work[t])].type
      /\ work'[t][Len(work[t])].at = a
  <2>1. work \in [Askers -> Seq(Calls)]
      BY DEF SingletonTypeOK
  <2>2. work' = [work EXCEPT ![t][Len(work[t])].at = a]
      BY DEF Continue
  <2> QED
      BY <2>1, <2>2, MovedCall
<1>2. \A s \in Askers : Len(work'[s]) = Len(work[s]) /\ Len(work[s]) \in Nat
  <2>1. \A s \in Askers : work[s] \in Seq(Calls)
      BY DEF SingletonTypeOK
  <2> QED
      BY <1>1, <2>1
<1>3. \A s \in Askers : \A i \in 1 .. Len(work[s]) :
                 /\ work'[s][i].type = work[s][i].type
                 /\ s # t \/ i # Len(work[t]) => work'[s][i] = work[s][i]
    BY <1>1
<1>4. CallsNested'
    BY <1>1, <1>2, <1>3 DEF CallsNested, Depth
<1>5. \A s \in Askers : work'[s] = <<>> <=> work[s] = <<>>
    BY <1>1
<1>6. FinishAlone'
    BY <1>2, <1>3, <1>5 DEF FinishAlone, Depth, Askers
<1> QED
    BY <1>1, <1>2, <1>3, <1>4, <1>6

\* A call that returns uncovers the constructor that has asked.
LEMMA PopKeepsNesting ==
    ASSUME SingletonTypeOK, CallsNested, FinishAlone, NEW t \in Askers, work[t] # <<>>,
           work' = [work EXCEPT ![t] = Outer(t)], finishing' = finishing
    PROVE  /\ work' \in [Askers -> Seq(Calls)] /\ CallsNested' /\ FinishAlone'
           /\ \A s \in Askers : Len(work'[s]) = IF s = t THEN Len(work[s]) - 1 ELSE Len(work[s])
           /\ \A s \in Askers : \A i \in 1 .. Len(work[s]) :
                 s # t \/ i # Len(work[t]) => work'[s][i] = work[s][i]
<1>1. /\ work' \in [Askers -> Seq(Calls)] /\ Len(work[t]) \in Nat \ {0}
      /\ \A s \in Askers : s # t => work'[s] = work[s]
      /\ Len(work'[t]) = Len(work[t]) - 1
      /\ \A i \in 1 .. Len(work[t]) - 1 : work'[t][i] = work[t][i]
  <2>1. work \in [Askers -> Seq(Calls)]
      BY DEF SingletonTypeOK
  <2>2. work' = [work EXCEPT ![t] = SubSeq(work[t], 1, Len(work[t]) - 1)]
      BY DEF Outer
  <2> QED
      BY <2>1, <2>2, PoppedCall
<1>2. \A s \in Askers : /\ Len(work'[s]) = IF s = t THEN Len(work[s]) - 1 ELSE Len(work[s])
                        /\ Len(work[s]) \in Nat
    BY <1>1 DEF SingletonTypeOK
<1>3. \A s \in Askers : \A i \in 1 .. Len(work[s]) :
                 s # t \/ i # Len(work[t]) => work'[s][i] = work[s][i]
    BY <1>1
<1>4. CallsNested'
    BY <1>2, <1>3 DEF CallsNested, Depth
<1>5. \A s \in Askers : work[s] = <<>> => work'[s] = <<>>
    BY <1>1
<1>6. FinishAlone'
    BY <1>2, <1>3, <1>5 DEF FinishAlone, Depth, Askers
<1> QED
    BY <1>1, <1>2, <1>3, <1>4, <1>6

LEMMA MoveKeepsCalls ==
    ASSUME SingletonTypeOK, CallsNested, FinishAlone, NEW t \in Askers, work[t] # <<>>,
           NEW a \in Places, Continue(t, a), finishing' = finishing, NEW y, NEW P
    PROVE  /\ Calling(y, P) /\ ~(Inner(t).type = y /\ Inner(t).at \in P) => Calling(y, P)'
           /\ a \in P /\ y = Inner(t).type => Calling(y, P)'
<1>1. /\ \A s \in Askers : Len(work'[s]) = Len(work[s])
      /\ \A s \in Askers : \A i \in 1 .. Len(work[s]) :
            /\ work'[s][i].type = work[s][i].type
            /\ s # t \/ i # Len(work[t]) => work'[s][i] = work[s][i]
      /\ work'[t][Len(work[t])].at = a
    BY MoveKeepsNesting
<1>2. Inner(t) = work[t][Len(work[t])] /\ Len(work[t]) \in 1 .. Len(work[t])
    BY InnerCall
<1>3. Calling(y, P) /\ ~(Inner(t).type = y /\ Inner(t).at \in P) => Calling(y, P)'
    BY <1>1, <1>2 DEF Calling, Depth
<1>4. a \in P /\ y = Inner(t).type => Calling(y, P)'
    BY <1>1, <1>2 DEF Calling, Depth
<1> QED
    BY <1>3, <1>4

LEMMA PopKeepsCalls ==
    ASSUME SingletonTypeOK, CallsNested, FinishAlone, NEW t \in Askers, work[t] # <<>>,
           work' = [work EXCEPT ![t] = Outer(t)], finishing' = finishing, NEW y, NEW P
    PROVE  Calling(y, P) /\ ~(Inner(t).type = y /\ Inner(t).at \in P) => Calling(y, P)'
<1>1. /\ \A s \in Askers : Len(work'[s]) = IF s = t THEN Len(work[s]) - 1 ELSE Len(work[s])
      /\ \A s \in Askers : \A i \in 1 .. Len(work[s]) :
                 s # t \/ i # Len(work[t]) => work'[s][i] = work[s][i]
    BY PopKeepsNesting
<1>2. Inner(t) = work[t][Len(work[t])] /\ Len(work[t]) \in Nat \ {0}
    BY InnerCall
<1> QED
    BY <1>1, <1>2 DEF Calling, Depth

\* While a thread is past the lock of a type, or the lock is free, all other
\* calls for the type wait for it.
LEMMA OthersWait ==
    ASSUME SingletonTypeOK, CallsNested, CallsInStep, NEW t \in Askers, work[t] # <<>>,
           Inner(t).at # "lock" \/ lockOf[Inner(t).type] = "free",
           NEW s \in Askers, NEW i \in 1 .. Len(work[s]), s # t \/ i # Len(work[t]),
           work[s][i].type = Inner(t).type
    PROVE  work[s][i].at = "lock"
<1>1. Inner(t) = work[t][Len(work[t])] /\ Len(work[t]) \in 1 .. Len(work[t])
    BY InnerCall
<1>2. s # "free"
    BY SingletonAssumption DEF Askers, ExitThread
<1>3. CASE Inner(t).at # "lock"
    BY <1>1, <1>3, OneInside
<1>4. CASE lockOf[Inner(t).type] = "free"
    BY <1>2, <1>4 DEF CallsInStep, CallInStep, Depth
<1> QED
    BY <1>3, <1>4

\* Nothing that a call for type y knows changes.
SameType(y) ==
    /\ lockOf'[y] = lockOf[y] /\ life'[y] = life[y]
    /\ y \in published' <=> y \in published
    /\ y \in DOMAIN items' <=> y \in DOMAIN items

LEMMA MoveKeepsSteps ==
    ASSUME SingletonTypeOK, CallsNested, CallsInStep, FinishAlone, NEW t \in Askers, work[t] # <<>>,
           NEW a \in Places, Continue(t, a), finishing' = finishing,
           Inner(t).at # "lock" \/ lockOf[Inner(t).type] = "free",
           NEW x \in Types, x = Inner(t).type, \A y \in Types : y # x => SameType(y),
           life'[x] # "dead", CallInStep(t, x, a)'
    PROVE  CallsInStep'
<1>1. /\ \A s \in Askers : Len(work'[s]) = Len(work[s])
      /\ \A s \in Askers : \A i \in 1 .. Len(work[s]) :
            /\ work'[s][i].type = work[s][i].type
            /\ s # t \/ i # Len(work[t]) => work'[s][i] = work[s][i]
      /\ work'[t][Len(work[t])].at = a
    BY MoveKeepsNesting
<1>2. Inner(t) = work[t][Len(work[t])] /\ Len(work[t]) \in 1 .. Len(work[t])
    BY InnerCall
<1> SUFFICES ASSUME NEW s \in Askers, NEW i \in 1 .. Len(work'[s])
             PROVE  CallInStep(s, work[s][i].type, work[s][i].at)'
    BY DEF CallsInStep, Depth
<1>3. CASE s = t /\ i = Len(work[t])
    BY <1>1, <1>2, <1>3 DEF CallInStep
<1>4. CASE s # t \/ i # Len(work[t])
  <2>1. /\ work'[s][i] = work[s][i] /\ i \in 1 .. Len(work[s])
        /\ CallInStep(s, work[s][i].type, work[s][i].at)
      BY <1>1, <1>4 DEF CallsInStep, Depth
  <2>2. work[s][i].type = x => work[s][i].at = "lock"
      BY <2>1, <1>4, OthersWait
  <2>3. work[s][i].type \in Types
      BY <2>1, CallTyped
  <2> QED
      BY <2>1, <2>2, <2>3 DEF CallInStep, SameType
<1> QED
    BY <1>3, <1>4

LEMMA PopKeepsSteps ==
    ASSUME SingletonTypeOK, CallsNested, CallsInStep, FinishAlone, NEW t \in Askers, work[t] # <<>>,
           work' = [work EXCEPT ![t] = Outer(t)], finishing' = finishing, Inner(t).at # "lock",
           NEW x \in Types, x = Inner(t).type, \A y \in Types : y # x => SameType(y), life'[x] = life[x]
    PROVE  CallsInStep'
<1>1. /\ \A s \in Askers : Len(work'[s]) = IF s = t THEN Len(work[s]) - 1 ELSE Len(work[s])
      /\ \A s \in Askers : \A i \in 1 .. Len(work[s]) :
            s # t \/ i # Len(work[t]) => work'[s][i] = work[s][i]
    BY PopKeepsNesting
<1>2. Len(work[t]) \in Nat \ {0}
    BY InnerCall
<1> SUFFICES ASSUME NEW s \in Askers, NEW i \in 1 .. Len(work'[s])
             PROVE  CallInStep(s, work[s][i].type, work[s][i].at)'
    BY DEF CallsInStep, Depth
<1>3. i \in 1 .. Len(work[s]) /\ (s # t \/ i # Len(work[t]))
    BY <1>1, <1>2
<1>4. work'[s][i] = work[s][i] /\ CallInStep(s, work[s][i].type, work[s][i].at)
    BY <1>1, <1>3 DEF CallsInStep, Depth
<1>5. work[s][i].type = x => work[s][i].at = "lock"
    BY <1>3, OthersWait
<1>6. work[s][i].type \in Types
    BY <1>3, CallTyped
<1> QED
    BY <1>4, <1>5, <1>6 DEF CallInStep, SameType

-----------------------------------------------------------------------------
LEMMA LockKeepsInv ==
    ASSUME SingletonInv, NEW t \in Askers, LockRecursive(t)
    PROVE  SingletonInv'
<1> USE DEF SingletonInv
<1>1. PICK a \in {"unlock", "construct"} :
          a = IF Inner(t).type \in published THEN "unlock" ELSE "construct"
    OBVIOUS
<1>2. /\ work[t] # <<>> /\ Inner(t).at = "lock" /\ lockOf[Inner(t).type] = "free"
      /\ lockOf' = [lockOf EXCEPT ![Inner(t).type] = t]
      /\ a \in Places /\ Continue(t, a) /\ finishing' = finishing
      /\ UNCHANGED <<published, life, users, items, registered, finishing, throws, deadUse>>
    BY <1>1 DEF LockRecursive, Places
<1>3. PICK x \in Types : x = Inner(t).type
    BY <1>2, InnerCall
<1>4. /\ Inner(t) = work[t][Len(work[t])] /\ Len(work[t]) \in 1 .. Len(work[t])
    BY <1>2, InnerCall
<1>5. /\ work' \in [Askers -> Seq(Calls)] /\ CallsNested' /\ FinishAlone'
      /\ \A s \in Askers : Len(work'[s]) = Len(work[s])
      /\ \A s \in Askers : \A i \in 1 .. Len(work[s]) :
            /\ work'[s][i].type = work[s][i].type
            /\ s # t \/ i # Len(work[t]) => work'[s][i] = work[s][i]
      /\ work'[t][Len(work[t])].at = a
    BY <1>2, MoveKeepsNesting
<1>6. SingletonTypeOK'
    BY <1>2, <1>3, <1>5 DEF SingletonTypeOK
<1>7. \A y, P : Calling(y, P) /\ "lock" \notin P => Calling(y, P)'
    BY <1>2, MoveKeepsCalls
<1>8. lockOf'[x] = t /\ \A y \in Types : y # x => lockOf'[y] = lockOf[y]
    BY <1>2, <1>3 DEF SingletonTypeOK
<1>9. ASSUME NEW P PROVE ~Calling(x, P) \/ "lock" \in P
    <2> SUFFICES ASSUME Calling(x, P), "lock" \notin P PROVE FALSE
        OBVIOUS
    <2>1. PICK s \in Askers : \E i \in 1 .. Len(work[s]) : work[s][i].type = x /\ work[s][i].at \in P
        BY DEF Calling, Depth
    <2>2. PICK i \in 1 .. Len(work[s]) : work[s][i].type = x /\ work[s][i].at \in P
        BY <2>1
    <2> QED BY <2>2, <1>2, <1>3, <1>4, OthersWait
<1>10. a = "construct" => life[x] = "none"
    BY <1>1, <1>3, <1>9 DEF ObjectsInStep, ObjectInStep
<1>11. CallsInStep'
  <2>1. life[x] # "dead"
      BY <1>2, <1>3, <1>4 DEF CallsInStep, CallInStep, Depth
  <2>2. CallInStep(t, x, a)'
      BY <2>1, <1>1, <1>2, <1>3, <1>8, <1>10 DEF CallInStep
  <2>3. \A y \in Types : y # x => SameType(y)
      BY <1>2, <1>8 DEF SameType
  <2> QED
      BY <2>1, <2>2, <2>3, <1>2, <1>3, MoveKeepsSteps
<1>12. ObjectsInStep'
    BY <1>2, <1>7 DEF ObjectsInStep, ObjectInStep
<1>13. UsersInStep' /\ DeadUnused'
    BY <1>2, <1>7 DEF UsersInStep, UsedBefore, DeadUnused
<1> QED
    BY <1>5, <1>6, <1>11, <1>12, <1>13

LEMMA ReturnKeepsInv ==
    ASSUME SingletonInv, NEW t \in Askers, ConstructorReturns(t)
    PROVE  SingletonInv'
<1> USE DEF SingletonInv
<1>1. /\ work[t] # <<>> /\ Inner(t).at = "construct" /\ "register" \in Places
      /\ life' = [life EXCEPT ![Inner(t).type] = IF @ = "none" THEN "alive" ELSE "twice"]
      /\ Continue(t, "register") /\ finishing' = finishing
      /\ UNCHANGED <<published, lockOf, users, items, registered, finishing, throws, deadUse>>
    BY DEF ConstructorReturns, Places
<1>2. PICK x \in Types : x = Inner(t).type
    BY <1>1, InnerCall
<1>3. /\ Inner(t) = work[t][Len(work[t])] /\ Len(work[t]) \in 1 .. Len(work[t])
    BY <1>1, InnerCall
<1>4. work' \in [Askers -> Seq(Calls)] /\ CallsNested' /\ FinishAlone'
    BY <1>1, MoveKeepsNesting
<1>5. /\ life[x] = "none" /\ lockOf[x] = t
    BY <1>1, <1>2, <1>3 DEF CallsInStep, CallInStep, Depth
<1>6. life'[x] = "alive" /\ \A y \in Types : y # x => life'[y] = life[y]
    BY <1>1, <1>2, <1>5 DEF SingletonTypeOK
<1>7. SingletonTypeOK'
    BY <1>1, <1>2, <1>4 DEF SingletonTypeOK
<1>8. \A y, P : Calling(y, P) /\ (y # x \/ "construct" \notin P) => Calling(y, P)'
    BY <1>1, <1>2, MoveKeepsCalls
<1>9. Calling(x, {"register"})' /\ Calling(x, {"register", "publish"})'
    BY <1>1, <1>2, MoveKeepsCalls
<1>10. x \notin published /\ x \notin DOMAIN items /\ finishing.object # x
    BY <1>5 DEF ObjectsInStep, ObjectInStep
<1>11. CallsInStep'
  <2>1. CallInStep(t, x, "register")'
      BY <1>1, <1>5, <1>6, <1>10 DEF CallInStep
  <2>2. \A y \in Types : y # x => SameType(y)
      BY <1>1, <1>6 DEF SameType
  <2> QED
      BY <2>1, <2>2, <1>1, <1>2, <1>6, MoveKeepsSteps
<1>12. ObjectsInStep'
  <2> SUFFICES ASSUME NEW y \in Types PROVE ObjectInStep(y)'
      BY DEF ObjectsInStep
  <2>1. CASE y = x
      BY <2>1, <1>1, <1>6, <1>9, <1>10 DEF ObjectInStep
  <2>2. CASE y # x
      BY <2>2, <1>1, <1>6, <1>8 DEF ObjectsInStep, ObjectInStep
  <2> QED BY <2>1, <2>2
<1>13. UsersInStep'
    BY <1>1, <1>5, <1>6, <1>8, <1>10 DEF UsersInStep, UsedBefore
<1>14. DeadUnused'
    BY <1>1, <1>5, <1>6 DEF DeadUnused
<1> QED
    BY <1>4, <1>7, <1>11, <1>12, <1>13, <1>14

LEMMA RegisterKeepsInv ==
    ASSUME SingletonInv, NEW t \in Askers, RegisterAtExit(t)
    PROVE  SingletonInv'
<1> USE DEF SingletonInv
<1>1. /\ work[t] # <<>> /\ Inner(t).at = "register" /\ "publish" \in Places
      /\ items' = [x \in DOMAIN items \cup {Inner(t).type} |->
                      IF x = Inner(t).type THEN registered ELSE items[x]]
      /\ registered' = registered + 1
      /\ Continue(t, "publish") /\ finishing' = finishing
      /\ UNCHANGED <<published, lockOf, life, users, finishing, throws, deadUse>>
    BY DEF RegisterAtExit, Places
<1>2. PICK x \in Types : x = Inner(t).type
    BY <1>1, InnerCall
<1>3. /\ Inner(t) = work[t][Len(work[t])] /\ Len(work[t]) \in 1 .. Len(work[t])
    BY <1>1, InnerCall
<1>4. work' \in [Askers -> Seq(Calls)] /\ CallsNested' /\ FinishAlone'
    BY <1>1, MoveKeepsNesting
<1>5. /\ life[x] = "alive" /\ lockOf[x] = t /\ x \notin DOMAIN items
      /\ x \notin published /\ finishing.object # x
    BY <1>1, <1>2, <1>3 DEF CallsInStep, CallInStep, Depth
<1>6. /\ DOMAIN items' = DOMAIN items \cup {x} /\ items'[x] = registered
      /\ \A y \in DOMAIN items : items'[y] = items[y]
    BY <1>1, <1>2, <1>5
<1>7. SingletonTypeOK'
    BY <1>1, <1>2, <1>4 DEF SingletonTypeOK
<1>8. \A y, P : Calling(y, P) /\ (y # x \/ "register" \notin P) => Calling(y, P)'
    BY <1>1, <1>2, MoveKeepsCalls
<1>9. Calling(x, {"register", "publish"})'
    BY <1>1, <1>2, MoveKeepsCalls
<1>11. CallsInStep'
  <2>1. CallInStep(t, x, "publish")'
      BY <1>1, <1>5, <1>6 DEF CallInStep
  <2>2. \A y \in Types : y # x => SameType(y)
      BY <1>1, <1>6 DEF SameType
  <2> QED
      BY <2>1, <2>2, <1>1, <1>2, <1>5, MoveKeepsSteps
<1>12. ObjectsInStep'
  <2> SUFFICES ASSUME NEW y \in Types PROVE ObjectInStep(y)'
      BY DEF ObjectsInStep
  <2>1. CASE y = x
      BY <2>1, <1>1, <1>5, <1>6, <1>9 DEF ObjectInStep
  <2>2. CASE y # x
      BY <2>2, <1>1, <1>6, <1>8 DEF ObjectsInStep, ObjectInStep
  <2> QED BY <2>1, <2>2
<1>13. UsersInStep'
  <2>1. \A y \in DOMAIN items : items[y] < registered /\ items[y] \in Nat
      BY DEF UsersInStep, SingletonTypeOK
  <2>2. registered \in Nat
      BY DEF SingletonTypeOK
  <2>3. \A y \in DOMAIN items' : items'[y] < registered'
      BY <2>1, <2>2, <1>1, <1>6
  <2> SUFFICES ASSUME NEW by \in Types PROVE UsedBefore(by)'
      BY <2>3 DEF UsersInStep
  <2>4. /\ life'[by] # "dead" => users'[by] \subseteq DOMAIN items'
      BY <1>1, <1>6 DEF UsersInStep, UsedBefore
  <2>5. life'[by] = "none" /\ users'[by] # {} => Calling(by, {"construct"})'
      BY <1>1, <1>8 DEF UsersInStep, UsedBefore
  <2>6. ASSUME by \in DOMAIN items', NEW y \in users'[by] PROVE items'[y] < items'[by]
    <3>1. life[by] # "dead"
        BY <2>6, <1>5, <1>6 DEF ObjectsInStep, ObjectInStep
    <3>2. y \in DOMAIN items
        BY <3>1, <2>6, <1>1 DEF UsersInStep, UsedBefore
    <3> QED
        BY <3>2, <2>1, <2>6, <1>1, <1>6 DEF UsersInStep, UsedBefore
  <2> QED
      BY <2>4, <2>5, <2>6 DEF UsedBefore
<1>14. DeadUnused'
    BY <1>1 DEF DeadUnused
<1> QED
    BY <1>4, <1>7, <1>11, <1>12, <1>13, <1>14

LEMMA PublishKeepsInv ==
    ASSUME SingletonInv, NEW t \in Askers, Publish(t)
    PROVE  SingletonInv'
<1> USE DEF SingletonInv
<1>1. /\ work[t] # <<>> /\ Inner(t).at = "publish" /\ "unlock" \in Places
      /\ published' = published \cup {Inner(t).type}
      /\ Continue(t, "unlock") /\ finishing' = finishing
      /\ UNCHANGED <<lockOf, life, users, items, registered, finishing, throws, deadUse>>
    BY DEF Publish, Places
<1>2. PICK x \in Types : x = Inner(t).type
    BY <1>1, InnerCall
<1>3. /\ Inner(t) = work[t][Len(work[t])] /\ Len(work[t]) \in 1 .. Len(work[t])
    BY <1>1, InnerCall
<1>4. work' \in [Askers -> Seq(Calls)] /\ CallsNested' /\ FinishAlone'
    BY <1>1, MoveKeepsNesting
<1>5. life[x] = "alive" /\ lockOf[x] = t /\ x \in DOMAIN items
    BY <1>1, <1>2, <1>3 DEF CallsInStep, CallInStep, Depth
<1>7. SingletonTypeOK'
    BY <1>1, <1>2, <1>4 DEF SingletonTypeOK
<1>8. \A y, P : Calling(y, P) /\ (y # x \/ "publish" \notin P) => Calling(y, P)'
    BY <1>1, <1>2, MoveKeepsCalls
<1>11. CallsInStep'
  <2>1. CallInStep(t, x, "unlock")'
      BY <1>1, <1>2, <1>5 DEF CallInStep
  <2>2. \A y \in Types : y # x => SameType(y)
      BY <1>1, <1>2 DEF SameType
  <2> QED
      BY <2>1, <2>2, <1>1, <1>2, <1>5, MoveKeepsSteps
<1>12. ObjectsInStep'
  <2> SUFFICES ASSUME NEW y \in Types PROVE ObjectInStep(y)'
      BY DEF ObjectsInStep
  <2>1. CASE y = x
      BY <2>1, <1>1, <1>2, <1>5 DEF ObjectsInStep, ObjectInStep
  <2>2. CASE y # x
      BY <2>2, <1>1, <1>2, <1>8 DEF ObjectsInStep, ObjectInStep
  <2> QED BY <2>1, <2>2
<1>13. UsersInStep' /\ DeadUnused'
    BY <1>1, <1>8 DEF UsersInStep, UsedBefore, DeadUnused
<1> QED
    BY <1>4, <1>7, <1>11, <1>12, <1>13

\* An object that a constructor gets is registered: it is alive, and Finish()
\* destroys no object of a larger type meanwhile.
LEMMA GotIsRegistered ==
    ASSUME SingletonInv, NEW t \in Askers, work[t] # <<>>, NEW x \in Types,
           x \in published, life[x] = "alive", x >= Inner(t).type
    PROVE  x \in DOMAIN items
<1> USE DEF SingletonInv
<1>1. ~Calling(x, {"register"})
    BY DEF Calling, CallsInStep, CallInStep
<1>2. finishing.object # x
  <2> SUFFICES ASSUME finishing.object = x PROVE FALSE
      OBVIOUS
  <2>1. x # NoType
      BY SingletonAssumption DEF NoType
  <2>2. t = ExitThread
      BY <2>1 DEF FinishAlone, Askers
  <2>3. Len(work[t]) \in 1 .. Len(work[t]) /\ Inner(t) = work[t][Len(work[t])] /\ Inner(t).type \in Nat
      BY InnerCall
  <2>4. x < Inner(t).type
      BY <2>2, <2>3 DEF FinishAlone, Depth
  <2> QED
      BY <2>3, <2>4, SingletonAssumption
<1> QED
    BY <1>1, <1>2 DEF ObjectsInStep, ObjectInStep

LEMMA AskPublishedKeepsInv ==
    ASSUME SingletonInv, NEW t \in Askers, NEW x \in Types, AskPublished(t, x)
    PROVE  SingletonInv'
<1> USE DEF SingletonInv
<1>1. /\ MayAsk(t) /\ x > Executing(t) /\ x \in published
      /\ users' = IF work[t] # <<>> /\ life[x] = "alive"
                  THEN [users EXCEPT ![Executing(t)] = @ \cup {x}] ELSE users
      /\ deadUse' = IF Executing(t) # NoType /\ life[x] = "dead"
                    THEN deadUse \cup {<<Executing(t), x>>} ELSE deadUse
      /\ UNCHANGED <<published, lockOf, work, life, items, registered, finishing, throws>>
    BY DEF AskPublished
<1>2. CASE work[t] # <<>>
  <2>1. PICK by \in Types : by = Inner(t).type /\ by = Executing(t)
      BY <1>2, InnerCall DEF Executing
  <2>2. /\ Inner(t).at = "construct" /\ Inner(t) = work[t][Len(work[t])]
        /\ Len(work[t]) \in 1 .. Len(work[t])
      BY <1>1, <1>2, InnerCall DEF MayAsk
  <2>3. life[by] = "none" /\ Calling(by, {"construct"})
      BY <2>1, <2>2 DEF CallsInStep, CallInStep, Calling, Depth
  <2>4. life[x] = "alive" => x \in DOMAIN items
    <3>1. x >= Inner(t).type
        BY <1>1, <2>1, SingletonAssumption
    <3> QED BY <3>1, <1>1, <1>2, GotIsRegistered
  <2>5. /\ life[x] # "alive" => users' = users
        /\ life[x] = "alive" => /\ users'[by] = users[by] \cup {x}
                                /\ \A y \in Types : y # by => users'[y] = users[y]
        /\ users' \in [Types -> SUBSET Types]
      BY <1>1, <1>2, <2>1 DEF SingletonTypeOK
  <2>6. by \notin DOMAIN items
      BY <2>3 DEF ObjectsInStep, ObjectInStep
  <2>7. UsersInStep'
    <3>1. \A y, P : Calling(y, P) => Calling(y, P)'
        BY <1>1 DEF Calling, Depth
    <3> SUFFICES ASSUME NEW y \in Types PROVE UsedBefore(y)'
        BY <1>1 DEF UsersInStep
    <3>2. CASE y = by
        BY <3>1, <3>2, <1>1, <2>3, <2>4, <2>5, <2>6 DEF UsersInStep, UsedBefore
    <3>3. CASE y # by
        BY <3>1, <3>3, <1>1, <2>5 DEF UsersInStep, UsedBefore
    <3> QED BY <3>2, <3>3
  <2>8. DeadUnused'
    <3> SUFFICES ASSUME NEW use \in deadUse'
                 PROVE  /\ use[1] \in Types /\ use[2] \in Types
                        /\ life'[use[2]] = "dead" /\ use[2] \notin users'[use[1]]
        BY DEF DeadUnused
    <3>1. CASE use \in deadUse
        <4>1. use[1] \in Types /\ use[2] \in Types /\ life[use[2]] = "dead" /\ use[2] \notin users[use[1]]
            BY <3>1 DEF DeadUnused
        <4> QED BY <4>1, <1>1, <2>5
    <3>2. CASE use \notin deadUse
        <4>1. life[x] = "dead" /\ use = <<by, x>>
            BY <3>2, <1>1, <2>1
        <4>2. x \notin users[by]
            BY <4>1, <2>3 DEF UsersInStep, UsedBefore, ObjectsInStep, ObjectInStep
        <4> QED BY <4>1, <4>2, <1>1, <2>5
    <3> QED BY <3>1, <3>2
  <2>9. SingletonTypeOK'
      BY <1>1, <2>5 DEF SingletonTypeOK
  <2>10. CallsNested' /\ FinishAlone' /\ CallsInStep' /\ ObjectsInStep'
      BY <1>1 DEF CallsNested, FinishAlone, CallsInStep, CallInStep, ObjectsInStep, ObjectInStep,
                  Calling, Depth
  <2> QED
      BY <2>7, <2>8, <2>9, <2>10
<1>3. CASE work[t] = <<>>
  <2>1. users' = users
      BY <1>1, <1>3
  <2>2. SingletonTypeOK' /\ CallsNested' /\ FinishAlone'
      BY <1>1, <2>1 DEF CallsNested, FinishAlone, Depth, SingletonTypeOK
  <2>3. CallsInStep' /\ ObjectsInStep' /\ UsersInStep'
      BY <1>1, <2>1 DEF CallsInStep, CallInStep, ObjectsInStep, ObjectInStep, UsersInStep, UsedBefore,
                  Calling, Depth
  <2>4. DeadUnused'
    <3> SUFFICES ASSUME NEW use \in deadUse'
                 PROVE  /\ use[1] \in Types /\ use[2] \in Types
                        /\ life'[use[2]] = "dead" /\ use[2] \notin users'[use[1]]
        BY DEF DeadUnused
    <3>1. CASE use \in deadUse
        BY <3>1, <1>1, <2>1 DEF DeadUnused
    <3>2. CASE use \notin deadUse
        <4>1. PICK by : by = Executing(t)
            OBVIOUS
        <4>2. life[x] = "dead" /\ use = <<by, x>> /\ by # NoType
            BY <3>2, <4>1, <1>1
        <4>3. by = finishing.object
            BY <4>1, <4>2, <1>3 DEF Executing
        <4>4. by \in Types
            BY <4>2, <4>3 DEF SingletonTypeOK
        <4>5. life[by] = "alive"
            BY <4>3, <4>4 DEF ObjectsInStep, ObjectInStep
        <4>6. x \notin users[by]
            BY <4>2, <4>4, <4>5 DEF UsersInStep, UsedBefore, ObjectsInStep, ObjectInStep
        <4> QED BY <4>2, <4>4, <4>6, <1>1, <2>1
    <3> QED BY <3>1, <3>2
  <2> QED
      BY <2>2, <2>3, <2>4
<1> QED
    BY <1>2, <1>3

LEMMA AskNewKeepsInv ==
    ASSUME SingletonInv, NEW t \in Askers, NEW x \in Types, AskNew(t, x)
    PROVE  SingletonInv'
<1> USE DEF SingletonInv
<1>1. PICK c : c = [type |-> x, at |-> "lock"]
    OBVIOUS
<1>2. /\ MayAsk(t) /\ x > Executing(t) /\ x \notin published
      /\ t = ExitThread \/ ~finishing.started
      /\ work' = [work EXCEPT ![t] = Append(@, c)]
      /\ UNCHANGED <<published, lockOf, life, users, items, registered, finishing, throws, deadUse>>
    BY <1>1 DEF AskNew
<1>3. c \in Calls /\ c.type = x /\ c.at = "lock" /\ x \in Nat \ {0}
    BY <1>1, SingletonAssumption DEF Calls, Places
<1>4. /\ work' \in [Askers -> Seq(Calls)] /\ Len(work[t]) \in Nat
      /\ \A s \in Askers : s # t => work'[s] = work[s]
      /\ Len(work'[t]) = Len(work[t]) + 1
      /\ \A i \in 1 .. Len(work[t]) : work'[t][i] = work[t][i]
      /\ work'[t][Len(work[t]) + 1] = c
  <2>1. work \in [Askers -> Seq(Calls)]
      BY DEF SingletonTypeOK
  <2> QED
      BY <2>1, <1>2, <1>3, PushedCall
<1>5. \A s \in Askers : \A i \in 1 .. Len(work[s]) : work'[s][i] = work[s][i] /\ i \in 1 .. Len(work'[s])
    BY <1>4
<1>6. \A s \in Askers : \A i \in 1 .. Len(work'[s]) :
          i \in 1 .. Len(work[s]) \/ (s = t /\ i = Len(work[t]) + 1)
    BY <1>4
<1>7. SingletonTypeOK'
    BY <1>2, <1>4 DEF SingletonTypeOK
<1>8. \A y, P : Calling(y, P) => Calling(y, P)'
    BY <1>5 DEF Calling, Depth
<1>9. \A i \in 1 .. Len(work[t]) : work[t][i].type < x /\ work[t][i].at = "construct"
  <2> SUFFICES ASSUME NEW i \in 1 .. Len(work[t])
               PROVE  work[t][i].type < x /\ work[t][i].at = "construct"
      OBVIOUS
  <2>1. work[t] # <<>>
      BY <1>4 DEF SingletonTypeOK
  <2>2. /\ Inner(t).at = "construct" /\ Inner(t) = work[t][Len(work[t])] /\ Executing(t) = Inner(t).type
        /\ Inner(t).type \in Nat /\ Len(work[t]) \in 1 .. Len(work[t])
      BY <2>1, <1>2, InnerCall DEF MayAsk, Executing
  <2>3. work[t][i].type \in Nat
      BY CallTyped
  <2>4. i # Len(work[t]) => work[t][i].type < Inner(t).type /\ work[t][i].at = "construct"
      BY <2>2 DEF CallsNested, Depth
  <2> QED
      BY <2>2, <2>3, <2>4, <1>2, <1>3
<1>10. CallsNested'
  <2> SUFFICES ASSUME NEW s \in Askers
               PROVE  /\ \A i \in 1 .. Len(work'[s]) : i < Len(work'[s]) => work'[s][i].at = "construct"
                      /\ \A i, j \in 1 .. Len(work'[s]) : i < j => work'[s][i].type < work'[s][j].type
      BY DEF CallsNested, Depth
  <2>1. CASE s # t
      BY <2>1, <1>4 DEF CallsNested, Depth
  <2>2. CASE s = t
    <3>1. \A i \in 1 .. Len(work'[t]) : i < Len(work'[t]) => i \in 1 .. Len(work[t])
        BY <1>4
    <3>2. \A i \in 1 .. Len(work'[t]) : i < Len(work'[t]) => work'[t][i].at = "construct"
        BY <3>1, <1>5, <1>9
    <3>3. ASSUME NEW i \in 1 .. Len(work'[t]), NEW j \in 1 .. Len(work'[t]), i < j
          PROVE  work'[t][i].type < work'[t][j].type
        <4>1. i \in 1 .. Len(work[t]) /\ work'[t][i] = work[t][i]
            BY <3>3, <1>4
        <4>2. CASE j = Len(work[t]) + 1
            BY <4>1, <4>2, <1>3, <1>4, <1>9
        <4>3. CASE j \in 1 .. Len(work[t])
            BY <4>1, <4>3, <3>3, <1>5 DEF CallsNested, Depth
        <4> QED BY <4>2, <4>3, <1>6
    <3> QED BY <3>2, <3>3, <2>2
  <2> QED BY <2>1, <2>2
<1>11. FinishAlone'
  <2>1. finishing' = finishing
      BY <1>2
  <2>2. t # ExitThread => work'[ExitThread] = work[ExitThread] /\ ~finishing.started
      BY <1>2, <1>4 DEF Askers
  <2>3. t = ExitThread => finishing.object # NoType /\ \A s \in Callers : work'[s] = work[s]
      BY <1>2, <1>4, SingletonAssumption DEF MayAsk, Askers, ExitThread
  <2>4. ASSUME t = ExitThread, NEW i \in 1 .. Len(work'[t]) PROVE finishing.object < work'[t][i].type
    <3>1. CASE i \in 1 .. Len(work[t])
        BY <3>1, <2>4, <1>5 DEF FinishAlone, Depth
    <3>2. CASE i = Len(work[t]) + 1 /\ work[t] = <<>>
        BY <3>2, <2>4, <1>2, <1>3, <1>4, SingletonAssumption DEF Executing, SingletonTypeOK, NoType
    <3>3. CASE i = Len(work[t]) + 1 /\ work[t] # <<>>
        <4>1. Len(work[t]) \in 1 .. Len(work[t])
            BY <3>3, InnerCall
        <4>2. finishing.object < work[t][Len(work[t])].type /\ work[t][Len(work[t])].type < x
            BY <4>1, <2>4, <1>9 DEF FinishAlone, Depth
        <4>3. finishing.object \in Nat /\ work[t][Len(work[t])].type \in Nat
            BY <4>1, CallTyped, SingletonAssumption DEF SingletonTypeOK, NoType
        <4> QED BY <4>2, <4>3, <3>3, <1>3, <1>4
    <3> QED BY <3>1, <3>2, <3>3, <1>6, <2>4
  <2> QED
      BY <2>4, <2>1, <2>2, <2>3 DEF FinishAlone, Depth
<1>12. life[x] # "dead"
    BY <1>2 DEF ObjectsInStep, ObjectInStep, Calling, CallsInStep, CallInStep
<1>13. CallsInStep'
  <2> SUFFICES ASSUME NEW s \in Askers, NEW i \in 1 .. Len(work'[s])
               PROVE  CallInStep(s, work[s][i].type, work[s][i].at)'
      BY DEF CallsInStep, Depth
  <2>1. CASE i \in 1 .. Len(work[s])
      BY <2>1, <1>2, <1>5 DEF CallsInStep, CallInStep, Depth
  <2>2. CASE s = t /\ i = Len(work[t]) + 1
      BY <2>2, <1>2, <1>3, <1>4, <1>12 DEF CallInStep
  <2> QED BY <2>1, <2>2, <1>6
<1>14. ObjectsInStep' /\ UsersInStep' /\ DeadUnused'
    BY <1>2, <1>8 DEF ObjectsInStep, ObjectInStep, UsersInStep, UsedBefore, DeadUnused
<1> QED
    BY <1>7, <1>10, <1>11, <1>13, <1>14

LEMMA ThrowKeepsInv ==
    ASSUME SingletonInv, NEW t \in Askers, ConstructorThrows(t)
    PROVE  SingletonInv'
<1> USE DEF SingletonInv
<1>1. /\ work[t] # <<>> /\ Inner(t).at = "construct" /\ throws' = throws + 1
      /\ lockOf' = [lockOf EXCEPT ![Inner(t).type] = "free"]
      /\ users' = [users EXCEPT ![Inner(t).type] = {}]
      /\ work' = [work EXCEPT ![t] = Outer(t)]
      /\ UNCHANGED <<published, life, items, registered, finishing, deadUse>>
    BY DEF ConstructorThrows
<1>2. PICK x \in Types : x = Inner(t).type
    BY <1>1, InnerCall
<1>3. /\ Inner(t) = work[t][Len(work[t])] /\ Len(work[t]) \in 1 .. Len(work[t])
    BY <1>1, InnerCall
<1>4. /\ work' \in [Askers -> Seq(Calls)] /\ CallsNested' /\ FinishAlone'
      /\ \A s \in Askers : Len(work'[s]) = IF s = t THEN Len(work[s]) - 1 ELSE Len(work[s])
      /\ \A s \in Askers : \A i \in 1 .. Len(work[s]) :
            s # t \/ i # Len(work[t]) => work'[s][i] = work[s][i]
    BY <1>1, PopKeepsNesting
<1>5. life[x] = "none"
    BY <1>1, <1>2, <1>3 DEF CallsInStep, CallInStep, Depth
<1>6. /\ users'[x] = {} /\ users' \in [Types -> SUBSET Types]
      /\ \A y \in Types : y # x => users'[y] = users[y] /\ lockOf'[y] = lockOf[y]
    BY <1>1, <1>2 DEF SingletonTypeOK
<1>7. SingletonTypeOK'
    BY <1>1, <1>2, <1>4, <1>6 DEF SingletonTypeOK
<1>8. \A y, P : Calling(y, P) /\ (y # x \/ "construct" \notin P) => Calling(y, P)'
    BY <1>1, <1>2, PopKeepsCalls
<1>9. CallsInStep'
  <2>1. \A y \in Types : y # x => SameType(y)
      BY <1>1, <1>6 DEF SameType
  <2>2. life'[x] = life[x] /\ Inner(t).at # "lock" /\ finishing' = finishing
      BY <1>1
  <2> QED
      BY <2>1, <2>2, <1>1, <1>2, PopKeepsSteps
<1>10. ObjectsInStep'
    BY <1>1, <1>8 DEF ObjectsInStep, ObjectInStep
<1>11. UsersInStep'
    BY <1>1, <1>6, <1>8 DEF UsersInStep, UsedBefore
<1>12. DeadUnused'
    BY <1>1, <1>6 DEF DeadUnused
<1> QED
    BY <1>4, <1>7, <1>9, <1>10, <1>11, <1>12

LEMMA UnlockKeepsInv ==
    ASSUME SingletonInv, NEW t \in Askers, UnlockRecursive(t)
    PROVE  SingletonInv'
<1> USE DEF SingletonInv
<1>1. /\ work[t] # <<>> /\ Inner(t).at = "unlock"
      /\ lockOf' = [lockOf EXCEPT ![Inner(t).type] = "free"]
      /\ work' = [work EXCEPT ![t] = Outer(t)]
      /\ users' = IF Len(work[t]) > 1
                  THEN [users EXCEPT ![work[t][Len(work[t]) - 1].type] = @ \cup {Inner(t).type}] ELSE users
      /\ UNCHANGED <<published, life, items, registered, finishing, throws, deadUse>>
    BY DEF UnlockRecursive
<1>2. PICK x \in Types : x = Inner(t).type
    BY <1>1, InnerCall
<1>3. /\ Inner(t) = work[t][Len(work[t])] /\ Len(work[t]) \in 1 .. Len(work[t]) /\ Len(work[t]) \in Nat
    BY <1>1, InnerCall
<1>4. /\ work' \in [Askers -> Seq(Calls)] /\ CallsNested' /\ FinishAlone'
      /\ \A s \in Askers : Len(work'[s]) = IF s = t THEN Len(work[s]) - 1 ELSE Len(work[s])
      /\ \A s \in Askers : \A i \in 1 .. Len(work[s]) :
            s # t \/ i # Len(work[t]) => work'[s][i] = work[s][i]
    BY <1>1, PopKeepsNesting
<1>5. x \in published /\ life[x] # "dead"
    BY <1>1, <1>2, <1>3 DEF CallsInStep, CallInStep, Depth
<1>6. life[x] = "alive"
    BY <1>5 DEF ObjectsInStep, ObjectInStep, SingletonTypeOK
<1>7. x \in DOMAIN items
  <2>1. x >= Inner(t).type
      BY <1>2, SingletonAssumption
  <2> QED
      BY <2>1, <1>1, <1>5, <1>6, GotIsRegistered
<1>8. \A y \in Types : y # x => lockOf'[y] = lockOf[y]
    BY <1>1, <1>2 DEF SingletonTypeOK
<1>9. \A y, P : Calling(y, P) /\ "unlock" \notin P => Calling(y, P)'
    BY <1>1, <1>2, PopKeepsCalls
<1>10. CallsInStep'
  <2>1. \A y \in Types : y # x => SameType(y)
      BY <1>1, <1>8 DEF SameType
  <2>2. life'[x] = life[x] /\ Inner(t).at # "lock" /\ finishing' = finishing
      BY <1>1
  <2> QED
      BY <2>1, <2>2, <1>1, <1>2, PopKeepsSteps
<1>11. ObjectsInStep'
    BY <1>1, <1>9 DEF ObjectsInStep, ObjectInStep
<1>12. CASE Len(work[t]) > 1
  <2>1. Len(work[t]) - 1 \in 1 .. Len(work[t])
      BY <1>3, <1>12
  <2>2. PICK by \in Types : by = work[t][Len(work[t]) - 1].type
      BY <2>1, CallTyped
  <2>3. work[t][Len(work[t]) - 1].at = "construct"
      BY <2>1, <1>3 DEF CallsNested, Depth
  <2>4. life[by] = "none" /\ Calling(by, {"construct"})
      BY <2>1, <2>2, <2>3 DEF CallsInStep, CallInStep, Calling, Depth
  <2>5. /\ users' \in [Types -> SUBSET Types] /\ users'[by] = users[by] \cup {x}
        /\ \A y \in Types : y # by => users'[y] = users[y]
      BY <1>1, <1>2, <1>12, <2>2 DEF SingletonTypeOK
  <2>6. by \notin DOMAIN items
      BY <2>4 DEF ObjectsInStep, ObjectInStep
  <2>7. UsersInStep'
    <3> SUFFICES ASSUME NEW y \in Types PROVE UsedBefore(y)'
        BY <1>1 DEF UsersInStep
    <3>1. CASE y = by
        BY <3>1, <1>1, <1>7, <1>9, <2>4, <2>5, <2>6 DEF UsersInStep, UsedBefore
    <3>2. CASE y # by
        BY <3>2, <1>1, <1>9, <2>5 DEF UsersInStep, UsedBefore
    <3> QED BY <3>1, <3>2
  <2>8. DeadUnused'
    <3> SUFFICES ASSUME NEW use \in deadUse
                 PROVE  /\ use[1] \in Types /\ use[2] \in Types
                        /\ life'[use[2]] = "dead" /\ use[2] \notin users'[use[1]]
        BY <1>1 DEF DeadUnused
    <3>1. use[1] \in Types /\ use[2] \in Types /\ life[use[2]] = "dead" /\ use[2] \notin users[use[1]]
        BY DEF DeadUnused
    <3> QED BY <3>1, <1>1, <1>6, <2>5
  <2>9. SingletonTypeOK'
      BY <1>1, <1>2, <1>4, <2>5 DEF SingletonTypeOK
  <2> QED
      BY <2>7, <2>8, <2>9, <1>4, <1>10, <1>11
<1>13. CASE ~(Len(work[t]) > 1)
  <2>1. users' = users
      BY <1>1, <1>13
  <2>2. UsersInStep' /\ DeadUnused'
      BY <2>1, <1>1, <1>9 DEF UsersInStep, UsedBefore, DeadUnused
  <2>3. SingletonTypeOK'
      BY <1>1, <1>2, <1>4, <2>1 DEF SingletonTypeOK
  <2> QED
      BY <2>2, <2>3, <1>4, <1>10, <1>11
<1> QED
    BY <1>12, <1>13

\* Finish() pops the item registered last, which no living object uses.
LEMMA PopItemKeepsInv ==
    ASSUME SingletonInv, PopItem
    PROVE  SingletonInv'
<1> USE DEF SingletonInv
<1>1. IsFiniteSet(DOMAIN items) /\ DOMAIN items # {} /\ items \in [DOMAIN items -> Nat]
    BY SingletonAssumption, FS_Subset DEF PopItem, SingletonTypeOK
<1>2. \E y \in DOMAIN items : \A z \in DOMAIN items : items[z] <= items[y]
    BY <1>1, LatestItem
<1>3. PICK x : x = CHOOSE y \in DOMAIN items : \A z \in DOMAIN items : items[z] <= items[y]
    OBVIOUS
<1>4. x \in DOMAIN items /\ \A z \in DOMAIN items : items[z] <= items[x]
    BY <1>2, <1>3
<1>5. /\ finishing.started /\ finishing.object = NoType
      /\ finishing' = [finishing EXCEPT !.object = x]
      /\ items' = [y \in DOMAIN items \ {x} |-> items[y]]
      /\ deadUse' = deadUse \cup {<<x, y>> : y \in {y \in users[x] : life[y] = "dead"}}
      /\ UNCHANGED <<published, lockOf, work, life, users, registered, throws>>
    BY <1>3 DEF PopItem
<1>6. x \in Types /\ life[x] = "alive"
    BY <1>4 DEF SingletonTypeOK, ObjectsInStep, ObjectInStep
<1>7. /\ finishing'.started /\ finishing'.object = x 
      /\ finishing' \in [started : BOOLEAN, object : Types \cup {NoType}]
    BY <1>5, <1>6 DEF SingletonTypeOK
<1>8. DOMAIN items' = DOMAIN items \ {x} /\ \A y \in DOMAIN items' : items'[y] = items[y]
    BY <1>5
<1>9. work[ExitThread] = <<>>
    BY <1>5 DEF FinishAlone
<1>10. \A s \in Askers : work'[s] = <<>> /\ Len(work'[s]) = 0 /\ Len(work[s]) = 0
    BY <1>5, <1>9, NobodyCalls
<1>11. SingletonTypeOK'
    BY <1>5, <1>7, <1>8 DEF SingletonTypeOK
<1>12. CallsNested' /\ CallsInStep'
    BY <1>10 DEF CallsNested, CallsInStep, Depth
<1>13. FinishAlone'
    BY <1>7, <1>10 DEF FinishAlone, Depth, Askers
<1>14. \A y, P : ~Calling(y, P)
    BY <1>10 DEF Calling, Depth
<1>15. ObjectsInStep'
  <2> SUFFICES ASSUME NEW y \in Types PROVE ObjectInStep(y)'
      BY DEF ObjectsInStep
  <2>1. y # NoType /\ ObjectInStep(y)
      BY SingletonAssumption DEF NoType, ObjectsInStep
  <2> QED
      BY <2>1, <1>5, <1>6, <1>7, <1>8, <1>14 DEF ObjectInStep
<1>16. UsersInStep'
  <2> SUFFICES ASSUME NEW by \in Types PROVE UsedBefore(by)'
      BY <1>5, <1>8 DEF UsersInStep
  <2>1. UsedBefore(by) /\ ObjectInStep(by) /\ by # NoType
      BY SingletonAssumption DEF UsersInStep, ObjectsInStep, NoType
  <2>2. life[by] # "dead" => x \notin users[by]
    <3>1. CASE life[by] = "alive"
        <4>1. by \in DOMAIN items
            BY <3>1, <2>1, <1>5, <1>14 DEF ObjectInStep
        <4>2. items[by] <= items[x] /\ items[by] \in Nat /\ items[x] \in Nat
            BY <4>1, <1>1, <1>4
        <4> QED BY <4>1, <4>2, <2>1 DEF UsedBefore
    <3>2. CASE life[by] = "none"
        BY <3>2, <2>1, <1>14 DEF UsedBefore
    <3> QED BY <3>1, <3>2, <2>1 DEF ObjectInStep, SingletonTypeOK
  <2>3. by \in DOMAIN items => life[by] # "dead"
      BY <2>1 DEF ObjectInStep
  <2> QED
      BY <2>1, <2>2, <2>3, <1>5, <1>8, <1>14 DEF UsedBefore
<1>17. DeadUnused'
  <2>1. \A y \in users[x] : life[y] = "alive"
      BY <1>6 DEF UsersInStep, UsedBefore, ObjectsInStep, ObjectInStep, SingletonTypeOK
  <2>2. deadUse' = deadUse
      BY <2>1, <1>5
  <2> QED
      BY <2>2, <1>5 DEF DeadUnused
<1> QED
    BY <1>11, <1>12, <1>13, <1>15, <1>16, <1>17

LEMMA DestructorKeepsInv ==
    ASSUME SingletonInv, DestructorReturns
    PROVE  SingletonInv'
<1> USE DEF SingletonInv
<1>1. /\ finishing.object # NoType /\ work[ExitThread] = <<>>
      /\ life' = [life EXCEPT ![finishing.object] = IF @ = "alive" THEN "dead" ELSE "twice"]
      /\ finishing' = [finishing EXCEPT !.object = NoType]
      /\ UNCHANGED <<published, lockOf, work, users, items, registered, throws, deadUse>>
    BY DEF DestructorReturns
<1>2. PICK x \in Types : x = finishing.object
    BY <1>1 DEF SingletonTypeOK
<1>3. life[x] = "alive" /\ x \notin DOMAIN items
    BY <1>2 DEF ObjectsInStep, ObjectInStep
<1>4. life'[x] = "dead" /\ \A y \in Types : y # x => life'[y] = life[y]
    BY <1>1, <1>2, <1>3 DEF SingletonTypeOK
<1>5. finishing.started
    BY <1>1 DEF FinishAlone
<1>6. /\ finishing'.started /\ finishing'.object = NoType
      /\ finishing' \in [started : BOOLEAN, object : Types \cup {NoType}]
    BY <1>1, <1>5 DEF SingletonTypeOK
<1>7. \A s \in Askers : work'[s] = <<>> /\ Len(work'[s]) = 0 /\ Len(work[s]) = 0
    BY <1>1, <1>5, NobodyCalls
<1>8. SingletonTypeOK'
    BY <1>1, <1>2, <1>6 DEF SingletonTypeOK
<1>9. CallsNested' /\ CallsInStep'
    BY <1>7 DEF CallsNested, CallsInStep, Depth
<1>10. FinishAlone'
    BY <1>6, <1>7 DEF FinishAlone, Depth, Askers
<1>11. \A y, P : ~Calling(y, P)
    BY <1>7 DEF Calling, Depth
<1>12. ObjectsInStep'
  <2> SUFFICES ASSUME NEW y \in Types PROVE ObjectInStep(y)'
      BY DEF ObjectsInStep
  <2>1. y # NoType /\ ObjectInStep(y)
      BY SingletonAssumption DEF NoType, ObjectsInStep
  <2> QED
      BY <2>1, <1>1, <1>2, <1>3, <1>4, <1>6, <1>11 DEF ObjectInStep
<1>13. UsersInStep'
    BY <1>1, <1>3, <1>4, <1>11 DEF UsersInStep, UsedBefore
<1>14. DeadUnused'
    BY <1>1, <1>4 DEF DeadUnused
<1> QED
    BY <1>8, <1>9, <1>10, <1>12, <1>13, <1>14

LEMMA BeginFinishKeepsInv ==
    ASSUME SingletonInv, BeginFinish
    PROVE  SingletonInv'
<1> USE DEF SingletonInv
<1>1. /\ ~finishing.started /\ \A t \in Callers : work[t] = <<>>
      /\ finishing' = [finishing EXCEPT !.started = TRUE]
      /\ UNCHANGED <<published, lockOf, work, life, users, items, registered, throws, deadUse>>
    BY DEF BeginFinish
<1>2. finishing'.started /\ finishing'.object = finishing.object
    BY <1>1 DEF SingletonTypeOK
<1>3. finishing' \in [started : BOOLEAN, object : Types \cup {NoType}]
    BY <1>1 DEF SingletonTypeOK
<1>4. SingletonTypeOK' /\ CallsNested'
    BY <1>1, <1>3 DEF SingletonTypeOK, CallsNested, Depth
<1>5. FinishAlone'
    BY <1>1, <1>2 DEF FinishAlone, Depth
<1>6. CallsInStep' /\ ObjectsInStep'
    BY <1>1, <1>2 DEF CallsInStep, CallInStep, ObjectsInStep, ObjectInStep, Calling, Depth
<1>7. UsersInStep' /\ DeadUnused'
    BY <1>1 DEF UsersInStep, UsedBefore, DeadUnused, Calling, Depth
<1> QED
    BY <1>4, <1>5, <1>6, <1>7

LEMMA SingletonStarts == SingletonInit => SingletonInv
<1> SUFFICES ASSUME SingletonInit PROVE SingletonInv
    OBVIOUS
<1>1. \A s \in Askers : work[s] = <<>> /\ Len(work[s]) = 0
    BY DEF SingletonInit, Askers
<1>2. work \in [Askers -> Seq(Calls)]
    BY DEF SingletonInit, Askers
<1>3. items \in [DOMAIN items -> Nat] /\ DOMAIN items = {}
    BY DEF SingletonInit
<1>4. SingletonTypeOK
    BY <1>2, <1>3 DEF SingletonInit, SingletonTypeOK
<1>5. CallsNested /\ FinishAlone /\ CallsInStep
    BY <1>1 DEF SingletonInit, CallsNested, FinishAlone, CallsInStep, Depth, Askers
<1>6. ObjectsInStep
  <2>1. \A x \in Types : x # NoType
      BY SingletonAssumption DEF NoType
  <2> QED
      BY <2>1, <1>3 DEF SingletonInit, ObjectsInStep, ObjectInStep
<1>7. UsersInStep /\ DeadUnused
    BY <1>3 DEF SingletonInit, UsersInStep, UsedBefore, DeadUnused
<1> QED
    BY <1>4, <1>5, <1>6, <1>7 DEF SingletonInv

LEMMA SingletonKeeps == SingletonInv /\ [SingletonNext]_singletonVars => SingletonInv'
<1> SUFFICES ASSUME SingletonInv, [SingletonNext]_singletonVars PROVE SingletonInv'
    OBVIOUS
<1>1. ASSUME NEW t \in Callers \cup {ExitThread}, SingletonStep(t) PROVE SingletonInv'
  <2>1. t \in Askers
      BY DEF Askers
  <2> QED
      BY <1>1, <2>1, LockKeepsInv, ThrowKeepsInv, ReturnKeepsInv, RegisterKeepsInv, PublishKeepsInv,
         UnlockKeepsInv, AskNewKeepsInv, AskPublishedKeepsInv DEF SingletonStep
<1>2. CASE UNCHANGED singletonVars
  <2> USE <1>2 DEF singletonVars, SingletonInv
  <2>1. SingletonTypeOK' /\ CallsNested' /\ FinishAlone'
      BY DEF SingletonTypeOK, CallsNested, FinishAlone, Depth
  <2>2. CallsInStep' /\ ObjectsInStep'
      BY DEF CallsInStep, CallInStep, ObjectsInStep, ObjectInStep, Calling, Depth
  <2>3. UsersInStep' /\ DeadUnused'
      BY DEF UsersInStep, UsedBefore, DeadUnused, Calling, Depth
  <2> QED
      BY <2>1, <2>2, <2>3
<1> QED
    BY <1>1, <1>2, BeginFinishKeepsInv, PopItemKeepsInv, DestructorKeepsInv DEF SingletonNext

\* However threads race for singletons and their constructors throw or ask
\* for each other, an object is created and destroyed at most once, ptr is set
\* only for an object that exists, the living objects are those waiting for
\* Finish(), and what a constructor got outlives the object made with it.
THEOREM SingletonsOutlive == SingletonSpec => []SingletonsOutliveUsers
<1>1. SingletonInv => SingletonsOutliveUsers
  <2> SUFFICES ASSUME SingletonInv PROVE SingletonsOutliveUsers
      OBVIOUS
  <2> USE DEF SingletonInv
  <2>1. \A x \in Types : life[x] # "twice" /\ (x \in published => life[x] # "none")
      BY DEF ObjectsInStep, ObjectInStep
  <2>2. published \subseteq Types /\ \A x \in DOMAIN items : life[x] = "alive"
      BY DEF ObjectsInStep, ObjectInStep, SingletonTypeOK
  <2>3. ASSUME NEW x \in Types, life[x] = "alive", x \notin DOMAIN items, finishing.object # x
        PROVE  \E t \in DOMAIN work : \E i \in DOMAIN work[t] :
                   work[t][i] = [type |-> x, at |-> "register"]
    <3>1. Calling(x, {"register"})
        BY <2>3 DEF ObjectsInStep, ObjectInStep
    <3>2. PICK t \in Askers : \E i \in 1 .. Len(work[t]) : work[t][i].type = x /\ work[t][i].at = "register"
        BY <3>1 DEF Calling, Depth
    <3>3. PICK i \in 1 .. Len(work[t]) : work[t][i].type = x /\ work[t][i].at = "register"
        BY <3>2
    <3>4. DOMAIN work = Askers /\ work[t] \in Seq(Calls)
        BY DEF SingletonTypeOK
    <3>5. i \in DOMAIN work[t] /\ work[t][i] \in Calls
        BY <3>4
    <3>6. work[t][i] = [type |-> x, at |-> "register"]
        BY <3>3, <3>5 DEF Calls
    <3> QED
        BY <3>4, <3>5, <3>6
  <2>4. \A use \in deadUse : use[2] \notin users[use[1]]
      BY DEF DeadUnused
  <2> QED
      BY <2>4, <2>1, <2>2, <2>3 DEF SingletonsOutliveUsers
<1> QED
    BY <1>1, SingletonStarts, SingletonKeeps, PTL DEF SingletonSpec

-----------------------------------------------------------------------------
(* Stacks of fibers.                                                       *)

Stacks == Nat \ {NoStack}
FiberIds == 1..MaxGo

FibersTypeOK ==
    /\ scheduled \in BOOLEAN /\ fibers \in Seq(FiberIds) /\ current \in 0..MaxGo
    /\ stackOf \in [1..MaxGo -> Nat] /\ pool \in Seq(Stacks) /\ mapped \in Nat
    /\ submitted \in 0..MaxGo /\ finished \in SUBSET (1..MaxGo)

\* What a scheduler has to do: the fibers in its queue and the one that runs.
Queued == {fibers[i] : i \in 1..Len(fibers)}
Pooled == {pool[i] : i \in 1..Len(pool)}
Pending == Queued \cup ({current} \ {NoFiber})

\* A fiber is in one place, and it alone has a stack while it is pending.
FibersInPlace ==
    /\ \A i, j \in 1..Len(fibers) : fibers[i] = fibers[j] => i = j
    /\ current \notin Queued
    /\ Alive = Pending
    /\ Pending \cup finished = 1..submitted
    /\ ~scheduled => submitted = 0

\* Stacks are with fibers or in the pool, each once, and are those mapped.
StacksInPlace ==
    /\ \A i, j \in 1..Len(pool) : pool[i] = pool[j] => i = j
    /\ \A i \in 1..Len(pool) : pool[i] <= mapped
    /\ \A f \in Alive : stackOf[f] <= mapped /\ stackOf[f] \notin Pooled
    /\ \A f, g \in Alive : stackOf[f] = stackOf[g] => f = g
    /\ mapped = Cardinality(Alive) + Cardinality(Pooled)

FibersInv == FibersTypeOK /\ FibersInPlace /\ StacksInPlace

LEMMA AliveFinite ==
    ASSUME FibersTypeOK, StacksInPlace
    PROVE  /\ IsFiniteSet(Alive) /\ Cardinality(Alive) \in Nat
           /\ IsFiniteSet(Pooled) /\ Cardinality(Pooled) \in Nat
<1>1. IsFiniteSet(1..MaxGo) /\ IsFiniteSet(1..mapped)
    BY FibersAssumption, FS_Interval DEF FibersTypeOK
<1>2. Alive \subseteq 1..MaxGo
    BY DEF Alive
<1>3. Pooled \subseteq 1..mapped
  <2>1. \A i \in 1..Len(pool) : pool[i] \in Stacks
      BY ElementOfSeq DEF FibersTypeOK
  <2>2. \A n \in Stacks : n <= mapped => n \in 1..mapped
      BY DEF Stacks, NoStack, FibersTypeOK
  <2> QED BY <2>1, <2>2 DEF Pooled, StacksInPlace
<1> QED
    BY <1>1, <1>2, <1>3, FS_Subset, FS_CardinalityType

\* A sequence without its last element.
LEMMA WithoutLast ==
    ASSUME NEW S, NEW q \in Seq(S), q # <<>>
    PROVE  /\ Len(q) \in Nat \ {0} /\ Front(q) \in Seq(S) /\ Len(Front(q)) = Len(q) - 1
           /\ \A i \in 1..Len(q) - 1 : Front(q)[i] = q[i]
<1>1. Len(q) \in Nat \ {0}
    BY EmptySeq
<1>2. PICK n \in Nat : n = Len(q) - 1
    BY <1>1
<1>3. \A i \in 1..n : q[i] \in S
    BY <1>1, <1>2, ElementOfSeq
<1>4. 1 \in Int /\ n \in Int
    BY <1>2
<1>5. /\ SubSeq(q, 1, n) \in Seq(S) /\ Len(SubSeq(q, 1, n)) = IF 1 <= n THEN n - 1 + 1 ELSE 0
      /\ \A i \in 1..n - 1 + 1 : SubSeq(q, 1, n)[i] = q[1 + i - 1]
    BY <1>3, <1>4, SubSeqProperties
<1> QED
    BY <1>1, <1>2, <1>5 DEF Front

\* submit() gives the next fiber a stack that no other has.
LEMMA SubmitKeepsInv ==
    ASSUME FibersInv, Submit, UNCHANGED <<current, finished>>, scheduled' = TRUE
    PROVE  FibersInv'
<1> USE DEF FibersInv
<1>1. PICK f \in 1..MaxGo : f = submitted + 1
    BY FibersAssumption DEF Submit, FibersTypeOK
<1>2. PICK s \in 1..MaxGo : Allocate(s) /\ stackOf' = [stackOf EXCEPT ![f] = s]
    BY <1>1 DEF Submit, MakeFiber
<1>3. fibers' = Append(fibers, f) /\ submitted' = f
    BY <1>1 DEF Submit
<1>4. /\ pool' \in Seq(Stacks) /\ mapped' \in Nat /\ s # NoStack
      /\ \A i, j \in 1..Len(pool') : pool'[i] = pool'[j] => i = j
      /\ \A i \in 1..Len(pool') : pool'[i] <= mapped'
      /\ mapped <= mapped' /\ s <= mapped' /\ s \notin Pooled'
      /\ \A g \in Alive : stackOf[g] # s /\ stackOf[g] \notin Pooled'
      /\ Cardinality(Pooled') \in Nat /\ mapped' = Cardinality(Alive) + Cardinality(Pooled') + 1
  <2>1. CASE pool = <<>>
    <3>1. s = mapped + 1 /\ mapped' = mapped + 1 /\ pool' = pool
        BY <1>2, <2>1 DEF Allocate, MapStack
    <3>2. Pooled' = Pooled /\ Pooled = {}
        BY <2>1, <3>1 DEF Pooled
    <3> QED BY <2>1, <3>1, <3>2, AliveFinite, FS_EmptySet DEF FibersTypeOK, StacksInPlace, NoStack
  <2>2. CASE pool # <<>>
    <3>1. s = pool[Len(pool)] /\ pool' = Front(pool) /\ mapped' = mapped
        BY <1>2, <2>2 DEF Allocate, Last
    <3>0. /\ Len(pool) \in Nat \ {0} /\ Front(pool) \in Seq(Stacks) /\ Len(Front(pool)) = Len(pool) - 1
          /\ \A i \in 1..Len(pool) - 1 : Front(pool)[i] = pool[i]
        BY <2>2, WithoutLast DEF FibersTypeOK
    <3>2. PICK k \in Nat : k + 1 = Len(pool)
      <4>1. Len(pool) - 1 \in Nat /\ (Len(pool) - 1) + 1 = Len(pool)
          BY <3>0
      <4> QED BY <4>1
    <3>3. Len(pool') = k /\ (\A i \in 1..k : pool'[i] = pool[i]) /\ pool' \in Seq(Stacks)
        BY <3>0, <3>1, <3>2
    <3>4. /\ s \in Pooled /\ s <= mapped
          /\ Pooled = {pool[i] : i \in 1..k + 1} /\ Pooled' = {pool[i] : i \in 1..k}
        BY <3>1, <3>2, <3>3 DEF Pooled, StacksInPlace
    <3>5. \A i \in 1..k : i \in 1..Len(pool) /\ i # Len(pool) /\ Len(pool) \in 1..Len(pool)
        BY <3>2
    <3>6. \A i \in 1..k : pool[i] # s
        BY <3>1, <3>5 DEF StacksInPlace
    <3>7. Pooled' = Pooled \ {s}
        BY <3>1, <3>2, <3>4, <3>6
    <3>8. Cardinality(Pooled') = Cardinality(Pooled) - 1 /\ Cardinality(Pooled') \in Nat
      <4>1. IsFiniteSet(Pooled) /\ Cardinality(Pooled) \in Nat
          BY AliveFinite
      <4>2. IsFiniteSet(Pooled \ {s}) /\ Cardinality(Pooled \ {s}) = Cardinality(Pooled) - 1
          BY <3>4, <4>1, FS_RemoveElement
      <4> QED BY <3>7, <4>2, FS_CardinalityType
    <3>9. /\ \A i, j \in 1..k : pool'[i] = pool'[j] => i = j
          /\ \A i \in 1..k : pool'[i] <= mapped
      <4>1. \A i, j \in 1..k : pool[i] = pool[j] => i = j
          BY <3>5 DEF StacksInPlace
      <4>2. \A i \in 1..k : pool[i] <= mapped
          BY <3>5 DEF StacksInPlace
      <4> QED BY <3>3, <4>1, <4>2
    <3>10. mapped = Cardinality(Alive) + Cardinality(Pooled') + 1
        BY <3>8, AliveFinite DEF StacksInPlace
    <3>11. s # NoStack /\ \A g \in Alive : stackOf[g] # s /\ stackOf[g] \notin Pooled'
        BY <3>4, <3>7 DEF NoStack, StacksInPlace
    <3>12. /\ \A i, j \in 1..Len(pool') : pool'[i] = pool'[j] => i = j
           /\ \A i \in 1..Len(pool') : pool'[i] <= mapped'
        BY <3>1, <3>3, <3>9
    <3>13. mapped' \in Nat /\ mapped <= mapped' /\ s <= mapped' /\ s \notin Pooled'
      <4>1. mapped \in Nat /\ mapped <= mapped
          BY DEF FibersTypeOK
      <4> QED BY <4>1, <3>1, <3>4, <3>7
    <3> QED BY <3>1, <3>3, <3>8, <3>10, <3>11, <3>12, <3>13
  <2> QED BY <2>1, <2>2
<1>5. f \notin Pending /\ f \notin Alive /\ f # NoFiber
    BY <1>1 DEF FibersInPlace, FibersTypeOK, NoFiber
<1>6. Queued' = Queued \cup {f} /\ \A i, j \in 1..Len(fibers') : fibers'[i] = fibers'[j] => i = j
  <2>1. /\ Len(fibers') = Len(fibers) + 1 /\ fibers'[Len(fibers) + 1] = f
        /\ \A i \in 1..Len(fibers) : fibers'[i] = fibers[i]
      BY <1>3 DEF FibersTypeOK
  <2>2. Len(fibers) \in Nat /\ \A i \in 1..Len(fibers) : fibers[i] # f
      BY <1>5 DEF Pending, Queued, FibersTypeOK
  <2> QED BY <2>1, <2>2 DEF Queued, FibersInPlace
<1>7. stackOf'[f] = s /\ \A g \in 1..MaxGo : g # f => stackOf'[g] = stackOf[g]
    BY <1>2 DEF FibersTypeOK
<1>8. Alive' = Alive \cup {f} /\ Pending' = Pending \cup {f} /\ current \notin Queued'
    BY <1>4, <1>5, <1>6, <1>7 DEF Alive, Pending, FibersInPlace
<1>9. FibersTypeOK'
  <2>1. f \in FiberIds /\ fibers' \in Seq(FiberIds)
      BY <1>3 DEF FibersTypeOK, FiberIds
  <2>2. stackOf' \in [1..MaxGo -> Nat]
      BY <1>2 DEF FibersTypeOK
  <2>3. submitted' \in 0..MaxGo /\ current' \in 0..MaxGo /\ finished' \in SUBSET (1..MaxGo)
      BY <1>1, <1>3, FibersAssumption DEF FibersTypeOK
  <2>4. scheduled' \in BOOLEAN
      OBVIOUS
  <2> QED BY <2>4, <2>1, <2>2, <2>3, <1>4 DEF FibersTypeOK
<1>10. FibersInPlace'
  <2>1. Pending' \cup finished = 1..submitted'
      BY <1>1, <1>3, <1>8 DEF FibersInPlace, FibersTypeOK
  <2> QED BY <2>1, <1>6, <1>8 DEF FibersInPlace
<1>11. Cardinality(Alive') = Cardinality(Alive) + 1
    BY <1>5, <1>8, AliveFinite, FS_AddElement
<1>12. StacksInPlace'
  <2>1. \A g \in Alive : g \in 1..MaxGo /\ g # f /\ stackOf'[g] = stackOf[g]
      BY <1>5, <1>7 DEF Alive
  <2>2. \A g \in Alive' : stackOf'[g] <= mapped' /\ stackOf'[g] \notin Pooled'
      BY <2>1, <1>4, <1>7, <1>8 DEF StacksInPlace, FibersTypeOK
  <2>3. \A g, h \in Alive' : stackOf'[g] = stackOf'[h] => g = h
      BY <2>1, <1>4, <1>7, <1>8 DEF StacksInPlace
  <2>4. mapped' = Cardinality(Alive') + Cardinality(Pooled')
      BY <1>4, <1>11, AliveFinite
  <2> QED BY <2>2, <2>3, <2>4, <1>4 DEF StacksInPlace
<1> QED
    BY <1>9, <1>10, <1>12

LEMMA FibersStep ==
    ASSUME FibersInv, [FibersNext]_fiberVars
    PROVE  FibersInv'
<1> USE DEF FibersInv
<1>1. CASE GoEntry
    BY <1>1, SubmitKeepsInv DEF GoEntry
<1>2. CASE GoChild
  <2>1. scheduled = TRUE
      BY <1>2 DEF GoChild, FibersInPlace, FibersTypeOK, Pending, NoFiber
  <2> QED BY <1>2, <2>1, SubmitKeepsInv DEF GoChild
<1>3. CASE SwitchTo
  <2>1. /\ current = NoFiber /\ fibers # <<>> /\ current' = Head(fibers) /\ fibers' = Tail(fibers)
        /\ UNCHANGED <<scheduled, stackOf, pool, mapped, submitted, finished>>
      BY <1>3 DEF SwitchTo
  <2>2. /\ Len(fibers) \in Nat \ {0} /\ current' = fibers[1] /\ fibers' \in Seq(FiberIds)
        /\ Len(fibers') = Len(fibers) - 1 /\ \A i \in 1..Len(fibers') : fibers'[i] = fibers[i + 1]
        /\ current' \in FiberIds
    <3>1. fibers \in Seq(FiberIds) /\ Len(fibers) \in Nat \ {0}
        BY <2>1, EmptySeq DEF FibersTypeOK
    <3>2. Head(fibers) \in FiberIds /\ Tail(fibers) \in Seq(FiberIds)
        BY <2>1, <3>1, HeadTailProperties
    <3>3. /\ Head(fibers) = fibers[1] /\ Len(Tail(fibers)) = Len(fibers) - 1
          /\ \A i \in 1..Len(Tail(fibers)) : Tail(fibers)[i] = fibers[i + 1]
        BY <2>1, <3>1
    <3> QED BY <2>1, <3>1, <3>2, <3>3
  <2>3. FibersTypeOK'
      BY <2>1, <2>2, FibersAssumption DEF FibersTypeOK, FiberIds
  <2>4. current' # NoFiber /\ Queued = Queued' \cup {current'}
    <3>1. PICK k \in Nat : k + 1 = Len(fibers) /\ k = Len(fibers')
        BY <2>2
    <3>2. Queued' = {fibers[i + 1] : i \in 1..k}
        BY <2>2, <3>1 DEF Queued
    <3>3. Queued = {fibers[i] : i \in 1..k + 1}
        BY <3>1 DEF Queued
    <3>4. \A i \in 1..k + 1 : i = 1 \/ (i - 1 \in 1..k /\ i = (i - 1) + 1)
        OBVIOUS
    <3>5. 1 \in 1..k + 1 /\ \A i \in 1..k : i + 1 \in 1..k + 1
        OBVIOUS
    <3>6. current' # NoFiber
        BY <2>2 DEF NoFiber, FiberIds
    <3>7. ASSUME NEW x \in Queued PROVE x \in Queued' \cup {current'}
      <4>1. PICK i \in 1..k + 1 : x = fibers[i]
          BY <3>3
      <4>2. CASE i = 1
          BY <4>1, <4>2, <2>2
      <4>3. CASE i # 1
        <5>1. PICK j \in 1..k : j + 1 = i
            BY <4>3, <3>4
        <5> QED BY <4>1, <5>1, <3>2
      <4> QED BY <4>2, <4>3
    <3>8. Queued' \cup {current'} \subseteq Queued
        BY <2>2, <3>2, <3>3, <3>5
    <3> QED BY <3>6, <3>7, <3>8
  <2>5. /\ current' \notin Queued'
        /\ \A i, j \in 1..Len(fibers') : fibers'[i] = fibers'[j] => i = j
    <3>1. \A i \in 1..Len(fibers') : i + 1 \in 1..Len(fibers) /\ i + 1 # 1 /\ 1 \in 1..Len(fibers)
        BY <2>2
    <3>2. \A i \in 1..Len(fibers') : fibers'[i] # fibers[1]
        BY <2>2, <3>1 DEF FibersInPlace
    <3>3. \A i, j \in 1..Len(fibers') : fibers'[i] = fibers'[j] => i + 1 = j + 1
        BY <2>2, <3>1 DEF FibersInPlace
    <3> QED BY <2>2, <3>2, <3>3 DEF Queued
  <2>6. Alive' = Alive /\ Pooled' = Pooled
      BY <2>1 DEF Alive, Pooled
  <2>7. Pending' = Pending
      BY <2>1, <2>4 DEF Pending
  <2>8. FibersInPlace'
      BY <2>1, <2>5, <2>6, <2>7 DEF FibersInPlace
  <2>9. StacksInPlace'
      BY <2>1, <2>6 DEF StacksInPlace
  <2> QED BY <2>3, <2>8, <2>9
<1>4. CASE Finish
  <2>1. PICK f \in 1..MaxGo : f = current
      BY <1>4 DEF Finish, FibersTypeOK, NoFiber
  <2>2. /\ f # NoFiber /\ finished' = finished \cup {f} /\ current' = NoFiber
        /\ pool' = Append(pool, stackOf[f]) /\ stackOf' = [stackOf EXCEPT ![f] = NoStack]
        /\ UNCHANGED <<scheduled, fibers, mapped, submitted>>
      BY <1>4, <2>1 DEF Finish, DispatchOf
  <2>3. f \in Alive /\ f \notin Queued
      BY <2>1, <2>2 DEF FibersInPlace, Pending
  <2>4. PICK s \in Stacks : s = stackOf[f]
      BY <2>3 DEF Alive, Stacks, FibersTypeOK
  <2>5. /\ pool' \in Seq(Stacks) /\ Len(pool) \in Nat /\ Len(pool') = Len(pool) + 1
        /\ pool'[Len(pool) + 1] = s /\ \A i \in 1..Len(pool) : pool'[i] = pool[i]
      BY <2>2, <2>4 DEF FibersTypeOK
  <2>6. s \notin Pooled /\ s <= mapped
      BY <2>3, <2>4 DEF StacksInPlace
  <2>7. Pooled' = Pooled \cup {s}
      BY <2>5 DEF Pooled
  <2>8. /\ \A i, j \in 1..Len(pool') : pool'[i] = pool'[j] => i = j
        /\ \A i \in 1..Len(pool') : pool'[i] <= mapped
    <3>1. \A i \in 1..Len(pool) : pool[i] # s
        BY <2>6 DEF Pooled
    <3> QED BY <3>1, <2>5, <2>6 DEF StacksInPlace
  <2>9. stackOf'[f] = NoStack /\ \A g \in 1..MaxGo : g # f => stackOf'[g] = stackOf[g]
      BY <2>2 DEF FibersTypeOK
  <2>10. Alive' = Alive \ {f}
      BY <2>9 DEF Alive
  <2>11. NoFiber \notin Queued /\ Queued' = Queued
    <3>1. \A i \in 1..Len(fibers) : fibers[i] \in FiberIds
        BY ElementOfSeq DEF FibersTypeOK
    <3>2. NoFiber \notin FiberIds
        BY DEF NoFiber, FiberIds
    <3> QED BY <3>1, <3>2, <2>2 DEF Queued
  <2>12. Pending' = Pending \ {f}
      BY <2>1, <2>2, <2>3, <2>11 DEF Pending
  <2>13. FibersTypeOK'
      BY <2>2, <2>5, FibersAssumption DEF FibersTypeOK, NoFiber, NoStack
  <2>14. FibersInPlace'
    <3>1. Pending' \cup finished' = 1..submitted /\ current' \notin Queued'
        BY <2>1, <2>2, <2>3, <2>11, <2>12 DEF FibersInPlace, Pending
    <3> QED BY <3>1, <2>2, <2>10, <2>12 DEF FibersInPlace
  <2>15. Cardinality(Alive') = Cardinality(Alive) - 1 /\ Cardinality(Pooled') = Cardinality(Pooled) + 1
      BY <2>3, <2>6, <2>7, <2>10, AliveFinite, FS_RemoveElement, FS_AddElement
  <2>16. StacksInPlace'
    <3>1. \A g \in Alive' : g \in Alive /\ g # f /\ stackOf'[g] = stackOf[g] /\ stackOf[g] # s
        BY <2>3, <2>4, <2>9, <2>10 DEF Alive, StacksInPlace
    <3>2. \A g \in Alive' : stackOf'[g] <= mapped /\ stackOf'[g] \notin Pooled'
        BY <3>1, <2>7 DEF StacksInPlace
    <3>3. \A g, h \in Alive' : stackOf'[g] = stackOf'[h] => g = h
        BY <3>1 DEF StacksInPlace
    <3>4. mapped = Cardinality(Alive') + Cardinality(Pooled')
        BY <2>15, AliveFinite DEF StacksInPlace
    <3> QED BY <3>2, <3>3, <3>4, <2>2, <2>8 DEF StacksInPlace
  <2> QED BY <2>13, <2>14, <2>16
<1>5. CASE GoReturns
  <2>1. /\ current = NoFiber /\ fibers = <<>> /\ scheduled' = FALSE /\ pool' = <<>> /\ mapped' = 0
        /\ submitted' = 0 /\ finished' = {} /\ UNCHANGED <<fibers, current, stackOf>>
      BY <1>5 DEF GoReturns
  <2>2. Queued = {} /\ Queued' = {} /\ Pooled' = {} /\ Pending = {} /\ Pending' = {}
      BY <2>1 DEF Queued, Pooled, Pending
  <2>3. Alive = {} /\ Alive' = {}
      BY <2>1, <2>2 DEF FibersInPlace, Alive
  <2>4. FibersTypeOK'
    <3>1. <<>> \in Seq(Stacks)
        BY EmptySeq
    <3>2. scheduled' \in BOOLEAN
        BY <2>1
    <3>3. /\ fibers' \in Seq(FiberIds) /\ current' \in 0..MaxGo /\ stackOf' \in [1..MaxGo -> Nat]
          /\ mapped' \in Nat /\ submitted' \in 0..MaxGo /\ finished' \in SUBSET (1..MaxGo)
        BY <2>1, FibersAssumption DEF FibersTypeOK
    <3> QED BY <2>1, <3>1, <3>2, <3>3 DEF FibersTypeOK
  <2>5. FibersInPlace'
      BY <2>1, <2>2, <2>3 DEF FibersInPlace
  <2>6. StacksInPlace'
      BY <2>1, <2>2, <2>3, FS_EmptySet DEF StacksInPlace
  <2> QED BY <2>4, <2>5, <2>6
<1>6. CASE UNCHANGED fiberVars
  <2>1. UNCHANGED <<scheduled, fibers, current, stackOf, pool, mapped, submitted, finished>>
      BY <1>6 DEF fiberVars
  <2>2. Alive' = Alive /\ Pooled' = Pooled /\ Queued' = Queued /\ Pending' = Pending
      BY <2>1 DEF Alive, Pooled, Queued, Pending
  <2>3. FibersTypeOK' /\ FibersInPlace'
      BY <2>1, <2>2 DEF FibersTypeOK, FibersInPlace
  <2>4. StacksInPlace'
      BY <2>1, <2>2 DEF StacksInPlace
  <2> QED BY <2>3, <2>4
<1> QED
    BY <1>1, <1>2, <1>3, <1>4, <1>5, <1>6 DEF FibersNext

LEMMA FibersStart == FibersInit => FibersInv
<1> SUFFICES ASSUME FibersInit PROVE FibersInv
    OBVIOUS
<1> USE DEF FibersInit
<1>1. FibersTypeOK
  <2>1. <<>> \in Seq(Stacks) /\ <<>> \in Seq(FiberIds)
      BY EmptySeq
  <2>2. scheduled \in BOOLEAN
      OBVIOUS
  <2>3. /\ current \in 0..MaxGo /\ stackOf \in [1..MaxGo -> Nat]
        /\ mapped \in Nat /\ submitted \in 0..MaxGo /\ finished \in SUBSET (1..MaxGo)
      BY FibersAssumption DEF NoFiber, NoStack
  <2> QED BY <2>1, <2>2, <2>3 DEF FibersTypeOK
<1>2. Queued = {} /\ Pooled = {} /\ Pending = {} /\ Alive = {}
    BY DEF Queued, Pooled, Pending, Alive
<1> QED
    BY <1>1, <1>2, FS_EmptySet DEF FibersInv, FibersInPlace, StacksInPlace

\* For any number of fibers, and however calls of go() nest: two fibers never
\* have the same stack, a stack in the pool is nobody's, and every stack that
\* has been mapped is with a fiber or in the pool (fiber_stack_allocator,
\* scheduler::submit and dispatch_of).
THEOREM FibersKeepStacks == FibersSpec => []StacksConserved
<1>1. FibersInv /\ [FibersNext]_fiberVars => FibersInv'
    BY FibersStep
<1>2. FibersInv => StacksConserved
  <2>1. FibersTypeOK => ToSet(pool) = Pooled
      BY LenProperties DEF ToSet, Pooled, FibersTypeOK
  <2> QED BY <2>1 DEF FibersInv, StacksInPlace, StacksConserved
<1> QED
    BY <1>1, <1>2, FibersStart, PTL DEF FibersSpec

\* The go() that makes the scheduler returns after every routine that any
\* go() in any fiber has submitted in the meantime (scheduler::submit).
THEOREM GoWaitsForAll == FibersSpec => GoRunsEverything
<1>1. FibersInv /\ [FibersNext]_fiberVars => FibersInv'
    BY FibersStep
<1>2. FibersInv /\ [FibersNext]_fiberVars =>
          [scheduled /\ ~scheduled' => finished = 1..submitted]_fiberVars
  <2> SUFFICES ASSUME FibersInv, FibersNext, scheduled, ~scheduled' PROVE finished = 1..submitted
      OBVIOUS
  <2>1. GoReturns
      BY DEF FibersNext, GoEntry, GoChild, SwitchTo, Finish
  <2>2. Pending = {}
      BY <2>1 DEF GoReturns, Pending, Queued
  <2> QED BY <2>2 DEF FibersInv, FibersInPlace
<1> QED
    BY <1>1, <1>2, FibersStart, PTL DEF FibersSpec, GoRunsEverything

=============================================================================
