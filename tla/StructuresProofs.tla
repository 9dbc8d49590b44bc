--------------------------- MODULE StructuresProofs ---------------------------
(***************************************************************************)
(* The lock-free stack, unique_function, dynamic_array and expected, for   *)
(* any number of threads, nodes, functions, callables, elements, cells and *)
(* contents.                                                               *)
(***************************************************************************)
EXTENDS LockFreeStack, Functional, DynamicArray, FiniteSetTheorems, SequenceTheorems, TLAPS

(***************************************************************************)
(* The lock-free stack, for any number of threads and nodes, while no      *)
(* address is allocated twice: no node is used after it is deleted, none   *)
(* is forgotten, and the stack is a stack.                                 *)
(*                                                                         *)
(* A node is unused, in the stack, in the hands of one thread, in the free *)
(* list, or deleted, and goes through these in this order.  Deletion is    *)
(* safe because whoever deletes was once alone in pop(), when the nodes    *)
(* that it deletes had left the stack: nobody who came later can have      *)
(* loaded one of them.                                                     *)
(***************************************************************************)
Pointers == Nodes \cup {Null}
Popping == {"load", "read", "swing", "peek", "count", "erase", "leave"}
Owning == {"link", "peek", "count", "erase", "leave", "delete", "defer", "chain"}
Places == Popping \cup Owning \cup {"idle"}

Stack == ListNodes(next, head)
Free == ListNodes(next, freeHead)
From(n) == ListNodes(next, n)
After(n) == ListNodes(next, next[n])

StackTypeOK ==
    /\ head \in Pointers /\ freeHead \in Pointers /\ popped \in Nat
    /\ next \in [Nodes -> Pointers] /\ memory \in [Nodes -> {"unused", "live", "deleted"}]
    /\ pc \in [Threads -> Places]
    /\ node \in [Threads -> Pointers] /\ seen \in [Threads -> Pointers]

\* popped_count counts the calls of pop() between its increment and decrement.
PopsCounted == popped = Cardinality({t \in Threads : pc[t] \in Popping})

\* The two lists are apart, alive, and the stack ends.
ListsApart ==
    /\ \A n \in Stack : memory[n] = "live" /\ n \notin Free /\ n \notin After(n)
    /\ \A n \in Free : memory[n] = "live"

\* What thread t has in its hands or has seen.
ThreadInStep(t) ==
    /\ pc[t] \in {"idle", "load"} => node[t] = Null
    /\ pc[t] \in {"link", "delete", "defer", "chain", "read", "swing"} => node[t] # Null
    /\ pc[t] \in Owning /\ node[t] # Null =>
          memory[node[t]] = "live" /\ node[t] \notin Stack /\ node[t] \notin Free
    /\ pc[t] = "read" => memory[node[t]] = "live"
    /\ pc[t] = "swing" => memory[node[t]] # "unused"
    /\ pc[t] = "swing" /\ node[t] \in Stack => seen[t] = next[node[t]]
    /\ pc[t] \in {"count", "erase"} =>
          seen[t] # Null /\ (seen[t] \in Free \/ memory[seen[t]] = "deleted")

\* What the threads t and u know of each other.
PairInStep(t, u) ==
    /\ t # u /\ pc[t] \in Owning /\ pc[u] \in Owning /\ node[t] # Null => node[t] # node[u]
    /\ pc[t] = "link" /\ pc[u] \in {"read", "swing"} => node[t] # node[u]
    /\ pc[t] = "delete" /\ pc[u] = "read" => node[t] # node[u]
    /\ pc[t] = "erase" /\ pc[u] = "read" /\ seen[t] \in Free => node[u] \notin From(seen[t])

\* A live node is in the stack, in the free list, or in somebody's hands.
NothingForgotten ==
    \A n \in Nodes : memory[n] = "live" =>
        n \in Stack \/ n \in Free \/ \E u \in Threads : pc[u] \in Owning /\ node[u] = n

StackInv ==
    /\ StackTypeOK /\ PopsCounted /\ ListsApart /\ NothingForgotten
    /\ \A t \in Threads : ThreadInStep(t)
    /\ \A t, u \in Threads : PairInStep(t, u)

-----------------------------------------------------------------------------
(* Lists.                                                                  *)

\* Nodes in s: first, if there is one, and successors.
Closed(link, first, s) ==
    /\ s \in SUBSET Nodes /\ (first # Null => first \in s)
    /\ \A m \in s : link[m] # Null => link[m] \in s

\* The nodes of a list are the least closed set.
LEMMA ListLeast ==
    ASSUME NEW link \in [Nodes -> Pointers], NEW first \in Pointers
    PROVE  /\ Closed(link, first, ListNodes(link, first))
           /\ \A s : Closed(link, first, s) => ListNodes(link, first) \subseteq s
<1>1. ASSUME NEW s, Closed(link, first, s) PROVE ListNodes(link, first) \subseteq s
    BY <1>1 DEF Closed, ListNodes
<1>2. ListNodes(link, first) \in SUBSET Nodes
    BY DEF ListNodes
<1>3. first # Null => first \in ListNodes(link, first)
    BY DEF ListNodes, Pointers
<1>4. ASSUME NEW m \in ListNodes(link, first), link[m] # Null PROVE link[m] \in ListNodes(link, first)
  <2>1. m \in Nodes /\ link[m] \in Nodes
      BY <1>2, <1>4 DEF Pointers
  <2> QED
      BY <2>1, <1>4 DEF ListNodes
<1> QED
    BY <1>1, <1>2, <1>3, <1>4 DEF Closed

LEMMA ListOfNull ==
    ASSUME NEW link \in [Nodes -> Pointers]
    PROVE  ListNodes(link, Null) = {}
<1>1. Closed(link, Null, {})
    BY DEF Closed
<1>2. Null \in Pointers
    BY DEF Pointers
<1> QED
    BY <1>1, <1>2, ListLeast

LEMMA ListOfNode ==
    ASSUME NEW link \in [Nodes -> Pointers], NEW f \in Nodes
    PROVE  ListNodes(link, f) = {f} \cup ListNodes(link, link[f])
<1>1. f \in Pointers /\ link[f] \in Pointers /\ f # Null
    BY StackAssumption DEF Pointers, Nodes, Null
<1>2. /\ Closed(link, f, ListNodes(link, f)) /\ Closed(link, link[f], ListNodes(link, link[f]))
    BY <1>1, ListLeast
<1>3. Closed(link, f, {f} \cup ListNodes(link, link[f]))
    BY <1>2 DEF Closed
<1>4. Closed(link, link[f], ListNodes(link, f)) /\ f \in ListNodes(link, f)
    BY <1>1, <1>2 DEF Closed
<1>5. ListNodes(link, f) \subseteq {f} \cup ListNodes(link, link[f])
    BY <1>1, <1>3, ListLeast
<1>6. ListNodes(link, link[f]) \subseteq ListNodes(link, f)
    BY <1>1, <1>4, ListLeast
<1> QED
    BY <1>4, <1>5, <1>6

LEMMA ListOfMember ==
    ASSUME NEW link \in [Nodes -> Pointers], NEW f \in Pointers, NEW m \in ListNodes(link, f)
    PROVE  /\ m \in Nodes /\ m \in ListNodes(link, m)
           /\ ListNodes(link, m) \subseteq ListNodes(link, f)
           /\ ListNodes(link, link[m]) \subseteq ListNodes(link, f)
<1>1. Closed(link, f, ListNodes(link, f))
    BY ListLeast
<1>2. m \in Nodes /\ m \in Pointers /\ link[m] \in Pointers
    BY <1>1 DEF Closed, Pointers
<1>3. Closed(link, m, ListNodes(link, f)) /\ Closed(link, link[m], ListNodes(link, f))
    BY <1>1 DEF Closed
<1>4. m \in ListNodes(link, m)
    BY <1>2, ListOfNode
<1> QED
    BY <1>2, <1>3, <1>4, ListLeast

\* Links of other nodes do not matter.
LEMMA ListSame ==
    ASSUME NEW link \in [Nodes -> Pointers], NEW link2 \in [Nodes -> Pointers], NEW f \in Pointers,
           \A m \in ListNodes(link, f) : link2[m] = link[m]
    PROVE  ListNodes(link2, f) = ListNodes(link, f)
<1>1. Closed(link, f, ListNodes(link, f)) /\ Closed(link2, f, ListNodes(link2, f))
    BY ListLeast
<1>2. Closed(link2, f, ListNodes(link, f))
    BY <1>1 DEF Closed
<1>3. ListNodes(link2, f) \subseteq ListNodes(link, f)
    BY <1>2, ListLeast
<1>4. Closed(link, f, ListNodes(link2, f))
    BY <1>1, <1>3 DEF Closed
<1> QED
    BY <1>3, <1>4, ListLeast

\* The lists, when a node outside of both gets another link.
LEMMA Relinked ==
    ASSUME StackTypeOK, StackTypeOK', NEW n \in Nodes, n \notin Stack, n \notin Free,
           \A m \in Nodes : m # n => next'[m] = next[m], head' = head, freeHead' = freeHead
    PROVE  /\ Stack' = Stack /\ Free' = Free
           /\ \A m \in Stack : After(m)' = After(m)
           /\ \A m \in Free : From(m)' = From(m)
<1>1. next \in [Nodes -> Pointers] /\ next' \in [Nodes -> Pointers] /\ head \in Pointers /\ freeHead \in Pointers
    BY DEF StackTypeOK
<1>2. \A m \in Nodes : m # n => next'[m] = next[m]
    OBVIOUS
<1>3. Stack \subseteq Nodes /\ Free \subseteq Nodes
    BY DEF Stack, Free, ListNodes
<1>4. Stack' = Stack
  <2>1. \A m \in ListNodes(next, head) : next'[m] = next[m]
      BY <1>2, <1>3 DEF Stack
  <2>2. ListNodes(next', head) = ListNodes(next, head)
      BY <2>1, <1>1, ListSame
  <2> QED BY <2>2 DEF Stack
<1>5. Free' = Free
  <2>1. \A m \in ListNodes(next, freeHead) : next'[m] = next[m]
      BY <1>2, <1>3 DEF Free
  <2>2. ListNodes(next', freeHead) = ListNodes(next, freeHead)
      BY <2>1, <1>1, ListSame
  <2> QED BY <2>2 DEF Free
<1>6. ASSUME NEW m \in Stack PROVE After(m)' = After(m)
  <2>1. ListNodes(next, next[m]) \subseteq Stack /\ m \in Nodes
      BY <1>1, <1>6, ListOfMember DEF Stack
  <2>2. next[m] \in Pointers /\ next'[m] = next[m]
      BY <2>1, <1>1, <1>2
  <2>3. \A k \in ListNodes(next, next[m]) : next'[k] = next[k]
      BY <2>1, <1>2, <1>3
  <2>4. ListNodes(next', next[m]) = ListNodes(next, next[m])
      BY <2>2, <2>3, <1>1, ListSame
  <2> QED BY <2>2, <2>4 DEF After
<1>7. ASSUME NEW m \in Free PROVE From(m)' = From(m)
  <2>1. ListNodes(next, m) \subseteq Free /\ m \in Pointers
      BY <1>1, <1>7, ListOfMember DEF Free, Pointers
  <2>2. \A k \in ListNodes(next, m) : next'[k] = next[k]
      BY <2>1, <1>2, <1>3
  <2>3. ListNodes(next', m) = ListNodes(next, m)
      BY <2>1, <2>2, <1>1, ListSame
  <2> QED BY <2>3 DEF From
<1> QED
    BY <1>4, <1>5, <1>6, <1>7

-----------------------------------------------------------------------------
(* Counting the calls of pop().                                            *)

InPop == {t \in Threads : pc[t] \in Popping}

LEMMA Alone ==
    ASSUME StackTypeOK, PopsCounted, NEW t \in Threads, pc[t] \in Popping, popped = 1
    PROVE  \A u \in Threads : u # t => pc[u] \notin Popping
<1>1. IsFiniteSet(InPop)
    BY ThreadsAssumption, FS_Subset DEF InPop
<1>2. Cardinality(InPop) = 1
    BY DEF PopsCounted, InPop
<1>3. PICK x : InPop = {x}
    BY <1>1, <1>2, FS_Singleton
<1> QED
    BY <1>3 DEF InPop

LEMMA Counted ==
    ASSUME StackTypeOK, PopsCounted, NEW t \in Threads, NEW a \in Places, pc' = [pc EXCEPT ![t] = a]
    PROVE  /\ (a \in Popping <=> pc[t] \in Popping) /\ popped' = popped => PopsCounted'
           /\ a \in Popping /\ pc[t] \notin Popping /\ popped' = popped + 1 =>
                 PopsCounted' /\ popped' \in Nat
           /\ a \notin Popping /\ pc[t] \in Popping /\ popped' = popped - 1 =>
                 PopsCounted' /\ popped' \in Nat
<1>1. IsFiniteSet(InPop) /\ Cardinality(InPop) \in Nat /\ popped = Cardinality(InPop)
    BY ThreadsAssumption, FS_Subset, FS_CardinalityType DEF InPop, PopsCounted
<1>2. pc'[t] = a /\ \A u \in Threads : u # t => pc'[u] = pc[u]
    BY DEF StackTypeOK
<1>3. t \in InPop <=> pc[t] \in Popping
    BY DEF InPop
<1>4. PopsCounted' <=> popped' = Cardinality(InPop')
    BY DEF PopsCounted, InPop
<1>5. CASE a \in Popping <=> pc[t] \in Popping
  <2>1. InPop' = InPop
      BY <1>2, <1>5 DEF InPop
  <2> QED BY <2>1, <1>1, <1>4, <1>5
<1>6. CASE a \in Popping /\ pc[t] \notin Popping
  <2>1. InPop' = InPop \cup {t}
      BY <1>2, <1>6 DEF InPop
  <2>2. Cardinality(InPop') = Cardinality(InPop) + 1
      BY <2>1, <1>1, <1>3, <1>6, FS_AddElement
  <2> QED BY <2>2, <1>1, <1>4, <1>6
<1>7. CASE a \notin Popping /\ pc[t] \in Popping
  <2>1. InPop' = InPop \ {t}
      BY <1>2, <1>7 DEF InPop
  <2>2. Cardinality(InPop') = Cardinality(InPop) - 1 /\ IsFiniteSet(InPop \ {t})
      BY <2>1, <1>1, <1>3, <1>7, FS_RemoveElement
  <2>3. Cardinality(InPop') \in Nat
      BY <2>1, <2>2, FS_CardinalityType
  <2> QED BY <2>2, <2>3, <1>1, <1>4, <1>7
<1> QED
    BY <1>5, <1>6, <1>7

-----------------------------------------------------------------------------
(* Steps that change nothing but what one thread knows.                    *)

OthersSame(t) ==
    \A u \in Threads : u # t => pc'[u] = pc[u] /\ node'[u] = node[u] /\ seen'[u] = seen[u]

LEMMA HeadsListed ==
    ASSUME StackTypeOK
    PROVE  /\ Stack \subseteq Nodes /\ Free \subseteq Nodes /\ Null \notin Nodes
           /\ head # Null => head \in Stack /\ head \in Nodes
           /\ freeHead # Null => freeHead \in Free /\ freeHead \in Nodes
           /\ freeHead # Null => From(freeHead) = Free
           /\ \A m \in Free : From(m) \subseteq Free
<1>1. Stack \subseteq Nodes /\ Free \subseteq Nodes /\ Null \notin Nodes
    BY DEF Stack, Free, ListNodes, Nodes, Null
<1>2. /\ head # Null => head \in Stack /\ head \in Nodes
      /\ freeHead # Null => freeHead \in Free /\ freeHead \in Nodes
    BY ListOfNode DEF StackTypeOK, Stack, Free, Pointers
<1>3. \A m \in Free : From(m) \subseteq Free
    BY ListOfMember DEF StackTypeOK, From, Free
<1> QED
    BY <1>1, <1>2, <1>3 DEF From, Free

LEMMA SameLists ==
    ASSUME UNCHANGED <<head, freeHead, next>>
    PROVE  /\ Stack' = Stack /\ Free' = Free
           /\ \A m : From(m)' = From(m) /\ After(m)' = After(m)
    BY DEF Stack, Free, From, After

LEMMA ThreadSteps ==
    ASSUME StackInv, NEW t \in Threads, OthersSame(t), StackTypeOK', PopsCounted',
           UNCHANGED <<head, freeHead, next, memory>>,
           pc[t] \in Owning /\ node[t] # Null => pc'[t] \in Owning /\ node'[t] = node[t],
           ThreadInStep(t)', \A u \in Threads : u # t => PairInStep(t, u)' /\ PairInStep(u, t)'
    PROVE  StackInv'
<1>1. /\ Stack' = Stack /\ Free' = Free
      /\ \A m : From(m)' = From(m) /\ After(m)' = After(m)
    BY SameLists
<1>2. ListsApart'
    BY <1>1 DEF StackInv, ListsApart
<1>3. Null \notin Nodes
    BY DEF Nodes, Null
<1>4. NothingForgotten'
    BY <1>1, <1>3 DEF StackInv, NothingForgotten, OthersSame
<1>5. ASSUME NEW u \in Threads PROVE ThreadInStep(u)'
    BY <1>1 DEF StackInv, ThreadInStep, OthersSame
<1>6. ASSUME NEW u \in Threads, NEW w \in Threads PROVE PairInStep(u, w)'
  <2>1. CASE u # t /\ w # t
      BY <2>1, <1>1 DEF StackInv, PairInStep, OthersSame
  <2>2. CASE u = t /\ w = t
      BY <2>2 DEF PairInStep
  <2> QED BY <2>1, <2>2
<1> QED
    BY <1>2, <1>4, <1>5, <1>6 DEF StackInv

LEMMA PopKeepsInv ==
    ASSUME StackInv, NEW t \in Threads, Pop(t)
    PROVE  StackInv'
<1> USE DEF StackInv
<1>1. /\ pc[t] = "idle" /\ pc' = [pc EXCEPT ![t] = "load"] /\ popped' = popped + 1
      /\ UNCHANGED <<head, freeHead, next, memory, node, seen>>
    BY DEF Pop, Become
<1>2. "load" \in Places /\ "load" \in Popping /\ "idle" \notin Popping /\ "idle" \notin Owning
    BY DEF Places, Popping, Owning
<1>3. pc'[t] = "load" /\ OthersSame(t)
    BY <1>1 DEF StackTypeOK, OthersSame
<1>4. PopsCounted' /\ popped' \in Nat
    BY <1>1, <1>2, Counted DEF StackTypeOK
<1>5. StackTypeOK'
    BY <1>1, <1>2, <1>4 DEF StackTypeOK
<1>6. ThreadInStep(t)'
    BY <1>1, <1>3 DEF ThreadInStep, Owning
<1>7. \A u \in Threads : u # t => PairInStep(t, u)' /\ PairInStep(u, t)'
    BY <1>3 DEF PairInStep, Owning
<1> QED
    BY <1>1, <1>2, <1>3, <1>4, <1>5, <1>6, <1>7, ThreadSteps

LEMMA ExamineKeepsInv ==
    ASSUME StackInv, NEW t \in Threads, pc[t] \in {"load", "swing"}, Examine(t),
           UNCHANGED <<head, freeHead, popped, next, memory, seen>>
    PROVE  StackInv'
<1> USE DEF StackInv
<1>1. PICK a \in {"peek", "read"} : a = IF head = Null THEN "peek" ELSE "read"
    OBVIOUS
<1>2. pc' = [pc EXCEPT ![t] = a] /\ node' = [node EXCEPT ![t] = head]
    BY <1>1 DEF Examine, Become
<1>3. a \in Places /\ a \in Popping /\ pc[t] \in Popping /\ pc[t] \notin Owning
    BY DEF Places, Popping, Owning
<1>4. pc'[t] = a /\ node'[t] = head /\ OthersSame(t)
    BY <1>2 DEF StackTypeOK, OthersSame
<1>5. PopsCounted'
    BY <1>2, <1>3, Counted DEF StackTypeOK
<1>6. StackTypeOK'
    BY <1>2, <1>3 DEF StackTypeOK
<1>7. /\ Stack' = Stack /\ Free' = Free /\ \A m : From(m)' = From(m)
    BY SameLists
<1>8. ThreadInStep(t)'
    BY <1>1, <1>4, <1>7, HeadsListed DEF ThreadInStep, Owning, ListsApart
<1>9. ASSUME NEW u \in Threads, u # t PROVE PairInStep(t, u)' /\ PairInStep(u, t)'
  <2>1. pc'[u] = pc[u] /\ node'[u] = node[u] /\ seen'[u] = seen[u] /\ ThreadInStep(u)
      BY <1>4, <1>9 DEF OthersSame
  <2>2. CASE a = "peek"
      BY <2>1, <2>2, <1>1, <1>4 DEF PairInStep, Owning
  <2>3. CASE a = "read"
    <3>1. head \in Stack /\ head \notin Free /\ \A m \in Free : From(m) \subseteq Free
        BY <2>3, <1>1, HeadsListed DEF ListsApart
    <3>2. pc[u] \in {"link", "delete"} => node[u] \notin Stack
        BY <2>1 DEF ThreadInStep, Owning
    <3> QED BY <3>1, <3>2, <2>1, <2>3, <1>4, <1>7 DEF PairInStep, Owning
  <2> QED BY <2>2, <2>3
<1> QED
    BY <1>3, <1>4, <1>5, <1>6, <1>8, <1>9, ThreadSteps

LEMMA ReadNextKeepsInv ==
    ASSUME StackInv, NEW t \in Threads, ReadNext(t)
    PROVE  StackInv'
<1> USE DEF StackInv
<1>1. /\ pc[t] = "read" /\ pc' = [pc EXCEPT ![t] = "swing"] /\ seen' = [seen EXCEPT ![t] = next[node[t]]]
      /\ UNCHANGED <<head, freeHead, popped, next, memory, node>>
    BY DEF ReadNext, Become
<1>2. "swing" \in Places /\ "swing" \in Popping /\ "read" \in Popping /\ "read" \notin Owning
    BY DEF Places, Popping, Owning
<1>3. node[t] \in Nodes
    BY <1>1 DEF StackTypeOK, ThreadInStep, Pointers
<1>4. pc'[t] = "swing" /\ node'[t] = node[t] /\ seen'[t] = next[node[t]] /\ OthersSame(t)
    BY <1>1 DEF StackTypeOK, OthersSame
<1>5. PopsCounted'
    BY <1>1, <1>2, Counted DEF StackTypeOK
<1>6. StackTypeOK'
    BY <1>1, <1>2, <1>3 DEF StackTypeOK
<1>7. ThreadInStep(t)'
    BY <1>1, <1>4 DEF ThreadInStep, Owning
<1>8. \A u \in Threads : u # t => PairInStep(t, u)' /\ PairInStep(u, t)'
    BY <1>1, <1>4 DEF PairInStep, Owning, OthersSame
<1> QED
    BY <1>1, <1>2, <1>4, <1>5, <1>6, <1>7, <1>8, ThreadSteps

LEMMA PeekKeepsInv ==
    ASSUME StackInv, NEW t \in Threads, PeekFree(t)
    PROVE  StackInv'
<1> USE DEF StackInv
<1>1. PICK a \in {"leave", "count"} : a = IF freeHead = Null THEN "leave" ELSE "count"
    OBVIOUS
<1>2. /\ pc[t] = "peek" /\ pc' = [pc EXCEPT ![t] = a] /\ seen' = [seen EXCEPT ![t] = freeHead]
      /\ UNCHANGED <<head, freeHead, popped, next, memory, node>>
    BY <1>1 DEF PeekFree, Become
<1>3. a \in Places /\ a \in Popping /\ "peek" \in Popping /\ a \in Owning /\ "peek" \in Owning
    BY DEF Places, Popping, Owning
<1>4. pc'[t] = a /\ node'[t] = node[t] /\ seen'[t] = freeHead /\ OthersSame(t)
    BY <1>2 DEF StackTypeOK, OthersSame
<1>5. PopsCounted'
    BY <1>2, <1>3, Counted DEF StackTypeOK
<1>6. StackTypeOK'
    BY <1>2, <1>3 DEF StackTypeOK
<1>7. /\ Stack' = Stack /\ Free' = Free
    BY <1>2, SameLists
<1>8. ThreadInStep(t)'
    BY <1>1, <1>2, <1>3, <1>4, <1>7, HeadsListed DEF ThreadInStep
<1>9. \A u \in Threads : u # t => PairInStep(t, u)' /\ PairInStep(u, t)'
    BY <1>2, <1>3, <1>4 DEF PairInStep, OthersSame
<1> QED
    BY <1>2, <1>3, <1>4, <1>5, <1>6, <1>8, <1>9, ThreadSteps

LEMMA CheckKeepsInv ==
    ASSUME StackInv, NEW t \in Threads, CheckAlone(t)
    PROVE  StackInv'
<1> USE DEF StackInv
<1>1. PICK a \in {"leave", "erase"} : a = IF popped = 1 THEN "erase" ELSE "leave"
    OBVIOUS
<1>2. /\ pc[t] = "count" /\ pc' = [pc EXCEPT ![t] = a]
      /\ UNCHANGED <<head, freeHead, popped, next, memory, node, seen>>
    BY <1>1 DEF CheckAlone, Become
<1>3. a \in Places /\ a \in Popping /\ "count" \in Popping /\ a \in Owning /\ "count" \in Owning
    BY DEF Places, Popping, Owning
<1>4. pc'[t] = a /\ node'[t] = node[t] /\ seen'[t] = seen[t] /\ OthersSame(t)
    BY <1>2 DEF StackTypeOK, OthersSame
<1>5. PopsCounted'
    BY <1>2, <1>3, Counted DEF StackTypeOK
<1>6. StackTypeOK'
    BY <1>2, <1>3 DEF StackTypeOK
<1>7. /\ Stack' = Stack /\ Free' = Free
    BY <1>2, SameLists
<1>8. ThreadInStep(t)'
    BY <1>1, <1>2, <1>3, <1>4, <1>7 DEF ThreadInStep
<1>9. a = "erase" => \A u \in Threads : u # t => pc[u] # "read"
    BY <1>1, <1>2, <1>3, Alone DEF Popping
<1>10. \A u \in Threads : u # t => PairInStep(t, u)' /\ PairInStep(u, t)'
    BY <1>1, <1>2, <1>3, <1>4, <1>9 DEF PairInStep, OthersSame
<1> QED
    BY <1>2, <1>3, <1>4, <1>5, <1>6, <1>8, <1>10, ThreadSteps

LEMMA LeaveKeepsInv ==
    ASSUME StackInv, NEW t \in Threads, Leave(t)
    PROVE  StackInv'
<1> USE DEF StackInv
<1>1. PICK a \in {"idle", "delete", "defer"} :
          a = IF node[t] = Null THEN "idle" ELSE IF popped = 1 THEN "delete" ELSE "defer"
    OBVIOUS
<1>2. /\ pc[t] = "leave" /\ pc' = [pc EXCEPT ![t] = a] /\ popped' = popped - 1
      /\ seen' = [seen EXCEPT ![t] = Null]
      /\ UNCHANGED <<head, freeHead, next, memory, node>>
    BY <1>1 DEF Leave, Become
<1>3. a \in Places /\ a \notin Popping /\ "leave" \in Popping /\ "leave" \in Owning /\ Null \in Pointers
    BY DEF Places, Popping, Owning, Pointers
<1>4. pc'[t] = a /\ node'[t] = node[t] /\ OthersSame(t)
    BY <1>2 DEF StackTypeOK, OthersSame
<1>5. PopsCounted' /\ popped' \in Nat
    BY <1>2, <1>3, Counted DEF StackTypeOK
<1>6. StackTypeOK'
    BY <1>2, <1>3, <1>5 DEF StackTypeOK
<1>7. /\ Stack' = Stack /\ Free' = Free
    BY <1>2, SameLists
<1>8. ThreadInStep(t)'
    BY <1>1, <1>2, <1>3, <1>4, <1>7 DEF ThreadInStep
<1>9. a = "delete" => \A u \in Threads : u # t => pc[u] # "read"
    BY <1>1, <1>2, <1>3, Alone DEF Popping
<1>10. \A u \in Threads : u # t => PairInStep(t, u)' /\ PairInStep(u, t)'
    BY <1>1, <1>2, <1>3, <1>4, <1>9 DEF PairInStep, OthersSame
<1>11. node[t] # Null => a \in Owning
    BY <1>1 DEF Owning
<1> QED
    BY <1>2, <1>3, <1>4, <1>5, <1>6, <1>8, <1>10, <1>11, ThreadSteps
-----------------------------------------------------------------------------
(* Steps that change the link of a node that is in neither list.           *)

LEMMA RelinkSteps ==
    ASSUME StackInv, NEW t \in Threads, OthersSame(t), StackTypeOK', PopsCounted',
           NEW n \in Nodes, n \notin Stack, n \notin Free, memory[n] # "deleted",
           \A m \in Nodes : m # n => next'[m] = next[m] /\ memory'[m] = memory[m],
           memory'[n] = "live", head' = head, freeHead' = freeHead,
           pc'[t] \in {"link", "chain"}, node'[t] = n, pc[t] \in Owning => node[t] = n,
           \A u \in Threads : u # t /\ pc[u] \in Owning => node[u] # n,
           pc'[t] = "link" => \A u \in Threads : pc[u] \in {"read", "swing"} => node[u] # n
    PROVE  StackInv'
<1> USE DEF StackInv
<1>1. /\ Stack' = Stack /\ Free' = Free
      /\ \A m \in Stack : After(m)' = After(m)
      /\ \A m \in Free : From(m)' = From(m)
    BY Relinked
<1>2. /\ memory'[n] = "live" /\ \A m \in Nodes : m # n => memory'[m] = memory[m]
      /\ Stack \subseteq Nodes /\ Free \subseteq Nodes /\ Null \notin Nodes
      /\ \A u \in Threads : node[u] # Null => node[u] \in Nodes
      /\ \A u \in Threads : seen[u] # Null => seen[u] \in Nodes
    BY HeadsListed DEF StackTypeOK, Pointers
<1>3. ListsApart'
    BY <1>1, <1>2 DEF ListsApart
<1>4. "link" \in Owning /\ "chain" \in Owning /\ "read" \notin Owning /\ "swing" \notin Owning
    BY DEF Owning
<1>5. NothingForgotten'
  <2> SUFFICES ASSUME NEW m \in Nodes, memory'[m] = "live", m \notin Stack, m \notin Free
               PROVE  \E u \in Threads : pc'[u] \in Owning /\ node'[u] = m
      BY <1>1 DEF NothingForgotten
  <2>1. CASE m = n
      BY <2>1, <1>4
  <2>2. CASE m # n
    <3>1. PICK u \in Threads : pc[u] \in Owning /\ node[u] = m
        BY <2>2, <1>2 DEF NothingForgotten
    <3>2. u # t
        BY <3>1, <2>2
    <3> QED BY <3>1, <3>2 DEF OthersSame
  <2> QED BY <2>1, <2>2
<1>6. ASSUME NEW u \in Threads PROVE ThreadInStep(u)'
  <2>1. CASE u = t
      BY <2>1, <1>1, <1>2 DEF ThreadInStep
  <2>2. CASE u # t
    <3>1. pc'[u] = pc[u] /\ node'[u] = node[u] /\ seen'[u] = seen[u] /\ ThreadInStep(u)
        BY <2>2 DEF OthersSame
    <3>2. node[u] # Null => memory'[node[u]] = memory[node[u]] \/ memory'[node[u]] = "live"
        BY <1>2
    <3>3. node[u] \in Stack => next'[node[u]] = next[node[u]]
        BY <1>1, <1>2
    <3>4. seen[u] # Null /\ memory[seen[u]] = "deleted" => memory'[seen[u]] = "deleted"
        BY <1>2
    <3> QED BY <3>1, <3>2, <3>3, <3>4, <1>1 DEF ThreadInStep
  <2> QED BY <2>1, <2>2
<1>7. ASSUME NEW u \in Threads, NEW w \in Threads PROVE PairInStep(u, w)'
  <2>1. CASE u # t /\ w # t
    <3>1. seen[u] \in Free => ListNodes(next', seen[u]) = ListNodes(next, seen[u])
        BY <1>1 DEF From
    <3>2. /\ pc'[u] = pc[u] /\ node'[u] = node[u] /\ seen'[u] = seen[u] /\ pc'[w] = pc[w] /\ node'[w] = node[w]
          /\ PairInStep(u, w)
        BY <2>1 DEF OthersSame
    <3> QED BY <3>1, <3>2, <1>1 DEF PairInStep, From
  <2>2. CASE u = t
      BY <2>2, <1>4 DEF PairInStep, OthersSame
  <2>3. CASE w = t /\ u # t
      BY <2>3, <1>4 DEF PairInStep, OthersSame
  <2> QED BY <2>1, <2>2, <2>3
<1> QED
    BY <1>3, <1>5, <1>6, <1>7

LEMMA PushKeepsInv ==
    ASSUME StackInv, NEW t \in Threads, Push(t), Recycling = FALSE
    PROVE  StackInv'
<1> USE DEF StackInv
<1>1. PICK n \in Allocatable : /\ memory' = [memory EXCEPT ![n] = "live"]
                               /\ next' = [next EXCEPT ![n] = head]
                               /\ node' = [node EXCEPT ![t] = n]
    BY DEF Push
<1>2. /\ pc[t] = "idle" /\ pc' = [pc EXCEPT ![t] = "link"]
      /\ UNCHANGED <<head, freeHead, popped, seen>>
    BY DEF Push, Become
<1>3. n \in Nodes /\ memory[n] = "unused" /\ n \in Pointers /\ head \in Pointers /\ n # Null
    BY HeadsListed DEF Allocatable, StackTypeOK, Pointers
<1>4. n \notin Stack /\ n \notin Free
    BY <1>3 DEF ListsApart
<1>5. "link" \in Places /\ "link" \notin Popping /\ "idle" \notin Popping /\ "idle" \notin Owning
    BY DEF Places, Popping, Owning
<1>6. pc'[t] = "link" /\ node'[t] = n /\ OthersSame(t)
    BY <1>1, <1>2 DEF StackTypeOK, OthersSame
<1>7. PopsCounted'
    BY <1>2, <1>5, Counted
<1>8. StackTypeOK'
    BY <1>1, <1>2, <1>3, <1>5 DEF StackTypeOK
<1>9. \A u \in Threads : pc[u] \in Owning \/ pc[u] \in {"read", "swing"} => node[u] # n
    BY <1>3 DEF ThreadInStep
<1>10. /\ memory[n] # "deleted" /\ head' = head /\ freeHead' = freeHead
       /\ pc'[t] \in {"link", "chain"} /\ (pc[t] \in Owning => node[t] = n)
       /\ (\A u \in Threads : u # t /\ pc[u] \in Owning => node[u] # n)
       /\ (pc'[t] = "link" => \A u \in Threads : pc[u] \in {"read", "swing"} => node[u] # n)
    BY <1>2, <1>3, <1>5, <1>6, <1>9
<1>11. memory'[n] = "live" /\ \A m \in Nodes : m # n => next'[m] = next[m] /\ memory'[m] = memory[m]
    BY <1>1, <1>3 DEF StackTypeOK
<1> QED
    BY <1>3, <1>4, <1>6, <1>7, <1>8, <1>10, <1>11, RelinkSteps

LEMMA DeferKeepsInv ==
    ASSUME StackInv, NEW t \in Threads, Defer(t)
    PROVE  StackInv'
<1> USE DEF StackInv
<1>1. /\ pc[t] = "defer" /\ pc' = [pc EXCEPT ![t] = "chain"]
      /\ next' = [next EXCEPT ![node[t]] = freeHead]
      /\ UNCHANGED <<head, freeHead, popped, memory, node, seen>>
    BY DEF Defer, Become
<1>2. /\ "chain" \in Places /\ "chain" \notin Popping /\ "defer" \notin Popping /\ "defer" \in Owning
      /\ "chain" # "link"
    BY DEF Places, Popping, Owning
<1>3. /\ node[t] \in Nodes /\ memory[node[t]] = "live" /\ node[t] \notin Stack /\ node[t] \notin Free
      /\ freeHead \in Pointers
    BY <1>1, <1>2 DEF StackTypeOK, ThreadInStep, Pointers
<1>4. pc'[t] = "chain" /\ node'[t] = node[t] /\ OthersSame(t)
    BY <1>1 DEF StackTypeOK, OthersSame
<1>5. PopsCounted'
    BY <1>1, <1>2, Counted
<1>6. StackTypeOK'
    BY <1>1, <1>2, <1>3 DEF StackTypeOK
<1>7. \A u \in Threads : u # t /\ pc[u] \in Owning => node[u] # node[t]
    BY <1>1, <1>2, <1>3, HeadsListed DEF PairInStep
<1>8. /\ memory'[node[t]] = "live"
      /\ \A m \in Nodes : m # node[t] => next'[m] = next[m] /\ memory'[m] = memory[m]
    BY <1>1, <1>3 DEF StackTypeOK
<1>9. /\ memory[node[t]] # "deleted" /\ head' = head /\ freeHead' = freeHead
      /\ pc'[t] \in {"link", "chain"} /\ pc'[t] # "link"
    BY <1>1, <1>2, <1>3, <1>4
<1> QED
    BY <1>1, <1>3, <1>4, <1>5, <1>6, <1>7, <1>8, <1>9, RelinkSteps

\* push_to tries again after its comparison has failed.
LEMMA RetryKeepsInv ==
    ASSUME StackInv, NEW t \in Threads, pc[t] \in {"link", "chain"},
           NEW v \in Pointers, next' = [next EXCEPT ![node[t]] = v],
           UNCHANGED <<head, freeHead, popped, memory, pc, node, seen>>
    PROVE  StackInv'
<1> USE DEF StackInv
<1>1. "link" \in Owning /\ "chain" \in Owning
    BY DEF Owning
<1>2. node[t] \in Nodes /\ memory[node[t]] = "live" /\ node[t] \notin Stack /\ node[t] \notin Free
    BY <1>1 DEF StackTypeOK, ThreadInStep, Pointers
<1>3. OthersSame(t) /\ PopsCounted'
    BY DEF OthersSame, PopsCounted
<1>4. StackTypeOK'
    BY <1>2 DEF StackTypeOK
<1>5. \A u \in Threads : u # t /\ pc[u] \in Owning => node[u] # node[t]
    BY <1>1, <1>2, HeadsListed DEF PairInStep
<1>6. /\ memory'[node[t]] = "live"
      /\ \A m \in Nodes : m # node[t] => next'[m] = next[m] /\ memory'[m] = memory[m]
    BY <1>2 DEF StackTypeOK
<1>7. pc'[t] = "link" => \A u \in Threads : pc[u] \in {"read", "swing"} => node[u] # node[t]
    BY DEF PairInStep
<1>8. pc'[t] \in {"link", "chain"} /\ node'[t] = node[t] /\ memory[node[t]] # "deleted"
    BY <1>2
<1> QED
    BY <1>2, <1>3, <1>4, <1>5, <1>6, <1>7, <1>8, RelinkSteps

-----------------------------------------------------------------------------
(* Steps that change the lists.                                            *)

LEMMA LinkKeepsInv ==
    ASSUME StackInv, NEW t \in Threads, Link(t)
    PROVE  StackInv' /\ (head' # head => head' = node[t] /\ next[node[t]] = head /\ UNCHANGED next
                                         /\ node[t] \notin Stack /\ Stack' = Stack \cup {node[t]})
<1> USE DEF StackInv
<1>1. pc[t] = "link" /\ UNCHANGED <<freeHead, popped, memory, seen>>
    BY DEF Link
<1>2. "link" \in Owning /\ "link" \notin Popping /\ "idle" \in Places /\ "idle" \notin Popping /\ "idle" \notin Owning
    BY DEF Owning, Popping, Places
<1>3. PICK n \in Nodes : n = node[t] /\ memory[n] = "live" /\ n \notin Stack /\ n \notin Free /\ n # Null
    BY <1>1, <1>2 DEF StackTypeOK, ThreadInStep, Pointers
<1>4. CASE head # next[n]
  <2>1. next' = [next EXCEPT ![node[t]] = head] /\ UNCHANGED <<head, node, pc>> /\ head \in Pointers
      BY <1>3, <1>4 DEF Link, StackTypeOK
  <2> QED BY <2>1, <1>1, RetryKeepsInv
<1>5. CASE head = next[n]
  <2>1. /\ head' = n /\ UNCHANGED next
        /\ node' = [node EXCEPT ![t] = Null] /\ pc' = [pc EXCEPT ![t] = "idle"]
      BY <1>3, <1>5 DEF Link, Become
  <2>2. pc'[t] = "idle" /\ node'[t] = Null /\ OthersSame(t)
      BY <1>1, <2>1 DEF StackTypeOK, OthersSame
  <2>3. PopsCounted'
      BY <1>1, <1>2, <2>1, Counted
  <2>4. StackTypeOK'
      BY <1>1, <1>2, <2>1 DEF StackTypeOK, Pointers
  <2>5. /\ Stack' = {n} \cup Stack /\ Free' = Free /\ After(n) = Stack
        /\ \A m : After(m)' = After(m) /\ From(m)' = From(m)
      BY <1>1, <1>5, <2>1, ListOfNode DEF Stack, Free, After, From, StackTypeOK
  <2>6. ListsApart'
      BY <1>1, <1>3, <2>5 DEF ListsApart
  <2>7. NothingForgotten'
      BY <1>1, <1>3, <2>2, <2>5 DEF NothingForgotten, OthersSame
  <2>8. ASSUME NEW u \in Threads, u # t PROVE PairInStep(t, u) /\ PairInStep(u, t) /\ ThreadInStep(u)
                  /\ pc'[u] = pc[u] /\ node'[u] = node[u] /\ seen'[u] = seen[u]
      BY <2>2, <2>8 DEF OthersSame
  <2>9. ASSUME NEW u \in Threads PROVE ThreadInStep(u)'
    <3>1. CASE u = t
        BY <3>1, <1>2, <2>2 DEF ThreadInStep
    <3>2. CASE u # t
      <4>1. pc[u] \in Owning \/ pc[u] = "swing" => node[u] # n
          BY <3>2, <2>8, <1>1, <1>2, <1>3 DEF PairInStep
      <4> QED BY <3>2, <4>1, <2>8, <2>1, <2>5, <1>1 DEF ThreadInStep
    <3> QED BY <3>1, <3>2
  <2>10. ASSUME NEW u \in Threads, NEW w \in Threads PROVE PairInStep(u, w)'
    <3>1. CASE u # t /\ w # t
        BY <3>1, <2>5, <2>8 DEF PairInStep, From
    <3>2. CASE u = t \/ w = t
        BY <3>2, <1>2, <2>2 DEF PairInStep
    <3> QED BY <3>1, <3>2
  <2> QED BY <2>1, <2>3, <2>4, <2>5, <2>6, <2>7, <2>9, <2>10, <1>3, <1>5
<1> QED
    BY <1>4, <1>5
LEMMA SwingKeepsInv ==
    ASSUME StackInv, NEW t \in Threads, Swing(t)
    PROVE  /\ StackInv' /\ head = node[t] /\ head \in Stack /\ head' = next[head]
           /\ head \notin Stack' /\ Stack = Stack' \cup {head} /\ UNCHANGED next
<1> USE DEF StackInv
<1>1. /\ pc[t] = "swing" /\ head = node[t] /\ pc' = [pc EXCEPT ![t] = "peek"] /\ head' = seen[t]
      /\ UNCHANGED <<freeHead, popped, next, memory, node, seen>>
    BY DEF Swing, Become
<1>2. "swing" \in Popping /\ "peek" \in Popping /\ "peek" \in Places /\ "peek" \in Owning /\ "swing" \notin Owning
    BY DEF Owning, Popping, Places
<1>3. head # Null /\ head \in Nodes /\ head \in Stack
    BY <1>1, HeadsListed DEF ThreadInStep
<1>4. head' = next[head]
    BY <1>1, <1>3 DEF ThreadInStep
<1>5. pc'[t] = "peek" /\ node'[t] = head /\ OthersSame(t)
    BY <1>1 DEF StackTypeOK, OthersSame
<1>6. PopsCounted'
    BY <1>1, <1>2, Counted
<1>7. StackTypeOK'
    BY <1>1, <1>2 DEF StackTypeOK
<1>8. /\ Stack = {head} \cup Stack' /\ Stack' = After(head) /\ Free' = Free
      /\ \A m : After(m)' = After(m) /\ From(m)' = From(m)
    BY <1>1, <1>3, <1>4, ListOfNode DEF Stack, Free, After, From, StackTypeOK
<1>9. head \notin Stack' /\ head \notin Free /\ memory[head] = "live"
    BY <1>3, <1>8 DEF ListsApart
<1>10. ListsApart'
    BY <1>1, <1>8 DEF ListsApart
<1>11. NothingForgotten'
  <2> SUFFICES ASSUME NEW m \in Nodes, memory'[m] = "live", m \notin Stack', m \notin Free
               PROVE  \E u \in Threads : pc'[u] \in Owning /\ node'[u] = m
      BY <1>8 DEF NothingForgotten
  <2>1. CASE m = head
      BY <2>1, <1>2, <1>5
  <2>2. CASE m # head
    <3>1. PICK u \in Threads : pc[u] \in Owning /\ node[u] = m
        BY <2>2, <1>1, <1>8 DEF NothingForgotten
    <3>2. u # t
        BY <3>1, <1>1, <1>2
    <3> QED BY <3>1, <3>2, <1>5 DEF OthersSame
  <2> QED BY <2>1, <2>2
<1>12. ASSUME NEW u \in Threads, u # t
       PROVE  /\ ThreadInStep(u) /\ pc'[u] = pc[u] /\ node'[u] = node[u] /\ seen'[u] = seen[u]
              /\ pc[u] \in Owning => node[u] # head
  <2>1. pc[u] \in Owning => node[u] # head
      BY <1>3 DEF ThreadInStep
  <2> QED BY <2>1, <1>5, <1>12 DEF OthersSame
<1>13. ASSUME NEW u \in Threads PROVE ThreadInStep(u)'
  <2>1. CASE u = t
      BY <2>1, <1>1, <1>5, <1>8, <1>9 DEF ThreadInStep
  <2>2. CASE u # t
      BY <2>2, <1>1, <1>8, <1>12 DEF ThreadInStep
  <2> QED BY <2>1, <2>2
<1>14. ASSUME NEW u \in Threads, NEW w \in Threads PROVE PairInStep(u, w)'
  <2>1. CASE u # t /\ w # t
    <3>1. PairInStep(u, w)
        OBVIOUS
    <3> QED BY <2>1, <3>1, <1>8, <1>12 DEF PairInStep, From
  <2>2. CASE u = t
      BY <2>2, <1>2, <1>5, <1>12 DEF PairInStep
  <2>3. CASE w = t /\ u # t
      BY <2>3, <1>2, <1>5, <1>12 DEF PairInStep
  <2> QED BY <2>1, <2>2, <2>3
<1> QED
    BY <1>1, <1>3, <1>4, <1>6, <1>7, <1>8, <1>9, <1>10, <1>11, <1>13, <1>14

LEMMA ChainKeepsInv ==
    ASSUME StackInv, NEW t \in Threads, ChainFree(t)
    PROVE  StackInv'
<1> USE DEF StackInv
<1>1. pc[t] = "chain" /\ UNCHANGED <<head, popped, memory, seen>>
    BY DEF ChainFree
<1>2. "chain" \in Owning /\ "chain" \notin Popping /\ "idle" \in Places /\ "idle" \notin Popping /\ "idle" \notin Owning
    BY DEF Owning, Popping, Places
<1>3. PICK n \in Nodes : n = node[t] /\ memory[n] = "live" /\ n \notin Stack /\ n \notin Free /\ n # Null
    BY <1>1, <1>2 DEF StackTypeOK, ThreadInStep, Pointers
<1>4. CASE freeHead # next[n]
  <2>1. next' = [next EXCEPT ![node[t]] = freeHead] /\ UNCHANGED <<freeHead, node, pc>> /\ freeHead \in Pointers
      BY <1>3, <1>4 DEF ChainFree, StackTypeOK
  <2> QED BY <2>1, <1>1, RetryKeepsInv
<1>5. CASE freeHead = next[n]
  <2>1. /\ freeHead' = n /\ UNCHANGED next
        /\ node' = [node EXCEPT ![t] = Null] /\ pc' = [pc EXCEPT ![t] = "idle"]
      BY <1>3, <1>5 DEF ChainFree, Become
  <2>2. pc'[t] = "idle" /\ node'[t] = Null /\ OthersSame(t)
      BY <1>1, <2>1 DEF StackTypeOK, OthersSame
  <2>3. PopsCounted'
      BY <1>1, <1>2, <2>1, Counted
  <2>4. StackTypeOK'
      BY <1>1, <1>2, <2>1 DEF StackTypeOK, Pointers
  <2>5. /\ Free' = {n} \cup Free /\ Stack' = Stack
        /\ \A m : After(m)' = After(m) /\ From(m)' = From(m)
      BY <1>1, <1>5, <2>1, ListOfNode DEF Stack, Free, After, From, StackTypeOK
  <2>6. ListsApart'
      BY <1>1, <1>3, <2>5 DEF ListsApart
  <2>7. NothingForgotten'
      BY <1>1, <1>3, <2>2, <2>5 DEF NothingForgotten, OthersSame
  <2>8. ASSUME NEW u \in Threads, u # t PROVE PairInStep(t, u) /\ PairInStep(u, t) /\ ThreadInStep(u)
                  /\ pc'[u] = pc[u] /\ node'[u] = node[u] /\ seen'[u] = seen[u]
      BY <2>2, <2>8, <1>1 DEF OthersSame
  <2>9. ASSUME NEW u \in Threads PROVE ThreadInStep(u)'
    <3>1. CASE u = t
        BY <3>1, <1>2, <2>2 DEF ThreadInStep
    <3>2. CASE u # t
      <4>1. pc[u] \in Owning => node[u] # n
          BY <3>2, <2>8, <1>1, <1>2, <1>3 DEF PairInStep
      <4> QED BY <3>2, <4>1, <2>8, <2>1, <2>5, <1>1 DEF ThreadInStep
    <3> QED BY <3>1, <3>2
  <2>10. ASSUME NEW u \in Threads, NEW w \in Threads PROVE PairInStep(u, w)'
    <3>1. CASE u # t /\ w # t
      <4>1. PairInStep(u, w) /\ ThreadInStep(u)
          OBVIOUS
      <4>2. pc[u] = "erase" /\ seen[u] \in Free' => seen[u] \in Free
          BY <4>1, <1>3, <2>5 DEF ThreadInStep
      <4> QED BY <3>1, <4>1, <4>2, <2>5, <2>8 DEF PairInStep, From
    <3>2. CASE u = t \/ w = t
        BY <3>2, <1>2, <2>2 DEF PairInStep
    <3> QED BY <3>1, <3>2
  <2> QED BY <2>3, <2>4, <2>6, <2>7, <2>9, <2>10
<1> QED
    BY <1>4, <1>5

LEMMA DeleteKeepsInv ==
    ASSUME StackInv, NEW t \in Threads, Delete(t)
    PROVE  StackInv'
<1> USE DEF StackInv
<1>1. /\ pc[t] = "delete" /\ pc' = [pc EXCEPT ![t] = "idle"]
      /\ memory' = [memory EXCEPT ![node[t]] = "deleted"] /\ node' = [node EXCEPT ![t] = Null]
      /\ UNCHANGED <<head, freeHead, popped, next, seen>>
    BY DEF Delete, Become
<1>2. "delete" \in Owning /\ "delete" \notin Popping /\ "idle" \in Places /\ "idle" \notin Popping /\ "idle" \notin Owning
    BY DEF Owning, Popping, Places
<1>3. PICK n \in Nodes : n = node[t] /\ memory[n] = "live" /\ n \notin Stack /\ n \notin Free /\ n # Null
    BY <1>1, <1>2 DEF StackTypeOK, ThreadInStep, Pointers
<1>4. pc'[t] = "idle" /\ node'[t] = Null /\ OthersSame(t)
    BY <1>1 DEF StackTypeOK, OthersSame
<1>5. PopsCounted'
    BY <1>1, <1>2, Counted
<1>6. StackTypeOK'
    BY <1>1, <1>2 DEF StackTypeOK, Pointers
<1>7. /\ Stack' = Stack /\ Free' = Free
      /\ \A m : From(m)' = From(m) /\ After(m)' = After(m)
    BY <1>1, SameLists
<1>8. /\ memory'[n] = "deleted" /\ \A m \in Nodes : m # n => memory'[m] = memory[m]
      /\ Stack \subseteq Nodes /\ Free \subseteq Nodes
      /\ \A u \in Threads : node[u] # Null => node[u] \in Nodes
      /\ \A u \in Threads : seen[u] # Null => seen[u] \in Nodes
    BY <1>1, <1>3, HeadsListed DEF StackTypeOK, Pointers
<1>9. ListsApart'
    BY <1>3, <1>7, <1>8 DEF ListsApart
<1>10. NothingForgotten'
  <2> SUFFICES ASSUME NEW m \in Nodes, memory'[m] = "live", m \notin Stack, m \notin Free
               PROVE  \E u \in Threads : pc'[u] \in Owning /\ node'[u] = m
      BY <1>7 DEF NothingForgotten
  <2>1. m # n /\ memory[m] = "live"
      BY <1>8
  <2>2. PICK u \in Threads : pc[u] \in Owning /\ node[u] = m
      BY <2>1 DEF NothingForgotten
  <2>3. u # t
      BY <2>1, <2>2, <1>3
  <2> QED BY <2>2, <2>3, <1>4 DEF OthersSame
<1>11. ASSUME NEW u \in Threads, u # t
       PROVE  /\ ThreadInStep(u) /\ pc'[u] = pc[u] /\ node'[u] = node[u] /\ seen'[u] = seen[u]
              /\ pc[u] \in Owning \/ pc[u] = "read" => node[u] # n
  <2>1. PairInStep(t, u)
      OBVIOUS
  <2>2. pc[u] \in Owning \/ pc[u] = "read" => node[u] # n
      BY <2>1, <1>1, <1>2, <1>3, <1>11 DEF PairInStep
  <2> QED BY <2>2, <1>4, <1>11 DEF OthersSame
<1>12. ASSUME NEW u \in Threads PROVE ThreadInStep(u)'
  <2>1. CASE u = t
      BY <2>1, <1>2, <1>4 DEF ThreadInStep
  <2>2. CASE u # t
    <3>1. node[u] # Null /\ node[u] # n => memory'[node[u]] = memory[node[u]]
        BY <1>8
    <3>2. node[u] # Null /\ node[u] = n => memory'[node[u]] = "deleted"
        BY <1>8
    <3>3. seen[u] # Null /\ memory[seen[u]] = "deleted" => memory'[seen[u]] = "deleted"
        BY <1>8
    <3> QED BY <2>2, <3>1, <3>2, <3>3, <1>1, <1>7, <1>11 DEF ThreadInStep
  <2> QED BY <2>1, <2>2
<1>13. ASSUME NEW u \in Threads, NEW w \in Threads PROVE PairInStep(u, w)'
  <2>1. CASE u # t /\ w # t
    <3>1. PairInStep(u, w)
        OBVIOUS
    <3> QED BY <2>1, <3>1, <1>7, <1>11 DEF PairInStep, From
  <2>2. CASE u = t \/ w = t
      BY <2>2, <1>2, <1>4 DEF PairInStep
  <2> QED BY <2>1, <2>2
<1> QED
    BY <1>5, <1>6, <1>9, <1>10, <1>12, <1>13

LEMMA EraseKeepsInv ==
    ASSUME StackInv, NEW t \in Threads, EraseFree(t)
    PROVE  StackInv'
<1> USE DEF StackInv
<1>1. /\ pc[t] = "erase" /\ pc' = [pc EXCEPT ![t] = "leave"]
      /\ UNCHANGED <<head, popped, next, node, seen>>
    BY DEF EraseFree, Become
<1>2. /\ "erase" \in Owning /\ "erase" \in Popping /\ "leave" \in Places /\ "leave" \in Popping
      /\ "leave" \in Owning
    BY DEF Owning, Popping, Places
<1>3. pc'[t] = "leave" /\ OthersSame(t) /\ \A u \in Threads : node'[u] = node[u] /\ seen'[u] = seen[u]
    BY <1>1 DEF StackTypeOK, OthersSame
<1>4. PopsCounted'
    BY <1>1, <1>2, Counted
<1>5. CASE freeHead # seen[t]
  <2>1. UNCHANGED <<head, freeHead, next, memory>>
      BY <1>1, <1>5 DEF EraseFree
  <2>2. StackTypeOK'
      BY <1>1, <1>2, <2>1 DEF StackTypeOK
  <2>3. Stack' = Stack /\ Free' = Free
      BY <2>1, SameLists
  <2>4. ThreadInStep(t)'
      BY <1>1, <1>2, <1>3, <2>1, <2>3 DEF ThreadInStep
  <2>5. \A u \in Threads : u # t => PairInStep(t, u)' /\ PairInStep(u, t)'
      BY <1>1, <1>2, <1>3 DEF PairInStep, OthersSame
  <2> QED BY <1>2, <1>3, <1>4, <2>1, <2>2, <2>4, <2>5, ThreadSteps
<1>6. CASE freeHead = seen[t]
  <2>1. freeHead' = Null /\ memory' = Erased(freeHead) /\ freeHead # Null
      BY <1>1, <1>6 DEF EraseFree, ThreadInStep
  <2>2. memory' = [n \in Nodes |-> IF n \in Free THEN "deleted" ELSE memory[n]]
      BY <2>1 DEF Erased, Free
  <2>3. Null \in Pointers
      BY DEF Pointers
  <2>4. StackTypeOK'
      BY <1>1, <1>2, <2>1, <2>2, <2>3 DEF StackTypeOK
  <2>5. Stack' = Stack /\ Free' = {} /\ \A m : From(m)' = From(m) /\ After(m)' = After(m)
      BY <1>1, <2>1, ListOfNull DEF Stack, Free, From, After, StackTypeOK
  <2>6. /\ \A n \in Nodes : memory'[n] = IF n \in Free THEN "deleted" ELSE memory[n]
        /\ Stack \subseteq Nodes /\ Free \subseteq Nodes
        /\ \A u \in Threads : node[u] # Null => node[u] \in Nodes
        /\ \A u \in Threads : seen[u] # Null => seen[u] \in Nodes
      BY <2>2, HeadsListed DEF StackTypeOK, Pointers
  <2>7. ListsApart'
      BY <2>5, <2>6 DEF ListsApart
  <2>8. NothingForgotten'
    <3> SUFFICES ASSUME NEW m \in Nodes, memory'[m] = "live", m \notin Stack
                 PROVE  \E u \in Threads : pc'[u] \in Owning /\ node'[u] = m
        BY <2>5 DEF NothingForgotten
    <3>1. memory[m] = "live" /\ m \notin Free
        BY <2>6
    <3>2. PICK u \in Threads : pc[u] \in Owning /\ node[u] = m
        BY <3>1 DEF NothingForgotten
    <3> QED BY <3>2, <1>2, <1>3 DEF OthersSame
  <2>9. ASSUME NEW u \in Threads PROVE ThreadInStep(u)'
    <3>1. ThreadInStep(u) /\ node'[u] = node[u] /\ seen'[u] = seen[u]
        BY <1>3
    <3>2. /\ pc[u] \in Owning /\ node[u] # Null => memory'[node[u]] = memory[node[u]]
          /\ node[u] # Null /\ memory[node[u]] # "unused" => memory'[node[u]] # "unused"
          /\ seen[u] # Null /\ (seen[u] \in Free \/ memory[seen[u]] = "deleted") => memory'[seen[u]] = "deleted"
        BY <3>1, <2>6 DEF ThreadInStep
    <3>3. CASE u = t
        BY <3>1, <3>2, <3>3, <1>1, <1>2, <1>3, <2>5 DEF ThreadInStep
    <3>4. CASE u # t
      <4>1. pc'[u] = pc[u]
          BY <3>4, <1>3 DEF OthersSame
      <4>2. PairInStep(t, u) /\ seen[t] \in Free /\ ListNodes(next, seen[t]) = Free
          BY <1>6, <2>1, HeadsListed DEF From
      <4>3. pc[u] = "read" => node[u] \notin Free
          BY <4>2, <1>1 DEF PairInStep, From
      <4>4. pc[u] = "read" => memory'[node[u]] = memory[node[u]]
          BY <3>1, <4>3, <2>6 DEF ThreadInStep
      <4> QED BY <3>1, <3>2, <4>1, <4>4, <1>1, <2>5 DEF ThreadInStep
    <3> QED BY <3>3, <3>4
  <2>10. ASSUME NEW u \in Threads, NEW w \in Threads PROVE PairInStep(u, w)'
    <3>1. PairInStep(u, w)
        OBVIOUS
    <3> QED BY <3>1, <1>1, <1>2, <1>3, <2>5 DEF PairInStep, OthersSame
  <2> QED BY <1>4, <2>4, <2>7, <2>8, <2>9, <2>10
<1> QED
    BY <1>5, <1>6

LEMMA DestroyKeepsInv ==
    ASSUME StackInv, Destroy
    PROVE  StackInv'
<1> USE DEF StackInv
<1>1. /\ \A t \in Threads : pc[t] = "idle" /\ pc[t] \notin Owning
      /\ head' = Null /\ freeHead' = Null /\ UNCHANGED <<popped, next, pc, node, seen>>
    BY DEF Destroy, Owning
<1>2. memory' = [n \in Nodes |-> IF n \in Stack \/ n \in Free THEN "deleted" ELSE memory[n]]
    BY DEF Destroy, Erased, Stack, Free
<1>3. StackTypeOK'
    BY <1>1, <1>2 DEF StackTypeOK, Pointers
<1>4. Stack' = {} /\ Free' = {}
    BY <1>1, ListOfNull DEF Stack, Free, StackTypeOK
<1>5. PopsCounted' /\ ListsApart'
    BY <1>1, <1>4 DEF PopsCounted, ListsApart
<1>6. NothingForgotten'
    BY <1>1, <1>2 DEF NothingForgotten
<1>7. \A t \in Threads : ThreadInStep(t)'
    BY <1>1 DEF ThreadInStep
<1>8. \A t, u \in Threads : PairInStep(t, u)'
    BY <1>1 DEF PairInStep
<1> QED
    BY <1>3, <1>5, <1>6, <1>7, <1>8
LEMMA StackInvInit ==
    ASSUME StackInit
    PROVE  StackInv
<1> USE DEF StackInit
<1>1. StackTypeOK
    BY DEF StackTypeOK, Pointers, Places
<1>2. {t \in Threads : pc[t] \in Popping} = {}
    BY DEF Popping
<1>3. PopsCounted
    BY <1>2, FS_EmptySet DEF PopsCounted
<1>4. Stack = {} /\ Free = {}
    BY <1>1, ListOfNull DEF Stack, Free, StackTypeOK
<1>5. ListsApart /\ NothingForgotten
    BY <1>4 DEF ListsApart, NothingForgotten
<1>6. \A t, u \in Threads : ThreadInStep(t) /\ PairInStep(t, u)
    BY DEF ThreadInStep, PairInStep, Owning
<1> QED
    BY <1>1, <1>3, <1>5, <1>6 DEF StackInv

LEMMA StackInvStep ==
    ASSUME StackInv, [StackNext]_stackVars, Recycling = FALSE
    PROVE  StackInv'
<1>1. CASE Destroy
    BY <1>1, DestroyKeepsInv
<1>2. ASSUME NEW t \in Threads, StackStep(t) PROVE StackInv'
  <2>1. CASE Push(t)
      BY <2>1, PushKeepsInv
  <2>2. CASE Link(t)
      BY <2>2, LinkKeepsInv
  <2>3. CASE Pop(t)
      BY <2>3, PopKeepsInv
  <2>4. CASE Load(t)
      BY <2>4, ExamineKeepsInv DEF Load
  <2>5. CASE ReadNext(t)
      BY <2>5, ReadNextKeepsInv
  <2>6. CASE Swing(t)
      BY <2>6, SwingKeepsInv
  <2>7. CASE SwingFails(t)
      BY <2>7, ExamineKeepsInv DEF SwingFails
  <2>8. CASE PeekFree(t)
      BY <2>8, PeekKeepsInv
  <2>9. CASE CheckAlone(t)
      BY <2>9, CheckKeepsInv
  <2>10. CASE EraseFree(t)
      BY <2>10, EraseKeepsInv
  <2>11. CASE Leave(t)
      BY <2>11, LeaveKeepsInv
  <2>12. CASE Delete(t)
      BY <2>12, DeleteKeepsInv
  <2>13. CASE Defer(t)
      BY <2>13, DeferKeepsInv
  <2>14. CASE ChainFree(t)
      BY <2>14, ChainKeepsInv
  <2> QED
      BY <1>2, <2>4, <2>1, <2>2, <2>3, <2>5, <2>6, <2>7, <2>8, <2>9, <2>10, <2>11, <2>12, <2>13, <2>14
         DEF StackStep
<1>3. CASE UNCHANGED stackVars
  <2>1. UNCHANGED <<head, freeHead, popped, next, memory, pc, node, seen>>
      BY <1>3 DEF stackVars
  <2>2. Stack' = Stack /\ Free' = Free /\ \A m : From(m)' = From(m) /\ After(m)' = After(m)
      BY <2>1, SameLists
  <2>3. StackTypeOK' /\ PopsCounted' /\ ListsApart' /\ NothingForgotten'
      BY <2>1, <2>2 DEF StackInv, StackTypeOK, PopsCounted, ListsApart, NothingForgotten
  <2>4. \A t \in Threads : ThreadInStep(t)'
      BY <2>1, <2>2 DEF StackInv, ThreadInStep
  <2>5. \A t, u \in Threads : PairInStep(t, u)'
      BY <2>1, <2>2 DEF StackInv, PairInStep, From
  <2> QED BY <2>3, <2>4, <2>5 DEF StackInv
<1> QED
    BY <1>1, <1>2, <1>3 DEF StackNext

-----------------------------------------------------------------------------
\* While no address is allocated twice, and for any number of threads and
\* nodes: whatever pop() reads, writes or deletes is alive, both lists hold
\* live nodes only, and every live node is in a list or in the hands of a
\* thread (stack::push, pop, try_to_erase_free_list and the destructor).
THEOREM StackNodesOwned ==
    ASSUME Recycling = FALSE
    PROVE  StackSpec => []NodesOwned
<1>1. StackInit => StackInv
    BY StackInvInit
<1>2. StackInv /\ [StackNext]_stackVars => StackInv'
    BY StackInvStep
<1>3. StackInv => NodesOwned
  <2> SUFFICES ASSUME StackInv PROVE NodesOwned
      OBVIOUS
  <2>1. ASSUME NEW t \in Threads, pc[t] # "swing", node[t] # Null PROVE memory[node[t]] = "live"
    <3>1. ThreadInStep(t) /\ pc[t] \in Places
        BY DEF StackInv, StackTypeOK
    <3>2. pc[t] \in Owning \/ pc[t] \in {"idle", "load", "read"}
        BY <2>1, <3>1 DEF Places, Popping, Owning
    <3> QED BY <2>1, <3>1, <3>2 DEF ThreadInStep
  <2>2. NoUseAfterFree
      BY <2>1 DEF NoUseAfterFree, StackInv, ListsApart, Stack, Free
  <2>3. NoLeak
      BY DEF NoLeak, Held, StackInv, NothingForgotten, Owning, Stack, Free
  <2> QED BY <2>2, <2>3 DEF NodesOwned
<1> QED
    BY <1>1, <1>2, <1>3, PTL DEF StackSpec

LEMMA LinkPutsOnTop ==
    ASSUME StackInv, NEW t \in Threads, Link(t), content' # content
    PROVE  pc[t] = "link" /\ OnTop(node[t], content, content')
<1>1. head' # head
  <2> SUFFICES ASSUME head' = head PROVE content' = content
      OBVIOUS
  <2>1. StackInv'
      BY LinkKeepsInv
  <2>2. "link" \in Owning
      BY DEF Owning
  <2>3. node[t] \in Nodes /\ node[t] \notin Stack /\ node[t] \notin Free /\ node[t] # Null
      BY <2>2 DEF StackInv, StackTypeOK, ThreadInStep, Pointers, Link
  <2>4. (\A m \in Nodes : m # node[t] => next'[m] = next[m]) /\ freeHead' = freeHead
      BY <2>3 DEF Link, StackInv, StackTypeOK
  <2>5. Stack' = Stack
      BY <2>1, <2>3, <2>4, Relinked DEF StackInv
  <2>6. \A m \in Stack : next'[m] = next[m]
      BY <2>3, <2>4, HeadsListed DEF StackInv
  <2> QED BY <2>5, <2>6 DEF content, Stack
<1>2. /\ head' = node[t] /\ next[node[t]] = head /\ UNCHANGED next
      /\ node[t] \notin Stack /\ Stack' = Stack \cup {node[t]}
    BY <1>1, LinkKeepsInv
<1>3. content = [top |-> head, below |-> [n \in Stack |-> next[n]]]
    BY DEF content, Stack
<1>4. content' = [top |-> head', below |-> [n \in Stack' |-> next'[n]]]
    BY DEF content, Stack
<1>5. DOMAIN content.below = Stack /\ content.top = head /\ \A m \in Stack : content.below[m] = next[m]
    BY <1>3
<1>6. [n \in Stack \cup {node[t]} |-> next[n]] =
          [m \in Stack \cup {node[t]} |-> IF m = node[t] THEN head ELSE content.below[m]]
    BY <1>2, <1>5
<1> QED
    BY <1>2, <1>4, <1>5, <1>6 DEF OnTop, Link

LEMMA SwingTakesTop ==
    ASSUME StackInv, NEW t \in Threads, Swing(t)
    PROVE  pc[t] = "swing" /\ OnTop(node[t], content', content)
<1>1. /\ head = node[t] /\ head' = next[head] /\ UNCHANGED next
      /\ head \notin Stack' /\ Stack = Stack' \cup {head}
    BY SwingKeepsInv
<1>2. content = [top |-> head, below |-> [n \in Stack |-> next[n]]]
    BY DEF content, Stack
<1>3. content' = [top |-> head', below |-> [n \in Stack' |-> next'[n]]]
    BY DEF content, Stack
<1>4. DOMAIN content'.below = Stack' /\ content'.top = head' /\ \A m \in Stack' : content'.below[m] = next[m]
    BY <1>1, <1>3
<1>5. [n \in Stack |-> next[n]] =
          [m \in Stack' \cup {head} |-> IF m = head THEN head' ELSE content'.below[m]]
    BY <1>1, <1>4
<1> QED
    BY <1>1, <1>2, <1>4, <1>5 DEF OnTop, Swing

\* While no address is allocated twice, stale pointers do not matter: a push()
\* puts its node on top of the very stack it finds, a pop() takes the node that
\* it returns from the top, and nothing but the destructor changes the content
\* otherwise (push_to and the loop of stack::pop).
THEOREM StackLifo ==
    ASSUME Recycling = FALSE
    PROVE  StackSpec => StackIsLifo
<1> DEFINE Lifo ==
        \/ \E t \in Threads : pc[t] = "link" /\ OnTop(node[t], content, content')
        \/ \E t \in Threads : pc[t] = "swing" /\ OnTop(node[t], content', content)
        \/ content'.top = Null /\ \A t \in Threads : pc[t] = "idle"
<1>1. StackInit => StackInv
    BY StackInvInit
<1>2. StackInv /\ [StackNext]_stackVars => StackInv'
    BY StackInvStep
<1>3. ASSUME StackInv, StackInv', [StackNext]_stackVars, content' # content
      PROVE  Lifo
  <2>1. \/ UNCHANGED <<head, next>> \/ Destroy
        \/ \E t \in Threads : Push(t) \/ Link(t) \/ Swing(t) \/ Defer(t) \/ ChainFree(t)
      BY <1>3 DEF StackNext, StackStep, stackVars, Pop, Load, ReadNext, SwingFails, PeekFree,
                  CheckAlone, EraseFree, Leave, Delete
  <2>2. CASE UNCHANGED <<head, next>>
      BY <2>2, <1>3 DEF content
  <2>3. CASE Destroy
      BY <2>3 DEF Destroy, content
  <2>4. ASSUME NEW t \in Threads, Link(t) PROVE Lifo
      BY <2>4, <1>3, LinkPutsOnTop
  <2>5. ASSUME NEW t \in Threads, Swing(t) PROVE Lifo
      BY <2>5, <1>3, SwingTakesTop
  <2>6. ASSUME NEW t \in Threads, Push(t) \/ Defer(t) \/ ChainFree(t) PROVE FALSE
    <3>1. PICK n \in Nodes : /\ n \notin Stack /\ \A m \in Nodes : m # n => next'[m] = next[m]
                             /\ head' = head
      <4>1. CASE Push(t)
          BY <4>1, <1>3 DEF Push, Allocatable, StackInv, StackTypeOK, ListsApart
      <4>2. CASE Defer(t) \/ ChainFree(t)
        <5>1. pc[t] \in Owning /\ pc[t] \in {"defer", "chain"}
            BY <4>2 DEF Defer, ChainFree, Owning
        <5>2. node[t] \in Nodes /\ node[t] \notin Stack
            BY <5>1, <1>3 DEF StackInv, StackTypeOK, ThreadInStep, Pointers
        <5>3. (\A m \in Nodes : m # node[t] => next'[m] = next[m]) /\ head' = head
            BY <4>2, <5>2, <1>3 DEF Defer, ChainFree, StackInv, StackTypeOK
        <5> QED BY <5>2, <5>3
      <4> QED BY <2>6, <4>1, <4>2
    <3>2. \A m \in Stack : next'[m] = next[m]
        BY <3>1, <1>3, HeadsListed DEF StackInv
    <3>3. Stack' = Stack
        BY <3>1, <3>2, <1>3, ListSame DEF Stack, StackInv, StackTypeOK
    <3> QED BY <3>1, <3>2, <3>3, <1>3 DEF content, Stack
  <2> QED BY <2>4, <2>1, <2>2, <2>3, <2>5, <2>6
<1>4. StackInv /\ StackInv' /\ [StackNext]_stackVars => [Lifo]_content
    BY <1>3
<1> QED
    BY <1>1, <1>2, <1>4, PTL DEF StackSpec, StackIsLifo

-----------------------------------------------------------------------------
(***************************************************************************)
(* unique_function (type_erasure of function2.hpp).  Every operation is a  *)
(* sequence of vtable calls; each is shown to turn a world in which the    *)
(* functions outside a set own their callables into one in which those     *)
(* outside another do.  A function is in the set while its vtable is stale: *)
(* within an operation, and after one that has thrown.                     *)
(***************************************************************************)
AllFunctions == Functions \cup {Cache}
Homes == AllFunctions \cup {"heap", "new", "gone"}
Tables == {Empty} \cup {TableFor(c) : c \in Callables}
Worlds == [vtable : [AllFunctions -> Tables],
           where : [Callables -> Homes],
           blunders : {{}}]

\* In the world w the functions, but for those in out, own their callables,
\* and nobody else owns one.
Owned(w, out) ==
    /\ w \in Worlds
    /\ \A f \in AllFunctions \ out : Retrieves(w, f)
    /\ \A c \in Callables : w.where[c] \notin {"new", "gone"} =>
           \E f \in AllFunctions \ out : w.vtable[f] = TableFor(c)
    /\ \A f, g \in AllFunctions \ out :
           f # g /\ w.vtable[f] # Empty => w.vtable[f].box # w.vtable[g].box

\* A callable and its vtable.
LEMMA TableIs ==
    ASSUME NEW c \in Callables
    PROVE  /\ TableFor(c).box = c /\ TableFor(c) # Empty /\ TableFor(c).cmd # "empty"
           /\ TableFor(c).cmd \in {"inplace", "allocated"} /\ TableFor(c) \in Tables
           /\ \A d \in Callables : TableFor(d) = TableFor(c) => d = c
    BY FunctionalAssumption DEF TableFor, Empty, Tables

LEMMA TableCases ==
    ASSUME NEW w \in Worlds, NEW f \in AllFunctions
    PROVE  \/ w.vtable[f] = Empty /\ w.vtable[f].cmd = "empty"
           \/ \E c \in Callables : w.vtable[f] = TableFor(c) /\ w.vtable[f].box = c
<1>1. w.vtable[f] \in Tables
    BY DEF Worlds
<1> QED
    BY <1>1, TableIs DEF Tables, Empty

\* A world, part by part.
LEMMA NewTable ==
    ASSUME NEW w \in Worlds, NEW f \in AllFunctions, NEW e \in Tables
    PROVE  /\ [w EXCEPT !.vtable[f] = e] \in Worlds
           /\ [w EXCEPT !.vtable[f] = e].vtable = [w.vtable EXCEPT ![f] = e]
           /\ [w EXCEPT !.vtable[f] = e].where = w.where
    BY DEF Worlds

LEMMA NewPlace ==
    ASSUME NEW w \in Worlds, NEW c \in Callables, NEW a \in Homes
    PROVE  /\ [w EXCEPT !.where[c] = a] \in Worlds
           /\ [w EXCEPT !.where[c] = a].vtable = w.vtable
           /\ [w EXCEPT !.where[c] = a].where = [w.where EXCEPT ![c] = a]
    BY DEF Worlds, Homes

LEMMA NewBoth ==
    ASSUME NEW w \in Worlds, NEW f \in AllFunctions, NEW e, NEW c \in Callables, NEW a
    PROVE  [w EXCEPT !.vtable[f] = e, !.where[c] = a] = [[w EXCEPT !.vtable[f] = e] EXCEPT !.where[c] = a]
    BY DEF Worlds

LEMMA SetEmpty ==
    ASSUME NEW out, NEW w, Owned(w, out), NEW f \in AllFunctions, f \in out
    PROVE  Owned(set_empty(w, f), out \ {f})
<1> DEFINE v == set_empty(w, f)
<1>1. w \in Worlds
    BY DEF Owned
<1>2. /\ v.vtable = [w.vtable EXCEPT ![f] = Empty] /\ v.where = w.where /\ v.blunders = w.blunders
      /\ v \in Worlds
    BY <1>1 DEF Worlds, set_empty, Tables
<1>3. v.vtable[f] = Empty /\ \A g \in AllFunctions : g # f => v.vtable[g] = w.vtable[g]
    BY <1>1, <1>2 DEF Worlds
<1> HIDE DEF v
<1>4. \A g \in AllFunctions \ (out \ {f}) : Retrieves(v, g)
    BY <1>2, <1>3 DEF Owned, Retrieves, Empty
<1>5. \A c \in Callables : v.where[c] \notin {"new", "gone"} =>
           \E g \in AllFunctions \ (out \ {f}) : v.vtable[g] = TableFor(c)
    BY <1>2, <1>3 DEF Owned
<1>6. \A c \in Callables : Empty.box # c
    BY FunctionalAssumption DEF Empty
<1>7. ASSUME NEW g \in AllFunctions \ (out \ {f}), NEW h \in AllFunctions \ (out \ {f}), g # h, v.vtable[g] # Empty
      PROVE  v.vtable[g].box # v.vtable[h].box
  <2>1. g # f /\ g \notin out /\ v.vtable[g] = w.vtable[g]
      BY <1>3, <1>7
  <2>2. CASE h = f
    <3>1. PICK c \in Callables : w.vtable[g].box = c
        BY <2>1, <1>1, <1>7, TableCases
    <3> QED BY <2>1, <2>2, <3>1, <1>3, <1>6
  <2>3. CASE h # f
      BY <2>1, <2>3, <1>3, <1>7 DEF Owned
  <2> QED BY <2>2, <2>3
<1> QED
    BY <1>2, <1>4, <1>5, <1>7 DEF Owned, v

\* An empty function may be left out.
LEMMA LeaveOut ==
    ASSUME NEW out, NEW w, Owned(w, out), NEW f \in AllFunctions, w.vtable[f] = Empty
    PROVE  Owned(w, out \cup {f})
<1>1. \A c \in Callables : TableFor(c) # Empty
    BY TableIs
<1> QED
    BY <1>1 DEF Owned

\* weak_destroy() of a function that owns what it says leaves a stale vtable.
LEMMA WeakDestroy ==
    ASSUME NEW out, NEW w, Owned(w, out), NEW f \in AllFunctions, f \notin out
    PROVE  Owned(weak_destroy(w, f), out \cup {f})
           /\ weak_destroy(w, f).vtable = w.vtable
<1>1. w \in Worlds
    BY DEF Owned
<1>2. CASE w.vtable[f] = Empty
    BY <1>2, LeaveOut DEF weak_destroy, Empty
<1>3. CASE w.vtable[f] # Empty
  <2>1. PICK c \in Callables : w.vtable[f] = TableFor(c) /\ w.vtable[f].box = c
      BY <1>1, <1>3, TableCases
  <2> DEFINE v == weak_destroy(w, f)
  <2>2. v = [w EXCEPT !.where[c] = "gone"]
      BY <2>1, TableIs DEF weak_destroy, Checked, Owned
  <2>3. /\ v.vtable = w.vtable /\ v.where = [w.where EXCEPT ![c] = "gone"] /\ v.blunders = w.blunders
        /\ v \in Worlds
      BY <1>1, <2>2 DEF Worlds, Homes
  <2>4. v.where[c] = "gone" /\ \A d \in Callables : d # c => v.where[d] = w.where[d]
      BY <1>1, <2>3 DEF Worlds
  <2> HIDE DEF v
  <2>5. ASSUME NEW g \in AllFunctions \ (out \cup {f}) PROVE Retrieves(v, g)
    <3>1. Retrieves(w, g) /\ w.vtable[f].box # w.vtable[g].box
        BY <1>3 DEF Owned
    <3>2. CASE w.vtable[g] = Empty
        BY <3>2, <2>3 DEF Retrieves, Empty
    <3>3. CASE w.vtable[g] # Empty
      <4>1. PICK d \in Callables : w.vtable[g].box = d
          BY <3>3, <1>1, TableCases
      <4> QED BY <4>1, <3>1, <2>1, <2>3, <2>4 DEF Retrieves
    <3> QED BY <3>2, <3>3
  <2>6. ASSUME NEW d \in Callables, v.where[d] \notin {"new", "gone"}
        PROVE  \E g \in AllFunctions \ (out \cup {f}) : v.vtable[g] = TableFor(d)
    <3>1. d # c /\ w.where[d] \notin {"new", "gone"}
        BY <2>4, <2>6
    <3>2. PICK g \in AllFunctions \ out : w.vtable[g] = TableFor(d)
        BY <3>1 DEF Owned
    <3>3. g # f
        BY <3>1, <3>2, <2>1, TableIs
    <3> QED BY <3>2, <3>3, <2>3
  <2>7. v.vtable = w.vtable /\ Owned(v, out \cup {f})
      BY <2>3, <2>5, <2>6 DEF Owned
  <2> QED BY <2>7 DEF v
<1> QED
    BY <1>2, <1>3

LEMMA ConstructOwns ==
    ASSUME NEW out, NEW w, Owned(w, out), NEW f \in AllFunctions, f \in out,
           NEW c \in Callables, w.where[c] = "new"
    PROVE  Owned(construct(w, f, c), out \ {f})
<1> DEFINE v == construct(w, f, c)
<1>0. PICK at : at = IF c \in Small THEN f ELSE "heap"
    OBVIOUS
<1>1. w \in Worlds /\ at \in Homes /\ at \notin {"new", "gone"}
    BY <1>0, FunctionalAssumption DEF Owned, AllFunctions, Cache, Homes
<1>2. v = [w EXCEPT !.vtable[f] = TableFor(c), !.where[c] = at]
    BY <1>0 DEF construct
<1>3. /\ v.vtable = [w.vtable EXCEPT ![f] = TableFor(c)] /\ v.where = [w.where EXCEPT ![c] = at]
      /\ v \in Worlds
  <2>1. PICK e \in Tables : e = TableFor(c)
      BY TableIs
  <2>2. PICK u : u = [w EXCEPT !.vtable[f] = e]
      OBVIOUS
  <2>3. u \in Worlds /\ u.vtable = [w.vtable EXCEPT ![f] = e] /\ u.where = w.where
      BY <2>2, <1>1, NewTable
  <2>4. v = [u EXCEPT !.where[c] = at]
      BY <2>1, <2>2, <1>1, <1>2, NewBoth
  <2>5. v \in Worlds /\ v.vtable = u.vtable /\ v.where = [u.where EXCEPT ![c] = at]
      BY <2>3, <2>4, <1>1, NewPlace
  <2> QED BY <2>1, <2>3, <2>5
<1>4. /\ v.vtable[f] = TableFor(c) /\ \A g \in AllFunctions : g # f => v.vtable[g] = w.vtable[g]
      /\ v.where[c] = at /\ \A d \in Callables : d # c => v.where[d] = w.where[d]
    BY <1>1, <1>3 DEF Worlds
<1> HIDE DEF v
<1>5. ASSUME NEW g \in AllFunctions \ out
      PROVE  g # f /\ Retrieves(w, g) /\ w.vtable[g].box # c
  <2>1. Retrieves(w, g) /\ g \in AllFunctions
      BY DEF Owned
  <2>2. w.vtable[g].box # c
    <3>1. CASE w.vtable[g] = Empty
        BY <3>1, FunctionalAssumption DEF Empty
    <3>2. CASE w.vtable[g] # Empty
      <4>1. PICK d \in Callables : w.vtable[g] = TableFor(d) /\ w.vtable[g].box = d
          BY <3>2, <1>1, TableCases
      <4>2. w.where[d] = g \/ w.where[d] = "heap"
          BY <4>1, <2>1, TableIs DEF Retrieves
      <4>3. g # "new"
          BY FunctionalAssumption DEF AllFunctions, Cache
      <4> QED BY <4>1, <4>2, <4>3
    <3> QED BY <3>1, <3>2
  <2> QED BY <2>1, <2>2
<1>6. ASSUME NEW g \in AllFunctions \ (out \ {f}) PROVE Retrieves(v, g)
  <2>1. CASE g = f
      BY <2>1, <1>0, <1>4, TableIs DEF Retrieves, TableFor
  <2>2. CASE g # f
    <3>1. CASE w.vtable[g] = Empty
        BY <2>2, <3>1, <1>4 DEF Retrieves, Empty
    <3>2. CASE w.vtable[g] # Empty
      <4>1. PICK d \in Callables : w.vtable[g] = TableFor(d) /\ w.vtable[g].box = d
          BY <3>2, <1>1, TableCases
      <4>2. Retrieves(w, g) /\ d # c
          BY <2>2, <4>1, <1>5
      <4> QED BY <2>2, <4>1, <4>2, <1>4 DEF Retrieves
    <3> QED BY <3>1, <3>2
  <2> QED BY <2>1, <2>2
<1>7. ASSUME NEW d \in Callables, v.where[d] \notin {"new", "gone"}
      PROVE  \E g \in AllFunctions \ (out \ {f}) : v.vtable[g] = TableFor(d)
  <2>1. CASE d = c
      BY <2>1, <1>4
  <2>2. CASE d # c
    <3>1. PICK g \in AllFunctions \ out : w.vtable[g] = TableFor(d)
        BY <2>2, <1>4, <1>7 DEF Owned
    <3> QED BY <3>1, <1>4
  <2> QED BY <2>1, <2>2
<1>8. ASSUME NEW g \in AllFunctions \ (out \ {f}), NEW h \in AllFunctions \ (out \ {f}), g # h, v.vtable[g] # Empty
      PROVE  v.vtable[g].box # v.vtable[h].box
  <2>1. CASE g # f /\ h # f
      BY <2>1, <1>4, <1>8 DEF Owned
  <2>2. CASE g = f \/ h = f
      BY <2>2, <1>4, <1>5, <1>8, TableIs
  <2> QED BY <2>1, <2>2
<1> QED
    BY <1>3, <1>6, <1>7, <1>8 DEF Owned, v

\* After a move the target owns what the source owned, and the source nothing.
LEMMA MoveOwns ==
    ASSUME NEW w, NEW from \in AllFunctions, NEW to \in AllFunctions, from # to, Owned(w, {to})
    PROVE  /\ Owned(move(w, from, to), {}) /\ move(w, from, to).vtable[from] = Empty
           /\ \A g \in AllFunctions : g # from /\ g # to => move(w, from, to).vtable[g] = w.vtable[g]
<1>1. w \in Worlds
    BY DEF Owned
<1>2. CASE w.vtable[from] = Empty
  <2>1. move(w, from, to) = set_empty(w, to)
      BY <1>2 DEF move, Empty
  <2>2. Owned(set_empty(w, to), {})
    <3>1. Owned(set_empty(w, to), {to} \ {to}) /\ {to} \ {to} = {}
        BY SetEmpty
    <3> QED BY <3>1
  <2>3. \A g \in AllFunctions : g # to => set_empty(w, to).vtable[g] = w.vtable[g]
      BY <1>1 DEF set_empty, Worlds
  <2> QED BY <1>2, <2>1, <2>2, <2>3
<1>3. CASE w.vtable[from] # Empty
  <2>1. PICK c \in Callables : w.vtable[from] = TableFor(c) /\ w.vtable[from].box = c
      BY <1>1, <1>3, TableCases
  <2>2. PICK at : at = IF c \in Small THEN to ELSE w.where[c]
      OBVIOUS
  <2>3. Retrieves(w, from) /\ (c \notin Small => w.where[c] = "heap")
      BY <2>1 DEF Owned, Retrieves, TableFor
  <2> DEFINE v == move(w, from, to)
  <2>4. /\ v.vtable = [w.vtable EXCEPT ![to] = TableFor(c), ![from] = Empty]
        /\ v.where = [w.where EXCEPT ![c] = at] /\ v \in Worlds
    <3>0. PICK e \in Tables : e = TableFor(c)
        BY TableIs
    <3>3. Empty \in Tables
        BY DEF Tables
    <3>4. PICK x \in Worlds : x = [w EXCEPT !.vtable[to] = e]
        BY <1>1, NewTable
    <3>5. x.vtable = [w.vtable EXCEPT ![to] = e] /\ x.where = w.where
        BY <3>4, <1>1, NewTable
    <3>1. CASE c \in Small
      <4>1. w.vtable[from].cmd = "inplace"
          BY <3>1, <2>1 DEF TableFor
      <4>2. v = set_empty(construct(w, to, c), from)
          BY <4>1, <2>1, <2>3 DEF move, Checked
      <4>3. PICK y : y = [x EXCEPT !.where[c] = at]
          OBVIOUS
      <4>4. at = to /\ at \in Homes
          BY <3>1, <2>2 DEF Homes
      <4>5. construct(w, to, c) = y
          BY <4>3, <4>4, <3>0, <3>1, <3>4, <1>1, NewBoth DEF construct
      <4>6. y \in Worlds /\ y.vtable = x.vtable /\ y.where = [x.where EXCEPT ![c] = at]
          BY <4>3, <4>4, NewPlace
      <4>7. v = [y EXCEPT !.vtable[from] = Empty]
          BY <4>2, <4>5 DEF set_empty
      <4>8. v \in Worlds /\ v.vtable = [y.vtable EXCEPT ![from] = Empty] /\ v.where = y.where
          BY <4>6, <4>7, <3>3, NewTable
      <4> QED BY <4>6, <4>8, <3>0, <3>5
    <3>2. CASE c \notin Small
      <4>1. w.vtable[from].cmd = "allocated"
          BY <3>2, <2>1 DEF TableFor
      <4>2. v = set_empty([w EXCEPT !.vtable[to] = TableFor(c)], from)
          BY <4>1, <2>1 DEF move
      <4>3. w.where = [w.where EXCEPT ![c] = at]
          BY <3>2, <2>2, <1>1 DEF Worlds
      <4>4. v = [x EXCEPT !.vtable[from] = Empty]
          BY <4>2, <3>0, <3>4 DEF set_empty
      <4>5. v \in Worlds /\ v.vtable = [x.vtable EXCEPT ![from] = Empty] /\ v.where = x.where
          BY <4>4, <3>3, NewTable
      <4> QED BY <4>3, <4>5, <3>0, <3>5
    <3> QED BY <3>1, <3>2
  <2>5. /\ v.vtable[to] = TableFor(c) /\ v.vtable[from] = Empty
        /\ \A g \in AllFunctions : g # to /\ g # from => v.vtable[g] = w.vtable[g]
        /\ v.where[c] = at /\ \A d \in Callables : d # c => v.where[d] = w.where[d]
      BY <1>1, <2>4 DEF Worlds
  <2> HIDE DEF v
  <2>6. ASSUME NEW g \in AllFunctions PROVE Retrieves(v, g)
    <3>1. CASE g = from
        BY <3>1, <2>5 DEF Retrieves, Empty
    <3>2. CASE g = to
        BY <3>2, <2>2, <2>3, <2>5, TableIs DEF Retrieves, TableFor
    <3>3. CASE g # from /\ g # to
      <4>1. CASE w.vtable[g] = Empty
          BY <3>3, <4>1, <2>5 DEF Retrieves, Empty
      <4>2. CASE w.vtable[g] # Empty
        <5>1. PICK d \in Callables : w.vtable[g] = TableFor(d) /\ w.vtable[g].box = d
            BY <4>2, <1>1, TableCases
        <5>2. Retrieves(w, g) /\ d # c
            BY <3>3, <5>1, <2>1, <1>3 DEF Owned
        <5> QED BY <3>3, <5>1, <5>2, <2>5 DEF Retrieves
      <4> QED BY <4>1, <4>2
    <3> QED BY <3>1, <3>2, <3>3
  <2>7. ASSUME NEW d \in Callables, v.where[d] \notin {"new", "gone"}
        PROVE  \E g \in AllFunctions : v.vtable[g] = TableFor(d)
    <3>1. CASE d = c
        BY <3>1, <2>5
    <3>2. CASE d # c
      <4>1. PICK g \in AllFunctions \ {to} : w.vtable[g] = TableFor(d)
          BY <3>2, <2>5, <2>7 DEF Owned
      <4>2. g # from
          BY <4>1, <3>2, <2>1, TableIs
      <4> QED BY <4>1, <4>2, <2>5
    <3> QED BY <3>1, <3>2
  <2>8. ASSUME NEW g \in AllFunctions, NEW h \in AllFunctions, g # h, v.vtable[g] # Empty
        PROVE  v.vtable[g].box # v.vtable[h].box
    <3>1. \A x \in AllFunctions : x # from /\ x # to => w.vtable[x].box # c
        BY <1>3, <2>1 DEF Owned
    <3>2. Empty.box # c /\ TableFor(c).box = c
        BY FunctionalAssumption, TableIs DEF Empty
    <3>3. g # from
        BY <2>5, <2>8
    <3>4. CASE h = from
      <4>1. PICK d \in Callables : v.vtable[g].box = d
        <5>1. v \in Worlds
            BY <2>4
        <5> QED BY <5>1, <2>8, TableCases
      <4> QED BY <4>1, <3>4, <2>5, FunctionalAssumption DEF Empty
    <3>5. CASE h # from /\ (g = to \/ h = to)
        BY <3>1, <3>2, <3>3, <3>5, <2>5, <2>8
    <3>6. CASE h # from /\ g # to /\ h # to
        BY <3>3, <3>6, <2>5, <2>8 DEF Owned
    <3> QED BY <3>4, <3>5, <3>6
  <2>9. Owned(v, {})
      BY <2>4, <2>6, <2>7, <2>8 DEF Owned
  <2> QED BY <2>5, <2>9 DEF v
<1> QED
    BY <1>2, <1>3

\* What is left out does not matter.
LEMMA Stale ==
    ASSUME NEW out, NEW w, Owned(w, out), NEW f \in AllFunctions, f \in out, NEW e \in Tables
    PROVE  /\ Owned([w EXCEPT !.vtable[f] = e], out)
           /\ \A g \in AllFunctions : g # f => [w EXCEPT !.vtable[f] = e].vtable[g] = w.vtable[g]
<1>1. w \in Worlds
    BY DEF Owned
<1>2. PICK v : v = [w EXCEPT !.vtable[f] = e]
    OBVIOUS
<1>3. v \in Worlds /\ v.vtable = [w.vtable EXCEPT ![f] = e] /\ v.where = w.where
    BY <1>1, <1>2, NewTable
<1>4. \A g \in AllFunctions : g # f => v.vtable[g] = w.vtable[g]
    BY <1>1, <1>3 DEF Worlds
<1>5. \A g \in AllFunctions \ out : v.vtable[g] = w.vtable[g]
    BY <1>4
<1>6. Owned(v, out)
    BY <1>3, <1>5 DEF Owned, Retrieves
<1> QED
    BY <1>2, <1>4, <1>6

LEMMA DestroyFunction ==
    ASSUME NEW out, NEW w, Owned(w, out), NEW f \in AllFunctions, f \notin out
    PROVE  /\ Owned(destroy(w, f), out) /\ destroy(w, f).vtable[f] = Empty
           /\ \A g \in AllFunctions : g # f => destroy(w, f).vtable[g] = w.vtable[g]
<1>1. PICK v : v = weak_destroy(w, f)
    OBVIOUS
<1>2. Owned(v, out \cup {f}) /\ v.vtable = w.vtable
    BY <1>1, WeakDestroy
<1>3. Owned(set_empty(v, f), (out \cup {f}) \ {f}) /\ (out \cup {f}) \ {f} = out
    BY <1>2, SetEmpty
<1>4. v \in Worlds /\ Empty \in Tables
    BY <1>2 DEF Owned, Tables
<1>5. set_empty(v, f).vtable = [v.vtable EXCEPT ![f] = Empty]
    BY <1>4, NewTable DEF set_empty
<1>6. set_empty(v, f).vtable[f] = Empty /\ \A g \in AllFunctions : g # f => set_empty(v, f).vtable[g] = v.vtable[g]
    BY <1>4, <1>5 DEF Worlds
<1> QED
    BY <1>1, <1>2, <1>3, <1>6 DEF destroy

\* The functions own their callables, and the local variable of swap() is gone.
FunctionsInv ==
    failed \in SUBSET Functions /\ Owned(World, failed) /\ vtable[Cache] = Empty

LEMMA BecomesOwned ==
    ASSUME NEW w, NEW out \in SUBSET Functions, Owned(w, out), w.vtable[Cache] = Empty,
           TurnsInto(w), failed' = out
    PROVE  FunctionsInv'
<1>1. World' = w
    BY DEF Owned, Worlds, TurnsInto, World
<1> QED
    BY <1>1 DEF FunctionsInv, TurnsInto

LEMMA FunctionStep ==
    ASSUME FunctionsInv, UniqueFunctionNext
    PROVE  FunctionsInv'
<1>1. failed = {} /\ Owned(World, {}) /\ World.vtable = vtable /\ World.where = where /\ World.vtable[Cache] = Empty
    BY DEF FunctionsInv, UniqueFunctionNext, World
<1>2. /\ Cache \in AllFunctions /\ \A f \in Functions : f \in AllFunctions /\ f # Cache
      /\ {} \in SUBSET Functions /\ \A f \in Functions : {f} \in SUBSET Functions
    BY FunctionalAssumption DEF AllFunctions
<1>3. ASSUME NEW f \in Functions PROVE
         /\ Owned(weak_destroy(World, f), {f}) /\ weak_destroy(World, f).vtable = vtable
         /\ Owned(set_empty(weak_destroy(World, f), f), {})
         /\ set_empty(weak_destroy(World, f), f).vtable[Cache] = Empty
  <2>1. Owned(weak_destroy(World, f), {} \cup {f}) /\ {} \cup {f} = {f} /\ weak_destroy(World, f).vtable = vtable
      BY <1>1, <1>2, WeakDestroy
  <2>2. Owned(destroy(World, f), {}) /\ destroy(World, f).vtable[Cache] = Empty
      BY <1>1, <1>2, DestroyFunction
  <2> QED BY <2>1, <2>2 DEF destroy
<1>4. ASSUME NEW f \in Functions, ClearFunction(f) PROVE FunctionsInv'
  <2>1. TurnsInto(destroy(World, f)) /\ failed' = {}
      BY <1>1, <1>4 DEF ClearFunction, Succeeds
  <2>2. Owned(destroy(World, f), {}) /\ destroy(World, f).vtable[Cache] = Empty
      BY <1>3 DEF destroy
  <2> QED BY <1>2, <2>1, <2>2, BecomesOwned
<1>5. ASSUME NEW f \in Functions, Invoke(f) PROVE FunctionsInv'
  <2>1. Checked(World, f, "called when dead") = World
      BY <1>1, <1>2 DEF Checked, Owned
  <2>2. TurnsInto(World) /\ failed' = {}
      BY <1>1, <1>5, <2>1 DEF Invoke, Succeeds
  <2> QED BY <1>1, <1>2, <2>2, BecomesOwned
<1>6. ASSUME NEW f \in Functions, NEW c \in Callables, AssignCallable(f, c) \/ ConstructFromCallable(f, c)
      PROVE  FunctionsInv'
  <2>1. PICK w : w = weak_destroy(World, f)
      OBVIOUS
  <2>2. Owned(w, {f}) /\ w.vtable = vtable /\ where[c] = "new" /\ w \in Worlds
      BY <2>1, <1>3, <1>6 DEF AssignCallable, ConstructFromCallable, Owned
  <2>3. w.where[c] = "new"
    <3>1. CASE vtable[f].cmd = "empty"
        BY <3>1, <2>1, <2>2, <1>1 DEF weak_destroy
    <3>2. CASE vtable[f].cmd # "empty"
      <4>1. World \in Worlds /\ Retrieves(World, f)
          BY <1>1, <1>2 DEF Owned
      <4>2. PICK d \in Callables : vtable[f] = TableFor(d) /\ vtable[f].box = d
          BY <3>2, <4>1, <1>1, <1>2, TableCases
      <4>3. where[d] = f \/ where[d] = "heap"
          BY <4>1, <4>2, <1>1, TableIs DEF Retrieves
      <4>4. d # c
          BY <4>3, <2>2, FunctionalAssumption
      <4>5. w = [World EXCEPT !.where[d] = "gone"]
          BY <3>2, <4>1, <4>2, <2>1, <1>1 DEF weak_destroy, Checked
      <4>6. "gone" \in Homes
          BY DEF Homes
      <4>7. w.where = [where EXCEPT ![d] = "gone"]
          BY <4>1, <4>5, <4>6, <1>1, NewPlace
      <4> QED BY <4>1, <4>4, <4>7, <2>2, <1>1 DEF Worlds
    <3> QED BY <3>1, <3>2
  <2>4. CASE TurnsInto(construct(w, f, c)) /\ failed' = {}
    <3>1. Owned(construct(w, f, c), {f} \ {f}) /\ {f} \ {f} = {}
        BY <2>2, <2>3, <1>2, ConstructOwns
    <3>2. construct(w, f, c).vtable[Cache] = Empty
        BY <2>2, <1>1, <1>2 DEF construct, Worlds
    <3> QED BY <3>1, <3>2, <2>4, <1>2, BecomesOwned
  <2>5. CASE TurnsInto(set_empty(w, f)) /\ failed' = {}
      BY <2>1, <2>5, <1>2, <1>3, BecomesOwned
  <2>6. ASSUME NEW v \in construct_throws(w, f, c), TurnsInto(v), failed' = {f} PROVE FunctionsInv'
    <3>1. CASE v = w
        BY <3>1, <2>2, <2>6, <1>1, <1>2, BecomesOwned
    <3>2. CASE v = [w EXCEPT !.vtable[f] = TableFor(c)]
      <4>1. PICK e \in Tables : e = TableFor(c)
          BY TableIs
      <4>2. Owned(v, {f}) /\ v.vtable[Cache] = Empty
          BY <3>2, <4>1, <2>2, <1>1, <1>2, Stale
      <4> QED BY <4>2, <2>6, <1>2, BecomesOwned
    <3> QED BY <3>1, <3>2, <2>6 DEF construct_throws
  <2> QED BY <2>1, <2>4, <2>5, <2>6, <1>1, <1>6 DEF AssignCallable, ConstructFromCallable, Succeeds, FailsIn
<1>7. ASSUME NEW to \in Functions, NEW from \in Functions,
             MoveAssignFunction(to, from) \/ MoveConstructFunction(to, from)
      PROVE  FunctionsInv'
  <2>1. PICK w : w = weak_destroy(World, to)
      OBVIOUS
  <2>2. Owned(w, {to}) /\ w.vtable = vtable /\ from # to /\ w \in Worlds
      BY <2>1, <1>3, <1>7 DEF MoveAssignFunction, MoveConstructFunction, Owned
  <2>3. CASE TurnsInto(move(w, from, to)) /\ failed' = {}
    <3>1. Owned(move(w, from, to), {}) /\ move(w, from, to).vtable[Cache] = Empty
      <4>1. from \in AllFunctions /\ to \in AllFunctions /\ from # to /\ Cache # from /\ Cache # to
          BY <2>2, <1>2
      <4>2. /\ Owned(move(w, from, to), {})
            /\ \A g \in AllFunctions : g # from /\ g # to => move(w, from, to).vtable[g] = w.vtable[g]
          BY <4>1, <2>2, MoveOwns
      <4> QED BY <4>1, <4>2, <2>2, <1>1, <1>2
    <3> QED BY <3>1, <2>3, <1>2, BecomesOwned
  <2>4. CASE TurnsInto(set_empty(w, to)) /\ failed' = {}
      BY <2>1, <2>4, <1>2, <1>3, BecomesOwned
  <2>5. ASSUME NEW v \in move_throws(w, from, to), TurnsInto(v), failed' = {to} PROVE FunctionsInv'
    <3>1. v = [w EXCEPT !.vtable[to] = TableFor(w.vtable[from].box)] /\ w.vtable[from].cmd = "inplace"
        BY <2>5 DEF move_throws
    <3>2. PICK c \in Callables : w.vtable[from].box = c
        BY <3>1, <2>2, <1>2, TableCases
    <3>3. PICK e \in Tables : e = TableFor(c)
        BY TableIs
    <3>4. Owned(v, {to}) /\ v.vtable[Cache] = Empty
        BY <3>1, <3>2, <3>3, <2>2, <1>1, <1>2, Stale
    <3> QED BY <3>4, <2>5, <1>2, BecomesOwned
  <2> QED BY <2>1, <2>3, <2>4, <2>5, <1>1, <1>7 DEF MoveAssignFunction, MoveConstructFunction, Succeeds, FailsIn
<1>8. ASSUME NEW f \in Functions, NEW g \in Functions, SwapFunctions(f, g) PROVE FunctionsInv'
  <2>1. f # g /\ f \in AllFunctions /\ g \in AllFunctions /\ Cache \in AllFunctions /\ f # Cache /\ g # Cache
      BY <1>2, <1>8 DEF SwapFunctions
  <2>2. PICK first : first = move(World, g, Cache)
      OBVIOUS
  <2>3. Owned(first, {}) /\ first.vtable[g] = Empty
    <3>1. Owned(World, {} \cup {Cache}) /\ {} \cup {Cache} = {Cache}
        BY <1>1, <2>1, LeaveOut
    <3> QED BY <3>1, <2>1, <2>2, MoveOwns
  <2>4. weak_destroy(first, g) = first /\ Owned(first, {g})
    <3>1. Owned(first, {} \cup {g}) /\ {} \cup {g} = {g}
        BY <2>1, <2>3, LeaveOut
    <3> QED BY <3>1, <2>3 DEF weak_destroy, Empty
  <2>5. PICK second : second = move(first, f, g)
      OBVIOUS
  <2>6. Owned(second, {}) /\ second.vtable[f] = Empty
      BY <2>1, <2>4, <2>5, MoveOwns
  <2>7. weak_destroy(second, f) = second /\ Owned(second, {f})
    <3>1. Owned(second, {} \cup {f}) /\ {} \cup {f} = {f}
        BY <2>1, <2>6, LeaveOut
    <3> QED BY <3>1, <2>6 DEF weak_destroy, Empty
  <2>8. PICK third : third = move(second, Cache, f)
      OBVIOUS
  <2>9. Owned(third, {})
      BY <2>1, <2>7, <2>8, MoveOwns
  <2>10. CASE TurnsInto(destroy(third, Cache)) /\ failed' = {}
    <3>1. Owned(destroy(third, Cache), {}) /\ destroy(third, Cache).vtable[Cache] = Empty
        BY <2>1, <2>9, DestroyFunction
    <3> QED BY <3>1, <2>10, <1>2, BecomesOwned
  <2>11. ASSUME NEW v, NEW w \in AllFunctions, NEW x \in Functions, Owned(v, {x}),
                NEW u \in move_throws(v, w, x), TurnsInto(destroy(u, Cache)), failed' = {x}
         PROVE  FunctionsInv'
    <3>1. u = [v EXCEPT !.vtable[x] = TableFor(v.vtable[w].box)] /\ v.vtable[w].cmd = "inplace"
        BY <2>11 DEF move_throws
    <3>2. PICK c \in Callables : v.vtable[w].box = c
        BY <3>1, <2>11, TableCases DEF Owned
    <3>3. PICK e \in Tables : e = TableFor(c)
        BY TableIs
    <3>4. Owned(u, {x}) /\ Cache \notin {x}
        BY <3>1, <3>2, <3>3, <2>11, <1>2, Stale
    <3>5. Owned(destroy(u, Cache), {x}) /\ destroy(u, Cache).vtable[Cache] = Empty
        BY <3>4, <2>1, DestroyFunction
    <3> QED BY <3>5, <2>11, <1>2, BecomesOwned
  <2>12. \/ TurnsInto(destroy(third, Cache)) /\ failed' = {}
         \/ (\E u \in move_throws(first, f, g) : TurnsInto(destroy(u, Cache))) /\ failed' = {g}
         \/ (\E u \in move_throws(second, Cache, f) : TurnsInto(destroy(u, Cache))) /\ failed' = {f}
      BY <2>2, <2>4, <2>5, <2>7, <2>8, <1>1, <1>8 DEF SwapFunctions, Succeeds, FailsIn
  <2>13. CASE (\E u \in move_throws(first, f, g) : TurnsInto(destroy(u, Cache))) /\ failed' = {g}
      BY <2>1, <2>4, <2>11, <2>13
  <2>14. CASE (\E u \in move_throws(second, Cache, f) : TurnsInto(destroy(u, Cache))) /\ failed' = {f}
      BY <2>1, <2>7, <2>11, <2>14
  <2> QED BY <2>10, <2>12, <2>13, <2>14
<1> QED
    BY <1>4, <1>5, <1>6, <1>7, <1>8 DEF UniqueFunctionNext

\* For any functions and callables, small ones and large ones, and whatever
\* throws: until an operation has thrown every callable that was taken over is
\* owned by one function that knows where it is; no callable is destroyed twice,
\* moved or called when it is dead (vtable::move, erasure::assign, swap).
THEOREM FunctionsKeepCallables == UniqueFunctionSpec => []FunctionsOwnCallables
<1>1. UniqueFunctionInit => FunctionsInv
  <2> SUFFICES ASSUME UniqueFunctionInit PROVE FunctionsInv
      OBVIOUS
  <2>1. World \in Worlds
      BY DEF UniqueFunctionInit, World, Worlds, AllFunctions, Tables, Homes
  <2> QED BY <2>1 DEF FunctionsInv, UniqueFunctionInit, Owned, World, Retrieves, AllFunctions, Empty
<1>2. FunctionsInv /\ [UniqueFunctionNext]_functionVars => FunctionsInv'
  <2>1. CASE UNCHANGED functionVars
      BY <2>1 DEF functionVars, FunctionsInv, World
  <2> QED BY <2>1, FunctionStep
<1>3. FunctionsInv => FunctionsOwnCallables
  <2> SUFFICES ASSUME FunctionsInv PROVE FunctionsOwnCallables
      OBVIOUS
  <2>1. World \in Worlds /\ World.vtable = vtable /\ World.where = where /\ World.blunders = blunders
      BY DEF FunctionsInv, Owned, World
  <2>2. DOMAIN vtable = AllFunctions /\ blunders = {}
      BY <2>1 DEF Worlds
  <2> QED BY <2>1, <2>2 DEF FunctionsInv, Owned, FunctionsOwnCallables
<1> QED
    BY <1>1, <1>2, <1>3, PTL DEF UniqueFunctionSpec

-----------------------------------------------------------------------------
(***************************************************************************)
(* dynamic_array.  The block is filled to size(): what Fill, DestroyRange  *)
(* and FreeBlock do to a block is said cell by cell, and every operation,  *)
(* failed ones too, is shown to free a block filled as far as it destroys. *)
(***************************************************************************)
CellValues == Elements \cup {Raw, Moved}

ArrayTypeOK ==
    /\ cells \in Seq(CellValues) /\ count \in 0 .. Len(cells) /\ expected \in Seq(Elements)
    /\ alive \in BOOLEAN /\ scrambled \in BOOLEAN /\ refused \in BOOLEAN
    /\ rawDestroyed \in BOOLEAN /\ leaked \in BOOLEAN

\* The first n cells of the block hold elements, the others do not.
FilledTo(block, n) == \A i \in 1 .. Len(block) : block[i] = Raw <=> i > n

\* The elements are where they are meant to be.
InOrder == Len(expected) = count /\ \A i \in 1 .. count : cells[i] = expected[i]

ArrayInv ==
    /\ ArrayTypeOK /\ FilledTo(cells, count) /\ (~scrambled => InOrder)
    /\ ~leaked /\ (rawDestroyed => refused)

LEMMA SeqOfFunction ==
    ASSUME NEW S, NEW n \in Nat, NEW f \in [1 .. n -> S]
    PROVE  f \in Seq(S) /\ Len(f) = n
<1>1. f \in Seq(S)
    BY SeqDef
<1>2. 1 .. n = 1 .. Len(f) /\ Len(f) \in Nat
    BY <1>1, LenProperties
<1> QED
    BY <1>1, <1>2

LEMMA BlockIsRaw ==
    ASSUME NEW n \in Nat
    PROVE  Block(n) \in Seq(CellValues) /\ Len(Block(n)) = n /\ \A i \in 1 .. n : Block(n)[i] = Raw
<1>1. Block(n) \in [1 .. n -> CellValues]
    BY DEF Block, CellValues
<1> QED
    BY <1>1, SeqOfFunction DEF Block

LEMMA FillIs ==
    ASSUME NEW block \in Seq(CellValues), NEW k \in Nat, NEW els \in Seq(CellValues)
    PROVE  /\ Fill(block, k, els) \in Seq(CellValues) /\ Len(Fill(block, k, els)) = Len(block)
           /\ \A i \in 1 .. Len(block) : Fill(block, k, els)[i] =
                  IF i - k + 1 \in 1 .. Len(els) THEN els[i - k + 1] ELSE block[i]
<1>1. DOMAIN block = 1 .. Len(block) /\ DOMAIN els = 1 .. Len(els) /\ Len(block) \in Nat
    BY LenProperties
<1>2. (\A i \in 1 .. Len(block) : block[i] \in CellValues) /\ \A i \in 1 .. Len(els) : els[i] \in CellValues
    BY ElementOfSeq
<1>3. Fill(block, k, els) \in [1 .. Len(block) -> CellValues]
    BY <1>1, <1>2 DEF Fill
<1>4. Fill(block, k, els) \in Seq(CellValues) /\ Len(Fill(block, k, els)) = Len(block)
    BY <1>1, <1>3, SeqOfFunction
<1> QED
    BY <1>1, <1>4 DEF Fill

LEMMA DestroyedIs ==
    ASSUME NEW block \in Seq(CellValues), NEW places
    PROVE  /\ DestroyRange(block, places) \in Seq(CellValues) /\ Len(DestroyRange(block, places)) = Len(block)
           /\ \A i \in 1 .. Len(block) : DestroyRange(block, places)[i] = IF i \in places THEN Raw ELSE block[i]
<1>1. DOMAIN block = 1 .. Len(block) /\ Len(block) \in Nat
    BY LenProperties
<1>2. \A i \in 1 .. Len(block) : block[i] \in CellValues
    BY ElementOfSeq
<1>3. Raw \in CellValues
    BY DEF CellValues
<1>4. DestroyRange(block, places) \in [1 .. Len(block) -> CellValues]
    BY <1>1, <1>2, <1>3 DEF DestroyRange
<1>5. DestroyRange(block, places) \in Seq(CellValues) /\ Len(DestroyRange(block, places)) = Len(block)
    BY <1>1, <1>4, SeqOfFunction
<1> QED
    BY <1>1, <1>5 DEF DestroyRange

LEMMA FirstOf ==
    ASSUME NEW S, NEW q \in Seq(S), NEW n \in 0 .. Len(q)
    PROVE  /\ SubSeq(q, 1, n) \in Seq(S) /\ Len(SubSeq(q, 1, n)) = n
           /\ \A i \in 1 .. n : SubSeq(q, 1, n)[i] = q[i]
<1>1. Len(q) \in Nat /\ n \in Int /\ 1 \in Int /\ n \in Nat
    BY LenProperties
<1>2. \A i \in 1 .. n : q[i] \in S
    BY <1>1, ElementOfSeq
<1>3. /\ SubSeq(q, 1, n) \in Seq(S) /\ Len(SubSeq(q, 1, n)) = IF 1 <= n THEN n - 1 + 1 ELSE 0
      /\ \A i \in 1 .. n - 1 + 1 : SubSeq(q, 1, n)[i] = q[1 + i - 1]
    BY <1>1, <1>2, SubSeqProperties
<1> QED
    BY <1>1, <1>3

\* A block that holds elements up to n, and is destroyed up to n, is freed well.
LEMMA FreeWell ==
    ASSUME NEW block \in Seq(CellValues), NEW n \in Nat, n <= Len(block), FilledTo(block, n),
           FreeBlock(block, 1 .. n), rawDestroyed \in BOOLEAN, leaked \in BOOLEAN
    PROVE  rawDestroyed' = rawDestroyed /\ leaked' = leaked
<1>1. DOMAIN block = 1 .. Len(block) /\ Len(block) \in Nat
    BY LenProperties
<1>2. ~ \E i \in 1 .. n : block[i] = Raw
    BY <1>1 DEF FilledTo
<1>3. ~ \E i \in DOMAIN block \ 1 .. n : block[i] # Raw
    BY <1>1 DEF FilledTo
<1>4. rawDestroyed' = (rawDestroyed \/ FALSE)
    BY <1>2 DEF FreeBlock
<1>5. leaked' = (leaked \/ FALSE)
    BY <1>3 DEF FreeBlock
<1> QED
    BY <1>4, <1>5

\* Elements in their places are never raw.
LEMMA NotRaw == Raw \in CellValues /\ Moved \in CellValues /\ Moved # Raw /\ \A e \in Elements : e # Raw /\ e \in CellValues
    BY ArrayAssumption DEF CellValues, Raw, Moved

LEMMA Widened == ASSUME NEW s \in Seq(Elements) PROVE s \in Seq(CellValues) /\ FilledTo(s, Len(s))
<1>1. Elements \subseteq CellValues
    BY NotRaw
<1>2. s \in Seq(CellValues)
    BY <1>1, SeqMonotonic
<1>3. \A i \in 1 .. Len(s) : s[i] \in Elements
    BY ElementOfSeq
<1> QED
    BY <1>2, <1>3, NotRaw DEF FilledTo

LEMMA OthersAreSeqs == ASSUME NEW s \in Others PROVE s \in Seq(Elements)
<1>1. PICK n \in 0 .. MaxCells - 1 : s \in [1 .. n -> Elements]
    BY DEF Others
<1>2. n \in Nat
    BY <1>1, ArrayAssumption
<1> QED
    BY <1>1, <1>2, SeqOfFunction

\* A step that leaves well-filled cells and the flags of freed blocks alone.
LEMMA CellsSettled ==
    ASSUME ArrayInv, cells' \in Seq(CellValues), count' \in 0 .. Len(cells'), FilledTo(cells, count)',
           expected' \in Seq(Elements), alive' \in BOOLEAN, scrambled' \in BOOLEAN, ~scrambled' => InOrder',
           rawDestroyed' = rawDestroyed, leaked' = leaked, refused' = refused
    PROVE  ArrayInv'
<1>1. ArrayTypeOK'
    BY DEF ArrayInv, ArrayTypeOK
<1> QED
    BY <1>1 DEF ArrayInv

LEMMA ArrayFacts ==
    ASSUME ArrayInv
    PROVE  /\ cells \in Seq(CellValues) /\ expected \in Seq(Elements) /\ Len(cells) \in Nat
           /\ count \in Nat /\ count <= Len(cells) /\ count \in 0 .. Len(cells)
           /\ rawDestroyed \in BOOLEAN /\ leaked \in BOOLEAN /\ scrambled \in BOOLEAN /\ refused \in BOOLEAN
           /\ alive \in BOOLEAN /\ leaked = FALSE
<1>1. cells \in Seq(CellValues) /\ expected \in Seq(Elements) /\ count \in 0 .. Len(cells)
    BY DEF ArrayInv, ArrayTypeOK
<1>2. Len(cells) \in Nat
    BY <1>1, LenProperties
<1>3. count \in Nat /\ count <= Len(cells)
    BY <1>1, <1>2
<1>4. /\ rawDestroyed \in BOOLEAN /\ leaked \in BOOLEAN /\ scrambled \in BOOLEAN /\ refused \in BOOLEAN
      /\ alive \in BOOLEAN
    BY DEF ArrayInv, ArrayTypeOK
<1>5. leaked = FALSE
    BY <1>4 DEF ArrayInv
<1> QED
    BY <1>1, <1>2, <1>3, <1>4, <1>5

LEMMA MakeAndDestroyArray ==
    ASSUME ArrayInv, DestroyArray \/ Clear \/ \E s \in Others : Construct(s)
    PROVE  ArrayInv'
<1>1. CASE DestroyArray
  <2>1. /\ FreeBlock(cells, 1 .. count) /\ cells' = <<>> /\ count' = 0 /\ expected' = <<>>
        /\ alive' = FALSE /\ scrambled' = FALSE /\ refused' = refused
      BY <1>1 DEF DestroyArray, Holds
  <2>2. rawDestroyed' = rawDestroyed /\ leaked' = leaked
    <3>1. FilledTo(cells, count)
        BY DEF ArrayInv
    <3> QED BY <2>1, <3>1, ArrayFacts, FreeWell
  <2>3. <<>> \in Seq(CellValues) /\ <<>> \in Seq(Elements) /\ Len(<<>>) = 0
      BY EmptySeq
  <2>4. FilledTo(cells, count)' /\ InOrder' /\ count' \in 0 .. Len(cells')
      BY <2>1, <2>3 DEF FilledTo, InOrder
  <2> QED BY <2>4, <2>1, <2>2, <2>3, CellsSettled
<1>2. CASE Clear
  <2>1. /\ cells' = DestroyRange(cells, 1 .. count) /\ count' = 0 /\ expected' = <<>>
        /\ alive' = alive /\ scrambled' = FALSE /\ UNCHANGED <<refused, rawDestroyed, leaked>>
      BY <1>2 DEF Clear, Holds
  <2>2. /\ cells' \in Seq(CellValues) /\ Len(cells') = Len(cells)
        /\ \A i \in 1 .. Len(cells) : cells'[i] = IF i \in 1 .. count THEN Raw ELSE cells[i]
      BY <2>1, ArrayFacts, DestroyedIs
  <2>3. \A i \in 1 .. Len(cells) : cells'[i] = Raw
    <3>1. count \in Nat /\ Len(cells) \in Nat /\ \A i \in 1 .. Len(cells) : cells[i] = Raw <=> i > count
        BY ArrayFacts DEF ArrayInv, FilledTo
    <3>2. \A i \in 1 .. Len(cells) : i \in 1 .. count \/ i > count
        BY <3>1
    <3> QED BY <2>2, <3>1, <3>2
  <2>4. <<>> \in Seq(Elements) /\ Len(<<>>) = 0
      BY EmptySeq
  <2>5. FilledTo(cells, count)' /\ InOrder' /\ count' \in 0 .. Len(cells')
      BY <2>4, <2>1, <2>2, <2>3, ArrayFacts DEF FilledTo, InOrder
  <2> QED BY <2>1, <2>2, <2>4, <2>5, ArrayFacts, CellsSettled
<1>3. ASSUME NEW s \in Others, Construct(s) PROVE ArrayInv'
  <2>1. /\ cells' = s /\ count' = Len(s) /\ expected' = s /\ alive' = TRUE
        /\ UNCHANGED <<scrambled, refused, rawDestroyed, leaked>>
      BY <1>3 DEF Construct, Holds, flags
  <2>2. s \in Seq(Elements) /\ Len(s) \in Nat
      BY OthersAreSeqs, LenProperties
  <2>3. FilledTo(cells, count)' /\ InOrder' /\ cells' \in Seq(CellValues) /\ count' \in 0 .. Len(cells')
      BY <2>1, <2>2, Widened DEF InOrder
  <2> QED BY <2>1, <2>2, <2>3, ArrayFacts, CellsSettled
<1> QED
    BY <1>1, <1>2, <1>3

LEMMA PushKeepsArray ==
    ASSUME ArrayInv, NEW e \in Elements, PushInPlace(e)
    PROVE  ArrayInv'
<1>1. /\ count < Len(cells) /\ cells' = [cells EXCEPT ![count + 1] = e] /\ count' = count + 1
      /\ expected' = Append(expected, e) /\ UNCHANGED <<alive, scrambled, refused, rawDestroyed, leaked>>
    BY DEF PushInPlace, Holds, flags
<1>2. PICK k \in 1 .. Len(cells) : k = count + 1
    BY <1>1, ArrayFacts
<1>3. /\ cells' \in Seq(CellValues) /\ Len(cells') = Len(cells)
      /\ \A i \in 1 .. Len(cells) : cells'[i] = IF i = k THEN e ELSE cells[i]
    BY <1>1, <1>2, ArrayFacts, NotRaw, ExceptSeq
<1>4. FilledTo(cells, count)' /\ count' \in 0 .. Len(cells')
  <2>1. count \in Nat /\ Len(cells) \in Nat /\ \A i \in 1 .. Len(cells) : cells[i] = Raw <=> i > count
      BY ArrayFacts DEF ArrayInv, FilledTo
  <2>2. ASSUME NEW i \in 1 .. Len(cells) PROVE cells'[i] = Raw <=> i > count + 1
    <3>1. CASE i = k
        BY <3>1, <2>1, <1>2, <1>3, NotRaw
    <3>2. CASE i # k
        BY <3>2, <2>1, <1>2, <1>3
    <3> QED BY <3>1, <3>2
  <2>3. count' \in 0 .. Len(cells')
      BY <2>1, <1>1, <1>3
  <2> QED BY <2>2, <2>3, <1>1, <1>3 DEF FilledTo
<1>5. /\ expected' \in Seq(Elements) /\ Len(expected') = Len(expected) + 1 /\ Len(expected) \in Nat
      /\ (\A i \in 1 .. Len(expected) : expected'[i] = expected[i]) /\ expected'[Len(expected) + 1] = e
    BY <1>1, ArrayFacts
<1>6. ~scrambled' => InOrder'
  <2> SUFFICES ASSUME ~scrambled PROVE InOrder'
      BY <1>1
  <2>1. Len(expected) = count /\ \A i \in 1 .. count : cells[i] = expected[i]
      BY DEF ArrayInv, InOrder
  <2>2. ASSUME NEW i \in 1 .. count + 1 PROVE cells'[i] = expected'[i]
    <3>1. CASE i = k
        BY <3>1, <2>1, <1>2, <1>3, <1>5
    <3>2. CASE i # k
        BY <3>2, <2>1, <1>1, <1>2, <1>3, <1>5, ArrayFacts
    <3> QED BY <3>1, <3>2
  <2> QED BY <2>1, <2>2, <1>1, <1>5 DEF InOrder
<1> QED
    BY <1>1, <1>3, <1>4, <1>5, <1>6, ArrayFacts, CellsSettled

\* The first n cells of a larger block, filled with those of the old one.
LEMMA Moving ==
    ASSUME ArrayInv, NEW block \in Seq(CellValues), count <= Len(block)
    PROVE  LET new == Fill(block, 1, SubSeq(cells, 1, count)) IN
           /\ new \in Seq(CellValues) /\ Len(new) = Len(block)
           /\ \A i \in 1 .. Len(block) : new[i] = IF i <= count THEN cells[i] ELSE block[i]
           /\ \A i \in 1 .. count : cells[i] # Raw
<1>1. /\ count \in Nat /\ Len(cells) \in Nat /\ count \in 0 .. Len(cells) /\ cells \in Seq(CellValues)
      /\ count <= Len(cells) /\ 1 \in Nat
    BY ArrayFacts
<1>2. PICK q : q = SubSeq(cells, 1, count)
    OBVIOUS
<1>3. q \in Seq(CellValues) /\ Len(q) = count /\ \A i \in 1 .. count : q[i] = cells[i]
    BY <1>1, <1>2, FirstOf
<1>4. PICK new : new = Fill(block, 1, q)
    OBVIOUS
<1>5. /\ new \in Seq(CellValues) /\ Len(new) = Len(block) /\ Len(block) \in Nat
      /\ \A i \in 1 .. Len(block) : new[i] = IF i - 1 + 1 \in 1 .. Len(q) THEN q[i - 1 + 1] ELSE block[i]
    BY <1>1, <1>3, <1>4, FillIs, LenProperties
<1>6. \A i \in 1 .. Len(block) : new[i] = IF i <= count THEN cells[i] ELSE block[i]
  <2> TAKE i \in 1 .. Len(block)
  <2>1. i - 1 + 1 = i /\ (i \in 1 .. count <=> i <= count)
      BY <1>1, <1>5
  <2> QED BY <2>1, <1>3, <1>5
<1>7. \A i \in 1 .. count : cells[i] # Raw
    BY <1>1 DEF ArrayInv, FilledTo
<1> QED
    BY <1>2, <1>4, <1>5, <1>6, <1>7

\* A new block in which only the place n holds an element.
LEMMA NewElement ==
    ASSUME NEW k \in Nat, NEW n \in Nat, NEW e \in Elements
    PROVE  /\ Fill(Block(k), n, <<e>>) \in Seq(CellValues) /\ Len(Fill(Block(k), n, <<e>>)) = k
           /\ \A i \in 1 .. k : Fill(Block(k), n, <<e>>)[i] = IF i = n THEN e ELSE Raw
<1>1. PICK b : b = Block(k)
    OBVIOUS
<1>2. PICK q : q = <<e>>
    OBVIOUS
<1>3. b \in Seq(CellValues) /\ Len(b) = k /\ \A i \in 1 .. k : b[i] = Raw
    BY <1>1, BlockIsRaw
<1>4. q \in Seq(CellValues) /\ Len(q) = 1 /\ q[1] = e
    BY <1>2, NotRaw
<1>5. PICK new : new = Fill(b, n, q)
    OBVIOUS
<1>6. b \in Seq(CellValues) /\ q \in Seq(CellValues)
    BY <1>3, <1>4
<1>7. /\ new \in Seq(CellValues) /\ Len(new) = Len(b)
      /\ \A i \in 1 .. Len(b) : new[i] = IF i - n + 1 \in 1 .. Len(q) THEN q[i - n + 1] ELSE b[i]
    BY <1>6, <1>5, FillIs
<1>8. \A i \in 1 .. k : new[i] = IF i = n THEN e ELSE Raw
  <2> TAKE i \in 1 .. k
  <2>1. i - n + 1 \in 1 .. 1 <=> i = n
      OBVIOUS
  <2>2. i = n => i - n + 1 = 1
      OBVIOUS
  <2> QED BY <2>1, <2>2, <1>3, <1>4, <1>7
<1> QED
    BY <1>1, <1>2, <1>3, <1>5, <1>7, <1>8

LEMMA GrowKeepsArray ==
    ASSUME ArrayInv, NEW e \in Elements, Grow(e)
    PROVE  ArrayInv'
<1>1. /\ count \in Nat /\ Len(cells) = count /\ cells \in Seq(CellValues) /\ rawDestroyed \in BOOLEAN
      /\ leaked \in BOOLEAN /\ count <= Len(cells) /\ FilledTo(cells, count)
    BY ArrayFacts DEF Grow, ArrayInv
<1>2. PICK k \in Nat : k = TwiceSize /\ count + 1 <= k
    BY <1>1 DEF TwiceSize
<1>5. PICK n \in Nat : n = count + 1
    BY <1>1
<1>6. PICK block : block = Fill(Block(k), n, <<e>>)
    OBVIOUS
<1>7. block \in Seq(CellValues) /\ Len(block) = k /\ \A i \in 1 .. k : block[i] = IF i = n THEN e ELSE Raw
    BY <1>6, NewElement
<1>8. \A i \in 1 .. k : block[i] = IF i = count + 1 THEN e ELSE Raw
    BY <1>5, <1>7
<1>9. /\ cells' = Fill(block, 1, SubSeq(cells, 1, count)) /\ count' = count + 1
      /\ FreeBlock(cells, 1 .. count) /\ expected' = Append(expected, e)
      /\ UNCHANGED <<alive, scrambled, refused>>
    BY <1>2, <1>5, <1>6 DEF Grow, Holds
<1>10. /\ cells' \in Seq(CellValues) /\ Len(cells') = k
       /\ \A i \in 1 .. k : cells'[i] = IF i <= count THEN cells[i] ELSE block[i]
       /\ \A i \in 1 .. count : cells[i] # Raw
  <2>1. count <= Len(block)
      BY <1>1, <1>2, <1>7
  <2> QED BY <2>1, <1>7, <1>9, Moving
<1>11. \A i \in 1 .. k : /\ cells'[i] = Raw <=> i > count + 1
                         /\ i \in 1 .. count => cells'[i] = cells[i]
                         /\ i = count + 1 => cells'[i] = e
  <2> TAKE i \in 1 .. k
  <2>1. CASE i <= count
      BY <2>1, <1>1, <1>10
  <2>2. CASE i = count + 1
      BY <2>2, <1>1, <1>8, <1>10, NotRaw
  <2>3. CASE i > count + 1
      BY <2>3, <1>1, <1>8, <1>10
  <2> QED BY <2>1, <2>2, <2>3, <1>1
<1>12. rawDestroyed' = rawDestroyed /\ leaked' = leaked
    BY <1>1, <1>9, FreeWell
<1>13. /\ expected' \in Seq(Elements) /\ Len(expected') = Len(expected) + 1 /\ Len(expected) \in Nat
       /\ (\A i \in 1 .. Len(expected) : expected'[i] = expected[i]) /\ expected'[Len(expected) + 1] = e
    BY <1>9, ArrayFacts
<1>14. ~scrambled' => InOrder'
  <2> SUFFICES ASSUME ~scrambled PROVE InOrder'
      BY <1>9
  <2>1. Len(expected) = count /\ \A i \in 1 .. count : cells[i] = expected[i]
      BY DEF ArrayInv, InOrder
  <2>2. ASSUME NEW i \in 1 .. count + 1 PROVE cells'[i] = expected'[i]
    <3>1. i \in 1 .. k /\ (i = count + 1 \/ i \in 1 .. count)
        BY <1>1, <1>2
    <3> QED BY <3>1, <2>1, <1>11, <1>13
  <2> QED BY <2>1, <2>2, <1>9, <1>13 DEF InOrder
<1>15. FilledTo(cells, count)' /\ count' \in 0 .. Len(cells')
    BY <1>1, <1>2, <1>9, <1>10, <1>11 DEF FilledTo
<1>16. alive' \in BOOLEAN /\ scrambled' \in BOOLEAN
    BY <1>9, ArrayFacts
<1> QED
    BY <1>9, <1>10, <1>12, <1>13, <1>14, <1>15, <1>16, CellsSettled

\* A block whose first cells are overwritten.
LEMMA FillHead ==
    ASSUME NEW block \in Seq(CellValues), NEW q \in Seq(CellValues), NEW m \in Nat, Len(q) <= Len(block)
    PROVE  /\ Fill(block, 1, q) \in Seq(CellValues) /\ Len(Fill(block, 1, q)) = Len(block)
           /\ \A i \in 1 .. Len(block) : Fill(block, 1, q)[i] = IF i <= Len(q) THEN q[i] ELSE block[i]
           /\ /\ FilledTo(q, Len(q)) /\ Len(q) <= m
              /\ \A i \in 1 .. Len(block) : i > Len(q) => (block[i] = Raw <=> i > m)
              => FilledTo(Fill(block, 1, q), m)
<1>1. Len(block) \in Nat /\ Len(q) \in Nat /\ 1 \in Nat
    BY LenProperties
<1>2. PICK new : new = Fill(block, 1, q)
    OBVIOUS
<1>3. /\ new \in Seq(CellValues) /\ Len(new) = Len(block)
      /\ \A i \in 1 .. Len(block) : new[i] = IF i - 1 + 1 \in 1 .. Len(q) THEN q[i - 1 + 1] ELSE block[i]
    BY <1>1, <1>2, FillIs
<1>4. \A i \in 1 .. Len(block) : new[i] = IF i <= Len(q) THEN q[i] ELSE block[i]
  <2> TAKE i \in 1 .. Len(block)
  <2>1. i - 1 + 1 = i /\ (i \in 1 .. Len(q) <=> i <= Len(q))
      BY <1>1
  <2> QED BY <2>1, <1>3
<1>5. ASSUME FilledTo(q, Len(q)), Len(q) <= m,
             \A i \in 1 .. Len(block) : i > Len(q) => (block[i] = Raw <=> i > m)
      PROVE  FilledTo(new, m)
  <2>1. ASSUME NEW i \in 1 .. Len(block) PROVE new[i] = Raw <=> i > m
    <3>1. CASE i <= Len(q)
      <4>1. i \in 1 .. Len(q) /\ ~(i > m) /\ ~(i > Len(q))
          BY <3>1, <1>1, <1>5
      <4> QED BY <3>1, <4>1, <1>4, <1>5 DEF FilledTo
    <3>2. CASE ~(i <= Len(q))
      <4>1. i > Len(q)
          BY <3>2, <1>1
      <4> QED BY <3>2, <4>1, <1>4, <1>5
    <3> QED BY <3>1, <3>2
  <2> QED BY <2>1, <1>3 DEF FilledTo
<1> QED
    BY <1>2, <1>3, <1>4, <1>5

\* Elements that were moved from, and copies, are elements.
LEMMA AllMoved ==
    ASSUME NEW n \in Nat
    PROVE  LET q == [i \in 1 .. n |-> Moved] IN q \in Seq(CellValues) /\ Len(q) = n /\ FilledTo(q, Len(q))
<1>1. PICK q : q = [i \in 1 .. n |-> Moved]
    OBVIOUS
<1>2. q \in [1 .. n -> CellValues]
    BY <1>1, NotRaw
<1>3. q \in Seq(CellValues) /\ Len(q) = n
    BY <1>2, SeqOfFunction
<1>4. FilledTo(q, n)
    BY <1>1, <1>3, NotRaw DEF FilledTo
<1> QED
    BY <1>1, <1>3, <1>4

LEMMA FirstFilled ==
    ASSUME NEW block \in Seq(CellValues), NEW m \in Nat, FilledTo(block, m),
           NEW n \in 0 .. Len(block), n <= m
    PROVE  /\ SubSeq(block, 1, n) \in Seq(CellValues) /\ Len(SubSeq(block, 1, n)) = n
           /\ FilledTo(SubSeq(block, 1, n), Len(SubSeq(block, 1, n)))
           /\ \A i \in 1 .. n : SubSeq(block, 1, n)[i] = block[i]
<1>1. Len(block) \in Nat
    BY LenProperties
<1>2. PICK q : q = SubSeq(block, 1, n)
    OBVIOUS
<1>3. q \in Seq(CellValues) /\ Len(q) = n /\ \A i \in 1 .. n : q[i] = block[i]
    BY <1>2, FirstOf
<1>4. \A i \in 1 .. n : q[i] # Raw /\ ~(i > n)
    BY <1>1, <1>3 DEF FilledTo
<1> QED
    BY <1>2, <1>3, <1>4 DEF FilledTo

LEMMA ReserveKeepsArray ==
    ASSUME ArrayInv, NEW n \in 1 .. MaxCells, Reserve(n)
    PROVE  ArrayInv'
<1>1. /\ cells \in Seq(CellValues) /\ count \in Nat /\ Len(cells) \in Nat /\ count <= Len(cells)
      /\ rawDestroyed \in BOOLEAN /\ leaked \in BOOLEAN /\ n \in Nat /\ Len(cells) < n
      /\ count \in 0 .. Len(cells) /\ FilledTo(cells, count) /\ expected \in Seq(Elements)
  <2>1. Len(cells) < n
      BY DEF Reserve
  <2>2. n \in Nat
      OBVIOUS
  <2>3. FilledTo(cells, count)
      BY DEF ArrayInv
  <2> QED BY <2>1, <2>2, <2>3, ArrayFacts
<1>2. PICK ms : ms = [i \in 1 .. count |-> Moved]
    OBVIOUS
<1>3. ms \in Seq(CellValues) /\ Len(ms) = count /\ FilledTo(ms, Len(ms)) /\ Len(ms) <= Len(cells) /\ Len(ms) <= count
    BY <1>1, <1>2, AllMoved
<1>4. PICK old : old = Fill(cells, 1, ms)
    OBVIOUS
<1>5. old \in Seq(CellValues) /\ Len(old) = Len(cells) /\ FilledTo(old, count) /\ count <= Len(old)
  <2>1. \A i \in 1 .. Len(cells) : i > Len(ms) => (cells[i] = Raw <=> i > count)
      BY <1>1 DEF FilledTo
  <2> QED BY <2>1, <1>1, <1>3, <1>4, FillHead
<1>6. PICK q : q = SubSeq(cells, 1, count)
    OBVIOUS
<1>7. q \in Seq(CellValues) /\ Len(q) = count /\ FilledTo(q, Len(q)) /\ \A i \in 1 .. count : q[i] = cells[i]
    BY <1>1, <1>6, FirstFilled
<1>8. PICK b : b = Block(n)
    OBVIOUS
<1>9. b \in Seq(CellValues) /\ Len(b) = n /\ \A i \in 1 .. n : b[i] = Raw
    BY <1>1, <1>8, BlockIsRaw
<1>10. /\ cells' = Fill(b, 1, q) /\ count' = count /\ FreeBlock(old, 1 .. count)
       /\ UNCHANGED <<alive, expected, scrambled, refused>>
    BY <1>2, <1>4, <1>6, <1>8 DEF Reserve, Holds
<1>11. /\ cells' \in Seq(CellValues) /\ Len(cells') = n /\ FilledTo(cells', count)
       /\ \A i \in 1 .. n : cells'[i] = IF i <= count THEN q[i] ELSE b[i]
  <2>1. \A i \in 1 .. Len(b) : i > Len(q) => (b[i] = Raw <=> i > count)
      BY <1>7, <1>9
  <2>2. Len(q) <= Len(b) /\ Len(q) <= count
      BY <1>1, <1>7, <1>9
  <2>3. /\ cells' \in Seq(CellValues) /\ Len(cells') = Len(b) /\ FilledTo(cells', count)
        /\ \A i \in 1 .. Len(b) : cells'[i] = IF i <= Len(q) THEN q[i] ELSE b[i]
      BY <2>1, <2>2, <1>1, <1>7, <1>9, <1>10, FillHead
  <2> QED BY <2>3, <1>7, <1>9
<1>12. rawDestroyed' = rawDestroyed /\ leaked' = leaked
    BY <1>1, <1>5, <1>10, FreeWell
<1>13. \A i \in 1 .. count : cells'[i] = cells[i]
    BY <1>1, <1>7, <1>11
<1>14. ~scrambled' => InOrder'
    BY <1>10, <1>13 DEF ArrayInv, InOrder
<1>15. count' \in 0 .. Len(cells') /\ FilledTo(cells, count)'
    BY <1>1, <1>10, <1>11 DEF FilledTo
<1>16. alive' \in BOOLEAN /\ scrambled' \in BOOLEAN /\ expected' \in Seq(Elements)
    BY <1>10, ArrayFacts
<1> QED
    BY <1>10, <1>11, <1>12, <1>14, <1>15, <1>16, CellsSettled

LEMMA ReserveFailsWell ==
    ASSUME ArrayInv, NEW n \in 1 .. MaxCells, NEW j \in 1 .. n, ReserveFails(n, j)
    PROVE  ArrayInv'
<1>1. /\ cells \in Seq(CellValues) /\ count \in Nat /\ Len(cells) \in Nat /\ count <= Len(cells)
      /\ rawDestroyed \in BOOLEAN /\ leaked \in BOOLEAN /\ n \in Nat /\ Len(cells) < n
      /\ FilledTo(cells, count) /\ j \in 1 .. count
  <2>1. Len(cells) < n /\ j \in 1 .. count
      BY DEF ReserveFails
  <2>2. n \in Nat
      OBVIOUS
  <2>3. FilledTo(cells, count)
      BY DEF ArrayInv
  <2> QED BY <2>1, <2>2, <2>3, ArrayFacts
<1>2. PICK k \in Nat : k = j - 1
    BY <1>1
<1>3. k <= count /\ k \in 0 .. Len(cells)
    BY <1>1, <1>2
<1>4. PICK ms : ms = [i \in 1 .. k |-> Moved]
    OBVIOUS
<1>5. ms \in Seq(CellValues) /\ Len(ms) = k /\ FilledTo(ms, Len(ms)) /\ Len(ms) <= Len(cells) /\ Len(ms) <= count
  <2>1. ms \in Seq(CellValues) /\ Len(ms) = k /\ FilledTo(ms, Len(ms))
      BY <1>4, AllMoved
  <2> QED BY <2>1, <1>3
<1>6. PICK q : q = SubSeq(cells, 1, k)
    OBVIOUS
<1>7. q \in Seq(CellValues) /\ Len(q) = k /\ FilledTo(q, Len(q))
    BY <1>1, <1>3, <1>6, FirstFilled
<1>8. PICK b : b = Block(n)
    OBVIOUS
<1>9. b \in Seq(CellValues) /\ Len(b) = n /\ \A i \in 1 .. n : b[i] = Raw
    BY <1>1, <1>8, BlockIsRaw
<1>10. PICK new : new = Fill(b, 1, q)
    OBVIOUS
<1>11. new \in Seq(CellValues) /\ FilledTo(new, k) /\ k <= Len(new)
  <2>1. \A i \in 1 .. Len(b) : i > Len(q) => (b[i] = Raw <=> i > k)
      BY <1>7, <1>9
  <2>2. Len(q) <= Len(b) /\ Len(q) <= k
      BY <1>1, <1>3, <1>7, <1>9
  <2> QED BY <2>1, <2>2, <1>7, <1>9, <1>10, FillHead
<1>12. /\ cells' = Fill(cells, 1, ms) /\ count' = count /\ FreeBlock(new, 1 .. k) /\ scrambled' = TRUE
       /\ UNCHANGED <<alive, expected, refused>>
    BY <1>2, <1>4, <1>6, <1>8, <1>10 DEF ReserveFails, Holds
<1>13. rawDestroyed' = rawDestroyed /\ leaked' = leaked
    BY <1>1, <1>11, <1>12, FreeWell
<1>14. cells' \in Seq(CellValues) /\ Len(cells') = Len(cells) /\ FilledTo(cells', count)
  <2>1. \A i \in 1 .. Len(cells) : i > Len(ms) => (cells[i] = Raw <=> i > count)
      BY <1>1 DEF FilledTo
  <2> QED BY <2>1, <1>1, <1>5, <1>12, FillHead
<1>15. count' \in 0 .. Len(cells') /\ FilledTo(cells, count)'
    BY <1>1, <1>12, <1>14 DEF FilledTo
<1>16. alive' \in BOOLEAN /\ scrambled' \in BOOLEAN /\ expected' \in Seq(Elements) /\ (~scrambled' => InOrder')
    BY <1>12, ArrayFacts
<1> QED
    BY <1>12, <1>13, <1>14, <1>15, <1>16, CellsSettled

LEMMA GrowFailsWell ==
    ASSUME ArrayInv, GrowFails
    PROVE  ArrayInv'
<1>1. UNCHANGED <<alive, cells, count, expected, scrambled>> /\ count \in Nat
    BY ArrayFacts DEF GrowFails
<1>2. PICK k \in Nat : k = TwiceSize /\ count + 1 <= k
    BY <1>1 DEF TwiceSize
<1>3. PICK n \in Nat : n = count + 1 /\ n \in 1 .. k
    BY <1>1, <1>2
<1>4. CASE FreeBlock(Block(k), {n}) /\ refused' = TRUE
  <2>1. PICK b : b = Block(k)
      OBVIOUS
  <2>2. Len(b) = k /\ DOMAIN b = 1 .. k /\ \A i \in 1 .. k : b[i] = Raw
      BY <2>1, BlockIsRaw, LenProperties
  <2>3. ~ \E i \in DOMAIN b \ {n} : b[i] # Raw
      BY <2>2
  <2>4. leaked' = (leaked \/ FALSE)
      BY <1>4, <2>1, <2>3 DEF FreeBlock
  <2>5. ~leaked' /\ leaked' \in BOOLEAN /\ rawDestroyed' \in BOOLEAN
      BY <1>4, <2>4, ArrayFacts DEF FreeBlock
  <2> QED BY <1>1, <1>4, <2>5 DEF ArrayInv, ArrayTypeOK, FilledTo, InOrder
<1>5. ASSUME NEW e \in Elements, FreeBlock(Fill(Block(k), n, <<e>>), {n}), refused' = refused PROVE ArrayInv'
  <2>1. PICK b : b = Fill(Block(k), n, <<e>>)
      OBVIOUS
  <2>2. b \in Seq(CellValues) /\ Len(b) = k /\ \A i \in 1 .. k : b[i] = IF i = n THEN e ELSE Raw
      BY <2>1, NewElement
  <2>3. DOMAIN b = 1 .. k
      BY <2>2, LenProperties
  <2>4. ~ \E i \in DOMAIN b \ {n} : b[i] # Raw
      BY <2>2, <2>3
  <2>5. ~ \E i \in {n} : b[i] = Raw
      BY <2>2, <1>3, NotRaw
  <2>6. leaked' = (leaked \/ FALSE) /\ rawDestroyed' = (rawDestroyed \/ FALSE)
      BY <1>5, <2>1, <2>4, <2>5 DEF FreeBlock
  <2>7. leaked' = leaked /\ rawDestroyed' = rawDestroyed
      BY <2>6, ArrayFacts
  <2> QED BY <1>1, <1>5, <2>7 DEF ArrayInv, ArrayTypeOK, FilledTo, InOrder
<1> QED
    BY <1>2, <1>3, <1>4, <1>5 DEF GrowFails

LEMMA AssignKeepsArray ==
    ASSUME ArrayInv, NEW s \in Others, Assign(s)
    PROVE  ArrayInv'
<1>1. s \in Seq(Elements) /\ s \in Seq(CellValues) /\ FilledTo(s, Len(s)) /\ Len(s) \in Nat
    BY OthersAreSeqs, Widened, LenProperties
<1>2. /\ cells \in Seq(CellValues) /\ count \in Nat /\ Len(cells) \in Nat /\ count <= Len(cells)
      /\ rawDestroyed \in BOOLEAN /\ leaked \in BOOLEAN /\ FilledTo(cells, count)
  <2>1. FilledTo(cells, count)
      BY DEF ArrayInv
  <2> QED BY <2>1, ArrayFacts
<1>3. PICK n \in Nat : n = Len(s)
    BY <1>1
<1>4. expected' = s /\ scrambled' = FALSE /\ alive' = alive /\ refused' = refused
    BY DEF Assign
<1>5. /\ cells' \in Seq(CellValues) /\ count' = n /\ n <= Len(cells') /\ FilledTo(cells', n)
      /\ \A i \in 1 .. n : cells'[i] = s[i]
      /\ rawDestroyed' = rawDestroyed /\ leaked' = leaked
  <2>1. CASE Len(s) > Len(cells)
    <3>1. FreeBlock(cells, 1 .. count) /\ cells' = s /\ count' = n
        BY <2>1, <1>3 DEF Assign, Holds
    <3>2. rawDestroyed' = rawDestroyed /\ leaked' = leaked
        BY <3>1, <1>2, FreeWell
    <3>3. n <= Len(s)
        BY <1>3
    <3> QED BY <3>1, <3>2, <3>3, <1>1, <1>3
  <2>2. CASE ~(Len(s) > Len(cells))
    <3>1. PICK tail : tail = n + 1 .. count
        OBVIOUS
    <3>2. PICK d : d = DestroyRange(cells, tail)
        OBVIOUS
    <3>3. /\ cells' = Fill(d, 1, s) /\ count' = n
          /\ rawDestroyed' = rawDestroyed /\ leaked' = leaked
        BY <2>2, <3>1, <3>2, <1>3 DEF Assign, Holds
    <3>4. /\ d \in Seq(CellValues) /\ Len(d) = Len(cells)
          /\ \A i \in 1 .. Len(cells) : d[i] = IF i \in tail THEN Raw ELSE cells[i]
        BY <3>2, <1>2, DestroyedIs
    <3>5. ASSUME NEW i \in 1 .. Len(d), i > n PROVE d[i] = Raw
      <4>1. CASE i <= count
        <5>1. i \in tail
            BY <3>1, <3>5, <4>1, <1>2
        <5> QED BY <5>1, <3>4
      <4>2. CASE ~(i <= count)
        <5>1. i > count
            BY <4>2, <1>2, <3>4
        <5>2. cells[i] = Raw
            BY <5>1, <1>2, <3>4 DEF FilledTo
        <5> QED BY <5>2, <3>4
      <4> QED BY <4>1, <4>2
    <3>6. Len(s) <= Len(d) /\ Len(s) <= n
        BY <2>2, <1>1, <1>2, <1>3, <3>4
    <3>7. \A i \in 1 .. Len(d) : i > Len(s) => (d[i] = Raw <=> i > n)
        BY <3>5, <1>3
    <3>8. /\ cells' \in Seq(CellValues) /\ Len(cells') = Len(d) /\ FilledTo(cells', n)
          /\ \A i \in 1 .. Len(d) : cells'[i] = IF i <= Len(s) THEN s[i] ELSE d[i]
        BY <3>3, <3>4, <3>6, <3>7, <1>1, FillHead
    <3>9. \A i \in 1 .. n : i \in 1 .. Len(d) /\ i <= Len(s)
        BY <3>4, <3>6, <1>2, <1>3
    <3>10. n <= Len(cells')
        BY <3>6, <3>8, <1>3
    <3> QED BY <3>3, <3>8, <3>9, <3>10
  <2> QED BY <2>1, <2>2
<1>6. Len(cells') \in Nat
    BY <1>5, LenProperties
<1>7. count' \in 0 .. Len(cells') /\ FilledTo(cells, count)' /\ InOrder'
    BY <1>3, <1>4, <1>5, <1>6 DEF FilledTo, InOrder
<1>8. alive' \in BOOLEAN /\ scrambled' \in BOOLEAN /\ expected' \in Seq(Elements)
    BY <1>1, <1>4, ArrayFacts
<1> QED
    BY <1>4, <1>5, <1>7, <1>8, CellsSettled

LEMMA AssignFailsWell ==
    ASSUME ArrayInv, NEW s \in Others, NEW j \in DOMAIN s, AssignFails(s, j)
    PROVE  ArrayInv'
<1>1. s \in Seq(Elements) /\ s \in Seq(CellValues) /\ FilledTo(s, Len(s)) /\ Len(s) \in Nat /\ j \in 1 .. Len(s)
    BY OthersAreSeqs, Widened, LenProperties
<1>2. /\ cells \in Seq(CellValues) /\ count \in Nat /\ Len(cells) \in Nat /\ count <= Len(cells)
      /\ FilledTo(cells, count)
  <2>1. FilledTo(cells, count)
      BY DEF ArrayInv
  <2> QED BY <2>1, ArrayFacts
<1>3. PICK k \in Nat : k = (IF j - 1 < count THEN j - 1 ELSE count) /\ k <= count /\ k <= Len(s) /\ k \in 0 .. Len(s)
    BY <1>1, <1>2
<1>4. UNCHANGED <<alive, count, expected, refused, rawDestroyed, leaked>>
    BY DEF AssignFails
<1>5. CASE Len(s) > Len(cells)
  <2>1. UNCHANGED <<cells, scrambled>>
      BY <1>5 DEF AssignFails
  <2> QED BY <2>1, <1>4 DEF ArrayInv, ArrayTypeOK, FilledTo, InOrder
<1>6. CASE ~(Len(s) > Len(cells))
  <2>1. PICK q : q = SubSeq(s, 1, k)
      OBVIOUS
  <2>2. q \in Seq(CellValues) /\ Len(q) = k /\ FilledTo(q, Len(q))
      BY <2>1, <1>1, <1>3, FirstFilled
  <2>3. cells' = Fill(cells, 1, q) /\ scrambled' = TRUE
      BY <1>3, <1>6, <2>1 DEF AssignFails
  <2>4. Len(q) <= Len(cells) /\ Len(q) <= count
      BY <1>2, <1>3, <2>2
  <2>5. cells' \in Seq(CellValues) /\ Len(cells') = Len(cells) /\ FilledTo(cells', count)
    <3>1. \A i \in 1 .. Len(cells) : i > Len(q) => (cells[i] = Raw <=> i > count)
        BY <1>2 DEF FilledTo
    <3> QED BY <3>1, <2>2, <2>3, <2>4, <1>2, FillHead
  <2>6. count' \in 0 .. Len(cells') /\ FilledTo(cells, count)'
      BY <1>2, <1>4, <2>5 DEF FilledTo
  <2>7. alive' \in BOOLEAN /\ scrambled' \in BOOLEAN /\ expected' \in Seq(Elements) /\ (~scrambled' => InOrder')
      BY <1>4, <2>3, ArrayFacts
  <2> QED BY <1>4, <2>5, <2>6, <2>7, CellsSettled
<1> QED
    BY <1>5, <1>6

\* At any element of any array, and at any size of block, a constructor or an
\* assignment may throw: the first size() cells are constructed and no other
\* is, no block is freed with elements in it, the elements are those of the
\* successful calls unless an assignment or reserve() has failed half-way, and
\* a cell without an element is destroyed only where the constructor of the
\* inserted element has thrown (realloc_and_insert).
THEOREM ArrayKeepsElements == DynamicArraySpec => []ArrayOwnsItsElements
<1>1. ArrayInit => ArrayInv
  <2> SUFFICES ASSUME ArrayInit PROVE ArrayInv
      OBVIOUS
  <2>1. <<>> \in Seq(CellValues) /\ <<>> \in Seq(Elements) /\ Len(<<>>) = 0
      BY EmptySeq
  <2>2. cells \in Seq(CellValues) /\ expected \in Seq(Elements) /\ count \in 0 .. Len(cells)
      BY <2>1 DEF ArrayInit
  <2>3. FilledTo(cells, count) /\ InOrder
      BY <2>1 DEF ArrayInit, FilledTo, InOrder
  <2>4. alive = FALSE /\ scrambled = FALSE /\ refused = FALSE /\ rawDestroyed = FALSE /\ leaked = FALSE
      BY DEF ArrayInit
  <2> QED BY <2>2, <2>3, <2>4 DEF ArrayInv, ArrayTypeOK
<1>2. ArrayInv /\ [DynamicArrayNext]_dynamicArrayVars => ArrayInv'
  <2> SUFFICES ASSUME ArrayInv, [DynamicArrayNext]_dynamicArrayVars PROVE ArrayInv'
      OBVIOUS
  <2>1. CASE UNCHANGED dynamicArrayVars
      BY <2>1 DEF dynamicArrayVars, ArrayInv, ArrayTypeOK, FilledTo, InOrder
  <2>2. CASE DynamicArrayNext
      BY <2>2, MakeAndDestroyArray, PushKeepsArray, GrowKeepsArray, GrowFailsWell, ReserveKeepsArray,
         ReserveFailsWell, AssignKeepsArray, AssignFailsWell DEF DynamicArrayNext
  <2> QED BY <2>1, <2>2
<1>3. ArrayInv => ArrayOwnsItsElements
  <2> SUFFICES ASSUME ArrayInv PROVE ArrayOwnsItsElements
      OBVIOUS
  <2>1. DOMAIN cells = 1 .. Len(cells)
      BY ArrayFacts, LenProperties
  <2>2. ~scrambled => SubSeq(cells, 1, count) = expected
    <3> SUFFICES ASSUME ~scrambled PROVE SubSeq(cells, 1, count) = expected
        OBVIOUS
    <3>1. PICK q : q = SubSeq(cells, 1, count)
        OBVIOUS
    <3>2. q \in Seq(CellValues) /\ Len(q) = count /\ \A i \in 1 .. count : q[i] = cells[i]
        BY <3>1, ArrayFacts, FirstOf
    <3>3. expected \in Seq(CellValues)
        BY ArrayFacts, Widened
    <3>4. Len(q) = Len(expected) /\ \A i \in 1 .. Len(q) : q[i] = expected[i]
        BY <3>2 DEF ArrayInv, InOrder
    <3>5. q = expected
        BY <3>2, <3>3, <3>4, SeqEqual
    <3> QED BY <3>1, <3>5
  <2> QED BY <2>1, <2>2 DEF ArrayInv, FilledTo, ArrayOwnsItsElements
<1> QED
    BY <1>1, <1>2, <1>3, PTL DEF DynamicArraySpec

-----------------------------------------------------------------------------
(***************************************************************************)
(* expected<T, E>, for any objects and contents.  A call is a sequence of  *)
(* accesses, so the invariant says where the rest of it leads: through     *)
(* states of the objects in which every access is proper, to the goal of   *)
(* the call, and wherever an access may throw, with the objects as they    *)
(* were when the call began or in a catch block that unsafe traits alone   *)
(* allow (Leads).  One lemma for every overload shows that it begins so    *)
(* from objects that are sound; the steps of the call then follow the way. *)
(***************************************************************************)
Whole == Contents \cup {Husk}
Cells == Whole \cup {Dead}
Sound == {Value(v) : v \in Whole} \cup {Error(e) : e \in Whole}
AllSound == [Expecteds -> Sound]
Members == [Expecteds -> [has : BOOLEAN, val : Cells, err : Cells]]

\* The access a to the objects h with the local variable l, as a function.
ContentIn(s, h, l) ==
    CASE s.how = "given" -> s.what [] s.how = "local" -> l [] OTHER -> h[s.who][s.member]
Changed(h, x, m, c) == [h EXCEPT ![x][m] = c]
Flagged(h, x, b) == [h EXCEPT ![x].has = b]
ReadIn(s, h) == IF s.how = "move" THEN Changed(h, s.who, s.member, Husk) ELSE h
HeldAfter(a, h, l) ==
    CASE a.do = "save" -> ReadIn(a.from, h)
      [] a.do = "kill" -> Changed(h, a.who, a.member, Dead)
      [] a.do = "flag" -> Flagged(h, a.who, a.has)
      [] OTHER -> Changed(ReadIn(a.from, h), a.who, a.member, ContentIn(a.from, h, l))
LocalAfter(a, h, l) == IF a.do = "save" THEN ContentIn(a.from, h, l) ELSE l

\* The access destroys a live member, makes one where none is, assigns to a live one.
Proper(a, h) ==
    /\ a.do \in {"save", "kill", "make", "set", "flag"}
    /\ a.do = "kill" => h[a.who][a.member] # Dead
    /\ a.do = "make" => \A m \in UnionMembers : h[a.who][m] = Dead
    /\ a.do = "set" => h[a.who][a.member] # Dead

\* The catch block c assigns to the dead member of an object; the others are
\* as they were when the call began.
Reversal(c, h, from) ==
    \E x \in Expecteds, m \in UnionMembers :
        /\ c = <<Set(x, m, Local, Never)>> /\ h[x][m] = Dead
        /\ \A z \in Expecteds : z # x => h[z] = from[z]

\* If the access throws, and the program goes on, nothing has happened or a
\* catch block is reached that only unsafe traits allow.
Unsafe(tr) == ~(Traits \subseteq tr)
FailsWell(a, h, from, tr) ==
    a.risk.may /\ ~a.risk.noexcept =>
        \/ a.risk.catch = <<>> /\ h = from
        \/ Unsafe(tr) /\ Reversal(a.risk.catch, h, from)

Step(a, h, l, h2, l2, from, tr) ==
    /\ Proper(a, h) /\ FailsWell(a, h, from, tr)
    /\ h2 = HeldAfter(a, h, l) /\ l2 = LocalAfter(a, h, l)

\* The accesses t lead from h and l to the objects "to", and wherever they
\* fail, to the objects "from".
Leads(h, l, t, from, to, tr) ==
    \E H, L : /\ H[1] = h /\ L[1] = l /\ H[Len(t) + 1] = to
              /\ \A i \in 1 .. Len(t) : Step(t[i], H[i], L[i], H[i + 1], L[i + 1], from, tr)

-----------------------------------------------------------------------------
LEMMA LeadsNowhere ==
    ASSUME NEW h, NEW l, NEW from, NEW tr
    PROVE  Leads(h, l, <<>>, from, h, tr)
<1>1. PICK H : H = [i \in {1} |-> h]
    OBVIOUS
<1>2. PICK L : L = [i \in {1} |-> l]
    OBVIOUS
<1>3. Len(<<>>) = 0
    OBVIOUS
<1>4. H[1] = h /\ L[1] = l /\ H[Len(<<>>) + 1] = h /\ 1 .. Len(<<>>) = {}
    BY <1>1, <1>2, <1>3
<1> QED
    BY <1>4 DEF Leads

\* q is t with a before it.
Precedes(a, t, q) == Len(t) \in Nat /\ Len(q) = Len(t) + 1 /\ q[1] = a /\ \A i \in 1 .. Len(t) : q[i + 1] = t[i]

LEMMA LeadsFirst ==
    ASSUME NEW t, NEW q, NEW a, Precedes(a, t, q), NEW h, NEW l, NEW h2, NEW l2, NEW from, NEW to, NEW tr,
           Step(a, h, l, h2, l2, from, tr), Leads(h2, l2, t, from, to, tr)
    PROVE  Leads(h, l, q, from, to, tr)
<1>1. PICK H, L : /\ H[1] = h2 /\ L[1] = l2 /\ H[Len(t) + 1] = to
                  /\ \A i \in 1 .. Len(t) : Step(t[i], H[i], L[i], H[i + 1], L[i + 1], from, tr)
    BY DEF Leads
<1>2. PICK n \in Nat : n = Len(t)
    BY DEF Precedes
<1>4. Len(q) = n + 1 /\ q[1] = a /\ \A i \in 1 .. n : q[i + 1] = t[i]
    BY <1>2 DEF Precedes
<1>5. PICK G : G = [i \in Nat |-> IF i = 1 THEN h ELSE H[i - 1]]
    OBVIOUS
<1>6. PICK K : K = [i \in Nat |-> IF i = 1 THEN l ELSE L[i - 1]]
    OBVIOUS
<1>7. G[1] = h /\ K[1] = l /\ \A i \in 1 .. n + 1 : G[i + 1] = H[i] /\ K[i + 1] = L[i]
    BY <1>5, <1>6
<1>8. G[Len(q) + 1] = to
    BY <1>1, <1>2, <1>4, <1>7
<1>9. ASSUME NEW i \in 1 .. Len(q) PROVE Step(q[i], G[i], K[i], G[i + 1], K[i + 1], from, tr)
  <2>1. CASE i = 1
    <3>1. q[i] = a /\ G[i] = h /\ K[i] = l /\ G[i + 1] = h2 /\ K[i + 1] = l2
        BY <2>1, <1>1, <1>4, <1>7
    <3> QED BY <3>1
  <2>2. CASE i # 1
    <3>1. i \in 1 .. n + 1
        BY <1>4
    <3>2. i - 1 \in 1 .. n /\ i = (i - 1) + 1
        BY <2>2, <3>1, SMT
    <3>3. PICK j \in 1 .. n : i = j + 1
        BY <3>2
    <3>4. /\ q[i] = t[j] /\ G[i] = H[j] /\ K[i] = L[j] /\ G[i + 1] = H[j + 1] /\ K[i + 1] = L[j + 1]
          /\ j \in 1 .. Len(t)
        BY <3>3, <1>2, <1>4, <1>7
    <3> QED BY <3>4, <1>1
  <2> QED BY <2>1, <2>2
<1> QED
    BY <1>7, <1>8, <1>9 DEF Leads

LEMMA LeadsOn ==
    ASSUME NEW S, NEW t \in Seq(S), t # <<>>, NEW h, NEW l, NEW from, NEW to, NEW tr,
           Leads(h, l, t, from, to, tr)
    PROVE  \E h2, l2 : Step(Head(t), h, l, h2, l2, from, tr) /\ Leads(h2, l2, Tail(t), from, to, tr)
<1>1. PICK H, L : /\ H[1] = h /\ L[1] = l /\ H[Len(t) + 1] = to
                  /\ \A i \in 1 .. Len(t) : Step(t[i], H[i], L[i], H[i + 1], L[i + 1], from, tr)
    BY DEF Leads
<1>2. PICK n \in Nat : Len(t) = n + 1
  <2>1. Len(t) \in Nat /\ Len(t) # 0
      BY LenProperties, EmptySeq
  <2> QED BY <2>1
<1>3. PICK q : q = Tail(t)
    OBVIOUS
<1>4. Len(q) = n /\ Head(t) = t[1] /\ \A i \in 1 .. n : q[i] = t[i + 1]
    BY <1>2, <1>3
<1>5. PICK G : G = [i \in Nat |-> H[i + 1]]
    OBVIOUS
<1>6. PICK K : K = [i \in Nat |-> L[i + 1]]
    OBVIOUS
<1>7. \A i \in 1 .. n + 1 : G[i] = H[i + 1] /\ K[i] = L[i + 1]
    BY <1>5, <1>6
<1>8. G[1] = H[2] /\ K[1] = L[2] /\ G[Len(q) + 1] = to
    BY <1>1, <1>2, <1>4, <1>7
<1>9. ASSUME NEW i \in 1 .. Len(q) PROVE Step(q[i], G[i], K[i], G[i + 1], K[i + 1], from, tr)
  <2>1. PICK j \in 1 .. Len(t) : j = i + 1
      BY <1>2, <1>4
  <2>2. q[i] = t[j] /\ G[i] = H[j] /\ K[i] = L[j] /\ G[i + 1] = H[j + 1] /\ K[i + 1] = L[j + 1]
      BY <2>1, <1>2, <1>4, <1>7
  <2> QED BY <2>2, <1>1
<1>10. Leads(H[2], L[2], q, from, to, tr)
    BY <1>8, <1>9 DEF Leads
<1>11. Step(Head(t), h, l, H[2], L[2], from, tr)
  <2>1. 1 \in 1 .. Len(t) /\ 1 + 1 = 2
      BY <1>2
  <2>2. Step(t[1], H[1], L[1], H[2], L[2], from, tr)
      BY <2>1, <1>1
  <2> QED BY <2>2, <1>1, <1>4
<1> QED
    BY <1>3, <1>10, <1>11

-----------------------------------------------------------------------------
LEMMA DeadIsNotWhole == /\ \A c \in Whole : c # Dead /\ c \in Cells
                        /\ Dead \in Cells /\ Husk \in Whole /\ Contents \subseteq Whole
    BY ExpectedAssumption DEF Whole, Cells

\* g is h but for the member m of x, or for its flag.
IsChanged(h, x, m, c, g) ==
    /\ g \in Members /\ g[x][m] = c /\ g[x].has = h[x].has
    /\ \A k \in UnionMembers : k # m => g[x][k] = h[x][k]
    /\ \A z \in Expecteds : z # x => g[z] = h[z]
IsFlagged(h, x, b, g) ==
    /\ g \in Members /\ g[x].has = b
    /\ \A k \in UnionMembers : g[x][k] = h[x][k]
    /\ \A z \in Expecteds : z # x => g[z] = h[z]

LEMMA ChangedIs ==
    ASSUME NEW h \in Members, NEW x \in Expecteds, NEW m \in UnionMembers, NEW c \in Cells
    PROVE  Changed(h, x, m, c) \in Members /\ IsChanged(h, x, m, c, Changed(h, x, m, c))
    BY DEF Changed, IsChanged, Members, UnionMembers

LEMMA FlaggedIs ==
    ASSUME NEW h \in Members, NEW x \in Expecteds, NEW b \in BOOLEAN
    PROVE  Flagged(h, x, b) \in Members /\ IsFlagged(h, x, b, Flagged(h, x, b))
    BY DEF Flagged, IsFlagged, Members, UnionMembers

LEMMA SameMembers ==
    ASSUME NEW h \in Members, NEW g \in Members,
           \A z \in Expecteds : h[z].has = g[z].has /\ \A k \in UnionMembers : h[z][k] = g[z][k]
    PROVE  h = g
    BY DEF Members, UnionMembers

LEMMA SoundIs ==
    ASSUME NEW h \in AllSound
    PROVE  /\ h \in Members
           /\ \A z \in Expecteds : h[z].has => h[z]["val"] \in Whole /\ h[z]["err"] = Dead
           /\ \A z \in Expecteds : ~h[z].has => h[z]["err"] \in Whole /\ h[z]["val"] = Dead
<1>1. ASSUME NEW z \in Expecteds PROVE
         /\ h[z] \in [has : BOOLEAN, val : Cells, err : Cells]
         /\ h[z].has => h[z]["val"] \in Whole /\ h[z]["err"] = Dead
         /\ ~h[z].has => h[z]["err"] \in Whole /\ h[z]["val"] = Dead
  <2>1. h[z] \in Sound
      BY DEF AllSound
  <2>2. ASSUME NEW v \in Whole, h[z] = Value(v) PROVE /\ h[z] \in [has : BOOLEAN, val : Cells, err : Cells]
                                                    /\ h[z].has /\ h[z]["val"] \in Whole /\ h[z]["err"] = Dead
      BY <2>2, DeadIsNotWhole DEF Value
  <2>3. ASSUME NEW e \in Whole, h[z] = Error(e) PROVE /\ h[z] \in [has : BOOLEAN, val : Cells, err : Cells]
                                                    /\ ~h[z].has /\ h[z]["err"] \in Whole /\ h[z]["val"] = Dead
      BY <2>3, DeadIsNotWhole DEF Error
  <2> QED BY <2>1, <2>2, <2>3 DEF Sound
<1>2. h \in Members
    BY <1>1 DEF AllSound, Members
<1> QED
    BY <1>1, <1>2

-----------------------------------------------------------------------------
\* A risk that cannot show: no throw, or the end of the program.
Quiet(risk) == risk.may = FALSE \/ risk.noexcept = TRUE

\* ... or nothing has happened when it shows.
Mild(risk, h, from) == Quiet(risk) \/ (risk.catch = <<>> /\ h = from)

LEMMA Risks == /\ Quiet(Never) /\ (\A h, from : Mild(Never, h, from)) /\ \A trait : Quiet(Unless(trait, TRUE))
               /\ \A trait : Unless(trait, FALSE).catch = <<>>
               /\ \A trait, b, h : Mild(Unless(trait, b), h, h)
<1>1. Quiet(Never)
    BY DEF Quiet, Never
<1>2. \A h, from : Mild(Never, h, from)
    BY <1>1 DEF Quiet, Mild
<1>3. \A trait : Quiet(Unless(trait, TRUE))
    BY DEF Quiet, Unless
<1>4. \A trait, b : Unless(trait, b).catch = <<>>
    BY DEF Unless
<1>5. \A trait, b, h : Mild(Unless(trait, b), h, h)
    BY <1>4 DEF Mild
<1> QED
    BY <1>1, <1>2, <1>3, <1>4, <1>5

LEMMA KillStep ==
    ASSUME NEW h \in Members, NEW l, NEW from, NEW tr, NEW x \in Expecteds, NEW m \in UnionMembers, h[x][m] # Dead
    PROVE  Step(Kill(x, m), h, l, Changed(h, x, m, Dead), l, from, tr)
    BY DEF Step, Kill, Proper, FailsWell, Never, HeldAfter, LocalAfter

LEMMA FlagStep ==
    ASSUME NEW h \in Members, NEW l, NEW from, NEW tr, NEW x \in Expecteds, NEW b \in BOOLEAN
    PROVE  Step(Flag(x, b), h, l, Flagged(h, x, b), l, from, tr)
    BY DEF Step, Flag, Proper, FailsWell, Never, HeldAfter, LocalAfter

LEMMA SaveStep ==
    ASSUME NEW h, NEW l, NEW from, NEW tr, NEW s, NEW risk, Mild(risk, h, from),
           NEW g, g = ReadIn(s, h), NEW c, c = ContentIn(s, h, l)
    PROVE  Step(Save(s, risk), h, l, g, c, from, tr)
    BY DEF Step, Save, Proper, FailsWell, Mild, Quiet, HeldAfter, LocalAfter

LEMMA SetStep ==
    ASSUME NEW h, NEW l, NEW from, NEW tr, NEW x, NEW m, NEW s, NEW risk, Mild(risk, h, from),
           h[x][m] # Dead, NEW g, g = ReadIn(s, h), NEW c, c = ContentIn(s, h, l), NEW h2, h2 = Changed(g, x, m, c)
    PROVE  Step(Set(x, m, s, risk), h, l, h2, l, from, tr)
    BY DEF Step, Set, Proper, FailsWell, Mild, Quiet, HeldAfter, LocalAfter

\* Another object may be made unless the traits are safe, and then be given up.
GivenUp(risk, x, m, tr) ==
    risk.catch = <<Set(x, m, Local, Never)>> /\ (risk.may => Unsafe(tr))

Spared(risk, x, k, h, from, tr) ==
    \/ Quiet(risk)
    \/ GivenUp(risk, x, k, tr) /\ \A z \in Expecteds : z # x => h[z] = from[z]

LEMMA MakeStep ==
    ASSUME NEW h, NEW l, NEW from, NEW tr, NEW x \in Expecteds, NEW m, NEW s, NEW risk,
           NEW k \in UnionMembers, Spared(risk, x, k, h, from, tr), \A j \in UnionMembers : h[x][j] = Dead,
           NEW g, g = ReadIn(s, h), NEW c, c = ContentIn(s, h, l), NEW h2, h2 = Changed(g, x, m, c)
    PROVE  Step(Make(x, m, s, risk), h, l, h2, l, from, tr)
<1>1. PICK a : a = Make(x, m, s, risk)
    OBVIOUS
<1>2. a.do = "make" /\ a.who = x /\ a.member = m /\ a.from = s /\ a.risk = risk
    BY <1>1 DEF Make
<1>3. Proper(a, h)
    BY <1>2 DEF Proper
<1>4. HeldAfter(a, h, l) = h2 /\ LocalAfter(a, h, l) = l
    BY <1>2 DEF HeldAfter, LocalAfter
<1>5. FailsWell(a, h, from, tr)
  <2>1. CASE Quiet(risk)
      BY <2>1, <1>2 DEF FailsWell, Quiet
  <2>2. CASE GivenUp(risk, x, k, tr) /\ \A z \in Expecteds : z # x => h[z] = from[z]
    <3>1. Reversal(risk.catch, h, from)
        BY <2>2 DEF Reversal, GivenUp
    <3> QED BY <2>2, <3>1, <1>2 DEF FailsWell, GivenUp
  <2> QED BY <2>1, <2>2 DEF Spared
<1> QED
    BY <1>1, <1>3, <1>4, <1>5 DEF Step

LEMMA Sources ==
    /\ \A c, h, l : ContentIn(Given(c), h, l) = c /\ ReadIn(Given(c), h) = h
    /\ \A h, l : ContentIn(Local, h, l) = l /\ ReadIn(Local, h) = h
    /\ \A x, m, h, l : /\ ContentIn(CopyOf(x, m), h, l) = h[x][m] /\ ReadIn(CopyOf(x, m), h) = h
                       /\ ContentIn(MoveOf(x, m), h, l) = h[x][m]
                       /\ ReadIn(MoveOf(x, m), h) = Changed(h, x, m, Husk)
    BY DEF ContentIn, ReadIn, Given, Local, CopyOf, MoveOf

\* The source s gives c, whatever has become of x since h.
Elsewhere(s, x, c, h, l) ==
    \A h1 \in Members : (\A z \in Expecteds : z # x => h1[z] = h[z]) =>
        /\ ContentIn(s, h1, l) = c /\ ReadIn(s, h1) \in Members /\ ReadIn(s, h1)[x] = h1[x]
        /\ \A z \in Expecteds : z # x => ReadIn(s, h1)[z] = ReadIn(s, h)[z]

LEMMA GivenElsewhere ==
    ASSUME NEW x, NEW h, NEW l, NEW c
    PROVE  Elsewhere(Given(c), x, c, h, l) /\ Elsewhere(Local, x, l, h, l)
    BY Sources DEF Elsewhere

LEMMA CopyElsewhere ==
    ASSUME NEW x, NEW h, NEW l, NEW y \in Expecteds, y # x, NEW m
    PROVE  Elsewhere(CopyOf(y, m), x, h[y][m], h, l)
    BY Sources DEF Elsewhere

LEMMA MoveElsewhere ==
    ASSUME NEW x \in Expecteds, NEW h \in Members, NEW l, NEW y \in Expecteds, y # x, NEW m \in UnionMembers
    PROVE  Elsewhere(MoveOf(y, m), x, h[y][m], h, l)
<1> SUFFICES ASSUME NEW h1 \in Members, \A z \in Expecteds : z # x => h1[z] = h[z]
             PROVE  /\ ContentIn(MoveOf(y, m), h1, l) = h[y][m] /\ ReadIn(MoveOf(y, m), h1) \in Members
                    /\ ReadIn(MoveOf(y, m), h1)[x] = h1[x]
                    /\ \A z \in Expecteds : z # x => ReadIn(MoveOf(y, m), h1)[z] = ReadIn(MoveOf(y, m), h)[z]
    BY DEF Elsewhere
<1>1. Husk \in Cells
    BY DeadIsNotWhole
<1>2. PICK g : g = Changed(h, y, m, Husk)
    OBVIOUS
<1>3. PICK g1 : g1 = Changed(h1, y, m, Husk)
    OBVIOUS
<1>4. ReadIn(MoveOf(y, m), h) = g /\ ReadIn(MoveOf(y, m), h1) = g1 /\ ContentIn(MoveOf(y, m), h1, l) = h1[y][m]
    BY <1>2, <1>3, Sources
<1>5. g1 \in Members /\ \A z \in Expecteds : z # y => g1[z] = h1[z]
    BY <1>1, <1>3, ChangedIs DEF IsChanged
<1>6. \A z \in Expecteds : z # y => g[z] = h[z]
    BY <1>1, <1>2, ChangedIs DEF IsChanged
<1>7. g1[y] = g[y]
    BY <1>2, <1>3 DEF Changed, Members
<1> QED
    BY <1>4, <1>5, <1>6, <1>7

-----------------------------------------------------------------------------
LEMMA LeadsOne ==
    ASSUME NEW a, NEW h, NEW l, NEW h2, NEW l2, NEW from, NEW tr, Step(a, h, l, h2, l2, from, tr)
    PROVE  Leads(h, l, <<a>>, from, h2, tr)
<1>1. Precedes(a, <<>>, <<a>>)
    BY DEF Precedes
<1>2. Leads(h2, l2, <<>>, from, h2, tr)
    BY LeadsNowhere
<1> QED
    BY <1>1, <1>2, LeadsFirst

LEMMA LeadsTwo ==
    ASSUME NEW a, NEW b, NEW h, NEW l, NEW h1, NEW l1, NEW to, NEW from, NEW tr,
           Step(a, h, l, h1, l1, from, tr), Leads(h1, l1, <<b>>, from, to, tr)
    PROVE  Leads(h, l, <<a, b>>, from, to, tr)
<1>1. Precedes(a, <<b>>, <<a, b>>)
    BY DEF Precedes
<1> QED
    BY <1>1, LeadsFirst

LEMMA LeadsThree ==
    ASSUME NEW a, NEW b, NEW c, NEW h, NEW l, NEW h1, NEW l1, NEW to, NEW from, NEW tr,
           Step(a, h, l, h1, l1, from, tr), Leads(h1, l1, <<b, c>>, from, to, tr)
    PROVE  Leads(h, l, <<a, b, c>>, from, to, tr)
<1>1. Precedes(a, <<b, c>>, <<a, b, c>>)
    BY DEF Precedes
<1> QED
    BY <1>1, LeadsFirst

LEMMA LeadsFour ==
    ASSUME NEW a, NEW b, NEW c, NEW d, NEW h, NEW l, NEW h1, NEW l1, NEW to, NEW from, NEW tr,
           Step(a, h, l, h1, l1, from, tr), Leads(h1, l1, <<b, c, d>>, from, to, tr)
    PROVE  Leads(h, l, <<a, b, c, d>>, from, to, tr)
<1>1. Precedes(a, <<b, c, d>>, <<a, b, c, d>>)
    BY DEF Precedes
<1> QED
    BY <1>1, LeadsFirst

LEMMA LeadsJoined ==
    ASSUME NEW a, NEW b, NEW c, NEW d, NEW e, NEW h, NEW l, NEW h1, NEW l1, NEW to, NEW from, NEW tr,
           Step(a, h, l, h1, l1, from, tr), Leads(h1, l1, <<b, c, d, e>>, from, to, tr)
    PROVE  Leads(h, l, <<a>> \o <<b, c, d, e>>, from, to, tr)
<1>1. PICK t : t = <<b, c, d, e>>
    OBVIOUS
<1>2. PICK S : S = {a, b, c, d, e}
    OBVIOUS
<1>3. t \in Seq(S) /\ <<a>> \in Seq(S) /\ Len(<<a>>) = 1 /\ <<a>>[1] = a
    BY <1>1, <1>2
<1>4. Precedes(a, t, <<a>> \o t)
    BY <1>3, ConcatProperties, LenProperties DEF Precedes
<1>5. Leads(h1, l1, t, from, to, tr)
    BY <1>1
<1>6. Leads(h, l, <<a>> \o t, from, to, tr)
    BY <1>4, <1>5, LeadsFirst
<1> QED
    BY <1>1, <1>6

LEMMA LeadsSeven ==
    ASSUME NEW a, NEW b, NEW c, NEW d, NEW e, NEW f, NEW g, NEW h, NEW l, NEW h1, NEW l1, NEW h2, NEW l2,
           NEW h3, NEW l3, NEW h4, NEW l4, NEW to, NEW from, NEW tr,
           Step(a, h, l, h1, l1, from, tr), Step(b, h1, l1, h2, l2, from, tr), Step(c, h2, l2, h3, l3, from, tr),
           Step(d, h3, l3, h4, l4, from, tr), Leads(h4, l4, <<e, f, g>>, from, to, tr)
    PROVE  Leads(h, l, <<a, b, c, d, e, f, g>>, from, to, tr)
<1>1. Precedes(c, <<d, e, f, g>>, <<c, d, e, f, g>>)
    BY DEF Precedes
<1>2. Precedes(b, <<c, d, e, f, g>>, <<b, c, d, e, f, g>>)
    BY DEF Precedes
<1>3. Precedes(a, <<b, c, d, e, f, g>>, <<a, b, c, d, e, f, g>>)
    BY DEF Precedes
<1>4. Leads(h3, l3, <<d, e, f, g>>, from, to, tr)
    BY LeadsFour
<1>5. Leads(h2, l2, <<c, d, e, f, g>>, from, to, tr)
    BY <1>1, <1>4, LeadsFirst
<1>6. Leads(h1, l1, <<b, c, d, e, f, g>>, from, to, tr)
    BY <1>2, <1>5, LeadsFirst
<1> QED
    BY <1>3, <1>6, LeadsFirst

-----------------------------------------------------------------------------
\* One member goes, the other one comes.
LEMMA Replaces ==
    ASSUME NEW h \in Members, NEW x \in Expecteds, NEW m \in UnionMembers, NEW n \in UnionMembers, m # n,
           h[x][m] # Dead, h[x][n] = Dead, NEW b \in BOOLEAN, NEW s, NEW c \in Cells, NEW l,
           Elsewhere(s, x, c, h, l), NEW risk, NEW from, NEW tr,
           Spared(risk, x, m, h, from, tr),
           NEW to \in Members, to[x].has = b, to[x][n] = c, to[x][m] = Dead,
           \A z \in Expecteds : z # x => to[z] = ReadIn(s, h)[z]
    PROVE  Leads(h, l, <<Kill(x, m), Make(x, n, s, risk), Flag(x, b)>>, from, to, tr)
<1>1. PICK h1 : h1 = Changed(h, x, m, Dead)
    OBVIOUS
<1>2. /\ h1 \in Members /\ h1[x].has = h[x].has /\ \A z \in Expecteds : z # x => h1[z] = h[z]
      /\ \A k \in UnionMembers : h1[x][k] = Dead
  <2>1. h1 \in Members /\ IsChanged(h, x, m, Dead, h1)
      BY <1>1, DeadIsNotWhole, ChangedIs
  <2>2. \A k \in UnionMembers : k = m \/ k = n
      BY DEF UnionMembers
  <2> QED BY <2>1, <2>2 DEF IsChanged
<1>3. PICK g : g = ReadIn(s, h1)
    OBVIOUS
<1>4. /\ g \in Members /\ ContentIn(s, h1, l) = c /\ g[x] = h1[x]
      /\ \A z \in Expecteds : z # x => g[z] = to[z]
    BY <1>2, <1>3 DEF Elsewhere
<1>5. PICK h2 : h2 = Changed(g, x, n, c)
    OBVIOUS
<1>6. /\ h2 \in Members /\ h2[x][n] = c /\ h2[x][m] = Dead
      /\ \A z \in Expecteds : z # x => h2[z] = to[z]
  <2>1. h2 \in Members /\ IsChanged(g, x, n, c, h2)
      BY <1>4, <1>5, ChangedIs
  <2> QED BY <2>1, <1>2, <1>4 DEF IsChanged
<1>7. PICK h3 : h3 = Flagged(h2, x, b)
    OBVIOUS
<1>8. h3 = to
  <2>1. h3 \in Members /\ IsFlagged(h2, x, b, h3)
      BY <1>6, <1>7, FlaggedIs
  <2>2. \A k \in UnionMembers : k = m \/ k = n
      BY DEF UnionMembers
  <2>3. \A k \in UnionMembers : h3[x][k] = to[x][k]
      BY <2>1, <2>2, <1>6 DEF IsFlagged
  <2>4. \A z \in Expecteds : h3[z].has = to[z].has /\ \A k \in UnionMembers : h3[z][k] = to[z][k]
      BY <2>1, <2>3, <1>6 DEF IsFlagged
  <2> QED BY <2>1, <2>4, SameMembers
<1>9. Step(Kill(x, m), h, l, h1, l, from, tr)
    BY <1>1, KillStep
<1>10. Step(Make(x, n, s, risk), h1, l, h2, l, from, tr)
  <2>1. Spared(risk, x, m, h1, from, tr)
      BY <1>2 DEF Spared
  <2>2. \A j \in UnionMembers : h1[x][j] = Dead
      BY <1>2
  <2>3. c = ContentIn(s, h1, l)
      BY <1>4
  <2> QED BY <2>1, <2>2, <2>3, <1>3, <1>5, MakeStep
<1>11. Step(Flag(x, b), h2, l, h3, l, from, tr)
    BY <1>6, <1>7, FlagStep
<1>12. Leads(h2, l, <<Flag(x, b)>>, from, to, tr)
    BY <1>8, <1>11, LeadsOne
<1>13. Leads(h1, l, <<Make(x, n, s, risk), Flag(x, b)>>, from, to, tr)
    BY <1>10, <1>12, LeadsTwo
<1> QED
    BY <1>9, <1>13, LeadsThree

\* The object is destroyed and another is constructed in its place.
LEMMA Rebuilds ==
    ASSUME NEW h \in Members, NEW x \in Expecteds, NEW m \in UnionMembers, NEW n \in UnionMembers,
           h[x][m] # Dead, \A k \in UnionMembers : k # m => h[x][k] = Dead,
           NEW b \in BOOLEAN, NEW s, NEW c \in Cells, NEW l,
           Elsewhere(s, x, c, h, l), NEW risk, NEW from, NEW tr, Quiet(risk),
           NEW to \in Members, to[x].has = b, to[x][n] = c, \A k \in UnionMembers : k # n => to[x][k] = Dead,
           \A z \in Expecteds : z # x => to[z] = ReadIn(s, h)[z]
    PROVE  Leads(h, l, <<Kill(x, m), Flag(x, FALSE), Make(x, n, s, risk), Flag(x, b)>>, from, to, tr)
<1>1. PICK h0 : h0 = Changed(h, x, m, Dead)
    OBVIOUS
<1>2. /\ h0 \in Members /\ \A z \in Expecteds : z # x => h0[z] = h[z]
      /\ \A k \in UnionMembers : h0[x][k] = Dead
  <2>1. h0 \in Members /\ IsChanged(h, x, m, Dead, h0)
      BY <1>1, DeadIsNotWhole, ChangedIs
  <2> QED BY <2>1 DEF IsChanged
<1>3. PICK h1 : h1 = Flagged(h0, x, FALSE)
    OBVIOUS
<1>4. /\ h1 \in Members /\ \A z \in Expecteds : z # x => h1[z] = h[z]
      /\ \A k \in UnionMembers : h1[x][k] = Dead
  <2>1. h1 \in Members /\ IsFlagged(h0, x, FALSE, h1)
      BY <1>2, <1>3, FlaggedIs
  <2> QED BY <2>1, <1>2 DEF IsFlagged
<1>5. PICK g : g = ReadIn(s, h1)
    OBVIOUS
<1>6. /\ g \in Members /\ ContentIn(s, h1, l) = c /\ g[x] = h1[x]
      /\ \A z \in Expecteds : z # x => g[z] = to[z]
    BY <1>4, <1>5 DEF Elsewhere
<1>7. PICK h2 : h2 = Changed(g, x, n, c)
    OBVIOUS
<1>8. /\ h2 \in Members /\ h2[x][n] = c /\ \A k \in UnionMembers : k # n => h2[x][k] = Dead
      /\ \A z \in Expecteds : z # x => h2[z] = to[z]
  <2>1. h2 \in Members /\ IsChanged(g, x, n, c, h2)
      BY <1>6, <1>7, ChangedIs
  <2> QED BY <2>1, <1>4, <1>6 DEF IsChanged
<1>9. PICK h3 : h3 = Flagged(h2, x, b)
    OBVIOUS
<1>10. h3 = to
  <2>1. h3 \in Members /\ IsFlagged(h2, x, b, h3)
      BY <1>8, <1>9, FlaggedIs
  <2>2. \A k \in UnionMembers : h3[x][k] = to[x][k]
      BY <2>1, <1>8 DEF IsFlagged
  <2>3. \A z \in Expecteds : h3[z].has = to[z].has /\ \A k \in UnionMembers : h3[z][k] = to[z][k]
      BY <2>1, <2>2, <1>8 DEF IsFlagged
  <2> QED BY <2>1, <2>3, SameMembers
<1>11. Step(Kill(x, m), h, l, h0, l, from, tr)
    BY <1>1, KillStep
<1>12. Step(Flag(x, FALSE), h0, l, h1, l, from, tr)
    BY <1>2, <1>3, FlagStep
<1>13. Step(Make(x, n, s, risk), h1, l, h2, l, from, tr)
  <2>1. Spared(risk, x, m, h1, from, tr)
      BY DEF Spared, Quiet
  <2>2. \A j \in UnionMembers : h1[x][j] = Dead
      BY <1>4
  <2>3. c = ContentIn(s, h1, l)
      BY <1>6
  <2> QED BY <2>1, <2>2, <2>3, <1>5, <1>7, MakeStep
<1>14. Step(Flag(x, b), h2, l, h3, l, from, tr)
    BY <1>8, <1>9, FlagStep
<1>15. Leads(h2, l, <<Flag(x, b)>>, from, to, tr)
    BY <1>10, <1>14, LeadsOne
<1>16. Leads(h1, l, <<Make(x, n, s, risk), Flag(x, b)>>, from, to, tr)
    BY <1>13, <1>15, LeadsTwo
<1>17. Leads(h0, l, <<Flag(x, FALSE), Make(x, n, s, risk), Flag(x, b)>>, from, to, tr)
    BY <1>12, <1>16, LeadsThree
<1> QED
    BY <1>11, <1>17, LeadsFour

\* The members of two objects that are alive change places.
LEMMA SwapsSame ==
    ASSUME NEW h \in Members, NEW x \in Expecteds, NEW y \in Expecteds, x # y, NEW m \in UnionMembers,
           h[x][m] \in Whole, h[y][m] \in Whole, NEW l, NEW from, NEW tr, NEW to \in Members,
           to[x].has = h[x].has, to[y].has = h[y].has, to[x][m] = h[y][m], to[y][m] = h[x][m],
           \A k \in UnionMembers : k # m => to[x][k] = h[x][k] /\ to[y][k] = h[y][k],
           \A z \in Expecteds : z # x /\ z # y => to[z] = h[z]
    PROVE  Leads(h, l, <<Save(MoveOf(x, m), Never), Set(x, m, MoveOf(y, m), Never), Set(y, m, Local, Never)>>,
                 from, to, tr)
<1>0. /\ Husk \in Cells /\ Husk # Dead /\ h[x][m] \in Cells /\ h[y][m] \in Cells
      /\ h[x][m] # Dead /\ h[y][m] # Dead /\ Quiet(Never)
    BY DeadIsNotWhole, Risks
<1>1. PICK p : p = h[x][m]
    OBVIOUS
<1>2. PICK q : q = h[y][m]
    OBVIOUS
<1>3. PICK h1 : h1 = Changed(h, x, m, Husk)
    OBVIOUS
<1>4. h1 \in Members /\ IsChanged(h, x, m, Husk, h1)
    BY <1>0, <1>3, ChangedIs
<1>5. PICK g : g = Changed(h1, y, m, Husk)
    OBVIOUS
<1>6. g \in Members /\ IsChanged(h1, y, m, Husk, g)
    BY <1>0, <1>4, <1>5, ChangedIs
<1>7. PICK h2 : h2 = Changed(g, x, m, q)
    OBVIOUS
<1>8. h2 \in Members /\ IsChanged(g, x, m, q, h2)
    BY <1>0, <1>2, <1>6, <1>7, ChangedIs
<1>9. PICK h3 : h3 = Changed(h2, y, m, p)
    OBVIOUS
<1>10. h3 \in Members /\ IsChanged(h2, y, m, p, h3)
    BY <1>0, <1>1, <1>8, <1>9, ChangedIs
<1>11. h3 = to
  <2>1. h3[x].has = to[x].has /\ \A k \in UnionMembers : h3[x][k] = to[x][k]
      BY <1>2, <1>4, <1>6, <1>8, <1>10 DEF IsChanged
  <2>2. h3[y].has = to[y].has /\ \A k \in UnionMembers : h3[y][k] = to[y][k]
      BY <1>1, <1>4, <1>6, <1>8, <1>10 DEF IsChanged
  <2>3. \A z \in Expecteds : z # x /\ z # y => h3[z] = to[z]
      BY <1>4, <1>6, <1>8, <1>10 DEF IsChanged
  <2>4. \A z \in Expecteds : h3[z].has = to[z].has /\ \A k \in UnionMembers : h3[z][k] = to[z][k]
      BY <2>1, <2>2, <2>3
  <2> QED BY <2>4, <1>10, SameMembers
<1>12. Step(Save(MoveOf(x, m), Never), h, l, h1, p, from, tr)
  <2>1. ReadIn(MoveOf(x, m), h) = h1 /\ ContentIn(MoveOf(x, m), h, l) = p
      BY <1>1, <1>3, Sources
  <2>2. Mild(Never, h, from)
      BY Risks
  <2> QED BY <2>1, <2>2, SaveStep
<1>13. Step(Set(x, m, MoveOf(y, m), Never), h1, p, h2, p, from, tr)
  <2>1. ReadIn(MoveOf(y, m), h1) = g /\ ContentIn(MoveOf(y, m), h1, p) = q
      BY <1>2, <1>4, <1>5, Sources DEF IsChanged
  <2>2. h1[x][m] # Dead
      BY <1>0, <1>4 DEF IsChanged
  <2>3. Mild(Never, h1, from)
      BY Risks
  <2> QED BY <2>1, <2>2, <2>3, <1>7, SetStep
<1>14. Step(Set(y, m, Local, Never), h2, p, h3, p, from, tr)
  <2>1. ReadIn(Local, h2) = h2 /\ ContentIn(Local, h2, p) = p
      BY Sources
  <2>2. h2[y][m] # Dead
      BY <1>0, <1>6, <1>8 DEF IsChanged
  <2>3. Mild(Never, h2, from)
      BY Risks
  <2> QED BY <2>1, <2>2, <2>3, <1>9, SetStep
<1>15. Leads(h2, p, <<Set(y, m, Local, Never)>>, from, to, tr)
    BY <1>11, <1>14, LeadsOne
<1>16. Leads(h1, p, <<Set(x, m, MoveOf(y, m), Never), Set(y, m, Local, Never)>>, from, to, tr)
    BY <1>13, <1>15, LeadsTwo
<1> QED
    BY <1>12, <1>16, LeadsThree

\* What is read from the member n of y leaves it alive.
LeavesAlive(r, s, h, x, y, m, n) ==
    /\ r = ReadIn(s, h) /\ r[y][n] # Dead /\ r[y][m] = Dead
    /\ \A z \in Expecteds : z # x /\ z # y => r[z] = h[z]

\* f and g are x and y.
Both(f, g, x, y) == (f = x /\ g = y) \/ (f = y /\ g = x)

\* The member of x goes aside, that of y comes to x, and the one aside to y.
LEMMA SwapsOther ==
    ASSUME NEW h \in Members, NEW x \in Expecteds, NEW y \in Expecteds, x # y,
           NEW m \in UnionMembers, NEW n \in UnionMembers, m # n,
           h[x][m] \in Whole, h[x][n] = Dead, h[y][n] \in Whole, h[y][m] = Dead,
           NEW s, \A l : Elsewhere(s, x, h[y][n], h, l), NEW r, LeavesAlive(r, s, h, x, y, m, n),
           NEW risk, NEW l, NEW tr, GivenUp(risk, x, m, tr),
           NEW to \in Members, to[x][n] = h[y][n], to[x][m] = Dead, to[y][m] = h[x][m], to[y][n] = Dead,
           \A z \in Expecteds : z # x /\ z # y => to[z] = h[z],
           NEW f \in Expecteds, NEW g \in Expecteds, Both(f, g, x, y)
    PROVE  Leads(h, l, <<Save(MoveOf(x, m), Never), Kill(x, m), Make(x, n, s, risk), Kill(y, n),
                         Make(y, m, Local, Never), Flag(f, to[f].has), Flag(g, to[g].has)>>, h, to, tr)
<1>0. /\ Husk \in Cells /\ Husk # Dead /\ Dead \in Cells /\ h[x][m] \in Cells /\ h[y][n] \in Cells
      /\ Quiet(Never) /\ \A k \in UnionMembers : k = m \/ k = n
    BY DeadIsNotWhole, Risks DEF UnionMembers
<1>r. /\ r = ReadIn(s, h) /\ r[y][n] # Dead /\ r[y][m] = Dead
       /\ \A z \in Expecteds : z # x /\ z # y => r[z] = h[z]
    BY DEF LeavesAlive
<1>1. PICK p \in Cells : p = h[x][m]
    BY <1>0
<1>2. PICK q \in Cells : q = h[y][n]
    BY <1>0
<1>3. PICK h1 : h1 = Changed(h, x, m, Husk)
    OBVIOUS
<1>4. h1 \in Members /\ IsChanged(h, x, m, Husk, h1)
    BY <1>0, <1>3, ChangedIs
<1>5. PICK h2 : h2 = Changed(h1, x, m, Dead)
    OBVIOUS
<1>6. h2 \in Members /\ IsChanged(h1, x, m, Dead, h2)
    BY <1>0, <1>4, <1>5, ChangedIs
<1>7. /\ \A k \in UnionMembers : h2[x][k] = Dead
      /\ \A z \in Expecteds : z # x => h2[z] = h[z]
    BY <1>0, <1>4, <1>6 DEF IsChanged
<1>8. PICK r2 : r2 = ReadIn(s, h2)
    OBVIOUS
<1>9. /\ r2 \in Members /\ ContentIn(s, h2, p) = q /\ r2[x] = h2[x]
      /\ \A z \in Expecteds : z # x => r2[z] = r[z]
    BY <1>r, <1>2, <1>6, <1>7, <1>8 DEF Elsewhere
<1>10. PICK h3 : h3 = Changed(r2, x, n, q)
    OBVIOUS
<1>11. h3 \in Members /\ IsChanged(r2, x, n, q, h3)
    BY <1>9, <1>10, ChangedIs
<1>12. PICK h4 : h4 = Changed(h3, y, n, Dead)
    OBVIOUS
<1>13. h4 \in Members /\ IsChanged(h3, y, n, Dead, h4)
    BY <1>0, <1>11, <1>12, ChangedIs
<1>14. PICK h5 : h5 = Changed(h4, y, m, p)
    OBVIOUS
<1>15. h5 \in Members /\ IsChanged(h4, y, m, p, h5)
    BY <1>13, <1>14, ChangedIs
<1>16. PICK b \in BOOLEAN : b = to[f].has
    BY DEF Members
<1>17. PICK d \in BOOLEAN : d = to[g].has
    BY DEF Members
<1>18. PICK h6 : h6 = Flagged(h5, f, b)
    OBVIOUS
<1>19. h6 \in Members /\ IsFlagged(h5, f, b, h6)
    BY <1>15, <1>18, FlaggedIs
<1>20. PICK h7 : h7 = Flagged(h6, g, d)
    OBVIOUS
<1>21. h7 \in Members /\ IsFlagged(h6, g, d, h7)
    BY <1>19, <1>20, FlaggedIs
<1>22. h3[y] = r[y] /\ h3[x][n] = q /\ h3[x][m] = Dead /\ \A z \in Expecteds : z # x /\ z # y => h3[z] = h[z]
    BY <1>r, <1>7, <1>9, <1>11 DEF IsChanged
<1>23. /\ h4[x] = h3[x] /\ h4[y][n] = Dead /\ h4[y][m] = Dead
       /\ \A z \in Expecteds : z # x /\ z # y => h4[z] = h[z]
    BY <1>r, <1>13, <1>22 DEF IsChanged
<1>24. /\ h5[x][n] = q /\ h5[x][m] = Dead /\ h5[y][n] = Dead /\ h5[y][m] = p
       /\ \A z \in Expecteds : z # x /\ z # y => h5[z] = h[z]
    BY <1>15, <1>22, <1>23 DEF IsChanged
<1>25. \A z \in Expecteds : \A k \in UnionMembers : h5[z][k] = to[z][k]
    BY <1>0, <1>1, <1>2, <1>24
<1>26. \A z \in Expecteds : \A k \in UnionMembers : h7[z][k] = h5[z][k]
    BY <1>19, <1>21 DEF IsFlagged
<1>27. f # g /\ \A z \in Expecteds : z # f /\ z # g => z # x /\ z # y
    BY DEF Both
<1>28. h7[g].has = d /\ h7[f].has = b /\ \A z \in Expecteds : z # f /\ z # g => h7[z].has = h5[z].has
    BY <1>19, <1>21, <1>27 DEF IsFlagged
<1>29. h7 = to
  <2>1. \A z \in Expecteds : h7[z].has = to[z].has
      BY <1>16, <1>17, <1>24, <1>27, <1>28
  <2>2. \A z \in Expecteds : h7[z].has = to[z].has /\ \A k \in UnionMembers : h7[z][k] = to[z][k]
      BY <2>1, <1>25, <1>26
  <2> QED BY <2>2, <1>21, SameMembers
<1>30. Step(Save(MoveOf(x, m), Never), h, l, h1, p, h, tr)
  <2>1. ReadIn(MoveOf(x, m), h) = h1 /\ ContentIn(MoveOf(x, m), h, l) = p /\ Mild(Never, h, h)
      BY <1>1, <1>3, Sources, Risks
  <2> QED BY <2>1, SaveStep
<1>31. Step(Kill(x, m), h1, p, h2, p, h, tr)
  <2>1. h1[x][m] # Dead
      BY <1>0, <1>4 DEF IsChanged
  <2> QED BY <2>1, <1>4, <1>5, KillStep
<1>32. Step(Make(x, n, s, risk), h2, p, h3, p, h, tr)
  <2>1. Spared(risk, x, m, h2, h, tr)
      BY <1>7 DEF Spared
  <2>2. \A j \in UnionMembers : h2[x][j] = Dead
      BY <1>7
  <2>3. q = ContentIn(s, h2, p)
      BY <1>9
  <2> QED BY <2>1, <2>2, <2>3, <1>8, <1>10, MakeStep
<1>33. Step(Kill(y, n), h3, p, h4, p, h, tr)
  <2>1. h3[y][n] # Dead
      BY <1>r, <1>22
  <2> QED BY <2>1, <1>11, <1>12, KillStep
<1>34. Step(Make(y, m, Local, Never), h4, p, h5, p, h, tr)
  <2>1. Spared(Never, y, m, h4, h, tr)
      BY <1>0 DEF Spared
  <2>2. \A j \in UnionMembers : h4[y][j] = Dead
      BY <1>0, <1>23
  <2>3. h4 = ReadIn(Local, h4) /\ p = ContentIn(Local, h4, p)
      BY Sources
  <2> QED BY <2>1, <2>2, <2>3, <1>14, MakeStep
<1>35. Step(Flag(f, b), h5, p, h6, p, h, tr)
    BY <1>15, <1>18, FlagStep
<1>36. Step(Flag(g, d), h6, p, h7, p, h, tr)
    BY <1>19, <1>20, FlagStep
<1>37. Leads(h6, p, <<Flag(g, d)>>, h, to, tr)
    BY <1>29, <1>36, LeadsOne
<1>38. Leads(h5, p, <<Flag(f, b), Flag(g, d)>>, h, to, tr)
    BY <1>35, <1>37, LeadsTwo
<1>39. Leads(h4, p, <<Make(y, m, Local, Never), Flag(f, b), Flag(g, d)>>, h, to, tr)
    BY <1>34, <1>38, LeadsThree
<1>40. Leads(h, l, <<Save(MoveOf(x, m), Never), Kill(x, m), Make(x, n, s, risk), Kill(y, n),
                     Make(y, m, Local, Never), Flag(f, b), Flag(g, d)>>, h, to, tr)
    BY <1>30, <1>31, <1>32, <1>33, <1>39, LeadsSeven
<1> QED
    BY <1>16, <1>17, <1>40

-----------------------------------------------------------------------------
LiveIn(o) == IF o.has THEN "val" ELSE "err"

LEMMA LiveIs ==
    ASSUME NEW h \in AllSound, NEW z \in Expecteds, NEW m, m = LiveIn(h[z])
    PROVE  /\ h \in Members /\ m \in UnionMembers /\ h[z].has \in BOOLEAN /\ h[z].has = (m = "val")
           /\ h[z][m] \in Whole /\ h[z][m] \in Cells /\ h[z][m] # Dead
           /\ \A k \in UnionMembers : k # m => h[z][k] = Dead
<1>1. /\ h \in Members /\ (h[z].has => h[z]["val"] \in Whole /\ h[z]["err"] = Dead)
      /\ (~h[z].has => h[z]["err"] \in Whole /\ h[z]["val"] = Dead)
    BY SoundIs
<1>2. h[z].has \in BOOLEAN
    BY <1>1 DEF Members
<1>3. m \in UnionMembers /\ h[z].has = (m = "val")
    BY <1>2 DEF LiveIn, UnionMembers
<1>4. h[z][m] \in Whole /\ \A k \in UnionMembers : k # m => h[z][k] = Dead
    BY <1>1, <1>2 DEF LiveIn, UnionMembers
<1> QED
    BY <1>1, <1>2, <1>3, <1>4, DeadIsNotWhole

LEMMA SoundMembers ==
    ASSUME NEW c \in Whole
    PROVE  /\ Value(c) \in Sound /\ Value(c).has = TRUE /\ Value(c)["val"] = c /\ Value(c)["err"] = Dead
           /\ Error(c) \in Sound /\ Error(c).has = FALSE /\ Error(c)["err"] = c /\ Error(c)["val"] = Dead
    BY DEF Sound, Value, Error

\* A sequence of at least one access.
IsCall(t) == t # <<>> /\ \E S : t \in Seq(S)

LEMMA Calls ==
    /\ \A a : IsCall(<<a>>)
    /\ \A a, b : IsCall(<<a, b>>)
    /\ \A a, b, c : IsCall(<<a, b, c>>)
    /\ \A a, b, c, d : IsCall(<<a, b, c, d>>)
    /\ \A a, b, c, d, e : IsCall(<<a>> \o <<b, c, d, e>>)
    /\ \A a, b, c, d, e, f, g : IsCall(<<a, b, c, d, e, f, g>>)
<1>1. \A a : <<a>> \in Seq({a}) /\ <<a>> # <<>>
    OBVIOUS
<1>2. \A a, b : <<a, b>> \in Seq({a, b}) /\ <<a, b>> # <<>>
    OBVIOUS
<1>3. \A a, b, c : <<a, b, c>> \in Seq({a, b, c}) /\ <<a, b, c>> # <<>>
    OBVIOUS
<1>4. \A a, b, c, d : <<a, b, c, d>> \in Seq({a, b, c, d}) /\ <<a, b, c, d>> # <<>>
    OBVIOUS
<1>5. ASSUME NEW a, NEW b, NEW c, NEW d, NEW e PROVE IsCall(<<a>> \o <<b, c, d, e>>)
  <2>1. PICK S : S = {a, b, c, d, e}
      OBVIOUS
  <2>2. <<a>> \in Seq(S) /\ <<b, c, d, e>> \in Seq(S) /\ Len(<<a>>) = 1
      BY <2>1
  <2>3. PICK t : t = <<b, c, d, e>>
      OBVIOUS
  <2>4. <<a>> \o t \in Seq(S) /\ Len(<<a>> \o t) = 1 + Len(t) /\ Len(t) \in Nat
      BY <2>2, <2>3, ConcatProperties, LenProperties
  <2>5. <<a>> \o t # <<>>
      BY <2>4
  <2> QED BY <2>3, <2>4, <2>5 DEF IsCall
<1>6. \A a, b, c, d, e, f, g : <<a, b, c, d, e, f, g>> \in Seq({a, b, c, d, e, f, g}) /\ <<a, b, c, d, e, f, g>> # <<>>
    OBVIOUS
<1>7. \A a : IsCall(<<a>>)
    BY <1>1 DEF IsCall
<1>8. \A a, b : IsCall(<<a, b>>)
    BY <1>2 DEF IsCall
<1>9. \A a, b, c : IsCall(<<a, b, c>>)
    BY <1>3 DEF IsCall
<1>10. \A a, b, c, d : IsCall(<<a, b, c, d>>)
    BY <1>4 DEF IsCall
<1>11. \A a, b, c, d, e, f, g : IsCall(<<a, b, c, d, e, f, g>>)
    BY <1>6 DEF IsCall
<1> QED
    BY <1>5, <1>7, <1>8, <1>9, <1>10, <1>11

LEMMA ElsewhereStill ==
    ASSUME NEW s, NEW x, NEW c, NEW h, NEW l, Elsewhere(s, x, c, h, l),
           NEW h1 \in Members, \A z \in Expecteds : z # x => h1[z] = h[z]
    PROVE  /\ Elsewhere(s, x, c, h1, l)
           /\ \A z \in Expecteds : z # x => ReadIn(s, h1)[z] = ReadIn(s, h)[z]
<1>1. \A z \in Expecteds : z # x => ReadIn(s, h1)[z] = ReadIn(s, h)[z]
    BY DEF Elsewhere
<1>2. ASSUME NEW h2 \in Members, \A z \in Expecteds : z # x => h2[z] = h1[z]
      PROVE  /\ ContentIn(s, h2, l) = c /\ ReadIn(s, h2) \in Members /\ ReadIn(s, h2)[x] = h2[x]
             /\ \A z \in Expecteds : z # x => ReadIn(s, h2)[z] = ReadIn(s, h1)[z]
  <2>1. \A z \in Expecteds : z # x => h2[z] = h[z]
      BY <1>2
  <2>2. /\ ContentIn(s, h2, l) = c /\ ReadIn(s, h2) \in Members /\ ReadIn(s, h2)[x] = h2[x]
        /\ \A z \in Expecteds : z # x => ReadIn(s, h2)[z] = ReadIn(s, h)[z]
      BY <1>2, <2>1 DEF Elsewhere
  <2> QED BY <2>2, <1>1
<1> QED
    BY <1>1, <1>2 DEF Elsewhere

\* The error is kept aside, and the value comes in its place.
LEMMA ReplacesKept ==
    ASSUME NEW h \in AllSound, NEW x \in Expecteds, ~h[x].has, NEW s, NEW c \in Whole,
           \A l : Elsewhere(s, x, c, h, l), NEW save, NEW risk, NEW tr, NEW l,
           Mild(save, h, h), Spared(risk, x, "err", h, h, tr),
           NEW to \in AllSound, to[x] = Value(c), \A z \in Expecteds : z # x => to[z] = ReadIn(s, h)[z]
    PROVE  Leads(h, l, <<Save(MoveOf(x, "err"), save), Kill(x, "err"), Make(x, "val", s, risk), Flag(x, TRUE)>>,
                 h, to, tr)
<1>1. /\ h \in Members /\ h[x]["val"] = Dead /\ to \in Members /\ Husk \in Cells /\ Husk # Dead /\ c \in Cells
      /\ "err" \in UnionMembers /\ "val" \in UnionMembers /\ "val" # "err"
    BY SoundIs, DeadIsNotWhole DEF UnionMembers
<1>2. PICK h1 : h1 = Changed(h, x, "err", Husk)
    OBVIOUS
<1>3. h1 \in Members /\ IsChanged(h, x, "err", Husk, h1)
    BY <1>1, <1>2, ChangedIs
<1>4. /\ h1[x]["err"] # Dead /\ h1[x]["val"] = Dead
      /\ \A z \in Expecteds : z # x => h1[z] = h[z]
    BY <1>1, <1>3 DEF IsChanged
<1>5. PICK p : p = h[x]["err"]
    OBVIOUS
<1>6. Step(Save(MoveOf(x, "err"), save), h, l, h1, p, h, tr)
  <2>1. h1 = ReadIn(MoveOf(x, "err"), h) /\ p = ContentIn(MoveOf(x, "err"), h, l)
      BY <1>2, <1>5, Sources
  <2> QED BY <2>1, SaveStep
<1>7. /\ Elsewhere(s, x, c, h1, p)
      /\ \A z \in Expecteds : z # x => to[z] = ReadIn(s, h1)[z]
  <2>1. Elsewhere(s, x, c, h, p)
      OBVIOUS
  <2>2. /\ Elsewhere(s, x, c, h1, p)
        /\ \A z \in Expecteds : z # x => ReadIn(s, h1)[z] = ReadIn(s, h)[z]
      BY <2>1, <1>3, <1>4, ElsewhereStill
  <2> QED BY <2>2
<1>8. Spared(risk, x, "err", h1, h, tr)
    BY <1>4 DEF Spared
<1>9. to[x].has = TRUE /\ to[x]["val"] = c /\ to[x]["err"] = Dead
    BY SoundMembers
<1>10. Leads(h1, p, <<Kill(x, "err"), Make(x, "val", s, risk), Flag(x, TRUE)>>, h, to, tr)
    BY <1>1, <1>3, <1>4, <1>7, <1>8, <1>9, Replaces
<1> QED
    BY <1>6, <1>10, LeadsFour

-----------------------------------------------------------------------------
\* The live member of x is assigned to.
LEMMA Sets ==
    ASSUME NEW h \in AllSound, NEW x \in Expecteds, NEW m, m = LiveIn(h[x]), NEW s, NEW r \in Members, r = ReadIn(s, h),
           r[x] = h[x], NEW l, NEW c \in Cells, c = ContentIn(s, h, l), NEW risk, NEW from, Mild(risk, h, from), NEW tr,
           NEW to \in Members, to[x].has = h[x].has, to[x][m] = c, \A k \in UnionMembers : k # m => to[x][k] = h[x][k],
           \A z \in Expecteds : z # x => to[z] = r[z]
    PROVE  Leads(h, l, <<Set(x, m, s, risk)>>, from, to, tr)
<1>1. h \in Members /\ m \in UnionMembers /\ h[x][m] # Dead
    BY LiveIs
<1>2. PICK g : g = Changed(r, x, m, c)
    OBVIOUS
<1>3. g \in Members /\ IsChanged(r, x, m, c, g)
    BY <1>1, <1>2, ChangedIs
<1>4. g = to
  <2>1. g[x].has = to[x].has /\ \A k \in UnionMembers : g[x][k] = to[x][k]
      BY <1>3 DEF IsChanged
  <2>2. \A z \in Expecteds : g[z].has = to[z].has /\ \A k \in UnionMembers : g[z][k] = to[z][k]
      BY <2>1, <1>3 DEF IsChanged
  <2> QED BY <2>2, <1>3, SameMembers
<1>5. Step(Set(x, m, s, risk), h, l, g, l, from, tr)
    BY <1>1, <1>2, SetStep
<1> QED
    BY <1>4, <1>5, LeadsOne

\* What is read of y by a copy or a move, and what a call should make of it.
SourceOf(how, y, m) == IF how = "copy" THEN CopyOf(y, m) ELSE MoveOf(y, m)
GoalOf(how, x, y, h, to) ==
    /\ to \in AllSound /\ to[x] = h[y]
    /\ how = "copy" => \A z \in Expecteds : z # x => to[z] = h[z]
    /\ how = "move" => x # y /\ to[y] = MovedFrom(h[y]) /\ \A z \in Expecteds : z # x /\ z # y => to[z] = h[z]

LEMMA MovedIs ==
    ASSUME NEW h \in AllSound, NEW y \in Expecteds, NEW m, m = LiveIn(h[y])
    PROVE  MovedFrom(h[y]) \in Sound /\ Changed(h, y, m, Husk)[y] = MovedFrom(h[y])
<1>1. h[y] \in Sound
    BY DEF AllSound
<1>2. Changed(h, y, m, Husk)[y] = [h[y] EXCEPT ![m] = Husk]
    BY DEF Changed, AllSound
<1>3. Husk \in Whole
    BY DEF Whole
<1>4. ASSUME NEW v \in Whole, h[y] = Value(v)
      PROVE  MovedFrom(h[y]) = Value(Husk) /\ MovedFrom(h[y]) = [h[y] EXCEPT ![m] = Husk]
  <2>1. h[y].has = TRUE
      BY <1>4 DEF Value
  <2>2. m = "val" /\ MovedFrom(h[y]) = [h[y] EXCEPT !["val"] = Husk]
      BY <2>1 DEF MovedFrom, LiveIn
  <2>3. [Value(v) EXCEPT !["val"] = Husk] = Value(Husk)
    <3>1. PICK o : o = Value(v)
        OBVIOUS
    <3>2. PICK p : p = [o EXCEPT !["val"] = Husk]
        OBVIOUS
    <3>3. PICK R : R = [has : BOOLEAN, val : {v, Husk, Dead}, err : {v, Husk, Dead}]
        OBVIOUS
    <3>4. o \in R /\ Value(Husk) \in R
        BY <3>1, <3>3 DEF Value
    <3>5. p \in R /\ p.has = Value(Husk).has /\ p.val = Value(Husk).val /\ p.err = Value(Husk).err
        BY <3>1, <3>2, <3>3, <3>4 DEF Value
    <3> QED BY <3>1, <3>2, <3>3, <3>4, <3>5
  <2> QED BY <1>4, <2>2, <2>3
<1>5. ASSUME NEW v \in Whole, h[y] = Error(v)
      PROVE  MovedFrom(h[y]) = Error(Husk) /\ MovedFrom(h[y]) = [h[y] EXCEPT ![m] = Husk]
  <2>1. h[y].has = FALSE
      BY <1>5 DEF Error
  <2>2. m = "err" /\ MovedFrom(h[y]) = [h[y] EXCEPT !["err"] = Husk]
      BY <2>1 DEF MovedFrom, LiveIn
  <2>3. [Error(v) EXCEPT !["err"] = Husk] = Error(Husk)
    <3>1. PICK o : o = Error(v)
        OBVIOUS
    <3>2. PICK p : p = [o EXCEPT !["err"] = Husk]
        OBVIOUS
    <3>3. PICK R : R = [has : BOOLEAN, val : {v, Husk, Dead}, err : {v, Husk, Dead}]
        OBVIOUS
    <3>4. o \in R /\ Error(Husk) \in R
        BY <3>1, <3>3 DEF Error
    <3>5. p \in R /\ p.has = Error(Husk).has /\ p.val = Error(Husk).val /\ p.err = Error(Husk).err
        BY <3>1, <3>2, <3>3, <3>4 DEF Error
    <3> QED BY <3>1, <3>2, <3>3, <3>4, <3>5
  <2> QED BY <1>5, <2>2, <2>3
<1>6. Value(Husk) \in Sound /\ Error(Husk) \in Sound
    BY <1>3 DEF Sound
<1> QED
    BY <1>1, <1>2, <1>4, <1>5, <1>6 DEF Sound

LEMMA GoalsAre ==
    ASSUME NEW h \in AllSound, NEW x \in Expecteds, NEW y \in Expecteds
    PROVE  /\ GoalOf("copy", x, y, h, [h EXCEPT ![x] = h[y]])
           /\ x # y => GoalOf("move", x, y, h, [h EXCEPT ![x] = h[y], ![y] = MovedFrom(@)])
<1>1. MovedFrom(h[y]) \in Sound
    BY MovedIs
<1>2. h[y] \in Sound /\ h[x] \in Sound
    BY DEF AllSound
<1>3. GoalOf("copy", x, y, h, [h EXCEPT ![x] = h[y]])
    BY <1>2 DEF GoalOf, AllSound
<1>4. ASSUME x # y PROVE GoalOf("move", x, y, h, [h EXCEPT ![x] = h[y], ![y] = MovedFrom(@)])
  <2>1. PICK g : g = [h EXCEPT ![x] = h[y], ![y] = MovedFrom(@)]
      OBVIOUS
  <2>2. g = [z \in Expecteds |-> IF z = y THEN MovedFrom(h[y]) ELSE IF z = x THEN h[y] ELSE h[z]]
      BY <1>4, <2>1 DEF AllSound
  <2>3. g \in AllSound /\ g[x] = h[y] /\ g[y] = MovedFrom(h[y]) /\ \A z \in Expecteds : z # x /\ z # y => g[z] = h[z]
      BY <1>1, <1>2, <1>4, <2>2 DEF AllSound
  <2> QED BY <1>4, <2>1, <2>3 DEF GoalOf
<1> QED
    BY <1>3, <1>4

LEMMA TakenFrom ==
    ASSUME NEW h \in AllSound, NEW x \in Expecteds, NEW y \in Expecteds, NEW m, m = LiveIn(h[y]),
           NEW how \in {"copy", "move"}, NEW to, GoalOf(how, x, y, h, to), NEW s, s = SourceOf(how, y, m)
    PROVE  /\ \A l : ContentIn(s, h, l) = h[y][m]
           /\ ReadIn(s, h) \in Members /\ ReadIn(s, h)[x] = h[x]
           /\ \A z \in Expecteds : z # x => to[z] = ReadIn(s, h)[z]
           /\ x # y => \A l : Elsewhere(s, x, h[y][m], h, l)
<1>1. h \in Members /\ m \in UnionMembers /\ Husk \in Cells
    BY LiveIs, DeadIsNotWhole
<1>2. CASE how = "copy"
  <2>1. s = CopyOf(y, m)
      BY <1>2 DEF SourceOf
  <2>2. \A l : ContentIn(s, h, l) = h[y][m] /\ ReadIn(s, h) = h
      BY <2>1, Sources
  <2>3. x # y => \A l : Elsewhere(s, x, h[y][m], h, l)
      BY <2>1, CopyElsewhere
  <2> QED BY <1>1, <1>2, <2>2, <2>3 DEF GoalOf
<1>3. CASE how = "move"
  <2>1. s = MoveOf(y, m)
      BY <1>3 DEF SourceOf
  <2>2. x # y /\ to[y] = MovedFrom(h[y]) /\ \A z \in Expecteds : z # x /\ z # y => to[z] = h[z]
      BY <1>3 DEF GoalOf
  <2>3. PICK r : r = Changed(h, y, m, Husk)
      OBVIOUS
  <2>4. r \in Members /\ IsChanged(h, y, m, Husk, r) /\ r[y] = MovedFrom(h[y])
      BY <1>1, <2>3, ChangedIs, MovedIs
  <2>5. \A z \in Expecteds : z # y => r[z] = h[z]
      BY <2>4 DEF IsChanged
  <2>6. ReadIn(s, h) = r /\ \A l : ContentIn(s, h, l) = h[y][m]
      BY <2>1, <2>3, Sources
  <2>7. \A l : Elsewhere(s, x, h[y][m], h, l)
      BY <1>1, <2>1, <2>2, MoveElsewhere
  <2> QED BY <2>2, <2>4, <2>5, <2>6, <2>7
<1> QED
    BY <1>2, <1>3

-----------------------------------------------------------------------------
\* What every call needs when it begins.
Served(accesses, to) == to \in AllSound /\ IsCall(accesses) /\ Leads(held, Dead, accesses, held, to, traits)

LEMMA AssignsCommon ==
    ASSUME held \in AllSound, NEW x \in Expecteds, NEW y \in Expecteds, held[x].has \/ ~held[y].has,
           NEW how \in {"copy", "move"}, NEW noexcept, NEW to, GoalOf(how, x, y, held, to)
    PROVE  Served(AssignCommon(x, y, how, noexcept), to)
<1>1. PICK m : m = LiveIn(held[y])
    OBVIOUS
<1>2. PICK s : s = SourceOf(how, y, m)
    OBVIOUS
<1>3. /\ \A l : ContentIn(s, held, l) = held[y][m]
      /\ ReadIn(s, held) \in Members /\ ReadIn(s, held)[x] = held[x]
      /\ \A z \in Expecteds : z # x => to[z] = ReadIn(s, held)[z]
      /\ x # y => \A l : Elsewhere(s, x, held[y][m], held, l)
    BY <1>1, <1>2, TakenFrom
<1>4. /\ held \in Members /\ m \in UnionMembers /\ held[y].has = (m = "val") /\ held[y].has \in BOOLEAN
      /\ held[y][m] \in Whole /\ held[y][m] \in Cells /\ held[y][m] # Dead
      /\ \A k \in UnionMembers : k # m => held[y][k] = Dead
    BY <1>1, LiveIs
<1>5. PICK n : n = LiveIn(held[x])
    OBVIOUS
<1>6. /\ n \in UnionMembers /\ held[x].has = (n = "val") /\ held[x].has \in BOOLEAN /\ held[x][n] # Dead
      /\ \A k \in UnionMembers : k # n => held[x][k] = Dead
    BY <1>5, LiveIs
<1>7. to \in AllSound /\ to \in Members /\ to[x] = held[y]
    BY SoundIs DEF GoalOf
<1>8. CASE held[x].has /\ ~held[y].has
  <2>1. m = "err" /\ n = "val" /\ x # y /\ "val" # "err"
      BY <1>8, <1>1, <1>5 DEF LiveIn
  <2>2. PICK risk : risk = Unless(how \o "E", TRUE)
      OBVIOUS
  <2>3. Quiet(risk)
      BY <2>2, Risks
  <2>4. AssignCommon(x, y, how, noexcept) = <<Kill(x, "val"), Make(x, "err", s, risk), Flag(x, FALSE)>>
      BY <1>8, <1>2, <2>1, <2>2 DEF AssignCommon, SourceOf
  <2>5. Spared(risk, x, "val", held, held, traits)
      BY <2>3 DEF Spared
  <2>6. to[x].has = FALSE /\ to[x]["err"] = held[y][m] /\ to[x]["val"] = Dead
    <3>1. held[y].has = FALSE
        BY <1>4, <1>8
    <3>2. held[y]["val"] = Dead
        BY <1>4, <2>1 DEF UnionMembers
    <3> QED BY <3>1, <3>2, <2>1, <1>7
  <2>7. held[x]["val"] # Dead /\ held[x]["err"] = Dead /\ "val" \in UnionMembers /\ "err" \in UnionMembers
      BY <1>6, <2>1 DEF UnionMembers
  <2>8. Elsewhere(s, x, held[y][m], held, Dead)
      BY <1>3, <2>1
  <2>9. Leads(held, Dead, <<Kill(x, "val"), Make(x, "err", s, risk), Flag(x, FALSE)>>, held, to, traits)
    <3>1. PICK c \in Cells : c = held[y][m]
        BY <1>4
    <3>2. Elsewhere(s, x, c, held, Dead) /\ to[x]["err"] = c
        BY <3>1, <2>6, <2>8
    <3> QED BY <3>2, <1>3, <1>4, <1>7, <2>1, <2>5, <2>6, <2>7, Replaces
  <2> QED BY <2>4, <2>9, <1>7, Calls DEF Served
<1>9. CASE ~(held[x].has /\ ~held[y].has)
  <2>1. held[x].has = held[y].has /\ m = n
      BY <1>9, <1>1, <1>4, <1>5, <1>6 DEF LiveIn
  <2>2. PICK risk : risk = Unless(IF held[x].has THEN "assignT" ELSE "assignE", noexcept)
      OBVIOUS
  <2>3. Mild(risk, held, held)
      BY <2>2, Risks
  <2>4. LiveMember(x) = m
      BY <1>5, <2>1 DEF LiveMember, LiveIn
  <2>5. AssignCommon(x, y, how, noexcept) = <<Set(x, m, s, risk)>>
      BY <1>9, <1>2, <2>2, <2>4 DEF AssignCommon, SourceOf
  <2>6. \A k \in UnionMembers : k # m => to[x][k] = held[x][k]
      BY <1>4, <1>6, <1>7, <2>1
  <2>7. Leads(held, Dead, <<Set(x, m, s, risk)>>, held, to, traits)
    <3>1. PICK c \in Cells : c = held[y][m]
        BY <1>4
    <3>2. c = ContentIn(s, held, Dead) /\ to[x][m] = c /\ to[x].has = held[x].has
        BY <3>1, <1>3, <1>7, <2>1
    <3>3. PICK r \in Members : r = ReadIn(s, held)
        BY <1>3
    <3>4. r[x] = held[x] /\ \A z \in Expecteds : z # x => to[z] = r[z]
        BY <3>3, <1>3
    <3>5. m = LiveIn(held[x])
        BY <1>5, <2>1
    <3> QED BY <3>2, <3>3, <3>4, <3>5, <1>7, <2>3, <2>6, Sets
  <2> QED BY <2>5, <2>7, <1>7, Calls DEF Served
<1> QED
    BY <1>8, <1>9

\* The content c of the source s comes in the place of the error of x.
Coming(x, s, c, to) ==
    /\ held \in Members /\ held[x]["err"] # Dead /\ held[x]["val"] = Dead /\ c \in Whole /\ c \in Cells
    /\ \A l : Elsewhere(s, x, c, held, l)
    /\ \A z \in Expecteds : z # x => to[z] = ReadIn(s, held)[z]
    /\ to \in AllSound /\ to \in Members
    /\ to[x].has = TRUE /\ to[x]["val"] = c /\ to[x]["err"] = Dead /\ to[x] = Value(c)

LEMMA ComingIs ==
    ASSUME held \in AllSound, NEW x \in Expecteds, NEW y \in Expecteds, ~held[x].has, held[y].has,
           NEW how \in {"copy", "move"}, NEW to, GoalOf(how, x, y, held, to),
           NEW m, m = "val", NEW s, s = SourceOf(how, y, m), NEW c, c = held[y][m]
    PROVE  Coming(x, s, c, to) /\ \A l : ContentIn(s, held, l) = c
<1>1. x # y /\ m = LiveIn(held[y])
    BY DEF LiveIn
<1>2. /\ \A l : ContentIn(s, held, l) = held[y][m]
      /\ \A z \in Expecteds : z # x => to[z] = ReadIn(s, held)[z]
      /\ x # y => \A l : Elsewhere(s, x, held[y][m], held, l)
  <2>1. ASSUME NEW n, n = LiveIn(held[y]), NEW r, r = SourceOf(how, y, n)
        PROVE  /\ \A l : ContentIn(r, held, l) = held[y][n]
               /\ \A z \in Expecteds : z # x => to[z] = ReadIn(r, held)[z]
               /\ x # y => \A l : Elsewhere(r, x, held[y][n], held, l)
      BY <2>1, TakenFrom
  <2> QED BY <1>1, <2>1
<1>3. /\ held \in Members /\ c \in Whole /\ held[y]["err"] = Dead
      /\ held[x]["err"] \in Whole /\ held[x]["val"] = Dead
    BY SoundIs
<1>4. to \in AllSound /\ to \in Members /\ to[x] = held[y]
    BY SoundIs DEF GoalOf
<1>5. held[y] = Value(c)
  <2>1. held[y] \in Sound
      BY DEF AllSound
  <2>2. \A e : Error(e).has = FALSE
      BY DEF Error
  <2>3. PICK v \in Whole : held[y] = Value(v)
      BY <2>1, <2>2 DEF Sound
  <2>4. Value(v)["val"] = v
      BY DEF Value
  <2> QED BY <2>3, <2>4
<1>6. held[y].has = TRUE
    BY <1>3 DEF Members
<1>7. held[x]["err"] # Dead /\ c \in Cells
    BY <1>3, DeadIsNotWhole
<1>8. to[x].has = TRUE /\ to[x]["val"] = c /\ to[x]["err"] = Dead /\ to[x] = Value(c)
    BY <1>3, <1>4, <1>5, <1>6
<1>9. \A l : Elsewhere(s, x, c, held, l)
    BY <1>1, <1>2
<1>10. Coming(x, s, c, to)
    BY <1>2, <1>3, <1>4, <1>7, <1>8, <1>9 DEF Coming
<1> QED
    BY <1>2, <1>10

LEMMA GivenComes ==
    ASSUME held \in AllSound, NEW x \in Expecteds, ~held[x].has, NEW c \in Contents,
           NEW to \in AllSound, to[x] = Value(c), \A z \in Expecteds : z # x => to[z] = held[z]
    PROVE  Coming(x, Given(c), c, to)
<1>1. held \in Members /\ held[x]["err"] \in Whole /\ held[x]["val"] = Dead /\ to \in Members
    BY SoundIs
<1>2. c \in Whole /\ c \in Cells /\ held[x]["err"] # Dead
    BY <1>1, DeadIsNotWhole
<1>3. \A l : Elsewhere(Given(c), x, c, held, l)
    BY GivenElsewhere
<1>4. ReadIn(Given(c), held) = held
    BY Sources
<1>5. to[x].has = TRUE /\ to[x]["val"] = c /\ to[x]["err"] = Dead
    BY <1>2, SoundMembers
<1> QED
    BY <1>1, <1>2, <1>3, <1>4, <1>5 DEF Coming

\* ... at once, or with the error kept aside.
LEMMA ComesAtOnce ==
    ASSUME NEW x \in Expecteds, NEW s, NEW c, NEW to, Coming(x, s, c, to), NEW l, NEW r, Elsewhere(r, x, c, held, l),
           \A z \in Expecteds : z # x => ReadIn(r, held)[z] = ReadIn(s, held)[z]
    PROVE  Leads(held, l, <<Kill(x, "err"), Make(x, "val", r, Never), Flag(x, TRUE)>>, held, to, traits)
<1>1. "val" \in UnionMembers /\ "err" \in UnionMembers /\ "val" # "err"
    BY DEF UnionMembers
<1>2. /\ held \in Members /\ held[x]["err"] # Dead /\ held[x]["val"] = Dead /\ c \in Cells
      /\ to \in Members /\ to[x].has = TRUE /\ to[x]["val"] = c /\ to[x]["err"] = Dead
      /\ \A z \in Expecteds : z # x => to[z] = ReadIn(r, held)[z]
    BY DEF Coming
<1>3. Spared(Never, x, "err", held, held, traits)
    BY Risks DEF Spared
<1> QED
    BY <1>1, <1>2, <1>3, Replaces

LEMMA ComesCarefully ==
    ASSUME held \in AllSound, NEW x \in Expecteds, ~held[x].has, NEW s, NEW c, NEW to, Coming(x, s, c, to), NEW l,
           NEW risk, Spared(risk, x, "err", held, held, traits)
    PROVE  Leads(held, l, <<Save(MoveOf(x, "err"), Unless("moveE", FALSE)), Kill(x, "err"), Make(x, "val", s, risk),
                            Flag(x, TRUE)>>, held, to, traits)
<1>1. PICK save : save = Unless("moveE", FALSE)
    OBVIOUS
<1>2. Mild(save, held, held)
    BY <1>1, Risks
<1>3. /\ c \in Whole /\ to \in AllSound /\ to[x] = Value(c)
      /\ \A k : Elsewhere(s, x, c, held, k)
      /\ \A z \in Expecteds : z # x => to[z] = ReadIn(s, held)[z]
    BY DEF Coming
<1>4. Leads(held, l, <<Save(MoveOf(x, "err"), save), Kill(x, "err"), Make(x, "val", s, risk), Flag(x, TRUE)>>,
            held, to, traits)
    BY <1>2, <1>3, ReplacesKept
<1> QED
    BY <1>1, <1>4

LEMMA Assigns ==
    ASSUME held \in AllSound, NEW x \in Expecteds, NEW y \in Expecteds, NEW to
    PROVE  /\ GoalOf("copy", x, y, held, to) => Served(AssignCopy(x, y), to)
           /\ GoalOf("move", x, y, held, to) => Served(AssignMove(x, y), to)
<1>1. ASSUME GoalOf("copy", x, y, held, to) PROVE Served(AssignCopy(x, y), to)
  <2>1. CASE held[x].has \/ ~held[y].has
    <3>1. AssignCopy(x, y) = AssignCommon(x, y, "copy", traits \cap {"copyT", "moveT"} # {})
        BY <2>1 DEF AssignCopy
    <3> QED BY <1>1, <2>1, <3>1, AssignsCommon
  <2>2. CASE ~held[x].has /\ held[y].has
    <3>1. PICK m : m = "val"
        OBVIOUS
    <3>2. PICK s : s = CopyOf(y, m)
        OBVIOUS
    <3>3. PICK c : c = held[y][m]
        OBVIOUS
    <3>4. s = SourceOf("copy", y, m)
        BY <3>2 DEF SourceOf
    <3>5. Coming(x, s, c, to) /\ \A l : ContentIn(s, held, l) = c
        BY <1>1, <2>2, <3>1, <3>3, <3>4, ComingIs
    <3>6. to \in AllSound /\ \A l : Elsewhere(s, x, c, held, l)
        BY <3>5 DEF Coming
    <3>7. CASE "copyT" \in traits
      <4>1. AssignCopy(x, y) = <<Kill(x, "err"), Make(x, "val", s, Never), Flag(x, TRUE)>>
          BY <2>2, <3>1, <3>2, <3>7 DEF AssignCopy
      <4>2. Leads(held, Dead, <<Kill(x, "err"), Make(x, "val", s, Never), Flag(x, TRUE)>>, held, to, traits)
          BY <3>5, <3>6, ComesAtOnce
      <4> QED BY <4>1, <4>2, <3>6, Calls DEF Served
    <3>8. CASE "copyT" \notin traits /\ "moveT" \in traits
      <4>1. PICK risk : risk = Unless("copyT", TRUE)
          OBVIOUS
      <4>2. AssignCopy(x, y) = <<Save(s, risk), Kill(x, "err"), Make(x, "val", Local, Never), Flag(x, TRUE)>>
          BY <2>2, <3>1, <3>2, <3>8, <4>1 DEF AssignCopy
      <4>3. ReadIn(s, held) = held /\ ReadIn(Local, held) = held
          BY <3>2, Sources
      <4>4. Mild(risk, held, held)
          BY <4>1, Risks
      <4>5. Step(Save(s, risk), held, Dead, held, c, held, traits)
          BY <3>5, <4>3, <4>4, SaveStep
      <4>6. Elsewhere(Local, x, c, held, c)
          BY GivenElsewhere
      <4>7. Leads(held, c, <<Kill(x, "err"), Make(x, "val", Local, Never), Flag(x, TRUE)>>, held, to, traits)
          BY <3>5, <4>3, <4>6, ComesAtOnce
      <4>8. Leads(held, Dead, <<Save(s, risk), Kill(x, "err"), Make(x, "val", Local, Never), Flag(x, TRUE)>>,
                  held, to, traits)
          BY <4>5, <4>7, LeadsFour
      <4> QED BY <4>2, <4>8, <3>6, Calls DEF Served
    <3>9. CASE "copyT" \notin traits /\ "moveT" \notin traits
      <4>1. PICK risk : risk = Unless("copyT", TRUE)
          OBVIOUS
      <4>2. AssignCopy(x, y) = <<Save(MoveOf(x, "err"), Unless("moveE", FALSE)), Kill(x, "err"),
                                 Make(x, "val", s, risk), Flag(x, TRUE)>>
          BY <2>2, <3>1, <3>2, <3>9, <4>1 DEF AssignCopy
      <4>3. Spared(risk, x, "err", held, held, traits)
          BY <4>1, Risks DEF Spared
      <4>4. Leads(held, Dead, <<Save(MoveOf(x, "err"), Unless("moveE", FALSE)), Kill(x, "err"),
                                Make(x, "val", s, risk), Flag(x, TRUE)>>, held, to, traits)
          BY <2>2, <3>5, <4>3, ComesCarefully
      <4> QED BY <4>2, <4>4, <3>6, Calls DEF Served
    <3> QED BY <3>7, <3>8, <3>9
  <2> QED BY <2>1, <2>2
<1>2. ASSUME GoalOf("move", x, y, held, to) PROVE Served(AssignMove(x, y), to)
  <2>1. CASE held[x].has \/ ~held[y].has
    <3>1. AssignMove(x, y) = AssignCommon(x, y, "move", "moveT" \in traits)
        BY <2>1 DEF AssignMove
    <3> QED BY <1>2, <2>1, <3>1, AssignsCommon
  <2>2. CASE ~held[x].has /\ held[y].has
    <3>1. PICK m : m = "val"
        OBVIOUS
    <3>2. PICK s : s = MoveOf(y, m)
        OBVIOUS
    <3>3. PICK c : c = held[y][m]
        OBVIOUS
    <3>4. s = SourceOf("move", y, m)
        BY <3>2 DEF SourceOf
    <3>5. Coming(x, s, c, to)
        BY <1>2, <2>2, <3>1, <3>3, <3>4, ComingIs
    <3>6. to \in AllSound /\ \A l : Elsewhere(s, x, c, held, l)
        BY <3>5 DEF Coming
    <3>7. CASE "moveT" \in traits
      <4>1. AssignMove(x, y) = <<Kill(x, "err"), Make(x, "val", s, Never), Flag(x, TRUE)>>
          BY <2>2, <3>1, <3>2, <3>7 DEF AssignMove
      <4>2. Leads(held, Dead, <<Kill(x, "err"), Make(x, "val", s, Never), Flag(x, TRUE)>>, held, to, traits)
          BY <3>5, <3>6, ComesAtOnce
      <4> QED BY <4>1, <4>2, <3>6, Calls DEF Served
    <3>8. CASE "moveT" \notin traits
      <4>1. PICK risk : risk = Unless("moveT", TRUE)
          OBVIOUS
      <4>2. AssignMove(x, y) = <<Save(MoveOf(x, "err"), Unless("moveE", FALSE)), Kill(x, "err"),
                                 Make(x, "val", s, risk), Flag(x, TRUE)>>
          BY <2>2, <3>1, <3>2, <3>8, <4>1 DEF AssignMove
      <4>3. Spared(risk, x, "err", held, held, traits)
          BY <4>1, Risks DEF Spared
      <4>4. Leads(held, Dead, <<Save(MoveOf(x, "err"), Unless("moveE", FALSE)), Kill(x, "err"),
                                Make(x, "val", s, risk), Flag(x, TRUE)>>, held, to, traits)
          BY <2>2, <3>5, <4>3, ComesCarefully
      <4> QED BY <4>2, <4>4, <3>6, Calls DEF Served
    <3> QED BY <3>7, <3>8
  <2> QED BY <2>1, <2>2
<1> QED
    BY <1>1, <1>2

-----------------------------------------------------------------------------
\* Only x is given another content.
GivenGoal(x, o, to) == to \in AllSound /\ to[x] = o /\ \A z \in Expecteds : z # x => to[z] = held[z]

LEMMA GivenGoalIs ==
    ASSUME held \in AllSound, NEW x \in Expecteds, NEW o \in Sound
    PROVE  GivenGoal(x, o, [held EXCEPT ![x] = o])
    BY DEF GivenGoal, AllSound

LEMMA ReplacesError ==
    ASSUME held \in AllSound, NEW x \in Expecteds, ~held[x].has, NEW c \in Contents, NEW to, GivenGoal(x, Value(c), to)
    PROVE  Served(ReplaceError(x, c), to)
<1>1. PICK s : s = Given(c)
    OBVIOUS
<1>2. to \in AllSound /\ Coming(x, s, c, to)
    BY <1>1, GivenComes DEF GivenGoal
<1>3. \A l : Elsewhere(s, x, c, held, l)
    BY <1>2 DEF Coming
<1>4. CASE "copyT" \in traits
  <2>1. ReplaceError(x, c) = <<Kill(x, "err"), Make(x, "val", s, Never), Flag(x, TRUE)>>
      BY <1>1, <1>4 DEF ReplaceError
  <2>2. Leads(held, Dead, <<Kill(x, "err"), Make(x, "val", s, Never), Flag(x, TRUE)>>, held, to, traits)
      BY <1>2, <1>3, ComesAtOnce
  <2> QED BY <2>1, <2>2, <1>2, Calls DEF Served
<1>5. CASE "copyT" \notin traits
  <2>1. PICK risk : risk = Try("copyT", <<Set(x, "err", Local, Never)>>)
      OBVIOUS
  <2>2. ReplaceError(x, c) = <<Save(MoveOf(x, "err"), Unless("moveE", FALSE)), Kill(x, "err"),
                               Make(x, "val", s, risk), Flag(x, TRUE)>>
      BY <1>1, <1>5, <2>1 DEF ReplaceError
  <2>3. Unsafe(traits)
      BY <1>5 DEF Unsafe, Traits
  <2>4. risk.catch = <<Set(x, "err", Local, Never)>>
      BY <2>1 DEF Try
  <2>5. Spared(risk, x, "err", held, held, traits)
      BY <2>3, <2>4 DEF Spared, GivenUp
  <2>6. Leads(held, Dead, <<Save(MoveOf(x, "err"), Unless("moveE", FALSE)), Kill(x, "err"),
                            Make(x, "val", s, risk), Flag(x, TRUE)>>, held, to, traits)
      BY <1>2, <2>5, ComesCarefully
  <2> QED BY <2>2, <2>6, <1>2, Calls DEF Served
<1> QED
    BY <1>4, <1>5

\* The source s gives c and leaves the objects alone; o differs from x in the member m.
Gives(s, l, c) == ReadIn(s, held) = held /\ ContentIn(s, held, l) = c
OnlyChanges(o, x, m, c) ==
    o[m] = c /\ o.has = held[x].has /\ \A k \in UnionMembers : k # m => o[k] = held[x][k]

LEMMA SetsGiven ==
    ASSUME held \in AllSound, NEW x \in Expecteds, NEW m, m = LiveIn(held[x]), NEW c \in Whole,
           NEW o, OnlyChanges(o, x, m, c), NEW to, GivenGoal(x, o, to), NEW s, NEW l, Gives(s, l, c),
           NEW risk, Mild(risk, held, held)
    PROVE  Leads(held, l, <<Set(x, m, s, risk)>>, held, to, traits)
<1>1. ReadIn(s, held) = held /\ ContentIn(s, held, l) = c
    BY DEF Gives
<1>2. to \in Members /\ held \in Members /\ c \in Cells
    BY SoundIs, DeadIsNotWhole DEF GivenGoal
<1>3. to[x] = o /\ \A z \in Expecteds : z # x => to[z] = held[z]
    BY DEF GivenGoal
<1> QED
    BY <1>1, <1>2, <1>3, Sets DEF OnlyChanges

LEMMA AssignsValue ==
    ASSUME held \in AllSound, NEW x \in Expecteds, NEW c \in Contents, NEW to, GivenGoal(x, Value(c), to)
    PROVE  Served(AssignValue(x, c), to) /\ Served(EmplaceValue(x, c), to)
<1>0. to \in AllSound /\ c \in Whole
    BY DeadIsNotWhole DEF GivenGoal
<1>1. CASE ~held[x].has
  <2>1. AssignValue(x, c) = ReplaceError(x, c) /\ EmplaceValue(x, c) = ReplaceError(x, c)
      BY <1>1 DEF AssignValue, EmplaceValue
  <2> QED BY <1>1, <2>1, ReplacesError
<1>2. CASE held[x].has
  <2>1. PICK m : m = LiveIn(held[x])
      OBVIOUS
  <2>2. m = "val"
      BY <1>2, <2>1 DEF LiveIn
  <2>3. PICK o : o = Value(c)
      OBVIOUS
  <2>4. OnlyChanges(o, x, m, c)
    <3>1. held[x].has = TRUE
        BY <1>2, SoundIs DEF Members
    <3>2. held[x]["err"] = Dead
        BY <1>2, SoundIs
    <3>3. o.has = TRUE /\ o["val"] = c /\ o["err"] = Dead
        BY <2>3, <1>0, SoundMembers
    <3> QED BY <3>1, <3>2, <3>3, <2>2 DEF UnionMembers, OnlyChanges
  <2>5. PICK set : set = Unless("assignT", FALSE)
      OBVIOUS
  <2>6. PICK save : save = Unless("copyT", FALSE)
      OBVIOUS
  <2>7. Mild(set, held, held) /\ Mild(save, held, held) /\ GivenGoal(x, o, to)
      BY <2>3, <2>5, <2>6, Risks
  <2>8. AssignValue(x, c) = <<Set(x, m, Given(c), set)>>
      BY <1>2, <2>2, <2>5 DEF AssignValue
  <2>9. EmplaceValue(x, c) = <<Save(Given(c), save), Set(x, m, Local, set)>>
      BY <1>2, <2>2, <2>5, <2>6 DEF EmplaceValue
  <2>10. PICK s : s = Given(c)
      OBVIOUS
  <2>11. PICK r : r = Local
      OBVIOUS
  <2>12. Gives(s, Dead, c) /\ Gives(r, c, c)
      BY <2>10, <2>11, Sources DEF Gives
  <2>13. Leads(held, Dead, <<Set(x, m, s, set)>>, held, to, traits)
      BY <1>0, <2>1, <2>4, <2>7, <2>12, SetsGiven
  <2>14. Leads(held, c, <<Set(x, m, r, set)>>, held, to, traits)
      BY <1>0, <2>1, <2>4, <2>7, <2>12, SetsGiven
  <2>15. Step(Save(s, save), held, Dead, held, c, held, traits)
    <3>1. held = ReadIn(s, held) /\ c = ContentIn(s, held, Dead)
        BY <2>10, Sources
    <3> QED BY <3>1, <2>7, SaveStep
  <2>16. Leads(held, Dead, <<Save(s, save), Set(x, m, r, set)>>, held, to, traits)
      BY <2>14, <2>15, LeadsTwo
  <2> QED BY <2>8, <2>9, <2>10, <2>11, <2>13, <2>16, <1>0, Calls DEF Served
<1> QED
    BY <1>1, <1>2

LEMMA AssignsError ==
    ASSUME held \in AllSound, NEW x \in Expecteds, NEW c \in Contents, NEW to, GivenGoal(x, Error(c), to)
    PROVE  Served(AssignError(x, c), to)
<1>0. to \in AllSound /\ c \in Whole /\ c \in Cells
    BY DeadIsNotWhole DEF GivenGoal
<1>1. PICK o : o = Error(c)
    OBVIOUS
<1>2. o.has = FALSE /\ o["err"] = c /\ o["val"] = Dead
    BY <1>0, <1>1, SoundMembers
<1>3. to[x] = o /\ to \in Members /\ held \in Members /\ \A z \in Expecteds : z # x => to[z] = held[z]
    BY <1>1, SoundIs DEF GivenGoal
<1>4. PICK s : s = Given(c)
    OBVIOUS
<1>5. CASE ~held[x].has
  <2>1. PICK m : m = LiveIn(held[x])
      OBVIOUS
  <2>2. m = "err"
      BY <1>5, <2>1 DEF LiveIn
  <2>3. OnlyChanges(o, x, m, c)
    <3>1. held[x].has = FALSE
        BY <1>5, SoundIs DEF Members
    <3>2. held[x]["val"] = Dead
        BY <1>5, SoundIs
    <3> QED BY <3>1, <3>2, <1>2, <2>2 DEF UnionMembers, OnlyChanges
  <2>4. PICK set : set = Unless("assignE", TRUE)
      OBVIOUS
  <2>5. Mild(set, held, held) /\ GivenGoal(x, o, to)
      BY <1>1, <2>4, Risks
  <2>6. AssignError(x, c) = <<Set(x, m, s, set)>>
      BY <1>4, <1>5, <2>2, <2>4 DEF AssignError
  <2>7. Gives(s, Dead, c)
      BY <1>4, Sources DEF Gives
  <2>8. Leads(held, Dead, <<Set(x, m, s, set)>>, held, to, traits)
      BY <1>0, <2>1, <2>3, <2>5, <2>7, SetsGiven
  <2> QED BY <2>6, <2>8, <1>0, Calls DEF Served
<1>6. CASE held[x].has
  <2>1. AssignError(x, c) = <<Kill(x, "val"), Make(x, "err", s, Never), Flag(x, FALSE)>>
      BY <1>4, <1>6 DEF AssignError
  <2>2. held[x]["val"] # Dead /\ held[x]["err"] = Dead
      BY <1>6, SoundIs, DeadIsNotWhole
  <2>3. Elsewhere(s, x, c, held, Dead) /\ ReadIn(s, held) = held
      BY <1>4, GivenElsewhere, Sources
  <2>4. Spared(Never, x, "val", held, held, traits)
      BY Risks DEF Spared
  <2>5. "val" \in UnionMembers /\ "err" \in UnionMembers /\ "val" # "err"
      BY DEF UnionMembers
  <2>6. /\ to[x].has = FALSE /\ to[x]["err"] = c /\ to[x]["val"] = Dead
        /\ \A z \in Expecteds : z # x => to[z] = ReadIn(s, held)[z]
      BY <1>2, <1>3, <2>3
  <2>7. Leads(held, Dead, <<Kill(x, "val"), Make(x, "err", s, Never), Flag(x, FALSE)>>, held, to, traits)
      BY <1>0, <1>3, <2>2, <2>3, <2>4, <2>5, <2>6, Replaces
  <2> QED BY <2>1, <2>7, <1>0, Calls DEF Served
<1> QED
    BY <1>5, <1>6

-----------------------------------------------------------------------------
\* The four accesses that rebuild x lead to "to".
FourLead(accesses, l, to) ==
    \E a, b, d, e : accesses = <<a, b, d, e>> /\ Leads(held, l, <<a, b, d, e>>, held, to, traits)

LEMMA RebuildsAs ==
    ASSUME held \in AllSound, NEW x \in Expecteds, NEW s, NEW c \in Cells, NEW l, Elsewhere(s, x, c, held, l),
           NEW risk, Quiet(risk), NEW to \in AllSound, NEW n, n = LiveIn(to[x]), to[x][n] = c,
           \A z \in Expecteds : z # x => to[z] = ReadIn(s, held)[z]
    PROVE  FourLead(Rebuild(x, n, s, risk), l, to)
<1>1. PICK m : m = LiveIn(held[x])
    OBVIOUS
<1>2. /\ held \in Members /\ m \in UnionMembers /\ held[x][m] # Dead
      /\ \A k \in UnionMembers : k # m => held[x][k] = Dead
    BY <1>1, LiveIs
<1>3. /\ to \in Members /\ n \in UnionMembers /\ to[x].has = (n = "val") /\ to[x].has \in BOOLEAN
      /\ \A k \in UnionMembers : k # n => to[x][k] = Dead
    BY LiveIs
<1>4. PICK b \in BOOLEAN : b = (n = "val")
    OBVIOUS
<1>5. LiveMember(x) = m
    BY <1>1 DEF LiveMember, LiveIn
<1>6. Rebuild(x, n, s, risk) = <<Kill(x, m), Flag(x, FALSE), Make(x, n, s, risk), Flag(x, b)>>
    BY <1>4, <1>5 DEF Rebuild
<1>7. to[x].has = b
    BY <1>3, <1>4
<1>8. Leads(held, l, <<Kill(x, m), Flag(x, FALSE), Make(x, n, s, risk), Flag(x, b)>>, held, to, traits)
    BY <1>2, <1>3, <1>7, Rebuilds
<1> QED
    BY <1>6, <1>8 DEF FourLead

LEMMA ConstructsFrom ==
    ASSUME held \in AllSound, NEW x \in Expecteds, NEW y \in Expecteds, x # y, NEW how \in {"copy", "move"},
           NEW to, GoalOf(how, x, y, held, to), NEW m, m = LiveIn(held[y]), NEW s, s = SourceOf(how, y, m),
           NEW risk, Quiet(risk)
    PROVE  Served(Rebuild(x, m, s, risk), to)
<1>1. /\ \A z \in Expecteds : z # x => to[z] = ReadIn(s, held)[z]
      /\ \A l : Elsewhere(s, x, held[y][m], held, l)
    BY TakenFrom
<1>2. PICK c \in Cells : c = held[y][m]
    BY LiveIs
<1>3. to \in AllSound /\ to[x] = held[y]
    BY DEF GoalOf
<1>4. Elsewhere(s, x, c, held, Dead) /\ m = LiveIn(to[x]) /\ to[x][m] = c
    BY <1>1, <1>2, <1>3
<1>5. FourLead(Rebuild(x, m, s, risk), Dead, to)
    BY <1>1, <1>3, <1>4, RebuildsAs
<1> QED
    BY <1>3, <1>5, Calls DEF Served, FourLead

LEMMA Constructs ==
    ASSUME held \in AllSound, NEW x \in Expecteds, NEW y \in Expecteds, x # y, NEW to
    PROVE  /\ GoalOf("copy", x, y, held, to) => Served(ConstructCopy(x, y), to)
           /\ GoalOf("move", x, y, held, to) => Served(ConstructMove(x, y), to)
<1>1. PICK m : m = LiveIn(held[y])
    OBVIOUS
<1>2. LiveMember(y) = m
    BY <1>1 DEF LiveMember, LiveIn
<1>3. ASSUME GoalOf("copy", x, y, held, to) PROVE Served(ConstructCopy(x, y), to)
  <2>1. PICK risk : risk = Unless(IF held[y].has THEN "copyT" ELSE "copyE", TRUE)
      OBVIOUS
  <2>2. PICK s : s = CopyOf(y, m)
      OBVIOUS
  <2>3. s = SourceOf("copy", y, m) /\ Quiet(risk)
      BY <2>1, <2>2, Risks DEF SourceOf
  <2>4. ConstructCopy(x, y) = Rebuild(x, m, s, risk)
      BY <1>2, <2>1, <2>2 DEF ConstructCopy
  <2> QED BY <1>1, <1>3, <2>3, <2>4, ConstructsFrom
<1>4. ASSUME GoalOf("move", x, y, held, to) PROVE Served(ConstructMove(x, y), to)
  <2>1. PICK risk : risk = Unless(IF held[y].has THEN "moveT" ELSE "moveE", TRUE)
      OBVIOUS
  <2>2. PICK s : s = MoveOf(y, m)
      OBVIOUS
  <2>3. s = SourceOf("move", y, m) /\ Quiet(risk)
      BY <2>1, <2>2, Risks DEF SourceOf
  <2>4. ConstructMove(x, y) = Rebuild(x, m, s, risk)
      BY <1>2, <2>1, <2>2 DEF ConstructMove
  <2> QED BY <1>1, <1>4, <2>3, <2>4, ConstructsFrom
<1> QED
    BY <1>3, <1>4

\* A mapping: c is saved and then put into the new object.
LEMMA BuildsFromLocal ==
    ASSUME held \in AllSound, NEW x \in Expecteds, NEW s, NEW c \in Cells, Gives(s, Dead, c), NEW risk,
           Mild(risk, held, held), NEW o, NEW to, GivenGoal(x, o, to), NEW n, n = LiveIn(o), o[n] = c
    PROVE  Served(<<Save(s, risk)>> \o Rebuild(x, n, Local, Never), to)
<1>1. to \in AllSound /\ to[x] = o /\ \A z \in Expecteds : z # x => to[z] = held[z]
    BY DEF GivenGoal
<1>2. Step(Save(s, risk), held, Dead, held, c, held, traits)
  <2>1. held = ReadIn(s, held) /\ c = ContentIn(s, held, Dead)
      BY DEF Gives
  <2> QED BY <2>1, SaveStep
<1>3. PICK r : r = Local
    OBVIOUS
<1>4. Elsewhere(r, x, c, held, c) /\ ReadIn(r, held) = held /\ Quiet(Never)
    BY <1>3, GivenElsewhere, Sources, Risks
<1>5. n = LiveIn(to[x]) /\ to[x][n] = c /\ \A z \in Expecteds : z # x => to[z] = ReadIn(r, held)[z]
    BY <1>1, <1>4
<1>6. FourLead(Rebuild(x, n, r, Never), c, to)
    BY <1>1, <1>4, <1>5, RebuildsAs
<1>7. PICK a, b, d, e : Rebuild(x, n, r, Never) = <<a, b, d, e>> /\ Leads(held, c, <<a, b, d, e>>, held, to, traits)
    BY <1>6 DEF FourLead
<1>8. Leads(held, Dead, <<Save(s, risk)>> \o <<a, b, d, e>>, held, to, traits)
    BY <1>2, <1>7, LeadsJoined
<1> QED
    BY <1>1, <1>3, <1>7, <1>8, Calls DEF Served

LEMMA Maps ==
    ASSUME held \in AllSound, NEW x \in Expecteds, NEW y \in Expecteds, x # y, NEW c \in Contents, NEW noexcept,
           NEW for \in UnionMembers, NEW n, NEW o \in Sound, n = LiveIn(o), o[n] = c,
           NEW image, image = IF LiveMember(y) = for THEN o ELSE held[y], NEW to, GivenGoal(x, image, to)
    PROVE  Served(Mapped(x, y, for, n, c, noexcept), to)
<1>1. PICK m : m = LiveIn(held[y])
    OBVIOUS
<1>2. LiveMember(y) = m
    BY <1>1 DEF LiveMember, LiveIn
<1>3. CASE m = for
  <2>1. PICK s : s = Given(c)
      OBVIOUS
  <2>2. Mapped(x, y, for, n, c, noexcept) = <<Save(s, Never)>> \o Rebuild(x, n, Local, Never)
      BY <1>2, <1>3, <2>1 DEF Mapped
  <2>3. Gives(s, Dead, c) /\ Mild(Never, held, held) /\ c \in Cells
      BY <2>1, Sources, Risks, DeadIsNotWhole DEF Gives
  <2>4. GivenGoal(x, o, to)
      BY <1>2, <1>3
  <2> QED BY <2>2, <2>3, <2>4, BuildsFromLocal
<1>4. CASE m # for
  <2>1. PICK s : s = CopyOf(y, m)
      OBVIOUS
  <2>2. PICK risk : risk = Unless(IF held[y].has THEN "copyT" ELSE "copyE", noexcept)
      OBVIOUS
  <2>3. Mapped(x, y, for, n, c, noexcept) = <<Save(s, risk)>> \o Rebuild(x, m, Local, Never)
      BY <1>2, <1>4, <2>1, <2>2 DEF Mapped
  <2>4. PICK d \in Cells : d = held[y][m]
      BY <1>1, LiveIs
  <2>5. Gives(s, Dead, d) /\ Mild(risk, held, held)
      BY <2>1, <2>2, <2>4, Sources, Risks DEF Gives
  <2>6. PICK p : p = held[y]
      OBVIOUS
  <2>7. GivenGoal(x, p, to) /\ m = LiveIn(p) /\ p[m] = d
      BY <1>1, <1>2, <1>4, <2>4, <2>6
  <2> QED BY <2>3, <2>5, <2>7, BuildsFromLocal
<1> QED
    BY <1>3, <1>4

-----------------------------------------------------------------------------
SwapGoal(x, y, to) ==
    to \in AllSound /\ to[x] = held[y] /\ to[y] = held[x] /\ \A z \in Expecteds : z # x /\ z # y => to[z] = held[z]

LEMMA SwapGoalIs ==
    ASSUME held \in AllSound, NEW x \in Expecteds, NEW y \in Expecteds, x # y
    PROVE  SwapGoal(x, y, [held EXCEPT ![x] = held[y], ![y] = held[x]])
<1>1. held[x] \in Sound /\ held[y] \in Sound
    BY DEF AllSound
<1>2. PICK g : g = [held EXCEPT ![x] = held[y], ![y] = held[x]]
    OBVIOUS
<1>3. g = [z \in Expecteds |-> IF z = y THEN held[x] ELSE IF z = x THEN held[y] ELSE held[z]]
    BY <1>2 DEF AllSound
<1>4. SwapGoal(x, y, g)
    BY <1>1, <1>3 DEF SwapGoal, AllSound
<1> QED
    BY <1>2, <1>4

\* The member m of x and the member n of y change places by way of a local variable.
Crossed(x, y, m, n, to) ==
    /\ x # y /\ m # n /\ held \in Members /\ to \in Members
    /\ held[x][m] \in Whole /\ held[x][n] = Dead /\ held[y][n] \in Whole /\ held[y][m] = Dead
    /\ to[x][n] = held[y][n] /\ to[x][m] = Dead /\ to[y][m] = held[x][m] /\ to[y][n] = Dead
    /\ \A z \in Expecteds : z # x /\ z # y => to[z] = held[z]

LEMMA SwapsFrom ==
    ASSUME NEW x \in Expecteds, NEW y \in Expecteds, NEW m \in UnionMembers, NEW n \in UnionMembers,
           NEW to, Crossed(x, y, m, n, to), NEW s \in {MoveOf(y, n), CopyOf(y, n)},
           NEW risk, GivenUp(risk, x, m, traits),
           NEW f \in Expecteds, NEW g \in Expecteds, Both(f, g, x, y)
    PROVE  Leads(held, Dead, <<Save(MoveOf(x, m), Never), Kill(x, m), Make(x, n, s, risk), Kill(y, n),
                               Make(y, m, Local, Never), Flag(f, to[f].has), Flag(g, to[g].has)>>, held, to, traits)
<1>1. /\ x # y /\ m # n /\ held \in Members /\ to \in Members
      /\ held[x][m] \in Whole /\ held[x][n] = Dead /\ held[y][n] \in Whole /\ held[y][m] = Dead
      /\ to[x][n] = held[y][n] /\ to[x][m] = Dead /\ to[y][m] = held[x][m] /\ to[y][n] = Dead
      /\ \A z \in Expecteds : z # x /\ z # y => to[z] = held[z]
    BY DEF Crossed
<1>2. PICK r : r = ReadIn(s, held)
    OBVIOUS
<1>3. /\ \A l : Elsewhere(s, x, held[y][n], held, l)
      /\ r[y][n] # Dead /\ r[y][m] = Dead /\ \A z \in Expecteds : z # x /\ z # y => r[z] = held[z]
  <2>1. CASE s = MoveOf(y, n)
    <3>1. r = Changed(held, y, n, Husk)
        BY <2>1, <1>2, Sources
    <3>2. r \in Members /\ IsChanged(held, y, n, Husk, r)
        BY <1>1, <3>1, ChangedIs, DeadIsNotWhole
    <3>3. r[y][n] # Dead /\ r[y][m] = Dead /\ \A z \in Expecteds : z # x /\ z # y => r[z] = held[z]
        BY <1>1, <3>2, DeadIsNotWhole DEF IsChanged
    <3>4. \A l : Elsewhere(s, x, held[y][n], held, l)
        BY <1>1, <2>1, MoveElsewhere
    <3> QED BY <3>3, <3>4
  <2>2. CASE s = CopyOf(y, n)
    <3>1. r = held
        BY <2>2, <1>2, Sources
    <3>2. \A l : Elsewhere(s, x, held[y][n], held, l)
        BY <1>1, <2>2, CopyElsewhere
    <3> QED BY <3>1, <3>2, <1>1, DeadIsNotWhole
  <2> QED BY <2>1, <2>2
<1>4. LeavesAlive(r, s, held, x, y, m, n)
    BY <1>2, <1>3 DEF LeavesAlive
<1> QED
    BY <1>1, <1>3, <1>4, SwapsOther

LEMMA SwapsOne ==
    ASSUME held \in AllSound, NEW x \in Expecteds, NEW y \in Expecteds, held[x].has, ~held[y].has,
           NEW to, SwapGoal(x, y, to)
    PROVE  Served(SwapOne(x, y), to)
<1>1. /\ held \in Members /\ held[x]["val"] \in Whole /\ held[x]["err"] = Dead
      /\ held[y]["err"] \in Whole /\ held[y]["val"] = Dead
      /\ held[x].has = TRUE /\ held[y].has = FALSE
  <2>1. held[x].has \in BOOLEAN /\ held[y].has \in BOOLEAN
      BY SoundIs DEF Members
  <2> QED BY <2>1, SoundIs
<1>2. /\ to \in AllSound /\ to \in Members /\ to[x] = held[y] /\ to[y] = held[x]
      /\ \A z \in Expecteds : z # x /\ z # y => to[z] = held[z]
    BY SoundIs DEF SwapGoal
<1>3. to[x].has = FALSE /\ to[y].has = TRUE
    BY <1>1, <1>2
<1>4. Crossed(x, y, "val", "err", to) /\ Crossed(y, x, "err", "val", to)
    BY <1>1, <1>2 DEF Crossed
<1>5. "val" \in UnionMembers /\ "err" \in UnionMembers /\ Both(x, y, x, y) /\ Both(x, y, y, x)
    BY DEF UnionMembers, Both
<1>6. CASE "moveT" \in traits
  <2>1. PICK s : s = MoveOf(y, "err")
      OBVIOUS
  <2>2. PICK risk : risk = Try("moveE", <<Set(x, "val", Local, Never)>>)
      OBVIOUS
  <2>3. SwapOne(x, y) = <<Save(MoveOf(x, "val"), Never), Kill(x, "val"), Make(x, "err", s, risk), Kill(y, "err"),
                          Make(y, "val", Local, Never), Flag(x, to[x].has), Flag(y, to[y].has)>>
      BY <1>3, <1>6, <2>1, <2>2 DEF SwapOne
  <2>4. GivenUp(risk, x, "val", traits)
    <3>1. risk.may => Unsafe(traits)
        BY <2>2 DEF Try, Unsafe, Traits
    <3>2. risk.catch = <<Set(x, "val", Local, Never)>>
        BY <2>2 DEF Try
    <3> QED BY <3>1, <3>2 DEF GivenUp
  <2>5. Leads(held, Dead, <<Save(MoveOf(x, "val"), Never), Kill(x, "val"), Make(x, "err", s, risk), Kill(y, "err"),
                            Make(y, "val", Local, Never), Flag(x, to[x].has), Flag(y, to[y].has)>>, held, to, traits)
      BY <1>4, <1>5, <2>1, <2>4, SwapsFrom
  <2> QED BY <2>3, <2>5, <1>2, Calls DEF Served
<1>7. CASE "moveT" \notin traits
  <2>1. PICK s : s = CopyOf(x, "val")
      OBVIOUS
  <2>2. PICK risk : risk = Try("copyT", <<Set(y, "err", Local, Never)>>)
      OBVIOUS
  <2>3. SwapOne(x, y) = <<Save(MoveOf(y, "err"), Never), Kill(y, "err"), Make(y, "val", s, risk), Kill(x, "val"),
                          Make(x, "err", Local, Never), Flag(x, to[x].has), Flag(y, to[y].has)>>
      BY <1>3, <1>7, <2>1, <2>2 DEF SwapOne
  <2>4. GivenUp(risk, y, "err", traits)
    <3>1. risk.may => Unsafe(traits)
        BY <1>7, <2>2 DEF Try, Unsafe, Traits
    <3>2. risk.catch = <<Set(y, "err", Local, Never)>>
        BY <2>2 DEF Try
    <3> QED BY <3>1, <3>2 DEF GivenUp
  <2>5. Leads(held, Dead, <<Save(MoveOf(y, "err"), Never), Kill(y, "err"), Make(y, "val", s, risk), Kill(x, "val"),
                            Make(x, "err", Local, Never), Flag(x, to[x].has), Flag(y, to[y].has)>>, held, to, traits)
      BY <1>4, <1>5, <2>1, <2>4, SwapsFrom
  <2> QED BY <2>3, <2>5, <1>2, Calls DEF Served
<1> QED
    BY <1>6, <1>7

LEMMA Swaps ==
    ASSUME held \in AllSound, NEW x \in Expecteds, NEW y \in Expecteds, x # y, NEW to, SwapGoal(x, y, to)
    PROVE  Served(SwapHolders(x, y), to)
<1>1. held \in Members /\ held[x].has \in BOOLEAN /\ held[y].has \in BOOLEAN
    BY SoundIs DEF Members
<1>2. CASE held[x].has = held[y].has
  <2>1. PICK m : m = LiveIn(held[x])
      OBVIOUS
  <2>2. m = LiveIn(held[y]) /\ LiveMember(x) = m
      BY <1>2, <2>1 DEF LiveIn, LiveMember
  <2>3. /\ m \in UnionMembers /\ held[x][m] \in Whole /\ held[y][m] \in Whole
        /\ \A k \in UnionMembers : k # m => held[x][k] = Dead /\ held[y][k] = Dead
    <3>1. PICK k : k = LiveIn(held[y])
        OBVIOUS
    <3>2. k \in UnionMembers /\ held[y][k] \in Whole /\ \A j \in UnionMembers : j # k => held[y][j] = Dead
        BY <3>1, LiveIs
    <3>3. m \in UnionMembers /\ held[x][m] \in Whole /\ \A j \in UnionMembers : j # m => held[x][j] = Dead
        BY <2>1, LiveIs
    <3> QED BY <2>2, <3>1, <3>2, <3>3
  <2>4. /\ to \in AllSound /\ to \in Members /\ to[x] = held[y] /\ to[y] = held[x]
        /\ \A z \in Expecteds : z # x /\ z # y => to[z] = held[z]
      BY SoundIs DEF SwapGoal
  <2>5. /\ to[x].has = held[x].has /\ to[y].has = held[y].has /\ to[x][m] = held[y][m] /\ to[y][m] = held[x][m]
        /\ \A k \in UnionMembers : k # m => to[x][k] = held[x][k] /\ to[y][k] = held[y][k]
      BY <1>2, <2>3, <2>4
  <2>6. SwapHolders(x, y) = <<Save(MoveOf(x, m), Never), Set(x, m, MoveOf(y, m), Never), Set(y, m, Local, Never)>>
      BY <1>2, <2>2 DEF SwapHolders
  <2>7. Leads(held, Dead, <<Save(MoveOf(x, m), Never), Set(x, m, MoveOf(y, m), Never), Set(y, m, Local, Never)>>,
              held, to, traits)
      BY <1>1, <2>3, <2>4, <2>5, SwapsSame
  <2> QED BY <2>4, <2>6, <2>7, Calls DEF Served
<1>3. CASE held[x].has # held[y].has /\ held[x].has
  <2>1. SwapHolders(x, y) = SwapOne(x, y) /\ ~held[y].has
      BY <1>1, <1>3 DEF SwapHolders
  <2> QED BY <1>3, <2>1, SwapsOne
<1>4. CASE held[x].has # held[y].has /\ ~held[x].has
  <2>1. SwapHolders(x, y) = SwapOne(y, x) /\ held[y].has
      BY <1>1, <1>4 DEF SwapHolders
  <2>2. SwapGoal(y, x, to)
      BY DEF SwapGoal
  <2> QED BY <1>4, <2>1, <2>2, SwapsOne
<1> QED
    BY <1>1, <1>2, <1>3, <1>4

-----------------------------------------------------------------------------
\* Every call that may begin is served.
LEMMA CallsServed ==
    ASSUME held \in AllSound, meant = held,
           \/ \E x, y \in Expecteds : CallOfTwo(x, y)
           \/ \E x \in Expecteds, c \in Contents : CallOfOne(x, c)
           \/ \E x, y \in Expecteds, c \in Contents : CallMap(x, y, c)
    PROVE  \E accesses, to : BeginCall(accesses, to) /\ Served(accesses, to)
<1>1. ASSUME NEW x \in Expecteds, NEW y \in Expecteds, CallOfTwo(x, y)
      PROVE  \E accesses, to : BeginCall(accesses, to) /\ Served(accesses, to)
  <2>1. PICK copied : copied = [held EXCEPT ![x] = held[y]]
      OBVIOUS
  <2>2. PICK moved : moved = [held EXCEPT ![x] = held[y], ![y] = MovedFrom(@)]
      OBVIOUS
  <2>3. PICK swapped : swapped = [held EXCEPT ![x] = held[y], ![y] = held[x]]
      OBVIOUS
  <2>4. GoalOf("copy", x, y, held, copied) /\ (x # y => GoalOf("move", x, y, held, moved) /\ SwapGoal(x, y, swapped))
      BY <2>1, <2>2, <2>3, GoalsAre, SwapGoalIs
  <2>5. \/ BeginCall(AssignCopy(x, y), copied)
        \/ x # y /\ BeginCall(AssignMove(x, y), moved)
        \/ x # y /\ BeginCall(ConstructCopy(x, y), copied)
        \/ x # y /\ BeginCall(ConstructMove(x, y), moved)
        \/ x # y /\ BeginCall(SwapHolders(x, y), swapped)
      BY <1>1, <2>1, <2>2, <2>3 DEF CallOfTwo
  <2>6. CASE BeginCall(AssignCopy(x, y), copied)
    <3>1. Served(AssignCopy(x, y), copied)
        BY <2>4, Assigns
    <3> QED BY <2>6, <3>1
  <2>7. CASE x # y /\ BeginCall(AssignMove(x, y), moved)
    <3>1. Served(AssignMove(x, y), moved)
        BY <2>4, <2>7, Assigns
    <3> QED BY <2>7, <3>1
  <2>8. CASE x # y /\ BeginCall(ConstructCopy(x, y), copied)
    <3>1. Served(ConstructCopy(x, y), copied)
        BY <2>4, <2>8, Constructs
    <3> QED BY <2>8, <3>1
  <2>9. CASE x # y /\ BeginCall(ConstructMove(x, y), moved)
    <3>1. Served(ConstructMove(x, y), moved)
        BY <2>4, <2>9, Constructs
    <3> QED BY <2>9, <3>1
  <2>10. CASE x # y /\ BeginCall(SwapHolders(x, y), swapped)
    <3>1. Served(SwapHolders(x, y), swapped)
        BY <2>4, <2>10, Swaps
    <3> QED BY <2>10, <3>1
  <2> QED BY <2>5, <2>6, <2>7, <2>8, <2>9, <2>10
<1>2. ASSUME NEW x \in Expecteds, NEW c \in Contents, CallOfOne(x, c)
      PROVE  \E accesses, to : BeginCall(accesses, to) /\ Served(accesses, to)
  <2>0. Value(c) \in Sound /\ Error(c) \in Sound
      BY SoundMembers, DeadIsNotWhole
  <2>1. PICK valued : valued = [held EXCEPT ![x] = Value(c)]
      OBVIOUS
  <2>2. PICK failing : failing = [held EXCEPT ![x] = Error(c)]
      OBVIOUS
  <2>3. GivenGoal(x, Value(c), valued) /\ GivenGoal(x, Error(c), failing)
      BY <2>0, <2>1, <2>2, GivenGoalIs
  <2>4. \/ BeginCall(AssignValue(x, c), valued)
        \/ BeginCall(AssignError(x, c), failing)
        \/ BeginCall(EmplaceValue(x, c), valued)
      BY <1>2, <2>1, <2>2 DEF CallOfOne
  <2>5. Served(AssignValue(x, c), valued) /\ Served(EmplaceValue(x, c), valued)
      BY <2>3, AssignsValue
  <2>6. Served(AssignError(x, c), failing)
      BY <2>3, AssignsError
  <2> QED BY <2>4, <2>5, <2>6
<1>3. ASSUME NEW x \in Expecteds, NEW y \in Expecteds, NEW c \in Contents, CallMap(x, y, c)
      PROVE  \E accesses, to : BeginCall(accesses, to) /\ Served(accesses, to)
  <2>1. PICK v \in Sound : v = Value(c) /\ LiveIn(v) = "val" /\ v["val"] = c
      BY SoundMembers, DeadIsNotWhole DEF LiveIn
  <2>2. PICK e \in Sound : e = Error(c) /\ LiveIn(e) = "err" /\ e["err"] = c
      BY SoundMembers, DeadIsNotWhole DEF LiveIn
  <2>3. x # y /\ "val" \in UnionMembers /\ "err" \in UnionMembers
      BY <1>3 DEF CallMap, UnionMembers
  <2>4. ASSUME NEW for \in UnionMembers, NEW n, NEW o \in Sound, n = LiveIn(o), o[n] = c, NEW noexcept,
               BeginCall(Mapped(x, y, for, n, c, noexcept), [meant EXCEPT ![x] = Image(y, for, o)])
        PROVE  \E accesses, to : BeginCall(accesses, to) /\ Served(accesses, to)
    <3>1. PICK image : image = IF LiveMember(y) = for THEN o ELSE held[y]
        OBVIOUS
    <3>2. image = Image(y, for, o)
        BY <3>1 DEF Image
    <3>3. image \in Sound
        BY <3>1 DEF AllSound
    <3>4. PICK to : to = [held EXCEPT ![x] = image]
        OBVIOUS
    <3>5. GivenGoal(x, image, to)
        BY <3>3, <3>4, GivenGoalIs
    <3>6. Served(Mapped(x, y, for, n, c, noexcept), to)
        BY <2>3, <2>4, <3>1, <3>5, Maps
    <3>7. BeginCall(Mapped(x, y, for, n, c, noexcept), to)
        BY <2>4, <3>2, <3>4
    <3> QED BY <3>6, <3>7
  <2>5. \/ BeginCall(Mapped(x, y, "val", "val", c, FALSE), [meant EXCEPT ![x] = Image(y, "val", v)])
        \/ BeginCall(Mapped(x, y, "err", "err", c, FALSE), [meant EXCEPT ![x] = Image(y, "err", e)])
        \/ BeginCall(Mapped(x, y, "val", "err", c, FALSE), [meant EXCEPT ![x] = Image(y, "val", e)])
        \/ BeginCall(Mapped(x, y, "err", "val", c, TRUE), [meant EXCEPT ![x] = Image(y, "err", v)])
      BY <1>3, <2>1, <2>2 DEF CallMap, ExpectedMap, MapError, AndThen, OrElse
  <2> QED BY <2>4, <2>1, <2>2, <2>3, <2>5
<1> QED
    BY <1>1, <1>2, <1>3

-----------------------------------------------------------------------------
\* A call under way leads to its goal, wherever it may fail; or a catch block
\* brings a dead member back; or that has been done, and a ghost is left.
Underway ==
    \/ ghosts = {} /\ Leads(held, local, todo, meant, goal, traits)
    \/ ghosts = {} /\ meant = goal /\ Unsafe(traits) /\ Reversal(todo, held, goal)
    \/ todo = <<>> /\ ghosts # {} /\ \A z \in Expecteds \ ghosts : held[z] = goal[z]

ExpectedInv ==
    /\ meant \in AllSound /\ goal \in AllSound /\ DOMAIN held = Expecteds
    /\ misuse = {}
    /\ Traits \subseteq traits => ghosts = {}
    /\ \E S : todo \in Seq(S)
    /\ ~ended => (todo = <<>> => meant = goal) /\ Underway

LEMMA LeadsThere ==
    ASSUME NEW h, NEW l, NEW from, NEW to, NEW tr, Leads(h, l, <<>>, from, to, tr)
    PROVE  h = to
<1>1. PICK H : H[1] = h /\ H[Len(<<>>) + 1] = to
    BY DEF Leads
<1>2. Len(<<>>) + 1 = 1
    OBVIOUS
<1> QED
    BY <1>1, <1>2

LEMMA ExpectedInitInv ==
    ASSUME ExpectedInit PROVE ExpectedInv
<1>1. (CHOOSE c \in Contents : TRUE) \in Whole
    BY ExpectedAssumption DEF Whole
<1>2. PICK o \in Sound : o = Value(CHOOSE c \in Contents : TRUE)
    BY <1>1, SoundMembers
<1>3. held = [x \in Expecteds |-> o] /\ meant = held /\ goal = held
    BY <1>2 DEF ExpectedInit
<1>4. meant \in AllSound /\ goal \in AllSound /\ DOMAIN held = Expecteds
    BY <1>3 DEF AllSound
<1>5. todo = <<>> /\ todo \in Seq({}) /\ ghosts = {} /\ misuse = {}
    BY DEF ExpectedInit
<1>6. Leads(held, local, todo, meant, goal, traits)
    BY <1>3, <1>5, LeadsNowhere
<1> QED
    BY <1>3, <1>4, <1>5, <1>6 DEF ExpectedInv, Underway

LEMMA AccessIs ==
    ASSUME NEW a, Access(a), NEW h2, NEW l2, NEW from, Step(a, held, local, h2, l2, from, traits)
    PROVE  held' = h2 /\ local' = l2 /\ misuse' = misuse /\ ghosts' = ghosts
<1>1. /\ Proper(a, held) /\ h2 = HeldAfter(a, held, local) /\ l2 = LocalAfter(a, held, local)
    BY DEF Step
<1>2. \A s : ContentIn(s, held, local) = Content(s) /\ ReadIn(s, held) = AfterReading(s)
    BY DEF ContentIn, Content, ReadIn, AfterReading, Changed
<1>3. CASE a.do = "save"
  <2>1. local' = Content(a.from) /\ held' = AfterReading(a.from) /\ misuse' = misuse /\ ghosts' = ghosts
      BY <1>3 DEF Access
  <2>2. h2 = ReadIn(a.from, held) /\ l2 = ContentIn(a.from, held, local)
      BY <1>1, <1>3 DEF HeldAfter, LocalAfter
  <2> QED BY <2>1, <2>2, <1>2
<1>4. CASE a.do = "kill"
  <2>1. /\ held' = [held EXCEPT ![a.who][a.member] = Dead]
        /\ misuse' = IF held[a.who][a.member] = Dead THEN misuse \cup {"destroyed twice"} ELSE misuse
        /\ local' = local /\ ghosts' = ghosts
      BY <1>4 DEF Access
  <2>2. h2 = Changed(held, a.who, a.member, Dead) /\ l2 = local
      BY <1>1, <1>4 DEF HeldAfter, LocalAfter
  <2>3. held[a.who][a.member] # Dead
      BY <1>1, <1>4 DEF Proper
  <2> QED BY <2>1, <2>2, <2>3 DEF Changed
<1>5. CASE a.do = "make"
  <2>1. /\ held' = [AfterReading(a.from) EXCEPT ![a.who][a.member] = Content(a.from)]
        /\ misuse' = IF \E m \in UnionMembers : held[a.who][m] # Dead
                     THEN misuse \cup {"overwritten"} ELSE misuse
        /\ local' = local /\ ghosts' = ghosts
      BY <1>5 DEF Access
  <2>2. h2 = Changed(ReadIn(a.from, held), a.who, a.member, ContentIn(a.from, held, local)) /\ l2 = local
      BY <1>1, <1>5 DEF HeldAfter, LocalAfter
  <2>3. \A m \in UnionMembers : held[a.who][m] = Dead
      BY <1>1, <1>5 DEF Proper
  <2>4. misuse' = misuse
      BY <2>1, <2>3
  <2>5. held' = h2
      BY <1>2, <2>1, <2>2 DEF Changed
  <2> QED BY <2>1, <2>2, <2>4, <2>5
<1>6. CASE a.do = "set"
  <2>1. /\ held' = [AfterReading(a.from) EXCEPT ![a.who][a.member] = Content(a.from)]
        /\ ghosts' = IF held[a.who][a.member] = Dead THEN ghosts \cup {a.who} ELSE ghosts
        /\ local' = local /\ misuse' = misuse
      BY <1>6 DEF Access
  <2>2. h2 = Changed(ReadIn(a.from, held), a.who, a.member, ContentIn(a.from, held, local)) /\ l2 = local
      BY <1>1, <1>6 DEF HeldAfter, LocalAfter
  <2>3. held[a.who][a.member] # Dead
      BY <1>1, <1>6 DEF Proper
  <2>4. held' = h2
      BY <1>2, <2>1, <2>2 DEF Changed
  <2> QED BY <2>4, <2>1, <2>2, <2>3
<1>7. CASE a.do = "flag"
  <2>1. /\ held' = [held EXCEPT ![a.who].has = a.has]
        /\ local' = local /\ misuse' = misuse /\ ghosts' = ghosts
      BY <1>7 DEF Access
  <2>2. h2 = Flagged(held, a.who, a.has) /\ l2 = local
      BY <1>1, <1>7 DEF HeldAfter, LocalAfter
  <2> QED BY <2>1, <2>2 DEF Flagged
<1> QED
    BY <1>1, <1>3, <1>4, <1>5, <1>6, <1>7 DEF Proper

LEMMA AccessKeepsDomain ==
    ASSUME NEW a, Access(a) PROVE DOMAIN held' = DOMAIN held
    BY DEF Access, AfterReading

LEMMA GoOnKeepsInv ==
    ASSUME ExpectedInv, ~ended, GoOn PROVE ExpectedInv'
<1>1. /\ meant \in AllSound /\ goal \in AllSound /\ DOMAIN held = Expecteds /\ misuse = {}
      /\ (Traits \subseteq traits => ghosts = {}) /\ (todo = <<>> => meant = goal) /\ Underway
    BY DEF ExpectedInv
<1>2. PICK S : todo \in Seq(S)
    BY DEF ExpectedInv
<1>3. /\ todo # <<>> /\ Access(Head(todo)) /\ todo' = Tail(todo)
      /\ meant' = (IF Tail(todo) = <<>> THEN goal ELSE meant)
      /\ traits' = traits /\ goal' = goal /\ ended' = ended
    BY DEF GoOn
<1>4. meant' \in AllSound /\ goal' \in AllSound
    BY <1>1, <1>3
<1>5. DOMAIN held' = Expecteds
    BY <1>1, <1>3, AccessKeepsDomain
<1>6. todo' \in Seq(S)
    BY <1>2, <1>3, HeadTailProperties
<1>7. todo' = <<>> => meant' = goal'
    BY <1>3
<1>8. CASE ghosts = {} /\ Leads(held, local, todo, meant, goal, traits)
  <2>1. PICK h2, l2 : /\ Step(Head(todo), held, local, h2, l2, meant, traits)
                      /\ Leads(h2, l2, Tail(todo), meant, goal, traits)
      BY <1>2, <1>3, <1>8, LeadsOn
  <2>2. held' = h2 /\ local' = l2 /\ misuse' = misuse /\ ghosts' = ghosts
      BY <1>3, <2>1, AccessIs
  <2>3. Leads(held', local', todo', meant', goal', traits')
    <3>1. Leads(h2, l2, todo', meant, goal, traits)
        BY <1>3, <2>1
    <3>2. CASE todo' = <<>>
      <4>1. h2 = goal
          BY <3>1, <3>2, LeadsThere
      <4>2. Leads(h2, l2, <<>>, meant', h2, traits)
          BY LeadsNowhere
      <4> QED BY <4>1, <4>2, <3>2, <2>2, <1>3
    <3>3. CASE todo' # <<>>
      <4>1. meant' = meant
          BY <3>3, <1>3
      <4> QED BY <4>1, <3>1, <2>2, <1>3
    <3> QED BY <3>2, <3>3
  <2>4. Underway'
      BY <1>8, <2>2, <2>3 DEF Underway
  <2>5. ghosts' = {} /\ misuse' = {}
      BY <1>1, <1>8, <2>2
  <2> QED BY <1>4, <1>5, <1>6, <1>7, <2>4, <2>5 DEF ExpectedInv
<1>9. CASE ghosts = {} /\ meant = goal /\ Unsafe(traits) /\ Reversal(todo, held, goal)
  <2>1. PICK x \in Expecteds, m \in UnionMembers :
            /\ todo = <<Set(x, m, Local, Never)>> /\ held[x][m] = Dead
            /\ \A z \in Expecteds : z # x => held[z] = goal[z]
      BY <1>9 DEF Reversal
  <2>2. PICK a : a = Set(x, m, Local, Never)
      OBVIOUS
  <2>3. a.do = "set" /\ a.who = x /\ a.member = m /\ a.from = Local /\ Local.how = "local"
      BY <2>2 DEF Set, Local
  <2>4. Head(todo) = a /\ todo' = <<>>
      BY <1>3, <2>1, <2>2
  <2>5. /\ held' = [AfterReading(a.from) EXCEPT ![a.who][a.member] = Content(a.from)]
        /\ ghosts' = (IF held[a.who][a.member] = Dead THEN ghosts \cup {a.who} ELSE ghosts)
        /\ misuse' = misuse
      BY <1>3, <2>3, <2>4 DEF Access
  <2>6. AfterReading(a.from) = held
      BY <2>3 DEF AfterReading
  <2>7. ghosts' = {x}
      BY <1>9, <2>1, <2>3, <2>5
  <2>8. \A z \in Expecteds : z # x => held'[z] = held[z]
      BY <1>1, <2>3, <2>5, <2>6
  <2>9. Underway'
      BY <1>3, <2>1, <2>4, <2>7, <2>8 DEF Underway
  <2>10. ~(Traits \subseteq traits')
      BY <1>3, <1>9 DEF Unsafe
  <2> QED BY <1>1, <1>4, <1>5, <1>6, <1>7, <2>5, <2>9, <2>10 DEF ExpectedInv
<1> QED
    BY <1>1, <1>3, <1>8, <1>9 DEF Underway

LEMMA FailKeepsInv ==
    ASSUME ExpectedInv, ~ended, Fail PROVE ExpectedInv'
<1>1. /\ meant \in AllSound /\ goal \in AllSound /\ DOMAIN held = Expecteds /\ misuse = {}
      /\ (Traits \subseteq traits => ghosts = {}) /\ (todo = <<>> => meant = goal) /\ Underway
    BY DEF ExpectedInv
<1>2. PICK S : todo \in Seq(S)
    BY DEF ExpectedInv
<1>3. PICK a : a = Head(todo)
    OBVIOUS
<1>4. /\ todo # <<>> /\ a.risk.may
      /\ held' = held /\ traits' = traits /\ local' = local /\ meant' = meant /\ misuse' = misuse /\ ghosts' = ghosts
    BY <1>3 DEF Fail
<1>5. CASE a.risk.noexcept
  <2>1. ended' = TRUE /\ todo' = todo /\ goal' = goal
      BY <1>3, <1>5 DEF Fail
  <2> QED BY <1>1, <1>2, <1>4, <2>1 DEF ExpectedInv
<1>6. CASE ~a.risk.noexcept
  <2>1. todo' = a.risk.catch /\ goal' = meant /\ ended' = ended
      BY <1>3, <1>6 DEF Fail
  <2>2. CASE ghosts = {} /\ Leads(held, local, todo, meant, goal, traits)
    <3>1. PICK h2, l2 : Step(a, held, local, h2, l2, meant, traits)
        BY <1>2, <1>3, <1>4, <2>2, LeadsOn
    <3>2. \/ a.risk.catch = <<>> /\ held = meant
          \/ Unsafe(traits) /\ Reversal(a.risk.catch, held, meant)
        BY <1>4, <1>6, <3>1 DEF Step, FailsWell
    <3>3. Underway' /\ \E R : todo' \in Seq(R)
      <4>1. CASE a.risk.catch = <<>> /\ held = meant
        <5>1. Leads(held, local, <<>>, meant, held, traits)
            BY LeadsNowhere
        <5>2. Leads(held', local', todo', meant', goal', traits')
            BY <1>4, <2>1, <4>1, <5>1
        <5>3. todo' = <<>> /\ <<>> \in Seq({})
            BY <2>1, <4>1
        <5> QED BY <1>4, <2>2, <5>2, <5>3 DEF Underway
      <4>2. CASE Unsafe(traits) /\ Reversal(a.risk.catch, held, meant)
        <5>1. Reversal(todo', held', goal') /\ Unsafe(traits') /\ meant' = goal' /\ ghosts' = {}
            BY <1>4, <2>1, <2>2, <4>2
        <5>2. PICK x, m : todo' = <<Set(x, m, Local, Never)>>
            BY <2>1, <4>2 DEF Reversal
        <5>3. PICK b : b = Set(x, m, Local, Never)
            OBVIOUS
        <5>4. <<b>> \in Seq({b})
            OBVIOUS
        <5> QED BY <5>1, <5>2, <5>3, <5>4 DEF Underway
      <4> QED BY <3>2, <4>1, <4>2
    <3> QED BY <1>1, <1>4, <2>1, <3>3 DEF ExpectedInv
  <2>3. CASE ghosts = {} /\ meant = goal /\ Unsafe(traits) /\ Reversal(todo, held, goal)
    <3>1. PICK x, m : todo = <<Set(x, m, Local, Never)>>
        BY <2>3 DEF Reversal
    <3>2. PICK b : b = Set(x, m, Local, Never)
        OBVIOUS
    <3>3. a = b
        BY <1>3, <3>1, <3>2
    <3>4. b.risk.may = FALSE
        BY <3>2 DEF Set, Never
    <3> QED BY <1>4, <3>3, <3>4
  <2> QED BY <1>1, <1>4, <2>2, <2>3 DEF Underway
<1> QED
    BY <1>5, <1>6

LEMMA CallKeepsInv ==
    ASSUME ExpectedInv, ~ended, todo = <<>>, ghosts = {},
           \/ \E x, y \in Expecteds : CallOfTwo(x, y)
           \/ \E x \in Expecteds, c \in Contents : CallOfOne(x, c)
           \/ \E x, y \in Expecteds, c \in Contents : CallMap(x, y, c)
    PROVE  ExpectedInv'
<1>1. /\ meant \in AllSound /\ DOMAIN held = Expecteds /\ misuse = {} /\ meant = goal /\ Underway
    BY DEF ExpectedInv
<1>2. held = meant
  <2>1. CASE Leads(held, local, todo, meant, goal, traits)
      BY <1>1, <2>1, LeadsThere
  <2>2. CASE Reversal(todo, held, goal)
    <3>1. PICK x, m : <<>> = <<Set(x, m, Local, Never)>>
        BY <2>2 DEF Reversal
    <3>2. <<Set(x, m, Local, Never)>> # <<>>
        OBVIOUS
    <3> QED BY <3>1, <3>2
  <2> QED BY <1>1, <2>1, <2>2 DEF Underway
<1>3. held \in AllSound
    BY <1>1, <1>2
<1>4. PICK accesses, to : BeginCall(accesses, to) /\ Served(accesses, to)
    BY <1>2, <1>3, CallsServed
<1>5. /\ to \in AllSound /\ accesses # <<>> /\ (\E S : accesses \in Seq(S))
      /\ Leads(held, Dead, accesses, held, to, traits)
    BY <1>4 DEF Served, IsCall
<1>6. /\ todo' = accesses /\ goal' = to /\ local' = Dead
      /\ held' = held /\ traits' = traits /\ meant' = meant /\ misuse' = misuse /\ ghosts' = ghosts /\ ended' = ended
    BY <1>4 DEF BeginCall
<1>7. Leads(held', local', todo', meant', goal', traits')
    BY <1>2, <1>5, <1>6
<1>8. Underway' /\ todo' # <<>>
    BY <1>5, <1>6, <1>7 DEF Underway
<1> QED
    BY <1>1, <1>5, <1>6, <1>8 DEF ExpectedInv

\* Whatever throws, a call on an expected has done what it is for or nothing,
\* with the exceptions of a catch block that assigns to a dead member
\* (expected.hpp, assign(), emplace_value() and swap()).
THEOREM ExpectedKeepsUnion == ExpectedSpec => []UnionMatchesFlag
<1>1. ExpectedInit => ExpectedInv
    BY ExpectedInitInv
<1>2. ExpectedInv /\ [ExpectedNext]_expectedVars => ExpectedInv'
  <2> SUFFICES ASSUME ExpectedInv, [ExpectedNext]_expectedVars PROVE ExpectedInv'
      OBVIOUS
  <2>1. CASE ~ended /\ GoOn
      BY <2>1, GoOnKeepsInv
  <2>2. CASE ~ended /\ Fail
      BY <2>2, FailKeepsInv
  <2>3. CASE /\ ~ended /\ todo = <<>> /\ ghosts = {}
             /\ \/ \E x, y \in Expecteds : CallOfTwo(x, y)
                \/ \E x \in Expecteds, c \in Contents : CallOfOne(x, c)
                \/ \E x, y \in Expecteds, c \in Contents : CallMap(x, y, c)
      BY <2>3, CallKeepsInv
  <2>4. CASE UNCHANGED expectedVars
    <3>1. /\ held' = held /\ traits' = traits /\ todo' = todo /\ local' = local /\ meant' = meant
          /\ goal' = goal /\ misuse' = misuse /\ ghosts' = ghosts /\ ended' = ended
        BY <2>4 DEF expectedVars
    <3>2. Underway => Underway'
        BY <3>1 DEF Underway
    <3> QED BY <3>1, <3>2 DEF ExpectedInv
  <2> QED BY <2>4, <2>1, <2>2, <2>3 DEF ExpectedNext
<1>3. ExpectedInv => UnionMatchesFlag
  <2> SUFFICES ASSUME ExpectedInv PROVE UnionMatchesFlag
      OBVIOUS
  <2>1. misuse = {} /\ (Traits \subseteq traits => ghosts = {})
      BY DEF ExpectedInv
  <2>2. ASSUME todo = <<>>, ~ended PROVE \A x \in Expecteds : x \in ghosts \/ held[x] = meant[x]
    <3>1. meant = goal /\ Underway
        BY <2>2 DEF ExpectedInv
    <3>2. CASE Leads(held, local, todo, meant, goal, traits)
      <4>1. held = goal
          BY <2>2, <3>2, LeadsThere
      <4> QED BY <3>1, <4>1
    <3>3. CASE Reversal(todo, held, goal)
      <4>1. PICK x, m : <<>> = <<Set(x, m, Local, Never)>>
          BY <2>2, <3>3 DEF Reversal
      <4>2. <<Set(x, m, Local, Never)>> # <<>>
          OBVIOUS
      <4> QED BY <4>1, <4>2
    <3>4. CASE \A z \in Expecteds \ ghosts : held[z] = goal[z]
        BY <3>1, <3>4
    <3> QED BY <3>1, <3>2, <3>3, <3>4 DEF Underway
  <2> QED BY <2>1, <2>2 DEF UnionMatchesFlag, Traits
<1> QED
    BY <1>1, <1>2, <1>3, PTL DEF ExpectedSpec

===============================================================================
