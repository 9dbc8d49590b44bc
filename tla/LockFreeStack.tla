--------------------------- MODULE LockFreeStack ----------------------------
(***************************************************************************)
(* dsac::lock_free_stack: a linked stack changed by compare-and-exchange.  *)
(* A popped node is deleted at once when no other pop() is in progress;    *)
(* otherwise it goes to a free list that a later pop(), when it is the     *)
(* only one, deletes as a whole.                                           *)
(*                                                                         *)
(* Every access to an atomic is a step of its own; accesses to a node go   *)
(* with the step that follows them.  A compare_exchange_weak may fail      *)
(* without cause: in push_to that is a stuttering step, in pop() the       *)
(* disjunct SwingFails.  Nodes are numbered in the order of allocation and *)
(* carry no value: what is checked is which node goes where.               *)
(***************************************************************************)
EXTENDS ThreadSet, Naturals

CONSTANT MaxNodes   \* bound on the nodes that are ever allocated
CONSTANT Recycling  \* whether new may return the address of a deleted node

ASSUME StackAssumption == MaxNodes \in Nat /\ Recycling \in BOOLEAN

Null  == 0
Nodes == 1..MaxNodes

VARIABLES
    head,       \* stack_
    freeHead,   \* free_stack_
    popped,     \* popped_count
    next,       \* node::next
    memory,     \* of each node: "unused", "live" or "deleted"
    pc, node,   \* of each thread: its next step; current, or new_node in push()
    seen        \* of each thread: the last pointer it has loaded besides node

stackVars == <<head, freeHead, popped, next, memory, pc, node, seen>>

StackInit ==
    /\ head = Null /\ freeHead = Null /\ popped = 0
    /\ next = [n \in Nodes |-> Null] /\ memory = [n \in Nodes |-> "unused"]
    /\ pc = [t \in Threads |-> "idle"]
    /\ node = [t \in Threads |-> Null] /\ seen = [t \in Threads |-> Null]

Become(t, step) == pc' = [pc EXCEPT ![t] = step]

\* The nodes of the list that starts with first: those in every set that has
\* first and, with a node, the one it links to.
ListNodes(link, first) ==
    {n \in Nodes : \A s \in SUBSET Nodes :
        (first # Null => first \in s) /\ (\A m \in s : link[m] # Null => link[m] \in s) => n \in s}

Erased(first) == [n \in Nodes |-> IF n \in ListNodes(next, first) THEN "deleted" ELSE memory[n]]

Allocatable ==
    LET new == {n \in Nodes : memory[n] = "unused"} IN
    {n \in new : \A m \in new : n <= m}
        \union {n \in Nodes : Recycling /\ memory[n] = "deleted"}

\* push(): allocates the node, which remembers the head it saw ...
Push(t) ==
    /\ pc[t] = "idle" /\ Become(t, "link")
    /\ \E n \in Allocatable : /\ memory' = [memory EXCEPT ![n] = "live"]
                              /\ next' = [next EXCEPT ![n] = head]
                              /\ node' = [node EXCEPT ![t] = n]
    /\ UNCHANGED <<head, freeHead, popped, seen>>

\* ... and puts it in front of that head, or remembers the present one.
Link(t) ==
    /\ pc[t] = "link"
    /\ IF head = next[node[t]]
         THEN /\ head' = node[t] /\ UNCHANGED next
              /\ node' = [node EXCEPT ![t] = Null] /\ Become(t, "idle")
         ELSE next' = [next EXCEPT ![node[t]] = head] /\ UNCHANGED <<head, node, pc>>
    /\ UNCHANGED <<freeHead, popped, memory, seen>>

\* pop() announces itself ...
Pop(t) ==
    /\ pc[t] = "idle" /\ Become(t, "load")
    /\ popped' = popped + 1
    /\ UNCHANGED <<head, freeHead, next, memory, node, seen>>

\* The loop of pop() tests the head it has loaded.
Examine(t) ==
    /\ node' = [node EXCEPT ![t] = head]
    /\ Become(t, IF head = Null THEN "peek" ELSE "read")

\* ... loads the head ...
Load(t) ==
    /\ pc[t] = "load" /\ Examine(t)
    /\ UNCHANGED <<head, freeHead, popped, next, memory, seen>>

\* ... reads current->next ...
ReadNext(t) ==
    /\ pc[t] = "read" /\ Become(t, "swing")
    /\ seen' = [seen EXCEPT ![t] = next[node[t]]]
    /\ UNCHANGED <<head, freeHead, popped, next, memory, node>>

\* ... and swings the head to it, if current still is the head ...
Swing(t) ==
    /\ pc[t] = "swing" /\ head = node[t] /\ Become(t, "peek")
    /\ head' = seen[t]
    /\ UNCHANGED <<freeHead, popped, next, memory, node, seen>>

\* ... or starts again from the present head.
SwingFails(t) ==
    /\ pc[t] = "swing" /\ Examine(t)
    /\ UNCHANGED <<head, freeHead, popped, next, memory, seen>>

\* try_to_erase_free_list() loads the free list ...
PeekFree(t) ==
    /\ pc[t] = "peek"
    /\ seen' = [seen EXCEPT ![t] = freeHead]
    /\ Become(t, IF freeHead = Null THEN "leave" ELSE "count")
    /\ UNCHANGED <<head, freeHead, popped, next, memory, node>>

\* ... goes on only if no other pop() is in progress ...
CheckAlone(t) ==
    /\ pc[t] = "count"
    /\ Become(t, IF popped = 1 THEN "erase" ELSE "leave")
    /\ UNCHANGED <<head, freeHead, popped, next, memory, node, seen>>

\* A defect: the stack is taken over instead of the free list.
EraseStack(t) ==
    /\ pc[t] = "erase" /\ Become(t, "leave")
    /\ head' = Null /\ memory' = Erased(head)
    /\ UNCHANGED <<freeHead, popped, next, node, seen>>

\* ... and takes over and deletes the list if it starts with the same node.
EraseFree(t) ==
    /\ pc[t] = "erase" /\ Become(t, "leave")
    /\ IF freeHead = seen[t]
         THEN freeHead' = Null /\ memory' = Erased(seen[t])
         ELSE UNCHANGED <<freeHead, memory>>
    /\ UNCHANGED <<head, popped, next, node, seen>>

\* pop() is over: the last one deletes its node, others defer that.
Leave(t) ==
    /\ pc[t] = "leave"
    /\ popped' = popped - 1
    /\ Become(t, IF node[t] = Null THEN "idle"
                 ELSE IF popped = 1 THEN "delete" ELSE "defer")
    /\ seen' = [seen EXCEPT ![t] = Null]
    /\ UNCHANGED <<head, freeHead, next, memory, node>>

Delete(t) ==
    /\ pc[t] = "delete" /\ Become(t, "idle")
    /\ memory' = [memory EXCEPT ![node[t]] = "deleted"]
    /\ node' = [node EXCEPT ![t] = Null]
    /\ UNCHANGED <<head, freeHead, popped, next, seen>>

Defer(t) ==
    /\ pc[t] = "defer" /\ Become(t, "chain")
    /\ next' = [next EXCEPT ![node[t]] = freeHead]
    /\ UNCHANGED <<head, freeHead, popped, memory, node, seen>>

\* A defect: the free list is replaced without comparing its head.
ChainFreeBlind(t) ==
    /\ pc[t] = "chain" /\ Become(t, "idle")
    /\ freeHead' = node[t] /\ node' = [node EXCEPT ![t] = Null]
    /\ UNCHANGED <<head, popped, next, memory, seen>>

\* push_to(free_stack_, current)
ChainFree(t) ==
    /\ pc[t] = "chain"
    /\ IF freeHead = next[node[t]]
         THEN /\ freeHead' = node[t] /\ UNCHANGED next
              /\ node' = [node EXCEPT ![t] = Null] /\ Become(t, "idle")
         ELSE next' = [next EXCEPT ![node[t]] = freeHead] /\ UNCHANGED <<freeHead, node, pc>>
    /\ UNCHANGED <<head, popped, memory, seen>>

\* The destructor, which nobody may call while an operation is in progress.
Destroy ==
    /\ \A t \in Threads : pc[t] = "idle"
    /\ memory' = [n \in Nodes |-> IF "deleted" \in {Erased(head)[n], Erased(freeHead)[n]}
                                    THEN "deleted" ELSE memory[n]]
    /\ head' = Null /\ freeHead' = Null
    /\ UNCHANGED <<popped, next, pc, node, seen>>

StackStep(t) ==
    \/ Push(t) \/ Link(t) \/ Pop(t) \/ Load(t) \/ ReadNext(t) \/ Swing(t) \/ SwingFails(t)
    \/ PeekFree(t) \/ CheckAlone(t) \/ EraseFree(t) \/ Leave(t) \/ Delete(t)
    \/ Defer(t) \/ ChainFree(t)

StackNext == Destroy \/ \E t \in Threads : StackStep(t)

StackSpec == StackInit /\ [][StackNext]_stackVars

-----------------------------------------------------------------------------
\* No thread touches a node that has been deleted: whoever is about to read
\* or write a field of its node, or to delete it, finds it alive, and both
\* lists hold live nodes only.  A thread that is about to swing the head
\* compares the address and does not look at the node.
NoUseAfterFree ==
    /\ \A t \in Threads :
           pc[t] # "swing" /\ node[t] # Null => memory[node[t]] = "live"
    /\ \A n \in ListNodes(next, head) \union ListNodes(next, freeHead) : memory[n] = "live"

\* No node is forgotten: a live node is in the stack, in the free list, or
\* in the hands of the thread that pushes it or has popped it.
Held == {node[t] : t \in {u \in Threads : pc[u] \in
                            {"link", "peek", "count", "erase", "leave", "delete", "defer", "chain"}}}
NoLeak ==
    {n \in Nodes : memory[n] = "live"} \subseteq
        ListNodes(next, head) \union ListNodes(next, freeHead) \union Held

\* Nodes are neither used after they are deleted nor forgotten
\* (stack::pop, erase, try_to_erase_free_list).
NodesOwned == NoUseAfterFree /\ NoLeak

\* What is in the stack, and in which order; d is c with n on top.
content == [top |-> head, below |-> [n \in ListNodes(next, head) |-> next[n]]]
OnTop(n, c, d) ==
    /\ n \notin DOMAIN c.below
    /\ d = [top |-> n, below |-> [m \in DOMAIN c.below \union {n} |->
                                     IF m = n THEN c.top ELSE c.below[m]]]

\* The stack behaves as a stack in spite of stale pointers: a push() puts its
\* node on top, a pop() removes the node it returns from the top, and
\* otherwise only the destructor changes the content.
StackIsLifo ==
    [][ \/ \E t \in Threads : pc[t] = "link" /\ OnTop(node[t], content, content')
        \/ \E t \in Threads : pc[t] = "swing" /\ OnTop(node[t], content', content)
        \/ content'.top = Null /\ \A t \in Threads : pc[t] = "idle" ]_content

=============================================================================
