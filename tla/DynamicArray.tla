---- MODULE DynamicArray ----
(* dynamic_array (dynamic_array-inl.hpp, construct.hpp): one block of cells *)
(* of which the first size() are constructed.  Constructors, assignments of *)
(* elements and allocations may throw, at any element; the elements are     *)
(* copyable and their move constructor is not noexcept.                     *)
EXTENDS Integers, Sequences, FiniteSets

CONSTANTS Elements,
          MaxCells   \* bound: the largest block

Raw == "raw"      \* a cell without an element
Moved == "moved"  \* an element that was moved from

ASSUME ArrayAssumption == MaxCells \in Nat /\ Raw \notin Elements

VARIABLES alive,    \* the array exists
          cells,    \* from storage_.start to storage_.end_of_storage
          count,    \* storage_.finish - storage_.start
          expected, \* the elements that the successful calls have left
          scrambled,     \* an assignment or reserve() has failed half-way
          refused,       \* the constructor of an element to insert has thrown in growth
          rawDestroyed,  \* a cell without an element has been destroyed
          leaked         \* a block has been freed with elements in it

dynamicArrayVars == <<alive, cells, count, expected, scrambled, refused, rawDestroyed, leaked>>
flags == <<scrambled, refused, rawDestroyed, leaked>>

ArrayInit == /\ alive = FALSE /\ cells = <<>> /\ count = 0 /\ expected = <<>>
             /\ scrambled = FALSE /\ refused = FALSE /\ rawDestroyed = FALSE /\ leaked = FALSE

-----------------------------------------------------------------------------
Block(n) == [i \in 1 .. n |-> Raw]
Fill(block, from, elements) ==
    [i \in DOMAIN block |-> IF i - from + 1 \in DOMAIN elements THEN elements[i - from + 1] ELSE block[i]]
DestroyRange(block, places) == [i \in DOMAIN block |-> IF i \in places THEN Raw ELSE block[i]]

\* What happens to the flags when the places of a block are destroyed and
\* the block, which is empty then, is freed.
FreeBlock(block, places) ==
    /\ rawDestroyed' = (rawDestroyed \/ \E i \in places : block[i] = Raw)
    /\ leaked' = (leaked \/ \E i \in DOMAIN block \ places : block[i] # Raw)

Holds(block, n) == cells' = block /\ count' = n

\* The constructors.  One that throws leaves nothing: uninitialized_fill_n
\* and uninitialized_copy destroy what they built, the base frees the block.
Construct(elements) ==
    /\ ~alive /\ alive' = TRUE
    /\ Holds(elements, Len(elements)) /\ expected' = elements
    /\ UNCHANGED flags

\* ~dynamic_array() and ~dynamic_array_base().
DestroyArray ==
    /\ alive /\ alive' = FALSE
    /\ FreeBlock(cells, 1 .. count) /\ Holds(<<>>, 0) /\ expected' = <<>>
    /\ scrambled' = FALSE /\ UNCHANGED refused

Clear == /\ alive /\ Holds(DestroyRange(cells, 1 .. count), 0) /\ expected' = <<>>
         /\ scrambled' = FALSE
         /\ UNCHANGED <<alive, refused, rawDestroyed, leaked>>

\* push_back(), emplace_back() into a free cell.
PushInPlace(e) ==
    /\ alive /\ count < Len(cells)
    /\ Holds([cells EXCEPT ![count + 1] = e], count + 1) /\ expected' = Append(expected, e)
    /\ UNCHANGED <<alive, flags>>

-----------------------------------------------------------------------------
TwiceSize == count + (IF count = 0 THEN 1 ELSE count)

\* realloc_and_insert(): the new element, then copies of the old ones.
Grow(e) ==
    LET new == Fill(Fill(Block(TwiceSize), count + 1, <<e>>), 1, SubSeq(cells, 1, count)) IN
    /\ alive /\ count = Len(cells) /\ TwiceSize <= MaxCells
    /\ FreeBlock(cells, 1 .. count)
    /\ Holds(new, count + 1) /\ expected' = Append(expected, e)
    /\ UNCHANGED <<alive, scrambled, refused>>

\* A defect: a failed copy is taken for a failed construction of the new element.
GrowFailsForgetting ==
    /\ alive /\ count = Len(cells) /\ TwiceSize <= MaxCells
    /\ \/ /\ FreeBlock(Block(TwiceSize), {}) /\ refused' = TRUE
       \/ /\ count > 0 /\ \E e \in Elements : FreeBlock(Fill(Block(TwiceSize), count + 1, <<e>>), {})
          /\ UNCHANGED refused
    /\ UNCHANGED <<alive, cells, count, expected, scrambled>>

\* ... in which the constructor of the new element throws, or a copy of an
\* old one (after which uninitialized_copy has destroyed the copies).  The
\* catch block destroys the place of the new element in both cases.
GrowFails ==
    /\ alive /\ count = Len(cells) /\ TwiceSize <= MaxCells
    /\ \/ /\ FreeBlock(Block(TwiceSize), {count + 1}) /\ refused' = TRUE
       \/ /\ count > 0 /\ \E e \in Elements : FreeBlock(Fill(Block(TwiceSize), count + 1, <<e>>), {count + 1})
          /\ UNCHANGED refused
    /\ UNCHANGED <<alive, cells, count, expected, scrambled>>

\* reserve(): the elements are moved; a move that throws, of element j,
\* leaves the ones before it moved from.
Reserve(n) ==
    /\ alive /\ Len(cells) < n
    /\ FreeBlock(Fill(cells, 1, [i \in 1 .. count |-> Moved]), 1 .. count)
    /\ Holds(Fill(Block(n), 1, SubSeq(cells, 1, count)), count)
    /\ UNCHANGED <<alive, expected, scrambled, refused>>

ReserveFails(n, j) ==
    /\ alive /\ Len(cells) < n /\ j \in 1 .. count
    /\ FreeBlock(Fill(Block(n), 1, SubSeq(cells, 1, j - 1)), 1 .. j - 1)
    /\ Holds(Fill(cells, 1, [i \in 1 .. j - 1 |-> Moved]), count)
    /\ scrambled' = TRUE /\ UNCHANGED <<alive, expected, refused>>

-----------------------------------------------------------------------------
\* operator=(): a new block, or the old one with its tail destroyed or
\* constructed.
Assign(other) ==
    LET n == Len(other) IN
    /\ alive
    /\ IF n > Len(cells) THEN FreeBlock(cells, 1 .. count) /\ Holds(other, n)
       ELSE /\ Holds(Fill(DestroyRange(cells, n + 1 .. count), 1, other), n)
            /\ UNCHANGED <<rawDestroyed, leaked>>
    /\ expected' = other /\ scrambled' = FALSE /\ UNCHANGED <<alive, refused>>

\* The assignment or copy of element j throws.  A new block is given up, in
\* the old one the elements before j stay assigned; what was constructed
\* behind size() is destroyed.
AssignFails(other, j) ==
    LET assigned == IF j - 1 < count THEN j - 1 ELSE count IN
    /\ alive /\ j \in DOMAIN other
    /\ IF Len(other) > Len(cells) THEN UNCHANGED <<cells, scrambled>>
       ELSE cells' = Fill(cells, 1, SubSeq(other, 1, assigned)) /\ scrambled' = TRUE
    /\ UNCHANGED <<alive, count, expected, refused, rawDestroyed, leaked>>

Others == UNION {[1 .. n -> Elements] : n \in 0 .. MaxCells - 1}

DynamicArrayNext ==
    \/ DestroyArray \/ Clear \/ GrowFails
    \/ \E e \in Elements : PushInPlace(e) \/ Grow(e)
    \/ \E n \in 1 .. MaxCells : Reserve(n) \/ \E j \in 1 .. n : ReserveFails(n, j)
    \/ \E s \in Others : Construct(s) \/ Assign(s) \/ \E j \in DOMAIN s : AssignFails(s, j)

DynamicArraySpec == ArrayInit /\ [][DynamicArrayNext]_dynamicArrayVars

\* At whichever element a constructor or an assignment throws, the first
\* size() cells are constructed and no other cell is; no block is freed with
\* elements in it; a failed push_back() leaves the elements as they were; and
\* elements change or are lost only when an assignment or reserve() has failed
\* half-way.  A cell without an element is destroyed only where the
\* constructor of the inserted element throws while the array grows
\* (realloc_and_insert, whose catch block destroys what was not constructed).
ArrayOwnsItsElements ==
    /\ \A i \in DOMAIN cells : cells[i] = Raw <=> i > count
    /\ ~leaked
    /\ ~scrambled => SubSeq(cells, 1, count) = expected
    /\ rawDestroyed => refused

====
