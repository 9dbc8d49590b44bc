---- MODULE Sorting ----
(* The sorts of dsac/algorithm as functions on sequences of numbers, and    *)
(* BinaryHeap (binary_heap-inl.hpp) as a state.  Positions count from 1.    *)
EXTENDS Ordering, FiniteSets

CONSTANTS SortValues,
          MaxLength   \* bound: the longest array

VARIABLES original, array,  \* the array before and after a sort
          sortedBy,         \* the sort that has been called, or "none"
          heap,             \* storage_ of MinBinaryHeap
          heapCount         \* how often each value should be in the heap

sortVars == <<original, array, sortedBy>>
heapVars == <<heap, heapCount>>

\* is_sorted(): no element is smaller than its predecessor.
is_sorted(s) == ~ \E i \in 1 .. Len(s) - 1 : s[i + 1] < s[i]

-----------------------------------------------------------------------------
\* Sorts that compare and swap the same positions whatever the array holds.
CompareSwap(s, p) == IF s[p[2]] < s[p[1]] THEN SwapAt(s, p[1], p[2]) ELSE s
Network(s, pairs) == FoldLeft(CompareSwap, s, pairs)

Up(a, b) == IF b < a THEN <<>> ELSE [i \in 1 .. b - a + 1 |-> a + i - 1]   \* a .. b
Neighbours(places) == [i \in DOMAIN places |-> <<places[i], places[i] + 1>>]

bubble_sort(s) ==
    Network(s, FlattenSeq([i \in 1 .. Len(s) |-> [j \in 1 .. i - 1 |-> <<j, i>>]]))

\* v1: each round narrows the range by one from both ends; there is always a first.
ShakerSort1(s) ==
    LET n == Len(s)
        rounds == 1 + Cardinality({r \in 1 .. n : r < n - 1 - r})
    IN  Network(s, FlattenSeq([r \in 1 .. rounds |->
            Neighbours(Up(r, n - r)) \o Neighbours(Reverse(Up(r, n - r - 1)))]))

\* Gaps size/2, size/4, ... 1; every element goes all the way down.
ShellSort(s) ==
    LET n == Len(s)
        gaps == [m \in 1 .. Cardinality({k \in 1 .. n : n \div 2^k > 0}) |-> n \div 2^m]
        way(d, step) == [t \in 1 .. step \div d |-> <<step - t * d + 1, step - (t - 1) * d + 1>>]
    IN  Network(s, FlattenSeq([m \in DOMAIN gaps |->
            FlattenSeq([x \in 1 .. n - gaps[m] |-> way(gaps[m], gaps[m] + x - 1)])]))

-----------------------------------------------------------------------------
\* A defect: an equal element is overtaken and the one after it overwritten.
insertion_sort_drop(s) ==
    FoldLeft(LAMBDA a, j : LET at == 1 + Cardinality({i \in 1 .. j - 1 : a[i] < a[j]})
                           IN  [a EXCEPT ![at] = a[j]],
             s, Up(2, Len(s)))

insertion_sort(s) ==
    FoldLeft(LAMBDA a, j : LET at == 1 + Cardinality({i \in 1 .. j - 1 : a[i] <= a[j]})
                           IN  InsertAt(RemoveAt(a, j), at, a[j]),
             s, Up(2, Len(s)))

selection_sort(s) ==
    FoldLeft(LAMBDA a, i : SwapAt(a, i, CHOOSE m \in i .. Len(a) :
                                           /\ \A j \in i .. Len(a) : a[m] <= a[j]
                                           /\ \A j \in i .. m - 1 : a[m] < a[j]),
             s, Up(1, Len(s)))

RECURSIVE Merge(_, _), MergeSort(_), Shake(_, _, _, _), Partition(_, _, _, _), QuickSort1(_, _, _),
          QuickSort2(_, _, _), Heapify(_, _, _), HeapifyDown(_, _), HeapifyUp(_, _)

Merge(l, r) ==
    IF l = <<>> \/ r = <<>> THEN l \o r
    ELSE IF Head(l) <= Head(r) THEN <<Head(l)>> \o Merge(Tail(l), r)
    ELSE <<Head(r)>> \o Merge(l, Tail(r))

MergeSort(s) ==
    LET half == (Len(s) - 1) \div 2 + 1 IN
    IF Len(s) <= 1 THEN s
    ELSE Merge(MergeSort(SubSeq(s, 1, half)), MergeSort(SubSeq(s, half + 1, Len(s))))

\* v2: the range ends where the last swap was, forwards and then backwards.
\* A sweep keeps the array and latest_swap.
Sweep(st, places, offset) ==
    FoldLeft(LAMBDA a, i : IF a.s[i] > a.s[i + 1]
                           THEN [s |-> SwapAt(a.s, i, i + 1), latest |-> i + offset] ELSE a,
             st, places)

Shake(s, left, right, latest) ==
    LET forth == Sweep([s |-> s, latest |-> latest], Up(left, right - 1), 0)
        back == Sweep(forth, Reverse(Up(left, forth.latest - 1)), 1)
    IN  IF back.latest < forth.latest THEN Shake(back.s, back.latest, forth.latest, back.latest)
        ELSE back.s

ShakerSort2(s) == Shake(s, 1, Len(s), Len(s))

\* The loop of v1::QuickSortImpl from left and right on.
Partition(s, left, right, pivot) ==
    LET l == CHOOSE i \in left .. Len(s) : s[i] >= pivot /\ \A j \in left .. i - 1 : s[j] < pivot
        r == CHOOSE i \in 1 .. right : s[i] <= pivot /\ \A j \in i + 1 .. right : s[j] > pivot
    IN  IF left > right THEN [s |-> s, left |-> left, right |-> right]
        ELSE IF l <= r THEN Partition(SwapAt(s, l, r), l + 1, r - 1, pivot)
        ELSE [s |-> s, left |-> l, right |-> r]

QuickSort1(s, low, high) ==
    LET p == Partition(s, low, high, s[(low + high - 2) \div 2 + 1]) IN
    IF low < high THEN QuickSort1(QuickSort1(p.s, low, p.right), p.left, high) ELSE s

\* v2: the pivot is the last element.
QuickSort2(s, low, high) ==
    LET less(a, i) == IF a.s[i] < s[high] THEN [s |-> SwapAt(a.s, a.left, i), left |-> a.left + 1] ELSE a
        p == FoldLeft(less, [s |-> s, left |-> low], Up(low, high - 1))
        placed == SwapAt(p.s, p.left, high)
    IN  IF low < high THEN QuickSort2(QuickSort2(placed, low, p.left - 1), p.left + 1, high) ELSE s

\* SortingTree::Heapify() of the first size elements from root down.
Heapify(s, size, root) ==
    LET l == IF 2 * root <= size /\ s[2 * root] > s[root] THEN 2 * root ELSE root
        largest == IF 2 * root + 1 <= size /\ s[2 * root + 1] > s[l] THEN 2 * root + 1 ELSE l
    IN  IF largest # root THEN Heapify(SwapAt(s, root, largest), size, largest) ELSE s

HeapSort(s) ==
    LET built == FoldLeft(LAMBDA a, i : Heapify(a, Len(s), i), s, Reverse(Up(1, Len(s) \div 2)))
    IN  FoldLeft(LAMBDA a, i : Heapify(SwapAt(a, 1, i), i - 1, 1), built, Reverse(Up(1, Len(s))))

\* binary_tree_sort(): a set of keys, in order; throws when it is smaller.
binary_tree_sort(s) ==
    IF Cardinality(ToSet(s)) # Len(s) THEN s ELSE SetToSortSeq(ToSet(s), <)

-----------------------------------------------------------------------------
Arrays == UNION {[1 .. n -> SortValues] : n \in 0 .. MaxLength}

SortInit == original = <<>> /\ array = <<>> /\ sortedBy = "none"

GiveArray == original = <<>> /\ sortedBy = "none" /\ original' \in Arrays /\ array' = original' /\ UNCHANGED sortedBy

SortWith(name, result) ==
    sortedBy = "none" /\ sortedBy' = name /\ array' = result /\ UNCHANGED original

SortNext ==
    \/ GiveArray
    \/ SortWith("bubble", bubble_sort(array)) \/ SortWith("shaker 1", ShakerSort1(array))
    \/ SortWith("shaker 2", ShakerSort2(array)) \/ SortWith("shell", ShellSort(array))
    \/ SortWith("insertion", insertion_sort(array)) \/ SortWith("selection", selection_sort(array))
    \/ SortWith("merge", MergeSort(array)) \/ SortWith("heap", HeapSort(array))
    \/ SortWith("quick 1", QuickSort1(array, 1, Len(array)))
    \/ SortWith("quick 2", QuickSort2(array, 1, Len(array)))
    \/ SortWith("binary tree", binary_tree_sort(array))

Count(s, v) == Cardinality({i \in DOMAIN s : s[i] = v})

\* Every sort leaves the elements it was given, as often as it was given
\* them, in ascending order; binary_tree_sort refuses duplicates and then
\* leaves the array alone (dsac/algorithm).
SortsSort ==
    /\ \A v \in SortValues : Count(array, v) = Count(original, v)
    /\ \/ sortedBy = "none"
       \/ is_sorted(array)
       \/ sortedBy = "binary tree" /\ array = original /\ Cardinality(ToSet(array)) # Len(array)

-----------------------------------------------------------------------------
\* An element goes down past an equal child too.
HeapifyDown(s, i) ==
    LET child == IF 2 * i + 1 <= Len(s) /\ s[2 * i + 1] < s[2 * i] THEN 2 * i + 1 ELSE 2 * i
    IN  IF 2 * i > Len(s) \/ s[i] < s[child] THEN s
        ELSE HeapifyDown(SwapAt(s, i, child), child)

\* The parent of the first element is itself.
HeapifyUp(s, i) ==
    LET parent == IF i = 1 THEN 1 ELSE i \div 2
    IN  IF s[i] < s[parent] THEN HeapifyUp(SwapAt(s, i, parent), parent) ELSE s

HeapInit == heap = <<>> /\ heapCount = [v \in SortValues |-> 0]

HeapInsert(v) ==
    /\ Len(heap) < MaxLength
    /\ heap' = HeapifyUp(Append(heap, v), Len(heap) + 1)
    /\ heapCount' = [heapCount EXCEPT ![v] = @ + 1]

\* A defect: the last element takes the first place and stays there.
HeapPoolLazy ==
    /\ heap # <<>>
    /\ heap' = SubSeq([heap EXCEPT ![1] = heap[Len(heap)]], 1, Len(heap) - 1)
    /\ heapCount' = [heapCount EXCEPT ![heap[1]] = @ - 1]

\* Pool() returns heap[1]; on an empty heap it throws.
HeapPool ==
    /\ heap # <<>>
    /\ heap' = HeapifyDown(SubSeq([heap EXCEPT ![1] = heap[Len(heap)]], 1, Len(heap) - 1), 1)
    /\ heapCount' = [heapCount EXCEPT ![heap[1]] = @ - 1]

HeapNext == HeapPool \/ \E v \in SortValues : HeapInsert(v)

\* Through any sequence of Insert and Pool the heap holds what was inserted
\* and not yet returned, and Peek() is the smallest of it (BinaryHeap).
PeekIsSmallest ==
    /\ \A v \in SortValues : Count(heap, v) = heapCount[v]
    /\ heap # <<>> => \A i \in DOMAIN heap : heap[1] <= heap[i]

====
