------------------------------- MODULE Caches -------------------------------
(* The caches lru and lru-k, and first the list they are made of.           *)
(*                                                                          *)
(* dsac::intrusive::list (list.hpp, list-inl.hpp): a ring of nodes through  *)
(* the list's own node storage_.  A ring is the record of the pointers      *)
(* next_ and prev_ of every node; NullNode is nullptr.                      *)
EXTENDS Naturals, Sequences, SequencesExt, FiniteSets

Storage == "storage_"
NullNode == "nullptr"

\* list(): the ring holds storage_ alone.  Other nodes point nowhere.
EmptyRing(nodes) ==
    LET alone == [n \in nodes \cup {Storage} |-> IF n = Storage THEN Storage ELSE NullNode]
    IN  [next |-> alone, prev |-> alone]

RingIsEmpty(ring) == ring.next[Storage] = Storage

\* n.attach(at): n comes to stand before at.
Attach(ring, n, at) ==
    [next |-> [ring.next EXCEPT ![ring.prev[at]] = n, ![n] = at],
     prev |-> [ring.prev EXCEPT ![at] = n, ![n] = ring.prev[at]]]

\* n.detach(): a node that is in no ring is left as it is.
Detach(ring, n) ==
    LET after == ring.next[n]  before == ring.prev[n] IN
    IF after = NullNode \/ before = NullNode THEN ring
    ELSE [next |-> [ring.next EXCEPT ![before] = after, ![n] = NullNode],
          prev |-> [ring.prev EXCEPT ![after] = before, ![n] = NullNode]]

PushFront(ring, n) == Attach(ring, n, ring.next[Storage])
PushBack(ring, n) == Attach(ring, n, Storage)

\* What pop_front() and pop_back() return, and the ring they leave.
FrontNode(ring) == IF RingIsEmpty(ring) THEN NullNode ELSE ring.next[Storage]
BackNode(ring) == IF RingIsEmpty(ring) THEN NullNode ELSE ring.prev[Storage]
PopFront(ring) == IF RingIsEmpty(ring) THEN ring ELSE Detach(ring, ring.next[Storage])
PopBack(ring) == IF RingIsEmpty(ring) THEN ring ELSE Detach(ring, ring.prev[Storage])

\* ring is the list of the elements of s: following next_ from storage_ gives
\* s, following prev_ gives s backwards, and nodes outside s point nowhere.
RingHolds(ring, s) ==
    LET way == <<Storage>> \o s \o <<Storage>> IN
    /\ \A i \in 1 .. Len(s) + 1 : ring.next[way[i]] = way[i + 1] /\ ring.prev[way[i + 1]] = way[i]
    /\ \A n \in DOMAIN ring.next \ ToSet(way) : ring.next[n] = NullNode /\ ring.prev[n] = NullNode

-----------------------------------------------------------------------------
(* The caches dsac::lru and dsac::lru_k: an index (std::unordered_set of    *)
(* items) and an intrusive list of the same items in the order of their     *)
(* last use.  lru_k has two of each, for keys seen once (history) and       *)
(* for keys seen again (buffer).  An item is known by its key; the stored   *)
(* value never changes while its key stays, so it is left out.              *)

CONSTANTS CacheKeys,
          Capacity,   \* capacity_ of both caches
          K           \* k_ of lru_k

ASSUME CacheAssumption == Capacity \in Nat \ {0} /\ K \in Nat \ {0}

VARIABLES lruRing, lruIndex,     \* lru::cache_ and lru::index_
          lruUsed,               \* the keys in the order of their last use
          historyRing, historyIndex, bufferRing, bufferIndex,
          lrukFailed,            \* nullptr has been dereferenced
          lrukOvergrown          \* a get() has moved a key to a full buffer

lruVars == <<lruRing, lruIndex, lruUsed>>
lrukVars == <<historyRing, historyIndex, bufferRing, bufferIndex, lrukFailed, lrukOvergrown>>

LruInit == lruRing = EmptyRing(CacheKeys) /\ lruIndex = {} /\ lruUsed = <<>>

LrukInit == /\ historyRing = EmptyRing(CacheKeys) /\ historyIndex = {}
            /\ bufferRing = EmptyRing(CacheKeys) /\ bufferIndex = {}
            /\ lrukFailed = FALSE /\ lrukOvergrown = FALSE

-----------------------------------------------------------------------------
Use(k) == lruUsed' = <<k>> \o Remove(lruUsed, k)

\* A defect: the node is moved to the wrong end.
PromoteToBack(ring, k) == PushBack(Detach(ring, k), k)

\* promote(): detach() and push_front().
Promote(ring, k) == PushFront(Detach(ring, k), k)

\* put() of a key that is not cached: the last of the list makes room.
LruPutNew(k) ==
    LET full == Cardinality(lruIndex) = Capacity
        kept == IF full THEN lruIndex \ {BackNode(lruRing)} ELSE lruIndex
        ring == IF full THEN PopBack(lruRing) ELSE lruRing
    IN  /\ k \notin lruIndex
        /\ lruIndex' = kept \cup {k}
        /\ lruRing' = PushFront(ring, k)
        /\ Use(k)

\* put() and get() of a cached key.  get() of another key does nothing.
LruHit(k) == k \in lruIndex /\ lruRing' = Promote(lruRing, k) /\ Use(k) /\ UNCHANGED lruIndex

LruNext == \E k \in CacheKeys : LruPutNew(k) \/ LruHit(k)

\* Whatever the sequence of put() and get(), the cache holds the keys used
\* last, as many as fit, and its ring is intact in both directions in the
\* order of use (lru::put, lru::promote, list::pop_back).
LruKeepsMostRecent ==
    LET recent == SubSeq(lruUsed, 1, IF Len(lruUsed) < Capacity THEN Len(lruUsed) ELSE Capacity)
    IN  lruIndex = ToSet(recent) /\ RingHolds(lruRing, recent)

-----------------------------------------------------------------------------
\* lru_k::put() of a new key.  pop_at_history_cache_while_overflow() takes
\* the last of the history; with an empty history it uses a null pointer.
HistoryPut(k) ==
    LET overflow == Capacity = Cardinality(historyIndex) + Cardinality(bufferIndex)
        victim == BackNode(historyRing)
    IN  /\ k \notin historyIndex \cup bufferIndex
        /\ lrukFailed' = (overflow /\ victim = NullNode)
        /\ IF lrukFailed' THEN UNCHANGED <<historyIndex, historyRing>>
           ELSE /\ historyIndex' = (IF overflow THEN historyIndex \ {victim} ELSE historyIndex) \cup {k}
                /\ historyRing' = PushFront(IF overflow THEN PopBack(historyRing) ELSE historyRing, k)
        /\ UNCHANGED <<bufferRing, bufferIndex, lrukOvergrown>>

\* put() and get() of a key in the buffer.
BufferHit(k) ==
    /\ k \in bufferIndex
    /\ bufferRing' = Promote(bufferRing, k)
    /\ UNCHANGED <<historyRing, historyIndex, bufferIndex, lrukFailed, lrukOvergrown>>

\* move_to_buffer_cache_with_promote() into the given buffer.
MoveToBuffer(k, ring, index) ==
    /\ k \in historyIndex
    /\ historyRing' = Detach(historyRing, k) /\ historyIndex' = historyIndex \ {k}
    /\ bufferRing' = PushFront(ring, k) /\ bufferIndex' = index \cup {k}
    /\ UNCHANGED lrukFailed

\* A defect: nothing makes room in the buffer.
SecondPutCareless(k) == MoveToBuffer(k, bufferRing, bufferIndex) /\ UNCHANGED lrukOvergrown

\* put() of a key in the history: pop_at_buffer_cache_while_overflow() first.
SecondPut(k) ==
    /\ IF Cardinality(bufferIndex) = K
       THEN MoveToBuffer(k, PopBack(bufferRing), bufferIndex \ {BackNode(bufferRing)})
       ELSE MoveToBuffer(k, bufferRing, bufferIndex)
    /\ UNCHANGED lrukOvergrown

\* get() of a key in the history makes no room.
SecondGet(k) ==
    /\ MoveToBuffer(k, bufferRing, bufferIndex)
    /\ lrukOvergrown' = (lrukOvergrown \/ Cardinality(bufferIndex) = K)

LrukNext == /\ ~lrukFailed
            /\ \E k \in CacheKeys : HistoryPut(k) \/ BufferHit(k) \/ SecondPut(k) \/ SecondGet(k)

\* s is the order in which ring holds the index: there is one.
RingOf(ring, index) == \E s \in SetToSeqs(index) : RingHolds(ring, s)

\* A key is in one of the two caches, the rings and the indexes agree through
\* every eviction, and the cache stays within its capacity.  The buffer stays
\* within k_ until a get() moves a key to it when it is full, and never comes
\* back to k_ afterwards; an eviction meets an empty history only when the
\* buffer has taken up the whole capacity (lru_k::get, put).
LrukConsistent ==
    /\ historyIndex \cap bufferIndex = {}
    /\ RingOf(historyRing, historyIndex) /\ RingOf(bufferRing, bufferIndex)
    /\ Cardinality(historyIndex) + Cardinality(bufferIndex) <= Capacity
    /\ lrukOvergrown <=> Cardinality(bufferIndex) > K
    /\ lrukFailed => Cardinality(bufferIndex) = Capacity

=============================================================================
