---- MODULE HashTables ----
(* HashTable (hashtable.hpp), chained, and extendible_hashtable             *)
(* (extendible_hashtable.hpp), a directory of shared buckets.  Keys are     *)
(* numbers and hash to themselves, as std::hash<int> does.                  *)
EXTENDS Integers, Sequences, SequencesExt, FiniteSets

CONSTANTS HashKeys,
          HashValues,
          DefaultSize,   \* default_size_ of HashTable
          BucketSize,    \* bucket_size of extendible_hashtable
          HashBits       \* keys differ in their lowest HashBits bits

ASSUME HashAssumption == /\ HashKeys \subseteq 0 .. 2^HashBits - 1
                         /\ DefaultSize \in Nat \ {0} /\ BucketSize \in Nat \ {0}

VARIABLES chains,       \* HashTable::hashtable_: position -> chain of [key, value]
          bufferSize,   \* HashTable::buffer_size_
          tableMap,       \* what the calls of Insert and Remove should have stored
          globalDepth,  \* extendible_hashtable_directory::global_depth_
          buckets,      \* its buckets, each with the directory entries that point to it
          stored,       \* the keys given to insert()
          outcome,      \* "ok", "assert" (one failed) or "endless" (recursion)
          uneven,       \* a bucket with more than two entries has been split
          repeated      \* a key in a full bucket has been inserted again

chainedVars == <<chains, bufferSize, tableMap>>
extendibleVars == <<globalDepth, buckets, stored, outcome, uneven, repeated>>

-----------------------------------------------------------------------------
\* The chain of key k and, with FindIn, its place there (0: not there).
Hashing(table, k) == (k % Len(table)) + 1
FindIn(chain, k) == SelectInSeq(chain, LAMBDA e : e.key = k)

\* InsertImpl() on the table and the counter: append, or set the value.
InsertImpl(t, e) ==
    LET h == Hashing(t.table, e.key)
        at == FindIn(t.table[h], e.key)
    IN  IF at = 0 THEN [table |-> [t.table EXCEPT ![h] = Append(@, e)], size |-> t.size + 1]
        ELSE [t EXCEPT !.table[h][at] = e]

\* A defect: only the heads of the chains are inserted again.
RehashHeads(t) ==
    FoldLeft(InsertImpl, [table |-> [i \in 1 .. 2 * Len(t.table) |-> <<>>], size |-> t.size],
             FlattenSeq([i \in 1 .. Len(t.table) |-> SubSeq(t.table[i], 1, IF t.table[i] = <<>> THEN 0 ELSE 1)]))

\* Rehash(): every node is inserted again, and counted again, in a table of
\* twice the size.
Rehash(t) ==
    FoldLeft(InsertImpl, [table |-> [i \in 1 .. 2 * Len(t.table) |-> <<>>], size |-> t.size],
             FlattenSeq(t.table))

\* TryRehash(): when buffer_size_ / size > 0.75.
TryRehash(t) == IF 4 * t.size > 3 * Len(t.table) THEN Rehash(t) ELSE t

ChainedInit == /\ chains = [i \in 1 .. DefaultSize |-> <<>>]
               /\ bufferSize = 0 /\ tableMap = [k \in {} |-> 0]

TableInsert(k, v) ==
    LET t == InsertImpl(TryRehash([table |-> chains, size |-> bufferSize]), [key |-> k, value |-> v])
    IN  /\ chains' = t.table /\ bufferSize' = t.size
        /\ tableMap' = [x \in DOMAIN tableMap \cup {k} |-> IF x = k THEN v ELSE tableMap[x]]

TableRemove(k) ==
    LET h == Hashing(chains, k)
        at == FindIn(chains[h], k)
    IN  /\ at # 0
        /\ chains' = [chains EXCEPT ![h] = RemoveAt(@, at)]
        /\ bufferSize' = bufferSize - 1
        /\ tableMap' = [x \in DOMAIN tableMap \ {k} |-> tableMap[x]]

TableContains(k) == FindIn(chains[Hashing(chains, k)], k) # 0
TableValue(k) == LET chain == chains[Hashing(chains, k)] IN chain[FindIn(chain, k)].value

ChainedNext == \E k \in HashKeys : TableRemove(k) \/ \E v \in HashValues : TableInsert(k, v)

\* Contains() and GetValue() answer as a map would after any sequence of
\* Insert and Remove, across every Rehash(); and although Rehash() counts
\* its nodes twice, buffer_size_ never falls below their number, so chains
\* stay short on average (hashtable.hpp Rehash, TryRehash).
HashtableIsMap ==
    /\ \A k \in HashKeys : TableContains(k) <=> k \in DOMAIN tableMap
    /\ \A k \in DOMAIN tableMap : TableValue(k) = tableMap[k]
    /\ Cardinality(DOMAIN tableMap) <= bufferSize
    /\ 4 * (Cardinality(DOMAIN tableMap) - 1) <= 3 * Len(chains)

-----------------------------------------------------------------------------
\* One attempt of directory::insert works on the record
\* [depth, buckets, outcome, uneven].
BucketAt(d, k) == CHOOSE b \in d.buckets : k % 2^d.depth \in b.entries

Bit(i, n) == (i \div 2^n) % 2
FlipBit(i, n) == IF Bit(i, n) = 0 THEN i + 2^n ELSE i - 2^n

\* Step 1: entry i + 2^depth comes to point where entry i does.
DoubleDirectory(d) ==
    [d EXCEPT !.depth = @ + 1,
              !.buckets = {[b EXCEPT !.entries = @ \cup {i + 2^d.depth : i \in @}] : b \in @}]

\* A defect: the split image keeps the old bucket.
SplitBucketHalf(d, k) ==
    LET old == BucketAt(d, k)
        index == k % 2^d.depth
    IN  [d EXCEPT !.buckets = (@ \ {old}) \cup
            {[entries |-> {index}, depth |-> old.depth + 1, chain |-> {}],
             [old EXCEPT !.entries = @ \ {index}, !.depth = @ + 1]}]

\* Steps 2 to 4: the entry of the key and its split image get new buckets.
\* Other entries of the old bucket keep it, one level deeper.
SplitBucket(d, k) ==
    LET old == BucketAt(d, k)
        index == k % 2^d.depth
        image == FlipBit(index, old.depth)
        rest == old.entries \ {index, image}
        fresh == {[entries |-> {i}, depth |-> old.depth + 1, chain |-> {}] : i \in {index, image}}
        kept == {[old EXCEPT !.entries = rest, !.depth = @ + 1] : i \in rest}
    IN  IF image \notin old.entries THEN [d EXCEPT !.outcome = "assert"]
        ELSE [d EXCEPT !.buckets = (@ \ {old}) \cup fresh \cup kept, !.uneven = @ \/ rest # {}]

RECURSIVE DirectoryInsert(_, _)

\* insert(): with room, store; otherwise split and insert the keys of the old
\* bucket, in their order, and then the key once more.  A full bucket that
\* holds only keys with the same HashBits bits is split for ever.
DirectoryInsert(d, k) ==
    LET b == BucketAt(d, k)
        grown == IF b.depth = d.depth THEN DoubleDirectory(d) ELSE d
        again == SetToSortSeq(b.chain, <) \o <<k>>
    IN  CASE d.outcome # "ok" -> d
          [] Cardinality(b.chain) < BucketSize ->
                [d EXCEPT !.buckets = (@ \ {b}) \cup {[b EXCEPT !.chain = @ \cup {k}]}]
          [] b.depth >= HashBits -> [d EXCEPT !.outcome = "endless"]
          [] OTHER -> FoldLeft(LAMBDA acc, x : DirectoryInsert(acc, x), SplitBucket(grown, k), again)

ExtendibleInit ==
    /\ globalDepth = 1
    /\ buckets = {[entries |-> {i}, depth |-> 1, chain |-> {}] : i \in 0 .. 1}
    /\ stored = {} /\ outcome = "ok" /\ uneven = FALSE /\ repeated = FALSE

ExtendibleInsert(k) ==
    LET d == [depth |-> globalDepth, buckets |-> buckets, outcome |-> outcome, uneven |-> uneven]
        after == DirectoryInsert(d, k)
    IN  /\ outcome = "ok"
        /\ globalDepth' = after.depth /\ buckets' = after.buckets
        /\ outcome' = after.outcome /\ uneven' = after.uneven
        /\ stored' = stored \cup {k}
        /\ repeated' = (repeated \/ k \in stored)

ExtendibleNext == \E k \in HashKeys : ExtendibleInsert(k)

ExtendibleContains(k) ==
    k \in (CHOOSE b \in buckets : k % 2^globalDepth \in b.entries).chain

\* No split loses a key: while the table works, contains() finds every key
\* that was given to insert(), and no bucket is deeper than the directory.
\* It stops working only after a bucket with more than two directory entries
\* has been split, of which the split replaces two, or a key that fills its
\* bucket alone has been inserted again (extendible_hashtable_directory::insert).
ExtendibleKeepsKeys ==
    /\ outcome = "ok" => \A k \in HashKeys : ExtendibleContains(k) <=> k \in stored
    /\ \A b \in buckets : b.depth <= globalDepth
    /\ outcome = "assert" => uneven
    /\ outcome = "endless" => repeated

====
