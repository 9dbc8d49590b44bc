---- MODULE MCStructures ----
(* TLC instance of the containers and algorithms, and of the parts that     *)
(* hand things from owner to owner: nodes of the lock-free stack, objects   *)
(* of shared pointers, locks of guards, stacks of fibers, singletons, and   *)
(* the connections of HTTP.  They share no state: a behaviour exercises the *)
(* part named by chosen and leaves the others alone.                        *)
EXTENDS LockFreeStack, Ownership, Fibers, Singleton, Caches, HashTables,
        SearchTrees, Sorting, DynamicArray, GraphSearch, Graphviz, Http,
        Functional

\* One of the names is the beginning of the other.
NamesOfNodes == {<<"a">>, <<"a", "a">>}

Interchangeable == Permutations(Threads)

VARIABLE chosen  \* the part that this behaviour exercises

StructuresInit ==
    /\ StackInit /\ SharedInit /\ UniqueLockInit /\ FibersInit /\ SingletonInit
    /\ LruInit /\ LrukInit /\ ChainedInit /\ ExtendibleInit
    /\ BstInit /\ AvlInit /\ RbInit /\ BtreeInit
    /\ SortInit /\ HeapInit /\ ArrayInit
    /\ GraphInit /\ DisjointInit /\ SalesmanInit /\ DirectedInit /\ GraphvizInit
    /\ HttpInit /\ ExpectedInit /\ UniqueFunctionInit
    /\ chosen \in {"stack", "shared_ptr", "unique_lock", "fibers", "singleton",
                  "lru", "lru_k", "hashtable", "extendible_hashtable",
                  "binary_search_tree", "avl_tree", "rb_tree", "b_tree",
                  "sort", "heap", "dynamic_array", "search", "disjoint_set",
                  "salesman", "directed_graph", "graphviz", "http", "expected",
                  "unique_function"}
    /\ chosen # "expected" => traits = {}
    /\ chosen # "http" => trouble = "none" /\ \A c \in HttpClients : ~keepAlive[c]

\* A step of one part; the variables of every other part stay.
Exercise(part, step) ==
    /\ chosen = part /\ step /\ UNCHANGED chosen
    /\ part # "stack" => UNCHANGED stackVars
    /\ part # "shared_ptr" => UNCHANGED sharedVars
    /\ part # "unique_lock" => UNCHANGED guardVars
    /\ part # "fibers" => UNCHANGED fiberVars
    /\ part # "singleton" => UNCHANGED singletonVars
    /\ part # "lru" => UNCHANGED lruVars
    /\ part # "lru_k" => UNCHANGED lrukVars
    /\ part # "hashtable" => UNCHANGED chainedVars
    /\ part # "extendible_hashtable" => UNCHANGED extendibleVars
    /\ part # "binary_search_tree" => UNCHANGED bstVars
    /\ part # "avl_tree" => UNCHANGED avlVars
    /\ part # "rb_tree" => UNCHANGED rbVars
    /\ part # "b_tree" => UNCHANGED btreeVars
    /\ part # "sort" => UNCHANGED sortVars
    /\ part # "heap" => UNCHANGED heapVars
    /\ part # "dynamic_array" => UNCHANGED dynamicArrayVars
    /\ part # "search" => UNCHANGED searchVars
    /\ part # "disjoint_set" => UNCHANGED disjointVars
    /\ part # "salesman" => UNCHANGED salesmanVars
    /\ part # "directed_graph" => UNCHANGED network
    /\ part # "graphviz" => UNCHANGED graphvizVars
    /\ part # "http" => UNCHANGED httpVars
    /\ part # "expected" => UNCHANGED expectedVars
    /\ part # "unique_function" => UNCHANGED functionVars

StructuresNext ==
    \/ Exercise("stack", StackNext)
    \/ Exercise("shared_ptr", SharedNext)
    \/ Exercise("unique_lock", UniqueLockNext)
    \/ Exercise("fibers", FibersNext)
    \/ Exercise("singleton", SingletonNext)
    \/ Exercise("lru", LruNext)
    \/ Exercise("lru_k", LrukNext)
    \/ Exercise("hashtable", ChainedNext)
    \/ Exercise("extendible_hashtable", ExtendibleNext)
    \/ Exercise("binary_search_tree", BstNext)
    \/ Exercise("avl_tree", AvlNext)
    \/ Exercise("rb_tree", RbNext)
    \/ Exercise("b_tree", BtreeNext)
    \/ Exercise("sort", SortNext)
    \/ Exercise("heap", HeapNext)
    \/ Exercise("dynamic_array", DynamicArrayNext)
    \/ Exercise("search", SearchNext)
    \/ Exercise("disjoint_set", DisjointNext)
    \/ Exercise("salesman", SalesmanNext)
    \/ Exercise("directed_graph", DirectedNext)
    \/ Exercise("graphviz", Read)
    \/ Exercise("http", HttpNext)
    \/ Exercise("expected", ExpectedNext)
    \/ Exercise("unique_function", UniqueFunctionNext)

-----------------------------------------------------------------------------
\* What is to hold of a part when it is exercised; otherwise it does not change.
Of(part, property) == chosen = part => property

\* Whatever is handed from owner to owner has the one it should have: locks
\* their guards, stacks their fibers, callables their functions, elements the
\* cells of an array, also when a constructor throws (unique_lock-inl.hpp,
\* fibers, function2.hpp, dynamic_array-inl.hpp).
OwnedAsMeant ==
    /\ Of("unique_lock", GuardsOwnTheirLocks) /\ Of("fibers", StacksConserved)
    /\ Of("unique_function", FunctionsOwnCallables)
    /\ Of("dynamic_array", ArrayOwnsItsElements)

\* Through every sequence of calls the caches keep the keys that were used
\* last, in their order, and their two structures agree; no growth of a hash
\* table loses a key or its value; and the search trees hold, in order and in
\* balance, the keys that the calls have left in them (cache/, container/hash,
\* container/tree).
KeysKept ==
    /\ Of("lru", LruKeepsMostRecent) /\ Of("lru_k", LrukConsistent)
    /\ Of("hashtable", HashtableIsMap) /\ Of("extendible_hashtable", ExtendibleKeepsKeys)
    /\ Of("binary_search_tree", BstKeepsKeys) /\ Of("avl_tree", AvlKeepsKeys)
    /\ Of("rb_tree", RedBlackRules) /\ Of("b_tree", BtreeLosesOnlyDropped)

\* Sorts sort, the heap gives its elements in order, and what the graph
\* algorithms answer is so: ways, shortest ways, the parts of a graph and the
\* best round trip; and a graph is read as its text has it (algorithm,
\* container/heap, container/graph).
AlgorithmsAnswerRight ==
    /\ Of("sort", SortsSort) /\ Of("heap", PeekIsSmallest)
    /\ Of("graphviz", GraphvizReadsArrows)
    /\ Of("search", SearchesFollowEdges) /\ Of("directed_graph", BfsIsShortest)
    /\ Of("disjoint_set", RootsTellSets) /\ Of("salesman", TourIsOptimal)

====
