---------------------------- MODULE GraphSearch -----------------------------
(* Searches in a graph, then disjoint sets and the round trip.              *)
(*                                                                          *)
(* legacy_graph::Digraph with dfs::IsPathExist and ShortestPath and the     *)
(* same two of dijkstra, one action per turn of the search loop.  The two   *)
(* functions of each namespace run the same loop: path is what the one      *)
(* returns, found the other.                                                *)
EXTENDS Integers, Sequences, SequencesExt, FiniteSets, TLC, FiniteSetsExt

CONSTANTS Vertices,
          MaxEdges   \* bound: edges in the graph

VARIABLES graph,   \* graph_: the successors of the nodes it has entries for
          search   \* the search under way, or Idle

searchVars == <<graph, search>>

Infinity == 2 * Cardinality(Vertices)   \* numeric_limits<Distance>::max()

Idle == [kind |-> "none", over |-> TRUE]

GraphInit == graph = [v \in {} |-> <<>>] /\ search = Idle

Edges == {<<v, w>> \in (DOMAIN graph) \X Vertices : w \in ToSet(graph[v])}

\* graph_[v], which makes an entry for v.
Entry(v) == IF v \in DOMAIN graph THEN graph ELSE graph @@ (v :> <<>>)

\* (A second edge between the same nodes would never be followed.)
AddEdge(v, w) ==
    /\ search = Idle /\ Cardinality(Edges) < MaxEdges /\ <<v, w>> \notin Edges
    /\ graph' = [Entry(v) EXCEPT ![v] = Append(@, w)]
    /\ UNCHANGED search

\* InitDistances() visits the entries of the graph.
Begin(kind, from, to) ==
    /\ search = Idle
    /\ search' = [kind |-> kind, from |-> from, to |-> to, over |-> FALSE, found |-> FALSE,
                  processing |-> <<from>>, visited |-> {from}, actions |-> from :> from,
                  distances |-> (from :> 0) @@ [v \in DOMAIN graph |-> Infinity]]
    /\ UNCHANGED graph

\* The nodes that processing.top() may be: the last pushed, or one of the
\* largest distance, for which std::priority_queue makes no choice.
Tops ==
    IF search.kind = "dfs" THEN {Last(search.processing)}
    ELSE {v \in ToSet(search.processing) :
            \A w \in ToSet(search.processing) : search.distances[w] <= search.distances[v]}

\* A defect: where a node was reached from is not recorded.
PushUnrecorded(s, considered, v) == [s EXCEPT !.processing = Append(@, v), !.visited = @ \cup {v}]

\* The body of the loop over the successors.
PushSuccessor(s, considered, v) ==
    [s EXCEPT !.processing = Append(@, v), !.visited = @ \cup {v}, !.actions = (v :> considered) @@ @]

DfsSuccessor(s, considered, v) == IF v \in s.visited THEN s ELSE PushSuccessor(s, considered, v)

\* distances[successor] is 0 for a node without an entry: no distance is
\* smaller, so that the node is not pushed.
DijkstraSuccessor(s, considered, v) ==
    LET distance == s.distances[considered] + 1 IN
    IF v \in s.visited THEN s
    ELSE IF v \in DOMAIN s.distances /\ distance < s.distances[v]
    THEN [PushSuccessor(s, considered, v) EXCEPT !.distances[v] = distance]
    ELSE [s EXCEPT !.visited = @ \cup {v}, !.distances = @ @@ (v :> 0)]

Turn(considered) ==
    LET popped == [search EXCEPT !.processing = Remove(@, considered)]
        successor(s, v) == IF search.kind = "dfs" THEN DfsSuccessor(s, considered, v)
                           ELSE DijkstraSuccessor(s, considered, v)
    IN  /\ ~search.over /\ search.processing # <<>> /\ considered \in Tops
        /\ considered # search.to
        /\ graph' = Entry(considered)
        /\ search' = FoldLeft(successor, popped, graph'[considered])

Found == /\ ~search.over /\ search.processing # <<>> /\ search.to \in Tops
         /\ search' = [search EXCEPT !.over = TRUE, !.found = TRUE] /\ UNCHANGED graph

Exhausted == /\ ~search.over /\ search.processing = <<>>
             /\ search' = [search EXCEPT !.over = TRUE] /\ UNCHANGED graph

\* The caller has the answer.
Answered == search.over /\ search # Idle /\ search' = Idle /\ UNCHANGED graph

SearchNext ==
    \/ \E v, w \in Vertices : AddEdge(v, w)
    \/ \E kind \in {"dfs", "dijkstra"}, v, w \in Vertices : Begin(kind, v, w)
    \/ \E v \in Vertices : Turn(v)
    \/ Found \/ Exhausted \/ Answered

-----------------------------------------------------------------------------
RECURSIVE WayBack(_, _), Reachable(_, _)

\* The path that ShortestPath() collects from the destination backwards.
WayBack(s, v) ==
    IF v = s.from THEN <<v>>
    ELSE IF v \notin DOMAIN s.actions THEN <<>>
    ELSE Append(WayBack(s, s.actions[v]), v)

Reachable(edges, from) ==
    LET more == from \cup {e[2] : e \in {e \in edges : e[1] \in from}}
    IN  IF more = from THEN from ELSE Reachable(edges, more)

ThereIsAWay == search.to \in Reachable(Edges, {search.from})

\* The way that a search returns goes along edges from the source to the
\* destination.  Depth first search finds one exactly when there is one;
\* Dijkstra's search exactly when there is one and the destination has an
\* entry in the graph (dfs and dijkstra, IsPathExist and ShortestPath).
SearchesFollowEdges ==
    LET path == WayBack(search, search.to) IN
    (search # Idle /\ search.over) =>
        /\ search.found <=> path # <<>>
        /\ search.found => /\ Head(path) = search.from /\ Last(path) = search.to
                           /\ \A i \in 1 .. Len(path) - 1 : <<path[i], path[i + 1]>> \in Edges
        /\ search.found <=> /\ ThereIsAWay
                            /\ \/ search.kind = "dfs"
                               \/ search.to \in DOMAIN graph \cup {search.from}

\* IsPathExist() tells whether the graph has a way from one node to another,
\* as the comment on it in dijkstra_search.hpp says.
DijkstraFindsWays ==
    (search.kind = "dijkstra" /\ search.over) => (search.found <=> ThereIsAWay)

-----------------------------------------------------------------------------
(* legacy_graph::DisjointSet (disjoint_set_union.cpp): a forest of parent   *)
(* pointers that Find() flattens on its way.                                *)

CONSTANT Size0   \* size_set; the vertices are 0 .. Size0 - 1

ASSUME SetAssumption == Size0 \in Nat \ {0}

Members == 0 .. Size0 - 1

VARIABLES parent,   \* parent_vertex_
          joined    \* pairs of vertices that Union() calls have made one set

disjointVars == <<parent, joined>>

DisjointInit == parent = [v \in Members |-> v] /\ joined = {<<v, v>> : v \in Members}

RECURSIVE RootOf(_, _), Flatten(_, _, _)

\* Step 1 of Find(): up to the vertex that is its own parent.
RootOf(p, v) == IF p[v] = v THEN v ELSE RootOf(p, p[v])

\* Step 2: the vertices on the way, up to a child of the root, get the root.
Flatten(p, v, root) == IF p[v] = root THEN p ELSE Flatten([p EXCEPT ![v] = root], p[v], root)

Find(p, v) == Flatten(p, v, RootOf(p, v))

\* A defect: the vertex itself, not its root, is hung under the other root.
UnionVertex(v, w) ==
    /\ parent' = IF RootOf(parent, v) = RootOf(parent, w) THEN Find(Find(parent, v), w)
                 ELSE [Find(Find(parent, v), w) EXCEPT ![w] = RootOf(parent, v)]
    /\ joined' = joined \cup {<<a, b>> \in Members \X Members :
                    \/ <<a, v>> \in joined /\ <<w, b>> \in joined
                    \/ <<a, w>> \in joined /\ <<v, b>> \in joined}

\* Union(): IsConnected() has flattened both ways already.
Union(v, w) ==
    LET p == Find(Find(parent, v), w) IN
    /\ parent' = IF RootOf(p, v) = RootOf(p, w) THEN p ELSE [p EXCEPT ![RootOf(p, w)] = RootOf(p, v)]
    /\ joined' = joined \cup {<<a, b>> \in Members \X Members :
                    \/ <<a, v>> \in joined /\ <<w, b>> \in joined
                    \/ <<a, w>> \in joined /\ <<v, b>> \in joined}

FindCalled(v) == parent' = Find(parent, v) /\ UNCHANGED joined

DisjointNext == \E v \in Members : FindCalled(v) \/ \E w \in Members : Union(v, w)

\* After any Union() and Find() two vertices have the same root exactly when
\* the unions connect them: flattening never moves a vertex to another set,
\* and the parent pointers have no cycle (Find, Union, IsConnected).
RootsTellSets == \A v, w \in Members : RootOf(parent, v) = RootOf(parent, w) <=> <<v, w>> \in joined

-----------------------------------------------------------------------------
(* tsp::Solve (travelling_salesman_problem.cpp): the shortest round trip by *)
(* dynamic programming over sets of nodes; a bit set is a set of nodes.     *)

CONSTANTS Towns,      \* GetMatrixSize(): the nodes are 0 .. Towns - 1
          Costs       \* the costs of edges, not 0

ASSUME TownsAssumption == Towns \in Nat /\ Towns >= 2 /\ Costs \subseteq Nat \ {0}

Stops == 0 .. Towns - 1

VARIABLES cost,      \* graph_
          start,
          tour       \* the result of Solve(), or <<>>

salesmanVars == <<cost, start, tour>>

Unbounded == 1 + Towns * Max(Costs)   \* numeric_limits<int>::max()
LeastOf(distances) == Min(distances \cup {Unbounded})

RECURSIVE Memo(_, _), Backwards(_, _)

\* A defect: the edge is taken in the other direction.
MemoReversed(next, subset) ==
    IF subset = {start, next} THEN cost[next][start]
    ELSE LeastOf({Memo(e, subset \ {next}) + cost[next][e] : e \in subset \ {start, next}})

\* memo[next][subset]: from the start through subset to next (Setup for two
\* nodes, Solve for more).
Memo(next, subset) ==
    IF subset = {start, next} THEN cost[start][next]
    ELSE LeastOf({Memo(e, subset \ {next}) + cost[e][next] : e \in subset \ {start, next}})

FindMinCost == LeastOf({Memo(e, Stops) + cost[e][start] : e \in Stops \ {start}})

\* FindOptimalTour(): the stops of state in the order in which they are
\* visited, the last of which goes on to last; of equal ones the first.
Backwards(state, last) ==
    LET distance(j) == Memo(j, state) + cost[j][last]
        index == CHOOSE j \in state \ {start} :
                    \A i \in state \ {start} : distance(j) < distance(i) \/ (distance(j) = distance(i) /\ j <= i)
    IN  IF state = {start} THEN <<start>> ELSE Append(Backwards(state \ {index}, index), index)

\* CompleteGraph(n) without edges, and then its AddEdge() calls.
SalesmanInit == cost = [v \in Stops |-> [w \in Stops |-> 0]] /\ start = 0 /\ tour = <<>>

AddEdges == /\ cost[0][1] = 0 /\ UNCHANGED tour
            /\ cost' \in [Stops -> [Stops -> Costs]] /\ \A v \in Stops : cost'[v][v] = Min(Costs)
            /\ start' \in Stops

\* Solve(), for a graph that has all its edges.
Solve == /\ cost[0][1] # 0 /\ tour = <<>>
         /\ tour' = Append(Backwards(Stops, start), start)
         /\ UNCHANGED <<cost, start>>

SalesmanNext == AddEdges \/ Solve

Length(t) == FoldLeft(LAMBDA sum, i : sum + cost[t[i]][t[i + 1]], 0, [i \in 1 .. Len(t) - 1 |-> i])

RoundTrips == {<<start>> \o t \o <<start>> : t \in SetToSeqs(Stops \ {start})}

\* The tour that Solve() returns visits every node once, its length is the
\* returned minimal cost, and no round trip is shorter, on every matrix of
\* costs, symmetric or not (Solve, FindOptimalTour, FindMinCost).
TourIsOptimal ==
    tour # <<>> => /\ tour \in RoundTrips
                   /\ Length(tour) = FindMinCost
                   /\ \A t \in RoundTrips : Length(tour) <= Length(t)

-----------------------------------------------------------------------------
\* The searches alone; nobody uses the other two.
SearchSpec ==
    /\ GraphInit /\ DisjointInit /\ SalesmanInit
    /\ [][SearchNext /\ UNCHANGED <<disjointVars, salesmanVars>>]_<<searchVars, disjointVars, salesmanVars>>

=============================================================================
