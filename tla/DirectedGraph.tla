---- MODULE DirectedGraph ----
(* directed_graph (directed_graph.hpp) and bfs (breadth_first_search-inl.hpp). *)
EXTENDS Integers, Sequences, SequencesExt, FiniteSets, TLC

CONSTANTS Towers,     \* keys of nodes
          MaxLinks    \* bound: edges in the graph

VARIABLE network

\* nodes_, edges_ (their keys) and the edges of each node as the keys of the
\* nodes they lead to, in the order of their insertion.
NoNodes == [nodes |-> {}, edges |-> {}, out |-> [n \in {} |-> <<>>]]

insert_node(g, n) ==
    IF n \in g.nodes THEN g
    ELSE [g EXCEPT !.nodes = @ \cup {n}, !.out = @ @@ (n :> <<>>)]

\* from and to differ, otherwise insert_direct_edge() throws.
insert_direct_edge(g, from, to, key) ==
    IF key \in g.edges THEN g
    ELSE [g EXCEPT !.edges = @ \cup {key}, !.out[from] = Append(@, to)]

-----------------------------------------------------------------------------
RECURSIVE BfsLoop(_, _, _, _), TracePath(_, _, _)

\* A defect: the successors go to the front of the queue.
NextInLineFirst(queue, new) == new \o queue

NextInLine(queue, new) == queue \o new

\* The loop of bfs(): what possible_actions holds at its end.
BfsLoop(g, processing, actions, destination) ==
    LET considered == Head(processing)
        new == SelectSeq(g.out[considered], LAMBDA n : n \notin DOMAIN actions)
    IN  IF processing = <<>> \/ considered = destination THEN actions
        ELSE BfsLoop(g, NextInLine(Tail(processing), new),
                     actions @@ [n \in ToSet(new) |-> considered], destination)

TracePath(actions, source, n) ==
    IF n = source THEN <<n>> ELSE Append(TracePath(actions, source, actions[n]), n)

\* bfs(): a destination without a node is not found.
bfs(g, source, destination) ==
    LET actions == BfsLoop(g, <<source>>, source :> source, destination) IN
    IF destination \in DOMAIN actions THEN TracePath(actions, source, destination) ELSE <<>>

-----------------------------------------------------------------------------
DirectedInit == network = NoNodes

\* To insert a key that is there again changes nothing, and is no step.
AddNode(n) ==
    /\ n \notin network.nodes
    /\ network' = insert_node(network, n)

AddLink(from, to) ==
    /\ {from, to} \subseteq network.nodes /\ from # to
    /\ <<from, to>> \notin network.edges /\ Cardinality(network.edges) < MaxLinks
    /\ network' = insert_direct_edge(network, from, to, <<from, to>>)

DirectedNext == \E n \in Towers : AddNode(n) \/ \E m \in Towers : AddLink(n, m)

\* bfs() returns the empty path when there is no way, and otherwise a way
\* along edges from the source that no other is shorter than: wherever an
\* edge leads from the end of one of its paths, another path ends that is
\* longer by one at most (breadth_first_search-inl.hpp).
BfsIsShortest ==
    \A source \in network.nodes :
        LET paths == {bfs(network, source, destination) : destination \in Towers} \ {<<>>} IN
        /\ <<source>> \in paths
        /\ \A path \in paths :
            /\ path[1] = source
            /\ \A i \in 1 .. Len(path) - 1 : path[i + 1] \in ToSet(network.out[path[i]])
            /\ \A next \in ToSet(network.out[Last(path)]) :
                \E other \in paths : Last(other) = next /\ Len(other) <= Len(path) + 1

====
