---------------------------- MODULE SearchTrees -----------------------------
(* The binary search tree, then the balanced ones.                          *)
(*                                                                          *)
(* binary_search_tree (bs_tree.hpp): nodes with pointers to their children  *)
(* and to their parent.  A node is a number; 0 is nullptr, and Freed stands *)
(* for a pointer to a node that has been destroyed.                         *)
EXTENDS Ordering, FiniteSets, FiniteSetsExt, TLC

CONSTANT BstKeys

VARIABLES bst,        \* the nodes that are allocated
          bstRoot,    \* root_
          bstSize,    \* size_
          bstKeys,    \* the keys the calls should have left in the tree
          bstFailed   \* a destroyed node has been dereferenced

bstVars == <<bst, bstRoot, bstSize, bstKeys, bstFailed>>

Freed == -1

BstInit == /\ bst = [n \in {} |-> 0] /\ bstRoot = 0 /\ bstSize = 0 /\ bstKeys = {}
           /\ bstFailed = FALSE

\* DestroyNode(): what pointed to n is left dangling.
DestroyNode(nodes, n) ==
    [x \in DOMAIN nodes \ {n} |-> [nodes[x] EXCEPT !.parent = IF @ = n THEN Freed ELSE @]]

\* The child of p that is n comes to be c.
Replace(nodes, p, n, c) ==
    IF nodes[p].left = n THEN [nodes EXCEPT ![p].left = c] ELSE [nodes EXCEPT ![p].right = c]

RECURSIVE Leftmost(_), Descend(_, _), Climb(_), InOrder(_), DestroyAll(_, _)

Leftmost(n) == IF n = 0 \/ bst[n].left = 0 THEN n ELSE Leftmost(bst[n].left)

\* The nodes on the way to key k, the last of which has it or would be its
\* parent (FindUnique, InsertUniqueNode).
Descend(n, k) ==
    LET next == IF k < bst[n].key THEN bst[n].left ELSE bst[n].right
    IN  IF bst[n].key = k \/ next = 0 THEN n ELSE Descend(next, k)

InOrder(n) == IF n = 0 THEN <<>> ELSE InOrder(bst[n].left) \o <<n>> \o InOrder(bst[n].right)

\* FindNextNode(): up to the first node whose left subtree has been left.
Climb(n) ==
    LET p == bst[n].parent IN
    IF p \in {0, Freed} \/ bst[p].left = n THEN p ELSE Climb(p)

NextNode(n) == IF bst[n].right # 0 THEN Leftmost(bst[n].right) ELSE Climb(n)

-----------------------------------------------------------------------------
BstInsert(k) ==
    LET new == CHOOSE n \in 1 .. Cardinality(BstKeys) : n \notin DOMAIN bst
        at == Descend(bstRoot, k)
        node == [key |-> k, left |-> 0, right |-> 0, parent |-> IF bstRoot = 0 THEN 0 ELSE at]
        grown == [n \in DOMAIN bst \cup {new} |-> IF n = new THEN node ELSE bst[n]]
    IN  /\ k \notin bstKeys
        /\ IF bstRoot = 0 THEN bst' = grown /\ bstRoot' = new
           ELSE /\ bst' = IF k < bst[at].key THEN [grown EXCEPT ![at].left = new]
                          ELSE [grown EXCEPT ![at].right = new]
                /\ UNCHANGED bstRoot
        /\ bstSize' = bstSize + 1 /\ bstKeys' = bstKeys \cup {k}
        /\ UNCHANGED bstFailed

\* Node n, which has at most one child c, is unlinked and destroyed.
Unlink(n, c, nodes) ==
    /\ IF n = bstRoot THEN bst' = DestroyNode(nodes, n) /\ bstRoot' = c /\ UNCHANGED bstFailed
       ELSE IF bst[n].parent = Freed THEN bstFailed' = TRUE /\ UNCHANGED <<bst, bstRoot>>
       ELSE /\ bst' = DestroyNode(Replace(nodes, bst[n].parent, n, c), n)
            /\ UNCHANGED <<bstRoot, bstFailed>>

\* A defect: of two children the left one is forgotten.
BstEraseLeft(k) ==
    LET n == Descend(bstRoot, k) IN
    /\ k \in bstKeys /\ Unlink(n, bst[n].right, bst)
    /\ bstSize' = bstSize - 1 /\ bstKeys' = bstKeys \ {k}

\* EraseUnique(): a node with two children takes over the key of its
\* successor, which is unlinked in its place.  The pointer of a child that
\* moves up to its parent is not updated.
BstErase(k) ==
    LET n == Descend(bstRoot, k)
        m == Leftmost(bst[n].right)
    IN  /\ k \in bstKeys
        /\ IF bst[n].left # 0 /\ bst[n].right # 0
           THEN Unlink(m, bst[m].right, [bst EXCEPT ![n].key = bst[m].key])
           ELSE Unlink(n, IF bst[n].left # 0 THEN bst[n].left ELSE bst[n].right, bst)
        /\ bstSize' = bstSize - 1 /\ bstKeys' = bstKeys \ {k}

\* DestroySubtree(): right rotations until the root has no left child.
DestroyAll(nodes, r) ==
    IF r = 0 THEN nodes
    ELSE LET l == nodes[r].left IN
         IF l = 0 THEN DestroyAll(DestroyNode(nodes, r), nodes[r].right)
         ELSE DestroyAll([nodes EXCEPT ![r].left = nodes[l].right, ![l].right = r], l)

BstClear == /\ bst' = DestroyAll(bst, bstRoot) /\ bstRoot' = 0 /\ bstSize' = 0 /\ bstKeys' = {}
            /\ UNCHANGED bstFailed

BstNext == ~bstFailed /\ (BstClear \/ \E k \in BstKeys : BstInsert(k) \/ BstErase(k))

\* The nodes that an Erase() has moved up and not told their parent.
Dangling == {n \in DOMAIN bst : bst[n].parent = Freed}

\* Through any sequence of Insert, Erase and Clear the tree holds exactly
\* the keys it should, in order, counts them right and forgets no node.  ++ on
\* an iterator goes through the keys in order, or else to a destroyed node;
\* this it does, and Erase() uses one, only while there is a node that an
\* Erase() has moved up (EraseUnique, FindNextNode).
BstKeepsKeys ==
    LET order == InOrder(bstRoot)
        Next(i) == IF i = Len(order) THEN 0 ELSE order[i + 1]
    IN
    /\ ~bstFailed =>
        /\ Lists([i \in 1 .. Len(order) |-> bst[order[i]].key], bstKeys)
        /\ bstSize = Len(order) /\ DOMAIN bst = ToSet(order)
    /\ \A i \in 1 .. Len(order) : NextNode(order[i]) \in {Next(i), Freed}
    /\ Dangling = {} => ~bstFailed /\ \A i \in 1 .. Len(order) : NextNode(order[i]) = Next(i)

-----------------------------------------------------------------------------
(* AVLTree (avl_tree-inl.hpp), RBTree (rb_tree-inl.hpp) and BTree           *)
(* (b_tree-inl.hpp).  Trees without parent pointers are nested records;     *)
(* the red-black tree, which has them, is a function from keys to nodes.    *)

CONSTANTS AvlKeys, RbKeys, BtreeKeys,
          T   \* the minimal degree t_ of BTree

ASSUME BtreeAssumption == T \in Nat /\ T >= 2

VARIABLES avl, avlKeys,
          avlDeleted,  \* Delete() has been called
          avlFailed,   \* a rotation has dereferenced nullptr
          rb,          \* the record of root and nodes
          rbKeys,
          btree, btreeKeys,
          btreeLost,   \* the keys below children that an inner split has dropped
          btreeFailed  \* the assertion of GetChild() has failed

avlVars == <<avl, avlKeys, avlDeleted, avlFailed>>
rbVars == <<rb, rbKeys>>
btreeVars == <<btree, btreeKeys, btreeLost, btreeFailed>>

Nil == [key |-> 0]

-----------------------------------------------------------------------------
\* GetMaxHeight(): a leaf has height 0.
Above(t) == IF t = Nil THEN 0 ELSE t.height + 1
MaxHeight(l, r) == IF Above(l) < Above(r) THEN Above(r) ELSE Above(l)
SetHeight(t) == [t EXCEPT !.height = MaxHeight(t.left, t.right)]

\* Where a rotation uses a child that is not there, the tree has Crash.
Crash == [key |-> -1, height |-> 0, left |-> Nil, right |-> Nil]

SmallLeft(t) ==
    IF t.right = Nil THEN Crash
    ELSE SetHeight([t.right EXCEPT !.left = SetHeight([t EXCEPT !.right = t.right.left])])
SmallRight(t) ==
    IF t.left = Nil THEN Crash
    ELSE SetHeight([t.left EXCEPT !.right = SetHeight([t EXCEPT !.left = t.left.right])])
LargeLeft(t) == SmallLeft([t EXCEPT !.right = SmallRight(@)])
LargeRight(t) == SmallRight([t EXCEPT !.left = SmallLeft(@)])

\* A defect: every rotation is a small one.
BalancingSmall(t, inner) ==
    LET factor == Above(t.left) - Above(t.right) IN
    SetHeight(CASE factor = -2 -> SmallLeft(t)
                [] factor = 2  -> SmallRight(t)
                [] OTHER -> t)

\* BalancingSubtree(): inner is what comp(destination_key, source_key) says.
Balancing(t, inner) ==
    LET factor == Above(t.left) - Above(t.right) IN
    SetHeight(CASE factor = -2 -> (IF inner THEN LargeLeft(t) ELSE SmallLeft(t))
                [] factor = 2  -> (IF inner THEN LargeRight(t) ELSE SmallRight(t))
                [] OTHER -> t)

RECURSIVE AvlInsertAt(_, _), FindMin(_), DeleteMin(_), AvlDeleteAt(_, _), AvlOrder(_), AvlBalanced(_)

\* InsertImpl() of a key that Contains() did not find.
AvlInsertAt(t, k) ==
    IF t = Nil THEN [key |-> k, height |-> 0, left |-> Nil, right |-> Nil]
    ELSE IF k < t.key
    THEN LET l == AvlInsertAt(t.left, k) IN Balancing([t EXCEPT !.left = l], k > l.key)
    ELSE LET r == AvlInsertAt(t.right, k) IN Balancing([t EXCEPT !.right = r], k < r.key)

FindMin(t) == IF t.left = Nil THEN t ELSE FindMin(t.left)
DeleteMin(t) == IF t.left = Nil THEN t.right ELSE [t EXCEPT !.left = DeleteMin(t.left)]

\* DeleteImpl(): only the nodes above the deleted one are balanced, always
\* by a small rotation, and the node that takes its place keeps its height.
AvlDeleteAt(t, k) ==
    IF t = Nil THEN Nil
    ELSE IF k < t.key THEN Balancing([t EXCEPT !.left = AvlDeleteAt(t.left, k)], k > t.key)
    ELSE IF k > t.key THEN Balancing([t EXCEPT !.right = AvlDeleteAt(t.right, k)], k < t.key)
    ELSE IF t.right = Nil THEN t.left
    ELSE [FindMin(t.right) EXCEPT !.right = DeleteMin(t.right), !.left = t.left]

AvlInit == avl = Nil /\ avlKeys = {} /\ avlDeleted = FALSE /\ avlFailed = FALSE

AvlOrder(t) == IF t = Nil THEN <<>> ELSE AvlOrder(t.left) \o <<t.key>> \o AvlOrder(t.right)

Becomes(t) == avl' = t /\ avlFailed' = (Crash.key \in ToSet(AvlOrder(t)))

AvlInsert(k) == /\ k \notin avlKeys
                /\ Becomes(AvlInsertAt(avl, k)) /\ avlKeys' = avlKeys \cup {k}
                /\ UNCHANGED avlDeleted

AvlDelete(k) == /\ Becomes(AvlDeleteAt(avl, k)) /\ avlKeys' = avlKeys \ {k}
                /\ avlDeleted' = TRUE

AvlNext == ~avlFailed /\ \E k \in AvlKeys : AvlInsert(k) \/ AvlDelete(k)

AvlBalanced(t) == t = Nil \/ /\ t.height = MaxHeight(t.left, t.right)
                             /\ Above(t.left) - Above(t.right) \in -1 .. 1
                             /\ AvlBalanced(t.left) /\ AvlBalanced(t.right)

\* No rotation and no deletion loses, duplicates or misplaces a key; a tree
\* that has only grown has exact heights and balanced subtrees, and no
\* rotation of it meets a missing child.  (Heights are stale after Delete(),
\* see AvlDeleteAt, and then a rotation may be one that the tree has no room for.)
AvlKeepsKeys == /\ ~avlFailed => Lists(AvlOrder(avl), avlKeys)
                /\ ~avlDeleted => ~avlFailed /\ AvlBalanced(avl)

-----------------------------------------------------------------------------
Other(side) == IF side = "left" THEN "right" ELSE "left"

\* SmallLeftRotation (side = "left") and SmallRightRotation: the child c on
\* the other side of s takes its place.
Rotate(t, s, side) ==
    LET c == t.nodes[s][Other(side)]
        inner == t.nodes[c][side]
        p == t.nodes[s].parent
        turned == [t.nodes EXCEPT ![s][Other(side)] = inner, ![s].parent = c,
                                  ![c][side] = s, ![c].parent = p]
        adopted == IF inner = 0 THEN turned ELSE [turned EXCEPT ![inner].parent = s]
    IN  IF p = 0 THEN [root |-> c, nodes |-> adopted]
        ELSE [t EXCEPT !.nodes =
                 [adopted EXCEPT ![p][IF t.nodes[p].left = s THEN "left" ELSE "right"] = c]]

Recolor(nodes, ns) ==
    [n \in DOMAIN nodes |->
        IF n \in ns THEN [nodes[n] EXCEPT !.color = IF @ = "red" THEN "black" ELSE "red"]
        ELSE nodes[n]]

RECURSIVE Blacken(_, _), RbDescend(_, _), RbOrder(_), BlackHeight(_), MaxDepth(_), MinDepth(_)

\* The loop of BalancingSubtree() from node s on; the root is made black.
Blacken(t, s) ==
    LET p == t.nodes[s].parent
        g == t.nodes[p].parent
        side == IF t.nodes[g].right = p THEN "right" ELSE "left"
        uncle == t.nodes[g][Other(side)]
        \* case 3.2.2 turns s and its parent into case 3.2.1
        bent == t.nodes[p][Other(side)] = s
        straight == IF bent THEN Rotate(t, p, side) ELSE t
        top == IF bent THEN s ELSE p
    IN  IF s = t.root \/ t.nodes[p].color = "black"
        THEN [t EXCEPT !.nodes[t.root].color = "black"]
        ELSE IF uncle # 0 /\ t.nodes[uncle].color = "red"
        THEN Blacken([t EXCEPT !.nodes = Recolor(@, {uncle, p, g})], g)
        ELSE Blacken(Rotate([straight EXCEPT !.nodes = Recolor(@, {top, g})], g, Other(side)),
                     IF bent THEN p ELSE s)

RbDescend(n, k) ==
    LET next == IF k < n THEN rb.nodes[n].left ELSE rb.nodes[n].right
    IN  IF next = 0 THEN n ELSE RbDescend(next, k)

RbInit == rb = [root |-> 0, nodes |-> [n \in {} |-> 0]] /\ rbKeys = {}

RbNode(color, parent) == [color |-> color, left |-> 0, right |-> 0, parent |-> parent]

\* A defect: the new node is black.
RbInsertBlack(k) ==
    LET at == RbDescend(rb.root, k)
        side == IF k < at THEN "left" ELSE "right"
        linked == IF rb.root = 0 THEN (k :> RbNode("black", 0))
                  ELSE [rb.nodes EXCEPT ![at][side] = k] @@ (k :> RbNode("black", at))
    IN  /\ k \notin rbKeys /\ rbKeys' = rbKeys \cup {k}
        /\ rb' = [root |-> IF rb.root = 0 THEN k ELSE rb.root, nodes |-> linked]

\* Insert(): a red leaf, then BalancingSubtree() unless its parent is the root.
RbInsert(k) ==
    LET at == RbDescend(rb.root, k)
        side == IF k < at THEN "left" ELSE "right"
        linked == [rb EXCEPT !.nodes = [@ EXCEPT ![at][side] = k] @@ (k :> RbNode("red", at))]
    IN  /\ k \notin rbKeys /\ rbKeys' = rbKeys \cup {k}
        /\ rb' = IF rb.root = 0 THEN [root |-> k, nodes |-> k :> RbNode("black", 0)]
                 ELSE IF rb.nodes[at].parent = 0 THEN linked
                 ELSE Blacken(linked, k)

RbNext == \E k \in RbKeys : RbInsert(k)

RbOrder(n) == IF n = 0 THEN <<>> ELSE RbOrder(rb.nodes[n].left) \o <<n>> \o RbOrder(rb.nodes[n].right)

\* The number of black nodes on every way down from n, or -1.
BlackHeight(n) ==
    IF n = 0 THEN 0
    ELSE LET l == BlackHeight(rb.nodes[n].left)  r == BlackHeight(rb.nodes[n].right) IN
         IF l # r \/ l = -1 THEN -1 ELSE l + IF rb.nodes[n].color = "black" THEN 1 ELSE 0

MaxDepth(n) == IF n = 0 THEN 0 ELSE 1 + Max({MaxDepth(rb.nodes[n].left), MaxDepth(rb.nodes[n].right)})
MinDepth(n) == IF n = 0 THEN 0 ELSE 1 + Min({MinDepth(rb.nodes[n].left), MinDepth(rb.nodes[n].right)})

\* After any order of insertions the tree is a search tree with right parent
\* pointers, a black root, no red node under a red one and as many black
\* nodes on every way down; and so it satisfies IsInvariantRight() of
\* test_rb_tree.cpp (RBTree::Insert, BalancingSubtree and both rotations).
RedBlackRules ==
    /\ Lists(RbOrder(rb.root), rbKeys)
    /\ \A n \in DOMAIN rb.nodes : \A side \in {"left", "right"} :
          LET c == rb.nodes[n][side] IN
          c # 0 => /\ rb.nodes[c].parent = n
                   /\ "black" \in {rb.nodes[n].color, rb.nodes[c].color}
    /\ rb.root # 0 => rb.nodes[rb.root].color = "black" /\ rb.nodes[rb.root].parent = 0
    /\ BlackHeight(rb.root) # -1
    /\ rb.root # 0 => (MaxDepth(rb.root) - 1) \div 2 <= MinDepth(rb.root) - 1

-----------------------------------------------------------------------------
\* A node of the B-tree has sequences of keys and of children.
IsLeaf(n) == n.children = <<>>
KeysFull(n) == Len(n.keys) = 2 * T - 1
Upper(n, k) == Cardinality({i \in DOMAIN n.keys : n.keys[i] <= k}) + 1
Lower(n, k) == Cardinality({i \in DOMAIN n.keys : n.keys[i] < k}) + 1

\* A defect: not the median goes up.
SplitChildDrop(n, i) ==
    LET c == n.children[i]
        new == [keys |-> SubSeq(c.keys, T + 1, 2 * T - 1), children |-> <<>>]
        old == [c EXCEPT !.keys = SubSeq(@, 1, T - 1)]
    IN  [keys |-> InsertAt(n.keys, i, c.keys[T] + 1),
         children |-> InsertAt([n.children EXCEPT ![i] = old], i + 1, new)]

\* A defect: the copying of the children begins one too late.
SplitChildLate(n, i) ==
    LET c == n.children[i]
        new == [keys |-> SubSeq(c.keys, T + 1, 2 * T - 1),
                children |-> IF IsLeaf(c) THEN <<>> ELSE SubSeq(c.children, T + 2, 2 * T)]
        old == [c EXCEPT !.keys = SubSeq(@, 1, T - 1)]
    IN  [keys |-> InsertAt(n.keys, i, c.keys[T]),
         children |-> InsertAt([n.children EXCEPT ![i] = old], i + 1, new)]

\* SplitChild(): the median of child i moves up, the larger keys go to a new
\* node.  Of an inner child, T - 1 of its last T children are copied, and it
\* keeps all of them.
SplitChild(n, i) ==
    LET c == n.children[i]
        new == [keys |-> SubSeq(c.keys, T + 1, 2 * T - 1),
                children |-> IF IsLeaf(c) THEN <<>> ELSE SubSeq(c.children, T + 1, 2 * T - 1)]
        old == [c EXCEPT !.keys = SubSeq(@, 1, T - 1)]
    IN  [keys |-> InsertAt(n.keys, i, c.keys[T]),
         children |-> InsertAt([n.children EXCEPT ![i] = old], i + 1, new)]

Broken == [keys |-> <<-1>>, children |-> <<>>]

RECURSIVE AddKey(_, _), BtreeHas(_, _), HasBroken(_), LeafDepths(_), KeysBelow(_), DroppedBy(_, _)

\* The node when AddKey() goes on to a child of it, and to which one.
Opened(n, k) ==
    LET i == Upper(n, k)
        split == KeysFull(n.children[i])
        m == IF split THEN SplitChild(n, i) ELSE n
    IN  [node |-> m, child |-> IF split /\ m.keys[i] < k THEN i + 1 ELSE i]

\* AddKey() below a node; Broken where GetChild() asserts.
AddKey(n, k) ==
    IF IsLeaf(n) THEN [n EXCEPT !.keys = InsertAt(@, Upper(n, k), k)]
    ELSE IF Upper(n, k) > Len(n.children) THEN Broken
    ELSE [Opened(n, k).node EXCEPT !.children[Opened(n, k).child] = AddKey(@, k)]

KeysBelow(n) == ToSet(n.keys) \cup UNION {KeysBelow(n.children[i]) : i \in DOMAIN n.children}

\* The keys that a split of c cuts off, those below the last of its children,
\* and all that are cut off on the way of AddKey().
Dropped(c) == IF KeysFull(c) /\ ~IsLeaf(c) THEN KeysBelow(c.children[2 * T]) ELSE {}

DroppedBy(n, k) ==
    LET i == Upper(n, k) IN
    IF IsLeaf(n) \/ i > Len(n.children) THEN {}
    ELSE Dropped(n.children[i]) \cup DroppedBy(Opened(n, k).node.children[Opened(n, k).child], k)

HasBroken(n) == n = Broken \/ \E i \in DOMAIN n.children : HasBroken(n.children[i])

BtreeHas(n, k) ==
    LET i == Lower(n, k) IN
    \/ i <= Len(n.keys) /\ n.keys[i] = k
    \/ i <= Len(n.children) /\ BtreeHas(n.children[i], k)

BtreeInit == /\ btree = [keys |-> <<>>, children |-> <<>>] /\ btreeKeys = {}
             /\ btreeLost = {} /\ btreeFailed = FALSE

\* Insert(): a full root becomes the child of a new one and is split.
BtreeInsert(k) ==
    LET top == IF KeysFull(btree) THEN SplitChild([keys |-> <<>>, children |-> <<btree>>], 1) ELSE btree
        after == AddKey(top, k)
    IN  /\ ~btreeFailed /\ k \notin btreeKeys
        /\ btree' = after
        /\ btreeKeys' = btreeKeys \cup {k}
        /\ btreeFailed' = HasBroken(after)
        /\ btreeLost' = btreeLost \cup Dropped(btree) \cup DroppedBy(top, k)

BtreeNext == \E k \in BtreeKeys : BtreeInsert(k)

LeafDepths(n) ==
    IF IsLeaf(n) THEN {0}
    ELSE UNION {{d + 1 : d \in LeafDepths(n.children[i])} : i \in DOMAIN n.children}

\* Contains() finds every key given to Insert(), as test_b_tree.cpp requires,
\* but for those below the one child that each split of an inner node drops;
\* only after such a split can the assertion of GetChild() fail; and all
\* leaves are equally deep (BTree::Insert, AddKey, SplitChild).
BtreeLosesOnlyDropped ==
    /\ btreeFailed => btreeLost # {}
    /\ ~btreeFailed => /\ \A k \in BtreeKeys : BtreeHas(btree, k) <=> k \in btreeKeys \ btreeLost
                       /\ Cardinality(LeafDepths(btree)) = 1

=============================================================================
