------------------------------- MODULE RBTree -------------------------------
(***************************************************************************)
(* The red-black tree of kernel/tree/rb_tree.c, which holds the handles,   *)
(* the timers, the access control lists, the memory maps and the resource  *)
(* regions.  A node is its key; 0 is NULL.  The operators compute what the *)
(* functions do to the nodes' pointers and colours, loop by loop; each     *)
(* call runs under tree->lock and is one step.                             *)
(***************************************************************************)
EXTENDS Integers, FiniteSets

CONSTANT Keys

ASSUME KeysAssumption == Keys \subseteq Nat \ {0}

VARIABLES tree,    \* the root, and of each node rb_nodes, the parent and the colour
          keys     \* the keys inserted and not removed since

vars == <<tree, keys>>

NULL == 0
Left == 0
Right == 1

SetKid(t, x, dir, y) == [t EXCEPT !.kid[x][dir] = y]
SetParent(t, x, y) == [t EXCEPT !.parent[x] = y]
SetRed(t, x, red) == [t EXCEPT !.red[x] = red]
Side(t, y, x) == IF x = t.kid[y][Right] THEN Right ELSE Left
Red(t, x) == x # NULL /\ t.red[x]

\* z takes the place of x below y, or at the root.
Hang(t, y, x, z) ==
    IF y # NULL THEN SetKid(t, y, Side(t, y, x), z) ELSE [t EXCEPT !.root = z]

(* _rotate_subtree *)
Rotate(t, x, dir) ==
    LET y == t.parent[x]
        z == t.kid[x][1 - dir]
        inner == t.kid[z][dir]
        t1 == SetKid(SetKid(t, x, 1 - dir, inner), z, dir, x)
        t2 == IF inner # NULL THEN SetParent(t1, inner, x) ELSE t1
    IN  Hang(SetParent(SetParent(t2, x, z), z, y), y, x, z)

RECURSIVE Extreme(_, _, _)
Extreme(t, x, dir) == IF t.kid[x][dir] = NULL THEN x ELSE Extreme(t, t.kid[x][dir], dir)

RECURSIVE Climb(_, _, _)
Climb(t, x, dir) ==
    LET y == t.parent[x] IN
    IF y # NULL /\ x = t.kid[y][dir] THEN Climb(t, y, dir) ELSE y

\* The last node on the way down to a key.
RECURSIVE Descend(_, _, _)
Descend(t, x, key) ==
    LET y == t.kid[x][IF x < key THEN Right ELSE Left] IN
    IF x = key \/ y = NULL THEN x ELSE Descend(t, y, key)

-----------------------------------------------------------------------------
(* The loop of rb_tree_lookup_or_insert_node that follows a red parent up.  *)
RECURSIVE FixInsert(_, _, _)
FixInsert(t, x, y) ==
    IF ~Red(t, y) THEN t
    ELSE LET z == t.parent[y] IN
    IF z = NULL THEN SetRed(t, y, FALSE)
    ELSE LET dir == Side(t, z, y)
             w == t.kid[z][1 - dir] IN
    IF ~Red(t, w)
    THEN LET t1 == IF x = t.kid[y][1 - dir] THEN Rotate(t, y, dir) ELSE t
             top == t1.kid[z][dir]
         IN  SetRed(SetRed(Rotate(t1, z, 1 - dir), top, FALSE), z, TRUE)
    ELSE LET t1 == SetRed(SetRed(SetRed(t, y, FALSE), z, TRUE), w, FALSE)
         IN  FixInsert(t1, z, t1.parent[z])

(* rb_tree_lookup_or_insert_node, for a key that is not in the tree.        *)
InsertNode(t, x) ==
    LET new == [t EXCEPT !.kid[x] = [dir \in {Left, Right} |-> NULL]] IN
    IF t.root = NULL
    THEN [new EXCEPT !.root = x, !.parent[x] = NULL, !.red[x] = FALSE]
    ELSE LET y == Descend(t, t.root, x)
             t1 == SetKid(SetRed(SetParent(new, x, y), x, TRUE), y,
                          IF y < x THEN Right ELSE Left, x)
         IN  FixInsert(t1, x, y)

-----------------------------------------------------------------------------
(* rb_tree_remove_node: a node with two children first changes places with  *)
(* its successor.                                                           *)
SwapWithNext(t, x) ==
    LET y == t.parent[x]
        r == t.kid[x][Right]
        l == t.kid[x][Left]
        z == Extreme(t, r, Left)
        below == t.kid[z][Right]
        w == t.parent[z]
        t1 == SetParent(SetKid(SetKid(Hang(t, y, x, z), z, Left, l), x, Left, NULL), l, z)
        t2 == IF z = r
              THEN SetParent(SetKid(SetKid(t1, x, Right, below), z, Right, x), x, z)
              ELSE LET t3 == SetParent(SetKid(SetKid(t1, x, Right, below), z, Right, r), r, z)
                   IN  SetParent(SetKid(t3, w, Side(t3, w, z), x), x, w)
        t4 == IF below # NULL THEN SetParent(t2, below, x) ELSE t2
    IN  SetRed(SetRed(SetParent(t4, z, y), z, t.red[x]), x, t.red[z])

\* The loop that makes up for a black node that is missing below y on side dir.
RECURSIVE FixRemove(_, _, _)
FixRemove(t, y, dir) ==
    LET z0 == t.kid[y][1 - dir]
        t1 == IF Red(t, z0)
              THEN SetRed(SetRed(Rotate(t, y, dir), y, TRUE), z0, FALSE)
              ELSE t
        z == IF Red(t, z0) THEN t.kid[z0][dir] ELSE z0
        u == t1.kid[z][1 - dir]
        v == t1.kid[z][dir]
        t2 == SetRed(t1, z, TRUE)
        up == t2.parent[y] IN
    IF Red(t1, u)
    THEN SetRed(SetRed(SetRed(Rotate(t1, y, dir), z, t1.red[y]), y, FALSE), u, FALSE)
    ELSE IF Red(t1, v)
    THEN SetRed(SetRed(SetRed(Rotate(Rotate(t1, z, 1 - dir), y, dir), v, t1.red[y]),
                       y, FALSE), z, FALSE)
    ELSE IF t2.red[y] THEN SetRed(t2, y, FALSE)
    ELSE IF up = NULL THEN t2
    ELSE FixRemove(t2, up, Side(t2, up, y))

\* Faulty variant: a node that loses its only child stays red.
RemoveNodeKeepingRed(t0, x) ==
    LET both == t0.kid[x][Left] # NULL /\ t0.kid[x][Right] # NULL
        t == IF both THEN SwapWithNext(t0, x) ELSE t0
        y == t.parent[x]
        z == IF t.kid[x][Left] # NULL THEN t.kid[x][Left] ELSE t.kid[x][Right] IN
    IF z # NULL THEN SetParent(Hang(t, y, x, z), z, y)
    ELSE IF x = t.root THEN [t EXCEPT !.root = NULL]
    ELSE LET dir == Side(t, y, x)
             t1 == SetKid(t, y, dir, NULL)
         IN  IF t.red[x] THEN t1 ELSE FixRemove(t1, y, dir)

RemoveNode(t0, x) ==
    LET both == t0.kid[x][Left] # NULL /\ t0.kid[x][Right] # NULL
        t == IF both THEN SwapWithNext(t0, x) ELSE t0
        y == t.parent[x]
        z == IF t.kid[x][Left] # NULL THEN t.kid[x][Left] ELSE t.kid[x][Right] IN
    IF z # NULL THEN SetParent(SetRed(Hang(t, y, x, z), z, FALSE), z, y)
    ELSE IF x = t.root THEN [t EXCEPT !.root = NULL]
    ELSE LET dir == Side(t, y, x)
             t1 == SetKid(t, y, dir, NULL)
         IN  IF t.red[x] THEN t1 ELSE FixRemove(t1, y, dir)

-----------------------------------------------------------------------------
(* rb_tree_lookup_node *)
LookupNode(t, key) ==
    IF t.root = NULL THEN NULL
    ELSE LET x == Descend(t, t.root, key) IN IF x = key THEN x ELSE NULL

(* rb_tree_lookup_decreasing_node and rb_tree_lookup_increasing_node *)
\* Faulty variant: the way up is not taken.
LookupDecreasingBelow(t, key) ==
    IF t.root = NULL THEN NULL
    ELSE LET x == Descend(t, t.root, key) IN IF x <= key THEN x ELSE t.parent[x]

LookupDecreasing(t, key) ==
    IF t.root = NULL THEN NULL
    ELSE LET x == Descend(t, t.root, key) IN IF x <= key THEN x ELSE Climb(t, x, Left)

LookupIncreasing(t, key) ==
    IF t.root = NULL THEN NULL
    ELSE LET x == Descend(t, t.root, key) IN IF x >= key THEN x ELSE Climb(t, x, Right)

(* rb_tree_iter_start and rb_tree_iter_next *)
IterStart(t) == IF t.root = NULL THEN NULL ELSE Extreme(t, t.root, Left)
IterNext(t, x) ==
    IF t.kid[x][Right] # NULL THEN Extreme(t, t.kid[x][Right], Left) ELSE Climb(t, x, Right)

-----------------------------------------------------------------------------
\* The fields of a node outside the tree are overwritten before they are read.
Blank(t, x) ==
    [t EXCEPT !.kid[x] = [dir \in {Left, Right} |-> NULL], !.parent[x] = NULL, !.red[x] = FALSE]

(* rb_tree_init *)
Init ==
    /\ tree = [root |-> NULL,
               kid |-> [x \in Keys |-> [dir \in {Left, Right} |-> NULL]],
               parent |-> [x \in Keys |-> NULL],
               red |-> [x \in Keys |-> FALSE]]
    /\ keys = {}

(* rb_tree_insert_node (which panics on a key that is already there) *)
Insert(x) ==
    /\ LookupNode(tree, x) = NULL
    /\ tree' = InsertNode(tree, x)
    /\ keys' = keys \cup {x}

(* rb_tree_remove_node, called for a node of the tree *)
Remove(x) ==
    /\ x \in keys
    /\ tree' = Blank(RemoveNode(tree, x), x)
    /\ keys' = keys \ {x}

Next == \E x \in Keys : Insert(x) \/ Remove(x)

Spec == Init /\ [][Next]_vars

-----------------------------------------------------------------------------
(* Pointers lead to nodes of the tree or nowhere, and parents and children  *)
(* know each other.                                                         *)
TypeOK ==
    /\ keys \subseteq Keys
    /\ tree.root \in keys \cup {NULL}
    /\ tree.root # NULL => tree.parent[tree.root] = NULL
    /\ \A x \in keys, dir \in {Left, Right} :
          tree.kid[x][dir] # NULL => tree.kid[x][dir] \in keys /\ tree.parent[tree.kid[x][dir]] = x

\* The number of black nodes on every way down from x, or -1 if it varies.
RECURSIVE BlackHeight(_)
BlackHeight(x) ==
    IF x = NULL THEN 0
    ELSE LET l == BlackHeight(tree.kid[x][Left])
             r == BlackHeight(tree.kid[x][Right])
         IN  IF l = -1 \/ l # r THEN -1 ELSE IF tree.red[x] THEN l ELSE l + 1

(* The tree is balanced after every insertion and removal: no red node has  *)
(* a red child, and all ways down pass the same number of black nodes, so   *)
(* that no way is more than twice as long as another.                       *)
Balanced ==
    /\ \A x \in keys, dir \in {Left, Right} :
          tree.red[x] => ~Red(tree, tree.kid[x][dir])
    /\ BlackHeight(tree.root) # -1

Greatest(S) == IF S = {} THEN NULL ELSE CHOOSE x \in S : \A y \in S : y <= x
Least(S) == IF S = {} THEN NULL ELSE CHOOSE x \in S : \A y \in S : x <= y

(* The lookups and the iteration agree with the set of keys in the tree:    *)
(* the nearest key at or below, at or above, the first one and the next.    *)
LookupsAgree ==
    /\ \A key \in 0 .. Greatest(Keys) + 1 :
          /\ LookupNode(tree, key) = Greatest({x \in keys : x = key})
          /\ LookupDecreasing(tree, key) = Greatest({x \in keys : x <= key})
          /\ LookupIncreasing(tree, key) = Least({x \in keys : x >= key})
    /\ IterStart(tree) = Least(keys)
    /\ \A x \in keys : IterNext(tree, x) = Least({y \in keys : y > x})

=============================================================================
