------------------------------ MODULE ObjectMap ------------------------------
(***************************************************************************)
(* The object manager (infos/kernel/om.cpp) over infos::util::Map, a         *)
(* red-black tree (infos/include/infos/util/map.h).  register_object holds   *)
(* _registry_lock; get_object_secure takes no lock, so a look-up goes down   *)
(* the tree while an insertion rotates it.  Every write of a child pointer  *)
(* that a look-up can see is a step.  Keys are inserted in any order, as by  *)
(* the maps of devices and of directory entries, whose keys are hashes.      *)
(***************************************************************************)
EXTENDS UtilList, Integers, FiniteSets

CONSTANTS
    Key,            \* the keys, numbers that are not 0
    OwnerOf         \* Key -> the process whose thread registers the object

ASSUME KeyAssumption == Key \subseteq Nat \ {0}

NoNode == 0

VARIABLES
    tree,           \* the nodes and the root; a node is named by its key
    ins,            \* the insertion in progress: its place, and the rotation
    get             \* the look-up in progress

mapVars == <<tree, ins, get>>

IdleInsert == [pc |-> "idle", x |-> NoNode, n |-> NoNode, pivot |-> NoNode, dir |-> "left"]
IdleGet == [pc |-> "idle", node |-> NoNode, key |-> NoNode, by |-> "none"]

MapInit ==
    /\ tree = [root |-> NoNode, count |-> 0, red |-> {},
               left |-> [k \in Key |-> NoNode], right |-> [k \in Key |-> NoNode],
               parent |-> [k \in Key |-> NoNode]]
    /\ ins = IdleInsert /\ get = IdleGet

----------------------------------------------------------------------------
(* MapNode. *)

Other(dir) == IF dir = "left" THEN "right" ELSE "left"
child(t, n, dir) == IF dir = "left" THEN t.left[n] ELSE t.right[n]
parent(t, n) == t.parent[n]
grandparent(t, n) == IF parent(t, n) = NoNode THEN NoNode ELSE parent(t, parent(t, n))
i_am(t, n) == IF t.left[parent(t, n)] = n THEN "left" ELSE "right"
\* Variant: the parent is taken for the uncle.
uncle_is_parent(t, n) == child(t, grandparent(t, n), i_am(t, parent(t, n)))
uncle(t, n) == child(t, grandparent(t, n), Other(i_am(t, parent(t, n))))
red(t, n) == n # NoNode /\ n \in t.red

\* left(n) and right(n): the child, and its parent unless it is null.
Adopt(t, n, dir, c) ==
    LET t1 == IF dir = "left" THEN [t EXCEPT !.left[n] = c] ELSE [t EXCEPT !.right[n] = c]
    IN IF c = NoNode THEN t1 ELSE [t1 EXCEPT !.parent[c] = n]
Colour(t, reds, blacks) == [t EXCEPT !.red = (@ \cup reds) \ blacks]

\* The node below which a key belongs, or the node of that key.
Owner(t, key) ==
    LET dir(n) == IF key < n THEN "left" ELSE "right"
        stops(n) == n \in {NoNode, key} \/ child(t, n, dir(n)) = NoNode
        down[k \in 0..Cardinality(Key)] ==
            IF k = 0 THEN t.root ELSE IF stops(down[k - 1]) THEN down[k - 1]
            ELSE child(t, down[k - 1], dir(down[k - 1]))
    IN down[Cardinality(Key)]

Known(t) == {k \in Key : k = t.root \/ t.parent[k] # NoNode}

\* Map::add, under the lock, up to the rebalancing.  A key that is there gets the new value.
Add(key) ==
    LET owner == Owner(tree, key) IN
    /\ ins.pc = "idle"
    /\ \/ /\ owner = NoNode
          /\ tree' = [tree EXCEPT !.root = key, !.count = 1]
          /\ UNCHANGED ins
       \/ /\ owner # NoNode /\ owner # key
          /\ tree' = Colour(Adopt(tree, owner, IF key < owner THEN "left" ELSE "right", key), {key}, {})
          /\ ins' = [ins EXCEPT !.pc = "fix", !.x = key]
       \/ owner = key /\ UNCHANGED <<tree, ins>>
    /\ UNCHANGED get

Rotate(n, dir) == ins' = [ins EXCEPT !.pc = "replace", !.n = n, !.dir = dir]

\* The uncle is black: an inner grandchild is rotated outwards first.
RotateAway ==
    LET x == ins.x
        side == i_am(tree, parent(tree, x))
    IN IF i_am(tree, x) = side
       THEN /\ tree' = Colour(tree, {grandparent(tree, x)}, {parent(tree, x)})
            /\ Rotate(grandparent(tree, x), Other(side))
       ELSE /\ ins' = [ins EXCEPT !.pc = "replace", !.x = parent(tree, x), !.n = parent(tree, x), !.dir = side]
            /\ UNCHANGED tree

\* A turn of rebalance_insert's loop, and its end.
RebalanceInsert ==
    LET x == ins.x
        up == parent(tree, x)
    IN /\ ins.pc = "fix"
       /\ \/ /\ ~red(tree, up)
             /\ tree' = [Colour(tree, {}, {tree.root}) EXCEPT !.count = @ + 1]
             /\ ins' = IdleInsert
          \/ /\ red(tree, up) /\ red(tree, uncle(tree, x))
             /\ tree' = Colour(tree, {grandparent(tree, x)}, {up, uncle(tree, x)})
             /\ ins' = [ins EXCEPT !.x = grandparent(tree, x)]
          \/ red(tree, up) /\ ~red(tree, uncle(tree, x)) /\ RotateAway
       /\ UNCHANGED get

\* rotate_left and rotate_right, a step for each child pointer.
RotateReplace ==
    LET pivot == child(tree, ins.n, Other(ins.dir)) IN
    /\ ins.pc = "replace"
    /\ tree' = IF parent(tree, ins.n) = NoNode
               THEN [tree EXCEPT !.root = pivot, !.parent[pivot] = NoNode]
               ELSE Adopt(tree, parent(tree, ins.n), i_am(tree, ins.n), pivot)
    /\ ins' = [ins EXCEPT !.pc = "inner", !.pivot = pivot]
    /\ UNCHANGED get

\* Variant: the node that goes down keeps the pivot as its child.
RotateInnerKeeps == ins.pc = "inner" /\ ins' = [ins EXCEPT !.pc = "lower"] /\ UNCHANGED <<tree, get>>

RotateInner ==
    /\ ins.pc = "inner"
    /\ tree' = Adopt(tree, ins.n, Other(ins.dir), child(tree, ins.pivot, ins.dir))
    /\ ins' = [ins EXCEPT !.pc = "lower"]
    /\ UNCHANGED get
RotateLower ==
    /\ ins.pc = "lower"
    /\ tree' = Adopt(tree, ins.pivot, ins.dir, ins.n)
    /\ ins' = [ins EXCEPT !.pc = "fix", !.n = NoNode, !.pivot = NoNode]
    /\ UNCHANGED get

----------------------------------------------------------------------------
(* get_object_secure. *)

GetObject(key, by) ==
    /\ get.pc = "idle"
    /\ get' = [pc |-> "walk", node |-> tree.root, key |-> key, by |-> by]
    /\ UNCHANGED <<tree, ins>>

\* try_get_value: one node further, or the end.
Walk ==
    /\ get.pc = "walk"
    /\ \/ get.node \notin {NoNode, get.key}
          /\ get' = [get EXCEPT !.node = child(tree, @, IF get.key < @ THEN "left" ELSE "right")]
       \/ get.node \in {NoNode, get.key} /\ get' = [get EXCEPT !.pc = "found"]
    /\ UNCHANGED <<tree, ins>>

\* The object goes to threads of the process that registered it.
Answer ==
    /\ get.pc = "found"
    /\ get' = [get EXCEPT !.pc = "done", !.node = IF @ # NoNode /\ OwnerOf[@] = get.by THEN @ ELSE NoNode]
    /\ UNCHANGED <<tree, ins>>

Return == get.pc = "done" /\ get' = IdleGet /\ UNCHANGED <<tree, ins>>

\* MapIterator: breadth first, with a util::List as its queue.
Enumerated(t) ==
    LET Kids(n) == [i \in {1, 2} |-> IF i = 1 THEN t.left[n] ELSE t.right[n]]
        it[k \in 0..Cardinality(Key)] ==
            IF k = 0 THEN IF t.root = NoNode THEN <<>> ELSE enqueue(<<>>, t.root)
            ELSE IF it[k - 1] = <<>> THEN <<>>
            ELSE dequeue(it[k - 1]) \o SelectSeq(Kids(first(it[k - 1])), LAMBDA c : c # NoNode)
    IN {it[k][1] : k \in {j \in 0..Cardinality(Key) : it[j] # <<>>}}

MapNext ==
    \/ \E key \in Key : Add(key) \/ \E k \in Key : GetObject(key, OwnerOf[k])
    \/ RebalanceInsert \/ RotateReplace \/ RotateInner \/ RotateLower
    \/ Walk \/ Answer \/ Return

\* A thread that runs gets on with its look-up and with its insertion.
MapFairness ==
    /\ WF_mapVars(Walk \/ Answer)
    /\ WF_mapVars(RebalanceInsert \/ RotateReplace \/ RotateInner \/ RotateLower)

----------------------------------------------------------------------------
\* The path from the root to a node, by parent pointers.
Above(t, n) ==
    LET up[m \in Key] == {m} \cup (IF t.parent[m] = NoNode THEN {} ELSE up[t.parent[m]]) IN up[n]

\* Between insertions the map is a red-black tree of all the keys added: ordered, with
\* black root, no red node below a red one, the same number of black nodes on every way
\* down, and every key found by the iterator once.
MapIsBalanced ==
    ins.pc = "idle" =>
        /\ Enumerated(tree) = Known(tree) /\ Cardinality(Known(tree)) = tree.count
        /\ tree.root \notin tree.red
        /\ \A n \in Known(tree) :
              /\ Owner(tree, n) = n
              /\ red(tree, n) => ~red(tree, parent(tree, n))
        /\ \A n, m \in Known(tree) :
              (tree.left[n] = NoNode \/ tree.right[n] = NoNode)
                /\ (tree.left[m] = NoNode \/ tree.right[m] = NoNode)
              => Cardinality(Above(tree, n) \ tree.red) = Cardinality(Above(tree, m) \ tree.red)

\* Whatever an insertion does under its feet, a look-up returns the object that was asked
\* for, to a thread of its owner, or nothing.  (It can be nothing for an object that was
\* registered before: between the steps of a rotation a node cannot be reached.)
LookUpIsSound ==
    get.pc = "done" /\ get.node # NoNode => get.node = get.key /\ OwnerOf[get.node] = get.by

\* A look-up ends: no rotation sends it round in a circle.
LookUpEnds == get.pc = "walk" ~> get.pc = "done"

\* What the map is between insertions and what a look-up makes of it during one.
MapIsSound == MapIsBalanced /\ LookUpIsSound
=============================================================================
