------------------------------- MODULE Octree -------------------------------
(***************************************************************************)
(* Class Octree.  A node is its bounds, its items (as a leaf) and its eight *)
(* child nodes (as an intermediate).  A float is a whole number of 1/Scale, *)
(* so that every half is exact.  FLT_MIN is taken off the upper border of a *)
(* child cube; a float feels that at 0 only, where it is one unit here.    *)
(***************************************************************************)
EXTENDS Integers, FiniteSets, Sequences, SequencesExt

CONSTANTS
    Roots,          \* the bounds given to the constructor, one of these
    Boxes,          \* the items that may be added, a sequence of bounds
    Points,         \* the points that are asked for
    Scale,          \* units of length 1
    MaxItems,       \* items added
    Tiny            \* multiples of FLT_MIN that are told apart

ASSUME OctreeAssumption == 2 * Tiny < Scale

Axes == 1 .. 3
Cube(lo, hi) == [min |-> lo, max |-> hi]

Below(c) == IF c \in -Tiny .. 0 THEN c - 1 ELSE c
Snap(c) == IF c \in -Tiny .. 0 THEN 0 ELSE c
Half(lo, hi) == lo + (Snap(hi) - lo) \div 2

IsPointInBounds(pt, ab) == \A i \in Axes : ab.min[i] <= pt[i] /\ pt[i] <= ab.max[i]

IsCubeEnclosed(big, small) ==
    \A i \in Axes : /\ big.min[i] <= small.min[i] /\ small.min[i] <= big.max[i]
                    /\ small.max[i] <= big.max[i]

Corners(ab) == {c \in [Axes -> {ab.min[i] : i \in Axes} \cup {ab.max[i] : i \in Axes}] :
                    \A i \in Axes : c[i] \in {ab.min[i], ab.max[i]}}

HasCornerIn(area, ab) ==
    \A i \in Axes : \E c \in {ab.min[i], ab.max[i]} : area.min[i] <= c /\ c <= area.max[i]

\* The loops over the corners count in int: the lower border loses its
\* fraction towards zero, and so does each step by the extent.
Trunc(c) == IF c >= 0 THEN c - (c % Scale) ELSE c + ((-c) % Scale)

Visited(lo, hi) ==
    LET from[c \in Int] ==
          LET next == Trunc(c + hi - lo)
          IN IF c > hi THEN {} ELSE IF next = c THEN {c} ELSE {c} \cup from[next]
    IN from[Trunc(lo)]

\* Of each item, the points the three loops come to, in the order x, y, z,
\* and whether a loop steps on the spot: the ones around it stay at their
\* first value then.
Loops ==
    [id \in DOMAIN Boxes |->
       LET min == Boxes[id].min
           max == Boxes[id].max
           seen == [i \in Axes |-> Visited(min[i], max[i])]
           stuck == {i \in Axes : /\ \A j \in 1 .. i - 1 : seen[j] # {}
                                  /\ \E c \in seen[i] : Trunc(c + max[i] - min[i]) = c}
           axis(i) == IF \E j \in stuck : i < j THEN {Trunc(min[i])} ELSE seen[i]
       IN [points |-> {<<x, y, z>> : x \in axis(1), y \in axis(2), z \in axis(3)},
           endless |-> stuck # {}]]

HasPointIn(area, id) == \E pt \in Loops[id].points : IsPointInBounds(pt, area)

\* isItemInBoundsPartial: a point of the loops is in the area, or the item
\* encloses all of it; without such a point, loops that do not end hang.
IsItemInBoundsPartial(area, id) == HasPointIn(area, id) \/ IsCubeEnclosed(Boxes[id], area)

Hangs(area, id) == Loops[id].endless /\ ~HasPointIn(area, id)

\* getChildBounds: right, bottom and near are the upper halves of the axes.
GetChildBounds(ab) ==
    LET half == [i \in Axes |-> Half(ab.min[i], ab.max[i])]
        upper(n, i) == CASE i = 1 -> n % 2 = 0
                         [] i = 2 -> n \in {3, 4, 7, 8}
                         [] i = 3 -> n <= 4
    IN [n \in 1 .. 8 |->
          Cube([i \in Axes |-> IF upper(n, i) THEN half[i] ELSE ab.min[i]],
               [i \in Axes |-> Below(IF upper(n, i) THEN ab.max[i] ELSE half[i])])]

-----------------------------------------------------------------------------
Leaf(ab) == [bounds |-> ab, items |-> <<>>, leaves |-> <<>>]
IsLeaf(node) == node.leaves = <<>>

\* A node some loop over an item's corners never returned from.
Hung == [bounds |-> Cube(<<>>, <<>>), items |-> <<>>, leaves |-> <<>>]

\* The child cubes in which a part of the item is looked for: until there are
\* two.
Looked(cubes, id) ==
    {n \in 1 .. 8 : Cardinality({m \in 1 .. n - 1 : IsItemInBoundsPartial(cubes[m], id)}) < 2}

\* Does an item that is in the leaf make it an intermediate node?  At least
\* two of the child cubes hold a part of it, and the leaf is not all in it.
Splits(ab, id) ==
    /\ ~IsCubeEnclosed(Boxes[id], ab)
    /\ LET cubes == GetChildBounds(ab)
       IN Cardinality({n \in 1 .. 8 : IsItemInBoundsPartial(cubes[n], id)}) >= 2

RECURSIVE Add(_, _)

\* Mutants: the items of a leaf that is promoted go to its first child only;
\* only the item that split it goes on.
PromoteToFirst(node) ==
    LET child(n) == Leaf(GetChildBounds(node.bounds)[n])
    IN [node EXCEPT !.leaves = [n \in 1 .. 8 |->
                                  IF n = 1 THEN FoldLeft(Add, child(1), node.items)
                                  ELSE child(n)],
                    !.items = <<>>]

PromoteWithLast(node) ==
    [node EXCEPT !.leaves = [n \in 1 .. 8 |->
                               Add(Leaf(GetChildBounds(node.bounds)[n]),
                                   node.items[Len(node.items)])],
                 !.items = <<>>]

\* promote, of a leaf: all its items are added to the eight child nodes.
Promote(node) ==
    LET cubes == GetChildBounds(node.bounds)
    IN [node EXCEPT !.leaves = [n \in 1 .. 8 |-> FoldLeft(Add, Leaf(cubes[n]), node.items)],
                    !.items = <<>>]

Add(node, id) ==
    LET with == [node EXCEPT !.items = Append(@, id)]
        cubes == GetChildBounds(node.bounds)
    IN IF node = Hung \/ Hangs(node.bounds, id) THEN Hung
       ELSE IF ~IsItemInBoundsPartial(node.bounds, id) THEN node
       ELSE IF ~IsLeaf(node)
       THEN [node EXCEPT !.leaves = [n \in 1 .. 8 |-> Add(@[n], id)]]
       ELSE IF Loops[id].endless /\ (\E n \in Looked(cubes, id) : Hangs(cubes[n], id)) THEN Hung
       ELSE IF Splits(node.bounds, id) THEN Promote(with)
       ELSE with

RECURSIVE LeavesOf(_)
LeavesOf(node) ==
    IF IsLeaf(node) THEN {node} ELSE UNION {LeavesOf(node.leaves[n]) : n \in 1 .. 8}

\* Reset also forgets the bounds.
Reset == Leaf(Cube([i \in Axes |-> 0], [i \in Axes |-> 0]))

\* Mutant: the items of the leaf are not looked at again.
LeafResultsAll(node, pt, maxResults) ==
    SubSeq(node.items, 1, IF Len(node.items) < maxResults THEN Len(node.items) ELSE maxResults)

\* Query in a leaf that contains the point.
LeafResults(node, pt, maxResults) ==
    LET hits == SelectSeq(node.items, LAMBDA id : IsPointInBounds(pt, Boxes[id]))
    IN SubSeq(hits, 1, IF Len(hits) < maxResults THEN Len(hits) ELSE maxResults)

\* Query: the results of the first leaf that has any.
RECURSIVE Query(_, _, _)
Query(node, pt, maxResults) ==
    IF IsLeaf(node)
    THEN IF IsPointInBounds(pt, node.bounds) THEN LeafResults(node, pt, maxResults) ELSE <<>>
    ELSE LET results == [n \in 1 .. 8 |-> Query(node.leaves[n], pt, maxResults)]
             found == {n \in 1 .. 8 : results[n] # <<>>}
         IN IF found = {} THEN <<>>
            ELSE results[CHOOSE n \in found : \A m \in found : n <= m]

-----------------------------------------------------------------------------
\* A program that adds items in any order, and may reset the tree.

VARIABLES tree, added       \* the root node, the items added since

vars == <<tree, added>>

Init == (\E root \in Roots : tree = Leaf(root)) /\ added = {}

AddItem ==
    /\ tree # Hung
    /\ Cardinality(added) < MaxItems
    /\ \E id \in DOMAIN Boxes \ added :
         LET with == Add(tree, id)
         IN /\ tree' = IF Hung \in LeavesOf(with) THEN Hung ELSE with
            /\ added' = added \cup {id}

ResetTree == tree # Hung /\ tree' = Reset /\ added' = {}

Next == AddItem \/ ResetTree

Spec == Init /\ [][Next]_vars

-----------------------------------------------------------------------------
\* What must hold.

Whole(ab) == \A i \in Axes : ab.min[i] = Trunc(ab.min[i]) /\ ab.max[i] = Trunc(ab.max[i])

HasWholeCornerIn(area, ab) == Whole(ab) /\ HasCornerIn(area, ab)

\* However often cubes were split after it was added, every leaf that contains
\* a point the loops of isItemInBoundsPartial come to lists the item, and so
\* does a leaf that contains a corner of it when its corners are whole numbers
\* (its loops come to the corners then); a leaf lists an item once, and none
\* that is not in it.
LeavesHoldTheirItems ==
    tree # Hung => \A leaf \in LeavesOf(tree) :
        /\ \A id \in added :
             HasPointIn(leaf.bounds, id) \/ HasWholeCornerIn(leaf.bounds, Boxes[id])
                => Contains(leaf.items, id)
        /\ \A i \in DOMAIN leaf.items :
             /\ leaf.items[i] \in added
             /\ IsItemInBoundsPartial(leaf.bounds, leaf.items[i])
             /\ \A j \in 1 .. i - 1 : leaf.items[i] # leaf.items[j]

\* The node with its items as a set.
RECURSIVE Shape(_)
Shape(node) == [bounds |-> node.bounds, items |-> ToSet(node.items),
                leaves |-> [n \in DOMAIN node.leaves |-> Shape(node.leaves[n])]]

\* The tree depends on which items were added, not on their order.
OrderDoesNotMatter ==
    LET empty == [tree EXCEPT !.items = <<>>, !.leaves = <<>>]
    IN tree # Hung => Shape(tree) = Shape(FoldLeft(Add, empty, SetToSeq(added)))

\* A query returns different items that contain the point, no more than asked
\* for, and the first of what a larger query returns; at a corner, in some
\* leaf, of an item whose corners are whole numbers it finds an item.
QueryIsSound ==
    tree # Hung => \A pt \in Points, most \in 0 .. 2 :
        LET all == Query(tree, pt, Len(Boxes))
            some == Query(tree, pt, most)
        IN /\ \A i \in DOMAIN all : /\ all[i] \in added /\ IsPointInBounds(pt, Boxes[all[i]])
                                    /\ \A j \in 1 .. i - 1 : all[i] # all[j]
           /\ some = SubSeq(all, 1, IF Len(all) < most THEN Len(all) ELSE most)
           /\ /\ \E leaf \in LeavesOf(tree) : IsPointInBounds(pt, leaf.bounds)
              /\ \E id \in added : Whole(Boxes[id]) /\ pt \in Corners(Boxes[id])
              => all # <<>>

=============================================================================
