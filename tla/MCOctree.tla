------------------------------ MODULE MCOctree ------------------------------
(* Octree with a cube around the origin or below it, and items of all sorts. *)
EXTENDS Octree

At(x, y, z) == <<x * Scale, y * Scale, z * Scale>>
Box(x1, y1, z1, x2, y2, z2) == Cube(At(x1, y1, z1), At(x2, y2, z2))
HalfBox(lo, hi) == Cube([i \in Axes |-> lo * (Scale \div 2)], [i \in Axes |-> hi * (Scale \div 2)])

\* The second has its upper borders at 0.
MCRoots == {Box(-2, -2, -2, 2, 2, 2), Box(-4, -4, -4, 0, 0, 0)}

\* across the centre; sharing borders; across two halves; all of it and more;
\* a bar right through it; two in the lower cube; three with fractions: its
\* lower border rounded to another point, into another cube, and its upper
\* border at a point the loops skip; a flat one, which is never added
MCBoxes == << Box(-1, -1, -1, 1, 1, 1), Box(0, 0, 0, 1, 1, 2), Box(-1, 0, 1, 2, 1, 2),
              Box(-3, -3, -3, 3, 3, 3), Box(-3, 0, 0, 3, 1, 1),
              Box(-1, -1, -1, 0, 0, 0), Box(-3, -3, -3, -1, -1, -1),
              HalfBox(1, 4), HalfBox(-1, 4), HalfBox(-5, -2), Box(0, 0, 0, 1, 1, 0) >>

MCPoints == {At(x, y, z) : x, y, z \in {-2, -1, 0, 1}}

=============================================================================
