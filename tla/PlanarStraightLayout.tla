------------------------- MODULE PlanarStraightLayout -------------------------
(***************************************************************************)
(* PlanarStraightLayout::computeCoordinates and the end of doCall          *)
(* (src/lib/ogdf/src/ogdf/planarlayout/PlanarStraightLayout.cpp), with the *)
(* options the server uses: sizeOptimization and the leftmost order of     *)
(* module ShellingOrder.  One action places one set of the order.  The     *)
(* lists next and prev are the sequence contour.                           *)
(***************************************************************************)
EXTENDS ShellingOrder

VARIABLES
  k,         \* the sets placed, or still to resolve in the last phase
  contour,   \* c_1, ..., c_q
  x,         \* x-coordinate, relative to the node to the left or to upper
  y,
  upper      \* the node x is relative to, for a covered node

layoutVars == << k, contour, x, y, upper >>
vars == << orderVars, layoutVars >>

LayoutInit ==
  /\ Init
  /\ k = 0
  /\ contour = << >>
  /\ x = [v \in Nodes |-> 0]
  /\ y = [v \in Nodes |-> 0]
  /\ upper = [v \in Nodes |-> None]

(* initialize contour with base *)
PlaceBase ==
  /\ phase = "base"
  /\ x' = [v \in Nodes |-> IF v \in 2..BaseLength THEN 2 ELSE 0]
  /\ contour' = V1.nodes
  /\ k' = 1
  /\ phase' = "sets"
  /\ UNCHANGED << partition, order, crSets, outerfaceStack, y, upper >>

-----------------------------------------------------------------------------
(***************************************************************************)
(* Placing the set Vk = << z_1, ..., z_l >> on the section c of the        *)
(* contour from cl to cr.                                                  *)
(***************************************************************************)
Vk == order[k + 1]
c == Section(contour, Vk)
r == Len(c)
l == Len(Vk.nodes)

(* The relative x-coordinates added up along a path, and the distance from *)
(* cl to the i-th node of the section.                                     *)
SumUpTo(path, i) ==
  LET sum[j \in 0..Len(path)] == IF j = 0 THEN 0 ELSE sum[j - 1] + x[path[j]]
  IN sum[i]

Distance(i) == SumUpTo(Tail(c), i - 1)

yMax == Max({y[c[i]] : i \in 1..r})

(* Faults: the set need not be above the section; edges of the section may *)
(* lie in the way of the new edges; one column is enough for these; cr is  *)
(* shifted as without sizeOptimization.                                    *)
offsetSlopesOnly == IF y[c[1]] < y[c[2]] \/ y[c[r]] < y[c[r - 1]] THEN 2 ELSE 0
offsetHeightOnly == Max({0, 2 * (yMax + l) - Distance(r) - y[c[1]] - y[c[r]]})
offsetOdd ==
  Max({IF y[c[1]] < y[c[2]] \/ y[c[r]] < y[c[r - 1]] THEN 1 ELSE 0,
       2 * (yMax + l) - Distance(r) - y[c[1]] - y[c[r]]})
offsetUnoptimized == 2 * l

(* How far cr is shifted to the right: past the edges to the right of cl   *)
(* and to the left of cr, and so that the set is above the section.        *)
offset ==
  Max({IF y[c[1]] < y[c[2]] \/ y[c[r]] < y[c[r - 1]] THEN 2 ELSE 0,
       2 * (yMax + l) - Distance(r) - y[c[1]] - y[c[r]]})

x_cr == Distance(r) + offset

xz1 == (x_cr + y[c[r]] - y[c[1]]) \div 2 - l + 1
yz1 == (x_cr + y[c[r]] + y[c[1]]) \div 2 - l + 1

(* Down from cl to alpha and down from cr to beta.                         *)
alpha ==
  IF y[c[1]] <= y[c[2]] THEN 1
  ELSE Min({i \in 2..r : i = r \/ y[c[i + 1]] >= y[c[i]]})

beta ==
  IF y[c[r]] <= y[c[r - 1]] THEN r
  ELSE Max({i \in 1..(r - 1) : i = 1 \/ y[c[i - 1]] >= y[c[i]]})

(* Fault: the nodes below cl hang on cr.                                   *)
UpperRight(i) == IF i >= beta \/ i <= alpha THEN c[r] ELSE Vk.nodes[1]

(* The node a covered node hangs on and its x-coordinate there.            *)
Upper(i) ==
  CASE i <= alpha             -> c[1]
    [] i > alpha /\ i >= beta -> c[r]
    [] OTHER                  -> Vk.nodes[1]

Shift(i) ==
  CASE i <= alpha -> IF i = alpha THEN offset \div 2 ELSE 0
    [] i > alpha /\ i >= beta ->
         (IF i = beta THEN offset \div 2 ELSE offset) - x_cr
    [] OTHER -> offset \div 2 - xz1

PlaceSet ==
  /\ phase = "sets"
  /\ k < Len(order)
  /\ LET inner == {c[i] : i \in 2..(r - 1)}
         z == ToSet(Vk.nodes)
     IN /\ y' = [v \in Nodes |-> IF v \in z THEN yz1 ELSE y[v]]
        /\ x' = [v \in Nodes |->
                   CASE v = Vk.nodes[1]           -> xz1
                     [] v \in z \ {Vk.nodes[1]}   -> 2
                     [] v \in inner -> Distance(At(c, v)) + Shift(At(c, v))
                     [] v = c[r]                  -> x_cr - (xz1 + 2 * (l - 1))
                     [] OTHER                     -> x[v]]
        /\ upper' = [v \in Nodes |-> IF v \in inner THEN Upper(At(c, v)) ELSE upper[v]]
  /\ contour' = PutOn(contour, Vk)
  /\ k' = k + 1
  /\ UNCHANGED orderVars

(* compute final x-coordinates for the nodes on the (final) contour *)
PlaceContour ==
  /\ phase = "sets"
  /\ k = Len(order)
  /\ x' = [v \in Nodes |->
             IF Contains(contour, v)
             THEN SumUpTo(contour, At(contour, v))
             ELSE x[v]]
  /\ k' = k - 1
  /\ phase' = "inner"
  /\ UNCHANGED << partition, order, crSets, outerfaceStack, contour, y, upper >>

(* Fault: the sets are resolved from the base up.                          *)
FromBase == Len(order) - k

FromTop == k

(* compute final x-coordinates for the inner nodes *)
PlaceInner ==
  /\ phase = "inner"
  /\ k > 0
  /\ x' = [v \in Nodes |->
             IF Contains(order[FromTop].nodes, v) /\ upper[v] # None
             THEN x[v] + x[upper[v]] ELSE x[v]]
  /\ k' = k - 1
  /\ UNCHANGED << orderVars, contour, y, upper >>

Drawn ==
  /\ phase = "inner"
  /\ k = 0
  /\ phase' = "drawn"
  /\ UNCHANGED << partition, order, crSets, outerfaceStack, layoutVars >>

Next ==
  \/ OrderNext /\ UNCHANGED layoutVars
  \/ PlaceBase
  \/ PlaceSet
  \/ PlaceContour
  \/ PlaceInner
  \/ Drawn

Spec == LayoutInit /\ [][Next]_vars

boundingBox ==
  [m_x |-> x[V1.nodes[BaseLength]], m_y |-> Max({y[v] : v \in GraphNodes})]

-----------------------------------------------------------------------------
(***************************************************************************)
(* Properties.                                                             *)
(***************************************************************************)
(* Type invariant of the layout. *)
TypeOK ==
  /\ OrderTypeOK
  /\ k \in 0..Len(order)
  /\ contour \in Seq(Nodes)
  /\ x \in [Nodes -> Int]
  /\ y \in [Nodes -> Nat]
  /\ upper \in [Nodes -> Nodes \cup {None}]

(* Before every set the contour rises to the right with edges of slope +1, *)
(* -1 or, two wide, 0.                                                     *)
ContourSlopes ==
  phase = "sets" =>
    \A i \in 2..Len(contour) :
      LET dx == x[contour[i]]
          dy == y[contour[i]] - y[contour[i - 1]]
      IN dx > 0 /\ (dy \in {dx, - dx} \/ (dy = 0 /\ dx = 2))

(* The integer divisions by two are exact and the walks down from cl and   *)
(* from cr meet at the latest in one node; otherwise a walk leaves the     *)
(* section, and the drawing the grid it was computed for.                  *)
SectionFits ==
  (phase = "sets" /\ k < Len(order)) =>
    /\ offset % 2 = 0
    /\ (x_cr + y[c[r]] - y[c[1]]) % 2 = 0
    /\ alpha <= beta

(* x[v] is added up from the top set down: the node v hangs on came later  *)
(* in the order, so that its own coordinate is final by then.              *)
UpperIsLater ==
  phase \in {"sets", "inner", "drawn"} =>
    \A v \in Nodes : upper[v] # None => rank(upper[v]) > rank(v)

(* The edges of a drawing.                                                 *)
Edges == EdgesOf(order)

(* On which side of the line from u to v node w lies.                      *)
Side(u, v, w) ==
  LET d == (x[v] - x[u]) * (y[w] - y[u]) - (y[v] - y[u]) * (x[w] - x[u])
  IN IF d > 0 THEN 1 ELSE IF d < 0 THEN -1 ELSE 0

Between(a, b, d) == (a <= d /\ d <= b) \/ (b <= d /\ d <= a)

(* "without edge crossings" (PlanarStraightLayout.h:49): no two edges      *)
(* cross, and no node lies on another or on an edge it is not an end of.   *)
NoCrossing ==
  phase = "drawn" =>
    /\ \A u, v \in GraphNodes : (x[u] = x[v] /\ y[u] = y[v]) => u = v
    /\ \A e \in Edges : \A w \in GraphNodes \ {e[1], e[2]} :
         ~ /\ Side(e[1], e[2], w) = 0
           /\ Between(x[e[1]], x[e[2]], x[w])
           /\ Between(y[e[1]], y[e[2]], y[w])
    /\ \A e, f \in Edges :
         ~ /\ Side(e[1], e[2], f[1]) * Side(e[1], e[2], f[2]) = -1
           /\ Side(f[1], f[2], e[1]) * Side(f[1], f[2], e[2]) = -1

(* "on a grid of size at most (2n-4) * (n-2)" (PlanarStraightLayout.h:48): *)
(* the bounding box has that size, and holds every node.                   *)
FitsGrid ==
  phase = "drawn" =>
    /\ boundingBox.m_x <= 2 * Found - 4
    /\ boundingBox.m_y <= Found - 2
    /\ \A v \in GraphNodes : x[v] \in 0..boundingBox.m_x /\ y[v] \in 0..boundingBox.m_y
==============================================================================
