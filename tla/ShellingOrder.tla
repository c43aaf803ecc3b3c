----------------------------- MODULE ShellingOrder -----------------------------
(***************************************************************************)
(* The shelling order a straight-line layout is drawn by: the partition of *)
(* the nodes that BiconnectedShellingOrder computes and its leftmost form, *)
(* ShellingOrder::initLeftmost (src/lib/ogdf/src/ogdf/planarlayout).       *)
(*                                                                         *)
(* A set of the partition is a chain of nodes put on top of the contour,   *)
(* between a left and a right node of it; everything between the two is    *)
(* covered.  BiconnectedShellingOrder peels the sets off a graph from the  *)
(* top; here the partition is told from the base up, for any graph the     *)
(* sets can make.  The contour runs from the left end of the base to its   *)
(* right end.                                                              *)
(***************************************************************************)
EXTENDS ShellingSets

CONSTANT Sizes   \* << n, b >>: graphs with n nodes, b of them on the base line

VARIABLES
  phase,             \* peel, leftmost, and the phases of the layout
  partition,         \* the sets in the order they were found
  order,             \* m_V as far as it is filled
  crSets,            \* the places in partition of the sets that wait for their
                     \* right node; a list of it has them in this order
  outerfaceStack     \* the nodes of the contour still to look at, top first

orderVars == << phase, partition, order, crSets, outerfaceStack >>

Nodes == UNION {1..size[1] : size \in Sizes}
None == 0

ShellingOrderSet == [nodes : Seq(Nodes), left : Nodes \cup {None}, right : Nodes \cup {None}]

Base(b) == [nodes |-> [i \in 1..b |-> i], left |-> None, right |-> None]

V1 == Head(partition)
BaseLength == Len(V1.nodes)

(* The nodes found so far are numbered from the base up.                   *)
Found == Last(Last(partition).nodes)
GraphNodes == 1..Found

ASSUME OrderAssumption ==
  \A size \in Sizes : size[1] \in Nat /\ size[2] \in 2..(size[1] - 1)

Init ==
  /\ phase = "peel"
  /\ \E size \in Sizes : partition = << Base(size[2]) >>
  /\ order = << >>
  /\ crSets = [v \in Nodes |-> {}]
  /\ outerfaceStack = << >>

-----------------------------------------------------------------------------
(***************************************************************************)
(* BiconnectedShellingOrder::doCall.                                       *)
(***************************************************************************)
FindSet ==
  /\ phase = "peel"
  /\ LET contour == Contour(partition) IN
     \E l, r \in DOMAIN contour, size \in Sizes : \E z \in 1..(size[1] - Found) :
       /\ l < r /\ size[2] = BaseLength
       /\ partition' = Append(partition,
                         [nodes |-> [i \in 1..z |-> Found + i],
                          left |-> contour[l], right |-> contour[r]])
  /\ UNCHANGED << phase, order, crSets, outerfaceStack >>

(* The base has a third of the nodes of the external face, rounded, and at *)
(* least two; in a biconnected graph its inner nodes are covered.          *)
BaseFits(contour) ==
  /\ BaseLength = 2 \/ BaseLength <= (33 * (Len(contour) + BaseLength - 2) + 50) \div 100
  /\ \A v \in 2..(BaseLength - 1) : ~ Contains(contour, v)

(***************************************************************************)
(* ShellingOrder::initLeftmost.                                            *)
(***************************************************************************)
Waiting(v) == {i \in DOMAIN partition : partition[i].right = v}

(* Fault: a set is put at the front of the list of its right node.         *)
PopFrontReversed(places) == Max(places)

PopFront(places) == Min(places)

InitLeftmost ==
  /\ phase = "peel"
  /\ << Found, BaseLength >> \in Sizes
  /\ BaseFits(Contour(partition))
  /\ crSets' = [v \in Nodes |-> Waiting(v)]
  /\ outerfaceStack' = Tail(V1.nodes)
  /\ order' = << V1 >>
  /\ phase' = "leftmost"
  /\ UNCHANGED partition

PopNode ==
  /\ phase = "leftmost"
  /\ outerfaceStack # << >>
  /\ crSets[Head(outerfaceStack)] = {}
  /\ outerfaceStack' = Tail(outerfaceStack)
  /\ UNCHANGED << phase, partition, order, crSets >>

(* Faults: the nodes of a set are pushed from the first to the last; only  *)
(* the first is pushed.                                                    *)
PushForward(S, stack) == Reverse(S.nodes) \o stack
PushFirst(S, stack) == << Head(S.nodes) >> \o stack

Push(S, stack) == S.nodes \o stack

TakeSet ==
  /\ phase = "leftmost"
  /\ outerfaceStack # << >>
  /\ LET cr == Head(outerfaceStack)
         i == PopFront(crSets[cr])
     IN /\ crSets[cr] # {}
        /\ order' = Append(order, partition[i])
        /\ outerfaceStack' = Push(partition[i], outerfaceStack)
        /\ crSets' = [crSets EXCEPT ![cr] = @ \ {i}]
  /\ UNCHANGED << phase, partition >>

OrderDone ==
  /\ phase = "leftmost"
  /\ outerfaceStack = << >>
  /\ phase' = "base"
  /\ UNCHANGED << partition, order, crSets, outerfaceStack >>

OrderNext == FindSet \/ InitLeftmost \/ PopNode \/ TakeSet \/ OrderDone

(* m_rank: the place of a node's set.                                      *)
rank(v) == CHOOSE i \in DOMAIN order : Contains(order[i].nodes, v)

-----------------------------------------------------------------------------
(***************************************************************************)
(* Properties.                                                             *)
(***************************************************************************)
OrderTypeOK ==
  /\ phase \in {"peel", "leftmost", "base", "sets", "inner", "drawn"}
  /\ partition \in Seq(ShellingOrderSet)
  /\ order \in Seq(ShellingOrderSet)
  /\ crSets \in [Nodes -> SUBSET DOMAIN partition]
  /\ outerfaceStack \in Seq(Nodes)

(* Nothing is lost on the way: while initLeftmost runs, the nodes on the   *)
(* stack are the end of the contour, in its order, so that the stack never *)
(* outgrows the graph's nodes (BoundedStack); every set is in the order or *)
(* waits for its right node, and a right node that is on the contour and   *)
(* not on the stack any more has nothing waiting.                          *)
StackIsContour ==
  phase = "leftmost" =>
    /\ IsSuffix(outerfaceStack, Contour(order))
    /\ \A i \in 2..Len(partition) :
         \/ Contains(order, partition[i])
         \/ i \in crSets[partition[i].right]
    /\ \A v \in ToSet(Contour(order)) :
         crSets[v] # {} => Contains(outerfaceStack, v)

(* The leftmost order is a shelling order of the same graph: each set of   *)
(* it finds its left and its right node on the contour and covers exactly  *)
(* the nodes it covered in the partition, and in the end every set of the  *)
(* partition is there once.                                                *)
SameShelling ==
  LET CoveredIn(sets, i) == Covered(Contours(sets)[i - 1], sets[i])
  IN /\ \A i \in 2..Len(order) :
          /\ OnContour(Contours(order)[i - 1], order[i])
          /\ \E j \in 2..Len(partition) :
               partition[j] = order[i] /\ CoveredIn(order, i) = CoveredIn(partition, j)
     /\ phase \in {"base", "sets", "inner", "drawn"} =>
          Len(order) = Len(partition) /\ ToSet(order) = ToSet(partition)

(* "transforms it into a leftmost order" (ShellingOrder.h:223): no set     *)
(* that comes later could have been put on the contour already with its    *)
(* right node further left.                                                *)
IsLeftmost ==
  \A i \in 2..Len(order) : \A j \in (i + 1)..Len(order) :
    LET contour == Contours(order)[i - 1]
        later == Contours(order)[j - 1]
    IN (/\ OnContour(contour, order[i])
        /\ OnContour(contour, order[j])
        /\ OnContour(later, order[j])
        /\ Covered(contour, order[j]) = Covered(later, order[j])) =>
          At(contour, order[i].right) <= At(contour, order[j].right)
==============================================================================
