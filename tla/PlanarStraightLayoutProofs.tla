----------------------- MODULE PlanarStraightLayoutProofs -----------------------
(***************************************************************************)
(* That the steps of module ShellingOrder keep its partition and its       *)
(* leftmost order what they should be, by the lemmas about contours of     *)
(* ShellingSetsProofs; then the straight-line layout made of the order,    *)
(* for any graph.                                                          *)
(***************************************************************************)
EXTENDS PlanarStraightLayout, ShellingSetsProofs

-----------------------------------------------------------------------------
(***************************************************************************)
(* The state of module ShellingOrder.                                      *)
(***************************************************************************)
IsShelling(sets) == Shelling(ShellingOrderSet, Nodes, sets)

(* The places of the sets that still wait for their right node.            *)
Rest == {i \in 2..Len(partition) : i \in crSets[partition[i].right]}

(* The nodes of the partition are numbered from the base up, without a gap. *)
PartitionOK ==
  /\ IsShelling(partition)
  /\ V1 = Base(BaseLength)
  /\ Found \in Nodes
  /\ \A i \in 1..Len(partition) : \A v \in ToSet(partition[i].nodes) : v <= Found
  /\ \A v \in 1..Found : \E i \in 1..Len(partition) : v \in ToSet(partition[i].nodes)

(* The place of the right node of S on the contour before set i of order,  *)
(* if it is there, is not before that of set i.                            *)
RightOf(i, S) ==
  LET before == Contours(order)[i - 1]
  IN S.right \in ToSet(before) => At(before, order[i].right) <= At(before, S.right)

(* The sets taken so far, and those that wait.                             *)
OrderOK ==
  /\ IsShelling(order)
  /\ order[1] = partition[1]
  /\ \A v \in Nodes : \A i \in crSets[v] : i \in 2..Len(partition) /\ partition[i].right = v
  /\ \A i \in 2..Len(order) : \E j \in 2..Len(partition) :
       /\ j \notin Rest
       /\ partition[j] = order[i]
       /\ Covered(Contours(order)[i - 1], order[i]) = Covered(Contours(partition)[j - 1], partition[j])
  /\ \A j \in 2..Len(partition) : j \notin Rest => Contains(order, partition[j])
  /\ Len(order) + Cardinality(Rest) = Len(partition)
  /\ \A i \in 2..Len(order) :
       /\ \A j \in (i + 1)..Len(order) : RightOf(i, order[j])
       /\ \A q \in Rest : RightOf(i, partition[q])

(* The stack is the end of the contour; nothing waits for what is before   *)
(* it.                                                                     *)
StackOK ==
  LET path == Contour(order)
      rest == Len(outerfaceStack)
      seen == Len(path) - rest
  IN /\ seen >= 1
     /\ \A i \in 1..rest : outerfaceStack[i] = path[seen + i]
     /\ \A i \in 1..seen : crSets[path[i]] = {}

(* The sets that wait can be put on the contour in the order of the        *)
(* partition, and cover there what they cover in the partition: R[j] is    *)
(* the contour when those up to place j are on it.                         *)
RestFits(R) ==
  /\ R[1] = Contour(order)
  /\ \A j \in 1..Len(partition) :
       /\ R[j] \in Path(Nodes)
       /\ \A i \in Rest : i > j => ToSet(R[j]) \cap ToSet(partition[i].nodes) = {}
  /\ \A j \in 2..Len(partition) :
       IF j \in Rest
       THEN /\ PutOnOK(Nodes, R[j - 1], partition[j])
            /\ R[j] = PutOn(R[j - 1], partition[j])
            /\ Covered(R[j - 1], partition[j]) = Covered(Contours(partition)[j - 1], partition[j])
       ELSE R[j] = R[j - 1]

OrderInv ==
  /\ OrderTypeOK
  /\ PartitionOK
  /\ phase = "peel" => order = << >>
  /\ phase # "peel" => OrderOK
  /\ phase = "leftmost" => StackOK /\ \E R : RestFits(R)
  /\ phase \notin {"peel", "leftmost"} => Rest = {}

-----------------------------------------------------------------------------
(***************************************************************************)
(* Facts about the state.                                                  *)
(***************************************************************************)
LEMMA PartitionSets ==
  ASSUME PartitionOK
  PROVE  /\ partition \in Seq(ShellingOrderSet)
         /\ Len(partition) \in Nat /\ Len(partition) >= 1
         /\ DOMAIN partition = 1..Len(partition)
         /\ \A i \in 1..Len(partition) :
              /\ partition[i] \in ShellingOrderSet
              /\ partition[i].nodes \in Path(Nodes) /\ partition[i].nodes # << >>
         /\ \A i, j \in 1..Len(partition) :
              i # j => ToSet(partition[i].nodes) \cap ToSet(partition[j].nodes) = {}
<1>1. IsShelling(partition)
  BY DEF PartitionOK
<1>2. partition \in Seq(ShellingOrderSet) /\ Len(partition) >= 1
  BY <1>1 DEF IsShelling, Shelling
<1>3. /\ Len(partition) \in Nat
      /\ DOMAIN partition = 1..Len(partition)
      /\ \A i \in 1..Len(partition) : partition[i] \in ShellingOrderSet
  BY <1>2, LenProperties, ElementOfSeq
<1> QED BY <1>1, <1>2, <1>3 DEF IsShelling, Shelling

(* The contour of a shelling order.                                        *)
LEMMA ShellingContour ==
  ASSUME NEW sets, IsShelling(sets)
  PROVE  /\ sets \in Seq(ShellingOrderSet) /\ Len(sets) \in Nat \ {0}
         /\ Contour(sets) \in Path(Nodes)
         /\ Contour(sets) \in Seq(Nodes)
         /\ Len(Contour(sets)) \in Nat /\ Len(Contour(sets)) >= 2
<1>1. sets \in Seq(ShellingOrderSet) /\ Len(sets) >= 1 /\ Len(sets) \in Nat
  BY LenProperties DEF IsShelling, Shelling
<1>2. Len(sets) \in 1..Len(sets)
  BY <1>1
<1>3. ContourOf(Nodes, sets, Len(sets))
  BY <1>2, ShellingContours DEF IsShelling
<1>4. Contour(sets) \in Path(Nodes) /\ Len(Contour(sets)) >= 2
  BY <1>3 DEF ContourOf, Contour
<1> QED BY <1>1, <1>4, PathIndices

(* The first p nodes of two contours are the same.                         *)
Agree(path, other, p) ==
  /\ p \in 1..Len(path)
  /\ \A i \in 1..p : path[i] = other[i]

(* A set that covers nothing of the first p nodes leaves them as they are. *)
LEMMA AgreeAfterPutOn ==
  ASSUME NEW V, NEW path, NEW S, PutOnOK(V, path, S), NEW a, NEW b, FitsAt(path, S, a, b),
         NEW other, NEW p \in Nat, Agree(path, other, p), p <= a
  PROVE  Agree(PutOn(path, S), other, p)
<1> DEFINE d == PutOn(path, S)
<1>1. Spliced(V, path, S, a, b, d)
  BY PutOnNodes
<1> HIDE DEF d
<1>2. a \in Nat
  BY PathIndices DEF FitsAt, PutOnOK
<1>3. \A q \in 1..a : d[q] = path[q] /\ q \in 1..Len(d)
  BY <1>1 DEF Spliced
<1>4. p \in 1..a /\ \A i \in 1..p : i \in 1..a
  BY <1>2 DEF Agree
<1> QED BY <1>3, <1>4 DEF Agree, d

(* What a set covers does not depend on what is to the right of it.        *)
LEMMA AgreeCovered ==
  ASSUME NEW V, NEW path \in Path(V), NEW other \in Path(V), NEW S, NEW a, NEW b,
         FitsAt(path, S, a, b), Agree(other, path, b)
  PROVE  FitsAt(other, S, a, b) /\ Covered(other, S) = Covered(path, S)
<1>1. /\ a \in Nat /\ b \in Nat /\ 1 <= a /\ a < b
      /\ b \in 1..Len(other) /\ b \in 1..Len(path) /\ Len(other) \in Nat /\ Len(path) \in Nat
  BY PathIndices DEF FitsAt, Agree
<1>2. a \in 1..b /\ b \in 1..b /\ a \in 1..Len(other)
  BY <1>1
<1>3. FitsAt(other, S, a, b)
  BY <1>1, <1>2 DEF FitsAt, Agree
<1>4. /\ Covered(path, S) \in Seq(V) /\ Len(Covered(path, S)) = b - a - 1
      /\ \A i \in 1..(b - a - 1) : Covered(path, S)[i] = path[a + i]
  BY CoveredIndices DEF BetweenPlaces
<1>5. /\ Covered(other, S) \in Seq(V) /\ Len(Covered(other, S)) = b - a - 1
      /\ \A i \in 1..(b - a - 1) : Covered(other, S)[i] = other[a + i]
  BY <1>3, CoveredIndices DEF BetweenPlaces
<1>6. ASSUME NEW i \in 1..(b - a - 1) PROVE path[a + i] = other[a + i]
  <2>1. a + i \in 1..b
    BY <1>1
  <2> QED BY <2>1 DEF Agree
<1>7. \A i \in 1..Len(Covered(other, S)) : Covered(other, S)[i] = Covered(path, S)[i]
  BY <1>4, <1>5, <1>6
<1> QED BY <1>3, <1>4, <1>5, <1>7, SeqEqual

-----------------------------------------------------------------------------
(***************************************************************************)
(* The set initLeftmost takes next: the first that waits for the node on   *)
(* top of the stack.                                                       *)
(***************************************************************************)
TopPlace == Len(Contour(order)) - Len(outerfaceStack) + 1
NextSet == PopFront(crSets[Head(outerfaceStack)])

TakeReady ==
  /\ OrderTypeOK /\ PartitionOK /\ OrderOK /\ StackOK
  /\ outerfaceStack # << >>
  /\ crSets[Head(outerfaceStack)] # {}

LEMMA TopOfStack ==
  ASSUME OrderTypeOK, OrderOK, StackOK, outerfaceStack # << >>
  PROVE  /\ Head(outerfaceStack) \in Nodes
         /\ TopPlace \in 2..Len(Contour(order))
         /\ Contour(order)[TopPlace] = Head(outerfaceStack)
         /\ \A i \in 1..(TopPlace - 1) : crSets[Contour(order)[i]] = {}
<1> DEFINE A == Contour(order)
           rest == Len(outerfaceStack)
<1>1. A \in Seq(Nodes) /\ Len(A) \in Nat
  BY ShellingContour DEF OrderOK
<1>2. outerfaceStack \in Seq(Nodes) /\ rest \in Nat \ {0} /\ Head(outerfaceStack) = outerfaceStack[1]
  BY EmptySeq, LenProperties DEF OrderTypeOK
<1>3. /\ Len(A) - rest >= 1
      /\ \A i \in 1..rest : outerfaceStack[i] = A[Len(A) - rest + i]
      /\ \A i \in 1..(Len(A) - rest) : crSets[A[i]] = {}
  BY DEF StackOK
<1>4. outerfaceStack[1] \in Nodes
  BY <1>2, ElementOfSeq
<1> HIDE DEF A
<1>5. outerfaceStack[1] = A[Len(A) - rest + 1]
  BY <1>2, <1>3
<1>6. /\ TopPlace = Len(A) - rest + 1 /\ TopPlace \in 2..Len(A)
      /\ 1..(TopPlace - 1) = 1..(Len(A) - rest)
  BY <1>1, <1>2, <1>3 DEF TopPlace, A
<1> QED BY <1>2, <1>3, <1>4, <1>5, <1>6 DEF A

LEMMA NextSetWaits ==
  ASSUME TakeReady
  PROVE  /\ NextSet \in crSets[Head(outerfaceStack)]
         /\ NextSet \in 2..Len(partition) /\ NextSet \in Rest
         /\ partition[NextSet].right = Head(outerfaceStack)
         /\ \A i \in crSets[Head(outerfaceStack)] : NextSet <= i
<1> DEFINE cr == Head(outerfaceStack)
<1>1. cr \in Nodes
  BY TopOfStack DEF TakeReady
<1>2. \A i \in crSets[cr] : i \in 2..Len(partition) /\ partition[i].right = cr
  BY <1>1 DEF TakeReady, OrderOK
<1>3. crSets[cr] \in SUBSET Int /\ crSets[cr] # {} /\ \A i \in crSets[cr] : 2 <= i
  BY <1>2 DEF TakeReady
<1> HIDE DEF cr
<1>4. Min(crSets[cr]) \in crSets[cr] /\ \A i \in crSets[cr] : Min(crSets[cr]) <= i
  BY <1>3, BoundedMin
<1>5. NextSet = Min(crSets[cr])
  BY DEF NextSet, PopFront, cr
<1> QED BY <1>2, <1>4, <1>5 DEF Rest, cr

(* While the sets before the next one that wait are put on the contour,    *)
(* all of them are to the right of the top node.                           *)
LEMMA WaitingRight ==
  ASSUME TakeReady, NEW R, RestFits(R),
         NEW j \in 2..(NextSet - 1), j \in Rest,
         Agree(R[j - 1], Contour(order), TopPlace),
         Head(outerfaceStack) \in ToSet(R[j])
  PROVE  /\ \E a, b \in 1..Len(R[j - 1]) : TopPlace <= a /\ FitsAt(R[j - 1], partition[j], a, b)
         /\ Agree(R[j], Contour(order), TopPlace)
<1> DEFINE cr == Head(outerfaceStack)
           A == Contour(order)
           path == R[j - 1]
           S == partition[j]
           p == TopPlace
<1>1. /\ NextSet \in 2..Len(partition) /\ \A i \in crSets[cr] : NextSet <= i
  BY NextSetWaits
<1>2. Len(partition) \in Nat
  BY PartitionSets DEF TakeReady
<1>3. j \in 2..Len(partition) /\ j - 1 \in 1..Len(partition) /\ j < NextSet
  BY <1>1, <1>2
<1>4. /\ PutOnOK(Nodes, path, S) /\ R[j] = PutOn(path, S)
  BY <1>3 DEF RestFits
<1>5. path \in Path(Nodes) /\ Len(path) \in Nat
      /\ \A i, n \in 1..Len(path) : path[i] = path[n] => i = n
  BY <1>4, PathIndices DEF PutOnOK
<1>6. PICK a, b \in 1..Len(path) : FitsAt(path, S, a, b)
  BY <1>4, <1>5, OnContourAt DEF PutOnOK
<1>7. /\ p \in 2..Len(A) /\ Len(A) \in Nat /\ A[p] = cr
      /\ \A i \in 1..(p - 1) : crSets[A[i]] = {}
  BY TopOfStack, ShellingContour DEF TakeReady, OrderOK
<1>8. p \in 1..Len(path) /\ \A i \in 1..p : path[i] = A[i]
  BY DEF Agree
<1>9. j \in crSets[S.right]
  BY DEF Rest
<1>10. a < b /\ path[b] = S.right
  BY <1>6 DEF FitsAt
<1>11. Covered(path, S) \in Seq(Nodes) /\ Len(Covered(path, S)) = b - a - 1
       /\ \A i \in 1..(b - a - 1) : Covered(path, S)[i] = path[a + i]
  <2>1. path \in Path(Nodes) /\ FitsAt(path, S, a, b)
    BY <1>5, <1>6
  <2> HIDE DEF path, S
  <2>2. BetweenPlaces(Nodes, path, a, b, Covered(path, S))
    BY <2>1, CoveredIndices
  <2> QED BY <2>2 DEF BetweenPlaces
<1>12. /\ ToSet(R[j]) = (ToSet(path) \ ToSet(Covered(path, S))) \cup ToSet(S.nodes)
       /\ ToSet(S.nodes) \cap ToSet(path) = {}
  BY <1>4, PutOnPath DEF PutOnOK
<1> HIDE DEF A, path, S, p, cr
<1>13. ~ b < p
  <2> SUFFICES ASSUME b < p PROVE FALSE
    OBVIOUS
  <2>1. b \in 1..p /\ b \in 1..(p - 1)
    BY <1>5, <1>7
  <2> QED BY <1>7, <1>8, <1>9, <1>10, <2>1
<1>14. b # p
  <2> SUFFICES ASSUME b = p PROVE FALSE
    OBVIOUS
  <2>1. S.right = cr
    BY <1>7, <1>8, <1>10
  <2> QED BY <1>1, <1>3, <1>9, <2>1
<1>15. ~ a < p
  <2> SUFFICES ASSUME a < p PROVE FALSE
    OBVIOUS
  <2>1. p - a \in 1..(b - a - 1) /\ a + (p - a) = p
    BY <1>5, <1>7, <1>13, <1>14
  <2>2. Covered(path, S)[p - a] = path[p]
    BY <1>11, <2>1
  <2>3. path[p] = cr
    BY <1>7, <1>8
  <2>4. cr \in ToSet(Covered(path, S))
    <3>1. DOMAIN Covered(path, S) = 1..(b - a - 1)
      BY <1>11, LenProperties
    <3> QED BY <2>1, <2>2, <2>3, <3>1 DEF ToSet
  <2>5. cr \in ToSet(path)
    BY <1>5, <1>8, <2>3, PathIndices
  <2>6. cr \in ToSet(R[j])
    BY DEF cr
  <2> QED BY <1>12, <2>4, <2>5, <2>6
<1>16. p <= a /\ p \in Nat
  BY <1>5, <1>7, <1>15
<1>17. Agree(path, A, p)
  BY DEF path, A, p
<1>18. Agree(R[j], A, p)
  <2>1. Agree(PutOn(path, S), A, p)
    BY <1>4, <1>6, <1>16, <1>17, AgreeAfterPutOn
  <2> QED BY <1>4, <2>1
<1> QED BY <1>6, <1>16, <1>18 DEF path, S, A, p

(* So the next set can be put on the contour before the others that wait,  *)
(* and covers the same nodes.                                              *)
LEMMA NextSetFits ==
  ASSUME TakeReady, NEW R, RestFits(R)
  PROVE  LET S == partition[NextSet] IN
         /\ \E a \in 1..TopPlace : \A j \in 1..(NextSet - 1) : FitsAt(R[j], S, a, TopPlace)
         /\ \A j \in 1..(NextSet - 1) :
              /\ PutOnOK(Nodes, R[j], S)
              /\ Covered(R[j], S) = Covered(R[NextSet - 1], S)
         /\ \A j \in 2..(NextSet - 1) : j \in Rest =>
              \E a, b \in 1..Len(R[j - 1]) : TopPlace <= a /\ FitsAt(R[j - 1], partition[j], a, b)
<1> DEFINE S == partition[NextSet]
           cr == Head(outerfaceStack)
           A == Contour(order)
           p == TopPlace
           m == NextSet
           T == {j \in Int : cr \in ToSet(R[j])}
           U == {j \in Int : Agree(R[j], A, p)}
<1>1. /\ m \in 2..Len(partition) /\ m \in Rest /\ S.right = cr
      /\ Len(partition) \in Nat
      /\ \A i \in 1..Len(partition) : partition[i].nodes \in Path(Nodes) /\ partition[i].nodes # << >>
  BY NextSetWaits, PartitionSets DEF TakeReady
<1>2. /\ p \in 2..Len(A) /\ Len(A) \in Nat /\ A \in Path(Nodes) /\ A[p] = cr /\ R[1] = A
  BY TopOfStack, ShellingContour DEF TakeReady, OrderOK, RestFits
<1>3. cr \in ToSet(A)
  BY <1>2, PathIndices
<1>4. \A j \in 1..(m - 1) : j \in 1..Len(partition) /\ R[j] \in Path(Nodes)
  BY <1>1 DEF RestFits
<1>5. PutOnOK(Nodes, R[m - 1], S)
  BY <1>1 DEF RestFits
<1>6. m - 1 \in T
  <2>1. S.right \in ToSet(R[m - 1])
    BY <1>5 DEF PutOnOK, OnContour
  <2> QED BY <1>1, <2>1
<1>7. ASSUME NEW j \in 2..(m - 1), j \in T PROVE j - 1 \in T
  <2>1. j \in 2..Len(partition) /\ cr \in ToSet(R[j])
    BY <1>1, <1>7
  <2>2. CASE j \notin Rest
    BY <2>1, <2>2 DEF RestFits
  <2>3. CASE j \in Rest
    <3>1. PutOnOK(Nodes, R[j - 1], partition[j]) /\ R[j] = PutOn(R[j - 1], partition[j])
      BY <2>1, <2>3 DEF RestFits
    <3>2. ToSet(R[j]) \subseteq ToSet(R[j - 1]) \cup ToSet(partition[j].nodes)
      BY <3>1, PutOnPath
    <3>3. ToSet(R[1]) \cap ToSet(partition[j].nodes) = {}
      <4>1. 1 \in 1..Len(partition) /\ j > 1
        BY <1>1, <2>1
      <4> QED BY <2>3, <4>1 DEF RestFits
    <3>4. cr \notin ToSet(partition[j].nodes)
      BY <1>2, <1>3, <3>3
    <3> QED BY <2>1, <3>2, <3>4
  <2> QED BY <2>2, <2>3
<1>8. \A j \in 1..(m - 1) : cr \in ToSet(R[j])
  <2>1. m - 1 \in Int /\ 1 \in Int /\ 1 + 1 = 2
    BY <1>1
  <2>2. \A j \in 1..(m - 1) : j \in T
    <3> HIDE DEF T, m
    <3> QED BY <1>6, <1>7, <2>1, Downwards
  <2> QED BY <2>2
<1>9. 1 \in U
  BY <1>2 DEF Agree
<1>10. ASSUME NEW j \in 1..((m - 1) - 1), j \in U PROVE j + 1 \in U
  <2>1. j + 1 \in 2..(m - 1) /\ j + 1 \in 1..(m - 1) /\ (j + 1) - 1 = j /\ j + 1 \in 2..Len(partition)
    BY <1>1
  <2>2. Agree(R[j], A, p)
    BY <1>10
  <2>3. CASE j + 1 \notin Rest
    BY <2>1, <2>2, <2>3 DEF RestFits
  <2>4. CASE j + 1 \in Rest
    BY <1>8, <2>1, <2>2, <2>4, WaitingRight
  <2> QED BY <2>3, <2>4
<1>11. \A j \in 1..(m - 1) : Agree(R[j], A, p)
  <2>1. m - 1 \in Int /\ 1 \in Int
    BY <1>1
  <2>2. \A j \in 1..(m - 1) : j \in U
    <3> HIDE DEF U, m
    <3> QED BY <1>9, <1>10, <2>1, Upwards
  <2> QED BY <2>2
<1>12. m - 1 \in 1..(m - 1)
  BY <1>1
<1>13. \E a \in 1..p : FitsAt(R[m - 1], S, a, p)
  <2>1. PICK a, b \in 1..Len(R[m - 1]) : FitsAt(R[m - 1], S, a, b)
    BY <1>5, OnContourAt DEF PutOnOK
  <2>2. p \in 1..Len(R[m - 1]) /\ R[m - 1][p] = cr
    BY <1>2, <1>11, <1>12 DEF Agree
  <2>3. R[m - 1][b] = cr /\ a < b
    BY <1>1, <2>1 DEF FitsAt
  <2>4. b = p
    BY <1>4, <1>12, <2>1, <2>2, <2>3, PathIndices
  <2>5. a \in 1..p
    BY <1>4, <1>12, <2>1, <2>3, <2>4, PathIndices
  <2> QED BY <2>1, <2>4, <2>5
<1>14. PICK a \in 1..p : FitsAt(R[m - 1], S, a, p)
  BY <1>13
<1>15. ASSUME NEW j \in 1..(m - 1)
       PROVE  FitsAt(R[j], S, a, p) /\ Covered(R[j], S) = Covered(R[m - 1], S)
  <2>1. Agree(R[j], A, p) /\ Agree(R[m - 1], A, p)
    BY <1>11, <1>12
  <2>2. Agree(R[j], R[m - 1], p)
    BY <2>1 DEF Agree
  <2>3. R[j] \in Path(Nodes) /\ R[m - 1] \in Path(Nodes)
    BY <1>4, <1>12
  <2> HIDE DEF S, p, m
  <2> QED BY <1>14, <2>2, <2>3, AgreeCovered
<1>16. ASSUME NEW j \in 1..(m - 1) PROVE PutOnOK(Nodes, R[j], S)
  <2>1. R[j] \in Path(Nodes) /\ j \in 1..Len(partition) /\ m > j
    BY <1>1, <1>4
  <2>2. ToSet(R[j]) \cap ToSet(S.nodes) = {}
    BY <1>1, <2>1 DEF RestFits
  <2>3. OnContour(R[j], S)
    BY <1>15, <2>1, OnContourAt
  <2>4. S.nodes \in Path(Nodes) /\ S.nodes # << >>
    BY <1>1
  <2> QED BY <2>1, <2>2, <2>3, <2>4 DEF PutOnOK
<1>17. ASSUME NEW j \in 2..(m - 1), j \in Rest
       PROVE  \E i, b \in 1..Len(R[j - 1]) : p <= i /\ FitsAt(R[j - 1], partition[j], i, b)
  <2>1. j - 1 \in 1..(m - 1) /\ j \in 1..(m - 1)
    BY <1>1
  <2>2. Agree(R[j - 1], A, p) /\ cr \in ToSet(R[j])
    BY <1>8, <1>11, <2>1
  <2> QED BY <1>17, <2>2, WaitingRight
<1> QED BY <1>14, <1>15, <1>16, <1>17

-----------------------------------------------------------------------------
(***************************************************************************)
(* TakeSet.                                                                *)
(***************************************************************************)
(* The left and the right node of a set are nodes, and the right one is    *)
(* not the left end of the base.                                           *)
LEMMA EndsAreNodes ==
  ASSUME PartitionOK, NEW i \in 2..Len(partition)
  PROVE  /\ partition[i].left \in Nodes /\ partition[i].right \in Nodes
         /\ partition[i].right # partition[1].nodes[1]
<1> DEFINE path == Contours(partition)[i - 1]
<1>1. Len(partition) \in Nat
  BY PartitionSets
<1>2. i - 1 \in 1..Len(partition)
  BY <1>1
<1>3. PutOnOK(Nodes, path, partition[i]) /\ ContourOf(Nodes, partition, i - 1)
  BY <1>2, ShellingContours DEF PartitionOK, IsShelling
<1>4. path \in Path(Nodes) /\ path[1] = partition[1].nodes[1]
  BY <1>3 DEF ContourOf
<1> HIDE DEF path
<1>5. PICK a, b \in 1..Len(path) : FitsAt(path, partition[i], a, b)
  BY <1>3, <1>4, OnContourAt DEF PutOnOK
<1>6. a < b /\ path[a] = partition[i].left /\ path[b] = partition[i].right
  BY <1>5 DEF FitsAt
<1>7. /\ Len(path) \in Nat
      /\ \A m \in 1..Len(path) : path[m] \in Nodes
      /\ \A m, n \in 1..Len(path) : path[m] = path[n] => m = n
  BY <1>4, PathIndices
<1>8. b # 1 /\ 1 \in 1..Len(path)
  BY <1>6, <1>7
<1>9. path[b] # path[1]
  BY <1>7, <1>8
<1> QED BY <1>4, <1>6, <1>7, <1>9

LEMMA RestFinite ==
  ASSUME PartitionOK
  PROVE  IsFiniteSet(Rest) /\ Cardinality(Rest) \in Nat
<1>1. Len(partition) \in Nat
  BY PartitionSets
<1>2. IsFiniteSet(2..Len(partition))
  BY <1>1, FS_Interval
<1>3. Rest \subseteq 2..Len(partition)
  BY DEF Rest
<1> QED BY <1>2, <1>3, FS_Subset, FS_CardinalityType

LEMMA TakeEffect ==
  ASSUME TakeReady, TakeSet, NEW R, RestFits(R)
  PROVE  /\ order' = Append(order, partition[NextSet]) /\ partition' = partition
         /\ outerfaceStack' = partition[NextSet].nodes \o outerfaceStack
         /\ \A v \in Nodes :
              crSets'[v] = IF v = Head(outerfaceStack) THEN crSets[v] \ {NextSet} ELSE crSets[v]
         /\ Rest' = Rest \ {NextSet}
         /\ IsShelling(order')
         /\ Contour(order') = PutOn(Contour(order), partition[NextSet])
         /\ Len(order') = Len(order) + 1
         /\ \A i \in 1..Len(order) :
              order'[i] = order[i] /\ Contours(order')[i] = Contours(order)[i]
         /\ order'[Len(order) + 1] = partition[NextSet]
<1> DEFINE m == NextSet
           S == partition[m]
           cr == Head(outerfaceStack)
<1>1. /\ order' = Append(order, S) /\ partition' = partition
      /\ outerfaceStack' = S.nodes \o outerfaceStack
      /\ crSets' = [crSets EXCEPT ![cr] = @ \ {m}]
  BY DEF TakeSet, Push, NextSet
<1>2. /\ m \in crSets[cr] /\ m \in 2..Len(partition) /\ m \in Rest /\ S.right = cr
  BY NextSetWaits
<1>3. crSets \in [Nodes -> SUBSET DOMAIN partition]
  BY DEF TakeReady, OrderTypeOK
<1>4. \A v \in Nodes : crSets'[v] = IF v = cr THEN crSets[v] \ {m} ELSE crSets[v]
  BY <1>1, <1>3
<1>5. Rest' = Rest \ {m}
  <2>1. Rest' = {i \in 2..Len(partition) : i \in crSets'[partition[i].right]}
    BY <1>1 DEF Rest
  <2>2. \A i \in 2..Len(partition) : partition[i].right \in Nodes
    BY EndsAreNodes DEF TakeReady
  <2>3. ASSUME NEW i \in 2..Len(partition)
        PROVE  i \in crSets'[partition[i].right] <=> (i \in crSets[partition[i].right] /\ i # m)
    BY <1>2, <1>4, <2>2
  <2> QED BY <2>1, <2>3 DEF Rest
<1>6. /\ partition[m] \in ShellingOrderSet
      /\ S.nodes \in Path(Nodes) /\ S.nodes # << >>
  BY <1>2, PartitionSets DEF TakeReady
<1>7. IsShelling(order)
  BY DEF TakeReady, OrderOK
<1>8. order \in Seq(ShellingOrderSet) /\ Len(order) \in Nat \ {0}
  BY <1>7, ShellingContour
<1>9. ASSUME NEW i \in 1..Len(order) PROVE ToSet(order[i].nodes) \cap ToSet(S.nodes) = {}
  <2>1. CASE i = 1
    <3>1. order[1] = partition[1] /\ 1 \in 1..Len(partition) /\ m # 1 /\ m \in 1..Len(partition)
      BY <1>2, PartitionSets DEF TakeReady, OrderOK
    <3> QED BY <2>1, <3>1, PartitionSets DEF TakeReady
  <2>2. CASE i # 1
    <3>1. i \in 2..Len(order)
      BY <1>8, <2>2
    <3>2. PICK j \in 2..Len(partition) : j \notin Rest /\ partition[j] = order[i]
      BY <3>1 DEF TakeReady, OrderOK
    <3>3. j # m /\ j \in 1..Len(partition) /\ m \in 1..Len(partition)
      BY <1>2, <3>2
    <3> QED BY <3>2, <3>3, PartitionSets DEF TakeReady
  <2> QED BY <2>1, <2>2
<1>10. OnContour(Contour(order), S)
  <2>1. 1 \in 1..(m - 1)
    BY <1>2
  <2>2. PutOnOK(Nodes, R[1], S)
    BY <2>1, NextSetFits
  <2> QED BY <2>2 DEF PutOnOK, RestFits
<1>11. IsShelling(order')
  BY <1>1, <1>6, <1>7, <1>9, <1>10, AppendShelling DEF IsShelling
<1>12. /\ Len(order') = Len(order) + 1
       /\ \A i \in 1..Len(order) : order'[i] = order[i]
       /\ order'[Len(order) + 1] = S
  BY <1>1, <1>6, <1>8, AppendProperties
<1>13. /\ \A i \in 1..Len(order) : Contours(order')[i] = Contours(order)[i]
       /\ Contours(order')[Len(order) + 1] = PutOn(Contour(order), S)
  BY <1>1, <1>6, <1>8, AppendContours
<1>14. Contour(order') = PutOn(Contour(order), S)
  BY <1>12, <1>13 DEF Contour
<1> QED BY <1>1, <1>4, <1>5, <1>11, <1>12, <1>13, <1>14

LEMMA TakeKeepsRest ==
  ASSUME TakeReady, TakeSet, NEW R, RestFits(R)
  PROVE  \E Q : RestFits(Q)'
<1> DEFINE m == NextSet
           S == partition[m]
           p == TopPlace
<1>1. /\ partition' = partition /\ Rest' = Rest \ {m}
      /\ Contour(order') = PutOn(Contour(order), S)
  BY TakeEffect
<1>2. m \in 2..Len(partition) /\ m \in Rest
  BY NextSetWaits
<1>3. /\ Len(partition) \in Nat
      /\ \A i, j \in 1..Len(partition) :
           i # j => ToSet(partition[i].nodes) \cap ToSet(partition[j].nodes) = {}
  BY PartitionSets DEF TakeReady
<1>4. PICK a \in 1..p : \A j \in 1..(m - 1) : FitsAt(R[j], S, a, p)
  BY NextSetFits
<1>5. \A j \in 1..(m - 1) : PutOnOK(Nodes, R[j], S)
  BY NextSetFits
<1>6. PICK Q : Q = [j \in 1..Len(partition) |-> IF j < m THEN PutOn(R[j], S) ELSE R[j]]
  OBVIOUS
<1>7. /\ \A j \in 1..(m - 1) : Q[j] = PutOn(R[j], S)
      /\ \A j \in m..Len(partition) : Q[j] = R[j]
  BY <1>2, <1>3, <1>6
<1>8. \A j \in 1..Len(partition) : j \in 1..(m - 1) \/ j \in m..Len(partition)
  BY <1>2, <1>3
<1>9. Q[1] = Contour(order')
  <2>1. 1 \in 1..(m - 1)
    BY <1>2
  <2> QED BY <1>1, <1>7, <2>1 DEF RestFits
<1>10. ASSUME NEW j \in 1..Len(partition)
       PROVE  /\ Q[j] \in Path(Nodes)
              /\ \A i \in Rest \ {m} : i > j => ToSet(Q[j]) \cap ToSet(partition[i].nodes) = {}
  <2>1. CASE j \in m..Len(partition)
    BY <1>7, <2>1 DEF RestFits
  <2>2. CASE j \in 1..(m - 1)
    <3>1. Q[j] \in Path(Nodes) /\ ToSet(Q[j]) \subseteq ToSet(R[j]) \cup ToSet(S.nodes)
      BY <1>5, <1>7, <2>2, PutOnPath
    <3>2. ASSUME NEW i \in Rest \ {m}, i > j
          PROVE  ToSet(Q[j]) \cap ToSet(partition[i].nodes) = {}
      <4>1. i \in 1..Len(partition) /\ m \in 1..Len(partition)
        BY <1>2 DEF Rest
      <4>2. ToSet(R[j]) \cap ToSet(partition[i].nodes) = {}
        BY <3>2 DEF RestFits
      <4>3. ToSet(S.nodes) \cap ToSet(partition[i].nodes) = {}
        BY <1>3, <4>1
      <4> QED BY <3>1, <4>2, <4>3
    <3> QED BY <3>1, <3>2
  <2> QED BY <1>8, <2>1, <2>2
<1>11. ASSUME NEW j \in 2..Len(partition)
       PROVE  IF j \in Rest \ {m}
              THEN /\ PutOnOK(Nodes, Q[j - 1], partition[j])
                   /\ Q[j] = PutOn(Q[j - 1], partition[j])
                   /\ Covered(Q[j - 1], partition[j]) = Covered(Contours(partition)[j - 1], partition[j])
              ELSE Q[j] = Q[j - 1]
  <2>1. IF j \in Rest
        THEN /\ PutOnOK(Nodes, R[j - 1], partition[j])
             /\ R[j] = PutOn(R[j - 1], partition[j])
             /\ Covered(R[j - 1], partition[j]) = Covered(Contours(partition)[j - 1], partition[j])
        ELSE R[j] = R[j - 1]
    BY DEF RestFits
  <2>2. CASE j < m
    <3>1. j \in 1..(m - 1) /\ j - 1 \in 1..(m - 1) /\ j \in 2..(m - 1) /\ j # m
      BY <1>2, <2>2
    <3>2. Q[j] = PutOn(R[j], S) /\ Q[j - 1] = PutOn(R[j - 1], S)
      BY <1>7, <3>1
    <3>3. CASE j \notin Rest
      BY <2>1, <3>2, <3>3
    <3>4. CASE j \in Rest
      <4>1. PICK i, b \in 1..Len(R[j - 1]) : p <= i /\ FitsAt(R[j - 1], partition[j], i, b)
        BY <3>1, <3>4, NextSetFits
      <4>2. /\ FitsAt(R[j - 1], S, a, p) /\ PutOnOK(Nodes, R[j - 1], S)
            /\ FitsAt(R[j - 1], partition[j], i, b)
        BY <1>4, <1>5, <3>1, <4>1
      <4>3. ToSet(S.nodes) \cap ToSet(partition[j].nodes) = {}
        <5>1. j \in 1..Len(partition) /\ m \in 1..Len(partition)
          BY <1>2
        <5> QED BY <1>3, <3>1, <5>1
      <4>4. PutOnOK(Nodes, R[j - 1], partition[j]) /\ p <= i
        BY <2>1, <3>4, <4>1
      <4>5. /\ PutOnOK(Nodes, PutOn(R[j - 1], S), partition[j])
            /\ Covered(PutOn(R[j - 1], S), partition[j]) = Covered(R[j - 1], partition[j])
            /\ PutOn(PutOn(R[j - 1], S), partition[j]) = PutOn(PutOn(R[j - 1], partition[j]), S)
        <5> DEFINE path == R[j - 1]
                   T == partition[j]
        <5>1. /\ PutOnOK(Nodes, path, S) /\ PutOnOK(Nodes, path, T)
              /\ ToSet(S.nodes) \cap ToSet(T.nodes) = {}
              /\ FitsAt(path, S, a, p) /\ FitsAt(path, T, i, b) /\ p <= i
          BY <4>2, <4>3, <4>4
        <5> HIDE DEF S, p, T, path
        <5>2. /\ PutOnOK(Nodes, PutOn(path, S), T)
              /\ Covered(PutOn(path, S), T) = Covered(path, T)
              /\ PutOn(PutOn(path, S), T) = PutOn(PutOn(path, T), S)
          BY <5>1, PutOnCommutes
        <5> QED BY <5>2 DEF T, path
      <4> QED BY <2>1, <3>1, <3>2, <3>4, <4>5
    <3> QED BY <3>3, <3>4
  <2>3. CASE j = m
    <3>1. Q[m] = R[m] /\ Q[m - 1] = PutOn(R[m - 1], S)
      <4>1. m \in m..Len(partition) /\ m - 1 \in 1..(m - 1)
        BY <1>2
      <4> QED BY <1>7, <4>1
    <3> QED BY <1>2, <2>1, <2>3, <3>1
  <2>4. CASE j > m
    <3>1. j \in m..Len(partition) /\ j - 1 \in m..Len(partition) /\ j # m
      BY <1>2, <2>4
    <3>2. Q[j] = R[j] /\ Q[j - 1] = R[j - 1]
      BY <1>7, <3>1
    <3> QED BY <2>1, <3>1, <3>2
  <2> QED BY <1>2, <2>2, <2>3, <2>4
<1>12. RestFits(Q)'
  BY <1>1, <1>9, <1>10, <1>11 DEF RestFits
<1> QED BY <1>12

LEMMA TakeKeepsStack ==
  ASSUME TakeReady, TakeSet, NEW R, RestFits(R)
  PROVE  StackOK'
<1> DEFINE m == NextSet
           S == partition[m]
           cr == Head(outerfaceStack)
           A == Contour(order)
           p == TopPlace
           n == Len(S.nodes)
           stack == outerfaceStack
           d == PutOn(A, S)
<1>1. /\ Contour(order') = d /\ stack' = S.nodes \o stack
      /\ \A v \in Nodes : crSets'[v] = IF v = cr THEN crSets[v] \ {m} ELSE crSets[v]
  BY TakeEffect
<1>2. /\ p \in 2..Len(A) /\ p = Len(A) - Len(stack) + 1
      /\ \A i \in 1..(p - 1) : crSets[A[i]] = {}
  BY TopOfStack DEF TopPlace, TakeReady
<1>3. A \in Path(Nodes) /\ Len(A) \in Nat /\ \A i \in 1..Len(A) : A[i] \in Nodes
  BY ShellingContour, PathIndices DEF TakeReady, OrderOK
<1>4. /\ m \in 2..Len(partition) /\ S.nodes \in Seq(Nodes)
  BY NextSetWaits, PartitionSets, PathIndices DEF TakeReady
<1>5. stack \in Seq(Nodes) /\ Len(stack) \in Nat
  BY LenProperties DEF TakeReady, OrderTypeOK
<1>6. PICK a \in 1..p : FitsAt(A, S, a, p)
  <2>1. 1 \in 1..(m - 1) /\ R[1] = A
    BY <1>4 DEF RestFits
  <2> QED BY <2>1, NextSetFits
<1>7. a < p /\ a \in 1..Len(A)
  BY <1>6 DEF FitsAt
<1>8. Placed(Nodes, A, S, a, p, d, n)
  BY <1>3, <1>4, <1>6, PutOnIndices
<1> HIDE DEF d, n
<1>9. /\ n \in Nat /\ Len(d) = a + n + (Len(A) - p + 1)
      /\ \A i \in 1..a : d[i] = A[i]
      /\ \A i \in (a + 1)..(a + n) : d[i] = S.nodes[i - a]
      /\ \A i \in (a + n + 1)..Len(d) : d[i] = A[i - a - n + p - 1]
  BY <1>8 DEF Placed
<1>10. /\ Len(stack') = n + Len(stack)
       /\ \A i \in 1..(n + Len(stack)) : stack'[i] = IF i <= n THEN S.nodes[i] ELSE stack[i - n]
  BY <1>1, <1>4, <1>5, ConcatProperties DEF n
<1> HIDE DEF A, p, S, cr, m
<1>11. /\ a \in Int /\ p \in Int /\ Len(A) \in Int /\ n \in Int /\ 0 <= n /\ 1 <= a
       /\ a < p /\ p <= Len(A) /\ Len(stack) \in Int
       /\ Len(stack) = Len(A) - p + 1
       /\ Len(d) = a + n + (Len(A) - p + 1) /\ Len(d) \in Int
       /\ Len(stack') = n + Len(stack)
       /\ Len(d) - Len(stack') = a
  BY <1>2, <1>3, <1>5, <1>7, <1>9, <1>10
<1>12. ASSUME NEW i \in 1..Len(stack') PROVE stack'[i] = d[a + i]
  <2>0. i \in 1..(n + Len(stack)) /\ i \in Int
    BY <1>11
  <2>1. CASE i <= n
    <3>1. a + i \in (a + 1)..(a + n) /\ (a + i) - a = i
      BY <1>11, <2>0, <2>1
    <3>2. d[a + i] = S.nodes[(a + i) - a]
      BY <1>9, <3>1
    <3> QED BY <1>10, <2>0, <2>1, <3>1, <3>2
  <2>2. CASE ~ i <= n
    <3>1. /\ a + i \in (a + n + 1)..Len(d) /\ i - n \in 1..Len(stack)
          /\ (a + i) - a - n + p - 1 = Len(A) - Len(stack) + (i - n)
      BY <1>11, <2>0, <2>2
    <3>2. d[a + i] = A[(a + i) - a - n + p - 1]
      BY <1>9, <3>1
    <3>3. stack[i - n] = A[Len(A) - Len(stack) + (i - n)]
      BY <3>1 DEF A, TakeReady, StackOK
    <3>4. stack'[i] = stack[i - n]
      BY <1>10, <2>0, <2>2
    <3> QED BY <3>1, <3>2, <3>3, <3>4
  <2> QED BY <2>1, <2>2
<1>13. ASSUME NEW i \in 1..a PROVE crSets'[d[i]] = {}
  <2>1. d[i] = A[i] /\ i \in 1..(p - 1) /\ i \in 1..Len(A)
    BY <1>9, <1>11
  <2>2. crSets[A[i]] = {} /\ A[i] \in Nodes
    BY <1>2, <1>3, <2>1
  <2> QED BY <1>1, <2>1, <2>2
<1>14. Contour(order)' = d
  BY <1>1
<1>15. Len(Contour(order)') - Len(stack') = a
  BY <1>11, <1>14
<1>16. /\ Len(Contour(order)') - Len(stack') >= 1
       /\ \A i \in 1..Len(stack') :
            stack'[i] = Contour(order)'[Len(Contour(order)') - Len(stack') + i]
       /\ \A i \in 1..(Len(Contour(order)') - Len(stack')) : crSets'[Contour(order)'[i]] = {}
  BY <1>11, <1>12, <1>13, <1>14, <1>15
<1> QED BY <1>16 DEF StackOK

LEMMA TakeKeepsOrder ==
  ASSUME TakeReady, TakeSet, NEW R, RestFits(R)
  PROVE  OrderOK'
<1> DEFINE m == NextSet
           S == partition[m]
           cr == Head(outerfaceStack)
           A == Contour(order)
           p == TopPlace
           K == Len(order)
<1>1. /\ partition' = partition /\ Rest' = Rest \ {m}
      /\ \A v \in Nodes : crSets'[v] = IF v = cr THEN crSets[v] \ {m} ELSE crSets[v]
      /\ IsShelling(order')
      /\ Len(order') = K + 1
      /\ \A i \in 1..K : order'[i] = order[i] /\ Contours(order')[i] = Contours(order)[i]
      /\ order'[K + 1] = S
  BY TakeEffect
<1>2. /\ m \in 2..Len(partition) /\ m \in Rest /\ S.right = cr
  BY NextSetWaits
<1>3. IsShelling(order) /\ order[1] = partition[1]
  BY DEF TakeReady, OrderOK
<1>4. order \in Seq(ShellingOrderSet) /\ K \in Nat \ {0}
  BY <1>3, ShellingContour
<1>5. Len(partition) \in Nat /\ IsFiniteSet(Rest) /\ Cardinality(Rest) \in Nat
  BY PartitionSets, RestFinite DEF TakeReady
<1>6. Contours(order')[K] = A /\ Contours(order)[K] = A /\ K \in 1..K
  BY <1>1, <1>4 DEF Contour
<1>7. \A v \in Nodes : \A i \in crSets'[v] : i \in 2..Len(partition) /\ partition[i].right = v
  BY <1>1 DEF TakeReady, OrderOK
<1>8. \A i \in 1..(K + 1) : i \in 1..K \/ i = K + 1
  BY <1>4
<1>9. ASSUME NEW i \in 2..(K + 1)
      PROVE  \E j \in 2..Len(partition) :
               /\ j \notin Rest \ {m}
               /\ partition[j] = order'[i]
               /\ Covered(Contours(order')[i - 1], order'[i])
                    = Covered(Contours(partition)[j - 1], partition[j])
  <2>1. CASE i \in 2..K
    <3>1. i \in 1..K /\ i - 1 \in 1..K
      BY <1>4, <2>1
    <3>2. PICK j \in 2..Len(partition) :
            /\ j \notin Rest
            /\ partition[j] = order[i]
            /\ Covered(Contours(order)[i - 1], order[i])
                 = Covered(Contours(partition)[j - 1], partition[j])
      BY <2>1 DEF TakeReady, OrderOK
    <3> QED BY <1>1, <3>1, <3>2
  <2>2. CASE i = K + 1
    <3>1. i - 1 = K
      BY <1>4, <2>2
    <3>2. Covered(A, S) = Covered(R[m - 1], S)
      <4>1. 1 \in 1..(m - 1) /\ R[1] = A
        BY <1>2 DEF RestFits
      <4> QED BY <4>1, NextSetFits
    <3>3. Covered(R[m - 1], S) = Covered(Contours(partition)[m - 1], S)
      BY <1>2 DEF RestFits
    <3> QED BY <1>1, <1>2, <1>6, <2>2, <3>1, <3>2, <3>3
  <2> QED BY <1>4, <2>1, <2>2
<1>10. ASSUME NEW j \in 2..Len(partition), j \notin Rest \ {m} PROVE Contains(order', partition[j])
  <2>1. CASE j = m
    <3>1. K + 1 \in 1..Len(order')
      BY <1>1, <1>4
    <3> QED BY <1>1, <2>1, <3>1 DEF Contains
  <2>2. CASE j # m
    <3>1. Contains(order, partition[j])
      BY <1>10, <2>2 DEF TakeReady, OrderOK
    <3>2. PICK i \in 1..K : order[i] = partition[j]
      BY <3>1 DEF Contains
    <3>3. i \in 1..Len(order') /\ order'[i] = partition[j]
      BY <1>1, <1>4, <3>2
    <3> QED BY <3>3 DEF Contains
  <2> QED BY <2>1, <2>2
<1>11. Len(order') + Cardinality(Rest \ {m}) = Len(partition)
  <2>1. Cardinality(Rest \ {m}) = Cardinality(Rest) - 1
    BY <1>2, <1>5, FS_RemoveElement
  <2>2. K + Cardinality(Rest) = Len(partition)
    BY DEF TakeReady, OrderOK
  <2> QED BY <1>1, <1>4, <1>5, <2>1, <2>2
<1>12. ASSUME NEW q \in Rest, partition[q].right \in ToSet(A)
       PROVE  At(A, cr) <= At(A, partition[q].right)
  <2>1. /\ p \in 2..Len(A) /\ A[p] = cr /\ Len(A) \in Nat
        /\ \A i \in 1..(p - 1) : crSets[A[i]] = {}
        /\ A \in Path(Nodes)
    BY TopOfStack, ShellingContour DEF TakeReady, OrderOK
  <2> DEFINE s == At(A, partition[q].right)
  <2> HIDE DEF A, p, cr
  <2>2. s \in 1..Len(A) /\ A[s] = partition[q].right
    BY <1>12, <2>1, AtOfMember
  <2>3. At(A, cr) = p
    <3>1. p \in 1..Len(A)
      BY <2>1
    <3> QED BY <2>1, <3>1, AtIndex
  <2>4. q \in crSets[A[s]]
    BY <2>2 DEF Rest
  <2> HIDE DEF s
  <2>5. ~ s < p
    BY <2>1, <2>2, <2>4, SMTT(20)
  <2> QED BY <2>1, <2>2, <2>3, <2>5 DEF s
<1>13. ASSUME NEW i \in 2..(K + 1), NEW T, T = S \/ (\E q \in Rest : T = partition[q])
              \/ \E j \in (i + 1)..K : T = order[j]
       PROVE  T.right \in ToSet(Contours(order')[i - 1]) =>
                At(Contours(order')[i - 1], order'[i].right) <= At(Contours(order')[i - 1], T.right)
  <2>1. CASE i = K + 1
    <3>1. i - 1 = K /\ ~ \E j \in (i + 1)..K : T = order[j]
      BY <1>4, <2>1
    <3>2. PICK q \in Rest : T = partition[q]
      BY <1>2, <1>13, <3>1
    <3> QED BY <1>1, <1>2, <1>6, <1>12, <2>1, <3>1, <3>2
  <2>2. CASE i \in 2..K
    <3>1. i \in 1..K /\ i - 1 \in 1..K
      BY <1>4, <2>2
    <3>2. RightOf(i, T)
      <4>1. (\E q \in Rest : T = partition[q]) \/ \E j \in (i + 1)..Len(order) : T = order[j]
        BY <1>2, <1>13
      <4> QED BY <2>2, <4>1 DEF TakeReady, OrderOK
    <3> QED BY <1>1, <3>1, <3>2 DEF RightOf
  <2> QED BY <1>4, <2>1, <2>2
<1>14. ASSUME NEW i \in 2..(K + 1)
       PROVE  /\ \A j \in (i + 1)..(K + 1) : RightOf(i, order[j])'
              /\ \A q \in Rest \ {m} : RightOf(i, partition[q])'
  <2>1. ASSUME NEW j \in (i + 1)..(K + 1) PROVE RightOf(i, order[j])'
    <3>1. order'[j] = S \/ \E t \in (i + 1)..K : order'[j] = order[t]
      <4>1. CASE j = K + 1
        BY <1>1, <4>1
      <4>2. CASE j # K + 1
        <5>1. j \in (i + 1)..K /\ j \in 1..K
          BY <1>4, <4>2
        <5> QED BY <1>1, <5>1
      <4> QED BY <4>1, <4>2
    <3> QED BY <1>13, <3>1 DEF RightOf
  <2>2. ASSUME NEW q \in Rest \ {m} PROVE RightOf(i, partition[q])'
    BY <1>1, <1>13 DEF RightOf
  <2> QED BY <2>1, <2>2
<1>15. order'[1] = partition[1]
  <2>1. 1 \in 1..K
    BY <1>4
  <2> QED BY <1>1, <1>3, <2>1
<1> QED BY <1>1, <1>7, <1>9, <1>10, <1>11, <1>14, <1>15 DEF OrderOK

-----------------------------------------------------------------------------
(***************************************************************************)
(* Init and FindSet.                                                       *)
(***************************************************************************)
LEMMA NodesOfSize ==
  /\ Nodes \subseteq Nat \ {0} /\ None \notin Nodes
  /\ \A size \in Sizes : 1..size[1] \subseteq Nodes
<1>1. \A size \in Sizes : size[1] \in Nat
  BY OrderAssumption
<1>2. Nodes \subseteq Nat \ {0}
  BY <1>1 DEF Nodes
<1> QED BY <1>2 DEF Nodes, None

(* A set of consecutive nodes.                                             *)
LEMMA ChainIsPath ==
  ASSUME NEW first \in Nat, NEW z \in Nat \ {0}, NEW S,
         S.nodes = [i \in 1..z |-> first + i], \A i \in 1..z : first + i \in Nodes
  PROVE  /\ S.nodes \in Path(Nodes) /\ S.nodes \in Seq(Nodes) /\ S.nodes # << >>
         /\ Len(S.nodes) = z /\ Last(S.nodes) = first + z
         /\ \A v \in ToSet(S.nodes) : first < v /\ v <= first + z
         /\ \A v \in (first + 1)..(first + z) : v \in ToSet(S.nodes)
<1> DEFINE chain == [i \in 1..z |-> first + i]
<1>1. chain \in [1..z -> Nodes]
  OBVIOUS
<1>2. /\ chain \in Seq(Nodes) /\ Len(chain) = z /\ DOMAIN chain = 1..z
      /\ \A i \in 1..z : chain[i] = first + i
  BY <1>1
<1>3. \A i, j \in 1..z : chain[i] = chain[j] => i = j
  OBVIOUS
<1>4. chain # << >>
  BY <1>2
<1> HIDE DEF chain
<1>5. chain \in Path(Nodes)
  BY <1>2, <1>3 DEF Path
<1>6. Last(chain) = first + z
  BY <1>2 DEF Last
<1>7. \A v \in ToSet(chain) : first < v /\ v <= first + z
  BY <1>2 DEF ToSet
<1>8. S.nodes = chain
  BY DEF chain
<1>9. ASSUME NEW v \in (first + 1)..(first + z) PROVE v \in ToSet(chain)
  <2>1. v - first \in 1..z /\ first + (v - first) = v
    OBVIOUS
  <2>2. chain[v - first] = v
    BY <1>2, <2>1
  <2> QED BY <1>2, <2>1, <2>2 DEF ToSet
<1> QED BY <1>2, <1>4, <1>5, <1>6, <1>7, <1>8, <1>9

LEMMA InitOrderInv ==
  ASSUME Init
  PROVE  OrderInv
<1>1. PICK size \in Sizes : partition = << Base(size[2]) >>
  BY DEF Init
<1> DEFINE b == size[2]
           S == Base(b)
<1>2. b \in Nat /\ b >= 2 /\ b < size[1] /\ size[1] \in Nat
  BY OrderAssumption
<1>3. /\ S.nodes = [i \in 1..b |-> 0 + i] /\ S.left = None /\ S.right = None
      /\ S = [nodes |-> S.nodes, left |-> None, right |-> None]
  BY DEF Base
<1>4. \A i \in 1..b : 0 + i \in Nodes
  BY <1>2, NodesOfSize
<1>5. /\ S.nodes \in Path(Nodes) /\ S.nodes \in Seq(Nodes) /\ S.nodes # << >>
      /\ Len(S.nodes) = b /\ Last(S.nodes) = 0 + b
      /\ \A v \in ToSet(S.nodes) : 0 < v /\ v <= 0 + b
      /\ \A v \in (0 + 1)..(0 + b) : v \in ToSet(S.nodes)
  <2>1. 0 \in Nat /\ b \in Nat \ {0}
    BY <1>2
  <2> HIDE DEF S, b
  <2> QED BY <1>3, <1>4, <2>1, ChainIsPath
<1>6. S \in ShellingOrderSet
  BY <1>3, <1>5 DEF ShellingOrderSet
<1>7. /\ partition = << S >> /\ partition[1] = S /\ Len(partition) = 1
      /\ partition \in Seq(ShellingOrderSet)
  BY <1>1, <1>6
<1> HIDE DEF S
<1>8. IsShelling(partition)
  <2>1. \A i \in 1..1 : i = 1
    OBVIOUS
  <2> QED BY <1>2, <1>5, <1>7, <2>1 DEF IsShelling, Shelling
<1>9. /\ V1 = S /\ BaseLength = b /\ Found = b
  BY <1>2, <1>5, <1>7 DEF V1, BaseLength, Found, Last
<1>10. PartitionOK
  <2>1. b \in Nodes
    BY <1>2, <1>4
  <2>2. \A i \in 1..Len(partition) : \A v \in ToSet(partition[i].nodes) : v <= b
    BY <1>2, <1>5, <1>7
  <2>3. \A v \in 1..b : \E i \in 1..Len(partition) : v \in ToSet(partition[i].nodes)
    <3>1. 1 \in 1..1 /\ (0 + 1)..(0 + b) = 1..b
      BY <1>2
    <3> QED BY <1>5, <1>7, <3>1
  <2> QED BY <1>8, <1>9, <2>1, <2>2, <2>3 DEF PartitionOK, S
<1>11. OrderTypeOK
  <2>1. /\ phase = "peel" /\ order = << >> /\ outerfaceStack = << >>
        /\ crSets = [v \in Nodes |-> {}]
    BY DEF Init
  <2>2. << >> \in Seq(ShellingOrderSet) /\ << >> \in Seq(Nodes)
    BY EmptySeq
  <2> QED BY <1>7, <2>1, <2>2 DEF OrderTypeOK
<1> QED BY <1>10, <1>11 DEF OrderInv, Init

LEMMA FindSetKeeps ==
  ASSUME OrderInv, FindSet
  PROVE  OrderInv'
<1> DEFINE path == Contour(partition)
<1>1. PICK left, right \in DOMAIN path, size \in Sizes : \E z \in 1..(size[1] - Found) :
        /\ left < right
        /\ partition' = Append(partition, [nodes |-> [i \in 1..z |-> Found + i],
                                           left |-> path[left], right |-> path[right]])
  BY DEF FindSet
<1>2. PICK z \in 1..(size[1] - Found) :
        /\ left < right
        /\ partition' = Append(partition, [nodes |-> [i \in 1..z |-> Found + i],
                                           left |-> path[left], right |-> path[right]])
  BY <1>1
<1> DEFINE S == [nodes |-> [i \in 1..z |-> Found + i],
                 left |-> path[left], right |-> path[right]]
           K == Len(partition)
<1>3. PartitionOK /\ OrderTypeOK /\ order = << >>
  BY DEF OrderInv, FindSet
<1>4. /\ IsShelling(partition) /\ V1 = Base(BaseLength) /\ Found \in Nodes
      /\ \A i \in 1..K : \A v \in ToSet(partition[i].nodes) : v <= Found
      /\ \A v \in 1..Found : \E i \in 1..K : v \in ToSet(partition[i].nodes)
  BY <1>3 DEF PartitionOK
<1>5. Found \in Nat /\ size[1] \in Nat /\ z \in Nat \ {0} /\ Found + z <= size[1]
  BY <1>4, NodesOfSize, OrderAssumption
<1>6. \A i \in 1..z : Found + i \in Nodes
  BY <1>5, NodesOfSize
<1>7. /\ path \in Path(Nodes) /\ Len(path) \in Nat /\ DOMAIN path = 1..Len(path)
      /\ \A i \in 1..Len(path) : path[i] \in Nodes
  BY <1>4, ShellingContour, PathIndices
<1>8. /\ S.nodes = [i \in 1..z |-> Found + i]
      /\ S.left = path[left] /\ S.right = path[right]
      /\ S = [nodes |-> S.nodes, left |-> path[left], right |-> path[right]]
      /\ partition' = Append(partition, S)
  BY <1>2
<1> HIDE DEF S, path
<1>9. /\ S.nodes \in Path(Nodes) /\ S.nodes \in Seq(Nodes) /\ S.nodes # << >>
      /\ Len(S.nodes) = z /\ Last(S.nodes) = Found + z
      /\ \A v \in ToSet(S.nodes) : Found < v /\ v <= Found + z
      /\ \A v \in (Found + 1)..(Found + z) : v \in ToSet(S.nodes)
  BY <1>5, <1>6, <1>8, ChainIsPath
<1>10. S \in ShellingOrderSet
  BY <1>7, <1>8, <1>9 DEF ShellingOrderSet
<1>11. OnContour(path, S)
  <2>1. FitsAt(path, S, left, right)
    BY <1>2, <1>7, <1>8 DEF FitsAt
  <2> QED BY <1>7, <2>1, OnContourAt
<1>12. partition \in Seq(ShellingOrderSet) /\ K \in Nat \ {0}
  BY <1>4, ShellingContour
<1>13. ASSUME NEW i \in 1..K PROVE ToSet(partition[i].nodes) \cap ToSet(S.nodes) = {}
  <2> SUFFICES ASSUME NEW v \in ToSet(partition[i].nodes), v \in ToSet(S.nodes) PROVE FALSE
    OBVIOUS
  <2>1. v <= Found /\ Found < v
    BY <1>4, <1>9
  <2>2. partition[i].nodes \in Path(Nodes)
    BY <1>3, PartitionSets
  <2>3. v \in Nodes
    BY <2>2, PathIndices
  <2>4. v \in Nat
    BY <2>3, NodesOfSize
  <2> QED BY <1>5, <2>1, <2>4
<1>14. IsShelling(partition')
  BY <1>4, <1>8, <1>9, <1>10, <1>11, <1>13, AppendShelling DEF IsShelling, path
<1>15. /\ partition' \in Seq(ShellingOrderSet) /\ Len(partition') = K + 1
       /\ \A i \in 1..K : partition'[i] = partition[i]
       /\ partition'[K + 1] = S
  BY <1>8, <1>10, <1>12, AppendProperties
<1>16. V1' = V1 /\ BaseLength' = BaseLength /\ Found' = Found + z
  <2>1. partition # << >> /\ partition' # << >>
    BY <1>12, <1>15, EmptySeq
  <2>2. Head(partition') = partition'[1] /\ Head(partition) = partition[1]
    BY <1>12, <1>15, <2>1
  <2>3. V1' = V1
    BY <1>12, <1>15, <2>2 DEF V1
  <2>4. Last(partition') = S
    BY <1>15 DEF Last
  <2> QED BY <1>9, <2>3, <2>4 DEF BaseLength, Found
<1>17. PartitionOK'
  <2>1. Found + z \in Nodes
    BY <1>5, <1>6
  <2>2. ASSUME NEW i \in 1..(K + 1), NEW v \in ToSet(partition'[i].nodes) PROVE v <= Found + z
    <3>1. CASE i = K + 1
      BY <1>9, <1>15, <2>2, <3>1
    <3>2. CASE i \in 1..K
      <4>1. v <= Found
        BY <1>4, <1>15, <2>2, <3>2
      <4>2. partition[i].nodes \in Path(Nodes) /\ v \in ToSet(partition[i].nodes)
        BY <1>3, <1>15, <2>2, <3>2, PartitionSets
      <4>3. v \in Nodes
        BY <4>2, PathIndices
      <4> QED BY <1>5, <4>1, <4>3, NodesOfSize
    <3> QED BY <1>12, <3>1, <3>2
  <2>3. Base(BaseLength)' = Base(BaseLength)
    BY <1>16 DEF Base, None
  <2>4. ASSUME NEW v \in 1..(Found + z)
        PROVE  \E i \in 1..(K + 1) : v \in ToSet(partition'[i].nodes)
    <3>1. CASE v \in 1..Found
      <4>1. PICK i \in 1..K : v \in ToSet(partition[i].nodes)
        BY <1>4, <3>1
      <4>2. i \in 1..(K + 1) /\ partition'[i] = partition[i]
        BY <1>12, <1>15
      <4> QED BY <4>1, <4>2
    <3>2. CASE v \in (Found + 1)..(Found + z)
      <4>1. v \in ToSet(S.nodes)
        BY <1>9, <3>2
      <4>2. K + 1 \in 1..(K + 1)
        BY <1>12
      <4> QED BY <1>15, <4>1, <4>2
    <3>3. v \in 1..Found \/ v \in (Found + 1)..(Found + z)
      BY <1>5
    <3> QED BY <3>1, <3>2, <3>3
  <2> QED BY <1>4, <1>14, <1>15, <1>16, <2>1, <2>2, <2>3, <2>4 DEF PartitionOK
<1>18. OrderTypeOK'
  <2>1. DOMAIN partition = 1..K /\ DOMAIN partition' = 1..(K + 1)
    BY <1>12, <1>15, LenProperties
  <2>2. DOMAIN partition \subseteq DOMAIN partition'
    BY <1>12, <2>1
  <2>3. UNCHANGED << phase, order, crSets, outerfaceStack >>
    BY DEF FindSet
  <2> QED BY <1>3, <1>15, <2>2, <2>3 DEF OrderTypeOK
<1> QED BY <1>3, <1>17, <1>18 DEF OrderInv, FindSet

-----------------------------------------------------------------------------
(***************************************************************************)
(* InitLeftmost, PopNode and OrderDone.                                    *)
(***************************************************************************)
LEMMA InitLeftmostKeeps ==
  ASSUME OrderInv, InitLeftmost
  PROVE  OrderInv'
<1> DEFINE K == Len(partition)
<1>1. PartitionOK /\ OrderTypeOK
  BY DEF OrderInv
<1>2. /\ crSets' = [v \in Nodes |-> Waiting(v)] /\ outerfaceStack' = Tail(V1.nodes)
      /\ order' = << V1 >> /\ phase' = "leftmost" /\ partition' = partition
  BY DEF InitLeftmost
<1>3. /\ partition \in Seq(ShellingOrderSet) /\ K \in Nat /\ K >= 1
      /\ DOMAIN partition = 1..K
      /\ \A i \in 1..K : partition[i] \in ShellingOrderSet /\ partition[i].nodes \in Path(Nodes)
      /\ \A i, j \in 1..K : i # j => ToSet(partition[i].nodes) \cap ToSet(partition[j].nodes) = {}
  BY <1>1, PartitionSets
<1>4. /\ IsShelling(partition) /\ V1 = Base(BaseLength)
      /\ Len(partition[1].nodes) >= 2
  BY <1>1 DEF PartitionOK, IsShelling, Shelling
<1>5. V1 = partition[1] /\ V1 \in ShellingOrderSet /\ V1.right = None
  <2>1. partition # << >>
    BY <1>3, EmptySeq
  <2>2. V1 = partition[1]
    BY <1>3, <2>1 DEF V1
  <2>3. V1.right = None
    BY <1>4 DEF Base
  <2> QED BY <1>3, <2>2, <2>3
<1>6. \A v \in Nodes : \A i \in crSets'[v] : i \in 2..K /\ partition[i].right = v
  <2> SUFFICES ASSUME NEW v \in Nodes, NEW i \in crSets'[v] PROVE i \in 2..K /\ partition[i].right = v
    OBVIOUS
  <2>1. i \in 1..K /\ partition[i].right = v
    BY <1>2, <1>3 DEF Waiting
  <2>2. i # 1
    BY <1>5, <2>1, NodesOfSize
  <2> QED BY <2>1, <2>2
<1>7. Rest' = 2..K
  <2>1. ASSUME NEW i \in 2..K PROVE i \in crSets'[partition'[i].right]
    <3>1. partition[i].right \in Nodes /\ i \in DOMAIN partition
      BY <1>1, <1>3, EndsAreNodes
    <3> QED BY <1>2, <3>1 DEF Waiting
  <2> QED BY <1>2, <2>1 DEF Rest
<1>8. /\ order' \in Seq(ShellingOrderSet) /\ Len(order') = 1 /\ order'[1] = partition[1]
  BY <1>2, <1>5
<1>9. Contours(order')[1] = partition[1].nodes /\ Contour(order') = partition[1].nodes
  BY <1>8, ContoursStep DEF Contour
<1>10. IsShelling(order')
  <2>1. \A i \in 1..1 : i = 1
    OBVIOUS
  <2>2. partition[1].nodes \in Path(Nodes) /\ partition[1].nodes # << >>
    BY <1>1, <1>3, PartitionSets
  <2> QED BY <1>4, <1>8, <2>1, <2>2 DEF IsShelling, Shelling
<1>11. OrderOK'
  <2>1. Len(order') + Cardinality(2..K) = K
    <3>1. Cardinality(2..K) = IF 2 > K THEN 0 ELSE K - 2 + 1
      BY <1>3, FS_Interval, SMTT(20)
    <3> QED BY <1>3, <1>8, <3>1
  <2>2. 2..Len(order') = {}
    BY <1>8
  <2> QED BY <1>2, <1>6, <1>7, <1>8, <1>10, <2>1, <2>2 DEF OrderOK
<1> DEFINE base == partition[1].nodes
<1>12. /\ base \in Path(Nodes) /\ base \in Seq(Nodes) /\ Len(base) \in Nat /\ Len(base) >= 2
       /\ base # << >> /\ \A i \in 1..Len(base) : base[i] \in Nodes
  BY <1>1, <1>3, <1>4, PartitionSets, PathIndices
<1>13. /\ outerfaceStack' \in Seq(Nodes) /\ Len(outerfaceStack') = Len(base) - 1
       /\ \A i \in 1..Len(outerfaceStack') : outerfaceStack'[i] = base[i + 1]
  <2> HIDE DEF base
  <2>1. outerfaceStack' = Tail(base)
    BY <1>2, <1>5 DEF base
  <2> QED BY <1>12, <2>1, HeadTailProperties
<1>14. StackOK'
  <2> HIDE DEF base
  <2>1. Contour(order)' = base
    BY <1>9 DEF base
  <2>2. crSets'[base[1]] = {}
    <3>1. base[1] \in Nodes
      BY <1>12
    <3> SUFFICES ASSUME NEW i \in crSets'[base[1]] PROVE FALSE
      OBVIOUS
    <3>2. i \in 2..K /\ partition[i].right = base[1]
      BY <1>6, <3>1
    <3> QED BY <1>1, <3>2, EndsAreNodes DEF base
  <2>3. Len(base) - Len(outerfaceStack') = 1
    BY <1>12, <1>13
  <2>4. \A i \in 1..Len(outerfaceStack') : outerfaceStack'[i] = base[1 + i]
    BY <1>13
  <2>5. \A i \in 1..1 : crSets'[base[i]] = {}
    BY <2>2
  <2> QED BY <2>1, <2>3, <2>4, <2>5 DEF StackOK
<1>15. PICK R : R = Contours(partition)
  OBVIOUS
<1>16. RestFits(R)'
  <2>1. R[1] = Contour(order')
    BY <1>3, <1>9, <1>15, ContoursStep
  <2>2. ASSUME NEW j \in 1..K
        PROVE  /\ R[j] \in Path(Nodes)
               /\ \A i \in 2..K : i > j => ToSet(R[j]) \cap ToSet(partition[i].nodes) = {}
    <3>1. ContourOf(Nodes, partition, j)
      BY <1>4, ShellingContours DEF IsShelling
    <3>2. /\ R[j] \in Path(Nodes)
          /\ \A v \in ToSet(R[j]) : \E i \in 1..j : v \in ToSet(partition[i].nodes)
      BY <1>15, <3>1 DEF ContourOf
    <3>3. ASSUME NEW i \in 2..K, i > j, NEW v \in ToSet(R[j]), v \in ToSet(partition[i].nodes)
          PROVE  FALSE
      <4>1. PICK n \in 1..j : v \in ToSet(partition[n].nodes)
        BY <3>2
      <4>2. n \in 1..K /\ i \in 1..K /\ n # i
        BY <1>3, <3>3
      <4> QED BY <1>3, <3>3, <4>1, <4>2
    <3> QED BY <3>2, <3>3
  <2>3. ASSUME NEW j \in 2..K
        PROVE  /\ PutOnOK(Nodes, R[j - 1], partition[j])
               /\ R[j] = PutOn(R[j - 1], partition[j])
               /\ Covered(R[j - 1], partition[j]) = Covered(Contours(partition)[j - 1], partition[j])
    BY <1>4, <1>15, ShellingContours DEF IsShelling
  <2> QED BY <1>2, <1>7, <2>1, <2>2, <2>3 DEF RestFits
<1>17. OrderTypeOK'
  <2>1. crSets' \in [Nodes -> SUBSET DOMAIN partition]
    BY <1>2 DEF Waiting
  <2> QED BY <1>2, <1>3, <1>8, <1>13, <2>1 DEF OrderTypeOK
<1>18. PartitionOK'
  BY <1>1, <1>2 DEF PartitionOK, V1, BaseLength, Found
<1> QED BY <1>2, <1>11, <1>14, <1>16, <1>17, <1>18 DEF OrderInv

(* What the layout does not change.                                        *)
LEMMA OrderUnchanged ==
  ASSUME UNCHANGED << partition, order, crSets >>
  PROVE  /\ Rest' = Rest
         /\ PartitionOK => PartitionOK'
         /\ OrderOK => OrderOK'
         /\ \A R : RestFits(R) => RestFits(R)'
<1>1. Rest' = Rest
  BY DEF Rest
<1>2. PartitionOK => PartitionOK'
  BY DEF PartitionOK, V1, BaseLength, Found
<1>3. OrderOK => OrderOK'
  BY <1>1 DEF OrderOK, RightOf
<1>4. \A R : RestFits(R) => RestFits(R)'
  BY <1>1 DEF RestFits
<1> QED BY <1>1, <1>2, <1>3, <1>4

LEMMA PopNodeKeeps ==
  ASSUME OrderInv, PopNode
  PROVE  OrderInv'
<1> DEFINE stack == outerfaceStack
           A == Contour(order)
<1>1. /\ OrderTypeOK /\ PartitionOK /\ OrderOK /\ StackOK
      /\ stack # << >> /\ crSets[Head(stack)] = {}
      /\ stack' = Tail(stack) /\ UNCHANGED << phase, partition, order, crSets >>
      /\ phase = "leftmost"
  BY DEF OrderInv, PopNode
<1>2. PICK R : RestFits(R)
  BY <1>1 DEF OrderInv
<1>3. PartitionOK' /\ OrderOK' /\ RestFits(R)'
  BY <1>1, <1>2, OrderUnchanged
<1>4. /\ stack' \in Seq(Nodes) /\ Len(stack') = Len(stack) - 1
      /\ \A i \in 1..Len(stack') : stack'[i] = stack[i + 1]
      /\ Len(stack) \in Nat
  BY <1>1, HeadTailProperties, LenProperties DEF OrderTypeOK
<1>5. /\ TopPlace \in 2..Len(A) /\ A[TopPlace] = Head(stack)
      /\ \A i \in 1..(TopPlace - 1) : crSets[A[i]] = {}
      /\ TopPlace = Len(A) - Len(stack) + 1
  BY <1>1, TopOfStack DEF TopPlace
<1>6. Len(A) \in Nat
  BY <1>1, ShellingContour DEF OrderOK
<1>7. /\ Len(A) - Len(stack) >= 1
      /\ \A i \in 1..Len(stack) : stack[i] = A[Len(A) - Len(stack) + i]
  BY <1>1 DEF StackOK
<1> HIDE DEF A
<1>8. Len(A) - Len(stack') = TopPlace /\ TopPlace >= 1
  BY <1>4, <1>5, <1>6
<1>9. ASSUME NEW i \in 1..Len(stack') PROVE stack'[i] = A[TopPlace + i]
  <2>1. i + 1 \in 1..Len(stack) /\ Len(A) - Len(stack) + (i + 1) = TopPlace + i
    BY <1>4, <1>5, <1>6
  <2>2. stack[i + 1] = A[Len(A) - Len(stack) + (i + 1)]
    BY <1>7, <2>1
  <2> QED BY <1>4, <2>1, <2>2
<1>10. ASSUME NEW i \in 1..TopPlace PROVE crSets[A[i]] = {}
  <2>1. CASE i = TopPlace
    BY <1>1, <1>5, <2>1
  <2>2. CASE i # TopPlace
    <3>1. i \in 1..(TopPlace - 1)
      <4>1. TopPlace \in Int /\ i \in Int
        BY <1>5
      <4> HIDE DEF A
      <4> QED BY <2>2, <4>1
    <3> QED BY <1>5, <3>1
  <2> QED BY <2>1, <2>2
<1>11. StackOK'
  <2>1. Contour(order)' = A /\ crSets' = crSets
    BY <1>1 DEF A
  <2> QED BY <1>8, <1>9, <1>10, <2>1 DEF StackOK
<1>12. OrderTypeOK'
  BY <1>1, <1>4 DEF OrderTypeOK
<1> QED BY <1>1, <1>3, <1>11, <1>12 DEF OrderInv

LEMMA TakeSetKeeps ==
  ASSUME OrderInv, TakeSet
  PROVE  OrderInv'
<1>1. TakeReady
  BY DEF OrderInv, TakeSet, TakeReady
<1>2. PICK R : RestFits(R)
  BY DEF OrderInv, TakeSet
<1>3. StackOK' /\ OrderOK' /\ \E Q : RestFits(Q)'
  BY <1>1, <1>2, TakeKeepsStack, TakeKeepsOrder, TakeKeepsRest
<1>4. PartitionOK'
  BY DEF OrderInv, TakeSet, PartitionOK, V1, BaseLength, Found
<1>5. OrderTypeOK'
  <2>1. NextSet \in 2..Len(partition)
    BY <1>1, NextSetWaits
  <2>2. partition[NextSet] \in ShellingOrderSet /\ partition[NextSet].nodes \in Seq(Nodes)
    BY <1>1, <2>1, PartitionSets, PathIndices DEF TakeReady
  <2>3. /\ order' = Append(order, partition[NextSet])
        /\ outerfaceStack' = partition[NextSet].nodes \o outerfaceStack
    BY <1>1, <1>2, TakeEffect
  <2>4. OrderTypeOK
    BY DEF OrderInv
  <2>5. crSets' \in [Nodes -> SUBSET DOMAIN partition]
    BY <2>4 DEF TakeSet, OrderTypeOK
  <2>6. order' \in Seq(ShellingOrderSet)
    BY <2>2, <2>3, <2>4, AppendProperties DEF OrderTypeOK
  <2>7. outerfaceStack' \in Seq(Nodes)
    BY <2>2, <2>3, <2>4, ConcatProperties DEF OrderTypeOK
  <2> QED BY <2>4, <2>5, <2>6, <2>7 DEF TakeSet, OrderTypeOK
<1> QED BY <1>3, <1>4, <1>5 DEF OrderInv, TakeSet

(* When the stack is empty nothing waits: the first set that did would     *)
(* have its right node on the contour.                                     *)
LEMMA NothingWaits ==
  ASSUME PartitionOK, OrderOK, StackOK, NEW R, RestFits(R), outerfaceStack = << >>
  PROVE  Rest = {}
<1> SUFFICES ASSUME Rest # {} PROVE FALSE
  OBVIOUS
<1> DEFINE m == Min(Rest)
           A == Contour(order)
           T == {j \in Int : R[j] = A}
<1>1. Rest \in SUBSET Int /\ \A i \in Rest : 2 <= i
  BY DEF Rest
<1>2. m \in Rest /\ \A i \in Rest : m <= i
  BY <1>1, BoundedMin
<1> HIDE DEF m
<1>3. m \in 2..Len(partition) /\ Len(partition) \in Nat
  BY <1>2, PartitionSets DEF Rest
<1>4. 1 \in T
  BY DEF RestFits
<1>5. ASSUME NEW j \in 1..((m - 1) - 1), j \in T PROVE j + 1 \in T
  <2>1. j + 1 \in 2..Len(partition) /\ j + 1 < m /\ (j + 1) - 1 = j
    BY <1>3
  <2>2. j + 1 \notin Rest
    BY <1>2, <1>3, <2>1
  <2>3. R[j + 1] = R[j]
    BY <2>1, <2>2 DEF RestFits
  <2> QED BY <1>5, <2>3
<1>6. m - 1 \in 1..(m - 1) /\ m - 1 \in Int /\ 1 \in Int
  BY <1>3
<1>7. R[m - 1] = A
  <2>1. \A j \in 1..(m - 1) : j \in T
    <3> HIDE DEF T
    <3> QED BY <1>4, <1>5, <1>6, Upwards
  <2> QED BY <1>6, <2>1
<1>8. partition[m].right \in ToSet(A)
  <2>1. PutOnOK(Nodes, R[m - 1], partition[m])
    BY <1>2, <1>3 DEF RestFits
  <2> QED BY <1>7, <2>1 DEF PutOnOK, OnContour
<1>9. A \in Path(Nodes) /\ Len(A) \in Nat
  BY ShellingContour DEF OrderOK
<1>10. PICK i \in 1..Len(A) : A[i] = partition[m].right
  BY <1>8, <1>9, PathIndices
<1>11. crSets[A[i]] = {}
  <2>1. i \in 1..(Len(A) - Len(outerfaceStack))
    BY <1>9
  <2> QED BY <2>1 DEF StackOK
<1>12. m \in crSets[partition[m].right]
  BY <1>2 DEF Rest
<1> QED BY <1>10, <1>11, <1>12

LEMMA OrderDoneKeeps ==
  ASSUME OrderInv, OrderDone
  PROVE  OrderInv'
<1>1. /\ OrderTypeOK /\ PartitionOK /\ OrderOK /\ StackOK
      /\ UNCHANGED << partition, order, crSets, outerfaceStack >>
      /\ phase' = "base" /\ outerfaceStack = << >>
  BY DEF OrderInv, OrderDone
<1>2. PICK R : RestFits(R)
  BY DEF OrderInv, OrderDone
<1>3. Rest = {}
  BY <1>1, <1>2, NothingWaits
<1>4. PartitionOK' /\ OrderOK' /\ Rest' = {}
  BY <1>1, <1>3, OrderUnchanged
<1>5. OrderTypeOK'
  BY <1>1 DEF OrderTypeOK
<1> QED BY <1>1, <1>4, <1>5 DEF OrderInv

(* initLeftmost and what comes before it keep the invariant.               *)
LEMMA OrderNextKeeps ==
  ASSUME OrderInv, OrderNext
  PROVE  OrderInv'
BY InitLeftmostKeeps, FindSetKeeps, PopNodeKeeps, TakeSetKeeps, OrderDoneKeeps DEF OrderNext

LEMMA OrderStutterKeeps ==
  ASSUME OrderInv, UNCHANGED orderVars
  PROVE  OrderInv'
<1>1. UNCHANGED << phase, partition, order, crSets, outerfaceStack >>
  BY DEF orderVars
<1>2. OrderTypeOK' <=> OrderTypeOK
  BY <1>1 DEF OrderTypeOK
<1>3. StackOK' <=> StackOK
  BY <1>1 DEF StackOK
<1> QED BY <1>1, <1>2, <1>3, OrderUnchanged DEF OrderInv

(* The phases of the layout leave the order alone.                         *)
LEMMA LaterPhaseKeeps ==
  ASSUME OrderInv, phase \notin {"peel", "leftmost"},
         phase' \in {"base", "sets", "inner", "drawn"},
         UNCHANGED << partition, order, crSets, outerfaceStack >>
  PROVE  OrderInv'
<1>1. OrderTypeOK'
  BY DEF OrderInv, OrderTypeOK
<1> QED BY <1>1, OrderUnchanged DEF OrderInv

-----------------------------------------------------------------------------
(***************************************************************************)
(* What the runs check follows.                                            *)
(***************************************************************************)
(* A sequence that is the end of another is a suffix of it.                *)
LEMMA EndIsSuffix ==
  ASSUME NEW V, NEW s \in Seq(V), NEW t \in Seq(V), Len(s) <= Len(t),
         \A i \in 1..Len(s) : s[i] = t[Len(t) - Len(s) + i]
  PROVE  IsSuffix(s, t)
<1> DEFINE rs == Reverse(s)
           rt == Reverse(t)
<1>1. Len(s) \in Nat /\ Len(t) \in Nat
  BY LenProperties
<1>2. rs = [i \in 1..Len(s) |-> s[(Len(s) - i) + 1]] /\ rt = [i \in 1..Len(t) |-> t[(Len(t) - i) + 1]]
  BY DEF Reverse
<1>3. \A i \in 1..Len(s) : s[(Len(s) - i) + 1] \in V
  <2>1. \A i \in 1..Len(s) : (Len(s) - i) + 1 \in 1..Len(s)
    BY <1>1
  <2> QED BY <2>1, ElementOfSeq
<1>4. \A i \in 1..Len(t) : t[(Len(t) - i) + 1] \in V
  <2>1. \A i \in 1..Len(t) : (Len(t) - i) + 1 \in 1..Len(t)
    BY <1>1
  <2> QED BY <2>1, ElementOfSeq
<1>5. rs \in [1..Len(s) -> V] /\ rt \in [1..Len(t) -> V]
  BY <1>2, <1>3, <1>4
<1>6. /\ rs \in Seq(V) /\ Len(rs) = Len(s) /\ rt \in Seq(V) /\ Len(rt) = Len(t)
      /\ \A i \in 1..Len(s) : rs[i] = s[(Len(s) - i) + 1]
      /\ \A i \in 1..Len(t) : rt[i] = t[(Len(t) - i) + 1]
  BY <1>1, <1>2, <1>5
<1> HIDE DEF rs, rt
<1>7. ASSUME NEW i \in 1..Len(s) PROVE rs[i] = rt[i]
  <2>1. (Len(s) - i) + 1 \in 1..Len(s) /\ i \in 1..Len(t)
    BY <1>1
  <2>2. s[(Len(s) - i) + 1] = t[Len(t) - Len(s) + ((Len(s) - i) + 1)]
    BY <2>1
  <2>3. Len(t) - Len(s) + ((Len(s) - i) + 1) = (Len(t) - i) + 1
    BY <1>1
  <2> QED BY <1>6, <2>1, <2>2, <2>3
<1> DEFINE p == SubSeq(rs, 1, Len(s))
           q == SubSeq(rt, 1, Len(s))
<1>8. p \in Seq(V) /\ Len(p) = Len(s) /\ \A i \in 1..Len(s) : p[i] = rs[i]
  <2>1. \A i \in 1..Len(s) : rs[i] \in V
    BY <1>6, ElementOfSeq
  <2>2. /\ p \in Seq(V) /\ Len(p) = IF 1 <= Len(s) THEN Len(s) - 1 + 1 ELSE 0
        /\ \A i \in 1..(Len(s) - 1 + 1) : p[i] = rs[1 + i - 1]
    BY <1>1, <2>1, SubSeqProperties
  <2> HIDE DEF p
  <2>3. \A i \in 1..Len(s) : i \in 1..(Len(s) - 1 + 1) /\ 1 + i - 1 = i
    BY <1>1
  <2> QED BY <1>1, <2>2, <2>3
<1>9. q \in Seq(V) /\ Len(q) = Len(s) /\ \A i \in 1..Len(s) : q[i] = rt[i]
  <2>1. \A i \in 1..Len(s) : rt[i] \in V
    <3>1. \A i \in 1..Len(s) : i \in 1..Len(rt)
      BY <1>1, <1>6
    <3> QED BY <1>6, <3>1, ElementOfSeq
  <2>2. /\ q \in Seq(V) /\ Len(q) = IF 1 <= Len(s) THEN Len(s) - 1 + 1 ELSE 0
        /\ \A i \in 1..(Len(s) - 1 + 1) : q[i] = rt[1 + i - 1]
    BY <1>1, <2>1, SubSeqProperties
  <2> HIDE DEF q
  <2>3. \A i \in 1..Len(s) : i \in 1..(Len(s) - 1 + 1) /\ 1 + i - 1 = i
    BY <1>1
  <2> QED BY <1>1, <2>2, <2>3
<1> HIDE DEF p, q
<1>10. p = q
  <2>1. Len(p) = Len(q) /\ \A i \in 1..Len(p) : p[i] = q[i]
    BY <1>7, <1>8, <1>9
  <2> QED BY <1>8, <1>9, <2>1, SeqEqual
<1> QED BY <1>1, <1>6, <1>10 DEF IsSuffix, IsPrefix, rs, rt, p, q

(* StackIsContour: the stack is the end of the contour, and every set is   *)
(* in the order or waits.                                                  *)
LEMMA InvStackIsContour ==
  ASSUME OrderInv
  PROVE  StackIsContour
<1> SUFFICES ASSUME phase = "leftmost"
             PROVE  /\ IsSuffix(outerfaceStack, Contour(order))
                    /\ \A i \in 2..Len(partition) :
                         \/ Contains(order, partition[i])
                         \/ i \in crSets[partition[i].right]
                    /\ \A v \in ToSet(Contour(order)) :
                         crSets[v] # {} => Contains(outerfaceStack, v)
  BY DEF StackIsContour
<1> DEFINE stack == outerfaceStack
           A == Contour(order)
<1>1. OrderTypeOK /\ OrderOK /\ StackOK
  BY DEF OrderInv
<1>2. /\ A \in Path(Nodes) /\ A \in Seq(Nodes) /\ Len(A) \in Nat
      /\ stack \in Seq(Nodes) /\ Len(stack) \in Nat
  BY <1>1, ShellingContour, LenProperties DEF OrderTypeOK, OrderOK
<1>3. /\ Len(A) - Len(stack) >= 1
      /\ \A i \in 1..Len(stack) : stack[i] = A[Len(A) - Len(stack) + i]
      /\ \A i \in 1..(Len(A) - Len(stack)) : crSets[A[i]] = {}
  BY <1>1 DEF StackOK
<1>4. IsSuffix(stack, A)
  <2>1. Len(stack) <= Len(A)
    BY <1>2, <1>3
  <2> HIDE DEF A
  <2> QED BY <1>2, <1>3, <2>1, EndIsSuffix
<1>5. ASSUME NEW i \in 2..Len(partition), i \notin crSets[partition[i].right]
      PROVE  Contains(order, partition[i])
  <2>1. i \notin Rest
    BY <1>5 DEF Rest
  <2> QED BY <1>1, <2>1 DEF OrderOK
<1>6. ASSUME NEW v \in ToSet(A), crSets[v] # {} PROVE Contains(stack, v)
  <2>1. PICK i \in 1..Len(A) : A[i] = v
    BY <1>2, PathIndices
  <2> DEFINE n == i - (Len(A) - Len(stack))
  <2>2. ~ i \in 1..(Len(A) - Len(stack))
    BY <1>3, <1>6, <2>1
  <2> HIDE DEF A
  <2>3. n \in 1..Len(stack) /\ Len(A) - Len(stack) + n = i
    BY <1>2, <1>3, <2>2
  <2> HIDE DEF n
  <2>4. stack[n] = v
    BY <1>3, <2>1, <2>3
  <2> QED BY <2>3, <2>4 DEF Contains
<1> QED BY <1>4, <1>5, <1>6

(* SameShelling: the leftmost order is a shelling order of the same graph. *)
LEMMA InvSameShelling ==
  ASSUME OrderInv
  PROVE  SameShelling
<1> DEFINE CoveredIn(sets, i) == Covered(Contours(sets)[i - 1], sets[i])
<1>1. PartitionOK /\ (phase = "peel" => order = << >>) /\ (phase # "peel" => OrderOK)
  BY DEF OrderInv
<1>2. ASSUME NEW i \in 2..Len(order)
      PROVE  /\ OnContour(Contours(order)[i - 1], order[i])
             /\ \E j \in 2..Len(partition) :
                  partition[j] = order[i] /\ CoveredIn(order, i) = CoveredIn(partition, j)
  <2>1. phase # "peel"
    <3>1. order # << >>
      OBVIOUS
    <3> QED BY <1>1, <3>1
  <2>2. OnContour(Contours(order)[i - 1], order[i])
    BY <1>1, <2>1 DEF OrderOK, IsShelling, Shelling
  <2> QED BY <1>1, <2>1, <2>2 DEF OrderOK
<1>3. ASSUME phase \in {"base", "sets", "inner", "drawn"}
      PROVE  Len(order) = Len(partition) /\ ToSet(order) = ToSet(partition)
  <2>1. Rest = {} /\ OrderOK
    BY <1>3 DEF OrderInv
  <2>2. Len(order) \in Nat \ {0} /\ Len(partition) \in Nat /\ Len(partition) >= 1
        /\ DOMAIN partition = 1..Len(partition) /\ order \in Seq(ShellingOrderSet)
    BY <1>1, <2>1, PartitionSets, ShellingContour DEF OrderOK
  <2>3. Len(order) = Len(partition)
    <3>1. Cardinality(Rest) = 0
      BY <2>1, FS_EmptySet
    <3> QED BY <2>1, <2>2, <3>1 DEF OrderOK
  <2>4. DOMAIN order = 1..Len(order)
    BY <2>2, LenProperties
  <2>5. ASSUME NEW i \in 1..Len(order) PROVE order[i] \in ToSet(partition)
    <3>1. CASE i = 1
      BY <2>1, <2>2, <3>1 DEF OrderOK, ToSet
    <3>2. CASE i # 1
      <4>1. i \in 2..Len(order)
        BY <2>2, <3>2
      <4>2. PICK j \in 2..Len(partition) : partition[j] = order[i]
        BY <1>2, <4>1
      <4>3. j \in DOMAIN partition
        BY <2>2
      <4> QED BY <4>2, <4>3 DEF ToSet
    <3> QED BY <3>1, <3>2
  <2>6. ASSUME NEW j \in 1..Len(partition) PROVE partition[j] \in ToSet(order)
    <3>1. CASE j = 1
      <4>1. 1 \in DOMAIN order /\ order[1] = partition[1]
        BY <2>1, <2>2, <2>4 DEF OrderOK
      <4> QED BY <3>1, <4>1 DEF ToSet
    <3>2. CASE j # 1
      <4>1. j \in 2..Len(partition) /\ j \notin Rest
        BY <2>1, <2>2, <3>2
      <4>2. Contains(order, partition[j])
        BY <2>1, <4>1 DEF OrderOK
      <4> QED BY <2>4, <4>2 DEF Contains, ToSet
    <3> QED BY <3>1, <3>2
  <2>7. \A S \in ToSet(order) : S \in ToSet(partition)
    BY <2>4, <2>5 DEF ToSet
  <2>8. \A S \in ToSet(partition) : S \in ToSet(order)
    BY <2>2, <2>6 DEF ToSet
  <2> QED BY <2>3, <2>7, <2>8
<1> QED BY <1>2, <1>3 DEF SameShelling

(* IsLeftmost: no later set could have been put on further left.           *)
LEMMA InvIsLeftmost ==
  ASSUME OrderInv
  PROVE  IsLeftmost
<1> SUFFICES ASSUME NEW i \in 2..Len(order), NEW j \in (i + 1)..Len(order),
                    OnContour(Contours(order)[i - 1], order[j])
             PROVE  At(Contours(order)[i - 1], order[i].right)
                      <= At(Contours(order)[i - 1], order[j].right)
  BY DEF IsLeftmost
<1>1. OrderOK
  <2>1. order # << >>
    OBVIOUS
  <2> QED BY <2>1 DEF OrderInv
<1>2. RightOf(i, order[j])
  BY <1>1 DEF OrderOK
<1>3. order[j].right \in ToSet(Contours(order)[i - 1])
  BY DEF OnContour
<1> QED BY <1>2, <1>3 DEF RightOf

-----------------------------------------------------------------------------
(***************************************************************************)
(* The order, in every behaviour of the layout.                            *)
(***************************************************************************)
LEMMA NextOrderInv ==
  ASSUME OrderInv, [Next]_vars
  PROVE  OrderInv'
<1>1. CASE OrderNext
  BY <1>1, OrderNextKeeps
<1>2. CASE PlaceBase \/ PlaceContour \/ Drawn
  <2>1. /\ phase \notin {"peel", "leftmost"} /\ phase' \in {"base", "sets", "inner", "drawn"}
        /\ UNCHANGED << partition, order, crSets, outerfaceStack >>
    BY <1>2 DEF PlaceBase, PlaceContour, Drawn
  <2> QED BY <2>1, LaterPhaseKeeps
<1>3. CASE UNCHANGED orderVars
  BY <1>3, OrderStutterKeeps
<1>4. OrderNext \/ PlaceBase \/ PlaceContour \/ Drawn \/ UNCHANGED orderVars
  BY DEF Next, PlaceSet, PlaceInner, vars
<1> QED BY <1>1, <1>2, <1>3, <1>4

(* The partition and the leftmost order are what they should be.           *)
THEOREM OrderInvariant == Spec => []OrderInv
<1>1. LayoutInit => OrderInv
  BY InitOrderInv DEF LayoutInit
<1>2. OrderInv /\ [Next]_vars => OrderInv'
  BY NextOrderInv
<1> QED BY <1>1, <1>2, PTL DEF Spec

(* While initLeftmost runs the stack is the end of the contour, and every  *)
(* set is in the order or waits for its right node.                        *)
THEOREM LeftmostKeepsStack == Spec => []StackIsContour
<1>1. OrderInv => StackIsContour
  BY InvStackIsContour
<1> QED BY <1>1, OrderInvariant, PTL

(* The leftmost order is a shelling order of the same graph.               *)
THEOREM LeftmostIsShelling == Spec => []SameShelling
<1>1. OrderInv => SameShelling
  BY InvSameShelling
<1> QED BY <1>1, OrderInvariant, PTL

(* The order is leftmost.                                                  *)
THEOREM LeftmostIsLeftmost == Spec => []IsLeftmost
<1>1. OrderInv => IsLeftmost
  BY InvIsLeftmost
<1> QED BY <1>1, OrderInvariant, PTL

-----------------------------------------------------------------------------
(***************************************************************************)
(* The invariant of the layout.                                            *)
(***************************************************************************)
(* The higher of two neighbours on the contour is of the later set.        *)
ContourRanks ==
  \A i \in 2..Len(contour) :
    LET u == contour[i - 1]
        v == contour[i]
    IN (y[u] < y[v] => rank(u) < rank(v)) /\ (y[u] > y[v] => rank(u) > rank(v))

LayoutInv ==
  /\ OrderInv
  /\ TypeOK
  /\ phase \in {"peel", "leftmost", "base"} =>
       y = [v \in Nodes |-> 0] /\ upper = [v \in Nodes |-> None]
  /\ phase = "sets" =>
       /\ k \in 1..Len(order)
       /\ contour = Contours(order)[k]
       /\ ContourRanks
  /\ ContourSlopes
  /\ UpperIsLater

(* A set of the order is about to be placed.                               *)
Placing == LayoutInv /\ phase = "sets" /\ k < Len(order)

(* The section runs from the a-th to the b-th node of the contour.         *)
SectionAt(a, b) ==
  /\ a \in 1..Len(contour) /\ b \in 1..Len(contour) /\ a < b
  /\ FitsAt(contour, Vk, a, b)
  /\ c \in Seq(Nodes) /\ r = b - a + 1 /\ r \in Nat /\ r >= 2
  /\ \A i \in 1..r : c[i] = contour[a + i - 1] /\ a + i - 1 \in a..b

LEMMA OrderFacts ==
  ASSUME LayoutInv, phase \notin {"peel", "leftmost"}
  PROVE  /\ IsShelling(order) /\ PartitionOK
         /\ order \in Seq(ShellingOrderSet) /\ Len(order) \in Nat \ {0}
         /\ order[1] = V1 /\ order[1] = partition[1]
         /\ \A i \in 1..Len(order) : order[i].nodes \in Path(Nodes) /\ order[i].nodes # << >>
<1>1. OrderOK /\ PartitionOK
  BY DEF LayoutInv, OrderInv
<1>2. IsShelling(order) /\ order[1] = partition[1]
  BY <1>1 DEF OrderOK
<1>3. order \in Seq(ShellingOrderSet) /\ Len(order) \in Nat \ {0}
  BY <1>2, ShellingContour
<1>4. partition[1] = V1
  <2>1. partition \in Seq(ShellingOrderSet) /\ Len(partition) >= 1
    BY <1>1, PartitionSets
  <2>2. partition # << >>
    BY <2>1, EmptySeq
  <2> QED BY <2>1, <2>2 DEF V1
<1>5. \A i \in 1..Len(order) : order[i].nodes \in Path(Nodes) /\ order[i].nodes # << >>
  BY <1>2 DEF IsShelling, Shelling
<1> QED BY <1>1, <1>2, <1>3, <1>4, <1>5

LEMMA PlacingFacts ==
  ASSUME Placing
  PROVE  /\ k \in Nat /\ k + 1 \in 2..Len(order)
         /\ PutOnOK(Nodes, contour, Vk)
         /\ Contours(order)[k + 1] = PutOn(contour, Vk)
         /\ contour \in Path(Nodes) /\ contour \in Seq(Nodes) /\ Len(contour) \in Nat
         /\ Vk.nodes \in Path(Nodes) /\ Vk.nodes \in Seq(Nodes)
         /\ l \in Nat \ {0}
         /\ \E a, b \in 1..Len(contour) : SectionAt(a, b)
<1>1. /\ IsShelling(order) /\ Len(order) \in Nat \ {0}
  BY OrderFacts DEF Placing
<1>2. /\ k \in 1..Len(order) /\ k < Len(order) /\ contour = Contours(order)[k]
  BY DEF Placing, LayoutInv
<1>3. k \in Nat /\ k + 1 \in 2..Len(order) /\ (k + 1) - 1 = k
  BY <1>1, <1>2
<1>4. /\ PutOnOK(Nodes, contour, Vk)
      /\ Contours(order)[k + 1] = PutOn(contour, Vk)
  <2>1. /\ PutOnOK(Nodes, Contours(order)[(k + 1) - 1], order[k + 1])
        /\ Contours(order)[k + 1] = PutOn(Contours(order)[(k + 1) - 1], order[k + 1])
    BY <1>1, <1>3, ShellingContours DEF IsShelling
  <2> QED BY <1>2, <1>3, <2>1 DEF Vk
<1>5. /\ contour \in Path(Nodes) /\ contour \in Seq(Nodes) /\ Len(contour) \in Nat
      /\ \A i \in 1..Len(contour) : contour[i] \in Nodes
      /\ Vk.nodes \in Path(Nodes) /\ Vk.nodes \in Seq(Nodes) /\ Vk.nodes # << >>
  BY <1>4, PathIndices DEF PutOnOK
<1>6. l \in Nat \ {0}
  BY <1>5, EmptySeq, LenProperties DEF l
<1>7. PICK a, b \in 1..Len(contour) : FitsAt(contour, Vk, a, b)
  BY <1>4, <1>5, OnContourAt DEF PutOnOK
<1>8. a < b /\ At(contour, Vk.left) = a /\ At(contour, Vk.right) = b
  <2>1. contour \in Path(Nodes) /\ FitsAt(contour, Vk, a, b)
    BY <1>5, <1>7
  <2>2. At(contour, Vk.left) = a /\ At(contour, Vk.right) = b
    BY <2>1, OnContourAt
  <2> QED BY <2>1, <2>2 DEF FitsAt
<1>9. c = SubSeq(contour, a, b)
  BY <1>8 DEF c, Section
<1>10. /\ c \in Seq(Nodes) /\ Len(c) = (IF a <= b THEN b - a + 1 ELSE 0)
       /\ \A i \in 1..(b - a + 1) : c[i] = contour[a + i - 1]
  <2>1. \A i \in a..b : contour[i] \in Nodes
    BY <1>5
  <2>2. a \in Int /\ b \in Int
    BY <1>5
  <2> QED BY <1>9, <2>1, <2>2, SubSeqProperties
<1>11. SectionAt(a, b)
  <2>1. r = b - a + 1 /\ r \in Nat /\ r >= 2
    BY <1>5, <1>8, <1>10 DEF r
  <2>2. \A i \in 1..r : a + i - 1 \in a..b
    BY <1>5, <1>8, <2>1
  <2> QED BY <1>7, <1>8, <1>10, <2>1, <2>2 DEF SectionAt
<1> QED BY <1>3, <1>4, <1>5, <1>6, <1>11

-----------------------------------------------------------------------------
(***************************************************************************)
(* The sums of relative x-coordinates.                                     *)
(***************************************************************************)
LEMMA SumsExist ==
  ASSUME NEW path, NEW n \in Nat
  PROVE  \E g : g = [j \in 0..n |-> IF j = 0 THEN 0 ELSE g[j - 1] + x[path[j]]]
<1> DEFINE Step(sum, j) == IF j = 0 THEN 0 ELSE sum[j - 1] + x[path[j]]
           T == {m \in Int : \E g : g = [j \in 0..m |-> Step(g, j)]}
<1>1. 0 \in T
  <2> DEFINE g0 == [j \in 0..0 |-> 0]
  <2>1. g0 = [j \in 0..0 |-> Step(g0, j)]
    <3>1. \A j \in 0..0 : Step(g0, j) = 0
      OBVIOUS
    <3> HIDE DEF Step
    <3> QED BY <3>1
  <2> HIDE DEF g0
  <2>2. \E f : f = [j \in 0..0 |-> Step(f, j)]
    BY <2>1, Zenon
  <2>3. 0 \in Int
    OBVIOUS
  <2> QED BY <2>2, <2>3, Zenon
<1>2. ASSUME NEW m \in 0..(n - 1), m \in T PROVE m + 1 \in T
  <2>1. PICK f : f = [j \in 0..m |-> Step(f, j)]
    BY <1>2
  <2> DEFINE h == [j \in 0..(m + 1) |-> Step(f, j)]
  <2>2. h = [j \in 0..(m + 1) |-> Step(h, j)]
    <3>1. ASSUME NEW j \in 0..(m + 1) PROVE Step(h, j) = Step(f, j)
      <4>1. CASE j = 0
        BY <4>1
      <4>2. CASE j # 0
        <5>1. j - 1 \in 0..m
          BY <4>2
        <5>2. h[j - 1] = Step(f, j - 1)
          BY <5>1
        <5>3. f[j - 1] = Step(f, j - 1)
          BY <5>1, <2>1, Zenon
        <5> QED BY <5>2, <5>3
      <4> QED BY <4>1, <4>2
    <3> QED BY <3>1
  <2> HIDE DEF h
  <2> QED BY <2>2
<1> HIDE DEF T
<1>3. n \in T
  BY <1>1, <1>2, Upwards
<1> QED BY <1>3 DEF T

LEMMA SumSteps ==
  ASSUME NEW path \in Seq(Nodes), x \in [Nodes -> Int]
  PROVE  /\ SumUpTo(path, 0) = 0
         /\ \A i \in 0..Len(path) : SumUpTo(path, i) \in Int
         /\ \A i \in 1..Len(path) : SumUpTo(path, i) = SumUpTo(path, i - 1) + x[path[i]]
<1> DEFINE n == Len(path)
<1>1. n \in Nat
  BY LenProperties
<1>2. \E g : g = [j \in 0..n |-> IF j = 0 THEN 0 ELSE g[j - 1] + x[path[j]]]
  BY <1>1, SumsExist
<1> DEFINE sum == CHOOSE g : g = [j \in 0..n |-> IF j = 0 THEN 0 ELSE g[j - 1] + x[path[j]]]
<1>3. sum = [j \in 0..n |-> IF j = 0 THEN 0 ELSE sum[j - 1] + x[path[j]]]
  BY <1>2, Zenon
<1>4. \A i : SumUpTo(path, i) = sum[i]
  BY Zenon DEF SumUpTo
<1> HIDE DEF sum
<1>5. \A j \in 0..n : sum[j] = IF j = 0 THEN 0 ELSE sum[j - 1] + x[path[j]]
  BY <1>3, Zenon
<1>6. sum[0] = 0
  BY <1>1, <1>5
<1>7. \A j \in 1..n : sum[j] = sum[j - 1] + x[path[j]]
  BY <1>1, <1>5
<1> DEFINE T == {j \in Int : sum[j] \in Int}
<1>8. \A j \in 0..n : j \in T
  <2>1. 0 \in T
    BY <1>6
  <2>2. ASSUME NEW j \in 0..(n - 1), j \in T PROVE j + 1 \in T
    <3>1. j + 1 \in 1..n /\ (j + 1) - 1 = j
      BY <1>1
    <3>2. x[path[j + 1]] \in Int
      BY <3>1, ElementOfSeq
    <3> QED BY <1>7, <2>2, <3>1, <3>2
  <2>3. 0 \in Int /\ n \in Int
    BY <1>1
  <2> HIDE DEF T
  <2> QED BY <2>1, <2>2, <2>3, Upwards
<1> QED BY <1>4, <1>6, <1>7, <1>8

-----------------------------------------------------------------------------
(***************************************************************************)
(* The section of the contour a set is placed on.                          *)
(***************************************************************************)
(* Between two nodes next to each other the section goes to the right with *)
(* slope +1, -1 or, two wide, 0.                                           *)
LEMMA SectionSlopes ==
  ASSUME Placing
  PROVE  /\ r \in Nat /\ r >= 2 /\ c \in Seq(Nodes) /\ Len(c) = r
         /\ \A i \in 1..r : c[i] \in Nodes /\ y[c[i]] \in Nat
         /\ \A i \in 2..r :
              /\ i - 1 \in 1..r /\ i \in 1..r
              /\ x[c[i]] \in Nat \ {0}
              /\ \/ y[c[i]] - y[c[i - 1]] = x[c[i]]
                 \/ y[c[i]] - y[c[i - 1]] = - x[c[i]]
                 \/ y[c[i]] - y[c[i - 1]] = 0 /\ x[c[i]] = 2
              /\ y[c[i]] < y[c[i - 1]] => rank(c[i]) < rank(c[i - 1])
              /\ y[c[i]] > y[c[i - 1]] => rank(c[i]) > rank(c[i - 1])
<1>1. PICK a, b \in 1..Len(contour) : SectionAt(a, b)
  BY PlacingFacts
<1>2. Len(contour) \in Nat /\ contour \in Seq(Nodes)
  BY PlacingFacts
<1>3. /\ a \in 1..Len(contour) /\ b \in 1..Len(contour) /\ a < b
      /\ c \in Seq(Nodes) /\ r = b - a + 1 /\ r \in Nat /\ r >= 2
      /\ \A i \in 1..r : c[i] = contour[a + i - 1] /\ a + i - 1 \in a..b
  BY <1>1 DEF SectionAt
<1>4. \A i \in 1..Len(contour) : contour[i] \in Nodes
  BY <1>2, ElementOfSeq
<1>5. x \in [Nodes -> Int] /\ y \in [Nodes -> Nat]
  BY DEF Placing, LayoutInv, TypeOK
<1>6. ASSUME NEW i \in 1..r PROVE c[i] \in Nodes /\ y[c[i]] \in Nat
  <2>1. a + i - 1 \in 1..Len(contour) /\ c[i] = contour[a + i - 1]
    BY <1>2, <1>3
  <2> QED BY <1>4, <1>5, <2>1
<1>7. ASSUME NEW i \in 2..r
      PROVE  /\ i - 1 \in 1..r /\ i \in 1..r
             /\ x[c[i]] \in Nat \ {0}
             /\ \/ y[c[i]] - y[c[i - 1]] = x[c[i]]
                \/ y[c[i]] - y[c[i - 1]] = - x[c[i]]
                \/ y[c[i]] - y[c[i - 1]] = 0 /\ x[c[i]] = 2
             /\ y[c[i]] < y[c[i - 1]] => rank(c[i]) < rank(c[i - 1])
             /\ y[c[i]] > y[c[i - 1]] => rank(c[i]) > rank(c[i - 1])
  <2> DEFINE q == a + i - 1
  <2>1. i - 1 \in 1..r /\ i \in 1..r
    BY <1>3
  <2>2. /\ q \in 2..Len(contour) /\ q - 1 = a + (i - 1) - 1
    <3>1. /\ a \in Int /\ b \in Int /\ Len(contour) \in Int /\ i \in Int /\ r \in Int
          /\ 1 <= a /\ b <= Len(contour) /\ 2 <= i /\ i <= r /\ r = b - a + 1
      BY <1>2, <1>3
    <3> QED BY <3>1
  <2>3. c[i] = contour[q] /\ c[i - 1] = contour[q - 1]
    BY <1>3, <2>1, <2>2
  <2> HIDE DEF q
  <2>4. /\ x[contour[q]] > 0
        /\ \/ y[contour[q]] - y[contour[q - 1]] \in {x[contour[q]], - x[contour[q]]}
           \/ y[contour[q]] - y[contour[q - 1]] = 0 /\ x[contour[q]] = 2
    BY <2>2 DEF Placing, LayoutInv, ContourSlopes
  <2>5. /\ y[contour[q]] < y[contour[q - 1]] => rank(contour[q]) < rank(contour[q - 1])
        /\ y[contour[q]] > y[contour[q - 1]] => rank(contour[q]) > rank(contour[q - 1])
    <3>1. /\ y[contour[q - 1]] < y[contour[q]] => rank(contour[q - 1]) < rank(contour[q])
          /\ y[contour[q - 1]] > y[contour[q]] => rank(contour[q - 1]) > rank(contour[q])
      BY <2>2 DEF Placing, LayoutInv, ContourRanks
    <3> QED BY <3>1
  <2>6. x[c[i]] \in Int
    BY <1>5, <1>6, <2>1
  <2> QED BY <2>1, <2>3, <2>4, <2>5, <2>6
<1>8. Len(c) = r
  BY DEF r
<1> QED BY <1>3, <1>6, <1>7, <1>8

(* The distances on the section, and their parity.                         *)
LEMMA SectionDistances ==
  ASSUME Placing
  PROVE  /\ Distance(1) = 0
         /\ \A i \in 1..r : Distance(i) \in Int
         /\ \A i \in 2..r : Distance(i) = Distance(i - 1) + x[c[i]]
<1>1. /\ r \in Nat /\ r >= 2 /\ c \in Seq(Nodes) /\ Len(c) = r
  BY SectionSlopes
<1>2. x \in [Nodes -> Int]
  BY DEF Placing, LayoutInv, TypeOK
<1> DEFINE t == Tail(c)
<1>3. /\ t \in Seq(Nodes) /\ Len(t) = r - 1 /\ \A i \in 1..(r - 1) : t[i] = c[i + 1]
  <2>1. c # << >>
    BY <1>1, EmptySeq
  <2> QED BY <1>1, <2>1, HeadTailProperties
<1> HIDE DEF t
<1>4. /\ SumUpTo(t, 0) = 0
      /\ \A i \in 0..(r - 1) : SumUpTo(t, i) \in Int
      /\ \A i \in 1..(r - 1) : SumUpTo(t, i) = SumUpTo(t, i - 1) + x[t[i]]
  BY <1>2, <1>3, SumSteps
<1>5. \A i : Distance(i) = SumUpTo(t, i - 1)
  BY DEF Distance, t
<1>6. Distance(1) = 0
  BY <1>4, <1>5
<1>7. ASSUME NEW i \in 1..r PROVE Distance(i) \in Int
  <2>1. i - 1 \in 0..(r - 1)
    BY <1>1
  <2> QED BY <1>4, <1>5, <2>1
<1>8. ASSUME NEW i \in 2..r PROVE Distance(i) = Distance(i - 1) + x[c[i]]
  <2>1. i - 1 \in 1..(r - 1) /\ (i - 1) + 1 = i
    BY <1>1
  <2>2. SumUpTo(t, i - 1) = SumUpTo(t, (i - 1) - 1) + x[t[i - 1]] /\ t[i - 1] = c[i]
    BY <1>3, <1>4, <2>1
  <2> QED BY <1>5, <2>2
<1> QED BY <1>6, <1>7, <1>8

(* The distance from cl and the change of y are both odd or both even, and *)
(* nothing is further up or down than to the right.                        *)
EvenClimb(i) ==
  /\ Distance(i) >= y[c[1]] - y[c[i]]
  /\ Distance(i) >= y[c[i]] - y[c[1]]
  /\ \E m \in Int : Distance(i) + y[c[i]] - y[c[1]] = 2 * m

LEMMA SectionClimbs ==
  ASSUME Placing
  PROVE  \A i \in 1..r : EvenClimb(i)
<1> DEFINE T == {i \in Int : EvenClimb(i)}
<1>1. r \in Nat /\ r >= 2 /\ \A i \in 1..r : y[c[i]] \in Nat
  BY SectionSlopes
<1>2. 1 \in T
  <2>1. Distance(1) = 0 /\ y[c[1]] \in Nat
    BY <1>1, SectionDistances
  <2>2. Distance(1) + y[c[1]] - y[c[1]] = 2 * 0
    BY <2>1
  <2> QED BY <2>1, <2>2 DEF EvenClimb
<1>3. ASSUME NEW i \in 1..(r - 1), i \in T PROVE i + 1 \in T
  <2> DEFINE j == i + 1
             d == Distance(i)
             e == Distance(j)
             w == x[c[j]]
             yi == y[c[i]]
             yj == y[c[j]]
             yl == y[c[1]]
  <2>1. j \in 2..r /\ j - 1 = i /\ i \in 1..r /\ j \in 1..r /\ 1 \in 1..r
    BY <1>1
  <2>2. /\ w \in Nat \ {0}
        /\ yj - yi = w \/ yj - yi = - w \/ (yj - yi = 0 /\ w = 2)
    BY <2>1, SectionSlopes
  <2>3. e = d + w /\ d \in Int /\ e \in Int
    BY <2>1, SectionDistances
  <2>4. yi \in Nat /\ yj \in Nat /\ yl \in Nat
    BY <1>1, <2>1
  <2>5. PICK m \in Int : d + yi - yl = 2 * m
    BY <1>3 DEF EvenClimb
  <2>6. d >= yl - yi /\ d >= yi - yl
    BY <1>3 DEF EvenClimb
  <2> HIDE DEF j, d, e, w, yi, yj, yl
  <2>7. e >= yl - yj /\ e >= yj - yl
    BY <2>2, <2>3, <2>4, <2>6
  <2>8. \E n \in Int : e + yj - yl = 2 * n
    <3>1. CASE yj - yi = w
      <4>1. m + w \in Int /\ e + yj - yl = 2 * (m + w)
        BY <2>2, <2>3, <2>4, <2>5, <3>1
      <4> QED BY <4>1
    <3>2. CASE yj - yi = - w
      <4>1. e + yj - yl = 2 * m
        BY <2>2, <2>3, <2>4, <2>5, <3>2
      <4> QED BY <4>1
    <3>3. CASE yj - yi = 0 /\ w = 2
      <4>1. m + 1 \in Int /\ e + yj - yl = 2 * (m + 1)
        BY <2>2, <2>3, <2>4, <2>5, <3>3
      <4> QED BY <4>1
    <3> QED BY <2>2, <3>1, <3>2, <3>3
  <2> QED BY <2>1, <2>7, <2>8 DEF EvenClimb, j, e, yj, yl
<1>4. \A i \in 1..r : i \in T
  <2>1. 1 \in Int /\ r \in Int
    BY <1>1
  <2> HIDE DEF T
  <2> QED BY <1>2, <1>3, <2>1, Upwards
<1> QED BY <1>4

(* The highest node of the section.                                        *)
LEMMA SectionTop ==
  ASSUME Placing
  PROVE  /\ \E i \in 1..r : yMax = y[c[i]]
         /\ \A i \in 1..r : y[c[i]] <= yMax
         /\ yMax \in Nat
<1>1. r \in Nat \ {0} /\ \A i \in 1..r : y[c[i]] \in Nat
  BY SectionSlopes
<1>2. PICK f : f = [i \in 1..r |-> y[c[i]]]
  OBVIOUS
<1>3. \A i \in 1..r : f[i] = y[c[i]] /\ f[i] \in Int
  BY <1>1, <1>2
<1>4. {f[j] : j \in 1..r} = {y[c[j]] : j \in 1..r}
  BY <1>3
<1>5. /\ \E i \in 1..r : Max({f[j] : j \in 1..r}) = f[i]
      /\ \A i \in 1..r : f[i] <= Max({f[j] : j \in 1..r})
  BY <1>1, <1>3, MaxOfValues
<1>6. yMax = Max({f[j] : j \in 1..r})
  BY <1>4 DEF yMax
<1> QED BY <1>1, <1>3, <1>5, <1>6

(* Whether an edge goes up to the right of cl or to the left of cr.        *)
EdgeInside == y[c[1]] < y[c[2]] \/ y[c[r]] < y[c[r - 1]]

(* How far apart cl and cr must be for the set to be above the section.    *)
Missing == 2 * (yMax + l) - Distance(r) - y[c[1]] - y[c[r]]

(* The shift is even and enough for the set to be above the section, and   *)
(* the new edges to the set have slope +1 and -1.                          *)
LEMMA SetFits ==
  ASSUME Placing
  PROVE  /\ offset \in Nat
         /\ \E o \in Nat : offset = 2 * o
         /\ offset = (IF EdgeInside THEN 2 ELSE 0) \/ offset = Missing
         /\ EdgeInside => offset >= 2
         /\ x_cr \in Int /\ (x_cr + y[c[r]] - y[c[1]]) % 2 = 0
         /\ xz1 \in Nat \ {0}
         /\ yz1 = y[c[1]] + xz1
         /\ x_cr - (xz1 + 2 * (l - 1)) = yz1 - y[c[r]]
         /\ \A i \in 1..r : y[c[i]] < yz1
<1> DEFINE yl == y[c[1]]
           yr == y[c[r]]
           d == Distance(r)
           least == IF EdgeInside THEN 2 ELSE 0
<1>1. /\ r \in Nat /\ r >= 2 /\ \A i \in 1..r : y[c[i]] \in Nat
  BY SectionSlopes
<1>2. yl \in Nat /\ yr \in Nat /\ d \in Int /\ l \in Nat \ {0} /\ yMax \in Nat
  <2>1. 1 \in 1..r /\ r \in 1..r
    BY <1>1
  <2> QED BY <1>1, <2>1, PlacingFacts, SectionDistances, SectionTop
<1>3. PICK m \in Int : d + yr - yl = 2 * m
  <2>1. r \in 1..r
    BY <1>1
  <2> QED BY <2>1, SectionClimbs DEF EvenClimb
<1>4. offset = Max({least, Missing})
  BY DEF offset, EdgeInside, Missing
<1>5. Missing = 2 * (yMax + l) - d - yl - yr
  BY DEF Missing
<1>6. \A i \in 1..r : y[c[i]] <= yMax
  BY SectionTop
<1>7. /\ xz1 = (x_cr + yr - yl) \div 2 - l + 1 /\ yz1 = (x_cr + yr + yl) \div 2 - l + 1
      /\ x_cr = d + offset
  BY DEF xz1, yz1, x_cr
<1>8. least \in {0, 2} /\ (EdgeInside => least = 2)
  OBVIOUS
<1> HIDE DEF yl, yr, d, least
<1>9. Missing \in Int /\ Missing = 2 * (yMax + l - m - yl) /\ yMax + l - m - yl \in Int
  BY <1>2, <1>3, <1>5
<1>10. offset = IF least >= Missing THEN least ELSE Missing
  <2>1. least \in Int
    BY <1>8
  <2> QED BY <1>4, <1>9, <2>1, MaxOfTwo
<1>11. offset \in Nat /\ offset >= Missing /\ offset >= least
  BY <1>8, <1>9, <1>10
<1>12. PICK o \in Nat : offset = 2 * o
  <2>1. CASE offset = 0
    BY <2>1
  <2>2. CASE offset = 2
    BY <2>2
  <2>3. CASE offset = Missing
    <3>1. yMax + l - m - yl >= 0
      BY <1>9, <1>11, <2>3
    <3> QED BY <1>9, <2>3, <3>1
  <2> QED BY <1>8, <1>10, <2>1, <2>2, <2>3
<1>13. /\ x_cr \in Int /\ x_cr + yr - yl = 2 * (m + o) /\ x_cr + yr + yl = 2 * (m + o + yl)
  BY <1>2, <1>3, <1>7, <1>11, <1>12
<1>14. xz1 = m + o - l + 1 /\ yz1 = m + o + yl - l + 1
  BY <1>2, <1>7, <1>12, <1>13
<1>15. m + o >= yMax + l - yl
  BY <1>2, <1>9, <1>11, <1>12
<1>16. \E i \in 1..r : yMax >= yl /\ yMax \in Nat
  <2>1. 1 \in 1..r
    BY <1>1
  <2> QED BY <1>2, <1>6, <2>1 DEF yl
<1>17. xz1 \in Nat \ {0} /\ yz1 = yl + xz1 /\ yz1 >= yMax + 1 /\ yz1 \in Int
  BY <1>2, <1>12, <1>14, <1>15, <1>16
<1>18. x_cr - (xz1 + 2 * (l - 1)) = yz1 - yr
  BY <1>2, <1>12, <1>13, <1>14
<1>19. (x_cr + yr - yl) % 2 = 0
  BY <1>12, <1>13
<1>20. ASSUME NEW i \in 1..r PROVE y[c[i]] < yz1
  BY <1>1, <1>2, <1>6, <1>17
<1>21. offset = least \/ offset = Missing
  BY <1>10
<1>22. EdgeInside => offset >= 2
  BY <1>8, <1>11
<1> QED BY <1>11, <1>12, <1>13, <1>17, <1>18, <1>19, <1>20, <1>21, <1>22 DEF yl, yr, least

(* The walk down from cl.                                                  *)
LEMMA WalkFromLeft ==
  ASSUME Placing
  PROVE  /\ alpha \in 1..r
         /\ \A i \in 2..alpha : i \in 1..r /\ y[c[i]] < y[c[i - 1]]
         /\ alpha = r \/ y[c[alpha + 1]] >= y[c[alpha]]
<1>1. /\ r \in Nat /\ r >= 2 /\ \A i \in 1..r : y[c[i]] \in Nat
  BY SectionSlopes
<1>2. CASE y[c[1]] <= y[c[2]]
  BY <1>1, <1>2 DEF alpha
<1>3. CASE ~ y[c[1]] <= y[c[2]]
  <2> DEFINE T == {i \in 2..r : i = r \/ y[c[i + 1]] >= y[c[i]]}
  <2>1. alpha = Min(T)
    BY <1>3 DEF alpha
  <2>2. T \in SUBSET Int /\ r \in T /\ \A i \in T : 2 <= i
    BY <1>1
  <2>3. alpha \in T /\ \A i \in T : alpha <= i
    <3> HIDE DEF T
    <3>1. T # {} /\ 2 \in Int
      BY <2>2
    <3> QED BY <2>1, <2>2, <3>1, BoundedMin
  <2>4. ASSUME NEW i \in 2..alpha PROVE i \in 1..r /\ y[c[i]] < y[c[i - 1]]
    <3>1. i \in 1..r
      BY <1>1, <2>3
    <3>2. CASE i = 2
      <4>1. y[c[1]] \in Nat /\ y[c[2]] \in Nat
        BY <1>1
      <4> QED BY <1>3, <3>1, <3>2, <4>1
    <3>3. CASE i # 2
      <4> DEFINE q == i - 1
      <4>1. q \in 2..r /\ q # r /\ q + 1 = i /\ q \in 1..r /\ ~ alpha <= q
        BY <1>1, <2>3, <3>3
      <4> HIDE DEF q
      <4>2. ~ y[c[q + 1]] >= y[c[q]]
        BY <2>3, <4>1
      <4>3. y[c[i]] \in Nat /\ y[c[q]] \in Nat
        BY <1>1, <3>1, <4>1
      <4> QED BY <3>1, <4>1, <4>2, <4>3 DEF q
    <3> QED BY <3>2, <3>3
  <2> QED BY <1>1, <2>3, <2>4
<1> QED BY <1>2, <1>3

(* The walk down from cr.                                                  *)
LEMMA WalkFromRight ==
  ASSUME Placing
  PROVE  /\ beta \in 1..r
         /\ \A i \in (beta + 1)..r : i \in 2..r /\ y[c[i]] > y[c[i - 1]]
         /\ beta = 1 \/ y[c[beta - 1]] >= y[c[beta]]
<1>1. /\ r \in Nat /\ r >= 2 /\ \A i \in 1..r : y[c[i]] \in Nat
  BY SectionSlopes
<1>2. CASE y[c[r]] <= y[c[r - 1]]
  <2>1. beta = r
    BY <1>2 DEF beta
  <2>2. y[c[r - 1]] >= y[c[r]]
    <3>1. y[c[r]] \in Nat /\ y[c[r - 1]] \in Nat
      <4>1. r \in 1..r /\ r - 1 \in 1..r
        BY <1>1
      <4> QED BY <1>1, <4>1
    <3> QED BY <1>2, <3>1
  <2> QED BY <1>1, <2>1, <2>2
<1>3. CASE ~ y[c[r]] <= y[c[r - 1]]
  <2> DEFINE T == {i \in 1..(r - 1) : i = 1 \/ y[c[i - 1]] >= y[c[i]]}
  <2>1. beta = Max(T)
    BY <1>3 DEF beta
  <2>2. T \in SUBSET Int /\ 1 \in T /\ \A i \in T : i <= r - 1
    BY <1>1
  <2>3. beta \in T /\ \A i \in T : i <= beta
    <3> HIDE DEF T
    <3>1. T # {} /\ r - 1 \in Int
      BY <1>1, <2>2
    <3> QED BY <2>1, <2>2, <3>1, BoundedMax
  <2>4. ASSUME NEW i \in (beta + 1)..r PROVE i \in 2..r /\ y[c[i]] > y[c[i - 1]]
    <3>1. i \in 2..r /\ i \in 1..r /\ i - 1 \in 1..r
      BY <1>1, <2>3
    <3>2. y[c[i]] \in Nat /\ y[c[i - 1]] \in Nat
      BY <1>1, <3>1
    <3>3. CASE i = r
      BY <1>3, <3>1, <3>2, <3>3
    <3>4. CASE i # r
      <4>1. i \in 1..(r - 1) /\ i # 1 /\ ~ i <= beta
        BY <1>1, <2>3, <3>4
      <4>2. ~ y[c[i - 1]] >= y[c[i]]
        BY <2>3, <4>1
      <4> QED BY <3>1, <3>2, <4>2
    <3> QED BY <3>3, <3>4
  <2> QED BY <1>1, <2>3, <2>4
<1> QED BY <1>2, <1>3

LEMMA WalksMeet ==
  ASSUME Placing
  PROVE  alpha <= beta
<1> SUFFICES ASSUME ~ alpha <= beta PROVE FALSE
  OBVIOUS
<1>1. alpha \in 1..r /\ beta \in 1..r /\ r \in Nat
  BY SectionSlopes, WalkFromLeft, WalkFromRight
<1> DEFINE i == beta + 1
<1>2. i \in 2..alpha /\ i \in (beta + 1)..r /\ i \in 1..r /\ i - 1 \in 1..r
  BY <1>1
<1> HIDE DEF i
<1>3. y[c[i]] < y[c[i - 1]] /\ y[c[i]] > y[c[i - 1]]
  BY <1>2, WalkFromLeft, WalkFromRight DEF i
<1>4. y[c[i]] \in Nat /\ y[c[i - 1]] \in Nat
  BY <1>2, SectionSlopes
<1> QED BY <1>3, <1>4

LEMMA InvSectionFits ==
  ASSUME LayoutInv
  PROVE  SectionFits
<1> SUFFICES ASSUME Placing
             PROVE  /\ offset % 2 = 0
                    /\ (x_cr + y[c[r]] - y[c[1]]) % 2 = 0
                    /\ alpha <= beta
  BY DEF SectionFits, Placing
<1>1. PICK o \in Nat : offset = 2 * o
  BY SetFits
<1>2. offset % 2 = 0
  BY <1>1
<1> QED BY <1>2, SetFits, WalksMeet

-----------------------------------------------------------------------------
(***************************************************************************)
(* The rank of a node is the place of the only set it is in.               *)
(***************************************************************************)
LEMMA RankIsPlace ==
  ASSUME IsShelling(order), NEW i \in 1..Len(order), NEW v \in ToSet(order[i].nodes)
  PROVE  rank(v) = i
<1>1. order \in Seq(ShellingOrderSet) /\ DOMAIN order = 1..Len(order)
  BY ShellingContour, LenProperties
<1>2. /\ \A j \in 1..Len(order) : order[j].nodes \in Path(Nodes)
      /\ \A j \in 1..Len(order) : i # j => ToSet(order[i].nodes) \cap ToSet(order[j].nodes) = {}
  BY DEF IsShelling, Shelling
<1>3. \A j \in 1..Len(order) : Contains(order[j].nodes, v) <=> v \in ToSet(order[j].nodes)
  BY <1>2, PathIndices DEF Contains
<1>4. \A j \in DOMAIN order : Contains(order[j].nodes, v) <=> j = i
  BY <1>1, <1>2, <1>3
<1> QED BY <1>1, <1>4 DEF rank

LEMMA ContourNodeRanks ==
  ASSUME LayoutInv, phase = "sets", NEW v \in ToSet(contour)
  PROVE  rank(v) \in 1..k
<1>1. IsShelling(order) /\ k \in 1..Len(order) /\ Len(order) \in Nat /\ contour = Contours(order)[k]
  BY OrderFacts DEF LayoutInv
<1>2. ContourOf(Nodes, order, k)
  BY <1>1, ShellingContours DEF IsShelling
<1>3. PICK j \in 1..k : v \in ToSet(order[j].nodes)
  BY <1>1, <1>2 DEF ContourOf
<1>4. j \in 1..Len(order)
  BY <1>1
<1> QED BY <1>1, <1>3, <1>4, RankIsPlace

LEMMA SetRanks ==
  ASSUME Placing, NEW q \in 1..l
  PROVE  rank(Vk.nodes[q]) = k + 1 /\ Vk.nodes[q] \in Nodes
<1>1. IsShelling(order) /\ k + 1 \in 1..Len(order)
  BY OrderFacts, PlacingFacts DEF Placing
<1>2. Vk.nodes[q] \in ToSet(Vk.nodes) /\ Vk.nodes[q] \in Nodes
  BY PlacingFacts, PathIndices DEF l
<1> QED BY <1>1, <1>2, RankIsPlace DEF Vk

LEMMA SectionRanks ==
  ASSUME Placing
  PROVE  /\ \A i \in 1..r : rank(c[i]) \in 1..k
         /\ \A i \in 2..alpha : rank(c[i]) < rank(c[1])
         /\ \A i \in beta..(r - 1) : rank(c[i]) < rank(c[r])
<1>1. r \in Nat /\ r >= 2 /\ k \in Nat
  BY SectionSlopes, PlacingFacts
<1>2. ASSUME NEW i \in 1..r PROVE rank(c[i]) \in 1..k
  <2>1. PICK a, b \in 1..Len(contour) : SectionAt(a, b)
    BY PlacingFacts
  <2>2. contour \in Path(Nodes) /\ Len(contour) \in Nat
    BY PlacingFacts
  <2>3. c[i] = contour[a + i - 1] /\ a + i - 1 \in 1..Len(contour)
    BY <2>1, <2>2 DEF SectionAt
  <2>4. c[i] \in ToSet(contour)
    BY <2>2, <2>3, PathIndices
  <2> QED BY <2>4, ContourNodeRanks DEF Placing
<1>3. ASSUME NEW i \in 2..alpha PROVE rank(c[i]) < rank(c[1])
  <2> DEFINE T == {j \in Int : rank(c[j]) < rank(c[1])}
  <2>1. alpha \in 1..r /\ \A j \in 2..alpha : y[c[j]] < y[c[j - 1]]
    BY WalkFromLeft
  <2>2. ASSUME NEW j \in 2..alpha
        PROVE  /\ j \in 1..r /\ j - 1 \in 1..r /\ 1 \in 1..r
               /\ rank(c[j]) < rank(c[j - 1])
    <3>1. j \in 2..r /\ y[c[j]] < y[c[j - 1]] /\ 1 \in 1..r
      BY <1>1, <2>1
    <3> QED BY <3>1, SectionSlopes
  <2>3. 2 \in T
    <3>1. 2 \in 2..alpha /\ 2 - 1 = 1
      BY <1>1, <1>3, <2>1
    <3> QED BY <2>2, <3>1
  <2>4. ASSUME NEW j \in 2..(alpha - 1), j \in T PROVE j + 1 \in T
    <3>1. j + 1 \in 2..alpha /\ (j + 1) - 1 = j
      BY <1>1, <2>1
    <3>2. rank(c[j + 1]) < rank(c[j]) /\ j + 1 \in 1..r /\ j \in 1..r /\ 1 \in 1..r
      BY <2>2, <3>1
    <3>3. rank(c[j + 1]) \in Int /\ rank(c[j]) \in Int /\ rank(c[1]) \in Int
      BY <1>1, <1>2, <3>2
    <3> QED BY <2>4, <3>2, <3>3
  <2>5. \A j \in 2..alpha : j \in T
    <3>1. 2 \in Int /\ alpha \in Int
      BY <1>1, <2>1
    <3> HIDE DEF T
    <3> QED BY <2>3, <2>4, <3>1, Upwards
  <2> QED BY <2>5
<1>4. ASSUME NEW i \in beta..(r - 1) PROVE rank(c[i]) < rank(c[r])
  <2> DEFINE T == {j \in Int : rank(c[j]) < rank(c[r])}
  <2>1. beta \in 1..r /\ \A j \in (beta + 1)..r : y[c[j]] > y[c[j - 1]]
    BY WalkFromRight
  <2>2. ASSUME NEW j \in (beta + 1)..r
        PROVE  /\ j \in 1..r /\ j - 1 \in 1..r /\ r \in 1..r
               /\ rank(c[j - 1]) < rank(c[j])
    <3>1. j \in 2..r /\ y[c[j]] > y[c[j - 1]] /\ r \in 1..r
      BY <1>1, <2>1
    <3>2. j \in 1..r /\ j - 1 \in 1..r /\ rank(c[j]) > rank(c[j - 1])
      BY <3>1, SectionSlopes
    <3>3. rank(c[j]) \in Int /\ rank(c[j - 1]) \in Int
      BY <1>1, <1>2, <3>2
    <3> QED BY <3>1, <3>2, <3>3
  <2>3. r - 1 \in T
    <3>1. r \in (beta + 1)..r
      BY <1>1, <1>4, <2>1
    <3> QED BY <1>1, <2>2, <3>1
  <2>4. ASSUME NEW j \in (beta + 1)..(r - 1), j \in T PROVE j - 1 \in T
    <3>1. j \in (beta + 1)..r
      BY <1>1, <2>1
    <3>2. rank(c[j - 1]) < rank(c[j]) /\ j - 1 \in 1..r /\ j \in 1..r /\ r \in 1..r
      BY <2>2, <3>1
    <3>3. rank(c[j - 1]) \in Int /\ rank(c[j]) \in Int /\ rank(c[r]) \in Int
      BY <1>1, <1>2, <3>2
    <3> QED BY <2>4, <3>2, <3>3
  <2>5. \A j \in beta..(r - 1) : j \in T
    <3>1. beta \in Int /\ r - 1 \in Int
      BY <1>1, <2>1
    <3> HIDE DEF T
    <3> QED BY <2>3, <2>4, <3>1, Downwards
  <2> QED BY <2>5
<1> QED BY <1>2, <1>3, <1>4

-----------------------------------------------------------------------------
(***************************************************************************)
(* What placing a set changes, node by node.                               *)
(***************************************************************************)
(* The nodes of the section are different nodes of the contour, and none   *)
(* of the set.                                                             *)
LEMMA SectionNodes ==
  ASSUME Placing, NEW a, NEW b, SectionAt(a, b)
  PROVE  /\ \A i, j \in 1..r : c[i] = c[j] => i = j
         /\ \A i \in 1..r : At(c, c[i]) = i
         /\ \A q \in 1..Len(contour) : \A t \in 1..l : contour[q] # Vk.nodes[t]
         /\ \A q \in 1..Len(contour) : \A i \in 1..r : contour[q] = c[i] => q = a + i - 1
         /\ \A s, t \in 1..l : Vk.nodes[s] = Vk.nodes[t] => s = t
<1>1. /\ contour \in Path(Nodes) /\ Len(contour) \in Nat /\ Vk.nodes \in Path(Nodes)
      /\ ToSet(Vk.nodes) \cap ToSet(contour) = {}
  BY PlacingFacts DEF PutOnOK
<1>2. /\ a \in 1..Len(contour) /\ b \in 1..Len(contour) /\ a < b
      /\ c \in Seq(Nodes) /\ r = b - a + 1 /\ r \in Nat
      /\ \A i \in 1..r : c[i] = contour[a + i - 1] /\ a + i - 1 \in a..b
  BY DEF SectionAt
<1>3. \A q, t \in 1..Len(contour) : contour[q] = contour[t] => q = t
  BY <1>1, PathIndices
<1>4. ASSUME NEW q \in 1..Len(contour), NEW i \in 1..r, contour[q] = c[i] PROVE q = a + i - 1
  <2>1. a + i - 1 \in 1..Len(contour) /\ c[i] = contour[a + i - 1]
    BY <1>1, <1>2
  <2> QED BY <1>3, <1>4, <2>1
<1>5. ASSUME NEW i \in 1..r, NEW j \in 1..r, c[i] = c[j] PROVE i = j
  <2>1. a + i - 1 \in 1..Len(contour) /\ c[i] = contour[a + i - 1]
    BY <1>1, <1>2
  <2>2. a + i - 1 = a + j - 1
    BY <1>4, <1>5, <2>1
  <2> QED BY <1>1, <1>2, <2>2
<1>6. c \in Path(Nodes) /\ Len(c) = r
  <2>1. DOMAIN c = 1..r
    BY <1>2, LenProperties DEF r
  <2> QED BY <1>2, <1>5, <2>1 DEF Path, r
<1>7. \A i \in 1..r : At(c, c[i]) = i
  BY <1>6, AtIndex
<1>8. \A q \in 1..Len(contour) : \A t \in 1..l : contour[q] # Vk.nodes[t]
  BY <1>1, PathIndices DEF l
<1>9. \A s, t \in 1..l : Vk.nodes[s] = Vk.nodes[t] => s = t
  BY <1>1, PathIndices DEF l
<1> QED BY <1>4, <1>5, <1>7, <1>8, <1>9

PlacedCoordinates ==
  /\ Len(Vk.nodes) = l /\ ToSet(Vk.nodes) = {Vk.nodes[q] : q \in 1..l}
  /\ \A q \in 1..l : y'[Vk.nodes[q]] = yz1
  /\ x'[Vk.nodes[1]] = xz1
  /\ \A q \in 2..l : x'[Vk.nodes[q]] = 2
  /\ \A i \in 1..r : y'[c[i]] = y[c[i]]
  /\ x'[c[1]] = x[c[1]]
  /\ \A i \in 2..(r - 1) : x'[c[i]] = Distance(i) + Shift(i) /\ upper'[c[i]] = Upper(i)
  /\ x'[c[r]] = x_cr - (xz1 + 2 * (l - 1))
  /\ upper'[c[1]] = upper[c[1]] /\ upper'[c[r]] = upper[c[r]]
  /\ \A v \in Nodes \ {c[i] : i \in 1..r} :
       /\ upper'[v] = upper[v]
       /\ v \notin {Vk.nodes[q] : q \in 1..l} => x'[v] = x[v] /\ y'[v] = y[v]

LEMMA PlaceSetCoordinates ==
  ASSUME Placing, PlaceSet
  PROVE  PlacedCoordinates
<1> DEFINE inner == {c[i] : i \in 2..(r - 1)}
           z == ToSet(Vk.nodes)
<1>1. /\ y' = [v \in Nodes |-> IF v \in z THEN yz1 ELSE y[v]]
      /\ x' = [v \in Nodes |->
                 CASE v = Vk.nodes[1]           -> xz1
                   [] v \in z \ {Vk.nodes[1]}   -> 2
                   [] v \in inner -> Distance(At(c, v)) + Shift(At(c, v))
                   [] v = c[r]                  -> x_cr - (xz1 + 2 * (l - 1))
                   [] OTHER                     -> x[v]]
      /\ upper' = [v \in Nodes |-> IF v \in inner THEN Upper(At(c, v)) ELSE upper[v]]
  BY DEF PlaceSet
<1>2. PICK a, b \in 1..Len(contour) : SectionAt(a, b)
  BY PlacingFacts
<1>3. /\ \A i, j \in 1..r : c[i] = c[j] => i = j
      /\ \A i \in 1..r : At(c, c[i]) = i
      /\ \A q \in 1..Len(contour) : \A t \in 1..l : contour[q] # Vk.nodes[t]
      /\ \A s, t \in 1..l : Vk.nodes[s] = Vk.nodes[t] => s = t
  BY <1>2, SectionNodes
<1>4. /\ r \in Nat /\ r >= 2 /\ \A i \in 1..r : c[i] \in Nodes
  BY SectionSlopes
<1>5. l \in Nat \ {0} /\ Vk.nodes \in Path(Nodes) /\ Len(Vk.nodes) = l
  BY PlacingFacts DEF l
<1>6. /\ \A q \in 1..l : Vk.nodes[q] \in Nodes /\ Vk.nodes[q] \in z
      /\ \A v : v \in z <=> \E q \in 1..l : Vk.nodes[q] = v
  BY <1>5, PathIndices
<1> HIDE DEF z
<1>7. \A i \in 1..r : c[i] \notin z
  <2>1. ASSUME NEW i \in 1..r PROVE \E q \in 1..Len(contour) : c[i] = contour[q]
    <3>1. Len(contour) \in Nat
      BY PlacingFacts
    <3>2. a + i - 1 \in 1..Len(contour) /\ c[i] = contour[a + i - 1]
      BY <1>2, <3>1 DEF SectionAt
    <3> QED BY <3>2
  <2> QED BY <1>3, <1>6, <2>1
<1>8. /\ \A i \in 1..r : c[i] \in inner <=> i \in 2..(r - 1)
      /\ \A v \in z : v \notin inner /\ v # c[r]
  <2>1. \A i \in 2..(r - 1) : i \in 1..r
    BY <1>4
  <2>2. r \in 1..r
    BY <1>4
  <2>3. ASSUME NEW i \in 1..r, c[i] \in inner PROVE i \in 2..(r - 1)
    <3>1. PICK j \in 2..(r - 1) : c[i] = c[j]
      BY <2>3
    <3> QED BY <1>3, <2>1, <3>1
  <2>4. ASSUME NEW i \in 1..r, i \in 2..(r - 1) PROVE c[i] \in inner
    BY <2>4
  <2>5. ASSUME NEW v \in z PROVE v \notin inner /\ v # c[r]
    BY <1>7, <2>1, <2>2
  <2> HIDE DEF inner
  <2> QED BY <2>3, <2>4, <2>5
<1> HIDE DEF inner
<1>9. \A q \in 1..l : y'[Vk.nodes[q]] = yz1
  BY <1>1, <1>6
<1>10. x'[Vk.nodes[1]] = xz1
  <2>1. /\ Vk.nodes[1] \in Nodes /\ Vk.nodes[1] \notin z \ {Vk.nodes[1]}
        /\ Vk.nodes[1] \notin inner /\ Vk.nodes[1] # c[r]
    <3>1. 1 \in 1..l
      BY <1>5
    <3> QED BY <1>6, <1>8, <3>1
  <2> QED BY <1>1, <2>1
<1>11. ASSUME NEW q \in 2..l PROVE x'[Vk.nodes[q]] = 2
  <2>1. q \in 1..l /\ 1 \in 1..l /\ q # 1
    BY <1>5
  <2>2. /\ Vk.nodes[q] \in Nodes /\ Vk.nodes[q] \in z \ {Vk.nodes[1]} /\ Vk.nodes[q] # Vk.nodes[1]
        /\ Vk.nodes[q] \notin inner /\ Vk.nodes[q] # c[r]
    BY <1>3, <1>6, <1>8, <2>1
  <2> QED BY <1>1, <2>2
<1>12. 1 \in 1..l
  BY <1>5
<1>13. \A i \in 1..r : c[i] # Vk.nodes[1] /\ c[i] \in Nodes /\ c[i] \notin z
  BY <1>4, <1>6, <1>7, <1>12
<1>14. \A i \in 1..r : y'[c[i]] = y[c[i]]
  BY <1>1, <1>13
<1>15. x'[c[1]] = x[c[1]] /\ upper'[c[1]] = upper[c[1]]
  <2>1. 1 \in 1..r /\ r \in 1..r /\ 1 \notin 2..(r - 1) /\ 1 # r
    BY <1>4
  <2>2. c[1] \notin inner /\ c[1] # c[r]
    BY <1>3, <1>8, <2>1
  <2> QED BY <1>1, <1>13, <2>1, <2>2
<1>16. x'[c[r]] = x_cr - (xz1 + 2 * (l - 1)) /\ upper'[c[r]] = upper[c[r]]
  <2>1. r \in 1..r /\ r \notin 2..(r - 1)
    BY <1>4
  <2>2. c[r] \notin inner
    BY <1>8, <2>1
  <2> QED BY <1>1, <1>13, <2>1, <2>2
<1>17. ASSUME NEW i \in 2..(r - 1)
       PROVE  x'[c[i]] = Distance(i) + Shift(i) /\ upper'[c[i]] = Upper(i)
  <2>1. i \in 1..r
    BY <1>4
  <2>2. c[i] \in inner /\ At(c, c[i]) = i /\ c[i] # c[r] /\ c[i] \notin z \ {Vk.nodes[1]}
    <3>1. r \in 1..r /\ i # r
      BY <1>4
    <3> QED BY <1>3, <1>8, <1>13, <2>1, <3>1
  <2> QED BY <1>1, <1>13, <2>1, <2>2
<1>18. ASSUME NEW v \in Nodes \ {c[i] : i \in 1..r}
       PROVE  /\ upper'[v] = upper[v]
              /\ v \notin {Vk.nodes[q] : q \in 1..l} => x'[v] = x[v] /\ y'[v] = y[v]
  <2>1. v \notin inner
    <3>1. 2..(r - 1) \subseteq 1..r
      BY <1>4
    <3> QED BY <3>1 DEF inner
  <2>2. r \in 1..r
    BY <1>4
  <2>3. v # c[r]
    BY <2>2
  <2>4. ASSUME v \notin {Vk.nodes[q] : q \in 1..l} PROVE v \notin z /\ v # Vk.nodes[1]
    BY <1>6, <1>12, <2>4
  <2> QED BY <1>1, <2>1, <2>3, <2>4
<1>19. ToSet(Vk.nodes) = {Vk.nodes[q] : q \in 1..l}
  BY <1>6 DEF z
<1> QED BY <1>5, <1>9, <1>10, <1>11, <1>14, <1>15, <1>16, <1>17, <1>18, <1>19 DEF PlacedCoordinates

(* The places of cl and cr on the contour.                                 *)
LeftPlace == At(contour, Vk.left)
RightPlace == At(contour, Vk.right)

LEMMA SectionPlaces ==
  ASSUME Placing
  PROVE  /\ SectionAt(LeftPlace, RightPlace)
         /\ \A a, b : SectionAt(a, b) => a = LeftPlace /\ b = RightPlace
<1>1. contour \in Path(Nodes)
  BY PlacingFacts
<1>2. ASSUME NEW a, NEW b, SectionAt(a, b) PROVE a = LeftPlace /\ b = RightPlace
  <2>1. contour \in Path(Nodes) /\ FitsAt(contour, Vk, a, b)
    BY <1>1, <1>2 DEF SectionAt
  <2> QED BY <2>1, OnContourAt DEF LeftPlace, RightPlace
<1>3. \E a, b \in 1..Len(contour) : SectionAt(a, b)
  BY PlacingFacts
<1> QED BY <1>2, <1>3

(* A node of the contour keeps its coordinates, but for x between cl and   *)
(* cr.                                                                     *)
LEMMA OldPlaced ==
  ASSUME Placing, PlaceSet, NEW q \in 1..Len(contour)
  PROVE  /\ y'[contour[q]] = y[contour[q]]
         /\ q \notin (LeftPlace + 1)..RightPlace => x'[contour[q]] = x[contour[q]]
<1> DEFINE a == LeftPlace
           b == RightPlace
<1>1. SectionAt(a, b)
  BY SectionPlaces
<1>2. /\ a \in 1..Len(contour) /\ b \in 1..Len(contour) /\ a < b
      /\ r = b - a + 1 /\ r \in Nat /\ r >= 2
      /\ contour \in Path(Nodes) /\ Len(contour) \in Nat
  BY <1>1, PlacingFacts DEF SectionAt
<1>3. PlacedCoordinates
  BY PlaceSetCoordinates
<1> HIDE DEF a, b
<1>4. contour[q] \in Nodes /\ \A t \in 1..l : contour[q] # Vk.nodes[t]
  BY <1>1, <1>2, PathIndices, SectionNodes
<1>5. CASE contour[q] \in {c[i] : i \in 1..r}
  <2>1. PICK i \in 1..r : contour[q] = c[i]
    BY <1>5
  <2>2. q = a + i - 1
    BY <1>1, <2>1, SectionNodes
  <2>3. y'[contour[q]] = y[contour[q]]
    BY <1>3, <2>1 DEF PlacedCoordinates
  <2>4. ASSUME q \notin (a + 1)..b PROVE i = 1
    BY <1>2, <2>2, <2>4
  <2> QED BY <1>3, <2>1, <2>3, <2>4 DEF PlacedCoordinates, a, b
<1>6. CASE contour[q] \notin {c[i] : i \in 1..r}
  BY <1>3, <1>4, <1>6 DEF PlacedCoordinates
<1> QED BY <1>5, <1>6

(* How the new contour goes: two neighbours of the old one with their      *)
(* coordinates, or an edge of the set.                                     *)
OldPair(i) ==
  \E q \in 2..Len(contour) :
    /\ contour'[i - 1] = contour[q - 1] /\ contour'[i] = contour[q]
    /\ x'[contour[q]] = x[contour[q]]
    /\ y'[contour[q - 1]] = y[contour[q - 1]] /\ y'[contour[q]] = y[contour[q]]
    /\ q <= LeftPlace \/ q > RightPlace

NewPair(i) ==
  \/ contour'[i - 1] = c[1] /\ contour'[i] = Vk.nodes[1]
  \/ \E q \in 2..l : contour'[i - 1] = Vk.nodes[q - 1] /\ contour'[i] = Vk.nodes[q]
  \/ contour'[i - 1] = Vk.nodes[l] /\ contour'[i] = c[r]

LEMMA ContourPairs ==
  ASSUME Placing, PlaceSet
  PROVE  \A i \in 2..Len(contour') : OldPair(i) \/ NewPair(i)
<1>1. PICK a, b \in 1..Len(contour) : SectionAt(a, b)
  BY PlacingFacts
<1>2. /\ a \in 1..Len(contour) /\ b \in 1..Len(contour) /\ a < b
      /\ FitsAt(contour, Vk, a, b) /\ r = b - a + 1 /\ r \in Nat /\ r >= 2
      /\ \A i \in 1..r : c[i] = contour[a + i - 1] /\ a + i - 1 \in a..b
  BY <1>1 DEF SectionAt
<1>3. PutOnOK(Nodes, contour, Vk) /\ contour \in Path(Nodes) /\ Len(contour) \in Nat
  BY PlacingFacts
<1> DEFINE d == PutOn(contour, Vk)
<1>4. contour' = d
  BY DEF PlaceSet
<1>5. Spliced(Nodes, contour, Vk, a, b, d)
  <2>1. PutOnOK(Nodes, contour, Vk) /\ FitsAt(contour, Vk, a, b)
    BY <1>2, <1>3
  <2> QED BY <2>1, PutOnNodes
<1> HIDE DEF d
<1>6. /\ l \in Nat \ {0} /\ Len(d) \in Nat /\ Len(d) = a + l + (Len(contour) - b + 1)
      /\ \A q \in 1..a : d[q] = contour[q]
      /\ \A q \in 1..l : d[a + q] = Vk.nodes[q]
      /\ \A q \in b..Len(contour) : d[q - b + 1 + a + l] = contour[q]
  BY <1>5 DEF Spliced, l
<1>7. c[1] = contour[a] /\ c[r] = contour[b] /\ a \in Nat /\ b \in Nat
  <2>1. 1 \in 1..r /\ r \in 1..r /\ a + 1 - 1 = a /\ a + r - 1 = b
    BY <1>2
  <2>2. a \in Nat /\ b \in Nat
    BY <1>2, <1>3
  <2>3. c[1] = contour[a + 1 - 1] /\ c[r] = contour[a + r - 1]
    BY <1>2, <2>1
  <2> QED BY <2>1, <2>2, <2>3
<1>11. a = LeftPlace /\ b = RightPlace
  BY <1>1, SectionPlaces
<1>9. \A q \in 1..Len(contour) :
         /\ y'[contour[q]] = y[contour[q]]
         /\ q \notin (a + 1)..b => x'[contour[q]] = x[contour[q]]
  BY <1>11, OldPlaced
<1>10. ASSUME NEW i \in 2..Len(d) PROVE OldPair(i) \/ NewPair(i)
  <2>1. CASE i <= a
    <3>1. i \in 1..a /\ i - 1 \in 1..a /\ i \in 2..Len(contour) /\ i - 1 \in 1..Len(contour)
          /\ i \in 1..Len(contour) /\ i \notin (a + 1)..b
      BY <1>2, <1>3, <2>1
    <3>2. d[i] = contour[i] /\ d[i - 1] = contour[i - 1]
      BY <1>6, <3>1
    <3>3. /\ y'[contour[i]] = y[contour[i]] /\ y'[contour[i - 1]] = y[contour[i - 1]]
          /\ x'[contour[i]] = x[contour[i]]
      BY <1>9, <3>1
    <3> QED BY <1>4, <1>11, <2>1, <3>1, <3>2, <3>3 DEF OldPair
  <2>2. CASE i = a + 1
    <3>1. i - 1 = a /\ a \in 1..a /\ 1 \in 1..l
      BY <1>2, <1>6, <2>2, SMTT(20)
    <3> QED BY <1>4, <1>6, <1>7, <2>2, <3>1 DEF NewPair
  <2>3. CASE i \in (a + 2)..(a + l)
    <3> DEFINE q == i - a
    <3>1. q \in 2..l /\ q \in 1..l /\ q - 1 \in 1..l /\ i = a + q /\ i - 1 = a + (q - 1)
      BY <1>2, <1>6, <2>3
    <3> HIDE DEF q
    <3>2. contour'[i] = Vk.nodes[q] /\ contour'[i - 1] = Vk.nodes[q - 1]
      BY <1>4, <1>6, <3>1
    <3> QED BY <3>1, <3>2 DEF NewPair
  <2>4. CASE i = a + l + 1
    <3>1. i - 1 = a + l /\ l \in 1..l /\ i = b - b + 1 + a + l /\ b \in b..Len(contour)
      <4>1. /\ a \in Int /\ b \in Int /\ l \in Int /\ 1 <= l /\ Len(contour) \in Int
            /\ b <= Len(contour) /\ i \in Int
        BY <1>2, <1>3, <1>6, <1>7
      <4> QED BY <2>4, <4>1
    <3>2. contour'[i] = contour[b] /\ contour'[i - 1] = Vk.nodes[l]
      BY <1>4, <1>6, <3>1
    <3> QED BY <1>7, <3>2 DEF NewPair
  <2>5. CASE i >= a + l + 2
    <3> DEFINE q == i - a - l + b - 1
    <3>1. /\ q \in b..Len(contour) /\ q - 1 \in b..Len(contour) /\ q \in 2..Len(contour)
          /\ q \in 1..Len(contour) /\ q - 1 \in 1..Len(contour) /\ q \notin (a + 1)..b /\ q > b
          /\ i = q - b + 1 + a + l /\ i - 1 = (q - 1) - b + 1 + a + l
      BY <1>2, <1>3, <1>6, <2>5
    <3> HIDE DEF q
    <3>2. contour'[i] = contour[q] /\ contour'[i - 1] = contour[q - 1]
      BY <1>4, <1>6, <3>1
    <3> QED BY <1>9, <1>11, <3>1, <3>2 DEF OldPair
  <2>6. i \in Int /\ a \in Int /\ l \in Int
    BY <1>6, <1>7
  <2> QED BY <2>1, <2>2, <2>3, <2>4, <2>5, <2>6
<1> QED BY <1>4, <1>10

-----------------------------------------------------------------------------
(***************************************************************************)
(* Every step keeps the invariant.                                         *)
(***************************************************************************)
(* One pair of neighbours on the new contour.                              *)
NewSlope(i) ==
  LET u == contour'[i - 1]
      v == contour'[i]
      dx == x'[v]
      dy == y'[v] - y'[u]
  IN /\ dx > 0 /\ (dy \in {dx, - dx} \/ (dy = 0 /\ dx = 2))
     /\ (y'[u] < y'[v] => rank(u) < rank(v)) /\ (y'[u] > y'[v] => rank(u) > rank(v))

LEMMA PlaceSetSlopes ==
  ASSUME Placing, PlaceSet
  PROVE  \A i \in 2..Len(contour') : NewSlope(i)
<1>1. PlacedCoordinates
  BY PlaceSetCoordinates
<1>2. /\ xz1 \in Nat \ {0}
      /\ yz1 = y[c[1]] + xz1
      /\ x_cr - (xz1 + 2 * (l - 1)) = yz1 - y[c[r]]
      /\ \A i \in 1..r : y[c[i]] < yz1
  BY SetFits
<1>3. /\ r \in Nat /\ 1 \in 1..r /\ r \in 1..r /\ l \in Nat \ {0} /\ k \in Nat
      /\ 1 \in 1..l /\ l \in 1..l
      /\ y[c[1]] \in Nat /\ y[c[r]] \in Nat
  <2>1. r \in Nat /\ r >= 2 /\ l \in Nat \ {0} /\ k \in Nat
    BY SectionSlopes, PlacingFacts
  <2>2. 1 \in 1..r /\ r \in 1..r /\ 1 \in 1..l /\ l \in 1..l
    BY <2>1
  <2> QED BY <2>1, <2>2, SectionSlopes
<1>4. y[c[1]] < yz1 /\ y[c[r]] < yz1 /\ yz1 \in Nat
  BY <1>2, <1>3
<1>5. ASSUME NEW i \in 2..Len(contour'), OldPair(i) PROVE NewSlope(i)
  <2>1. PICK q \in 2..Len(contour) :
          /\ contour'[i - 1] = contour[q - 1] /\ contour'[i] = contour[q]
          /\ x'[contour[q]] = x[contour[q]]
          /\ y'[contour[q - 1]] = y[contour[q - 1]] /\ y'[contour[q]] = y[contour[q]]
    BY <1>5 DEF OldPair
  <2>2. LET u == contour[q - 1]
            v == contour[q]
            dx == x[v]
            dy == y[v] - y[u]
        IN /\ dx > 0 /\ (dy \in {dx, - dx} \/ (dy = 0 /\ dx = 2))
           /\ (y[u] < y[v] => rank(u) < rank(v)) /\ (y[u] > y[v] => rank(u) > rank(v))
    BY DEF Placing, LayoutInv, ContourSlopes, ContourRanks
  <2> QED BY <2>1, <2>2 DEF NewSlope
<1>6. ASSUME NEW i \in 2..Len(contour'), NewPair(i) PROVE NewSlope(i)
  <2>1. CASE contour'[i - 1] = c[1] /\ contour'[i] = Vk.nodes[1]
    <3>1. x'[contour'[i]] = xz1 /\ y'[contour'[i]] = yz1 /\ y'[contour'[i - 1]] = y[c[1]]
      BY <1>1, <1>3, <2>1 DEF PlacedCoordinates
    <3>2. rank(contour'[i]) = k + 1 /\ rank(contour'[i - 1]) \in 1..k
      BY <1>3, <2>1, SetRanks, SectionRanks
    <3>3. /\ xz1 > 0 /\ yz1 - y[c[1]] = xz1 /\ y[c[1]] < yz1 /\ ~ y[c[1]] > yz1
      BY <1>2, <1>3, <1>4, SMTT(20)
    <3>4. rank(contour'[i - 1]) < rank(contour'[i])
      BY <1>3, <3>2
    <3> QED BY <3>1, <3>3, <3>4 DEF NewSlope
  <2>2. CASE \E q \in 2..l : contour'[i - 1] = Vk.nodes[q - 1] /\ contour'[i] = Vk.nodes[q]
    <3>1. PICK q \in 2..l : contour'[i - 1] = Vk.nodes[q - 1] /\ contour'[i] = Vk.nodes[q]
      BY <2>2
    <3>2. q \in 1..l /\ q - 1 \in 1..l
      BY <1>3
    <3>3. x'[contour'[i]] = 2 /\ y'[contour'[i]] = yz1 /\ y'[contour'[i - 1]] = yz1
      BY <1>1, <3>1, <3>2, SMTT(20) DEF PlacedCoordinates
    <3> QED BY <1>4, <3>3 DEF NewSlope
  <2>3. CASE contour'[i - 1] = Vk.nodes[l] /\ contour'[i] = c[r]
    <3> DEFINE w == x_cr - (xz1 + 2 * (l - 1))
    <3>1. x'[contour'[i]] = w /\ y'[contour'[i]] = y[c[r]] /\ y'[contour'[i - 1]] = yz1
      BY <1>1, <1>3, <2>3 DEF PlacedCoordinates
    <3>2. rank(contour'[i - 1]) = k + 1 /\ rank(contour'[i]) \in 1..k
      BY <1>3, <2>3, SetRanks, SectionRanks
    <3>3. w = yz1 - y[c[r]]
      BY <1>2
    <3> HIDE DEF w
    <3>4. w > 0 /\ y[c[r]] - yz1 = - w /\ yz1 > y[c[r]] /\ ~ yz1 < y[c[r]]
      BY <1>3, <1>4, <3>3
    <3>5. rank(contour'[i - 1]) > rank(contour'[i])
      BY <1>3, <3>2
    <3> QED BY <3>1, <3>4, <3>5 DEF NewSlope
  <2> QED BY <1>6, <2>1, <2>2, <2>3 DEF NewPair
<1> QED BY <1>5, <1>6, ContourPairs

LEMMA PlaceSetUpper ==
  ASSUME Placing, PlaceSet
  PROVE  /\ upper' \in [Nodes -> Nodes \cup {None}]
         /\ \A v \in Nodes : upper'[v] # None => rank(upper'[v]) > rank(v)
<1>1. PlacedCoordinates
  BY PlaceSetCoordinates
<1>2. upper \in [Nodes -> Nodes \cup {None}]
  BY DEF Placing, LayoutInv, TypeOK
<1>3. \A v \in Nodes : upper[v] # None => rank(upper[v]) > rank(v)
  BY DEF Placing, LayoutInv, UpperIsLater
<1>4. /\ r \in Nat /\ r >= 2 /\ 1 \in 1..r /\ r \in 1..r /\ 1 \in 1..l /\ k \in Nat
      /\ \A i \in 1..r : c[i] \in Nodes
      /\ Vk.nodes[1] \in Nodes /\ rank(Vk.nodes[1]) = k + 1
  <2>1. r \in Nat /\ r >= 2 /\ l \in Nat \ {0} /\ k \in Nat /\ \A i \in 1..r : c[i] \in Nodes
    BY SectionSlopes, PlacingFacts
  <2>2. 1 \in 1..l
    BY <2>1
  <2> QED BY <2>1, <2>2, SetRanks
<1>5. ASSUME NEW i \in 2..(r - 1)
      PROVE  Upper(i) \in Nodes /\ rank(Upper(i)) > rank(c[i])
  <2>1. /\ i \in 1..r /\ i \in Int /\ alpha \in Int /\ beta \in Int
        /\ rank(c[i]) \in 1..k /\ rank(c[1]) \in 1..k /\ rank(c[r]) \in 1..k
    BY <1>4, SectionRanks, WalkFromLeft, WalkFromRight
  <2>2. CASE i <= alpha
    <3>1. Upper(i) = c[1]
      BY <2>1, <2>2 DEF Upper
    <3>2. i \in 2..alpha
      BY <2>1, <2>2
    <3>3. rank(c[i]) < rank(c[1])
      BY <3>2, SectionRanks
    <3> QED BY <1>4, <2>1, <3>1, <3>3
  <2>3. CASE i > alpha /\ i >= beta
    <3>1. Upper(i) = c[r] /\ i \in beta..(r - 1)
      BY <2>1, <2>3 DEF Upper
    <3>2. rank(c[i]) < rank(c[r])
      BY <3>1, SectionRanks
    <3> QED BY <1>4, <2>1, <3>1, <3>2
  <2>4. CASE ~ i <= alpha /\ ~ (i > alpha /\ i >= beta)
    <3>1. Upper(i) = Vk.nodes[1]
      BY <2>4 DEF Upper
    <3> QED BY <1>4, <2>1, <3>1
  <2> QED BY <2>2, <2>3, <2>4
<1>6. ASSUME NEW v \in Nodes
      PROVE  /\ upper'[v] \in Nodes \cup {None}
             /\ upper'[v] # None => rank(upper'[v]) > rank(v)
  <2>1. CASE \E i \in 2..(r - 1) : v = c[i]
    <3>1. PICK i \in 2..(r - 1) : v = c[i]
      BY <2>1
    <3>2. upper'[v] = Upper(i)
      BY <1>1, <3>1 DEF PlacedCoordinates
    <3> QED BY <1>5, <3>1, <3>2
  <2>2. CASE ~ \E i \in 2..(r - 1) : v = c[i]
    <3>1. \A i \in 1..r : v = c[i] => i = 1 \/ i = r
      BY <1>4, <2>2
    <3>2. upper'[v] = upper[v]
      BY <1>1, <3>1 DEF PlacedCoordinates
    <3> QED BY <1>2, <1>3, <3>2
  <2> QED BY <2>1, <2>2
<1>7. upper' = [v \in Nodes |-> upper'[v]]
  BY DEF PlaceSet
<1>8. upper' \in [Nodes -> Nodes \cup {None}]
  BY <1>6, <1>7
<1> QED BY <1>6, <1>8

LEMMA PlaceSetTypes ==
  ASSUME Placing, PlaceSet
  PROVE  x' \in [Nodes -> Int] /\ y' \in [Nodes -> Nat]
<1>1. PlacedCoordinates
  BY PlaceSetCoordinates
<1>2. x \in [Nodes -> Int] /\ y \in [Nodes -> Nat]
  BY DEF Placing, LayoutInv, TypeOK
<1>3. /\ offset \in Nat /\ x_cr \in Int /\ xz1 \in Nat \ {0} /\ yz1 = y[c[1]] + xz1
  BY SetFits
<1>4. /\ r \in Nat /\ r >= 2 /\ l \in Nat \ {0}
      /\ \A i \in 1..r : c[i] \in Nodes /\ y[c[i]] \in Nat
  BY SectionSlopes, PlacingFacts
<1>5. yz1 \in Nat /\ x_cr - (xz1 + 2 * (l - 1)) \in Int
  <2>1. 1 \in 1..r
    BY <1>4
  <2> QED BY <1>3, <1>4, <2>1
<1>6. PICK o \in Nat : offset = 2 * o
  BY SetFits
<1>7. \A i \in 1..r : Shift(i) \in Int
  BY <1>3, <1>6 DEF Shift
<1>8. ASSUME NEW v \in Nodes PROVE x'[v] \in Int /\ y'[v] \in Nat
  <2>1. CASE \E i \in 1..r : v = c[i]
    <3>1. PICK i \in 1..r : v = c[i]
      BY <2>1
    <3>2. y'[v] = y[v]
      BY <1>1, <3>1 DEF PlacedCoordinates
    <3>3. CASE i = 1
      BY <1>1, <1>2, <3>1, <3>2, <3>3 DEF PlacedCoordinates
    <3>4. CASE i = r
      BY <1>1, <1>2, <1>5, <3>1, <3>2, <3>4 DEF PlacedCoordinates
    <3>5. CASE i # 1 /\ i # r
      <4>1. i \in 2..(r - 1)
        BY <1>4, <3>5
      <4>2. x'[v] = Distance(i) + Shift(i)
        BY <1>1, <3>1, <4>1 DEF PlacedCoordinates
      <4>3. Distance(i) \in Int
        BY SectionDistances
      <4> QED BY <1>2, <1>7, <3>2, <4>2, <4>3
    <3> QED BY <3>3, <3>4, <3>5
  <2>2. CASE \E q \in 1..l : v = Vk.nodes[q]
    <3>1. PICK q \in 1..l : v = Vk.nodes[q]
      BY <2>2
    <3>2. y'[v] = yz1
      BY <1>1, <3>1 DEF PlacedCoordinates
    <3>3. CASE q = 1
      BY <1>1, <1>3, <1>5, <3>1, <3>2, <3>3, SMTT(20) DEF PlacedCoordinates
    <3>4. CASE q # 1
      <4>1. q \in 2..l
        BY <1>4, <3>4
      <4> QED BY <1>1, <1>5, <3>1, <3>2, <4>1 DEF PlacedCoordinates
    <3> QED BY <3>3, <3>4
  <2>3. CASE ~ (\E i \in 1..r : v = c[i]) /\ ~ \E q \in 1..l : v = Vk.nodes[q]
    BY <1>1, <1>2, <2>3 DEF PlacedCoordinates
  <2> QED BY <2>1, <2>2, <2>3
<1>9. x' = [v \in Nodes |-> x'[v]] /\ y' = [v \in Nodes |-> y'[v]]
  BY DEF PlaceSet
<1> QED BY <1>8, <1>9

LEMMA InitLayoutInv ==
  ASSUME LayoutInit
  PROVE  LayoutInv
<1>1. OrderInv /\ Init
  BY InitOrderInv DEF LayoutInit
<1>2. /\ phase = "peel" /\ order = << >> /\ k = 0 /\ contour = << >>
      /\ x = [v \in Nodes |-> 0] /\ y = [v \in Nodes |-> 0] /\ upper = [v \in Nodes |-> None]
  BY DEF LayoutInit, Init
<1>3. TypeOK
  <2>1. OrderTypeOK
    BY <1>1 DEF OrderInv
  <2>2. Len(order) = 0 /\ contour \in Seq(Nodes)
    BY <1>2, EmptySeq
  <2> QED BY <1>2, <2>1, <2>2 DEF TypeOK
<1> QED BY <1>1, <1>2, <1>3 DEF LayoutInv, ContourSlopes, UpperIsLater

LEMMA PlaceSetKeeps ==
  ASSUME LayoutInv, PlaceSet
  PROVE  LayoutInv'
<1>1. Placing
  BY DEF PlaceSet, Placing
<1>2. /\ k' = k + 1 /\ contour' = PutOn(contour, Vk)
      /\ UNCHANGED << phase, partition, order, crSets, outerfaceStack >>
      /\ phase = "sets"
  BY DEF PlaceSet, orderVars
<1>3. OrderInv'
  <2>1. [Next]_vars
    BY DEF Next
  <2> QED BY <2>1, NextOrderInv DEF LayoutInv
<1>4. /\ k \in Nat /\ k + 1 \in 2..Len(order) /\ Contours(order)[k + 1] = PutOn(contour, Vk)
      /\ PutOnOK(Nodes, contour, Vk)
  BY <1>1, PlacingFacts
<1>5. TypeOK'
  <2>1. OrderTypeOK'
    BY <1>3 DEF OrderInv
  <2>2. contour' \in Seq(Nodes)
    BY <1>2, <1>4, PutOnPath DEF Path
  <2>3. k' \in 0..Len(order')
    BY <1>2, <1>4
  <2> QED BY <1>1, <2>1, <2>2, <2>3, PlaceSetTypes, PlaceSetUpper DEF TypeOK
<1>6. k' \in 1..Len(order') /\ contour' = Contours(order')[k']
  BY <1>2, <1>4
<1>8. \A i \in 2..Len(contour') : NewSlope(i)
  BY <1>1, PlaceSetSlopes
<1>9. ContourSlopes'
  BY <1>8 DEF ContourSlopes, NewSlope
<1>10. ContourRanks'
  BY <1>2, <1>8 DEF ContourRanks, NewSlope, rank
<1>11. UpperIsLater'
  BY <1>1, <1>2, PlaceSetUpper DEF UpperIsLater, rank
<1> QED BY <1>2, <1>3, <1>5, <1>6, <1>9, <1>10, <1>11 DEF LayoutInv

LEMMA PlaceBaseKeeps ==
  ASSUME LayoutInv, PlaceBase
  PROVE  LayoutInv'
<1>1. /\ phase = "base" /\ phase' = "sets" /\ k' = 1 /\ contour' = V1.nodes
      /\ x' = [v \in Nodes |-> IF v \in 2..BaseLength THEN 2 ELSE 0]
      /\ UNCHANGED << partition, order, crSets, outerfaceStack, y, upper >>
  BY DEF PlaceBase
<1>2. OrderInv'
  <2>1. [Next]_vars
    BY DEF Next
  <2> QED BY <2>1, NextOrderInv DEF LayoutInv
<1>3. y = [v \in Nodes |-> 0] /\ upper = [v \in Nodes |-> None] /\ TypeOK
  BY <1>1 DEF LayoutInv
<1>4. /\ order \in Seq(ShellingOrderSet) /\ Len(order) \in Nat \ {0} /\ order[1] = V1
      /\ IsShelling(order) /\ PartitionOK /\ order[1].nodes \in Path(Nodes)
  <2>1. phase \notin {"peel", "leftmost"}
    BY <1>1
  <2>2. 1 \in 1..Len(order)
    BY <2>1, OrderFacts
  <2> QED BY <2>1, <2>2, OrderFacts
<1>5. contour' = Contours(order)[1]
  <2>1. Len(order) >= 1
    BY <1>4
  <2> QED BY <1>1, <1>4, <2>1, ContoursStep
<1>6. V1.nodes = [i \in 1..BaseLength |-> i] /\ BaseLength = Len(V1.nodes)
  BY <1>4 DEF PartitionOK, Base, BaseLength
<1>7. contour' \in Seq(Nodes) /\ Len(contour') = BaseLength /\ BaseLength \in Nat
  BY <1>1, <1>4, <1>6, PathIndices
<1>8. TypeOK'
  <2>1. OrderTypeOK'
    BY <1>2 DEF OrderInv
  <2>2. x' \in [Nodes -> Int]
    BY <1>1
  <2>3. k' \in 0..Len(order')
    BY <1>1, <1>4
  <2> QED BY <1>1, <1>3, <1>7, <2>1, <2>2, <2>3 DEF TypeOK
<1>9. ASSUME NEW i \in 2..Len(contour')
      PROVE  /\ x'[contour'[i]] = 2 /\ y'[contour'[i]] = 0 /\ y'[contour'[i - 1]] = 0
  <2>1. i \in 1..BaseLength /\ i - 1 \in 1..BaseLength /\ i \in 2..BaseLength
    BY <1>7
  <2>2. contour'[i] = i /\ contour'[i - 1] = i - 1
    BY <1>1, <1>6, <2>1
  <2>3. contour'[i] \in Nodes /\ contour'[i - 1] \in Nodes
    BY <1>7, <2>1, ElementOfSeq
  <2> QED BY <1>1, <1>3, <2>1, <2>2, <2>3
<1>10. ContourSlopes' /\ ContourRanks'
  BY <1>9 DEF ContourSlopes, ContourRanks
<1>11. UpperIsLater'
  BY <1>1, <1>3 DEF UpperIsLater
<1>12. k' \in 1..Len(order') /\ contour' = Contours(order')[k']
  BY <1>1, <1>4, <1>5
<1> QED BY <1>1, <1>2, <1>8, <1>10, <1>11, <1>12 DEF LayoutInv

LEMMA LaterUpper ==
  ASSUME LayoutInv, UNCHANGED << order, upper >>, phase \in {"sets", "inner", "drawn"}
  PROVE  UpperIsLater'
BY DEF LayoutInv, UpperIsLater, rank

LEMMA PlaceContourKeeps ==
  ASSUME LayoutInv, PlaceContour
  PROVE  LayoutInv'
<1>1. /\ phase = "sets" /\ phase' = "inner" /\ k = Len(order) /\ k' = k - 1
      /\ x' = [v \in Nodes |-> IF Contains(contour, v)
                               THEN SumUpTo(contour, At(contour, v)) ELSE x[v]]
      /\ UNCHANGED << partition, order, crSets, outerfaceStack, contour, y, upper >>
  BY DEF PlaceContour
<1>2. OrderInv'
  <2>1. [Next]_vars
    BY DEF Next
  <2> QED BY <2>1, NextOrderInv DEF LayoutInv
<1>3. /\ k \in 1..Len(order) /\ contour = Contours(order)[k] /\ TypeOK /\ IsShelling(order)
  BY <1>1, OrderFacts DEF LayoutInv
<1>4. contour \in Path(Nodes)
  BY <1>3, ShellingContours DEF IsShelling, ContourOf
<1>5. x' \in [Nodes -> Int]
  <2>1. ASSUME NEW v \in Nodes, Contains(contour, v) PROVE SumUpTo(contour, At(contour, v)) \in Int
    <3>1. v \in ToSet(contour) /\ Len(contour) \in Nat /\ contour \in Seq(Nodes)
      BY <1>4, <2>1, PathIndices DEF Contains
    <3>2. At(contour, v) \in 0..Len(contour)
      BY <1>4, <3>1, AtOfMember
    <3>3. x \in [Nodes -> Int]
      BY <1>3 DEF TypeOK
    <3> QED BY <3>1, <3>2, <3>3, SumSteps
  <2> QED BY <1>1, <1>3, <2>1 DEF TypeOK
<1>6. TypeOK'
  <2>1. OrderTypeOK'
    BY <1>2 DEF OrderInv
  <2>2. k' \in 0..Len(order')
    BY <1>1, <1>3
  <2> QED BY <1>1, <1>3, <1>5, <2>1, <2>2 DEF TypeOK
<1>7. UpperIsLater'
  BY <1>1, LaterUpper
<1> QED BY <1>1, <1>2, <1>6, <1>7 DEF LayoutInv, ContourSlopes

LEMMA PlaceInnerKeeps ==
  ASSUME LayoutInv, PlaceInner
  PROVE  LayoutInv'
<1>1. /\ phase = "inner" /\ k > 0 /\ k' = k - 1
      /\ x' = [v \in Nodes |-> IF Contains(order[FromTop].nodes, v) /\ upper[v] # None
                               THEN x[v] + x[upper[v]] ELSE x[v]]
      /\ UNCHANGED << phase, partition, order, crSets, outerfaceStack, contour, y, upper >>
  BY DEF PlaceInner, orderVars
<1>2. OrderInv'
  <2>1. [Next]_vars
    BY DEF Next
  <2> QED BY <2>1, NextOrderInv DEF LayoutInv
<1>3. TypeOK'
  <2>1. OrderTypeOK'
    BY <1>2 DEF OrderInv
  <2>2. TypeOK
    BY DEF LayoutInv
  <2>3. x' \in [Nodes -> Int]
    BY <1>1, <2>2 DEF TypeOK
  <2>4. Len(order) \in Nat
    BY <2>2, LenProperties DEF TypeOK, OrderTypeOK
  <2>5. k' \in 0..Len(order')
    BY <1>1, <2>2, <2>4 DEF TypeOK
  <2> QED BY <1>1, <2>1, <2>2, <2>3, <2>5 DEF TypeOK
<1>4. UpperIsLater'
  BY <1>1, LaterUpper
<1> QED BY <1>1, <1>2, <1>3, <1>4 DEF LayoutInv, ContourSlopes

LEMMA DrawnKeeps ==
  ASSUME LayoutInv, Drawn
  PROVE  LayoutInv'
<1>1. /\ phase = "inner" /\ phase' = "drawn"
      /\ UNCHANGED << partition, order, crSets, outerfaceStack, k, contour, x, y, upper >>
  BY DEF Drawn, layoutVars
<1>2. OrderInv'
  <2>1. [Next]_vars
    BY DEF Next
  <2> QED BY <2>1, NextOrderInv DEF LayoutInv
<1>3. TypeOK'
  BY <1>1, <1>2 DEF LayoutInv, TypeOK, OrderInv
<1>4. UpperIsLater'
  BY <1>1, LaterUpper
<1> QED BY <1>1, <1>2, <1>3, <1>4 DEF LayoutInv, ContourSlopes

(* While the order is computed the layout does not begin.                  *)
LEMMA OrderKeepsLayout ==
  ASSUME LayoutInv, OrderNext, UNCHANGED layoutVars
  PROVE  LayoutInv'
<1>1. OrderInv' /\ OrderTypeOK'
  BY OrderNextKeeps DEF LayoutInv, OrderInv
<1>2. /\ phase \in {"peel", "leftmost"} /\ phase' \in {"peel", "leftmost", "base"}
      /\ UNCHANGED << k, contour, x, y, upper >>
  BY DEF OrderNext, FindSet, InitLeftmost, PopNode, TakeSet, OrderDone, layoutVars
<1>3. Len(order') \in Nat /\ Len(order') >= Len(order) /\ Len(order) \in Nat
  <2>1. order \in Seq(ShellingOrderSet) /\ order' \in Seq(ShellingOrderSet)
    BY <1>1 DEF LayoutInv, OrderInv, OrderTypeOK
  <2>2. Len(order) \in Nat /\ Len(order') \in Nat
    BY <2>1, LenProperties
  <2>3. CASE TakeSet
    <3>1. PICK i : order' = Append(order, partition[i])
      BY <2>3 DEF TakeSet
    <3>2. Len(order') = Len(order) + 1
      BY <3>1, <2>1, AppendProperties
    <3> QED BY <2>2, <3>2
  <2>4. CASE InitLeftmost
    <3>1. order = << >>
      BY <2>4 DEF LayoutInv, OrderInv, InitLeftmost
    <3>2. Len(order) = 0
      BY <3>1, EmptySeq
    <3> QED BY <2>2, <3>2
  <2>5. CASE order' = order
    BY <2>2, <2>5
  <2> QED BY <2>3, <2>4, <2>5 DEF OrderNext, FindSet, PopNode, OrderDone
<1>4. TypeOK'
  <2>1. TypeOK
    BY DEF LayoutInv
  <2>2. k' \in 0..Len(order')
    BY <1>2, <1>3, <2>1 DEF TypeOK
  <2> QED BY <1>1, <1>2, <2>1, <2>2 DEF TypeOK
<1> QED BY <1>1, <1>2, <1>4 DEF LayoutInv, ContourSlopes, UpperIsLater

LEMMA StutterKeeps ==
  ASSUME LayoutInv, UNCHANGED vars
  PROVE  LayoutInv'
<1>1. UNCHANGED << phase, partition, order, crSets, outerfaceStack, k, contour, x, y, upper >>
  BY DEF vars, orderVars, layoutVars
<1>2. OrderInv'
  BY <1>1, OrderStutterKeeps DEF LayoutInv, orderVars
<1>3. TypeOK' /\ ContourSlopes'
  BY <1>1, <1>2 DEF LayoutInv, TypeOK, ContourSlopes, OrderInv
<1>5. ContourRanks => ContourRanks'
  BY <1>1 DEF ContourRanks, rank
<1>6. UpperIsLater'
  BY <1>1 DEF LayoutInv, UpperIsLater, rank
<1> QED BY <1>1, <1>2, <1>3, <1>5, <1>6 DEF LayoutInv

(* The invariant of the layout.                                            *)
THEOREM LayoutInvariant == Spec => []LayoutInv
<1>1. LayoutInit => LayoutInv
  BY InitLayoutInv
<1>2. LayoutInv /\ [Next]_vars => LayoutInv'
  BY OrderKeepsLayout, PlaceBaseKeeps, PlaceSetKeeps, PlaceContourKeeps, PlaceInnerKeeps,
     DrawnKeeps, StutterKeeps DEF Next
<1> QED BY <1>1, <1>2, PTL DEF Spec

(* The layout has the types of the code.                                   *)
THEOREM LayoutTypes == Spec => []TypeOK
<1>1. LayoutInv => TypeOK
  BY DEF LayoutInv
<1> QED BY <1>1, LayoutInvariant, PTL

(* The contour rises to the right with slopes +1, -1 or 0.                 *)
THEOREM ContourKeepsSlopes == Spec => []ContourSlopes
<1>1. LayoutInv => ContourSlopes
  BY DEF LayoutInv
<1> QED BY <1>1, LayoutInvariant, PTL

(* Every set finds integer coordinates, and the walks down from its left   *)
(* and right node stay in their section.                                   *)
THEOREM SectionsFit == Spec => []SectionFits
<1>1. LayoutInv => SectionFits
  BY InvSectionFits
<1> QED BY <1>1, LayoutInvariant, PTL

(* A covered node hangs on a node of a later set.                          *)
THEOREM UpperComesLater == Spec => []UpperIsLater
<1>1. LayoutInv => UpperIsLater
  BY DEF LayoutInv
<1> QED BY <1>1, LayoutInvariant, PTL

-----------------------------------------------------------------------------
(***************************************************************************)
(* The grid.  X gives every node its coordinate as if the layout ended     *)
(* now, root the node of the contour it hangs on, in one or more steps.    *)
(***************************************************************************)
PlacedNodes(n) == UNION {ToSet(order[j].nodes) : j \in 1..n}

Width(X) == X[contour[Len(contour)]]

(* A node hangs on another from when it is covered.                        *)
HangsOK(v) ==
  /\ v \in ToSet(contour) => upper[v] = None
  /\ v \notin PlacedNodes(k) => upper[v] = None /\ y[v] = 0 /\ x[v] = 0
  /\ (v \in PlacedNodes(k) /\ upper[v] = None) => v \in ToSet(contour)
  /\ upper[v] # None => upper[v] \in PlacedNodes(k)

Located(X, root) ==
  /\ X \in [Nodes -> Nat] /\ root \in [Nodes -> Nodes]
  /\ X[contour[1]] = 0 /\ x[contour[1]] = 0
  /\ \A i \in 2..Len(contour) : X[contour[i]] = X[contour[i - 1]] + x[contour[i]]
  /\ \A v \in Nodes :
       /\ X[v] <= Width(X) /\ 2 * y[v] <= Width(X)
       /\ v \notin PlacedNodes(k) => X[v] = 0
       /\ IF upper[v] = None THEN root[v] = v
          ELSE root[v] = root[upper[v]] /\ X[v] = x[v] + X[upper[v]]

(* Two columns for every node that is placed, but for the base one less    *)
(* than that, and then four less.                                          *)
WidthOK(X) ==
  Width(X) <= 2 * Cardinality(PlacedNodes(k)) - (IF k = 1 THEN 2 ELSE 4)

(* In the last phase X is fixed, and the nodes of the sets still to        *)
(* resolve have it relative to the node they hang on.                      *)
Resolved(X) ==
  LET width == X[V1.nodes[BaseLength]]
  IN /\ X \in [Nodes -> Nat]
     /\ width <= 2 * Found - 4
     /\ \A v \in Nodes :
          /\ X[v] <= width /\ 2 * y[v] <= width
          /\ IF upper[v] = None \/ v \notin PlacedNodes(k) THEN x[v] = X[v]
             ELSE X[v] = x[v] + X[upper[v]]

GridInv ==
  /\ LayoutInv
  /\ phase # "peel" => << Found, BaseLength >> \in Sizes
  /\ phase = "sets" =>
       /\ \A v \in Nodes : HangsOK(v)
       /\ y[contour[1]] = 0 /\ y[contour[Len(contour)]] = 0
       /\ k = 1 => y = [v \in Nodes |-> 0]
       /\ \E X, root : Located(X, root) /\ WidthOK(X)
  /\ phase \in {"inner", "drawn"} => \E X : Resolved(X)
  /\ phase = "drawn" => k = 0

-----------------------------------------------------------------------------
(***************************************************************************)
(* How far cr is shifted.                                                  *)
(***************************************************************************)
LEMMA ClimbToRight ==
  ASSUME Placing
  PROVE  \A i \in 1..r : Distance(r) - Distance(i) >= y[c[i]] - y[c[r]]
<1> DEFINE T == {i \in Int : Distance(r) - Distance(i) >= y[c[i]] - y[c[r]]}
<1>1. r \in Nat /\ r >= 2 /\ \A i \in 1..r : y[c[i]] \in Nat /\ Distance(i) \in Int
  BY SectionSlopes, SectionDistances
<1>2. r \in 1..r
  BY <1>1
<1>3. r \in T
  BY <1>1, <1>2
<1>4. ASSUME NEW i \in (1 + 1)..r, i \in T PROVE i - 1 \in T
  <2> DEFINE di == Distance(i)
             dj == Distance(i - 1)
             dr == Distance(r)
             yi == y[c[i]]
             yj == y[c[i - 1]]
             yr == y[c[r]]
             w == x[c[i]]
  <2>1. i \in 2..r /\ i \in 1..r /\ i - 1 \in 1..r
    BY <1>1
  <2>2. /\ di \in Int /\ dj \in Int /\ dr \in Int /\ yi \in Nat /\ yj \in Nat /\ yr \in Nat
    BY <1>1, <1>2, <2>1
  <2>3. w \in Nat \ {0} /\ (yi - yj = w \/ yi - yj = - w \/ (yi - yj = 0 /\ w = 2))
    BY <2>1, SectionSlopes
  <2>4. di = dj + w
    BY <2>1, SectionDistances
  <2>5. dr - di >= yi - yr
    BY <1>4
  <2> HIDE DEF di, dj, dr, yi, yj, yr, w
  <2>6. dr - dj >= yj - yr
    BY <2>2, <2>3, <2>4, <2>5
  <2> QED BY <2>1, <2>6 DEF dj, dr, yj, yr
<1>5. \A i \in 1..r : i \in T
  <2>1. 1 \in Int /\ r \in Int
    BY <1>1
  <2> HIDE DEF T
  <2> QED BY <1>3, <1>4, <2>1, Downwards
<1> QED BY <1>5

(* No set costs more than two columns for each of its nodes, and the first *)
(* costs two less.                                                         *)
LEMMA OffsetBound ==
  ASSUME Placing
  PROVE  /\ offset <= 2 * l
         /\ y = [v \in Nodes |-> 0] => offset <= 2 * l - 2
<1> DEFINE yl == y[c[1]]
           yr == y[c[r]]
           d == Distance(r)
<1>1. /\ r \in Nat /\ r >= 2 /\ 1 \in 1..r /\ r \in 1..r /\ l \in Nat \ {0}
      /\ \A i \in 1..r : c[i] \in Nodes /\ y[c[i]] \in Nat /\ Distance(i) \in Int
  <2>1. r \in Nat /\ r >= 2 /\ l \in Nat \ {0}
    BY SectionSlopes, PlacingFacts
  <2>2. 1 \in 1..r /\ r \in 1..r
    BY <2>1
  <2>3. \A i \in 1..r : c[i] \in Nodes /\ y[c[i]] \in Nat /\ Distance(i) \in Int
    BY SectionSlopes, SectionDistances
  <2> QED BY <2>1, <2>2, <2>3
<1>2. Missing = 2 * (yMax + l) - d - yl - yr
  BY DEF Missing
<1>3. offset = (IF EdgeInside THEN 2 ELSE 0) \/ offset = Missing
  BY SetFits
<1>4. yl \in Nat /\ yr \in Nat /\ d \in Int /\ yMax \in Nat
  BY <1>1, SectionTop
<1>5. 2 * yMax <= d + yl + yr
  <2>1. PICK i \in 1..r : yMax = y[c[i]]
    BY SectionTop
  <2>2. Distance(i) >= y[c[i]] - yl /\ d - Distance(i) >= y[c[i]] - yr
    BY SectionClimbs, ClimbToRight DEF EvenClimb
  <2>3. Distance(i) \in Int /\ y[c[i]] \in Nat
    BY <1>1
  <2> HIDE DEF yl, yr, d
  <2> QED BY <1>4, <2>1, <2>2, <2>3
<1>6. offset <= 2 * l
  <2> HIDE DEF yl, yr, d
  <2> QED BY <1>1, <1>2, <1>3, <1>4, <1>5
<1>7. ASSUME y = [v \in Nodes |-> 0] PROVE offset <= 2 * l - 2
  <2>1. \A i \in 1..r : y[c[i]] = 0
    BY <1>1, <1>7
  <2>2. ~ EdgeInside
    <3>1. 2 \in 1..r /\ r - 1 \in 1..r
      BY <1>1
    <3> QED BY <1>1, <2>1, <3>1 DEF EdgeInside
  <2>3. yMax = 0 /\ yl = 0 /\ yr = 0
    BY <1>1, <2>1, SectionTop
  <2>4. d >= 2
    <3>1. r \in 2..r /\ r - 1 \in 1..r
      BY <1>1
    <3>2. x[c[r]] = 2
      <4>1. /\ x[c[r]] \in Nat \ {0}
            /\ \/ y[c[r]] - y[c[r - 1]] = x[c[r]]
               \/ y[c[r]] - y[c[r - 1]] = - x[c[r]]
               \/ y[c[r]] - y[c[r - 1]] = 0 /\ x[c[r]] = 2
        BY <3>1, SectionSlopes
      <4>2. y[c[r]] = 0 /\ y[c[r - 1]] = 0
        BY <1>1, <2>1, <3>1
      <4> QED BY <4>1, <4>2
    <3>3. d = Distance(r - 1) + x[c[r]] /\ Distance(r - 1) \in Int
      BY <1>1, <3>1, SectionDistances
    <3>4. Distance(r - 1) >= 0
      <4>1. Distance(r - 1) >= y[c[1]] - y[c[r - 1]]
        BY <3>1, SectionClimbs DEF EvenClimb
      <4>2. y[c[1]] = 0 /\ y[c[r - 1]] = 0
        BY <1>1, <2>1, <3>1
      <4> QED BY <3>3, <4>1, <4>2
    <3> HIDE DEF d
    <3> QED BY <3>2, <3>3, <3>4
  <2> HIDE DEF yl, yr, d
  <2> QED BY <1>1, <1>2, <1>3, <1>4, <2>2, <2>3, <2>4
<1> QED BY <1>6, <1>7

-----------------------------------------------------------------------------
(***************************************************************************)
(* The nodes that are placed.                                              *)
(***************************************************************************)
LEMMA PlacedFinite ==
  ASSUME IsShelling(order), NEW n \in 1..Len(order)
  PROVE  /\ IsFiniteSet(PlacedNodes(n)) /\ Cardinality(PlacedNodes(n)) \in Nat
         /\ PlacedNodes(n) \subseteq Nodes
<1> DEFINE T == {m \in Int : IsFiniteSet(PlacedNodes(m))}
<1>1. Len(order) \in Nat /\ \A i \in 1..Len(order) : order[i].nodes \in Path(Nodes)
  BY ShellingContour DEF IsShelling, Shelling
<1>2. 0 \in T
  <2>1. PlacedNodes(0) = {}
    BY DEF PlacedNodes
  <2> QED BY <2>1, FS_EmptySet
<1>3. ASSUME NEW m \in 0..(n - 1), m \in T PROVE m + 1 \in T
  <2>1. m + 1 \in 1..Len(order)
    BY <1>1
  <2>2. PlacedNodes(m + 1) = PlacedNodes(m) \cup ToSet(order[m + 1].nodes)
    <3>1. 1..(m + 1) = 1..m \cup {m + 1}
      OBVIOUS
    <3>2. PlacedNodes(m + 1) = UNION {ToSet(order[j].nodes) : j \in 1..(m + 1)}
      BY DEF PlacedNodes
    <3>3. PlacedNodes(m) = UNION {ToSet(order[j].nodes) : j \in 1..m}
      BY DEF PlacedNodes
    <3> QED BY ONLY <3>1, <3>2, <3>3
  <2>3. IsFiniteSet(ToSet(order[m + 1].nodes))
    BY <1>1, <2>1, PathCardinality
  <2>4. IsFiniteSet(PlacedNodes(m))
    BY <1>3
  <2>6. IsFiniteSet(PlacedNodes(m) \cup ToSet(order[m + 1].nodes))
    BY <2>3, <2>4, FS_Union
  <2>5. IsFiniteSet(PlacedNodes(m + 1))
    BY <2>2, <2>6
  <2> QED BY <2>5
<1>4. n \in T
  <2>1. 0 \in Int /\ n \in Int /\ n \in 0..n
    OBVIOUS
  <2> HIDE DEF T
  <2> QED BY <1>2, <1>3, <2>1, Upwards
<1>5. PlacedNodes(n) \subseteq Nodes
  <2>1. \A j \in 1..n : ToSet(order[j].nodes) \subseteq Nodes
    BY <1>1, PathIndices
  <2> QED BY <2>1 DEF PlacedNodes
<1> QED BY <1>4, <1>5, FS_CardinalityType

LEMMA PlacedGrow ==
  ASSUME Placing
  PROVE  /\ PlacedNodes(k + 1) = PlacedNodes(k) \cup ToSet(Vk.nodes)
         /\ PlacedNodes(k) \cap ToSet(Vk.nodes) = {}
         /\ Cardinality(PlacedNodes(k + 1)) = Cardinality(PlacedNodes(k)) + l
         /\ Cardinality(PlacedNodes(k)) \in Nat
         /\ ToSet(contour) \subseteq PlacedNodes(k)
<1>1. /\ IsShelling(order) /\ k \in Nat /\ k \in 1..Len(order) /\ k + 1 \in 1..Len(order)
      /\ Len(order) \in Nat /\ contour = Contours(order)[k] /\ Vk = order[k + 1]
      /\ l \in Nat \ {0} /\ Vk.nodes \in Path(Nodes)
  BY OrderFacts, PlacingFacts DEF Placing, LayoutInv, Vk
<1>2. PlacedNodes(k + 1) = PlacedNodes(k) \cup ToSet(Vk.nodes)
  <2>1. \A j : j \in 1..(k + 1) <=> j \in 1..k \/ j = k + 1
    BY <1>1
  <2> QED BY <1>1, <2>1 DEF PlacedNodes
<1>3. PlacedNodes(k) \cap ToSet(Vk.nodes) = {}
  <2>1. ASSUME NEW j \in 1..k PROVE ToSet(order[j].nodes) \cap ToSet(order[k + 1].nodes) = {}
    <3>1. j \in 1..Len(order) /\ j # k + 1
      BY <1>1
    <3> QED BY <1>1, <3>1 DEF IsShelling, Shelling
  <2> QED BY <1>1, <2>1 DEF PlacedNodes
<1>4. /\ IsFiniteSet(PlacedNodes(k)) /\ Cardinality(PlacedNodes(k)) \in Nat
      /\ IsFiniteSet(ToSet(Vk.nodes)) /\ Cardinality(ToSet(Vk.nodes)) = l
  BY <1>1, PlacedFinite, PathCardinality DEF l
<1>5. Cardinality(PlacedNodes(k + 1)) = Cardinality(PlacedNodes(k)) + l
  <2>1. Cardinality(PlacedNodes(k) \cup ToSet(Vk.nodes))
          = Cardinality(PlacedNodes(k)) + Cardinality(ToSet(Vk.nodes))
              - Cardinality(PlacedNodes(k) \cap ToSet(Vk.nodes))
    BY <1>4, FS_Union
  <2>2. Cardinality(PlacedNodes(k) \cap ToSet(Vk.nodes)) = 0
    BY <1>3, FS_EmptySet
  <2> DEFINE p == Cardinality(PlacedNodes(k))
             n == Cardinality(PlacedNodes(k + 1))
  <2>3. n = p + l - 0
    BY <1>2, <1>4, <2>1, <2>2
  <2>4. p \in Nat
    BY <1>4
  <2> HIDE DEF p, n
  <2>5. n = p + l
    BY <1>1, <2>3, <2>4
  <2> QED BY <2>5 DEF p, n
<1>6. ToSet(contour) \subseteq PlacedNodes(k)
  <2>1. ContourOf(Nodes, order, k)
    BY <1>1, ShellingContours DEF IsShelling
  <2> QED BY <1>1, <2>1 DEF ContourOf, PlacedNodes
<1> QED BY <1>2, <1>3, <1>4, <1>5, <1>6

(* Every node of the order is a node of the graph.                         *)
LEMMA PlacedInGraph ==
  ASSUME LayoutInv, phase \notin {"peel", "leftmost"}, NEW n \in 1..Len(order)
  PROVE  /\ PlacedNodes(n) \subseteq 1..Found /\ Found \in Nat
         /\ Cardinality(PlacedNodes(n)) <= Found
<1>1. /\ IsShelling(order) /\ PartitionOK /\ OrderOK /\ Len(order) \in Nat
      /\ order[1] = partition[1]
  BY OrderFacts DEF LayoutInv, OrderInv
<1>2. Found \in Nat
  BY <1>1, NodesOfSize DEF PartitionOK
<1>3. ASSUME NEW i \in 1..Len(order)
      PROVE  \E j \in 1..Len(partition) : partition[j] = order[i]
  <2>1. Len(partition) \in Nat /\ Len(partition) >= 1
    BY <1>1, PartitionSets
  <2>2. CASE i = 1
    <3>1. 1 \in 1..Len(partition)
      BY <2>1
    <3> QED BY <1>1, <2>2, <3>1
  <2>3. CASE i # 1
    <3>1. i \in 2..Len(order)
      BY <1>1, <2>3
    <3>2. PICK j \in 2..Len(partition) : partition[j] = order[i]
      BY <1>1, <3>1 DEF OrderOK
    <3>3. j \in 1..Len(partition)
      BY <2>1
    <3> QED BY <3>2, <3>3
  <2> QED BY <2>2, <2>3
<1>4. PlacedNodes(n) \subseteq 1..Found
  <2> SUFFICES ASSUME NEW v \in PlacedNodes(n) PROVE v \in 1..Found
    OBVIOUS
  <2>1. PICK i \in 1..n : v \in ToSet(order[i].nodes)
    BY DEF PlacedNodes
  <2>2. i \in 1..Len(order)
    BY <1>1
  <2>3. PICK j \in 1..Len(partition) : partition[j] = order[i]
    BY <1>3, <2>2
  <2>4. v <= Found
    BY <1>1, <2>1, <2>3 DEF PartitionOK
  <2>5. v \in Nat \ {0}
    BY <1>1, PlacedFinite, NodesOfSize
  <2> QED BY <1>2, <2>4, <2>5
<1>5. Cardinality(PlacedNodes(n)) <= Found
  <2>1. IsFiniteSet(1..Found) /\ Cardinality(1..Found) = Found
    BY <1>2, FS_Interval
  <2> QED BY <1>4, <2>1, FS_Subset
<1> QED BY <1>2, <1>4, <1>5

-----------------------------------------------------------------------------
(***************************************************************************)
(* How far a set moves the nodes of the contour, and what hangs on them.   *)
(***************************************************************************)
Move(i) ==
  IF i <= alpha THEN (IF i = alpha THEN offset \div 2 ELSE 0)
  ELSE IF i >= beta THEN (IF i = beta THEN offset \div 2 ELSE offset)
  ELSE offset \div 2

MoveOf(u) ==
  IF u \notin ToSet(contour) \/ At(contour, u) <= LeftPlace THEN 0
  ELSE IF At(contour, u) >= RightPlace THEN offset
  ELSE Move(At(contour, u) - LeftPlace + 1)

(* A covered node moves the same way whichever node it is hung on.         *)
LEMMA MoveAndShift ==
  ASSUME Placing, NEW i \in 2..(r - 1)
  PROVE  /\ Move(i) \in 0..offset
         /\ \/ Upper(i) = c[1] /\ Shift(i) = Move(i)
            \/ Upper(i) = c[r] /\ Shift(i) = Move(i) - x_cr
            \/ Upper(i) = Vk.nodes[1] /\ Shift(i) = Move(i) - xz1
<1>1. /\ i \in Int /\ alpha \in Int /\ beta \in Int /\ offset \in Nat
      /\ x_cr \in Int /\ xz1 \in Int
  BY SectionSlopes, WalkFromLeft, WalkFromRight, SetFits
<1>2. PICK o \in Nat : offset = 2 * o
  BY SetFits
<1>3. offset \div 2 = o /\ o \in 0..offset
  BY <1>2
<1>4. Move(i) \in 0..offset
  BY <1>1, <1>3 DEF Move
<1>5. CASE i <= alpha
  BY <1>1, <1>4, <1>5 DEF Move, Shift, Upper
<1>6. CASE i > alpha /\ i >= beta
  BY <1>1, <1>4, <1>6 DEF Move, Shift, Upper
<1>7. CASE ~ i <= alpha /\ ~ (i > alpha /\ i >= beta)
  BY <1>1, <1>4, <1>7 DEF Move, Shift, Upper
<1> QED BY <1>1, <1>5, <1>6, <1>7

LEMMA MoveFacts ==
  ASSUME Placing
  PROVE  /\ \A v : MoveOf(v) \in 0..offset
         /\ \A v : v \notin ToSet(contour) => MoveOf(v) = 0
         /\ \A q \in 1..Len(contour) :
              /\ q <= LeftPlace => MoveOf(contour[q]) = 0
              /\ q >= RightPlace => MoveOf(contour[q]) = offset
         /\ MoveOf(c[1]) = 0 /\ MoveOf(c[r]) = offset
         /\ \A i \in 2..(r - 1) : MoveOf(c[i]) = Move(i)
<1> DEFINE a == LeftPlace
           b == RightPlace
<1>1. SectionAt(a, b)
  BY SectionPlaces
<1>2. /\ a \in 1..Len(contour) /\ b \in 1..Len(contour) /\ a < b
      /\ r = b - a + 1 /\ r \in Nat /\ r >= 2
      /\ contour \in Path(Nodes) /\ Len(contour) \in Nat
      /\ \A i \in 1..r : c[i] = contour[a + i - 1] /\ a + i - 1 \in a..b
  BY <1>1, PlacingFacts DEF SectionAt
<1>3. offset \in Nat
  BY SetFits
<1> HIDE DEF a, b
<1>4. \A v : MoveOf(v) =
        IF v \notin ToSet(contour) \/ At(contour, v) <= a THEN 0
        ELSE IF At(contour, v) >= b THEN offset
        ELSE Move(At(contour, v) - a + 1)
  BY DEF MoveOf, a, b
<1>5. \A q \in 1..Len(contour) : At(contour, contour[q]) = q /\ contour[q] \in ToSet(contour)
  BY <1>2, AtIndex, PathIndices
<1>6. ASSUME NEW v PROVE MoveOf(v) \in 0..offset
  <2>1. CASE v \in ToSet(contour) /\ ~ At(contour, v) <= a /\ ~ At(contour, v) >= b
    <3>1. At(contour, v) \in 1..Len(contour)
      BY <1>2, <2>1, AtOfMember
    <3>2. At(contour, v) - a + 1 \in 2..(r - 1)
      BY <1>2, <2>1, <3>1
    <3> QED BY <1>4, <2>1, <3>2, MoveAndShift
  <2>2. CASE ~ (v \in ToSet(contour) /\ ~ At(contour, v) <= a /\ ~ At(contour, v) >= b)
    BY <1>3, <1>4, <2>2
  <2> QED BY <2>1, <2>2
<1>7. \A v : v \notin ToSet(contour) => MoveOf(v) = 0
  BY <1>4
<1>8. ASSUME NEW q \in 1..Len(contour)
      PROVE  (q <= a => MoveOf(contour[q]) = 0) /\ (q >= b => MoveOf(contour[q]) = offset)
  BY <1>2, <1>4, <1>5
<1>9. c[1] = contour[a] /\ c[r] = contour[b]
  <2>1. 1 \in 1..r /\ r \in 1..r /\ a + 1 - 1 = a /\ a + r - 1 = b
    BY <1>2
  <2>2. c[1] = contour[a + 1 - 1] /\ c[r] = contour[a + r - 1]
    BY <1>2, <2>1
  <2> QED BY <2>1, <2>2
<1>10. MoveOf(c[1]) = 0 /\ MoveOf(c[r]) = offset
  <2>1. a <= a /\ b >= b
    BY <1>2
  <2> QED BY <1>2, <1>8, <1>9, <2>1
<1>11. ASSUME NEW i \in 2..(r - 1) PROVE MoveOf(c[i]) = Move(i)
  <2> DEFINE q == a + i - 1
  <2>1. i \in 1..r /\ q \in 1..Len(contour) /\ ~ q <= a /\ ~ q >= b /\ q - a + 1 = i
    BY <1>2
  <2>2. c[i] = contour[q]
    BY <1>2, <2>1
  <2> HIDE DEF q
  <2> QED BY <1>4, <1>5, <2>1, <2>2
<1> QED BY <1>6, <1>7, <1>8, <1>10, <1>11 DEF a, b

(* The coordinates along the section and the contour.                      *)
LEMMA SectionX ==
  ASSUME Placing, NEW X, NEW root, Located(X, root)
  PROVE  \A i \in 1..r : X[c[i]] = X[c[1]] + Distance(i)
<1> DEFINE T == {i \in Int : X[c[i]] = X[c[1]] + Distance(i)}
           a == LeftPlace
<1>1. SectionAt(a, RightPlace) /\ Len(contour) \in Nat
  BY SectionPlaces, PlacingFacts
<1>2. /\ a \in 1..Len(contour) /\ r = RightPlace - a + 1 /\ RightPlace \in 1..Len(contour)
      /\ \A i \in 1..r : c[i] = contour[a + i - 1]
  BY <1>1 DEF SectionAt
<1>3. r \in Nat /\ r >= 2 /\ \A i \in 1..r : c[i] \in Nodes
  BY SectionSlopes
<1>4. /\ Distance(1) = 0 /\ \A i \in 1..r : Distance(i) \in Int
      /\ \A i \in 2..r : Distance(i) = Distance(i - 1) + x[c[i]]
  BY SectionDistances
<1>5. \A i \in 1..r : X[c[i]] \in Int
  BY <1>3 DEF Located
<1> HIDE DEF a
<1>6. 1 \in T
  <2>1. 1 \in 1..r
    BY <1>3
  <2> QED BY <1>4, <1>5, <2>1
<1>7. ASSUME NEW i \in 1..(r - 1), i \in T PROVE i + 1 \in T
  <2> DEFINE q == a + i
  <2>1. /\ q \in 2..Len(contour) /\ q - 1 = a + i - 1 /\ q = a + (i + 1) - 1
        /\ i \in 1..r /\ i + 1 \in 1..r /\ i + 1 \in 2..r /\ (i + 1) - 1 = i /\ 1 \in 1..r
    BY <1>1, <1>2, <1>3
  <2>2. c[i + 1] = contour[q] /\ c[i] = contour[q - 1]
    BY <1>2, <2>1
  <2> HIDE DEF q
  <2>3. X[c[i + 1]] = X[c[i]] + x[c[i + 1]]
    BY <2>1, <2>2 DEF Located
  <2>4. Distance(i + 1) = Distance(i) + x[c[i + 1]]
    BY <1>4, <2>1
  <2>5. x[c[i + 1]] \in Int
    BY <2>1, SectionSlopes
  <2>6. X[c[i]] = X[c[1]] + Distance(i) /\ X[c[1]] \in Int /\ Distance(i) \in Int
    BY <1>4, <1>5, <1>7, <2>1
  <2>7. X[c[i + 1]] = X[c[1]] + Distance(i + 1)
    BY <2>3, <2>4, <2>5, <2>6
  <2> QED BY <2>7
<1>8. \A i \in 1..r : i \in T
  <2>1. 1 \in Int /\ r \in Int
    BY <1>3
  <2> HIDE DEF T
  <2> QED BY <1>6, <1>7, <2>1, Upwards
<1> QED BY <1>8

(* No node of the contour is higher than it is away from either end.       *)
LEMMA ContourHeights ==
  ASSUME LayoutInv, phase = "sets", contour \in Seq(Nodes), Len(contour) \in Nat \ {0},
         NEW X, NEW root, Located(X, root),
         y[contour[1]] = 0, y[contour[Len(contour)]] = 0
  PROVE  \A i \in 1..Len(contour) :
           y[contour[i]] <= X[contour[i]] /\ y[contour[i]] <= Width(X) - X[contour[i]]
<1> DEFINE n == Len(contour)
           T == {i \in Int : y[contour[i]] <= X[contour[i]]}
           U == {i \in Int : y[contour[i]] <= Width(X) - X[contour[i]]}
<1>1. \A i \in 1..n : contour[i] \in Nodes /\ y[contour[i]] \in Nat /\ X[contour[i]] \in Nat
  <2>1. y \in [Nodes -> Nat] /\ X \in [Nodes -> Nat]
    BY DEF LayoutInv, TypeOK, Located
  <2> QED BY <2>1, ElementOfSeq
<1>2. ASSUME NEW i \in 2..n
      PROVE  /\ i \in 1..n /\ i - 1 \in 1..n
             /\ y[contour[i]] - X[contour[i]] <= y[contour[i - 1]] - X[contour[i - 1]]
             /\ y[contour[i - 1]] + X[contour[i - 1]] <= y[contour[i]] + X[contour[i]]
  <2> DEFINE w == x[contour[i]]
             yi == y[contour[i]]
             yj == y[contour[i - 1]]
             xi == X[contour[i]]
             xj == X[contour[i - 1]]
  <2>1. i \in 1..n /\ i - 1 \in 1..n
    OBVIOUS
  <2>2. w > 0 /\ (yi - yj \in {w, - w} \/ (yi - yj = 0 /\ w = 2))
    BY DEF LayoutInv, ContourSlopes
  <2>3. xi = xj + w
    BY DEF Located
  <2>4. w \in Int /\ yi \in Nat /\ yj \in Nat /\ xi \in Nat /\ xj \in Nat
    BY <1>1, <2>1 DEF LayoutInv, TypeOK
  <2> HIDE DEF w, yi, yj, xi, xj
  <2>5. yi - xi <= yj - xj /\ yj + xj <= yi + xi
    BY <2>2, <2>3, <2>4
  <2> QED BY <2>1, <2>5 DEF yi, yj, xi, xj
<1>3. \A i \in 1..n : i \in T
  <2>1. 1 \in T
    <3>1. y[contour[1]] = 0 /\ X[contour[1]] = 0
      BY DEF Located
    <3> QED BY <3>1
  <2>2. ASSUME NEW i \in 1..(n - 1), i \in T PROVE i + 1 \in T
    <3>1. i + 1 \in 2..n /\ (i + 1) - 1 = i /\ i + 1 \in 1..n /\ i \in 1..n
      OBVIOUS
    <3>2. y[contour[i + 1]] - X[contour[i + 1]] <= y[contour[i]] - X[contour[i]]
      BY <1>2, <3>1
    <3> QED BY <1>1, <2>2, <3>1, <3>2
  <2>3. 1 \in Int /\ n \in Int
    OBVIOUS
  <2> HIDE DEF T
  <2> QED BY <2>1, <2>2, <2>3, Upwards
<1>4. \A i \in 1..n : i \in U
  <2>1. n \in U
    <3>1. Width(X) = X[contour[n]] /\ X[contour[n]] \in Nat
      BY <1>1 DEF Width
    <3> QED BY <3>1
  <2>2. ASSUME NEW i \in (1 + 1)..n, i \in U PROVE i - 1 \in U
    <3>1. /\ i \in 2..n /\ i \in 1..n /\ i - 1 \in 1..n
          /\ y[contour[i - 1]] + X[contour[i - 1]] <= y[contour[i]] + X[contour[i]]
      BY <1>2
    <3>2. Width(X) \in Int
      BY <1>1 DEF Width
    <3>3. /\ y[contour[i]] \in Int /\ y[contour[i - 1]] \in Int
          /\ X[contour[i]] \in Int /\ X[contour[i - 1]] \in Int
      BY <1>1, <3>1
    <3>4. y[contour[i]] <= Width(X) - X[contour[i]]
      BY <2>2
    <3>5. y[contour[i - 1]] <= Width(X) - X[contour[i - 1]]
      BY <3>1, <3>2, <3>3, <3>4, SMTT(20)
    <3> QED BY <3>1, <3>5
  <2>3. 1 \in Int /\ n \in Int
    OBVIOUS
  <2> HIDE DEF U
  <2> QED BY <2>1, <2>2, <2>3, Downwards
<1> QED BY <1>3, <1>4

-----------------------------------------------------------------------------
(***************************************************************************)
(* The coordinates after a set was placed: those of the set, and the       *)
(* others moved like the node of the contour they hang on.                 *)
(***************************************************************************)
NewX(X, root) ==
  [v \in Nodes |->
     IF v \in ToSet(Vk.nodes) THEN X[c[1]] + xz1 + 2 * (At(Vk.nodes, v) - 1)
     ELSE X[v] + MoveOf(root[v])]

NewRoot(root) ==
  [v \in Nodes |->
     IF root[v] \in {c[i] : i \in 2..(r - 1)} THEN Upper(At(c, root[v])) ELSE root[v]]

GridReady(X, root) ==
  /\ Placing
  /\ \A v \in Nodes : HangsOK(v)
  /\ y[contour[1]] = 0 /\ y[contour[Len(contour)]] = 0
  /\ Located(X, root)

(* The facts about the section that the following lemmas share.            *)
LEMMA SectionOnContour ==
  ASSUME Placing
  PROVE  /\ LeftPlace \in 1..Len(contour) /\ RightPlace \in 1..Len(contour)
         /\ LeftPlace < RightPlace /\ Len(contour) \in Nat
         /\ contour[LeftPlace] = c[1] /\ contour[RightPlace] = c[r]
         /\ \A i \in 1..r : c[i] \in Nodes /\ c[i] \in ToSet(contour) /\ c[i] \notin ToSet(Vk.nodes)
         /\ \A q \in 1..l : Vk.nodes[q] \in Nodes /\ Vk.nodes[q] \in ToSet(Vk.nodes)
         /\ \A q \in 1..Len(contour) : /\ contour[q] \in Nodes
                                       /\ contour[q] \in ToSet(contour)
                                       /\ contour[q] \notin ToSet(Vk.nodes)
         /\ 1 \in 1..r /\ r \in 1..r /\ 1 \in 1..l /\ l \in 1..l /\ r \in Nat /\ r >= 2 /\ l \in Nat
         /\ 1 \in 1..Len(contour) /\ Len(contour) \in 1..Len(contour)
<1> DEFINE a == LeftPlace
           b == RightPlace
<1>1. SectionAt(a, b) /\ contour \in Path(Nodes) /\ Len(contour) \in Nat
  BY SectionPlaces, PlacingFacts
<1>2. /\ a \in 1..Len(contour) /\ b \in 1..Len(contour) /\ a < b
      /\ r = b - a + 1 /\ \A i \in 1..r : c[i] = contour[a + i - 1] /\ a + i - 1 \in a..b
  BY <1>1 DEF SectionAt
<1>3. r \in Nat /\ r >= 2 /\ l \in Nat \ {0} /\ \A i \in 1..r : c[i] \in Nodes
  BY SectionSlopes, PlacingFacts
<1>4. 1 \in 1..r /\ r \in 1..r /\ 1 \in 1..l /\ l \in 1..l
  BY <1>3
<1> HIDE DEF a, b
<1>5. ToSet(Vk.nodes) \cap ToSet(contour) = {} /\ Vk.nodes \in Path(Nodes)
  BY PlacingFacts DEF PutOnOK
<1>6. \A q \in 1..Len(contour) : /\ contour[q] \in Nodes
                                 /\ contour[q] \in ToSet(contour)
                                 /\ contour[q] \notin ToSet(Vk.nodes)
  BY <1>1, <1>5, PathIndices
<1>7. \A i \in 1..r : c[i] \in ToSet(contour) /\ c[i] \notin ToSet(Vk.nodes)
  <2> SUFFICES ASSUME NEW i \in 1..r PROVE c[i] \in ToSet(contour) /\ c[i] \notin ToSet(Vk.nodes)
    OBVIOUS
  <2>1. a + i - 1 \in 1..Len(contour) /\ c[i] = contour[a + i - 1]
    BY <1>1, <1>2
  <2> QED BY <1>6, <2>1
<1>8. contour[a] = c[1] /\ contour[b] = c[r]
  <2>1. a + 1 - 1 = a /\ a + r - 1 = b
    BY <1>2, <1>3
  <2>2. c[1] = contour[a + 1 - 1] /\ c[r] = contour[a + r - 1]
    BY <1>2, <1>4
  <2> QED BY <2>1, <2>2
<1>9. \A q \in 1..l : Vk.nodes[q] \in Nodes /\ Vk.nodes[q] \in ToSet(Vk.nodes)
  BY <1>5, PathIndices DEF l
<1>10. 1 \in 1..Len(contour) /\ Len(contour) \in 1..Len(contour)
  BY <1>1, <1>2
<1> QED BY <1>1, <1>2, <1>3, <1>4, <1>6, <1>7, <1>8, <1>9, <1>10 DEF a, b

LEMMA NewXValues ==
  ASSUME NEW X, NEW root, GridReady(X, root), NEW Y, Y = NewX(X, root)
  PROVE  /\ \A q \in 1..l : Y[Vk.nodes[q]] = X[c[1]] + xz1 + 2 * (q - 1)
         /\ \A v \in Nodes \ ToSet(Vk.nodes) : Y[v] = X[v] + MoveOf(root[v])
         /\ \A v \in ToSet(contour) : root[v] = v /\ Y[v] = X[v] + MoveOf(v)
         /\ Y[c[1]] = X[c[1]] /\ Y[c[r]] = X[c[1]] + x_cr
         /\ \A i \in 2..(r - 1) : Y[c[i]] = X[c[1]] + Distance(i) + Move(i)
         /\ Y[contour[Len(contour)]] = Width(X) + offset
<1>1. Placing /\ Located(X, root) /\ \A v \in Nodes : HangsOK(v)
  BY DEF GridReady
<1>2. Vk.nodes \in Path(Nodes) /\ contour \in Path(Nodes)
  BY <1>1, PlacingFacts
<1>3. X \in [Nodes -> Nat] /\ root \in [Nodes -> Nodes]
  BY <1>1 DEF Located
<1>4. ASSUME NEW q \in 1..l PROVE Y[Vk.nodes[q]] = X[c[1]] + xz1 + 2 * (q - 1)
  <2>1. Vk.nodes[q] \in Nodes /\ Vk.nodes[q] \in ToSet(Vk.nodes)
    BY <1>1, SectionOnContour
  <2>2. At(Vk.nodes, Vk.nodes[q]) = q
    BY <1>2, AtIndex DEF l
  <2> QED BY <2>1, <2>2 DEF NewX
<1>5. \A v \in Nodes \ ToSet(Vk.nodes) : Y[v] = X[v] + MoveOf(root[v])
  BY DEF NewX
<1>6. ASSUME NEW v \in ToSet(contour) PROVE root[v] = v /\ Y[v] = X[v] + MoveOf(v)
  <2>1. v \in Nodes /\ v \notin ToSet(Vk.nodes)
    <3>1. PICK q \in 1..Len(contour) : v = contour[q]
      BY <1>2, PathIndices
    <3> QED BY <1>1, <3>1, SectionOnContour
  <2>2. root[v] = v
    BY <1>1, <2>1 DEF HangsOK, Located
  <2> QED BY <1>5, <2>1, <2>2
<1>7. /\ X[c[1]] \in Nat /\ offset \in Nat /\ \A i \in 1..r : Distance(i) \in Int
      /\ \A i \in 1..r : c[i] \in ToSet(contour) /\ 1 \in 1..r /\ r \in 1..r
  BY <1>1, <1>3, SectionOnContour, SectionDistances, SetFits
<1>8. Y[c[1]] = X[c[1]]
  <2>1. MoveOf(c[1]) = 0 /\ 1 \in 1..r
    BY <1>1, MoveFacts, SectionOnContour
  <2> QED BY <1>6, <1>7, <2>1
<1>9. Y[c[r]] = X[c[1]] + x_cr
  <2>1. MoveOf(c[r]) = offset /\ r \in 1..r
    BY <1>1, MoveFacts, SectionOnContour
  <2>2. Y[c[r]] = X[c[r]] + offset /\ X[c[r]] = X[c[1]] + Distance(r)
    BY <1>1, <1>6, <1>7, <2>1, SectionX
  <2>3. x_cr = Distance(r) + offset
    BY DEF x_cr
  <2> QED BY <1>7, <2>1, <2>2, <2>3
<1>10. ASSUME NEW i \in 2..(r - 1) PROVE Y[c[i]] = X[c[1]] + Distance(i) + Move(i)
  <2>1. i \in 1..r /\ MoveOf(c[i]) = Move(i)
    <3>1. r \in Nat
      BY <1>1, SectionOnContour
    <3> QED BY <1>1, <3>1, MoveFacts
  <2>2. X[c[i]] = X[c[1]] + Distance(i)
    BY <1>1, <2>1, SectionX
  <2> QED BY <1>6, <1>7, <2>1, <2>2
<1>11. Y[contour[Len(contour)]] = Width(X) + offset
  <2>1. Len(contour) \in 1..Len(contour) /\ Len(contour) >= RightPlace /\ contour[Len(contour)] \in ToSet(contour)
    BY <1>1, SectionOnContour
  <2>2. MoveOf(contour[Len(contour)]) = offset
    BY <1>1, <2>1, MoveFacts
  <2> QED BY <1>6, <2>1, <2>2 DEF Width
<1> QED BY <1>4, <1>5, <1>6, <1>8, <1>9, <1>10, <1>11

(* The set lies within the width, and is not higher than half of it.       *)
LEMMA NewXBounds ==
  ASSUME NEW X, NEW root, GridReady(X, root), NEW Y, Y = NewX(X, root)
  PROVE  /\ Y \in [Nodes -> Nat]
         /\ \A v \in Nodes : Y[v] <= Width(X) + offset
         /\ 2 * yz1 <= Width(X) + offset
<1>1. Placing /\ Located(X, root) /\ \A v \in Nodes : HangsOK(v)
  BY DEF GridReady
<1>2. /\ X \in [Nodes -> Nat] /\ root \in [Nodes -> Nodes]
      /\ \A v \in Nodes : X[v] <= Width(X) /\ X[v] \in Nat
  BY <1>1 DEF Located
<1>3. /\ xz1 \in Nat \ {0} /\ yz1 = y[c[1]] + xz1 /\ offset \in Nat /\ x_cr \in Int
      /\ x_cr - (xz1 + 2 * (l - 1)) = yz1 - y[c[r]] /\ y[c[r]] < yz1
      /\ x_cr = Distance(r) + offset
  <2>1. r \in 1..r
    BY <1>1, SectionOnContour
  <2> QED BY <1>1, <2>1, SetFits DEF x_cr
<1>4. /\ l \in Nat /\ l >= 1 /\ c[1] \in Nodes /\ c[r] \in Nodes
      /\ y[c[1]] \in Nat /\ y[c[r]] \in Nat /\ Distance(r) \in Int
  <2>1. 1 \in 1..r /\ r \in 1..r /\ l \in Nat /\ 1 \in 1..l
    BY <1>1, SectionOnContour
  <2>2. c[1] \in Nodes /\ c[r] \in Nodes /\ y[c[1]] \in Nat /\ y[c[r]] \in Nat
    BY <1>1, <2>1, SectionSlopes
  <2>3. Distance(r) \in Int
    BY <1>1, <2>1, SectionDistances
  <2> QED BY <2>1, <2>2, <2>3
<1>5. /\ y[c[1]] <= X[c[1]] /\ y[c[r]] <= Width(X) - X[c[r]]
      /\ X[c[r]] = X[c[1]] + Distance(r) /\ Width(X) \in Nat
  <2>1. /\ LeftPlace \in 1..Len(contour) /\ RightPlace \in 1..Len(contour)
        /\ contour[LeftPlace] = c[1] /\ contour[RightPlace] = c[r]
        /\ Len(contour) \in 1..Len(contour) /\ contour[Len(contour)] \in Nodes
        /\ Len(contour) \in Nat \ {0} /\ r \in 1..r
    BY <1>1, SectionOnContour
  <2>2. /\ LayoutInv /\ phase = "sets" /\ contour \in Seq(Nodes)
        /\ y[contour[1]] = 0 /\ y[contour[Len(contour)]] = 0
    BY <1>1, PlacingFacts DEF GridReady, Placing
  <2>3. \A i \in 1..Len(contour) :
          y[contour[i]] <= X[contour[i]] /\ y[contour[i]] <= Width(X) - X[contour[i]]
    BY <1>1, <2>1, <2>2, ContourHeights
  <2>4. X[c[r]] = X[c[1]] + Distance(r)
    BY <1>1, <2>1, SectionX
  <2>5. Width(X) \in Nat
    BY <1>2, <2>1 DEF Width
  <2> QED BY <2>1, <2>3, <2>4, <2>5
<1>6. X[c[1]] \in Nat /\ X[c[r]] \in Nat
  BY <1>2, <1>4
<1>7. 2 * yz1 <= Width(X) + offset
  BY <1>3, <1>4, <1>5, <1>6
<1>8. ASSUME NEW v \in Nodes PROVE Y[v] \in Nat /\ Y[v] <= Width(X) + offset
  <2>1. CASE v \in ToSet(Vk.nodes)
    <3>1. Vk.nodes \in Path(Nodes)
      BY <1>1, PlacingFacts
    <3>2. PICK q \in 1..l : v = Vk.nodes[q]
      BY <2>1, <3>1, PathIndices DEF l
    <3>3. Y[v] = X[c[1]] + xz1 + 2 * (q - 1) /\ q \in Nat /\ 1 <= q /\ q <= l
      BY <1>4, <3>2, NewXValues
    <3> QED BY <1>3, <1>4, <1>5, <1>6, <3>3
  <2>2. CASE v \notin ToSet(Vk.nodes)
    <3>1. Y[v] = X[v] + MoveOf(root[v])
      BY <2>2, NewXValues
    <3>2. MoveOf(root[v]) \in 0..offset
      BY <1>1, MoveFacts
    <3>3. X[v] \in Nat /\ X[v] <= Width(X)
      BY <1>2
    <3> QED BY <1>3, <1>5, <3>1, <3>2, <3>3
  <2> QED BY <2>1, <2>2
<1>9. Y = [v \in Nodes |-> Y[v]]
  BY DEF NewX
<1> QED BY <1>7, <1>8, <1>9

-----------------------------------------------------------------------------
(***************************************************************************)
(* What a set leaves of the contour, and the nodes it covers.              *)
(***************************************************************************)
Inner == {c[i] : i \in 2..(r - 1)}

LEMMA CoveredIsInner ==
  ASSUME Placing
  PROVE  ToSet(Covered(contour, Vk)) = Inner
<1> DEFINE a == LeftPlace
           b == RightPlace
           cov == Covered(contour, Vk)
<1>1. SectionAt(a, b)
  BY SectionPlaces
<1>2. /\ a \in 1..Len(contour) /\ b \in 1..Len(contour) /\ a < b
      /\ r = b - a + 1 /\ r \in Nat /\ FitsAt(contour, Vk, a, b)
      /\ contour \in Path(Nodes) /\ Len(contour) \in Nat
      /\ \A i \in 1..r : c[i] = contour[a + i - 1]
  BY <1>1, PlacingFacts DEF SectionAt
<1> HIDE DEF a, b
<1>3. BetweenPlaces(Nodes, contour, a, b, cov)
  BY <1>2, CoveredIndices
<1> HIDE DEF cov
<1>4. /\ cov \in Seq(Nodes) /\ Len(cov) = b - a - 1
      /\ \A i \in 1..(b - a - 1) : cov[i] = contour[a + i]
  BY <1>3 DEF BetweenPlaces
<1>5. DOMAIN cov = 1..(b - a - 1)
  BY <1>4, LenProperties
<1>6. ASSUME NEW v \in ToSet(cov) PROVE v \in Inner
  <2>1. PICK i \in 1..(b - a - 1) : v = cov[i]
    BY <1>5 DEF ToSet
  <2>2. i + 1 \in 2..(r - 1) /\ i + 1 \in 1..r /\ a + (i + 1) - 1 = a + i
    BY <1>2
  <2>3. c[i + 1] = v
    BY <1>2, <1>4, <2>1, <2>2
  <2> QED BY <2>2, <2>3 DEF Inner
<1>7. ASSUME NEW v \in Inner PROVE v \in ToSet(cov)
  <2>1. PICK i \in 2..(r - 1) : v = c[i]
    BY DEF Inner
  <2>2. i - 1 \in 1..(b - a - 1) /\ i \in 1..r /\ a + i - 1 = a + (i - 1)
    BY <1>2
  <2>3. cov[i - 1] = v
    BY <1>2, <1>4, <2>1, <2>2
  <2> QED BY <1>5, <2>2, <2>3 DEF ToSet
<1> QED BY <1>6, <1>7 DEF cov

LEMMA ContourAfter ==
  ASSUME Placing, PlaceSet
  PROVE  /\ order' = order /\ partition' = partition /\ k' = k + 1 /\ phase' = "sets"
         /\ PlacedNodes(k)' = PlacedNodes(k) \cup ToSet(Vk.nodes)
         /\ contour'[1] = contour[1] /\ contour'[Len(contour')] = contour[Len(contour)]
         /\ contour' \in Path(Nodes) /\ Len(contour') \in Nat /\ Len(contour') >= 2
         /\ ToSet(contour') = (ToSet(contour) \ Inner) \cup ToSet(Vk.nodes)
<1>1. /\ order' = order /\ partition' = partition /\ k' = k + 1 /\ phase' = "sets"
      /\ contour' = PutOn(contour, Vk)
  BY DEF PlaceSet, orderVars
<1>2. PlacedNodes(k)' = PlacedNodes(k + 1)
  BY <1>1 DEF PlacedNodes
<1>3. PlacedNodes(k + 1) = PlacedNodes(k) \cup ToSet(Vk.nodes)
  BY PlacedGrow
<1>4. PutOnOK(Nodes, contour, Vk)
  BY PlacingFacts
<1> DEFINE d == PutOn(contour, Vk)
<1>5. /\ d \in Path(Nodes) /\ ToSet(d) = (ToSet(contour) \ Inner) \cup ToSet(Vk.nodes)
      /\ Len(d) >= 2 /\ d[1] = contour[1] /\ d[Len(d)] = contour[Len(contour)]
  BY <1>4, PutOnPath, CoveredIsInner
<1> HIDE DEF d
<1>6. Len(d) \in Nat
  BY <1>5, PathIndices
<1>7. contour' = d
  BY <1>1 DEF d
<1> QED BY <1>1, <1>2, <1>3, <1>5, <1>6, <1>7

(* The coordinates relative to the left along the new contour.             *)
LEMMA ContourXAfter ==
  ASSUME NEW X, NEW root, GridReady(X, root), PlaceSet, NEW Y, Y = NewX(X, root)
  PROVE  /\ Y[contour'[1]] = 0 /\ x'[contour'[1]] = 0
         /\ Y[contour'[Len(contour')]] = Width(X) + offset
         /\ \A i \in 2..Len(contour') : Y[contour'[i]] = Y[contour'[i - 1]] + x'[contour'[i]]
<1>1. Placing /\ Located(X, root)
  BY DEF GridReady
<1>2. /\ contour'[1] = contour[1] /\ contour'[Len(contour')] = contour[Len(contour)]
  BY <1>1, ContourAfter
<1>3. /\ LeftPlace \in 1..Len(contour) /\ RightPlace \in 1..Len(contour)
      /\ LeftPlace < RightPlace /\ Len(contour) \in Nat
      /\ 1 \in 1..Len(contour) /\ 1 \in 1..r /\ r \in 1..r /\ 1 \in 1..l /\ l \in 1..l /\ l \in Nat
      /\ \A q \in 1..Len(contour) : contour[q] \in ToSet(contour) /\ contour[q] \in Nodes
      /\ c[1] \in Nodes /\ c[r] \in Nodes
  BY <1>1, SectionOnContour
<1>4. X \in [Nodes -> Nat] /\ x \in [Nodes -> Int]
  BY <1>1 DEF Located, Placing, LayoutInv, TypeOK
<1>5. offset \in Nat /\ xz1 \in Int /\ x_cr \in Int /\ X[c[1]] \in Int
  BY <1>1, <1>3, <1>4, SetFits, SMTT(20)
<1>6. \A q \in 1..Len(contour) :
        /\ Y[contour[q]] = X[contour[q]] + MoveOf(contour[q])
        /\ X[contour[q]] \in Int /\ x[contour[q]] \in Int
        /\ q <= LeftPlace => MoveOf(contour[q]) = 0
        /\ q >= RightPlace => MoveOf(contour[q]) = offset
  BY <1>1, <1>3, <1>4, NewXValues, MoveFacts
<1>7. Y[contour'[1]] = 0 /\ x'[contour'[1]] = 0
  <2>1. 1 <= LeftPlace /\ 1 \notin (LeftPlace + 1)..RightPlace
    BY <1>3
  <2>2. x'[contour[1]] = x[contour[1]]
    BY <1>1, <1>3, <2>1, OldPlaced
  <2>3. X[contour[1]] = 0 /\ x[contour[1]] = 0
    BY <1>1 DEF Located
  <2> QED BY <1>2, <1>3, <1>6, <2>1, <2>2, <2>3
<1>8. ASSUME NEW i \in 2..Len(contour')
      PROVE  Y[contour'[i]] = Y[contour'[i - 1]] + x'[contour'[i]]
  <2>1. CASE OldPair(i)
    <3>1. PICK q \in 2..Len(contour) :
            /\ contour'[i - 1] = contour[q - 1] /\ contour'[i] = contour[q]
            /\ x'[contour[q]] = x[contour[q]]
            /\ q <= LeftPlace \/ q > RightPlace
      BY <2>1 DEF OldPair
    <3>2. q \in 1..Len(contour) /\ q - 1 \in 1..Len(contour)
      BY <1>3
    <3>3. X[contour[q]] = X[contour[q - 1]] + x[contour[q]]
      BY <1>1 DEF Located
    <3>4. MoveOf(contour[q]) = MoveOf(contour[q - 1]) /\ MoveOf(contour[q]) \in Int
      <4>1. CASE q <= LeftPlace
        <5>1. q - 1 <= LeftPlace
          BY <1>3, <4>1
        <5> QED BY <1>6, <3>2, <4>1, <5>1
      <4>2. CASE q > RightPlace
        <5>1. q - 1 >= RightPlace /\ q >= RightPlace
          BY <1>3, <4>2
        <5> QED BY <1>5, <1>6, <3>2, <5>1
      <4> QED BY <3>1, <4>1, <4>2
    <3>5. /\ Y[contour[q]] = X[contour[q]] + MoveOf(contour[q])
          /\ Y[contour[q - 1]] = X[contour[q - 1]] + MoveOf(contour[q - 1])
          /\ X[contour[q - 1]] \in Int /\ x[contour[q]] \in Int
      BY <1>6, <3>2
    <3>6. Y[contour[q]] = Y[contour[q - 1]] + x[contour[q]]
      BY <3>3, <3>4, <3>5
    <3> QED BY <3>1, <3>6
  <2>2. CASE NewPair(i)
    <3>1. /\ \A q \in 1..l : Y[Vk.nodes[q]] = X[c[1]] + xz1 + 2 * (q - 1)
          /\ Y[c[1]] = X[c[1]] /\ Y[c[r]] = X[c[1]] + x_cr
      BY NewXValues
    <3>2. /\ x'[Vk.nodes[1]] = xz1 /\ \A q \in 2..l : x'[Vk.nodes[q]] = 2
          /\ x'[c[r]] = x_cr - (xz1 + 2 * (l - 1))
      BY <1>1, PlaceSetCoordinates DEF PlacedCoordinates
    <3>3. CASE contour'[i - 1] = c[1] /\ contour'[i] = Vk.nodes[1]
      <4>1. Y[Vk.nodes[1]] = X[c[1]] + xz1 + 2 * (1 - 1)
        BY <1>3, <3>1
      <4>2. Y[Vk.nodes[1]] = X[c[1]] + xz1
        BY <1>5, <4>1
      <4> QED BY <3>1, <3>2, <3>3, <4>2
    <3>4. CASE \E q \in 2..l : contour'[i - 1] = Vk.nodes[q - 1] /\ contour'[i] = Vk.nodes[q]
      <4>1. PICK q \in 2..l : contour'[i - 1] = Vk.nodes[q - 1] /\ contour'[i] = Vk.nodes[q]
        BY <3>4
      <4>2. q \in 1..l /\ q - 1 \in 1..l /\ q \in Int
        BY <1>3
      <4>3. /\ Y[Vk.nodes[q]] = X[c[1]] + xz1 + 2 * (q - 1)
            /\ Y[Vk.nodes[q - 1]] = X[c[1]] + xz1 + 2 * ((q - 1) - 1)
        BY <3>1, <4>2
      <4>4. Y[Vk.nodes[q]] = Y[Vk.nodes[q - 1]] + 2
        BY <1>5, <4>2, <4>3, SMTT(20)
      <4> QED BY <3>2, <4>1, <4>4
    <3>5. CASE contour'[i - 1] = Vk.nodes[l] /\ contour'[i] = c[r]
      <4>1. Y[Vk.nodes[l]] = X[c[1]] + xz1 + 2 * (l - 1)
        BY <1>3, <3>1
      <4>2. Y[c[r]] = Y[Vk.nodes[l]] + (x_cr - (xz1 + 2 * (l - 1)))
        BY <1>3, <1>5, <3>1, <4>1, SMTT(20)
      <4> QED BY <3>2, <3>5, <4>2
    <3> QED BY <2>2, <3>3, <3>4, <3>5 DEF NewPair
  <2> QED BY <1>1, <2>1, <2>2, ContourPairs
<1>9. Y[contour'[Len(contour')]] = Width(X) + offset
  BY <1>2, NewXValues
<1> QED BY <1>7, <1>8, <1>9

-----------------------------------------------------------------------------
(***************************************************************************)
(* What the nodes hang on after a set was placed.                          *)
(***************************************************************************)
LEMMA InnerFacts ==
  ASSUME Placing
  PROVE  /\ Inner \subseteq ToSet(contour) /\ ToSet(contour) \subseteq Nodes
         /\ ToSet(Vk.nodes) \cap ToSet(contour) = {} /\ ToSet(Vk.nodes) \subseteq Nodes
         /\ {c[1], c[r]} \subseteq ToSet(contour) /\ Vk.nodes[1] \in ToSet(Vk.nodes)
         /\ c[1] \notin Inner /\ c[r] \notin Inner
         /\ \A v \in Inner : /\ At(c, v) \in 2..(r - 1) /\ c[At(c, v)] = v
                             /\ Upper(At(c, v)) \in {c[1], c[r], Vk.nodes[1]}
<1>1. /\ \A i \in 1..r : c[i] \in ToSet(contour)
      /\ \A q \in 1..l : Vk.nodes[q] \in ToSet(Vk.nodes)
      /\ 1 \in 1..r /\ r \in 1..r /\ 1 \in 1..l /\ r \in Nat
  BY SectionOnContour
<1>2. \A i \in 2..(r - 1) : i \in 1..r /\ i # 1 /\ i # r
  BY <1>1
<1>3. /\ \A i, j \in 1..r : c[i] = c[j] => i = j
      /\ \A i \in 1..r : At(c, c[i]) = i
  BY SectionPlaces, SectionNodes
<1>4. /\ ToSet(Vk.nodes) \cap ToSet(contour) = {}
      /\ ToSet(contour) \subseteq Nodes /\ ToSet(Vk.nodes) \subseteq Nodes
  BY PlacingFacts, PathIndices, SMTT(20) DEF PutOnOK
<1>5. ASSUME NEW v \in Inner
      PROVE  /\ At(c, v) \in 2..(r - 1) /\ c[At(c, v)] = v
             /\ Upper(At(c, v)) \in {c[1], c[r], Vk.nodes[1]}
  <2>1. PICK i \in 2..(r - 1) : v = c[i]
    BY DEF Inner
  <2>2. At(c, v) = i
    BY <1>2, <1>3, <2>1
  <2>3. Upper(i) \in {c[1], c[r], Vk.nodes[1]}
    BY MoveAndShift
  <2> QED BY <2>1, <2>2, <2>3
<1>6. Inner \subseteq ToSet(contour)
  BY <1>1, <1>2 DEF Inner
<1>7. c[1] \notin Inner /\ c[r] \notin Inner
  BY <1>1, <1>2, <1>3 DEF Inner
<1> QED BY <1>1, <1>4, <1>5, <1>6, <1>7

LEMMA UpperAfter ==
  ASSUME Placing, PlaceSet, NEW v \in Nodes
  PROVE  /\ v \in Inner => upper'[v] = Upper(At(c, v))
                             /\ x'[v] = Distance(At(c, v)) + Shift(At(c, v))
         /\ v \notin Inner => upper'[v] = upper[v]
         /\ v \notin ToSet(contour) \cup ToSet(Vk.nodes) => x'[v] = x[v]
         /\ v \notin ToSet(Vk.nodes) => y'[v] = y[v]
         /\ v \in ToSet(Vk.nodes) => y'[v] = yz1
<1>1. PlacedCoordinates
  BY PlaceSetCoordinates
<1>2. \A i \in 1..r : c[i] \in ToSet(contour)
  BY SectionOnContour
<1>3. CASE v \in Inner
  <2>1. At(c, v) \in 2..(r - 1) /\ c[At(c, v)] = v /\ v \in ToSet(contour)
    BY <1>3, InnerFacts
  <2>2. /\ x'[c[At(c, v)]] = Distance(At(c, v)) + Shift(At(c, v))
        /\ upper'[c[At(c, v)]] = Upper(At(c, v))
    BY <1>1, <2>1 DEF PlacedCoordinates
  <2>3. v \notin ToSet(Vk.nodes)
    BY <2>1, InnerFacts
  <2>4. y'[v] = y[v]
    BY <2>3 DEF PlaceSet
  <2> QED BY <1>3, <2>1, <2>2, <2>3, <2>4
<1>4. CASE v \notin Inner
  <2>1. upper'[v] = upper[v]
    BY <1>4 DEF PlaceSet, Inner
  <2>2. y'[v] = IF v \in ToSet(Vk.nodes) THEN yz1 ELSE y[v]
    BY DEF PlaceSet
  <2>3. ASSUME v \notin ToSet(contour) \cup ToSet(Vk.nodes) PROVE x'[v] = x[v]
    <3>1. v \notin {c[i] : i \in 1..r} /\ v \notin {Vk.nodes[q] : q \in 1..l}
      BY <1>1, <1>2, <2>3 DEF PlacedCoordinates
    <3> QED BY <1>1, <3>1 DEF PlacedCoordinates
  <2> QED BY <1>4, <2>1, <2>2, <2>3
<1> QED BY <1>3, <1>4

LEMMA HangsAfter ==
  ASSUME Placing, PlaceSet, \A v \in Nodes : HangsOK(v), NEW v \in Nodes
  PROVE  HangsOK(v)'
<1> DEFINE z == ToSet(Vk.nodes)
           con == ToSet(contour)
           con2 == ToSet(contour')
           old == PlacedNodes(k)
           new == PlacedNodes(k)'
<1>1. /\ v \in con => upper[v] = None
      /\ v \notin old => upper[v] = None /\ y[v] = 0 /\ x[v] = 0
      /\ (v \in old /\ upper[v] = None) => v \in con
      /\ upper[v] # None => upper[v] \in old
  BY DEF HangsOK
<1>2. /\ Inner \subseteq con /\ con \subseteq Nodes /\ z \cap con = {} /\ z \subseteq Nodes
      /\ c[1] \in con /\ c[r] \in con /\ Vk.nodes[1] \in z
      /\ v \in Inner => Upper(At(c, v)) \in {c[1], c[r], Vk.nodes[1]}
  BY InnerFacts
<1>3. con \subseteq old /\ old \cap z = {}
  BY PlacedGrow
<1>4. new = old \cup z /\ con2 = (con \ Inner) \cup z
  BY ContourAfter
<1>5. /\ v \in Inner => upper'[v] = Upper(At(c, v))
      /\ v \notin Inner => upper'[v] = upper[v]
      /\ v \notin con \cup z => x'[v] = x[v]
      /\ v \notin z => y'[v] = y[v]
  BY UpperAfter
<1>6. None \notin con /\ None \notin z
  BY <1>2, NodesOfSize DEF None
<1> HIDE DEF z, con, con2, old, new
<1>7. /\ v \in con2 => upper'[v] = None
      /\ v \notin new => upper'[v] = None /\ y'[v] = 0 /\ x'[v] = 0
      /\ (v \in new /\ upper'[v] = None) => v \in con2
      /\ upper'[v] # None => upper'[v] \in new
  BY <1>1, <1>2, <1>3, <1>4, <1>5, <1>6
<1> QED BY <1>7 DEF HangsOK, con2, new

LEMMA RootAfter ==
  ASSUME NEW X, NEW root, GridReady(X, root), PlaceSet, NEW Y, Y = NewX(X, root),
         NEW R, R = NewRoot(root), NEW v \in Nodes
  PROVE  /\ R[v] \in Nodes
         /\ IF upper'[v] = None THEN R[v] = v
            ELSE R[v] = R[upper'[v]] /\ Y[v] = x'[v] + Y[upper'[v]]
<1> DEFINE z == ToSet(Vk.nodes)
           con == ToSet(contour)
           old == PlacedNodes(k)
<1>1. Placing /\ Located(X, root) /\ \A w \in Nodes : HangsOK(w)
  BY DEF GridReady
<1>2. /\ Inner \subseteq con /\ con \subseteq Nodes /\ z \cap con = {} /\ z \subseteq Nodes
      /\ c[1] \in con /\ c[r] \in con /\ Vk.nodes[1] \in z
      /\ c[1] \notin Inner /\ c[r] \notin Inner
      /\ v \in Inner => /\ At(c, v) \in 2..(r - 1) /\ c[At(c, v)] = v
                        /\ Upper(At(c, v)) \in {c[1], c[r], Vk.nodes[1]}
  BY <1>1, InnerFacts
<1>3. con \subseteq old /\ old \cap z = {} /\ old \subseteq Nodes
  <2>1. IsShelling(order) /\ k \in 1..Len(order)
    BY <1>1, OrderFacts DEF Placing, LayoutInv
  <2> QED BY <1>1, <2>1, PlacedGrow, PlacedFinite
<1>4. /\ v \in Inner => /\ upper'[v] = Upper(At(c, v))
                        /\ x'[v] = Distance(At(c, v)) + Shift(At(c, v))
      /\ v \notin Inner => upper'[v] = upper[v]
      /\ v \notin con \cup z => x'[v] = x[v]
  BY <1>1, UpperAfter
<1>5. None \notin Nodes
  BY NodesOfSize DEF None
<1>6. X \in [Nodes -> Nat] /\ root \in [Nodes -> Nodes] /\ x \in [Nodes -> Int]
  BY <1>1 DEF Located, Placing, LayoutInv, TypeOK
<1>7. \A w \in Nodes : R[w] = IF root[w] \in Inner THEN Upper(At(c, root[w])) ELSE root[w]
  BY DEF NewRoot, Inner
<1>8. /\ \A w \in con \cup z : upper[w] = None /\ root[w] = w
      /\ \A w \in (con \cup z) \ Inner : R[w] = w
  <2>1. \A w \in con \cup z : w \in Nodes /\ (w \in con \/ w \notin old)
    BY <1>2, <1>3
  <2>2. \A w \in con \cup z : upper[w] = None
    BY <1>1, <2>1 DEF HangsOK
  <2>3. \A w \in con \cup z : root[w] = w
    BY <1>1, <2>1, <2>2 DEF Located
  <2> QED BY <1>7, <2>1, <2>2, <2>3
<1>9. R[v] \in Nodes
  <2>1. CASE root[v] \in Inner
    <3>1. R[v] = Upper(At(c, root[v]))
      BY <1>7, <2>1
    <3>2. Upper(At(c, root[v])) \in {c[1], c[r], Vk.nodes[1]}
      BY <1>1, <2>1, InnerFacts
    <3> QED BY <1>2, <3>1, <3>2
  <2>2. CASE root[v] \notin Inner
    BY <1>6, <1>7, <2>2
  <2> QED BY <2>1, <2>2
<1>10. CASE v \in Inner
  <2> DEFINE i == At(c, v)
             u == Upper(i)
  <2>1. /\ i \in 2..(r - 1) /\ c[i] = v /\ u \in {c[1], c[r], Vk.nodes[1]}
        /\ upper'[v] = u /\ x'[v] = Distance(i) + Shift(i)
    BY <1>2, <1>4, <1>10
  <2> HIDE DEF i
  <2>2. u \in (con \cup z) \ Inner /\ v \in con /\ u # None
    BY <1>2, <1>5, <1>10, <2>1
  <2>3. R[v] = Upper(i) /\ R[u] = u
    BY <1>7, <1>8, <1>10, <2>2 DEF i
  <2>4. /\ \/ u = c[1] /\ Shift(i) = Move(i)
           \/ u = c[r] /\ Shift(i) = Move(i) - x_cr
           \/ u = Vk.nodes[1] /\ Shift(i) = Move(i) - xz1
        /\ Move(i) \in 0..offset
    BY <1>1, <2>1, MoveAndShift
  <2>5. /\ Y[Vk.nodes[1]] = X[c[1]] + xz1 /\ Y[c[1]] = X[c[1]] /\ Y[c[r]] = X[c[1]] + x_cr
        /\ Y[v] = X[c[1]] + Distance(i) + Move(i)
    <3>1. 1 \in 1..l
      BY <1>1, SectionOnContour
    <3>2. Y[Vk.nodes[1]] = X[c[1]] + xz1 + 2 * (1 - 1)
      BY <3>1, NewXValues
    <3>3. X[c[1]] \in Int /\ xz1 \in Int
      BY <1>1, <1>2, <1>6, SetFits
    <3>4. Y[c[i]] = X[c[1]] + Distance(i) + Move(i)
      BY <2>1, NewXValues
    <3> QED BY <2>1, <3>2, <3>3, <3>4, NewXValues
  <2>6. X[c[1]] \in Int /\ xz1 \in Int /\ x_cr \in Int /\ offset \in Nat /\ Distance(i) \in Int
    <3>1. i \in 1..r
      <4>1. r \in Nat
        BY <1>1, SectionOnContour
      <4> QED BY <2>1, <4>1
    <3> QED BY <1>1, <1>2, <1>6, <3>1, SetFits, SectionDistances
  <2>7. Y[v] = x'[v] + Y[u]
    <3> HIDE DEF u
    <3>1. Move(i) \in Int
      BY <2>4, <2>6
    <3> QED BY <2>1, <2>4, <2>5, <2>6, <3>1
  <2> QED BY <1>9, <2>1, <2>2, <2>3, <2>7
<1>11. CASE v \in (con \cup z) \ Inner
  BY <1>4, <1>8, <1>9, <1>11
<1>12. CASE v \notin con \cup z
  <2>1. upper'[v] = upper[v] /\ x'[v] = x[v]
    BY <1>2, <1>4, <1>12
  <2>2. CASE upper[v] = None
    <3>1. root[v] = v
      BY <1>1, <2>2 DEF Located
    <3> QED BY <1>2, <1>7, <1>9, <1>12, <2>1, <2>2, <3>1
  <2>3. CASE upper[v] # None
    <3> DEFINE u == upper[v]
    <3>1. u \in old /\ u \in Nodes /\ u \notin z /\ root[v] = root[u] /\ X[v] = x[v] + X[u]
      BY <1>1, <1>3, <2>3 DEF Located, HangsOK
    <3> HIDE DEF u
    <3>2. R[v] = R[u]
      BY <1>7, <3>1
    <3>3. Y[v] = X[v] + MoveOf(root[v]) /\ Y[u] = X[u] + MoveOf(root[u])
      BY <1>12, <3>1, NewXValues
    <3>4. MoveOf(root[u]) \in Int /\ X[u] \in Int /\ x[v] \in Int
      <4>1. MoveOf(root[u]) \in 0..offset
        BY <1>1, MoveFacts
      <4> QED BY <1>6, <3>1, <4>1
    <3>5. Y[v] = x[v] + Y[u]
      BY <3>1, <3>3, <3>4
    <3> QED BY <1>9, <2>1, <2>3, <3>2, <3>5 DEF u
  <2> QED BY <2>2, <2>3
<1> QED BY <1>10, <1>11, <1>12

-----------------------------------------------------------------------------
(***************************************************************************)
(* Every step keeps the invariant of the grid.                             *)
(***************************************************************************)
LEMMA LocatedAfter ==
  ASSUME NEW X, NEW root, GridReady(X, root), PlaceSet, NEW Y, Y = NewX(X, root),
         NEW R, R = NewRoot(root)
  PROVE  Located(Y, R)'
<1> DEFINE w == Width(X) + offset
<1>1. Placing /\ Located(X, root) /\ \A v \in Nodes : HangsOK(v)
  BY DEF GridReady
<1>2. /\ X \in [Nodes -> Nat] /\ root \in [Nodes -> Nodes] /\ y \in [Nodes -> Nat]
      /\ \A v \in Nodes : 2 * y[v] <= Width(X) /\ (v \notin PlacedNodes(k) => X[v] = 0)
  BY <1>1 DEF Located, Placing, LayoutInv, TypeOK
<1>3. /\ Y \in [Nodes -> Nat] /\ 2 * yz1 <= w /\ \A v \in Nodes : Y[v] <= w
  BY NewXBounds
<1>4. /\ Y[contour'[1]] = 0 /\ x'[contour'[1]] = 0
      /\ Y[contour'[Len(contour')]] = w
      /\ \A i \in 2..Len(contour') : Y[contour'[i]] = Y[contour'[i - 1]] + x'[contour'[i]]
  BY ContourXAfter
<1>5. Width(Y)' = w
  BY <1>4 DEF Width
<1>6. offset \in Nat /\ Width(X) \in Nat
  <2>1. offset \in Nat /\ Len(contour) \in 1..Len(contour)
    BY <1>1, SetFits, SectionOnContour
  <2>2. contour[Len(contour)] \in Nodes
    BY <1>1, <2>1, SectionOnContour
  <2> QED BY <1>2, <2>1, <2>2 DEF Width
<1>7. R \in [Nodes -> Nodes]
  <2>1. R = [v \in Nodes |-> R[v]]
    BY DEF NewRoot
  <2>2. \A v \in Nodes : R[v] \in Nodes
    BY RootAfter
  <2> QED BY <2>1, <2>2
<1>8. ASSUME NEW v \in Nodes
      PROVE  /\ Y[v] <= w /\ 2 * y'[v] <= w
             /\ v \notin PlacedNodes(k)' => Y[v] = 0
             /\ IF upper'[v] = None THEN R[v] = v
                ELSE R[v] = R[upper'[v]] /\ Y[v] = x'[v] + Y[upper'[v]]
  <2>1. 2 * y'[v] <= w
    <3>1. CASE v \in ToSet(Vk.nodes)
      BY <1>1, <1>3, <3>1, UpperAfter
    <3>2. CASE v \notin ToSet(Vk.nodes)
      <4>1. y'[v] = y[v] /\ y[v] \in Nat /\ 2 * y[v] <= Width(X)
        BY <1>1, <1>2, <3>2, UpperAfter
      <4> QED BY <1>6, <4>1
    <3> QED BY <3>1, <3>2
  <2>2. ASSUME v \notin PlacedNodes(k)' PROVE Y[v] = 0
    <3>1. v \notin PlacedNodes(k) /\ v \notin ToSet(Vk.nodes) /\ v \notin ToSet(contour)
      BY <1>1, <2>2, ContourAfter, PlacedGrow
    <3>2. root[v] = v /\ X[v] = 0
      BY <1>1, <1>2, <3>1 DEF Located, HangsOK
    <3>3. Y[v] = X[v] + MoveOf(v)
      BY <3>1, <3>2, NewXValues
    <3>4. MoveOf(v) = 0
      BY <1>1, <3>1, MoveFacts
    <3> QED BY <3>2, <3>3, <3>4
  <2> QED BY <1>3, <2>1, <2>2, RootAfter
<1> HIDE DEF w
<1> QED BY <1>3, <1>4, <1>5, <1>7, <1>8 DEF Located

LEMMA WidthAfter ==
  ASSUME NEW X, NEW root, GridReady(X, root), PlaceSet, NEW Y, Y = NewX(X, root),
         WidthOK(X), k = 1 => y = [v \in Nodes |-> 0]
  PROVE  WidthOK(Y)'
<1> DEFINE w == Width(X)
           n == Cardinality(PlacedNodes(k))
<1>1. Placing /\ X \in [Nodes -> Nat]
  BY DEF GridReady, Located
<1>2. /\ PlacedNodes(k)' = PlacedNodes(k) \cup ToSet(Vk.nodes) /\ k' = k + 1
      /\ PlacedNodes(k + 1) = PlacedNodes(k) \cup ToSet(Vk.nodes)
      /\ Cardinality(PlacedNodes(k + 1)) = n + l
      /\ n \in Nat /\ l \in Nat /\ k \in 1..Len(order)
  BY <1>1, ContourAfter, PlacedGrow, PlacingFacts DEF Placing, LayoutInv
<1>3. Cardinality(PlacedNodes(k))' = n + l
  BY <1>2
<1>4. Width(Y)' = w + offset
  BY ContourXAfter DEF Width
<1>5. w \in Nat /\ offset \in Nat
  <2>1. offset \in Nat /\ Len(contour) \in 1..Len(contour)
    BY <1>1, SetFits, SectionOnContour
  <2>2. contour[Len(contour)] \in Nodes
    BY <1>1, <2>1, SectionOnContour
  <2> QED BY <1>1, <2>1, <2>2 DEF Width
<1>6. w <= 2 * n - (IF k = 1 THEN 2 ELSE 4)
  BY DEF WidthOK
<1>7. offset <= 2 * l /\ (k = 1 => offset <= 2 * l - 2)
  BY <1>1, OffsetBound
<1>8. k' # 1 /\ k \in Nat
  BY <1>2
<1> HIDE DEF w, n
<1>9. w + offset <= 2 * (n + l) - 4
  BY <1>2, <1>5, <1>6, <1>7
<1> QED BY <1>3, <1>4, <1>8, <1>9 DEF WidthOK

LEMMA PlaceSetKeepsGrid ==
  ASSUME GridInv, PlaceSet
  PROVE  GridInv'
<1>1. LayoutInv' /\ Placing
  BY PlaceSetKeeps DEF GridInv, Placing, PlaceSet
<1>2. /\ << Found, BaseLength >> \in Sizes /\ \A v \in Nodes : HangsOK(v)
      /\ y[contour[1]] = 0 /\ y[contour[Len(contour)]] = 0
      /\ k = 1 => y = [v \in Nodes |-> 0]
  BY DEF GridInv, PlaceSet
<1>3. PICK X, root : Located(X, root) /\ WidthOK(X)
  BY DEF GridInv, PlaceSet
<1>4. GridReady(X, root)
  BY <1>1, <1>2, <1>3 DEF GridReady
<1>5. /\ partition' = partition /\ phase' = "sets" /\ k' = k + 1
      /\ contour'[1] = contour[1] /\ contour'[Len(contour')] = contour[Len(contour)]
  BY <1>1, ContourAfter
<1>6. << Found, BaseLength >>' \in Sizes
  BY <1>2, <1>5 DEF Found, BaseLength, V1
<1>7. \A v \in Nodes : HangsOK(v)'
  BY <1>1, <1>2, HangsAfter
<1>8. y'[contour'[1]] = 0 /\ y'[contour'[Len(contour')]] = 0
  <2>1. 1 \in 1..Len(contour) /\ Len(contour) \in 1..Len(contour)
    BY <1>1, SectionOnContour
  <2>2. y'[contour[1]] = y[contour[1]] /\ y'[contour[Len(contour)]] = y[contour[Len(contour)]]
    BY <1>1, <2>1, OldPlaced
  <2> QED BY <1>2, <1>5, <2>2
<1>9. k' # 1
  <2>1. k \in 1..Len(order)
    BY <1>1 DEF Placing, LayoutInv
  <2> QED BY <1>5, <2>1
<1>10. PICK Y : Y = NewX(X, root)
  OBVIOUS
<1>11. PICK R : R = NewRoot(root)
  OBVIOUS
<1>12. Located(Y, R)' /\ WidthOK(Y)'
  BY <1>2, <1>3, <1>4, <1>10, <1>11, LocatedAfter, WidthAfter
<1>13. \E Q, S : Located(Q, S)' /\ WidthOK(Q)'
  BY <1>12
<1> QED BY <1>1, <1>5, <1>6, <1>7, <1>8, <1>9, <1>13 DEF GridInv

LEMMA BaseOnGrid ==
  ASSUME LayoutInv, phase \notin {"peel", "leftmost"}, << Found, BaseLength >> \in Sizes
  PROVE  /\ V1.nodes = [i \in 1..BaseLength |-> i] /\ V1.nodes \in Path(Nodes)
         /\ BaseLength \in Nat /\ BaseLength >= 2 /\ Found \in Nat /\ BaseLength < Found
         /\ Len(V1.nodes) = BaseLength /\ ToSet(V1.nodes) = 1..BaseLength
         /\ V1.nodes[BaseLength] = BaseLength /\ BaseLength \in Nodes
         /\ order[1] = V1 /\ Len(order) \in Nat /\ Len(order) >= 2
<1>1. /\ IsShelling(order) /\ PartitionOK /\ Len(order) \in Nat \ {0}
      /\ order[1] = V1 /\ order[1] \in {order[i] : i \in 1..Len(order)}
      /\ \A i \in 1..Len(order) : order[i].nodes \in Path(Nodes)
  <2>1. /\ IsShelling(order) /\ PartitionOK /\ Len(order) \in Nat \ {0} /\ order[1] = V1
        /\ \A i \in 1..Len(order) : order[i].nodes \in Path(Nodes)
    BY OrderFacts
  <2>2. 1 \in 1..Len(order)
    BY <2>1
  <2> QED BY <2>1, <2>2
<1>2. V1.nodes = [i \in 1..BaseLength |-> i] /\ BaseLength = Len(V1.nodes)
  BY <1>1 DEF PartitionOK, Base, BaseLength
<1>3. Found \in Nat /\ BaseLength \in 2..(Found - 1)
  <2>1. /\ << Found, BaseLength >>[1] \in Nat
        /\ << Found, BaseLength >>[2] \in 2..(<< Found, BaseLength >>[1] - 1)
    BY OrderAssumption
  <2> QED BY <2>1
<1>4. V1.nodes \in Path(Nodes)
  BY <1>1
<1>5. ToSet(V1.nodes) = 1..BaseLength
  <2>1. \A v : v \in ToSet(V1.nodes) <=> \E i \in 1..Len(V1.nodes) : V1.nodes[i] = v
    BY <1>4, PathIndices
  <2>2. \A i \in 1..BaseLength : V1.nodes[i] = i
    BY <1>2
  <2>3. \A v : v \in ToSet(V1.nodes) <=> \E i \in 1..BaseLength : V1.nodes[i] = v
    BY <2>1 DEF BaseLength
  <2>4. \A v : v \in ToSet(V1.nodes) <=> v \in 1..BaseLength
    BY <2>2, <2>3
  <2> QED BY <2>4
<1>6. V1.nodes[BaseLength] = BaseLength /\ BaseLength \in Nodes
  <2>1. BaseLength \in 1..BaseLength
    BY <1>3
  <2>2. V1.nodes[BaseLength] \in Nodes
    BY <1>2, <1>4, <2>1, PathIndices
  <2> QED BY <1>2, <2>1, <2>2
<1>7. Len(order) # 1
  <2> SUFFICES ASSUME Len(order) = 1 PROVE FALSE
    OBVIOUS
  <2>1. Rest = {} /\ OrderOK
    BY DEF LayoutInv, OrderInv
  <2>2. Len(partition) = 1
    <3>1. Cardinality(Rest) = 0
      BY <2>1, FS_EmptySet
    <3> QED BY <2>1, <3>1 DEF OrderOK
  <2>3. Last(partition) = V1
    <3>1. partition[1] = V1
      BY <1>1, <2>1 DEF OrderOK
    <3> QED BY <2>2, <3>1 DEF Last
  <2>4. Found = BaseLength
    BY <1>2, <1>6, <2>3 DEF Found, Last
  <2> QED BY <1>3, <2>4
<1>8. Len(order) \in Nat /\ Len(order) >= 2
  <2> DEFINE n == Len(order)
  <2>1. n \in Nat \ {0} /\ n # 1
    BY <1>1, <1>7
  <2> HIDE DEF n
  <2>2. n \in Nat /\ n >= 2
    BY <2>1
  <2> QED BY <2>2 DEF n
<1>9. BaseLength \in Nat /\ BaseLength >= 2 /\ BaseLength < Found
  BY <1>3
<1> QED BY <1>1, <1>2, <1>3, <1>4, <1>5, <1>6, <1>8, <1>9

LEMMA PlaceBaseKeepsGrid ==
  ASSUME GridInv, PlaceBase
  PROVE  GridInv'
<1> DEFINE b == BaseLength
<1>1. LayoutInv' /\ LayoutInv /\ phase = "base" /\ << Found, BaseLength >> \in Sizes
  BY PlaceBaseKeeps DEF GridInv, PlaceBase
<1>2. /\ V1.nodes = [i \in 1..b |-> i] /\ V1.nodes \in Path(Nodes)
      /\ b \in Nat /\ b >= 2 /\ Len(V1.nodes) = b /\ ToSet(V1.nodes) = 1..b
      /\ order[1] = V1 /\ b \in Nodes
  BY <1>1, BaseOnGrid
<1>3. /\ phase' = "sets" /\ k' = 1 /\ contour' = V1.nodes
      /\ x' = [v \in Nodes |-> IF v \in 2..b THEN 2 ELSE 0]
      /\ UNCHANGED << partition, order, crSets, outerfaceStack, y, upper >>
  BY DEF PlaceBase
<1>4. y' = [v \in Nodes |-> 0] /\ upper' = [v \in Nodes |-> None]
  BY <1>1, <1>3 DEF LayoutInv
<1>5. << Found, BaseLength >>' \in Sizes
  BY <1>1, <1>3 DEF Found, BaseLength, V1
<1>6. PlacedNodes(k)' = 1..b
  <2>1. \A j : j \in 1..k' <=> j = 1
    BY <1>3
  <2> QED BY <1>2, <1>3, <2>1 DEF PlacedNodes
<1>7. /\ ToSet(contour') = 1..b /\ Len(contour') = b /\ Cardinality(1..b) = b
      /\ \A i \in 1..b : contour'[i] = i /\ i \in Nodes
  <2>1. Cardinality(1..b) = b
    BY <1>2, PathCardinality
  <2>2. \A i \in 1..b : V1.nodes[i] \in Nodes
    BY <1>2, PathIndices
  <2> QED BY <1>2, <1>3, <2>1, <2>2
<1> HIDE DEF b
<1>8. 1 \in 1..b /\ b \in 1..b /\ 1 \in Nodes
  BY <1>2, <1>7
<1>9. \A v \in Nodes : HangsOK(v)'
  <2> SUFFICES ASSUME NEW v \in Nodes PROVE HangsOK(v)'
    OBVIOUS
  <2>1. v \notin 1..b => v \notin 2..b
    OBVIOUS
  <2> QED BY <1>3, <1>4, <1>6, <1>7, <2>1 DEF HangsOK
<1>10. y'[contour'[1]] = 0 /\ y'[contour'[Len(contour')]] = 0
  BY <1>4, <1>7, <1>8
<1>11. PICK X : X = [v \in Nodes |-> IF v \in 2..b THEN 2 * (v - 1) ELSE 0]
  OBVIOUS
<1>12. PICK root : root = [v \in Nodes |-> v]
  OBVIOUS
<1>13. X[b] = 2 * b - 2
  <2>1. b \in 2..b
    BY <1>2
  <2>2. X[b] = 2 * (b - 1)
    BY <1>2, <1>11, <2>1
  <2> QED BY <1>2, <2>2
<1>14. Width(X)' = 2 * b - 2
  BY <1>7, <1>8, <1>13 DEF Width
<1>15. Located(X, root)'
  <2>1. X \in [Nodes -> Nat] /\ root \in [Nodes -> Nodes]
    <3>1. \A v \in 2..b : 2 * (v - 1) \in Nat
      BY <1>2
    <3> QED BY <1>11, <1>12, <3>1
  <2>2. X[contour'[1]] = 0 /\ x'[contour'[1]] = 0
    <3>1. contour'[1] = 1 /\ 1 \notin 2..b
      BY <1>7, <1>8
    <3> QED BY <1>3, <1>8, <1>11, <3>1
  <2>3. ASSUME NEW i \in 2..Len(contour')
        PROVE  X[contour'[i]] = X[contour'[i - 1]] + x'[contour'[i]]
    <3>1. i \in 1..b /\ i - 1 \in 1..b /\ i \in 2..b
      BY <1>2, <1>7
    <3>2. contour'[i] = i /\ contour'[i - 1] = i - 1 /\ i \in Nodes /\ i - 1 \in Nodes
      BY <1>7, <3>1
    <3>3. X[i] = 2 * (i - 1) /\ x'[i] = 2
      BY <1>3, <1>11, <3>1, <3>2
    <3>4. X[i - 1] = 2 * ((i - 1) - 1)
      <4>1. CASE i = 2
        <5>1. i - 1 \notin 2..b
          BY <4>1
        <5>2. X[i - 1] = 0
          BY <1>11, <3>2, <5>1
        <5> QED BY <4>1, <5>2
      <4>2. CASE i # 2
        <5>1. i - 1 \in 2..b
          BY <3>1, <4>2
        <5> QED BY <1>11, <3>2, <5>1
      <4> QED BY <4>1, <4>2
    <3>5. 2 * (i - 1) = 2 * ((i - 1) - 1) + 2
      BY <3>1
    <3> QED BY <3>2, <3>3, <3>4, <3>5
  <2>4. ASSUME NEW v \in Nodes
        PROVE  /\ X[v] <= 2 * b - 2 /\ 2 * y'[v] <= 2 * b - 2
               /\ v \notin 1..b => X[v] = 0
               /\ upper'[v] = None /\ root[v] = v
    <3>1. y'[v] = 0 /\ upper'[v] = None /\ root[v] = v
      BY <1>4, <1>12
    <3>2. X[v] <= 2 * b - 2
      <4>1. CASE v \in 2..b
        <5>1. X[v] = 2 * (v - 1) /\ v \in Int /\ v <= b
          BY <1>2, <1>11, <4>1
        <5> QED BY <1>2, <5>1
      <4>2. CASE v \notin 2..b
        BY <1>2, <1>11, <4>2
      <4> QED BY <4>1, <4>2
    <3>3. v \notin 1..b => X[v] = 0
      <4>1. v \notin 1..b => v \notin 2..b
        OBVIOUS
      <4> QED BY <1>11, <4>1
    <3>4. 2 * y'[v] <= 2 * b - 2
      BY <1>2, <3>1
    <3> QED BY <3>1, <3>2, <3>3, <3>4
  <2> QED BY <1>6, <1>14, <2>1, <2>2, <2>3, <2>4 DEF Located
<1>16. WidthOK(X)'
  <2>1. Cardinality(PlacedNodes(k))' = b /\ k' = 1
    BY <1>3, <1>6, <1>7
  <2>2. 2 * b - 2 <= 2 * b - 2
    BY <1>2
  <2> QED BY <1>14, <2>1, <2>2 DEF WidthOK
<1>17. \E Q, S : Located(Q, S)' /\ WidthOK(Q)'
  BY <1>15, <1>16
<1> QED BY <1>1, <1>3, <1>4, <1>5, <1>9, <1>10, <1>17 DEF GridInv

-----------------------------------------------------------------------------
(***************************************************************************)
(* The last phase gives the nodes the coordinates X one set at a time.     *)
(***************************************************************************)
LEMMA UpperNotPlaced ==
  ASSUME LayoutInv, phase \in {"sets", "inner", "drawn"}, NEW n \in 1..Len(order),
         NEW v \in ToSet(order[n].nodes), upper[v] # None
  PROVE  upper[v] \notin PlacedNodes(n)
<1>1. IsShelling(order) /\ Len(order) \in Nat
  BY OrderFacts
<1>2. rank(v) = n
  BY <1>1, RankIsPlace
<1>3. v \in Nodes
  <2>1. order[n].nodes \in Path(Nodes)
    BY <1>1 DEF IsShelling, Shelling
  <2> QED BY <2>1, PathIndices
<1>4. rank(upper[v]) > n
  BY <1>2, <1>3 DEF LayoutInv, UpperIsLater
<1>5. ASSUME NEW j \in 1..n, upper[v] \in ToSet(order[j].nodes) PROVE FALSE
  <2>1. j \in 1..Len(order)
    BY <1>1
  <2>2. rank(upper[v]) = j
    BY <1>1, <1>5, <2>1, RankIsPlace
  <2> QED BY <1>4, <2>2
<1> QED BY <1>5 DEF PlacedNodes

LEMMA PlacedStep ==
  ASSUME IsShelling(order), NEW n \in 1..Len(order)
  PROVE  /\ PlacedNodes(n) = PlacedNodes(n - 1) \cup ToSet(order[n].nodes)
         /\ PlacedNodes(n - 1) \cap ToSet(order[n].nodes) = {}
         /\ PlacedNodes(0) = {}
<1>1. Len(order) \in Nat
  BY ShellingContour
<1>2. PlacedNodes(n) = PlacedNodes(n - 1) \cup ToSet(order[n].nodes)
  <2>1. \A j : j \in 1..n <=> j \in 1..(n - 1) \/ j = n
    BY <1>1
  <2> QED BY <2>1 DEF PlacedNodes
<1>3. PlacedNodes(n - 1) \cap ToSet(order[n].nodes) = {}
  <2>1. ASSUME NEW j \in 1..(n - 1) PROVE ToSet(order[j].nodes) \cap ToSet(order[n].nodes) = {}
    <3>1. j \in 1..Len(order) /\ j # n
      BY <1>1
    <3> QED BY <3>1 DEF IsShelling, Shelling
  <2> QED BY <2>1 DEF PlacedNodes
<1>4. PlacedNodes(0) = {}
  BY DEF PlacedNodes
<1> QED BY <1>2, <1>3, <1>4

LEMMA SumIsX ==
  ASSUME LayoutInv, contour \in Seq(Nodes), NEW X, NEW root, Located(X, root),
         NEW i \in 1..Len(contour)
  PROVE  SumUpTo(contour, i) = X[contour[i]]
<1> DEFINE n == Len(contour)
           T == {j \in Int : SumUpTo(contour, j) = X[contour[j]]}
<1>1. n \in Nat /\ x \in [Nodes -> Int] /\ X \in [Nodes -> Nat]
  BY LenProperties DEF LayoutInv, TypeOK, Located
<1>2. /\ SumUpTo(contour, 0) = 0
      /\ \A j \in 1..n : SumUpTo(contour, j) = SumUpTo(contour, j - 1) + x[contour[j]]
  BY <1>1, SumSteps
<1>3. \A j \in 1..n : contour[j] \in Nodes
  BY ElementOfSeq
<1>4. 1 \in 1..n
  BY <1>1
<1>5. 1 \in T
  <2>1. SumUpTo(contour, 1) = SumUpTo(contour, 1 - 1) + x[contour[1]]
    BY <1>2, <1>4
  <2>2. X[contour[1]] = 0 /\ x[contour[1]] = 0
    BY DEF Located
  <2>3. SumUpTo(contour, 1 - 1) = 0
    BY <1>2
  <2>4. SumUpTo(contour, 1) = X[contour[1]]
    BY <2>1, <2>2, <2>3
  <2> QED BY <2>4
<1>6. ASSUME NEW j \in 1..(n - 1), j \in T PROVE j + 1 \in T
  <2>1. j + 1 \in 1..n /\ j + 1 \in 2..n /\ (j + 1) - 1 = j
    BY <1>1
  <2>2. SumUpTo(contour, j + 1) = SumUpTo(contour, j) + x[contour[j + 1]]
    BY <1>2, <2>1
  <2>3. X[contour[j + 1]] = X[contour[j]] + x[contour[j + 1]]
    BY <2>1 DEF Located
  <2>4. SumUpTo(contour, j) = X[contour[j]]
    BY <1>6
  <2> QED BY <2>1, <2>2, <2>3, <2>4
<1>7. \A j \in 1..n : j \in T
  <2>1. 1 \in Int /\ n \in Int
    BY <1>1
  <2> HIDE DEF T
  <2> QED BY <1>5, <1>6, <2>1, Upwards
<1> QED BY <1>7

(* The coordinates that were added up along the contour and the ways the   *)
(* covered nodes hang are those the last phase gives the nodes.            *)
LEMMA ContourResolves ==
  ASSUME GridInv, PlaceContour, NEW X, NEW root, Located(X, root), WidthOK(X)
  PROVE  Resolved(X)'
<1>1. /\ LayoutInv /\ LayoutInv' /\ phase = "sets" /\ k = Len(order)
      /\ << Found, BaseLength >> \in Sizes /\ \A v \in Nodes : HangsOK(v)
  BY PlaceContourKeeps DEF GridInv, PlaceContour
<1>2. /\ phase' = "inner" /\ k' = k - 1
      /\ x' = [v \in Nodes |-> IF Contains(contour, v)
                               THEN SumUpTo(contour, At(contour, v)) ELSE x[v]]
      /\ UNCHANGED << partition, order, crSets, outerfaceStack, contour, y, upper >>
  BY DEF PlaceContour
<1>3. Located(X, root) /\ WidthOK(X)
  OBVIOUS
<1>4. /\ IsShelling(order) /\ Len(order) \in Nat /\ k \in 1..Len(order)
      /\ contour = Contours(order)[k] /\ order[1] = V1 /\ Found \in Nat /\ Len(order) >= 2
      /\ BaseLength = Len(V1.nodes)
  BY <1>1, OrderFacts, BaseOnGrid DEF LayoutInv
<1>5. /\ contour \in Path(Nodes) /\ contour[Len(contour)] = V1.nodes[BaseLength]
      /\ contour \in Seq(Nodes) /\ DOMAIN contour = 1..Len(contour)
  <2>1. ContourOf(Nodes, order, k)
    BY <1>4, ShellingContours DEF IsShelling
  <2>2. contour \in Path(Nodes) /\ contour[Len(contour)] = V1.nodes[BaseLength]
    BY <1>4, <2>1 DEF ContourOf
  <2> QED BY <2>2, PathIndices
<1>6. Width(X) <= 2 * Found - 4
  <2> DEFINE w == Width(X)
             n == Cardinality(PlacedNodes(k))
  <2>1. k \in 1..Len(order) /\ phase \notin {"peel", "leftmost"}
    BY <1>1, <1>4
  <2>2. n <= Found
    BY <1>1, <2>1, PlacedInGraph
  <2>3. n \in Nat
    BY <1>4, <2>1, PlacedFinite
  <2>4. k # 1
    BY <1>1, <1>4
  <2>5. w <= 2 * n - 4
    BY <1>3, <2>4 DEF WidthOK
  <2>6. w \in Nat
    <3>1. V1.nodes[BaseLength] \in Nodes
      BY <1>1, BaseOnGrid
    <3> QED BY <1>3, <1>5, <3>1 DEF Width, Located
  <2> HIDE DEF w, n
  <2>7. w <= 2 * Found - 4
    BY <1>4, <2>2, <2>3, <2>5, <2>6
  <2> QED BY <2>7 DEF w
<1>7. (V1.nodes[BaseLength])' = V1.nodes[BaseLength] /\ Found' = Found
  BY <1>1, <1>2 DEF Found, BaseLength, V1
<1>8. Width(X) = X[V1.nodes[BaseLength]]
  BY <1>5 DEF Width
<1>9. PlacedNodes(k)' = PlacedNodes(k - 1)
  BY <1>2 DEF PlacedNodes
<1>10. ASSUME NEW v \in Nodes
       PROVE  /\ X[v] <= Width(X) /\ 2 * y'[v] <= Width(X)
              /\ IF upper'[v] = None \/ v \notin PlacedNodes(k - 1) THEN x'[v] = X[v]
                 ELSE X[v] = x'[v] + X[upper'[v]]
  <2>1. X[v] <= Width(X) /\ 2 * y'[v] <= Width(X)
    BY <1>2, <1>3 DEF Located
  <2>2. upper'[v] = upper[v]
    BY <1>2
  <2>3. Contains(contour, v) <=> v \in ToSet(contour)
    BY <1>5, PathIndices DEF Contains
  <2>4. CASE v \in ToSet(contour)
    <3>1. upper[v] = None
      BY <1>1, <2>4 DEF HangsOK
    <3>2. At(contour, v) \in 1..Len(contour) /\ contour[At(contour, v)] = v
      BY <1>5, <2>4, AtOfMember
    <3>3. SumUpTo(contour, At(contour, v)) = X[v]
      BY <1>1, <1>3, <1>5, <3>2, SumIsX
    <3>4. x'[v] = X[v]
      BY <1>2, <2>3, <2>4, <3>3
    <3> QED BY <2>1, <2>2, <3>1, <3>4
  <2>5. CASE v \notin ToSet(contour) /\ upper[v] = None
    <3>1. v \notin PlacedNodes(k) /\ x[v] = 0 /\ X[v] = 0
      BY <1>1, <1>3, <2>5 DEF HangsOK, Located
    <3>2. x'[v] = x[v]
      BY <1>2, <2>3, <2>5
    <3> QED BY <2>1, <2>2, <2>5, <3>1, <3>2
  <2>6. CASE v \notin ToSet(contour) /\ upper[v] # None
    <3>1. x'[v] = x[v]
      BY <1>2, <2>3, <2>6
    <3>2. X[v] = x[v] + X[upper[v]]
      BY <1>3, <2>6 DEF Located
    <3>3. v \in PlacedNodes(k - 1)
      <4>1. v \in PlacedNodes(k) /\ upper[v] \in PlacedNodes(k)
        BY <1>1, <2>6 DEF HangsOK
      <4>2. v \notin ToSet(order[k].nodes)
        BY <1>1, <1>4, <2>6, <4>1, UpperNotPlaced
      <4> QED BY <1>4, <4>1, <4>2, PlacedStep
    <3> QED BY <2>1, <2>2, <2>6, <3>1, <3>2, <3>3
  <2> QED BY <2>4, <2>5, <2>6
<1>11. Resolved(X)'
  <2>1. X \in [Nodes -> Nat]
    BY <1>3 DEF Located
  <2> QED BY <1>6, <1>7, <1>8, <1>9, <1>10, <2>1 DEF Resolved
<1> QED BY <1>11

LEMMA PlaceContourKeepsGrid ==
  ASSUME GridInv, PlaceContour
  PROVE  GridInv'
<1>1. /\ LayoutInv' /\ phase = "sets" /\ << Found, BaseLength >> \in Sizes
  BY PlaceContourKeeps DEF GridInv, PlaceContour
<1>2. phase' = "inner" /\ partition' = partition
  BY DEF PlaceContour
<1>3. << Found, BaseLength >>' \in Sizes
  BY <1>1, <1>2 DEF Found, BaseLength, V1
<1>4. PICK X, root : Located(X, root) /\ WidthOK(X)
  BY <1>1 DEF GridInv
<1>5. Resolved(X)'
  BY <1>4, ContourResolves
<1>6. \E Q : Resolved(Q)'
  BY <1>5
<1> QED BY <1>1, <1>2, <1>3, <1>6 DEF GridInv

LEMMA InnerResolves ==
  ASSUME GridInv, PlaceInner, NEW X, Resolved(X)
  PROVE  Resolved(X)'
<1>1. /\ LayoutInv /\ LayoutInv' /\ phase = "inner" /\ k > 0
      /\ << Found, BaseLength >> \in Sizes
  BY PlaceInnerKeeps DEF GridInv, PlaceInner
<1>2. /\ phase' = "inner" /\ k' = k - 1
      /\ x' = [v \in Nodes |-> IF Contains(order[k].nodes, v) /\ upper[v] # None
                               THEN x[v] + x[upper[v]] ELSE x[v]]
      /\ UNCHANGED << partition, order, y, upper >>
  BY DEF PlaceInner, FromTop, orderVars
<1>3. Resolved(X)
  OBVIOUS
<1>4. /\ IsShelling(order) /\ Len(order) \in Nat /\ k \in 1..Len(order)
      /\ order[k].nodes \in Path(Nodes)
  <2>1. /\ IsShelling(order) /\ Len(order) \in Nat
        /\ \A i \in 1..Len(order) : order[i].nodes \in Path(Nodes)
    BY <1>1, OrderFacts
  <2>2. k \in 1..Len(order)
    BY <1>1, <2>1 DEF LayoutInv, TypeOK
  <2> QED BY <2>1, <2>2
<1>5. /\ PlacedNodes(k)' = PlacedNodes(k - 1)
      /\ PlacedNodes(k) = PlacedNodes(k - 1) \cup ToSet(order[k].nodes)
      /\ PlacedNodes(k - 1) \cap ToSet(order[k].nodes) = {}
  <2>1. PlacedNodes(k)' = PlacedNodes(k - 1)
    BY <1>2 DEF PlacedNodes
  <2> QED BY <1>4, <2>1, PlacedStep
<1>6. (V1.nodes[BaseLength])' = V1.nodes[BaseLength] /\ Found' = Found
  BY <1>1, <1>2 DEF Found, BaseLength, V1
<1>7. ASSUME NEW v \in Nodes
      PROVE  IF upper'[v] = None \/ v \notin PlacedNodes(k - 1) THEN x'[v] = X[v]
             ELSE X[v] = x'[v] + X[upper'[v]]
  <2>1. Contains(order[k].nodes, v) <=> v \in ToSet(order[k].nodes)
    BY <1>4, PathIndices DEF Contains
  <2>2. /\ upper'[v] = upper[v]
        /\ IF upper[v] = None \/ v \notin PlacedNodes(k) THEN x[v] = X[v]
           ELSE X[v] = x[v] + X[upper[v]]
    BY <1>2, <1>3 DEF Resolved
  <2>3. CASE v \in ToSet(order[k].nodes) /\ upper[v] # None
    <3> DEFINE u == upper[v]
    <3>1. u \notin PlacedNodes(k)
      BY <1>1, <1>4, <2>3, UpperNotPlaced
    <3>2. u \in Nodes
      BY <1>1, <2>3 DEF LayoutInv, TypeOK
    <3>3. x[u] = X[u]
      BY <1>3, <3>1, <3>2 DEF Resolved
    <3>4. X[v] = x[v] + X[u]
      BY <1>5, <2>2, <2>3
    <3>5. x'[v] = x[v] + x[u]
      BY <1>2, <2>1, <2>3
    <3> QED BY <1>5, <2>2, <2>3, <3>3, <3>4, <3>5
  <2>4. CASE ~ (v \in ToSet(order[k].nodes) /\ upper[v] # None)
    <3>1. x'[v] = x[v]
      BY <1>2, <2>1, <2>4
    <3> QED BY <1>5, <2>2, <2>4, <3>1
  <2> QED BY <2>3, <2>4
<1>8. Resolved(X)'
  <2>1. /\ X \in [Nodes -> Nat] /\ X[V1.nodes[BaseLength]] <= 2 * Found - 4
        /\ \A v \in Nodes : /\ X[v] <= X[V1.nodes[BaseLength]]
                            /\ 2 * y'[v] <= X[V1.nodes[BaseLength]]
    BY <1>2, <1>3 DEF Resolved
  <2> QED BY <1>5, <1>6, <1>7, <2>1 DEF Resolved
<1> QED BY <1>8

LEMMA PlaceInnerKeepsGrid ==
  ASSUME GridInv, PlaceInner
  PROVE  GridInv'
<1>1. /\ LayoutInv' /\ phase = "inner" /\ << Found, BaseLength >> \in Sizes
  BY PlaceInnerKeeps DEF GridInv, PlaceInner
<1>2. phase' = "inner" /\ partition' = partition
  BY <1>1 DEF PlaceInner, orderVars
<1>3. << Found, BaseLength >>' \in Sizes
  BY <1>1, <1>2 DEF Found, BaseLength, V1
<1>4. PICK X : Resolved(X)
  BY <1>1 DEF GridInv
<1>5. Resolved(X)'
  BY <1>4, InnerResolves
<1>6. \E Q : Resolved(Q)'
  BY <1>5
<1> QED BY <1>1, <1>2, <1>3, <1>6 DEF GridInv

LEMMA DrawnKeepsGrid ==
  ASSUME GridInv, Drawn
  PROVE  GridInv'
<1>1. /\ phase = "inner" /\ phase' = "drawn" /\ k = 0 /\ LayoutInv'
      /\ UNCHANGED << partition, order, crSets, outerfaceStack, k, contour, x, y, upper >>
  BY DrawnKeeps DEF Drawn, layoutVars, GridInv
<1>2. PICK X : Resolved(X)
  BY <1>1 DEF GridInv
<1>3. Resolved(X)'
  BY <1>1, <1>2 DEF Resolved, Found, BaseLength, V1, PlacedNodes
<1>4. << Found, BaseLength >>' \in Sizes
  BY <1>1 DEF GridInv, Found, BaseLength, V1
<1>5. \E Q : Resolved(Q)'
  BY <1>3
<1> QED BY <1>1, <1>4, <1>5 DEF GridInv

LEMMA OrderKeepsGrid ==
  ASSUME GridInv, OrderNext, UNCHANGED layoutVars
  PROVE  GridInv'
<1>1. /\ LayoutInv' /\ phase' \in {"peel", "leftmost", "base"}
  BY OrderKeepsLayout DEF GridInv, OrderNext, FindSet, InitLeftmost, PopNode, TakeSet, OrderDone
<1>2. phase' # "peel" => << Found, BaseLength >>' \in Sizes
  BY DEF GridInv, OrderNext, FindSet, InitLeftmost, PopNode, TakeSet, OrderDone,
         Found, BaseLength, V1
<1> QED BY <1>1, <1>2 DEF GridInv

LEMMA StutterKeepsGrid ==
  ASSUME GridInv, UNCHANGED vars
  PROVE  GridInv'
<1>1. UNCHANGED << phase, partition, order, crSets, outerfaceStack, k, contour, x, y, upper >>
  BY DEF vars, orderVars, layoutVars
<1>2. LayoutInv'
  BY StutterKeeps DEF GridInv
<1>3. << Found, BaseLength >>' = << Found, BaseLength >> /\ Found' = Found
  BY <1>1 DEF Found, BaseLength, V1
<1>4. \A v \in Nodes : HangsOK(v) => HangsOK(v)'
  BY <1>1 DEF HangsOK, PlacedNodes
<1>5. \A X, root : Located(X, root) /\ WidthOK(X) => Located(X, root)' /\ WidthOK(X)'
  BY <1>1 DEF Located, WidthOK, Width, PlacedNodes
<1>6. \A X : Resolved(X) => Resolved(X)'
  BY <1>1, <1>3 DEF Resolved, BaseLength, V1, PlacedNodes
<1> QED BY <1>1, <1>2, <1>3, <1>4, <1>5, <1>6 DEF GridInv

(* The invariant of the grid.                                              *)
THEOREM GridInvariant == Spec => []GridInv
<1>1. LayoutInit => GridInv
  <2> SUFFICES ASSUME LayoutInit PROVE GridInv
    OBVIOUS
  <2>1. LayoutInv /\ phase = "peel"
    BY InitLayoutInv DEF LayoutInit, Init
  <2> QED BY <2>1 DEF GridInv
<1>2. GridInv /\ [Next]_vars => GridInv'
  BY OrderKeepsGrid, PlaceBaseKeepsGrid, PlaceSetKeepsGrid, PlaceContourKeepsGrid,
     PlaceInnerKeepsGrid, DrawnKeepsGrid, StutterKeepsGrid DEF Next
<1> QED BY <1>1, <1>2, PTL DEF Spec

(* "on a grid of size at most (2n-4) * (n-2)" (PlanarStraightLayout.h:48), *)
(* for every graph the sets can make and every number of its nodes.        *)
THEOREM DrawingFitsGrid == Spec => []FitsGrid
<1>1. ASSUME GridInv, phase = "drawn"
      PROVE  /\ boundingBox.m_x <= 2 * Found - 4
             /\ boundingBox.m_y <= Found - 2
             /\ \A v \in GraphNodes : x[v] \in 0..boundingBox.m_x /\ y[v] \in 0..boundingBox.m_y
  <2> DEFINE width == x[V1.nodes[BaseLength]]
             height == Max({y[v] : v \in 1..Found})
  <2>1. LayoutInv /\ << Found, BaseLength >> \in Sizes /\ k = 0
    BY <1>1 DEF GridInv
  <2>2. PICK X : Resolved(X)
    BY <1>1 DEF GridInv
  <2>3. /\ Found \in Nat \ {0} /\ V1.nodes[BaseLength] \in Nodes /\ 1..Found \subseteq Nodes
        /\ y \in [Nodes -> Nat]
    <3>1. /\ V1.nodes[BaseLength] \in Nodes /\ Found \in Nat /\ BaseLength \in Nat
          /\ BaseLength < Found
      BY <1>1, <2>1, BaseOnGrid
    <3>2. 1..(<< Found, BaseLength >>[1]) \subseteq Nodes
      BY <2>1, NodesOfSize
    <3>3. y \in [Nodes -> Nat]
      BY <2>1 DEF LayoutInv, TypeOK
    <3> QED BY <3>1, <3>2, <3>3
  <2>4. \A v \in Nodes : x[v] = X[v] /\ X[v] \in Nat
    <3>1. PlacedNodes(k) = {}
      BY <2>1 DEF PlacedNodes
    <3> QED BY <2>2, <3>1 DEF Resolved
  <2>5. /\ width \in Nat /\ width <= 2 * Found - 4
        /\ \A v \in Nodes : x[v] \in Nat /\ x[v] <= width /\ 2 * y[v] <= width
    BY <2>2, <2>3, <2>4 DEF Resolved
  <2>6. \A v \in 1..Found : v \in Nodes /\ y[v] \in Nat
    BY <2>3
  <2>7. /\ \E v \in 1..Found : height = y[v]
        /\ \A v \in 1..Found : y[v] <= height
    <3>1. PICK n \in Nat \ {0} : n = Found
      BY <2>3
    <3>2. PICK f : f = y
      OBVIOUS
    <3>3. \A i \in 1..n : f[i] \in Int
      BY <2>6, <3>1, <3>2
    <3>4. /\ \E i \in 1..n : Max({f[j] : j \in 1..n}) = f[i]
          /\ \A i \in 1..n : f[i] <= Max({f[j] : j \in 1..n})
      BY <3>3, MaxOfValues
    <3> QED BY <3>1, <3>2, <3>4
  <2>8. boundingBox.m_x = width /\ boundingBox.m_y = height
    BY DEF boundingBox, GraphNodes
  <2> HIDE DEF width, height
  <2>9. height \in Nat /\ height <= Found - 2
    <3>1. PICK v \in 1..Found : height = y[v]
      BY <2>7
    <3>2. y[v] \in Nat /\ 2 * y[v] <= width
      BY <2>5, <2>6
    <3> QED BY <2>3, <2>5, <3>1, <3>2
  <2>10. ASSUME NEW v \in 1..Found PROVE x[v] \in 0..width /\ y[v] \in 0..height
    <3>1. x[v] \in Nat /\ x[v] <= width /\ y[v] \in Nat /\ y[v] <= height
      BY <2>5, <2>6, <2>7
    <3> QED BY <2>5, <2>9, <3>1
  <2> QED BY <2>5, <2>8, <2>9, <2>10 DEF GraphNodes
<1>2. GridInv => FitsGrid
  BY <1>1 DEF FitsGrid
<1> QED BY <1>2, GridInvariant, PTL

=============================================================================
