--------------------- MODULE BiconnectedShellingOrderProofs ---------------------
(***************************************************************************)
(* The invariant of BiconnectedShellingOrder, for every embedding, as long *)
(* as no virtual edge is on the contour: what BiconnectedContourProofs     *)
(* calls valid, and the sets that were found.  The removal of a node keeps *)
(* the state valid (NodeTaken) as that of a face does, the first contour   *)
(* is valid (StartIsValid); then the invariant and the theorems.           *)
(***************************************************************************)
EXTENDS BiconnectedContourProofs

-----------------------------------------------------------------------------
(***************************************************************************)
(* The next node: what the contour becomes when v leaves it and no face is *)
(* cut.  First the walk along one face.                                    *)
(***************************************************************************)
LEMMA WalkFields ==
  ASSUME NEW t, DOMAIN t = Fields, NEW v, NEW f, NEW W, NEW w, NEW n,
         NEW u, u = WalkFace(t, v, f, W, w, n)
  PROVE  /\ DOMAIN u = Fields
         /\ u.onOuter = t.onOuter \cup ToSet(W) /\ u.virt = t.virt \ ToSet(Front(W))
<1> DEFINE x == EdgesToContour(t, W)
           NS == [y \in Nodes |-> IF Contains(Front(W), y)
                                  THEN cyclicSucc(y, W[At(W, y) + 1]) ELSE t.nextSucc[y]]
           PP == [y \in Nodes |-> IF Contains(Tail(W), y)
                                  THEN cyclicPred(y, W[At(W, y) - 1]) ELSE t.prevPred[y]]
           VV == t.virt \ ToSet(Front(W))
           leaves == Head(W) = prev(s, v) /\ n > 1
           on == ToSet(W)
           h == Head(W)
           up == ToSet(W) \ {Head(W), w}
<1>1. x = [t EXCEPT !.nextSucc = NS, !.prevPred = PP, !.virt = VV]
  BY Zenon DEF EdgesToContour
<1>2. u = [x EXCEPT
    !.onOuter = @ \cup on,
    !.updV = @ \cup up,
    !.outer[f][h] = IF leaves /\ @ > 0 THEN @ - 1 ELSE @,
    !.outv[f] = IF leaves THEN @ - 1 ELSE @]
  BY Zenon DEF WalkFace
<1> HIDE DEF NS, PP, VV, x, leaves, on, up, h
<1>3. DOMAIN x = Fields /\ x.onOuter = t.onOuter /\ x.virt = VV
  BY <1>1 DEF Fields
<1>4. DOMAIN u = Fields /\ u.onOuter = x.onOuter \cup on /\ u.virt = x.virt
  BY <1>2, <1>3 DEF Fields
<1> QED BY <1>3, <1>4 DEF VV, on

LEMMA CutFields ==
  ASSUME NEW t, DOMAIN t = Fields, NEW v, NEW f, NEW W, NEW w, NEW m, NEW fv, NEW pf,
         NEW u, u = CutFace(t, v, f, W, w, m, fv, pf)
  PROVE  /\ DOMAIN u = Fields
         /\ u.onOuter = t.onOuter /\ u.virt = t.virt \cup {Last(W)}
<1> DEFINE last == Last(W)
           InF == {<< y, f >> : y \in ToSet(Front(W))}
           lessPair == f = pf /\ last # prev(s, v)
           pp == cyclicPred(w, v)
           isCr == w = next(s, v)
           CF == [y \in Nodes |-> t.cutf[y] + t.outer[f][y]]
           same == f = fv
           UV == IF f = fv THEN {} ELSE {y \in Nodes : t.outer[f][y] > 0}
<1>1. u = [t EXCEPT
    !.inF = @ \ InF,
    !.seqp[f] = IF lessPair THEN @ - 1 ELSE @,
    !.nextSucc[last] = m,
    !.prevPred[w] = IF isCr THEN @ ELSE pp,
    !.virt = @ \cup {last},
    !.deg[last] = @ + 1, !.deg[w] = @ + 1,
    !.cutf = IF same THEN @ ELSE CF,
    !.virtSrc[f] = last,
    !.updF = @ \cup {f},
    !.updV = @ \cup {last, w} \cup UV]
  BY Zenon DEF CutFace
<1> HIDE DEF last, InF, lessPair, pp, isCr, CF, same, UV
<1>2. DOMAIN u = Fields /\ u.onOuter = t.onOuter /\ u.virt = t.virt \cup {last}
  BY <1>1 DEF Fields
<1> QED BY <1>2 DEF last

(* The whole of a face is walked: what is changed, but for f itself.       *)
WalkStep(g, t, f, W, u) ==
  /\ IsState(g, u)
  /\ u.contour = t.contour /\ u.deg = t.deg /\ u.cutf = t.cutf /\ u.numsf = t.numsf
  /\ u.oute = t.oute /\ u.seqp = t.seqp
  /\ u.virtSrc = t.virtSrc /\ u.isSf = t.isSf /\ u.inF = t.inF /\ u.updF = t.updF
  /\ u.possF = t.possF /\ u.possV = t.possV /\ u.possE = t.possE
  /\ u.fLink = t.fLink /\ u.vLink = t.vLink /\ u.eLink = t.eLink
  /\ u.dangling = t.dangling /\ u.virt \subseteq t.virt
  /\ \A h \in DOMAIN g.faces \ {f} : u.outv[h] = t.outv[h] /\ u.outer[h] = t.outer[h]
  /\ u.onOuter = t.onOuter \cup ToSet(W)
  /\ u.updV = t.updV \cup (ToSet(W) \ {W[1], W[Len(W)]})
  /\ \A v \in g.nodes : ~ ExceptLast(W, v) => u.nextSucc[v] = t.nextSucc[v]
  /\ \A v \in g.nodes : ~ ExceptFirst(W, v) => u.prevPred[v] = t.prevPred[v]
  /\ LinksOn(g, u, W)

LEMMA WalkIsStep ==
  ASSUME IsEmbedding(E), NEW t, IsState(E, t), NEW v, NEW f \in DOMAIN E.faces,
         NEW W \in Path(E.nodes), Len(W) >= 2,
         \A j \in 1..(Len(W) - 1) : W[j + 1] \in Around(E, W[j]),
         NEW w, w = W[Len(W)], NEW n,
         NEW u, u = [WalkFace(t, v, f, W, w, n) EXCEPT !.outer[f] = [y \in Nodes |-> 0]]
  PROVE  WalkStep(E, t, f, W, u)
<1> DEFINE x == EdgesToContour(t, W)
           leaves == Head(W) = prev(s, v) /\ n > 1
           on == ToSet(W)
           up == ToSet(W) \ {Head(W), w}
           h1 == Head(W)
           y == [x EXCEPT
             !.onOuter = @ \cup on,
             !.updV = @ \cup up,
             !.outer[f][h1] = IF leaves /\ @ > 0 THEN @ - 1 ELSE @,
             !.outv[f] = IF leaves THEN @ - 1 ELSE @]
           zero == [v0 \in Nodes |-> 0]
<1>1. EdgesStep(E, t, W, x)
  BY PathEdges
<1>2. u = [y EXCEPT !.outer[f] = zero]
  <2>1. WalkFace(t, v, f, W, w, n) = y
    BY Zenon DEF WalkFace
  <2> QED BY <2>1
<1>3. h1 = W[1] /\ W[1] \in E.nodes /\ up = ToSet(W) \ {W[1], W[Len(W)]} /\ on \subseteq E.nodes
  <2>1. /\ Len(W) \in Nat /\ \A j \in 1..Len(W) : W[j] \in E.nodes
        /\ \A z \in ToSet(W) : \E j \in 1..Len(W) : W[j] = z
    BY PathIndices
  <2>2. h1 = W[1]
    OBVIOUS
  <2> QED BY <2>1, <2>2
<1>4. /\ IsState(E, x) /\ OnlyLinks(t, x) /\ x.virt \subseteq t.virt
      /\ \A z \in E.nodes : ~ ExceptLast(W, z) => x.nextSucc[z] = t.nextSucc[z]
      /\ \A z \in E.nodes : ~ ExceptFirst(W, z) => x.prevPred[z] = t.prevPred[z]
      /\ LinksOn(E, x, W)
  BY <1>1 DEF EdgesStep
<1>5. DOMAIN x = Fields
  BY <1>4 DEF IsState
<1> HIDE DEF x, leaves, on, up, h1, zero
<1>6. /\ DOMAIN y = Fields
      /\ y.onOuter = x.onOuter \cup on /\ y.updV = x.updV \cup up
      /\ y.outer = [x.outer EXCEPT ![f][h1] = IF leaves /\ @ > 0 THEN @ - 1 ELSE @]
      /\ y.outv = [x.outv EXCEPT ![f] = IF leaves THEN @ - 1 ELSE @]
  BY <1>5 DEF Fields
<1>7. /\ y.contour = x.contour /\ y.nextSucc = x.nextSucc /\ y.prevPred = x.prevPred
      /\ y.virt = x.virt /\ y.deg = x.deg /\ y.cutf = x.cutf /\ y.numsf = x.numsf
      /\ y.oute = x.oute /\ y.seqp = x.seqp
      /\ y.virtSrc = x.virtSrc /\ y.isSf = x.isSf /\ y.inF = x.inF /\ y.updF = x.updF
      /\ y.possF = x.possF /\ y.possV = x.possV /\ y.possE = x.possE
      /\ y.fLink = x.fLink /\ y.vLink = x.vLink /\ y.eLink = x.eLink
      /\ y.dangling = x.dangling
  BY <1>5 DEF Fields
<1> HIDE DEF y
<1>8. /\ DOMAIN u = Fields /\ u.outer = [y.outer EXCEPT ![f] = zero]
      /\ u.onOuter = y.onOuter /\ u.updV = y.updV /\ u.outv = y.outv
  BY <1>2, <1>6 DEF Fields
<1>9. /\ u.contour = y.contour /\ u.nextSucc = y.nextSucc /\ u.prevPred = y.prevPred
      /\ u.virt = y.virt /\ u.deg = y.deg /\ u.cutf = y.cutf /\ u.numsf = y.numsf
      /\ u.oute = y.oute /\ u.seqp = y.seqp
      /\ u.virtSrc = y.virtSrc /\ u.isSf = y.isSf /\ u.inF = y.inF /\ u.updF = y.updF
      /\ u.possF = y.possF /\ u.possV = y.possV /\ u.possE = y.possE
      /\ u.fLink = y.fLink /\ u.vLink = y.vLink /\ u.eLink = y.eLink
      /\ u.dangling = y.dangling
  BY <1>2, <1>6 DEF Fields
<1>10. /\ x.contour = t.contour /\ x.deg = t.deg /\ x.cutf = t.cutf /\ x.numsf = t.numsf
       /\ x.onOuter = t.onOuter /\ x.outv = t.outv /\ x.oute = t.oute /\ x.seqp = t.seqp
       /\ x.virtSrc = t.virtSrc /\ x.isSf = t.isSf /\ x.outer = t.outer /\ x.inF = t.inF
       /\ x.updF = t.updF /\ x.updV = t.updV
       /\ x.possF = t.possF /\ x.possV = t.possV /\ x.possE = t.possE
       /\ x.fLink = t.fLink /\ x.vLink = t.vLink /\ x.eLink = t.eLink
       /\ x.dangling = t.dangling
  BY <1>4 DEF OnlyLinks
<1>11. /\ u.contour = t.contour /\ u.deg = t.deg /\ u.cutf = t.cutf /\ u.numsf = t.numsf
       /\ u.oute = t.oute /\ u.seqp = t.seqp
       /\ u.virtSrc = t.virtSrc /\ u.isSf = t.isSf /\ u.inF = t.inF /\ u.updF = t.updF
       /\ u.possF = t.possF /\ u.possV = t.possV /\ u.possE = t.possE
       /\ u.fLink = t.fLink /\ u.vLink = t.vLink /\ u.eLink = t.eLink
       /\ u.dangling = t.dangling
  BY <1>7, <1>9, <1>10
<1>12. u.nextSucc = x.nextSucc /\ u.prevPred = x.prevPred /\ u.virt = x.virt
  BY <1>7, <1>9
<1>13. /\ u.onOuter = t.onOuter \cup on /\ u.updV = t.updV \cup up
       /\ u.outv = [t.outv EXCEPT ![f] = IF leaves THEN @ - 1 ELSE @]
       /\ u.outer = [[t.outer EXCEPT ![f][h1] = IF leaves /\ @ > 0 THEN @ - 1 ELSE @] EXCEPT ![f] = zero]
  BY <1>6, <1>8, <1>10
<1>14. t.outv \in [DOMAIN E.faces -> Int] /\ t.outer \in [DOMAIN E.faces -> [E.nodes -> Int]]
  BY DEF IsState
<1>15. /\ u.outv \in [DOMAIN E.faces -> Int]
       /\ \A h \in DOMAIN E.faces \ {f} : u.outv[h] = t.outv[h]
  <2>1. u.outv = [t.outv EXCEPT ![f] = IF leaves THEN @ - 1 ELSE @]
    BY <1>13
  <2>2. t.outv \in [DOMAIN E.faces -> Int]
    BY <1>14
  <2>3. t.outv[f] \in Int
    BY <2>2
  <2>4. PICK k \in Int : u.outv = [t.outv EXCEPT ![f] = k]
    <3>1. CASE leaves
      <4>1. t.outv[f] - 1 \in Int /\ u.outv = [t.outv EXCEPT ![f] = t.outv[f] - 1]
        BY <2>1, <2>3, <3>1
      <4> QED BY <4>1
    <3>2. CASE ~ leaves
      <4>1. u.outv = [t.outv EXCEPT ![f] = t.outv[f]]
        BY <2>1, <3>2
      <4> QED BY <2>3, <4>1
    <3> QED BY <3>1, <3>2
  <2> QED BY <2>2, <2>4
<1>16. zero \in [E.nodes -> Int]
  BY DEF zero, Nodes
<1>17. /\ DOMAIN u.outer = DOMAIN E.faces /\ u.outer[f] = zero
       /\ \A h \in DOMAIN E.faces \ {f} : u.outer[h] = t.outer[h]
  BY <1>13, <1>14
<1>18. u.outer \in [DOMAIN E.faces -> [E.nodes -> Int]]
  <2>1. \A h \in DOMAIN E.faces : u.outer[h] \in [E.nodes -> Int]
    BY <1>14, <1>16, <1>17
  <2>2. u.outer = [h \in DOMAIN u.outer |-> u.outer[h]]
    BY <1>13
  <2> QED BY <1>17, <2>1, <2>2
<1>19. IsState(E, u)
  <2>1. /\ u.nextSucc \in [E.nodes -> Int] /\ u.prevPred \in [E.nodes -> Int]
    BY <1>4, <1>12 DEF IsState
  <2>2. u.contour \in Seq(E.nodes) /\ u.onOuter \subseteq E.nodes
    BY <1>3, <1>11, <1>13 DEF IsState
  <2>3. u.deg \in [E.nodes -> Int] /\ u.cutf \in [E.nodes -> Int] /\ u.numsf \in [E.nodes -> Int]
    BY <1>11 DEF IsState
  <2>4. /\ u.oute \in [DOMAIN E.faces -> Int] /\ u.seqp \in [DOMAIN E.faces -> Int]
        /\ u.virtSrc \in [DOMAIN E.faces -> Int]
    BY <1>11 DEF IsState
  <2> QED BY <1>8, <1>15, <1>18, <2>1, <2>2, <2>3, <2>4 DEF IsState
<1>20. /\ \A z \in E.nodes : ~ ExceptLast(W, z) => u.nextSucc[z] = t.nextSucc[z]
       /\ \A z \in E.nodes : ~ ExceptFirst(W, z) => u.prevPred[z] = t.prevPred[z]
       /\ u.virt \subseteq t.virt
  BY <1>4, <1>12
<1>21. LinksOn(E, u, W)
  BY <1>4, <1>12 DEF LinksOn, LinkAt
<1>22. /\ \A h \in DOMAIN E.faces \ {f} : u.outv[h] = t.outv[h] /\ u.outer[h] = t.outer[h]
       /\ u.onOuter = t.onOuter \cup ToSet(W)
       /\ u.updV = t.updV \cup (ToSet(W) \ {W[1], W[Len(W)]})
  BY <1>3, <1>13, <1>15, <1>17 DEF on
<1> QED BY <1>11, <1>19, <1>20, <1>21, <1>22, Zenon DEF WalkStep

(* The start of a path.                                                    *)
Starts(V, B, m, W) ==
  /\ W \in Path(V) /\ Len(W) = m /\ \A j \in 1..m : W[j] = B[j]
  /\ Last(W) = B[m]
  /\ \A x \in ToSet(Front(W)) : \E j \in 1..(m - 1) : B[j] = x

LEMMA StartOfPath ==
  ASSUME NEW V, NEW B \in Path(V), NEW m \in 1..Len(B)
  PROVE  Starts(V, B, m, SubSeq(B, 1, m))
<1> DEFINE W == SubSeq(B, 1, m)
<1>1. /\ B \in Seq(V) /\ Len(B) \in Nat /\ \A j \in 1..Len(B) : B[j] \in V
      /\ \A i, j \in 1..Len(B) : B[i] = B[j] => i = j
  BY PathIndices
<1>2. m \in Nat /\ m >= 1 /\ m <= Len(B)
  BY <1>1
<1>3. W \in Seq(V) /\ Len(W) = m /\ \A j \in 1..m : W[j] = B[j]
  <2>1. \A j \in 1..m : B[j] \in V
    BY <1>1, <1>2
  <2>2. m \in Int /\ 1 \in Int
    BY <1>2
  <2>3. /\ SubSeq(B, 1, m) \in Seq(V)
        /\ Len(SubSeq(B, 1, m)) = IF 1 <= m THEN m - 1 + 1 ELSE 0
        /\ \A i \in 1..(m - 1 + 1) : SubSeq(B, 1, m)[i] = B[1 + i - 1]
    BY <2>1, <2>2, SubSeqProperties
  <2>4. m - 1 + 1 = m /\ \A i \in 1..m : 1 + i - 1 = i
    BY <1>2
  <2> QED BY <1>2, <2>3, <2>4
<1> HIDE DEF W
<1>4. W \in Path(V)
  <2>1. DOMAIN W = 1..m
    BY <1>3
  <2>2. \A i, j \in 1..m : W[i] = W[j] => i = j
    BY <1>1, <1>2, <1>3
  <2> QED BY <1>3, <2>1, <2>2 DEF Path
<1>5. Last(W) = B[m]
  BY <1>2, <1>3 DEF Last
<1>6. ASSUME NEW x \in ToSet(Front(W)) PROVE \E j \in 1..(m - 1) : B[j] = x
  <2>1. CASE m = 1
    <3>1. Front(W) = << >>
      <4>1. Front(W) = SubSeq(W, 1, 0)
        BY <1>3, <2>1 DEF Front
      <4> QED BY <1>3, <4>1
    <3>2. ToSet(<< >>) = {}
      BY DEF ToSet
    <3> QED BY <3>1, <3>2
  <2>2. CASE m # 1
    <3>1. Len(W) >= 2
      BY <1>2, <1>3, <2>2
    <3>2. ExceptLast(W, x)
      BY <1>4, <3>1, FrontAndTail
    <3>3. PICK j \in 1..(Len(W) - 1) : W[j] = x
      BY <3>2 DEF ExceptLast
    <3>4. j \in 1..(m - 1) /\ j \in 1..m
      BY <1>2, <1>3, <3>3
    <3> QED BY <1>3, <3>3, <3>4
  <2> QED BY <2>1, <2>2
<1>7. \A x \in ToSet(Front(W)) : \E j \in 1..(m - 1) : B[j] = x
  BY <1>6
<1> QED BY <1>3, <1>4, <1>5, <1>7 DEF Starts, W

(* v = c_k with the nodes around it, and the face between two of them.     *)
NodeAt(g, b, c, R, k, v, N) ==
  /\ ContourShape(g, b, c, R) /\ k \in 2..(Len(c) - 1) /\ v = c[k] /\ v \notin ToSet(b)
  /\ N \in Path(g.nodes) /\ Len(N) >= 3 /\ N[1] = c[k - 1] /\ N[Len(N)] = c[k + 1]
  /\ ToSet(N) = Around(g, v) \ R
  /\ \A i \in 1..(Len(N) - 1) : Beside(g, v, N[i], N[i + 1])

Gap(g, v, N, i, f) == i \in 2..Len(N) /\ Entry(g, N[i - 1], v, f) /\ Entry(g, v, N[i], f)

NodeGaps(g, R, v, N) ==
  /\ \A i \in 2..Len(N) : \E f : Gap(g, v, N, i, f)
  /\ \A i, f : Gap(g, v, N, i, f) => f \in Whole(g, R) /\ v \in OnFace(g, f)
  /\ \A i, j, f : Gap(g, v, N, i, f) /\ Gap(g, v, N, j, f) => i = j
  /\ \A f \in Whole(g, R) : v \in OnFace(g, f) => \E i : Gap(g, v, N, i, f)

LEMMA GapsOfNode ==
  ASSUME NEW g, IsEmbedding(g), NEW b, NEW c, NEW R, NEW k, NEW v, NEW N, NodeAt(g, b, c, R, k, v, N)
  PROVE  NodeGaps(g, R, v, N)
<1>1. /\ ContourShape(g, b, c, R) /\ k \in 2..(Len(c) - 1) /\ v = c[k] /\ v \notin ToSet(b)
      /\ N \in Path(g.nodes) /\ Len(N) >= 3 /\ N[1] = c[k - 1] /\ N[Len(N)] = c[k + 1]
      /\ ToSet(N) = Around(g, v) \ R
  BY DEF NodeAt
<1>2. \A i \in 1..(Len(N) - 1) : Beside(g, v, N[i], N[i + 1])
  BY DEF NodeAt
<1>3. /\ Len(N) \in Nat
      /\ \A i \in 1..Len(N) : N[i] \in g.nodes
      /\ \A i, j \in 1..Len(N) : N[i] = N[j] => i = j
      /\ \A w : w \in ToSet(N) <=> \E i \in 1..Len(N) : N[i] = w
  BY <1>1, PathIndices
<1>4. Len(c) \in Nat /\ k \in 1..Len(c) /\ k # Len(c) /\ k + 1 \in 1..Len(c) /\ k \in 1..(Len(c) - 1)
  <2>1. Len(c) \in Nat
    BY <1>1, ContourIndices
  <2> QED BY <1>1, <2>1
<1>5. ASSUME NEW i \in 2..Len(N) PROVE \E f : Gap(g, v, N, i, f)
  <2>1. i - 1 \in 1..(Len(N) - 1) /\ (i - 1) + 1 = i
    BY <1>3
  <2>2. Beside(g, v, N[i - 1], N[i])
    BY <1>2, <2>1
  <2> QED BY <2>2 DEF Gap, Beside
<1>6. ASSUME NEW i, NEW f, Gap(g, v, N, i, f) PROVE f \in Whole(g, R) /\ v \in OnFace(g, f)
  <2>1. i \in 2..Len(N) /\ Entry(g, N[i - 1], v, f)
    BY <1>6 DEF Gap
  <2>2. i - 1 \in 1..Len(N) /\ i - 1 # Len(N) /\ Len(N) \in 1..Len(N)
    BY <1>1, <1>3, <2>1
  <2>3. N[i - 1] \in Around(g, v) \ R /\ N[i - 1] # c[k + 1]
    BY <1>1, <1>3, <2>2
  <2>4. After(b, c, k) = c[k + 1]
    BY <1>4 DEF After
  <2>5. NodeShape(g, b, R, Before(b, c, k), c[k], After(b, c, k))
    BY <1>1, <1>4 DEF ContourShape
  <2>6. \A w \in Around(g, v) \ (R \cup {c[k + 1]}) : \A h : Entry(g, w, v, h) => Inside(g, b, R, v, h)
    BY <1>1, <2>4, <2>5 DEF NodeShape
  <2>7. Inside(g, b, R, v, f)
    BY <2>1, <2>3, <2>6
  <2>8. v \in OnFace(g, f)
    BY <2>1, EntryFacts
  <2> QED BY <1>1, <2>7, <2>8 DEF Inside
<1>7. ASSUME NEW i, NEW j, NEW f, Gap(g, v, N, i, f), Gap(g, v, N, j, f) PROVE i = j
  <2>1. i \in 2..Len(N) /\ Entry(g, v, N[i], f) /\ j \in 2..Len(N) /\ Entry(g, v, N[j], f)
    BY <1>7 DEF Gap
  <2>2. f \in DOMAIN g.faces /\ v \in OnFace(g, f)
    BY <2>1, EntryFacts
  <2>3. N[i] = N[j]
    BY <2>1, <2>2, FaceEntries
  <2>4. i \in 1..Len(N) /\ j \in 1..Len(N)
    BY <1>3, <2>1
  <2> QED BY <1>3, <2>3, <2>4
<1>8. ASSUME NEW f \in Whole(g, R), v \in OnFace(g, f) PROVE \E i : Gap(g, v, N, i, f)
  <2>1. f \in DOMAIN g.faces /\ OnFace(g, f) \cap R = {}
    BY DEF Whole
  <2>2. PICK w : Entry(g, w, v, f)
    BY <1>8, <2>1, FaceEntries
  <2>3. w \in Around(g, v) /\ w \in OnFace(g, f)
    BY <2>2, EntryFacts
  <2>4. PICK i \in 1..Len(N) : N[i] = w
    BY <1>1, <1>3, <2>1, <2>3
  <2>5. i # Len(N)
    <3> SUFFICES ASSUME i = Len(N) PROVE FALSE
      OBVIOUS
    <3>1. Entry(g, c[k + 1], c[k], f)
      BY <1>1, <2>2, <2>4
    <3>2. EdgeShape(g, R, c[k], c[k + 1])
      BY <1>1, <1>4 DEF ContourShape
    <3> QED BY <3>1, <3>2 DEF EdgeShape
  <2>6. i + 1 \in 2..Len(N) /\ i \in 1..(Len(N) - 1) /\ (i + 1) - 1 = i
    BY <1>3, <2>4, <2>5
  <2>7. PICK h : Entry(g, N[i], v, h) /\ Entry(g, v, N[i + 1], h)
    BY <1>2, <2>6 DEF Beside
  <2>8. h = f
    BY <2>2, <2>4, <2>7, EntryFacts
  <2>9. Gap(g, v, N, i + 1, f)
    BY <2>6, <2>7, <2>8 DEF Gap
  <2> QED BY <2>9
<1> QED BY <1>5, <1>6, <1>7, <1>8 DEF NodeGaps

(* What getAdjNodes yields for a candidate.                                *)
NodeFound(g, b, t, R, c, k, v) ==
  /\ NodeAt(g, b, c, R, k, v, getAdjNodes(t, v))
  /\ prev(t, v) = c[k - 1] /\ next(t, v) = c[k + 1]

LEMMA PossNodeFound ==
  ASSUME IsEmbedding(E), BaseShape(E, base), NEW t, NEW R, NEW c, Valid(E, base, t, R, c),
         t.updV = {}, NEW v \in t.possV
  PROVE  \E k \in 2..(Len(c) - 1) : NodeFound(E, base, t, R, c, k, v)
<1>1. /\ ContourShape(E, base, c, R) /\ t.contour = c /\ Linked(E, t, c, R)
      /\ NodesMarked(base, t, R, c)
  BY DEF Valid
<1>2. v \in ToSet(c) /\ v \notin ToSet(base) /\ PossNode(t, v)
  BY <1>1 DEF NodesMarked
<1>3. /\ Len(c) \in Nat /\ Len(c) >= 2 /\ c \in Path(E.nodes)
      /\ \A i \in 1..Len(c) : c[i] \in E.nodes /\ c[i] \in ToSet(c) /\ c[i] \notin R
      /\ \A i, j \in 1..Len(c) : c[i] = c[j] => i = j
      /\ \A x : x \in ToSet(c) <=> \E i \in 1..Len(c) : c[i] = x
  <2>1. c \in Path(E.nodes)
    BY <1>1 DEF ContourShape
  <2> QED BY <1>1, <2>1, ContourIndices
<1>4. c[1] \in ToSet(base) /\ c[Len(c)] \in ToSet(base)
  <2>1. c[1] = base[1] /\ c[Len(c)] = base[Len(base)]
    BY <1>1 DEF ContourShape
  <2>2. Len(base) \in Nat /\ Len(base) >= 2
    BY BaseFacts DEF BaseShape
  <2>3. \A i \in 1..Len(base) : base[i] \in ToSet(base)
    BY BaseFacts
  <2>4. 1 \in 1..Len(base) /\ Len(base) \in 1..Len(base)
    BY <2>2
  <2> QED BY <2>1, <2>3, <2>4
<1>5. PICK k \in 1..Len(c) : c[k] = v
  BY <1>2, <1>3
<1>6. k \in 2..(Len(c) - 1)
  <2>1. k # 1 /\ k # Len(c)
    BY <1>2, <1>4, <1>5
  <2> QED BY <1>3, <2>1
<1> DEFINE A == Around(E, v) \ R
           p == c[k - 1]
           n == c[k + 1]
           N == getAdjNodes(t, v)
<1>7. Before(base, c, k) = p /\ After(base, c, k) = n
  <2>1. k # 1 /\ k # Len(c)
    BY <1>3, <1>6
  <2> QED BY <2>1 DEF Before, After
<1>8. v \in E.nodes /\ v \notin R /\ p \in E.nodes /\ n \in E.nodes
  <2>1. k - 1 \in 1..Len(c) /\ k + 1 \in 1..Len(c)
    BY <1>3, <1>6
  <2> QED BY <1>3, <1>5, <2>1
<1>9. Segment(E, v, A, p, n)
  <2>1. NodeShape(E, base, R, p, v, n)
    BY <1>1, <1>5, <1>7 DEF ContourShape
  <2> QED BY <2>1 DEF NodeShape
<1>10. p # n /\ ~ Beside(E, v, p, n)
  <2>1. t.deg[v] >= 3 /\ t.deg[v] = Cardinality(A)
    BY <1>1, <1>2, <1>8 DEF PossNode, Linked
  <2>2. ~ Cardinality(A) <= 2 /\ Cardinality(A) \in Nat
    <3>1. Cardinality(A) \in Nat
      BY <1>8, <1>9, SegmentSize
    <3> QED BY <2>1, <3>1
  <2>3. Cardinality(A) <= 2 <=> p = n \/ Beside(E, v, p, n)
    BY <1>8, <1>9, SegmentSize
  <2> QED BY <2>2, <2>3
<1>11. Beside(E, v, p, adjEnd(t, v)) /\ Beside(E, v, adjStart(t, v), n)
  BY <1>1, <1>5, <1>7, AdjStartEnd
<1> HIDE DEF A, p, n
<1>12. Fanned(E, v, A, p, n, Fan(t, v))
  BY <1>8, <1>9, <1>10, <1>11, FanIsFan
<1>13. prev(t, v) = p /\ next(t, v) = n
  <2>1. At(c, v) = k
    BY <1>3, <1>5, AtIndex
  <2> QED BY <1>1, <2>1 DEF prev, next, p, n
<1> DEFINE F == Fan(t, v)
<1>14. /\ F \in Path(E.nodes) /\ Len(F) \in Nat /\ Len(F) >= 1 /\ ToSet(F) = A \ {p, n}
       /\ Beside(E, v, p, F[1]) /\ Beside(E, v, F[Len(F)], n)
       /\ \A i \in 1..(Len(F) - 1) : Beside(E, v, F[i], F[i + 1])
  BY <1>12, PathIndices DEF Fanned
<1>15. N = (<< p >> \o F) \o << n >>
  BY <1>13 DEF getAdjNodes
<1> HIDE DEF F, N
<1> DEFINE M == << p >> \o F
<1>16. /\ M \in Path(E.nodes) /\ Len(M) = 1 + Len(F) /\ ToSet(M) = {p} \cup ToSet(F) /\ M[1] = p
       /\ \A i \in 1..Len(F) : M[1 + i] = F[i]
  <2>1. << p >> \in Path(E.nodes) /\ ToSet(<< p >>) = {p} /\ Len(<< p >>) = 1
    BY <1>8, PathOfOne
  <2>2. ToSet(<< p >>) \cap ToSet(F) = {}
    BY <1>14, <2>1
  <2>3. /\ M \in Path(E.nodes) /\ Len(M) = Len(<< p >>) + Len(F)
        /\ ToSet(M) = ToSet(<< p >>) \cup ToSet(F)
        /\ \A i \in 1..Len(<< p >>) : M[i] = << p >>[i]
        /\ \A i \in 1..Len(F) : M[Len(<< p >>) + i] = F[i]
    BY <1>14, <2>1, <2>2, PathJoin
  <2> QED BY <2>1, <2>3
<1>0. N = M \o << n >>
  BY <1>15
<1> HIDE DEF M
<1>17. /\ N \in Path(E.nodes) /\ Len(N) = Len(F) + 2 /\ ToSet(N) = A
       /\ N[1] = p /\ N[Len(F) + 2] = n
       /\ \A i \in 1..Len(F) : N[1 + i] = F[i]
  <2>1. << n >> \in Path(E.nodes) /\ ToSet(<< n >>) = {n} /\ Len(<< n >>) = 1
    BY <1>8, PathOfOne
  <2>2. ToSet(M) \cap ToSet(<< n >>) = {}
    BY <1>10, <1>14, <1>16, <2>1
  <2>3. /\ N \in Path(E.nodes) /\ Len(N) = Len(M) + Len(<< n >>)
        /\ ToSet(N) = ToSet(M) \cup ToSet(<< n >>)
        /\ \A i \in 1..Len(M) : N[i] = M[i]
        /\ \A i \in 1..Len(<< n >>) : N[Len(M) + i] = << n >>[i]
    BY <1>0, <1>16, <2>1, <2>2, PathJoin
  <2>4. ToSet(N) = A
    <3>1. p \in A /\ n \in A
      BY <1>9 DEF Segment
    <3> QED BY <1>14, <1>16, <2>1, <2>3, <3>1
  <2>5. Len(N) = Len(F) + 2 /\ Len(M) = Len(F) + 1
    BY <1>14, <1>16, <2>1, <2>3
  <2>6. N[1] = p
    BY <1>14, <1>16, <2>3, <2>5
  <2>7. N[Len(F) + 2] = n
    <3>1. << n >>[1] = n /\ 1 \in 1..Len(<< n >>)
      BY <2>1
    <3>2. N[Len(M) + 1] = n
      BY <2>3, <3>1
    <3> QED BY <1>14, <2>5, <3>2
  <2>8. ASSUME NEW i \in 1..Len(F) PROVE N[1 + i] = F[i]
    <3>1. 1 + i \in 1..Len(M)
      BY <1>14, <2>5
    <3> QED BY <1>16, <2>3, <3>1
  <2> QED BY <2>3, <2>4, <2>5, <2>6, <2>7, <2>8
<1>18. ASSUME NEW i \in 1..(Len(N) - 1) PROVE Beside(E, v, N[i], N[i + 1])
  <2>1. CASE i = 1
    <3>1. N[1 + 1] = F[1]
      BY <1>14, <1>17
    <3> QED BY <1>14, <1>17, <2>1, <3>1
  <2>2. CASE i = Len(F) + 1
    <3>1. N[1 + Len(F)] = F[Len(F)]
      BY <1>14, <1>17
    <3>2. N[i] = F[Len(F)] /\ N[i + 1] = n
      <4>1. i = 1 + Len(F) /\ i + 1 = Len(F) + 2
        BY <1>14, <2>2
      <4> QED BY <1>17, <3>1, <4>1
    <3> QED BY <1>14, <3>2
  <2>3. CASE i # 1 /\ i # Len(F) + 1
    <3>1. i - 1 \in 1..(Len(F) - 1) /\ i - 1 \in 1..Len(F) /\ i \in 1..Len(F) /\ 1 + (i - 1) = i /\ (i - 1) + 1 = i
      BY <1>14, <1>17, <2>3
    <3>2. N[i] = F[i - 1] /\ N[1 + i] = F[i]
      <4>1. N[1 + (i - 1)] = F[i - 1]
        BY <1>17, <3>1
      <4> QED BY <1>17, <3>1, <4>1
    <3>3. N[i + 1] = F[i]
      <4>1. i + 1 = 1 + i
        BY <3>1
      <4> QED BY <3>2, <4>1
    <3>4. Beside(E, v, F[i - 1], F[(i - 1) + 1])
      BY <1>14, <3>1
    <3> QED BY <3>1, <3>2, <3>3, <3>4
  <2> QED BY <2>1, <2>2, <2>3
<1>19. NodeAt(E, base, c, R, k, v, N)
  <2>1. N[1] = c[k - 1] /\ N[Len(N)] = c[k + 1] /\ ToSet(N) = Around(E, v) \ R /\ Len(N) >= 3
    BY <1>14, <1>17 DEF p, n, A
  <2> QED BY <1>1, <1>2, <1>5, <1>6, <1>17, <1>18, <2>1, Zenon DEF NodeAt
<1>20. NodeFound(E, base, t, R, c, k, v)
  BY <1>13, <1>19 DEF NodeFound, N, p, n
<1> QED BY <1>6, <1>20

(***************************************************************************)
(* The face f below the node v, from its neighbour p to the next one q.    *)
(***************************************************************************)
RoundTrip(g, v, f, p, q, B) ==
  /\ f \in DOMAIN g.faces /\ BackFrom(g, f, p, B)
  /\ Len(B) \in Nat /\ Len(B) >= 3 /\ B[Len(B)] = v /\ B[Len(B) - 1] = q

LEMMA BackWalk ==
  ASSUME NEW g, IsEmbedding(g), NEW v, NEW f, NEW p, NEW q,
         Entry(g, p, v, f), Entry(g, v, q, f), NEW B, BackFrom(g, f, p, B)
  PROVE  RoundTrip(g, v, f, p, q, B)
<1>1. f \in DOMAIN g.faces /\ p \in OnFace(g, f) /\ v \in OnFace(g, f)
  BY EntryFacts
<1>2. /\ B \in Path(g.nodes) /\ Len(B) = Len(g.faces[f]) /\ B[1] = p
      /\ \A i \in 1..(Len(B) - 1) : Entry(g, B[i + 1], B[i], f)
      /\ Entry(g, p, B[Len(B)], f)
  BY DEF BackFrom
<1>3. Len(B) \in Nat /\ Len(B) >= 3
  BY <1>1, <1>2, FaceIsPath, PathIndices
<1>4. B[Len(B)] = v
  <2>1. \A w : Entry(g, p, w, f) => w = SuccOn(g.faces[f], p)
    BY <1>1, FaceEntries
  <2> QED BY <1>2, <2>1
<1>5. B[Len(B) - 1] = q
  <2>1. \A w : Entry(g, v, w, f) => w = SuccOn(g.faces[f], v)
    BY <1>1, FaceEntries
  <2>2. Entry(g, B[(Len(B) - 1) + 1], B[Len(B) - 1], f)
    BY <1>2, <1>3
  <2>3. (Len(B) - 1) + 1 = Len(B)
    BY <1>3
  <2>4. Entry(g, v, B[Len(B) - 1], f)
    BY <1>4, <2>2, <2>3
  <2> QED BY <2>1, <2>4
<1> QED BY <1>1, <1>3, <1>4, <1>5 DEF RoundTrip

WholeWalk(g, v, f, p, q, out, W) ==
  /\ W \in Path(g.nodes) /\ Len(W) \in Nat /\ Len(W) >= 2 /\ W[1] = p /\ W[Len(W)] = q
  /\ \A j \in 1..(Len(W) - 1) : Entry(g, W[j + 1], W[j], f)
  /\ OnFace(g, f) = ToSet(W) \cup {v} /\ v \notin ToSet(W)
  /\ \A j \in 2..(Len(W) - 1) : W[j] \notin out
  /\ \A j \in 1..Len(W) : \A w : Entry(g, w, W[j], f) =>
       (j = Len(W) /\ w = v) \/ (j < Len(W) /\ w = W[j + 1])

LEMMA WholeWalkOf ==
  ASSUME NEW g, IsEmbedding(g), NEW v, NEW f, NEW p, NEW q, NEW B, RoundTrip(g, v, f, p, q, B),
         NEW out, \A j \in 2..(Len(B) - 2) : B[j] \notin out,
         NEW W, Starts(g.nodes, B, Len(B) - 1, W)
  PROVE  WholeWalk(g, v, f, p, q, out, W)
<1>1. /\ f \in DOMAIN g.faces /\ BackFrom(g, f, p, B)
      /\ Len(B) \in Nat /\ Len(B) >= 3 /\ B[Len(B)] = v /\ B[Len(B) - 1] = q
  BY DEF RoundTrip
<1>2. /\ B \in Path(g.nodes) /\ B[1] = p /\ ToSet(B) = OnFace(g, f)
      /\ \A i \in 1..(Len(B) - 1) : Entry(g, B[i + 1], B[i], f)
  BY <1>1 DEF BackFrom
<1>3. W \in Path(g.nodes) /\ Len(W) = Len(B) - 1 /\ \A j \in 1..(Len(B) - 1) : W[j] = B[j]
  BY DEF Starts
<1>4. /\ \A i, j \in 1..Len(B) : B[i] = B[j] => i = j
      /\ \A x : x \in ToSet(B) <=> \E i \in 1..Len(B) : B[i] = x
      /\ \A x : x \in ToSet(W) <=> \E i \in 1..Len(W) : W[i] = x
  BY <1>2, <1>3, PathIndices
<1>5. W[1] = p /\ W[Len(W)] = q /\ Len(W) \in Nat /\ Len(W) >= 2
  BY <1>1, <1>2, <1>3
<1>6. ASSUME NEW j \in 1..(Len(W) - 1) PROVE Entry(g, W[j + 1], W[j], f)
  <2>1. j \in 1..(Len(B) - 1) /\ j + 1 \in 1..(Len(B) - 1)
    BY <1>1, <1>3
  <2>2. W[j] = B[j] /\ W[j + 1] = B[j + 1]
    BY <1>3, <2>1
  <2> QED BY <1>2, <2>1, <2>2
<1>7. v \notin ToSet(W)
  <2> SUFFICES ASSUME v \in ToSet(W) PROVE FALSE
    OBVIOUS
  <2>1. PICK j \in 1..Len(W) : W[j] = v
    BY <1>4
  <2>2. j \in 1..Len(B) /\ Len(B) \in 1..Len(B) /\ B[j] = v /\ j # Len(B)
    BY <1>1, <1>3, <2>1
  <2> QED BY <1>1, <1>4, <2>2
<1>8. OnFace(g, f) = ToSet(W) \cup {v}
  <2>1. ASSUME NEW x \in OnFace(g, f) PROVE x \in ToSet(W) \cup {v}
    <3>1. PICK i \in 1..Len(B) : B[i] = x
      BY <1>2, <1>4
    <3>2. CASE i = Len(B)
      BY <1>1, <3>1, <3>2
    <3>3. CASE i # Len(B)
      <4>1. i \in 1..(Len(B) - 1)
        BY <1>1, <3>3
      <4>2. W[i] = x /\ i \in 1..Len(W)
        BY <1>3, <3>1, <4>1
      <4> QED BY <1>4, <4>2
    <3> QED BY <3>2, <3>3
  <2>2. ASSUME NEW x \in ToSet(W) PROVE x \in OnFace(g, f)
    <3>1. PICK j \in 1..Len(W) : W[j] = x
      BY <1>4
    <3>2. j \in 1..Len(B) /\ B[j] = x
      BY <1>1, <1>3, <3>1
    <3> QED BY <1>2, <1>4, <3>2
  <2>3. v \in OnFace(g, f)
    <3>1. Len(B) \in 1..Len(B)
      BY <1>1
    <3> QED BY <1>1, <1>2, <1>4, <3>1
  <2> QED BY <2>1, <2>2, <2>3
<1>9. ASSUME NEW j \in 2..(Len(W) - 1) PROVE W[j] \notin out
  <2>1. j \in 1..(Len(B) - 1) /\ j \in 2..(Len(B) - 2)
    BY <1>1, <1>3
  <2> QED BY <1>3, <2>1
<1>10. ASSUME NEW j \in 1..Len(W), NEW w, Entry(g, w, W[j], f)
       PROVE  (j = Len(W) /\ w = v) \/ (j < Len(W) /\ w = W[j + 1])
  <2>1. j \in 1..(Len(B) - 1) /\ j \in 1..Len(B) /\ W[j] = B[j]
    BY <1>1, <1>3
  <2>2. Entry(g, B[j + 1], B[j], f)
    BY <1>2, <2>1
  <2>3. B[j] \in OnFace(g, f)
    BY <1>2, <1>4, <2>1
  <2>4. w = B[j + 1]
    <3>1. \A x : Entry(g, x, B[j], f) => x = PredOn(g.faces[f], B[j])
      BY <1>1, <2>3, FaceEntries
    <3>2. Entry(g, w, B[j], f)
      BY <1>10, <2>1
    <3> QED BY <2>2, <3>1, <3>2
  <2>5. CASE j = Len(W)
    <3>1. j + 1 = Len(B)
      BY <1>1, <1>3, <2>5
    <3> QED BY <1>1, <2>4, <2>5, <3>1
  <2>6. CASE j # Len(W)
    <3>1. j < Len(W) /\ j + 1 \in 1..(Len(B) - 1)
      BY <1>1, <1>3, <2>6
    <3>2. W[j + 1] = B[j + 1]
      BY <1>3, <3>1
    <3> QED BY <2>4, <3>1, <3>2
  <2> QED BY <2>5, <2>6
<1> QED BY <1>3, <1>5, <1>6, <1>7, <1>8, <1>9, <1>10, Zenon DEF WholeWalk

(* Where FollowFace stops.                                                 *)
StopsAt(t, B, w, k) ==
  /\ k \in 2..(Len(B) - 1)
  /\ B[k] = w \/ B[k] \in t.onOuter
  /\ \A j \in 2..(k - 1) : B[j] # w /\ B[j] \notin t.onOuter

Stops(t, B, w) == {i \in 2..Len(B) : B[i] = w \/ B[i] \in t.onOuter}

LEMMA StopIs ==
  ASSUME NEW t, NEW B, Len(B) \in Nat, Len(B) >= 3, NEW w, B[Len(B) - 1] = w
  PROVE  StopsAt(t, B, w, Min(Stops(t, B, w)))
<1> DEFINE S == Stops(t, B, w)
<1>1. Len(B) - 1 \in S
  <2>1. Len(B) - 1 \in 2..Len(B)
    OBVIOUS
  <2> QED BY <2>1 DEF Stops
<1>2. S \in SUBSET Int /\ \A i \in S : 2 <= i /\ i <= Len(B) /\ i \in Int
  BY DEF Stops
<1>3. S # {} /\ \A i \in S : 2 <= i
  BY <1>1, <1>2
<1>4. \A i \in S : B[i] = w \/ B[i] \in t.onOuter
  BY DEF Stops
<1>5. \A i \in 2..Len(B) : B[i] = w \/ B[i] \in t.onOuter => i \in S
  BY DEF Stops
<1> HIDE DEF S
<1>6. Min(S) \in S /\ \A i \in S : Min(S) <= i
  BY <1>2, <1>3, BoundedMin
<1> DEFINE k == Min(S)
<1>7. k \in S /\ k \in Int /\ 2 <= k /\ k <= Len(B) - 1
  BY <1>1, <1>2, <1>6
<1>8. ASSUME NEW j \in 2..(k - 1) PROVE B[j] # w /\ B[j] \notin t.onOuter
  <2>1. j \in 2..Len(B) /\ ~ k <= j
    BY <1>7
  <2>2. j \notin S
    BY <1>6, <2>1
  <2> QED BY <1>5, <2>1, <2>2
<1>9. k \in 2..(Len(B) - 1) /\ (B[k] = w \/ B[k] \in t.onOuter)
  BY <1>4, <1>7
<1> QED BY <1>8, <1>9 DEF StopsAt, S

FollowsWhole(t, v, f, B, w, k, r) ==
  /\ B[k] = w
  /\ r = << SubSeq(B, 1, k),
            [WalkFace(t, v, f, SubSeq(B, 1, k), w, k - 1) EXCEPT !.outer[f] = [y \in Nodes |-> 0]] >>

FollowsCut(t, v, f, B, w, fVirt, potF, k, r) ==
  /\ B[k] # w
  /\ r = << Append(SubSeq(B, 1, k - 1), w),
            CutFace(WalkFace(t, v, f, SubSeq(B, 1, k - 1), w, k - 1), v, f, SubSeq(B, 1, k - 1),
                    w, B[k], fVirt, potF) >>

LEMMA FollowIs ==
  ASSUME NEW t, NEW v, NEW f, NEW B, NEW w, NEW fVirt, NEW potF, NEW k, k = Min(Stops(t, B, w)),
         NEW r, r = FollowFace(t, v, f, B, w, fVirt, potF)
  PROVE  FollowsWhole(t, v, f, B, w, k, r) \/ FollowsCut(t, v, f, B, w, fVirt, potF, k, r)
<1> DEFINE whole == << SubSeq(B, 1, k),
              [WalkFace(t, v, f, SubSeq(B, 1, k), w, k - 1) EXCEPT !.outer[f] = [y \in Nodes |-> 0]] >>
           cut == << Append(SubSeq(B, 1, k - 1), w),
              CutFace(WalkFace(t, v, f, SubSeq(B, 1, k - 1), w, k - 1), v, f, SubSeq(B, 1, k - 1),
                      w, B[k], fVirt, potF) >>
<1>1. k = Min({i \in 2..Len(B) : B[i] = w \/ B[i] \in t.onOuter})
  BY DEF Stops
<1>2. r = IF B[k] = w THEN whole ELSE cut
  BY <1>1, Zenon DEF FollowFace
<1> HIDE DEF whole, cut
<1>3. CASE B[k] = w
  BY <1>2, <1>3 DEF FollowsWhole, whole
<1>4. CASE B[k] # w
  BY <1>2, <1>4 DEF FollowsCut, cut
<1> QED BY <1>3, <1>4

CutAt(N, i, u) ==
  /\ DOMAIN u = Fields /\ ToSet(N) \subseteq u.onOuter
  /\ \E x \in u.virt : x \in u.onOuter /\ \A j \in i..Len(N) : x # N[j]

(* A face that is cut leaves a virtual edge off the later neighbours.      *)
LEMMA FollowCuts ==
  ASSUME NEW V, NEW t, DOMAIN t = Fields, NEW B \in Path(V), NEW N \in Path(V), ToSet(N) \subseteq t.onOuter,
         NEW i \in 2..Len(N), B[1] = N[i - 1], NEW v, NEW f, NEW w, NEW fVirt, NEW potF,
         NEW k, StopsAt(t, B, w, k), NEW r, FollowsCut(t, v, f, B, w, fVirt, potF, k, r)
  PROVE  CutAt(N, i, r[2])
<1>1. /\ k \in 2..(Len(B) - 1) /\ B[k] # w
      /\ B[k] = w \/ B[k] \in t.onOuter
      /\ \A j \in 2..(k - 1) : B[j] # w /\ B[j] \notin t.onOuter
  BY DEF StopsAt, FollowsCut
<1>2. /\ Len(B) \in Nat /\ \A a \in 1..Len(B) : B[a] \in V
      /\ Len(N) \in Nat /\ \A a, z \in 1..Len(N) : N[a] = N[z] => a = z
      /\ \A x : x \in ToSet(N) <=> \E a \in 1..Len(N) : N[a] = x
  BY PathIndices
<1> DEFINE W == SubSeq(B, 1, k - 1)
           t1 == WalkFace(t, v, f, W, w, k - 1)
           u == CutFace(t1, v, f, W, w, B[k], fVirt, potF)
           x == B[k - 1]
<1>3. r[2] = u
  <2>1. r = << Append(SubSeq(B, 1, k - 1), w), u >>
    BY Zenon DEF FollowsCut
  <2> QED BY <2>1
<1>4. k - 1 \in 1..Len(B)
  BY <1>1, <1>2
<1>5. Starts(V, B, k - 1, W)
  BY <1>4, StartOfPath
<1> HIDE DEF W
<1>6. W \in Path(V) /\ Len(W) = k - 1 /\ Last(W) = x /\ \A j \in 1..(k - 1) : W[j] = B[j]
  BY <1>5 DEF Starts
<1>7. DOMAIN t1 = Fields /\ t1.onOuter = t.onOuter \cup ToSet(W)
  BY WalkFields
<1> HIDE DEF t1
<1>8. DOMAIN u = Fields /\ u.onOuter = t1.onOuter /\ u.virt = t1.virt \cup {Last(W)}
  BY <1>7, CutFields
<1> HIDE DEF u
<1>9. x \in ToSet(W)
  <2>1. k - 1 \in 1..Len(W) /\ W[k - 1] = x
    BY <1>1, <1>2, <1>6
  <2> QED BY <1>6, <2>1, PathIndices
<1>10. ASSUME NEW j \in i..Len(N) PROVE x # N[j]
  <2>1. j \in 1..Len(N) /\ i - 1 \in 1..Len(N) /\ j # i - 1 /\ N[j] \in ToSet(N)
    BY <1>2
  <2>2. CASE k = 2
    <3>1. x = N[i - 1]
      BY <2>2
    <3> QED BY <1>2, <2>1, <3>1
  <2>3. CASE k # 2
    <3>1. k - 1 \in 2..(k - 1)
      BY <1>1, <2>3
    <3>2. x \notin t.onOuter
      BY <1>1, <3>1
    <3> QED BY <2>1, <3>2
  <2> QED BY <2>2, <2>3
<1> HIDE DEF x
<1>11. x \in u.virt /\ x \in u.onOuter /\ ToSet(N) \subseteq u.onOuter
  BY <1>6, <1>7, <1>8, <1>9
<1> QED BY <1>3, <1>8, <1>10, <1>11 DEF CutAt

(* A later walk does not reach it.                                         *)
LEMMA FollowKeepsCut ==
  ASSUME NEW V, NEW t, NEW B \in Path(V), NEW N \in Path(V),
         NEW i \in 2..Len(N), CutAt(N, i - 1, t), B[1] = N[i - 1], NEW v, NEW f, NEW w, NEW fVirt, NEW potF,
         NEW k, StopsAt(t, B, w, k),
         NEW r, FollowsWhole(t, v, f, B, w, k, r) \/ FollowsCut(t, v, f, B, w, fVirt, potF, k, r)
  PROVE  CutAt(N, i, r[2])
<1>1. /\ DOMAIN t = Fields /\ ToSet(N) \subseteq t.onOuter
      /\ \E x \in t.virt : x \in t.onOuter /\ \A j \in (i - 1)..Len(N) : x # N[j]
  BY DEF CutAt
<1>2. CASE FollowsCut(t, v, f, B, w, fVirt, potF, k, r)
  BY <1>1, <1>2, FollowCuts
<1>3. CASE FollowsWhole(t, v, f, B, w, k, r)
  <2> DEFINE W == SubSeq(B, 1, k)
             t1 == WalkFace(t, v, f, W, w, k - 1)
             u == [t1 EXCEPT !.outer[f] = [y \in Nodes |-> 0]]
  <2>1. r[2] = u
    <3>1. r = << SubSeq(B, 1, k), u >>
      BY <1>3, Zenon DEF FollowsWhole
    <3> QED BY <3>1
  <2>2. /\ k \in 2..(Len(B) - 1)
        /\ \A j \in 2..(k - 1) : B[j] # w /\ B[j] \notin t.onOuter
    BY DEF StopsAt
  <2>3. Len(B) \in Nat /\ Len(N) \in Nat
    BY PathIndices
  <2>4. k \in 1..Len(B)
    BY <2>2, <2>3
  <2>5. Starts(V, B, k, W)
    BY <2>4, StartOfPath
  <2>6. DOMAIN t1 = Fields /\ t1.onOuter = t.onOuter \cup ToSet(W) /\ t1.virt = t.virt \ ToSet(Front(W))
    BY <1>1, WalkFields
  <2> HIDE DEF t1, W
  <2>7. DOMAIN u = Fields /\ u.onOuter = t1.onOuter /\ u.virt = t1.virt
    BY <2>6 DEF Fields
  <2> HIDE DEF u
  <2>8. PICK x \in t.virt : x \in t.onOuter /\ \A j \in (i - 1)..Len(N) : x # N[j]
    BY <1>1
  <2>9. x \notin ToSet(Front(W))
    <3> SUFFICES ASSUME x \in ToSet(Front(W)) PROVE FALSE
      OBVIOUS
    <3>1. PICK j \in 1..(k - 1) : B[j] = x
      BY <2>5 DEF Starts
    <3>2. CASE j = 1
      <4>1. i - 1 \in (i - 1)..Len(N)
        BY <2>3
      <4> QED BY <2>8, <3>1, <3>2, <4>1
    <3>3. CASE j # 1
      <4>1. j \in 2..(k - 1)
        BY <2>2, <3>3
      <4> QED BY <2>2, <2>8, <3>1, <4>1
    <3> QED BY <3>2, <3>3
  <2>10. x \in u.virt /\ x \in u.onOuter /\ ToSet(N) \subseteq u.onOuter
    BY <1>1, <2>6, <2>7, <2>8, <2>9
  <2>11. \A j \in i..Len(N) : x # N[j]
    <3>1. \A j \in i..Len(N) : j \in (i - 1)..Len(N)
      BY <2>3
    <3> QED BY <2>8, <3>1
  <2> QED BY <2>1, <2>7, <2>10, <2>11 DEF CutAt
<1> QED BY <1>2, <1>3

(* A face that is not cut becomes a part of the contour.                   *)
LEMMA FollowWalks ==
  ASSUME IsEmbedding(E), NEW t, IsState(E, t), NEW v, NEW f, NEW p, NEW q, NEW B, RoundTrip(E, v, f, p, q, B),
         NEW k, StopsAt(t, B, q, k), NEW r, FollowsWhole(t, v, f, B, q, k, r)
  PROVE  WholeWalk(E, v, f, p, q, t.onOuter, r[1]) /\ WalkStep(E, t, f, r[1], r[2])
<1>1. /\ k \in 2..(Len(B) - 1) /\ B[k] = q
      /\ \A j \in 2..(k - 1) : B[j] # q /\ B[j] \notin t.onOuter
  BY DEF StopsAt, FollowsWhole
<1>2. /\ f \in DOMAIN E.faces /\ BackFrom(E, f, p, B)
      /\ Len(B) \in Nat /\ Len(B) >= 3 /\ B[Len(B)] = v /\ B[Len(B) - 1] = q
  BY DEF RoundTrip
<1>3. B \in Path(E.nodes)
  BY <1>2 DEF BackFrom
<1>4. k = Len(B) - 1
  <2>1. \A a, z \in 1..Len(B) : B[a] = B[z] => a = z
    BY <1>3, PathIndices
  <2>2. k \in 1..Len(B) /\ Len(B) - 1 \in 1..Len(B)
    BY <1>1, <1>2
  <2> QED BY <1>1, <1>2, <2>1, <2>2
<1> DEFINE W == SubSeq(B, 1, k)
           u == [WalkFace(t, v, f, W, q, k - 1) EXCEPT !.outer[f] = [y \in Nodes |-> 0]]
<1>5. r[1] = W /\ r[2] = u
  <2>1. r = << W, u >>
    BY Zenon DEF FollowsWhole
  <2> QED BY <2>1
<1>6. Starts(E.nodes, B, k, W)
  <2>1. k \in 1..Len(B)
    BY <1>1, <1>2
  <2> QED BY <1>3, <2>1, StartOfPath
<1>7. WholeWalk(E, v, f, p, q, t.onOuter, W)
  <2>1. \A j \in 2..(Len(B) - 2) : B[j] \notin t.onOuter
    <3>1. \A j \in 2..(Len(B) - 2) : j \in 2..(k - 1)
      BY <1>2, <1>4
    <3> QED BY <1>1, <3>1
  <2>2. Starts(E.nodes, B, Len(B) - 1, W)
    BY <1>4, <1>6
  <2> QED BY <2>1, <2>2, WholeWalkOf
<1>8. WalkStep(E, t, f, W, u)
  <2>1. /\ W \in Path(E.nodes) /\ Len(W) >= 2 /\ W[Len(W)] = q
        /\ \A j \in 1..(Len(W) - 1) : Entry(E, W[j + 1], W[j], f)
    BY <1>7 DEF WholeWalk
  <2>2. \A j \in 1..(Len(W) - 1) : W[j + 1] \in Around(E, W[j])
    BY <2>1, EntryFacts
  <2> HIDE DEF W
  <2>3. u = [WalkFace(t, v, f, W, q, k - 1) EXCEPT !.outer[f] = [y \in Nodes |-> 0]]
    OBVIOUS
  <2> HIDE DEF u
  <2> QED BY <1>2, <2>1, <2>2, <2>3, WalkIsStep
<1> QED BY <1>5, <1>7, <1>8

(***************************************************************************)
(* The paths along the faces of the node are joined.                       *)
(***************************************************************************)
Joined(V, P, W, Q) ==
  /\ Q \in Path(V) /\ Len(P) \in Nat /\ Len(P) >= 1 /\ Len(W) \in Nat /\ Len(W) >= 2
  /\ Len(Q) = Len(P) + Len(W) - 1 /\ ToSet(Q) = ToSet(P) \cup ToSet(W)
  /\ \A j \in 1..Len(P) : Q[j] = P[j]
  /\ \A j \in 1..Len(W) : Q[Len(P) + j - 1] = W[j]

LEMMA JoinWalk ==
  ASSUME NEW V, NEW P \in Path(V), NEW W \in Path(V), Len(P) >= 1, Len(W) >= 2, P[Len(P)] = W[1],
         \A j \in 2..Len(W) : W[j] \notin ToSet(P)
  PROVE  Joined(V, P, W, P \o Tail(W))
<1> DEFINE N == Tail(W)
           Q == P \o N
<1>1. /\ P \in Seq(V) /\ Len(P) \in Nat /\ \A i, j \in 1..Len(P) : P[i] = P[j] => i = j
      /\ \A x : x \in ToSet(P) <=> \E i \in 1..Len(P) : P[i] = x
  BY PathIndices
<1>2. /\ W \in Seq(V) /\ Len(W) \in Nat /\ \A i, j \in 1..Len(W) : W[i] = W[j] => i = j
      /\ \A x : x \in ToSet(W) <=> \E i \in 1..Len(W) : W[i] = x
  BY PathIndices
<1>3. N \in Seq(V) /\ Len(N) = Len(W) - 1 /\ \A i \in 1..(Len(W) - 1) : N[i] = W[i + 1]
  <2>1. W # << >>
    BY <1>2
  <2> HIDE DEF N
  <2>2. /\ Tail(W) \in Seq(V) /\ Len(Tail(W)) = Len(W) - 1
        /\ \A i \in 1..Len(Tail(W)) : Tail(W)[i] = W[i + 1]
    BY <1>2, <2>1, HeadTailProperties
  <2> QED BY <2>2 DEF N
<1> HIDE DEF N
<1>4. N \in Path(V)
  <2>1. \A i, j \in 1..(Len(W) - 1) : N[i] = N[j] => i = j
    <3>1. ASSUME NEW i \in 1..(Len(W) - 1), NEW j \in 1..(Len(W) - 1), N[i] = N[j] PROVE i = j
      <4>1. i + 1 \in 1..Len(W) /\ j + 1 \in 1..Len(W) /\ W[i + 1] = W[j + 1]
        BY <1>2, <1>3, <3>1
      <4>2. i + 1 = j + 1
        BY <1>2, <4>1
      <4> QED BY <4>2
    <3> QED BY <3>1
  <2>2. DOMAIN N = 1..(Len(W) - 1)
    BY <1>3
  <2> QED BY <1>3, <2>1, <2>2 DEF Path
<1>5. \A x : x \in ToSet(N) <=> \E i \in 1..(Len(W) - 1) : N[i] = x
  BY <1>3, <1>4, PathIndices
<1>6. ASSUME NEW x PROVE x \in ToSet(N) <=> x \in ToSet(W) /\ x # W[1]
  <2>1. ASSUME x \in ToSet(N) PROVE x \in ToSet(W) /\ x # W[1]
    <3>1. PICK i \in 1..(Len(W) - 1) : N[i] = x
      BY <1>5, <2>1
    <3>2. i + 1 \in 1..Len(W) /\ 1 \in 1..Len(W) /\ i + 1 # 1 /\ W[i + 1] = x
      BY <1>2, <1>3, <3>1
    <3> QED BY <1>2, <3>2
  <2>2. ASSUME x \in ToSet(W), x # W[1] PROVE x \in ToSet(N)
    <3>1. PICK i \in 1..Len(W) : W[i] = x
      BY <1>2, <2>2
    <3>2. i - 1 \in 1..(Len(W) - 1) /\ (i - 1) + 1 = i
      BY <1>2, <2>2, <3>1
    <3>3. N[i - 1] = x
      BY <1>3, <3>1, <3>2
    <3> QED BY <1>5, <3>2, <3>3
  <2> QED BY <2>1, <2>2
<1>7. ToSet(P) \cap ToSet(N) = {}
  <2> SUFFICES ASSUME NEW x \in ToSet(P), x \in ToSet(N) PROVE FALSE
    OBVIOUS
  <2>1. PICK i \in 1..(Len(W) - 1) : N[i] = x
    BY <1>5
  <2>2. i + 1 \in 2..Len(W) /\ W[i + 1] = x
    BY <1>2, <1>3, <2>1
  <2> QED BY <2>2
<1>8. /\ Q \in Path(V) /\ Len(Q) = Len(P) + Len(N) /\ ToSet(Q) = ToSet(P) \cup ToSet(N)
      /\ \A i \in 1..Len(P) : Q[i] = P[i]
      /\ \A i \in 1..Len(N) : Q[Len(P) + i] = N[i]
  BY <1>4, <1>7, PathJoin
<1> HIDE DEF Q
<1>9. Len(P) \in 1..Len(P) /\ W[1] \in ToSet(P)
  BY <1>1
<1>10. ToSet(Q) = ToSet(P) \cup ToSet(W)
  BY <1>6, <1>8, <1>9
<1>11. Len(Q) = Len(P) + Len(W) - 1
  BY <1>1, <1>2, <1>3, <1>8
<1>12. ASSUME NEW j \in 1..Len(W) PROVE Q[Len(P) + j - 1] = W[j]
  <2>1. CASE j = 1
    <3>1. Len(P) + j - 1 = Len(P)
      BY <1>1, <2>1
    <3> QED BY <1>8, <1>9, <2>1, <3>1
  <2>2. CASE j # 1
    <3>1. j - 1 \in 1..(Len(W) - 1) /\ (j - 1) + 1 = j /\ Len(P) + j - 1 = Len(P) + (j - 1) /\ j - 1 \in 1..Len(N)
      BY <1>1, <1>2, <1>3, <2>2
    <3>2. Q[Len(P) + (j - 1)] = N[j - 1] /\ N[j - 1] = W[j]
      BY <1>3, <1>8, <3>1
    <3> QED BY <3>1, <3>2
  <2> QED BY <2>1, <2>2
<1>13. Joined(V, P, W, Q)
  BY <1>1, <1>2, <1>8, <1>10, <1>11, <1>12 DEF Joined
<1> QED BY <1>13 DEF Q, N

JoinedPlace(P, W, Q, j) ==
  \/ j \in 1..Len(P) /\ Q[j] = P[j]
  \/ \E i \in 2..Len(W) : j = Len(P) + i - 1 /\ Q[j] = W[i]

LEMMA JoinedPlaces ==
  ASSUME NEW V, NEW P, NEW W, NEW Q, Joined(V, P, W, Q), NEW j \in 1..Len(Q)
  PROVE  JoinedPlace(P, W, Q, j)
<1>1. /\ Len(P) \in Nat /\ Len(P) >= 1 /\ Len(W) \in Nat /\ Len(W) >= 2 /\ Len(Q) = Len(P) + Len(W) - 1
      /\ \A i \in 1..Len(P) : Q[i] = P[i]
      /\ \A i \in 1..Len(W) : Q[Len(P) + i - 1] = W[i]
  BY DEF Joined
<1>2. CASE j <= Len(P)
  <2>1. j \in 1..Len(P)
    BY <1>1, <1>2
  <2> QED BY <1>1, <2>1 DEF JoinedPlace
<1>3. CASE ~ j <= Len(P)
  <2>1. j - Len(P) + 1 \in 2..Len(W) /\ j = Len(P) + (j - Len(P) + 1) - 1 /\ j - Len(P) + 1 \in 1..Len(W)
    BY <1>1, <1>3
  <2>2. Q[j] = W[j - Len(P) + 1]
    BY <1>1, <2>1
  <2> QED BY <2>1, <2>2 DEF JoinedPlace
<1> QED BY <1>2, <1>3

(* The neighbours N of v, all in the set O of what is outside already.     *)
NodeRound(g, v, N, O) ==
  /\ v \in g.nodes /\ N \in Path(g.nodes) /\ Len(N) \in Nat /\ Len(N) >= 3
  /\ ToSet(N) \subseteq O /\ Around(g, v) \subseteq O /\ ToSet(N) \subseteq Around(g, v)

(* The path to the i-th neighbour: its nodes, ...                          *)
PathEnds(g, v, N, O, i, P) ==
  /\ P \in Path(g.nodes) /\ Len(P) \in Nat /\ Len(P) >= 1
  /\ P[1] = N[1] /\ P[Len(P)] = N[i] /\ v \notin ToSet(P)
  /\ \A e \in 1..i : N[e] \in ToSet(P)
  /\ \A u \in ToSet(P) : u \in O => \E e \in 1..i : u = N[e]

(* ... its edges and the faces it has followed, ...                        *)
PathGaps(g, v, N, i, P) ==
  /\ \A j \in 1..(Len(P) - 1) : \E e \in 2..i : \E f : Gap(g, v, N, e, f) /\ Entry(g, P[j + 1], P[j], f)
  /\ \A e \in 2..i : \A f : Gap(g, v, N, e, f) =>
       /\ OnFace(g, f) \subseteq ToSet(P) \cup {v}
       /\ \A j \in 1..Len(P) : \A w : Entry(g, w, P[j], f) => w = v \/ (j < Len(P) /\ w = P[j + 1])

(* ... which meet the outside only beside v, ...                           *)
PathMeets(g, v, N, O, i) ==
  \A e \in 2..i : \A f : Gap(g, v, N, e, f) => OnFace(g, f) \cap O \subseteq {v, N[e - 1], N[e]}

(* ... and its turns.                                                      *)
FirstGap(g, v, N, P) == \E f : Gap(g, v, N, 2, f) /\ Entry(g, P[2], P[1], f)
LastGap(g, v, N, i, P) == \E f : Gap(g, v, N, i, f) /\ Entry(g, P[Len(P)], P[Len(P) - 1], f)

PathTurns(g, v, N, i, P) ==
  /\ \A j \in 2..(Len(P) - 1) : Corner(g, {v}, P[j - 1], P[j], P[j + 1])
  /\ i > 1 => Len(P) >= 2 /\ FirstGap(g, v, N, P) /\ LastGap(g, v, N, i, P)

PathInv(g, v, N, O, i, P) ==
  /\ PathEnds(g, v, N, O, i, P) /\ PathGaps(g, v, N, i, P)
  /\ PathMeets(g, v, N, O, i) /\ PathTurns(g, v, N, i, P)

LEMMA PathStarts ==
  ASSUME NEW g, NEW v, NEW N, NEW O, NodeRound(g, v, N, O), v \notin ToSet(N)
  PROVE  PathInv(g, v, N, O, 1, << N[1] >>)
<1> DEFINE P == << N[1] >>
<1>1. /\ N \in Path(g.nodes) /\ Len(N) \in Nat /\ Len(N) >= 3
  BY DEF NodeRound
<1>2. N[1] \in g.nodes /\ N[1] \in ToSet(N)
  <2>1. 1 \in 1..Len(N)
    BY <1>1
  <2> QED BY <1>1, <2>1, PathIndices
<1>3. P \in Path(g.nodes) /\ ToSet(P) = {N[1]} /\ Len(P) = 1
  BY <1>2, PathOfOne
<1>4. P[1] = N[1]
  OBVIOUS
<1> HIDE DEF P
<1>5. PathEnds(g, v, N, O, 1, P)
  BY <1>2, <1>3, <1>4 DEF PathEnds
<1>6. PathGaps(g, v, N, 1, P) /\ PathMeets(g, v, N, O, 1) /\ PathTurns(g, v, N, 1, P)
  BY <1>3 DEF PathGaps, PathMeets, PathTurns
<1> QED BY <1>5, <1>6 DEF PathInv, P

WalkOn(g, v, N, O, i, f, P, W) ==
  /\ IsEmbedding(g) /\ NodeRound(g, v, N, O) /\ i \in 2..Len(N) /\ Gap(g, v, N, i, f)
  /\ PathInv(g, v, N, O, i - 1, P)
  /\ \E out : O \cup ToSet(P) \subseteq out /\ WholeWalk(g, v, f, N[i - 1], N[i], out, W)

(* What is used of it.                                                     *)
WalkedOn(g, v, N, O, i, f, P, W) ==
  /\ N \in Path(g.nodes) /\ Len(N) \in Nat
  /\ ToSet(N) \subseteq O /\ Around(g, v) \subseteq O /\ ToSet(N) \subseteq Around(g, v)
  /\ i \in 2..Len(N)
  /\ W \in Path(g.nodes) /\ Len(W) \in Nat /\ Len(W) >= 2 /\ W[1] = N[i - 1] /\ W[Len(W)] = N[i]
  /\ OnFace(g, f) = ToSet(W) \cup {v} /\ v \notin ToSet(W)
  /\ \A j \in 2..(Len(W) - 1) : W[j] \notin O /\ W[j] \notin ToSet(P)
  /\ \A j \in 2..Len(W) : W[j] \notin ToSet(P)
  /\ Entry(g, N[i - 1], v, f) /\ Entry(g, v, N[i], f)

LEMMA WalkOnFacts ==
  ASSUME NEW g, NEW v, NEW N, NEW O, NEW i, NEW f, NEW P, NEW W, WalkOn(g, v, N, O, i, f, P, W)
  PROVE  WalkedOn(g, v, N, O, i, f, P, W)
<1>1. /\ N \in Path(g.nodes) /\ Len(N) \in Nat
      /\ ToSet(N) \subseteq O /\ Around(g, v) \subseteq O /\ ToSet(N) \subseteq Around(g, v)
  BY DEF WalkOn, NodeRound
<1>2. i \in 2..Len(N)
  BY DEF WalkOn
<1>3. PICK out : O \cup ToSet(P) \subseteq out /\ WholeWalk(g, v, f, N[i - 1], N[i], out, W)
  BY DEF WalkOn
<1>4. /\ W \in Path(g.nodes) /\ Len(W) \in Nat /\ Len(W) >= 2 /\ W[1] = N[i - 1] /\ W[Len(W)] = N[i]
      /\ OnFace(g, f) = ToSet(W) \cup {v} /\ v \notin ToSet(W)
      /\ \A j \in 2..(Len(W) - 1) : W[j] \notin out
  BY <1>3 DEF WholeWalk
<1>5. \A j \in 2..(Len(W) - 1) : W[j] \notin O /\ W[j] \notin ToSet(P)
  BY <1>3, <1>4
<1>6. N[i] \notin ToSet(P)
  <2> SUFFICES ASSUME N[i] \in ToSet(P) PROVE FALSE
    OBVIOUS
  <2>1. \A u \in ToSet(P) : u \in O => \E e \in 1..(i - 1) : u = N[e]
    BY DEF WalkOn, PathInv, PathEnds
  <2>2. i \in 1..Len(N)
    BY <1>1, <1>2
  <2>3. N[i] \in O
    BY <1>1, <2>2, PathIndices
  <2>4. PICK e \in 1..(i - 1) : N[i] = N[e]
    BY <2>1, <2>3
  <2>5. e \in 1..Len(N) /\ e # i
    BY <1>1, <1>2
  <2> QED BY <1>1, <2>2, <2>4, <2>5, PathIndices
<1>7. \A j \in 2..Len(W) : W[j] \notin ToSet(P)
  <2> SUFFICES ASSUME NEW j \in 2..Len(W) PROVE W[j] \notin ToSet(P)
    OBVIOUS
  <2>1. CASE j = Len(W)
    BY <1>4, <1>6, <2>1
  <2>2. CASE j # Len(W)
    <3>1. j \in 2..(Len(W) - 1)
      BY <1>4, <2>2
    <3> QED BY <1>5, <3>1
  <2> QED BY <2>1, <2>2
<1>8. Entry(g, N[i - 1], v, f) /\ Entry(g, v, N[i], f)
  BY DEF WalkOn, Gap
<1> QED BY <1>1, <1>2, <1>4, <1>5, <1>7, <1>8 DEF WalkedOn

LEMMA WalkJoins ==
  ASSUME NEW g, NEW v, NEW N, NEW O, NEW i, NEW f, NEW P, NEW W, WalkOn(g, v, N, O, i, f, P, W)
  PROVE  Joined(g.nodes, P, W, P \o Tail(W))
<1>1. WalkedOn(g, v, N, O, i, f, P, W)
  BY WalkOnFacts
<1>2. P \in Path(g.nodes) /\ Len(P) >= 1 /\ P[Len(P)] = N[i - 1]
  BY DEF WalkOn, PathInv, PathEnds
<1>3. /\ W \in Path(g.nodes) /\ Len(W) >= 2 /\ P[Len(P)] = W[1]
      /\ \A j \in 2..Len(W) : W[j] \notin ToSet(P)
  BY <1>1, <1>2 DEF WalkedOn
<1> QED BY <1>2, <1>3, JoinWalk

LEMMA PathEndsGrow ==
  ASSUME NEW g, NEW v, NEW N, NEW O, NEW i, NEW f, NEW P, NEW W, WalkOn(g, v, N, O, i, f, P, W),
         NEW Q, Joined(g.nodes, P, W, Q)
  PROVE  PathEnds(g, v, N, O, i, Q)
<1>1. /\ N \in Path(g.nodes) /\ Len(N) \in Nat /\ i \in 2..Len(N)
      /\ W \in Path(g.nodes) /\ Len(W) \in Nat /\ Len(W) >= 2 /\ W[1] = N[i - 1] /\ W[Len(W)] = N[i]
      /\ v \notin ToSet(W)
      /\ \A j \in 2..(Len(W) - 1) : W[j] \notin O
  BY WalkOnFacts DEF WalkedOn
<1>2. /\ P[1] = N[1] /\ P[Len(P)] = N[i - 1] /\ v \notin ToSet(P)
      /\ \A e \in 1..(i - 1) : N[e] \in ToSet(P)
      /\ \A u \in ToSet(P) : u \in O => \E e \in 1..(i - 1) : u = N[e]
  BY DEF WalkOn, PathInv, PathEnds
<1>3. /\ Q \in Path(g.nodes) /\ Len(P) \in Nat /\ Len(P) >= 1
      /\ Len(Q) = Len(P) + Len(W) - 1 /\ ToSet(Q) = ToSet(P) \cup ToSet(W)
      /\ \A j \in 1..Len(P) : Q[j] = P[j]
      /\ \A j \in 1..Len(W) : Q[Len(P) + j - 1] = W[j]
  BY DEF Joined
<1>4. \A x : x \in ToSet(W) <=> \E j \in 1..Len(W) : W[j] = x
  BY <1>1, PathIndices
<1>5. Q[1] = N[1]
  BY <1>2, <1>3
<1>6. Q[Len(Q)] = N[i]
  <2>1. Len(W) \in 1..Len(W)
    BY <1>1
  <2> QED BY <1>1, <1>3, <2>1
<1>7. Len(Q) \in Nat /\ Len(Q) >= 1
  BY <1>1, <1>3
<1>8. v \notin ToSet(Q)
  BY <1>1, <1>2, <1>3
<1>9. ASSUME NEW e \in 1..i PROVE N[e] \in ToSet(Q)
  <2>1. CASE e = i
    <3>1. Len(W) \in 1..Len(W)
      BY <1>1
    <3>2. N[i] \in ToSet(W)
      BY <1>1, <1>4, <3>1
    <3> QED BY <1>3, <2>1, <3>2
  <2>2. CASE e # i
    <3>1. e \in 1..(i - 1)
      BY <1>1, <2>2
    <3> QED BY <1>2, <1>3, <3>1
  <2> QED BY <2>1, <2>2
<1>10. ASSUME NEW u \in ToSet(Q), u \in O PROVE \E e \in 1..i : u = N[e]
  <2>1. CASE u \in ToSet(P)
    <3>1. PICK e \in 1..(i - 1) : u = N[e]
      BY <1>2, <1>10, <2>1
    <3>2. e \in 1..i
      BY <1>1
    <3> QED BY <3>1, <3>2
  <2>2. CASE u \in ToSet(W)
    <3>1. PICK j \in 1..Len(W) : W[j] = u
      BY <1>4, <2>2
    <3>2. i - 1 \in 1..i /\ i \in 1..i
      BY <1>1
    <3>3. CASE j = 1
      BY <1>1, <3>1, <3>2, <3>3
    <3>4. CASE j = Len(W)
      BY <1>1, <3>1, <3>2, <3>4
    <3>5. CASE j # 1 /\ j # Len(W)
      <4>1. j \in 2..(Len(W) - 1)
        BY <1>1, <3>5
      <4> QED BY <1>1, <1>10, <3>1, <4>1
    <3> QED BY <3>3, <3>4, <3>5
  <2> QED BY <1>3, <2>1, <2>2
<1> QED BY <1>3, <1>5, <1>6, <1>7, <1>8, <1>9, <1>10 DEF PathEnds

WalkEdges(g, v, f, W) ==
  /\ \A j \in 1..(Len(W) - 1) : Entry(g, W[j + 1], W[j], f)
  /\ \A j \in 1..Len(W) : \A w : Entry(g, w, W[j], f) =>
       (j = Len(W) /\ w = v) \/ (j < Len(W) /\ w = W[j + 1])

LEMMA WalkOnEdges ==
  ASSUME NEW g, NEW v, NEW N, NEW O, NEW i, NEW f, NEW P, NEW W, WalkOn(g, v, N, O, i, f, P, W)
  PROVE  WalkEdges(g, v, f, W)
<1>1. PICK out : O \cup ToSet(P) \subseteq out /\ WholeWalk(g, v, f, N[i - 1], N[i], out, W)
  BY DEF WalkOn
<1>2. WholeWalk(g, v, f, N[i - 1], N[i], out, W)
  BY <1>1
<1> QED BY <1>2 DEF WholeWalk, WalkEdges

LEMMA PathGapsGrow ==
  ASSUME NEW g, NEW v, NEW N, NEW O, NEW i, NEW f, NEW P, NEW W, WalkOn(g, v, N, O, i, f, P, W),
         NEW Q, Joined(g.nodes, P, W, Q)
  PROVE  PathGaps(g, v, N, i, Q)
<1>1. /\ i \in 2..Len(N) /\ Len(N) \in Nat
      /\ W \in Path(g.nodes) /\ Len(W) \in Nat /\ Len(W) >= 2 /\ W[1] = N[i - 1]
      /\ OnFace(g, f) = ToSet(W) \cup {v} /\ v \notin ToSet(W)
      /\ \A j \in 2..Len(W) : W[j] \notin ToSet(P)
      /\ Entry(g, N[i - 1], v, f)
  BY WalkOnFacts DEF WalkedOn
<1>2. /\ \A j \in 1..(Len(W) - 1) : Entry(g, W[j + 1], W[j], f)
      /\ \A j \in 1..Len(W) : \A w : Entry(g, w, W[j], f) =>
           (j = Len(W) /\ w = v) \/ (j < Len(W) /\ w = W[j + 1])
  <2>1. WalkEdges(g, v, f, W)
    BY WalkOnEdges
  <2> QED BY <2>1 DEF WalkEdges
<1>3. IsEmbedding(g) /\ Gap(g, v, N, i, f) /\ PathGaps(g, v, N, i - 1, P) /\ P[Len(P)] = N[i - 1]
      /\ P \in Path(g.nodes)
  BY DEF WalkOn, PathInv, PathEnds
<1>4. /\ Q \in Path(g.nodes) /\ Len(P) \in Nat /\ Len(P) >= 1
      /\ Len(Q) = Len(P) + Len(W) - 1 /\ ToSet(Q) = ToSet(P) \cup ToSet(W)
      /\ \A j \in 1..Len(P) : Q[j] = P[j]
      /\ \A j \in 1..Len(W) : Q[Len(P) + j - 1] = W[j]
  BY DEF Joined
<1>5. \A j \in 1..(Len(P) - 1) : \E e \in 2..(i - 1) : \E h : Gap(g, v, N, e, h) /\ Entry(g, P[j + 1], P[j], h)
  BY <1>3 DEF PathGaps
<1>6. /\ \A e \in 2..(i - 1) : \A h : Gap(g, v, N, e, h) =>
           OnFace(g, h) \subseteq ToSet(P) \cup {v}
      /\ \A e \in 2..(i - 1) : \A h : Gap(g, v, N, e, h) =>
           \A j \in 1..Len(P) : \A w : Entry(g, w, P[j], h) => w = v \/ (j < Len(P) /\ w = P[j + 1])
  BY <1>3 DEF PathGaps
<1>7. ASSUME NEW j \in 1..(Len(Q) - 1)
      PROVE  \E e \in 2..i : \E h : Gap(g, v, N, e, h) /\ Entry(g, Q[j + 1], Q[j], h)
  <2>1. CASE j < Len(P)
    <3>1. j \in 1..(Len(P) - 1) /\ j \in 1..Len(P) /\ j + 1 \in 1..Len(P)
      BY <1>4, <2>1
    <3>2. PICK e \in 2..(i - 1) : \E h : Gap(g, v, N, e, h) /\ Entry(g, P[j + 1], P[j], h)
      BY <1>5, <3>1
    <3>3. Q[j] = P[j] /\ Q[j + 1] = P[j + 1] /\ e \in 2..i
      BY <1>1, <1>4, <3>1
    <3> QED BY <3>2, <3>3
  <2>2. CASE ~ j < Len(P)
    <3> DEFINE k == j - Len(P) + 1
    <3>1. k \in 1..(Len(W) - 1) /\ k \in 1..Len(W) /\ k + 1 \in 1..Len(W)
          /\ Len(P) + k - 1 = j /\ Len(P) + (k + 1) - 1 = j + 1
      BY <1>1, <1>4, <2>2
    <3> HIDE DEF k
    <3>2. Q[j] = W[k] /\ Q[j + 1] = W[k + 1] /\ i \in 2..i
      <4>1. Q[Len(P) + k - 1] = W[k] /\ Q[Len(P) + (k + 1) - 1] = W[k + 1]
        BY <1>4, <3>1
      <4>2. i \in 2..i
        BY <1>1
      <4> QED BY <3>1, <4>1, <4>2
    <3>3. Entry(g, W[k + 1], W[k], f)
      BY <1>2, <3>1
    <3>4. Entry(g, Q[j + 1], Q[j], f)
      BY <3>2, <3>3
    <3> QED BY <1>3, <3>2, <3>4
  <2> QED BY <2>1, <2>2
<1>8. ASSUME NEW h, Gap(g, v, N, i, h) PROVE h = f
  <2>1. Entry(g, N[i - 1], v, h)
    BY <1>8 DEF Gap
  <2> QED BY <1>1, <1>3, <2>1, EntryFacts
<1>9. ASSUME NEW e \in 2..i, NEW h, Gap(g, v, N, e, h) PROVE OnFace(g, h) \subseteq ToSet(Q) \cup {v}
  <2>1. CASE e = i
    BY <1>1, <1>4, <1>8, <1>9, <2>1
  <2>2. CASE e # i
    <3>1. e \in 2..(i - 1)
      BY <1>1, <2>2
    <3> QED BY <1>4, <1>6, <1>9, <3>1
  <2> QED BY <2>1, <2>2
<1>10. ASSUME NEW e \in 2..i, NEW h, Gap(g, v, N, e, h), NEW j \in 1..Len(Q), NEW w, Entry(g, w, Q[j], h)
       PROVE  w = v \/ (j < Len(Q) /\ w = Q[j + 1])
  <2>1. Q[j] \in OnFace(g, h) /\ w \in OnFace(g, h)
    BY <1>3, <1>10, EntryFacts
  <2>2. \/ j \in 1..Len(P) /\ Q[j] = P[j]
        \/ \E k \in 2..Len(W) : j = Len(P) + k - 1 /\ Q[j] = W[k]
    <3>1. JoinedPlace(P, W, Q, j)
      BY JoinedPlaces
    <3> QED BY <3>1 DEF JoinedPlace
  <2>3. CASE j \in 1..Len(P) /\ Q[j] = P[j] /\ e # i
    <3>1. e \in 2..(i - 1)
      BY <1>1, <2>3
    <3>2. w = v \/ (j < Len(P) /\ w = P[j + 1])
      BY <1>6, <1>10, <2>3, <3>1
    <3>3. CASE j < Len(P) /\ w = P[j + 1]
      <4>1. j + 1 \in 1..Len(P) /\ j < Len(Q)
        BY <1>1, <1>4, <3>3
      <4> QED BY <1>4, <3>3, <4>1
    <3> QED BY <3>2, <3>3
  <2>4. CASE j \in 1..Len(P) /\ Q[j] = P[j] /\ e = i
    <3>1. h = f
      BY <1>8, <1>10, <2>4
    <3>2. P[j] \in ToSet(P)
      BY <1>3, <2>4, PathIndices
    <3>3. CASE P[j] = v
      <4>1. v \notin ToSet(P)
        BY DEF WalkOn, PathInv, PathEnds
      <4> QED BY <3>2, <3>3, <4>1
    <3>4. CASE P[j] # v
      <4>1. P[j] \in ToSet(W)
        BY <1>1, <2>1, <2>4, <3>1, <3>4
      <4>2. PICK k \in 1..Len(W) : W[k] = P[j]
        BY <1>1, <4>1, PathIndices
      <4>3. k = 1
        <5> SUFFICES ASSUME k # 1 PROVE FALSE
          OBVIOUS
        <5>1. k \in 2..Len(W)
          BY <1>1
        <5> QED BY <1>1, <3>2, <4>2, <5>1
      <4>4. P[j] = P[Len(P)]
        BY <1>1, <1>3, <4>2, <4>3
      <4>5. j = Len(P)
        <5>1. Len(P) \in 1..Len(P)
          BY <1>4
        <5> QED BY <1>3, <2>4, <4>4, <5>1, PathIndices
      <4>6. Entry(g, w, W[1], f) /\ 1 \in 1..Len(W) /\ 2 \in 1..Len(W) /\ 1 + 1 = 2
        <5>1. 1 \in 1..Len(W) /\ 2 \in 1..Len(W) /\ 1 + 1 = 2
          BY <1>1
        <5>2. Entry(g, w, Q[j], h) /\ Q[j] = P[j] /\ W[1] = P[j]
          BY <1>10, <2>4, <4>2, <4>3
        <5>3. Entry(g, w, W[1], f)
          BY <3>1, <5>2
        <5> QED BY <5>1, <5>3
      <4>7. w = v \/ w = W[2]
        <5>1. (1 = Len(W) /\ w = v) \/ (1 < Len(W) /\ w = W[1 + 1])
          BY <1>2, <4>6
        <5> QED BY <4>6, <5>1
      <4>8. Q[j + 1] = W[2] /\ j < Len(Q)
        <5>1. Len(P) + 2 - 1 = j + 1
          BY <1>4, <4>5
        <5>2. Q[Len(P) + 2 - 1] = W[2]
          BY <1>4, <4>6
        <5> QED BY <1>1, <1>4, <4>5, <5>1, <5>2
      <4> QED BY <4>7, <4>8
    <3> QED BY <3>3, <3>4
  <2>5. CASE \E k \in 2..Len(W) : j = Len(P) + k - 1 /\ Q[j] = W[k]
    <3>1. PICK k \in 2..Len(W) : j = Len(P) + k - 1 /\ Q[j] = W[k]
      BY <2>5
    <3>2. k \in 1..Len(W) /\ W[k] \notin ToSet(P) /\ W[k] # v
      <4>1. k \in 1..Len(W)
        BY <1>1
      <4>2. W[k] \in ToSet(W)
        BY <1>1, <4>1, PathIndices
      <4> QED BY <1>1, <4>1, <4>2
    <3>3. CASE e # i
      <4>1. e \in 2..(i - 1)
        BY <1>1, <3>3
      <4>2. OnFace(g, h) \subseteq ToSet(P) \cup {v}
        BY <1>6, <1>10, <4>1
      <4> QED BY <2>1, <3>1, <3>2, <4>2
    <3>4. CASE e = i
      <4>1. Entry(g, w, W[k], f)
        BY <1>8, <1>10, <3>1, <3>4
      <4>2. w = v \/ (k < Len(W) /\ w = W[k + 1])
        BY <1>2, <3>2, <4>1
      <4>3. CASE k < Len(W) /\ w = W[k + 1]
        <5>1. k + 1 \in 1..Len(W) /\ Len(P) + (k + 1) - 1 = j + 1 /\ j < Len(Q)
          BY <1>1, <1>4, <3>1, <4>3
        <5>2. Q[j + 1] = W[k + 1]
          BY <1>4, <5>1
        <5> QED BY <4>3, <5>1, <5>2
      <4> QED BY <4>2, <4>3
    <3> QED BY <3>3, <3>4
  <2> QED BY <2>2, <2>3, <2>4, <2>5
<1>11. /\ \A j \in 1..(Len(Q) - 1) : \E e \in 2..i : \E h : Gap(g, v, N, e, h) /\ Entry(g, Q[j + 1], Q[j], h)
       /\ \A e \in 2..i : \A h : Gap(g, v, N, e, h) =>
            /\ OnFace(g, h) \subseteq ToSet(Q) \cup {v}
            /\ \A j \in 1..Len(Q) : \A w : Entry(g, w, Q[j], h) => w = v \/ (j < Len(Q) /\ w = Q[j + 1])
  BY <1>7, <1>9, <1>10
<1> QED BY <1>11 DEF PathGaps

LEMMA PathMeetsGrow ==
  ASSUME NEW g, NEW v, NEW N, NEW O, NEW i, NEW f, NEW P, NEW W, WalkOn(g, v, N, O, i, f, P, W)
  PROVE  PathMeets(g, v, N, O, i)
<1>1. /\ i \in 2..Len(N) /\ Len(N) \in Nat
      /\ W \in Path(g.nodes) /\ Len(W) \in Nat /\ Len(W) >= 2 /\ W[1] = N[i - 1] /\ W[Len(W)] = N[i]
      /\ OnFace(g, f) = ToSet(W) \cup {v}
      /\ \A j \in 2..(Len(W) - 1) : W[j] \notin O
      /\ Entry(g, N[i - 1], v, f)
  BY WalkOnFacts DEF WalkedOn
<1>2. IsEmbedding(g) /\ PathMeets(g, v, N, O, i - 1)
  BY DEF WalkOn, PathInv
<1>3. ASSUME NEW e \in 2..i, NEW h, Gap(g, v, N, e, h), NEW x \in OnFace(g, h), x \in O
      PROVE  x \in {v, N[e - 1], N[e]}
  <2>1. CASE e # i
    <3>1. e \in 2..(i - 1)
      BY <1>1, <2>1
    <3>2. OnFace(g, h) \cap O \subseteq {v, N[e - 1], N[e]}
      BY <1>2, <1>3, <3>1 DEF PathMeets
    <3> QED BY <1>3, <3>2
  <2>2. CASE e = i
    <3>1. h = f
      <4>1. Entry(g, N[i - 1], v, h)
        BY <1>3, <2>2 DEF Gap
      <4> QED BY <1>1, <1>2, <4>1, EntryFacts
    <3>2. CASE x \in ToSet(W)
      <4>1. PICK j \in 1..Len(W) : W[j] = x
        BY <1>1, <3>2, PathIndices
      <4>2. j = 1 \/ j = Len(W)
        <5> SUFFICES ASSUME j # 1, j # Len(W) PROVE FALSE
          OBVIOUS
        <5>1. j \in 2..(Len(W) - 1)
          BY <1>1
        <5> QED BY <1>1, <1>3, <4>1, <5>1
      <4> QED BY <1>1, <2>2, <4>1, <4>2
    <3>3. CASE x = v
      BY <3>3
    <3> QED BY <1>1, <1>3, <3>1, <3>2, <3>3
  <2> QED BY <2>1, <2>2
<1> QED BY <1>3 DEF PathMeets

LEMMA PathTurnsGrow ==
  ASSUME NEW g, NEW v, NEW N, NEW O, NEW i, NEW f, NEW P, NEW W, WalkOn(g, v, N, O, i, f, P, W),
         NEW Q, Joined(g.nodes, P, W, Q)
  PROVE  PathTurns(g, v, N, i, Q)
<1>1. /\ i \in 2..Len(N) /\ Len(N) \in Nat /\ Around(g, v) \subseteq O /\ ToSet(N) \subseteq Around(g, v)
      /\ N \in Path(g.nodes)
      /\ W \in Path(g.nodes) /\ Len(W) \in Nat /\ Len(W) >= 2 /\ W[1] = N[i - 1] /\ W[Len(W)] = N[i]
      /\ v \notin ToSet(W)
      /\ \A j \in 2..(Len(W) - 1) : W[j] \notin O
      /\ Entry(g, N[i - 1], v, f)
  BY WalkOnFacts DEF WalkedOn
<1>2. \A j \in 1..(Len(W) - 1) : Entry(g, W[j + 1], W[j], f)
  <2>1. WalkEdges(g, v, f, W)
    BY WalkOnEdges
  <2> QED BY <2>1 DEF WalkEdges
<1>3. IsEmbedding(g) /\ Gap(g, v, N, i, f) /\ PathTurns(g, v, N, i - 1, P)
      /\ P \in Path(g.nodes) /\ P[1] = N[1] /\ P[Len(P)] = N[i - 1] /\ v \notin ToSet(P)
  BY DEF WalkOn, PathInv, PathEnds
<1>4. /\ Q \in Path(g.nodes) /\ Len(P) \in Nat /\ Len(P) >= 1
      /\ Len(Q) = Len(P) + Len(W) - 1 /\ ToSet(Q) = ToSet(P) \cup ToSet(W)
      /\ \A j \in 1..Len(P) : Q[j] = P[j]
      /\ \A j \in 1..Len(W) : Q[Len(P) + j - 1] = W[j]
  BY DEF Joined
<1>5. /\ \A j \in 2..(Len(P) - 1) : Corner(g, {v}, P[j - 1], P[j], P[j + 1])
      /\ i - 1 > 1 => Len(P) >= 2 /\ FirstGap(g, v, N, P) /\ LastGap(g, v, N, i - 1, P)
  BY <1>3 DEF PathTurns
<1>6. i - 1 = 1 => Len(P) = 1
  <2> SUFFICES ASSUME i - 1 = 1 PROVE Len(P) = 1
    OBVIOUS
  <2>1. P[1] = P[Len(P)] /\ 1 \in 1..Len(P) /\ Len(P) \in 1..Len(P)
    BY <1>3, <1>4
  <2> QED BY <1>3, <2>1, PathIndices
<1>7. Entry(g, W[2], N[i - 1], f) /\ 2 \in 1..Len(W)
  <2>1. 1 \in 1..(Len(W) - 1) /\ 1 + 1 = 2 /\ 2 \in 1..Len(W)
    BY <1>1
  <2>2. Entry(g, W[1 + 1], W[1], f)
    BY <1>2, <2>1
  <2> QED BY <1>1, <2>1, <2>2
<1>8. ASSUME NEW j \in 2..(Len(Q) - 1) PROVE Corner(g, {v}, Q[j - 1], Q[j], Q[j + 1])
  <2>1. CASE j < Len(P)
    <3>1. j \in 2..(Len(P) - 1) /\ j - 1 \in 1..Len(P) /\ j \in 1..Len(P) /\ j + 1 \in 1..Len(P)
      BY <1>4, <2>1
    <3>2. Q[j - 1] = P[j - 1] /\ Q[j] = P[j] /\ Q[j + 1] = P[j + 1]
      BY <1>4, <3>1
    <3>3. Corner(g, {v}, P[j - 1], P[j], P[j + 1])
      BY <1>5, <3>1
    <3> QED BY <3>2, <3>3
  <2>2. CASE j = Len(P)
    <3> DEFINE u == N[i - 1]
    <3>1. Len(P) >= 2 /\ i - 1 > 1 /\ i - 1 \in 1..Len(N)
      BY <1>1, <1>6, <2>2
    <3>2. PICK h : Gap(g, v, N, i - 1, h) /\ Entry(g, P[Len(P)], P[Len(P) - 1], h)
      BY <1>5, <3>1 DEF LastGap
    <3>3. Q[j] = u /\ Q[j - 1] = P[Len(P) - 1] /\ Q[j + 1] = W[2]
      <4>1. Q[Len(P) + 2 - 1] = W[2] /\ Len(P) + 2 - 1 = j + 1
        BY <1>4, <1>7, <2>2
      <4>2. j \in 1..Len(P) /\ j - 1 \in 1..Len(P)
        BY <1>4, <2>2, <3>1
      <4>3. Q[j] = P[j] /\ Q[j - 1] = P[j - 1] /\ Q[j + 1] = W[2]
        BY <1>4, <4>1, <4>2
      <4> QED BY <1>3, <2>2, <4>3
    <3>4. Beside(g, u, W[2], v)
      BY <1>1, <1>7 DEF Beside
    <3>5. Beside(g, u, v, P[Len(P) - 1])
      <4>1. Entry(g, v, N[i - 1], h)
        BY <3>2 DEF Gap
      <4> QED BY <1>3, <3>2, <4>1 DEF Beside
    <3>6. Around(g, u) \cap {v} = {v}
      <4>1. u \in ToSet(N)
        BY <1>1, <3>1, PathIndices
      <4>2. v \in Around(g, u)
        BY <1>1, <1>3, <4>1, AroundEntry
      <4> QED BY <4>2
    <3>7. v # W[2] /\ v # P[Len(P) - 1]
      <4>1. W[2] \in ToSet(W)
        BY <1>1, <1>7, PathIndices
      <4>2. Len(P) - 1 \in 1..Len(P)
        BY <1>4, <3>1
      <4>3. P[Len(P) - 1] \in ToSet(P)
        BY <1>3, <4>2, PathIndices
      <4> QED BY <1>1, <1>3, <4>1, <4>3
    <3> HIDE DEF u
    <3>8. Corner(g, {v}, P[Len(P) - 1], u, W[2])
      BY <3>4, <3>5, <3>6, <3>7 DEF Corner
    <3> QED BY <3>3, <3>8
  <2>3. CASE j > Len(P)
    <3> DEFINE k == j - Len(P) + 1
    <3>1. k \in 2..(Len(W) - 1) /\ Len(P) + k - 1 = j /\ Len(P) + (k - 1) - 1 = j - 1
          /\ Len(P) + (k + 1) - 1 = j + 1
          /\ k \in 1..Len(W) /\ k - 1 \in 1..Len(W) /\ k + 1 \in 1..Len(W)
          /\ k \in 1..(Len(W) - 1) /\ k - 1 \in 1..(Len(W) - 1) /\ (k - 1) + 1 = k
      BY <1>1, <1>4, <2>3
    <3> HIDE DEF k
    <3>2. Q[j] = W[k] /\ Q[j - 1] = W[k - 1] /\ Q[j + 1] = W[k + 1]
      <4>1. Q[Len(P) + k - 1] = W[k] /\ Q[Len(P) + (k - 1) - 1] = W[k - 1] /\ Q[Len(P) + (k + 1) - 1] = W[k + 1]
        BY <1>4, <3>1
      <4> QED BY <3>1, <4>1
    <3>3. Beside(g, W[k], W[k + 1], W[k - 1])
      <4>1. Entry(g, W[k + 1], W[k], f) /\ Entry(g, W[(k - 1) + 1], W[k - 1], f)
        BY <1>2, <3>1
      <4>2. Entry(g, W[k], W[k - 1], f)
        BY <3>1, <4>1
      <4> QED BY <4>1, <4>2 DEF Beside
    <3>4. Around(g, W[k]) \cap {v} = {}
      <4>1. W[k] \notin Around(g, v)
        BY <1>1, <3>1
      <4>2. v \notin Around(g, W[k])
        BY <1>3, <4>1, AroundEntry
      <4> QED BY <4>2
    <3>5. Corner(g, {v}, W[k - 1], W[k], W[k + 1])
      BY <3>3, <3>4 DEF Corner
    <3> QED BY <3>2, <3>5
  <2>4. j \in Int /\ Len(P) \in Int
    BY <1>1, <1>4
  <2> QED BY <2>1, <2>2, <2>3, <2>4
<1>9. Len(Q) >= 2
  BY <1>1, <1>4
<1>10. FirstGap(g, v, N, Q)
  <2>1. CASE i - 1 = 1
    <3>1. i = 2 /\ Len(P) = 1
      BY <1>1, <1>6, <2>1
    <3>2. Q[2] = W[2] /\ Q[1] = N[i - 1]
      <4>1. Q[Len(P) + 2 - 1] = W[2] /\ Len(P) + 2 - 1 = 2
        BY <1>4, <1>7, <3>1
      <4>2. Q[1] = P[1]
        BY <1>4
      <4> QED BY <1>3, <3>1, <4>1, <4>2
    <3>3. Gap(g, v, N, 2, f) /\ Entry(g, Q[2], Q[1], f)
      BY <1>3, <1>7, <3>1, <3>2
    <3> QED BY <3>3 DEF FirstGap
  <2>2. CASE i - 1 # 1
    <3>1. i - 1 > 1
      BY <1>1, <2>2
    <3>2. Len(P) >= 2 /\ FirstGap(g, v, N, P)
      BY <1>5, <3>1
    <3>3. Q[1] = P[1] /\ Q[2] = P[2]
      BY <1>4, <3>2
    <3> QED BY <3>2, <3>3 DEF FirstGap
  <2> QED BY <2>1, <2>2
<1>11. LastGap(g, v, N, i, Q)
  <2>1. Len(W) \in 1..Len(W) /\ Len(W) - 1 \in 1..Len(W) /\ Len(W) - 1 \in 1..(Len(W) - 1)
        /\ Len(P) + Len(W) - 1 = Len(Q) /\ Len(P) + (Len(W) - 1) - 1 = Len(Q) - 1 /\ (Len(W) - 1) + 1 = Len(W)
    BY <1>1, <1>4
  <2>2. Q[Len(P) + Len(W) - 1] = W[Len(W)] /\ Q[Len(P) + (Len(W) - 1) - 1] = W[Len(W) - 1]
    BY <1>4, <2>1
  <2>3. Entry(g, W[(Len(W) - 1) + 1], W[Len(W) - 1], f)
    BY <1>2, <2>1
  <2>4. Entry(g, Q[Len(Q)], Q[Len(Q) - 1], f)
    BY <2>1, <2>2, <2>3
  <2> QED BY <1>3, <2>4 DEF LastGap
<1> QED BY <1>8, <1>9, <1>10, <1>11 DEF PathTurns

(* One more face.                                                          *)
LEMMA PathGrows ==
  ASSUME NEW g, NEW v, NEW N, NEW O, NEW i, NEW f, NEW P, NEW W, WalkOn(g, v, N, O, i, f, P, W)
  PROVE  PathInv(g, v, N, O, i, P \o Tail(W)) /\ Joined(g.nodes, P, W, P \o Tail(W))
<1> DEFINE Q == P \o Tail(W)
<1>1. Joined(g.nodes, P, W, Q)
  BY WalkJoins
<1> HIDE DEF Q
<1>2. PathEnds(g, v, N, O, i, Q)
  BY <1>1, PathEndsGrow
<1>3. PathGaps(g, v, N, i, Q)
  BY <1>1, PathGapsGrow
<1>4. PathMeets(g, v, N, O, i)
  BY PathMeetsGrow
<1>5. PathTurns(g, v, N, i, Q)
  BY <1>1, PathTurnsGrow
<1>6. PathInv(g, v, N, O, i, Q)
  BY <1>2, <1>3, <1>4, <1>5 DEF PathInv
<1> QED BY <1>1, <1>6 DEF Q

(***************************************************************************)
(* The state after the faces up to the i-th neighbour.                     *)
(***************************************************************************)
SameOff(t, u) ==
  /\ u.contour = t.contour /\ u.deg = t.deg /\ u.cutf = t.cutf /\ u.numsf = t.numsf
  /\ u.oute = t.oute /\ u.seqp = t.seqp
  /\ u.virtSrc = t.virtSrc /\ u.isSf = t.isSf /\ u.inF = t.inF /\ u.updF = t.updF
  /\ u.possF = t.possF /\ u.possV = t.possV /\ u.possE = t.possE
  /\ u.fLink = t.fLink /\ u.vLink = t.vLink /\ u.eLink = t.eLink
  /\ u.dangling = t.dangling /\ u.virt \subseteq t.virt

SameFaces(g, v, N, i, t, u) ==
  \A h \in DOMAIN g.faces : (\A e \in 2..i : ~ Gap(g, v, N, e, h)) =>
    u.outv[h] = t.outv[h] /\ u.outer[h] = t.outer[h]

LinksFrom(g, P, t, u) ==
  /\ \A x \in g.nodes : ~ ExceptLast(P, x) => u.nextSucc[x] = t.nextSucc[x]
  /\ \A x \in g.nodes : ~ ExceptFirst(P, x) => u.prevPred[x] = t.prevPred[x]

StateInv(g, v, N, i, P, t, u) ==
  /\ IsState(g, u) /\ SameOff(t, u) /\ SameFaces(g, v, N, i, t, u) /\ LinksFrom(g, P, t, u)
  /\ u.onOuter = t.onOuter \cup ToSet(P) /\ u.updV = t.updV \cup ToSet(P)
  /\ LinksOn(g, u, P)

LEMMA StateStarts ==
  ASSUME NEW g, NEW v, NEW N, NEW t, IsState(g, t), NEW P, Len(P) = 1,
         ToSet(P) \subseteq t.onOuter, ToSet(P) \subseteq t.updV
  PROVE  StateInv(g, v, N, 1, P, t, t)
<1>1. SameOff(t, t) /\ SameFaces(g, v, N, 1, t, t) /\ LinksFrom(g, P, t, t)
  BY DEF SameOff, SameFaces, LinksFrom
<1>2. LinksOn(g, t, P)
  BY DEF LinksOn
<1> QED BY <1>1, <1>2 DEF StateInv

LEMMA LinksOnJoined ==
  ASSUME NEW g, NEW P \in Path(g.nodes), NEW W \in Path(g.nodes), NEW Q, Joined(g.nodes, P, W, Q),
         P[Len(P)] = W[1], \A j \in 2..Len(W) : W[j] \notin ToSet(P),
         NEW t, LinksOn(g, t, P), NEW u, LinksOn(g, u, W), LinksFrom(g, W, t, u)
  PROVE  LinksOn(g, u, Q)
<1>1. /\ Q \in Path(g.nodes) /\ Len(P) \in Nat /\ Len(P) >= 1 /\ Len(W) \in Nat /\ Len(W) >= 2
      /\ Len(Q) = Len(P) + Len(W) - 1
      /\ \A j \in 1..Len(P) : Q[j] = P[j]
      /\ \A j \in 1..Len(W) : Q[Len(P) + j - 1] = W[j]
  BY DEF Joined
<1>2. /\ \A i, j \in 1..Len(P) : P[i] = P[j] => i = j
      /\ \A j \in 1..Len(P) : P[j] \in g.nodes /\ P[j] \in ToSet(P)
  BY PathIndices
<1>3. ASSUME NEW j \in 1..(Len(Q) - 1) PROVE LinkAt(g, u, Q[j], Q[j + 1])
  <2>1. CASE j < Len(P)
    <3>1. j \in 1..(Len(P) - 1) /\ j \in 1..Len(P) /\ j + 1 \in 1..Len(P) /\ Len(P) \in 1..Len(P)
      BY <1>1, <2>1
    <3>2. Q[j] = P[j] /\ Q[j + 1] = P[j + 1]
      BY <1>1, <3>1
    <3>3. LinkAt(g, t, P[j], P[j + 1])
      BY <3>1 DEF LinksOn
    <3>4. ~ ExceptLast(W, P[j])
      <4> SUFFICES ASSUME NEW k \in 1..(Len(W) - 1), W[k] = P[j] PROVE FALSE
        BY DEF ExceptLast
      <4>1. CASE k = 1
        <5>1. P[Len(P)] = P[j] /\ j # Len(P)
          BY <2>1, <4>1, <1>1
        <5> QED BY <1>2, <3>1, <5>1
      <4>2. CASE k # 1
        <5>1. k \in 2..Len(W)
          BY <1>1, <4>2
        <5> QED BY <1>2, <3>1, <5>1
      <4> QED BY <4>1, <4>2
    <3>5. ~ ExceptFirst(W, P[j + 1])
      BY <1>2, <3>1 DEF ExceptFirst
    <3>6. u.nextSucc[P[j]] = t.nextSucc[P[j]] /\ u.prevPred[P[j + 1]] = t.prevPred[P[j + 1]]
      BY <1>2, <3>1, <3>4, <3>5 DEF LinksFrom
    <3> QED BY <3>2, <3>3, <3>6 DEF LinkAt
  <2>2. CASE ~ j < Len(P)
    <3> DEFINE k == j - Len(P) + 1
    <3>1. k \in 1..(Len(W) - 1) /\ k \in 1..Len(W) /\ k + 1 \in 1..Len(W)
          /\ Len(P) + k - 1 = j /\ Len(P) + (k + 1) - 1 = j + 1
      BY <1>1, <2>2
    <3> HIDE DEF k
    <3>2. Q[Len(P) + k - 1] = W[k] /\ Q[Len(P) + (k + 1) - 1] = W[k + 1]
      BY <1>1, <3>1
    <3>3. LinkAt(g, u, W[k], W[k + 1])
      BY <3>1 DEF LinksOn
    <3> QED BY <3>1, <3>2, <3>3
  <2> QED BY <2>1, <2>2
<1> QED BY <1>3 DEF LinksOn

LEMMA LinksFromJoined ==
  ASSUME NEW g, NEW P, NEW W, NEW Q, Joined(g.nodes, P, W, Q),
         NEW t, NEW u, NEW w, LinksFrom(g, P, t, u), LinksFrom(g, W, u, w)
  PROVE  LinksFrom(g, Q, t, w)
<1>1. /\ Len(P) \in Nat /\ Len(P) >= 1 /\ Len(W) \in Nat /\ Len(W) >= 2
      /\ Len(Q) = Len(P) + Len(W) - 1
      /\ \A j \in 1..Len(P) : Q[j] = P[j]
      /\ \A j \in 1..Len(W) : Q[Len(P) + j - 1] = W[j]
  BY DEF Joined
<1>2. ASSUME NEW x, ExceptLast(P, x) PROVE ExceptLast(Q, x)
  <2>1. PICK j \in 1..(Len(P) - 1) : P[j] = x
    BY <1>2 DEF ExceptLast
  <2>2. j \in 1..Len(P) /\ j \in 1..(Len(Q) - 1)
    BY <1>1
  <2>3. Q[j] = x
    BY <1>1, <2>1, <2>2
  <2> QED BY <2>2, <2>3 DEF ExceptLast
<1>3. ASSUME NEW x, ExceptLast(W, x) PROVE ExceptLast(Q, x)
  <2>1. PICK j \in 1..(Len(W) - 1) : W[j] = x
    BY <1>3 DEF ExceptLast
  <2>2. j \in 1..Len(W) /\ Len(P) + j - 1 \in 1..(Len(Q) - 1)
    BY <1>1
  <2>3. Q[Len(P) + j - 1] = x
    BY <1>1, <2>1, <2>2
  <2> QED BY <2>2, <2>3 DEF ExceptLast
<1>4. ASSUME NEW x, ExceptFirst(P, x) PROVE ExceptFirst(Q, x)
  <2>1. PICK j \in 2..Len(P) : P[j] = x
    BY <1>4 DEF ExceptFirst
  <2>2. j \in 1..Len(P) /\ j \in 2..Len(Q)
    BY <1>1
  <2>3. Q[j] = x
    BY <1>1, <2>1, <2>2
  <2> QED BY <2>2, <2>3 DEF ExceptFirst
<1>5. ASSUME NEW x, ExceptFirst(W, x) PROVE ExceptFirst(Q, x)
  <2>1. PICK j \in 2..Len(W) : W[j] = x
    BY <1>5 DEF ExceptFirst
  <2>2. j \in 1..Len(W) /\ Len(P) + j - 1 \in 2..Len(Q)
    BY <1>1
  <2>3. Q[Len(P) + j - 1] = x
    BY <1>1, <2>1, <2>2
  <2> QED BY <2>2, <2>3 DEF ExceptFirst
<1>6. ASSUME NEW x \in g.nodes, ~ ExceptLast(Q, x) PROVE w.nextSucc[x] = t.nextSucc[x]
  <2>1. ~ ExceptLast(P, x) /\ ~ ExceptLast(W, x)
    BY <1>2, <1>3, <1>6
  <2> QED BY <2>1 DEF LinksFrom
<1>7. ASSUME NEW x \in g.nodes, ~ ExceptFirst(Q, x) PROVE w.prevPred[x] = t.prevPred[x]
  <2>1. ~ ExceptFirst(P, x) /\ ~ ExceptFirst(W, x)
    BY <1>4, <1>5, <1>7
  <2> QED BY <2>1 DEF LinksFrom
<1> QED BY <1>6, <1>7 DEF LinksFrom

LEMMA StateGrows ==
  ASSUME NEW g, NEW v, NEW N, NEW O, NEW i, NEW f, NEW P, NEW W, WalkOn(g, v, N, O, i, f, P, W),
         NEW Q, Joined(g.nodes, P, W, Q), NEW t, ToSet(N) \subseteq t.updV, NEW u, StateInv(g, v, N, i - 1, P, t, u),
         NEW w, WalkStep(g, u, f, W, w)
  PROVE  StateInv(g, v, N, i, Q, t, w)
<1>1. /\ N \in Path(g.nodes) /\ Len(N) \in Nat /\ i \in 2..Len(N)
      /\ W \in Path(g.nodes) /\ Len(W) \in Nat /\ Len(W) >= 2 /\ W[1] = N[i - 1] /\ W[Len(W)] = N[i]
      /\ \A j \in 2..Len(W) : W[j] \notin ToSet(P)
  BY WalkOnFacts DEF WalkedOn
<1>2. P \in Path(g.nodes) /\ P[Len(P)] = W[1] /\ Gap(g, v, N, i, f)
  BY <1>1 DEF WalkOn, PathInv, PathEnds
<1>3. /\ IsState(g, u) /\ SameOff(t, u) /\ SameFaces(g, v, N, i - 1, t, u) /\ LinksFrom(g, P, t, u)
      /\ u.onOuter = t.onOuter \cup ToSet(P) /\ u.updV = t.updV \cup ToSet(P)
      /\ LinksOn(g, u, P)
  BY DEF StateInv
<1>4. ToSet(Q) = ToSet(P) \cup ToSet(W)
  BY DEF Joined
<1>5. IsState(g, w) /\ LinksOn(g, w, W) /\ w.onOuter = u.onOuter \cup ToSet(W)
      /\ w.updV = u.updV \cup (ToSet(W) \ {W[1], W[Len(W)]})
  BY DEF WalkStep
<1>6. SameOff(u, w)
  BY DEF WalkStep, SameOff
<1>7. LinksFrom(g, W, u, w)
  BY DEF WalkStep, LinksFrom
<1>8. SameOff(t, w)
  BY <1>3, <1>6 DEF SameOff
<1>9. LinksFrom(g, Q, t, w)
  BY <1>3, <1>7, LinksFromJoined
<1>10. LinksOn(g, w, Q)
  BY <1>1, <1>2, <1>3, <1>5, <1>7, LinksOnJoined
<1>11. SameFaces(g, v, N, i, t, w)
  <2>1. ASSUME NEW h \in DOMAIN g.faces, \A e \in 2..i : ~ Gap(g, v, N, e, h)
        PROVE  w.outv[h] = t.outv[h] /\ w.outer[h] = t.outer[h]
    <3>1. h # f
      <4>1. i \in 2..i
        BY <1>1
      <4> QED BY <1>2, <2>1, <4>1
    <3>2. w.outv[h] = u.outv[h] /\ w.outer[h] = u.outer[h]
      BY <3>1 DEF WalkStep
    <3>3. \A e \in 2..(i - 1) : ~ Gap(g, v, N, e, h)
      <4>1. \A e \in 2..(i - 1) : e \in 2..i
        BY <1>1
      <4> QED BY <2>1, <4>1
    <3>4. u.outv[h] = t.outv[h] /\ u.outer[h] = t.outer[h]
      BY <1>3, <3>3 DEF SameFaces
    <3> QED BY <3>2, <3>4
  <2> QED BY <2>1 DEF SameFaces
<1>12. W[1] \in ToSet(N) /\ W[Len(W)] \in ToSet(N)
  <2>1. i - 1 \in 1..Len(N) /\ i \in 1..Len(N)
    BY <1>1
  <2> QED BY <1>1, <2>1, PathIndices
<1>13. w.onOuter = t.onOuter \cup ToSet(Q) /\ w.updV = t.updV \cup ToSet(Q)
  BY <1>3, <1>4, <1>5, <1>12
<1> QED BY <1>5, <1>8, <1>9, <1>10, <1>11, <1>13 DEF StateInv

(***************************************************************************)
(* FollowFaces, one face after the other.                                  *)
(***************************************************************************)
PotOf(v) ==
  IF prev(s, v) # vLeft /\ << prev(s, prev(s, v)), rightOf(s, prev(s, v)) >> \in s.inF
  THEN rightOf(s, prev(s, v)) ELSE None

FaceBelow(v, N, i) == IF i = 2 THEN rightOf(s, prev(s, v)) ELSE right(N[i - 1], v)

FollowAt(t, v, N, i, fVirt) ==
  FollowFace(t, v, FaceBelow(v, N, i), Back(FaceBelow(v, N, i), N[i - 1]), N[i], fVirt, PotOf(v))

FollowMore(v, N, fVirt, x, i) ==
  << x[1] \o Tail(FollowAt(x[2], v, N, i, fVirt)[1]), FollowAt(x[2], v, N, i, fVirt)[2] >>

FollowedOf(v, N, fVirt, first, n, g) ==
  g = [i \in 1..n |-> IF i = 1 THEN first ELSE FollowMore(v, N, fVirt, g[i - 1], i)]

LEMMA FollowedExists ==
  ASSUME NEW v, NEW N, NEW fVirt, NEW first, NEW n \in Nat, n >= 1
  PROVE  \E g : FollowedOf(v, N, fVirt, first, n, g)
<1> DEFINE Step(g, i) == IF i = 1 THEN first ELSE FollowMore(v, N, fVirt, g[i - 1], i)
           T == {m \in Int : \E g : g = [i \in 1..m |-> Step(g, i)]}
<1>1. 1 \in T
  <2> DEFINE g == [i \in 1..1 |-> first]
  <2>1. g = [i \in 1..1 |-> Step(g, i)]
    OBVIOUS
  <2> HIDE DEF g
  <2>2. \E f : f = [i \in 1..1 |-> Step(f, i)]
    BY <2>1, Zenon
  <2>3. 1 \in Int
    OBVIOUS
  <2> QED BY <2>2, <2>3, Zenon
<1>2. ASSUME NEW m \in 1..(n - 1), m \in T PROVE m + 1 \in T
  <2>1. PICK g : g = [i \in 1..m |-> Step(g, i)]
    BY <1>2
  <2> DEFINE h == [i \in 1..(m + 1) |-> Step(g, i)]
  <2>2. h = [i \in 1..(m + 1) |-> Step(h, i)]
    <3>1. ASSUME NEW i \in 1..(m + 1) PROVE Step(h, i) = Step(g, i)
      <4>1. CASE i = 1
        BY <4>1
      <4>2. CASE i # 1
        <5>1. i - 1 \in 1..m
          BY <4>2
        <5>2. h[i - 1] = Step(g, i - 1)
          BY <5>1
        <5>3. g[i - 1] = Step(g, i - 1)
          BY <5>1, <2>1, Zenon
        <5> QED BY <5>2, <5>3
      <4> QED BY <4>1, <4>2
    <3> QED BY <3>1
  <2> HIDE DEF h
  <2>3. \E f : f = [i \in 1..(m + 1) |-> Step(f, i)]
    BY <2>2, Zenon
  <2>4. m + 1 \in Int
    OBVIOUS
  <2> QED BY <2>3, <2>4, Zenon
<1> HIDE DEF T
<1>3. n \in T
  BY <1>1, <1>2, Upwards
<1>4. \E g : g = [i \in 1..n |-> Step(g, i)]
  BY <1>3, Zenon DEF T
<1> QED BY <1>4 DEF FollowedOf

LEMMA FollowFacesAre ==
  ASSUME NEW v, NEW N, DOMAIN N = 1..Len(N), Len(N) \in Nat, Len(N) >= 1, NEW fVirt
  PROVE  \E g : /\ FollowedOf(v, N, fVirt, << << prev(s, v) >>, TakeNode(v, getAdjFaces(s, v), N) >>, Len(N), g)
                /\ FollowFaces(v, N, fVirt) = g[Len(N)]
<1> DEFINE first == << << prev(s, v) >>, TakeNode(v, getAdjFaces(s, v), N) >>
           step(h, i) == IF i = 1 THEN first ELSE FollowMore(v, N, fVirt, h[i - 1], i)
           followed == CHOOSE h : h = [i \in DOMAIN N |-> step(h, i)]
<1>1. FollowFaces(v, N, fVirt) = followed[Len(N)]
  BY DEF FollowFaces, FollowMore, FollowAt, FaceBelow, PotOf
<1>2. followed = CHOOSE h : FollowedOf(v, N, fVirt, first, Len(N), h)
  <2>1. followed = CHOOSE h : h = [i \in 1..Len(N) |-> step(h, i)]
    OBVIOUS
  <2> QED BY <2>1 DEF FollowedOf
<1> HIDE DEF followed, first
<1>3. FollowedOf(v, N, fVirt, first, Len(N), followed)
  <2>1. \E h : FollowedOf(v, N, fVirt, first, Len(N), h)
    BY FollowedExists
  <2> QED BY <1>2, <2>1, Zenon
<1> QED BY <1>1, <1>3 DEF first

NodeStart(b, c, R, k, v, N, t) ==
  /\ NodeAt(E, b, c, R, k, v, N) /\ IsState(E, t)
  /\ t.onOuter = ToSet(c) \cup R \cup ToSet(N) /\ ToSet(N) \subseteq t.updV
  /\ prev(s, v) = N[1] /\ Entry(E, N[1], v, rightOf(s, N[1]))

FoundSoFar(v, N, O, i, t, x) ==
  \/ PathInv(E, v, N, O, i, x[1]) /\ StateInv(E, v, N, i, x[1], t, x[2])
  \/ CutAt(N, i, x[2])

LEMMA RoundOfNode ==
  ASSUME NEW g, IsEmbedding(g), NEW b, NEW c, NEW R, NEW k, NEW v, NEW N, NodeAt(g, b, c, R, k, v, N),
         NEW O, O = ToSet(c) \cup R \cup ToSet(N)
  PROVE  NodeRound(g, v, N, O) /\ v \notin ToSet(N) /\ v \in ToSet(c) /\ v \notin R
<1>1. /\ ContourShape(g, b, c, R) /\ k \in 2..(Len(c) - 1) /\ v = c[k]
      /\ N \in Path(g.nodes) /\ Len(N) >= 3 /\ ToSet(N) = Around(g, v) \ R
  BY DEF NodeAt
<1>2. Len(N) \in Nat
  BY <1>1, PathIndices
<1>3. v \in g.nodes /\ v \in ToSet(c) /\ v \notin R
  <2>1. Len(c) \in Nat /\ \A i \in 1..Len(c) : c[i] \in g.nodes /\ c[i] \in ToSet(c) /\ c[i] \notin R
    BY <1>1, ContourIndices
  <2>2. k \in 1..Len(c)
    BY <1>1, <2>1
  <2> QED BY <1>1, <2>1, <2>2
<1>4. v \notin Around(g, v)
  BY AroundEntry, EntryFacts
<1> QED BY <1>1, <1>2, <1>3, <1>4 DEF NodeRound

LEMMA BelowIsGap ==
  ASSUME IsEmbedding(E), NEW c, NEW R, NEW k, NEW v, NEW N, NEW t, NodeStart(base, c, R, k, v, N, t),
         NEW i \in 2..Len(N)
  PROVE  Gap(E, v, N, i, FaceBelow(v, N, i))
<1>1. /\ NodeAt(E, base, c, R, k, v, N)
      /\ prev(s, v) = N[1] /\ Entry(E, N[1], v, rightOf(s, N[1]))
  BY DEF NodeStart
<1>2. \E f : Gap(E, v, N, i, f)
  BY <1>1, GapsOfNode DEF NodeGaps
<1>3. PICK f : Gap(E, v, N, i, f)
  BY <1>2
<1>4. Entry(E, N[i - 1], v, f)
  BY <1>3 DEF Gap
<1>5. Entry(E, N[i - 1], v, FaceBelow(v, N, i))
  <2>1. CASE i = 2
    <3>1. FaceBelow(v, N, i) = rightOf(s, N[1]) /\ N[i - 1] = N[1]
      BY <1>1, <2>1 DEF FaceBelow
    <3> QED BY <1>1, <3>1
  <2>2. CASE i # 2
    <3>1. v \in Around(E, N[i - 1])
      BY <1>4, EntryFacts
    <3>2. FaceBelow(v, N, i) = right(N[i - 1], v)
      BY <2>2 DEF FaceBelow
    <3> QED BY <3>1, <3>2, RightIsEntry
  <2> QED BY <2>1, <2>2
<1>6. FaceBelow(v, N, i) = f
  BY <1>4, <1>5, EntryFacts
<1> QED BY <1>3, <1>6

LEMMA FollowMoreFound ==
  ASSUME IsEmbedding(E), NEW c, NEW R, NEW k, NEW v, NEW N, NEW t, NodeStart(base, c, R, k, v, N, t),
         NEW O, O = ToSet(c) \cup R \cup ToSet(N), NEW i \in 2..Len(N), NEW fVirt,
         NEW x, FoundSoFar(v, N, O, i - 1, t, x), NEW y, y = FollowMore(v, N, fVirt, x, i)
  PROVE  FoundSoFar(v, N, O, i, t, y)
<1> DEFINE f == FaceBelow(v, N, i)
           p == N[i - 1]
           q == N[i]
           B == Back(f, p)
           k1 == Min(Stops(x[2], B, q))
           r == FollowFace(x[2], v, f, B, q, fVirt, PotOf(v))
<1>1. y = << x[1] \o Tail(r[1]), r[2] >>
  BY DEF FollowMore, FollowAt
<1>2. Gap(E, v, N, i, f)
  BY BelowIsGap
<1>3. Entry(E, p, v, f) /\ Entry(E, v, q, f)
  BY <1>2 DEF Gap
<1> HIDE DEF f
<1>4. f \in DOMAIN E.faces /\ p \in OnFace(E, f)
  BY <1>3, EntryFacts
<1>5. BackFrom(E, f, p, B)
  BY <1>4, BackIsBack
<1> HIDE DEF B, p, q
<1>6. RoundTrip(E, v, f, p, q, B)
  BY <1>3, <1>5, BackWalk
<1>7. StopsAt(x[2], B, q, k1)
  BY <1>6, StopIs DEF RoundTrip
<1>8. FollowsWhole(x[2], v, f, B, q, k1, r) \/ FollowsCut(x[2], v, f, B, q, fVirt, PotOf(v), k1, r)
  BY FollowIs
<1> HIDE DEF k1, r
<1>9. B \in Path(E.nodes) /\ B[1] = N[i - 1]
  BY <1>5 DEF BackFrom, p
<1>10. NodeRound(E, v, N, O) /\ N \in Path(E.nodes)
  <2>1. NodeAt(E, base, c, R, k, v, N)
    BY DEF NodeStart
  <2>2. NodeRound(E, v, N, O)
    BY <2>1, RoundOfNode
  <2> QED BY <2>2 DEF NodeRound
<1>11. y[2] = r[2] /\ y[1] = x[1] \o Tail(r[1])
  <2> DEFINE longer == x[1] \o Tail(r[1])
             state == r[2]
  <2>1. y = << longer, state >>
    BY <1>1
  <2> HIDE DEF longer, state
  <2>2. y[1] = longer /\ y[2] = state
    BY <2>1
  <2> QED BY <2>2 DEF longer, state
<1>12. CASE CutAt(N, i - 1, x[2])
  <2>1. CutAt(N, i, r[2])
    BY <1>7, <1>8, <1>9, <1>10, <1>12, FollowKeepsCut
  <2> QED BY <1>11, <2>1 DEF FoundSoFar
<1>13. CASE PathInv(E, v, N, O, i - 1, x[1]) /\ StateInv(E, v, N, i - 1, x[1], t, x[2])
  <2>1. IsState(E, x[2]) /\ x[2].onOuter = t.onOuter \cup ToSet(x[1])
    BY <1>13 DEF StateInv
  <2>2. t.onOuter = O /\ ToSet(N) \subseteq t.updV
    BY DEF NodeStart
  <2>3. CASE FollowsCut(x[2], v, f, B, q, fVirt, PotOf(v), k1, r)
    <3>1. DOMAIN x[2] = Fields /\ ToSet(N) \subseteq x[2].onOuter
      BY <2>1, <2>2 DEF IsState
    <3>2. CutAt(N, i, r[2])
      BY <1>7, <1>9, <1>10, <2>3, <3>1, FollowCuts
    <3> QED BY <1>11, <3>2 DEF FoundSoFar
  <2>4. CASE FollowsWhole(x[2], v, f, B, q, k1, r)
    <3>1. WholeWalk(E, v, f, p, q, x[2].onOuter, r[1]) /\ WalkStep(E, x[2], f, r[1], r[2])
      BY <1>6, <1>7, <2>1, <2>4, FollowWalks
    <3>2. WalkOn(E, v, N, O, i, f, x[1], r[1])
      <4>1. O \cup ToSet(x[1]) \subseteq x[2].onOuter /\ WholeWalk(E, v, f, N[i - 1], N[i], x[2].onOuter, r[1])
        BY <2>1, <2>2, <3>1 DEF p, q
      <4> QED BY <1>2, <1>10, <1>13, <4>1 DEF WalkOn
    <3>3. PathInv(E, v, N, O, i, y[1]) /\ Joined(E.nodes, x[1], r[1], y[1])
      BY <1>11, <3>2, PathGrows
    <3>4. StateInv(E, v, N, i, y[1], t, r[2])
      BY <1>13, <2>2, <3>1, <3>2, <3>3, StateGrows
    <3> QED BY <1>11, <3>3, <3>4 DEF FoundSoFar
  <2> QED BY <1>8, <2>3, <2>4
<1> QED BY <1>12, <1>13 DEF FoundSoFar

LEMMA FollowedFound ==
  ASSUME IsEmbedding(E), NEW c, NEW R, NEW k, NEW v, NEW N, NodeStart(base, c, R, k, v, N, TakeNode(v, getAdjFaces(s, v), N)),
         NEW t, t = TakeNode(v, getAdjFaces(s, v), N),
         NEW O, O = ToSet(c) \cup R \cup ToSet(N), NEW fVirt
  PROVE  FoundSoFar(v, N, O, Len(N), t, FollowFaces(v, N, fVirt))
<1>1. NodeStart(base, c, R, k, v, N, t)
  OBVIOUS
<1>2. NodeRound(E, v, N, O) /\ v \notin ToSet(N)
  BY <1>1, RoundOfNode DEF NodeStart
<1>3. N \in Path(E.nodes) /\ Len(N) \in Nat /\ Len(N) >= 3
  BY <1>2 DEF NodeRound
<1>4. DOMAIN N = 1..Len(N)
  BY <1>3, PathIndices
<1> DEFINE first == << << prev(s, v) >>, t >>
<1>5. \E h : FollowedOf(v, N, fVirt, first, Len(N), h) /\ FollowFaces(v, N, fVirt) = h[Len(N)]
  BY <1>3, <1>4, FollowFacesAre
<1>6. PICK h : FollowedOf(v, N, fVirt, first, Len(N), h) /\ FollowFaces(v, N, fVirt) = h[Len(N)]
  BY <1>5
<1>7. h = [i \in 1..Len(N) |-> IF i = 1 THEN first ELSE FollowMore(v, N, fVirt, h[i - 1], i)]
  BY <1>6 DEF FollowedOf
<1>8. h[1] = first /\ \A i \in 2..Len(N) : h[i] = FollowMore(v, N, fVirt, h[i - 1], i)
  <2>1. 1 \in 1..Len(N) /\ \A i \in 2..Len(N) : i \in 1..Len(N) /\ i # 1
    BY <1>3
  <2> QED BY <1>7, <2>1
<1>9. FoundSoFar(v, N, O, 1, t, h[1])
  <2>1. PathInv(E, v, N, O, 1, << N[1] >>)
    BY <1>2, PathStarts
  <2>2. prev(s, v) = N[1] /\ IsState(E, t) /\ t.onOuter = ToSet(c) \cup R \cup ToSet(N) /\ ToSet(N) \subseteq t.updV
    BY <1>1 DEF NodeStart
  <2>3. N[1] \in E.nodes /\ N[1] \in ToSet(N)
    <3>1. 1 \in 1..Len(N)
      BY <1>3
    <3> QED BY <1>3, <3>1, PathIndices
  <2>4. ToSet(<< N[1] >>) = {N[1]} /\ Len(<< N[1] >>) = 1
    BY <2>3, PathOfOne
  <2>5. StateInv(E, v, N, 1, << N[1] >>, t, t)
    BY <2>2, <2>3, <2>4, StateStarts
  <2>6. h[1][1] = << N[1] >> /\ h[1][2] = t
    BY <1>8, <2>2
  <2> QED BY <2>1, <2>5, <2>6 DEF FoundSoFar
<1> DEFINE T == {i \in Int : FoundSoFar(v, N, O, i, t, h[i])}
<1>10. 1 \in T
  BY <1>9
<1>11. ASSUME NEW i \in 1..(Len(N) - 1), i \in T PROVE i + 1 \in T
  <2>1. i + 1 \in 2..Len(N) /\ (i + 1) - 1 = i
    BY <1>3
  <2>2. h[i + 1] = FollowMore(v, N, fVirt, h[i], i + 1)
    BY <1>8, <2>1
  <2>3. FoundSoFar(v, N, O, (i + 1) - 1, t, h[i])
    BY <1>11, <2>1
  <2>4. FoundSoFar(v, N, O, i + 1, t, h[i + 1])
    BY <1>1, <2>1, <2>2, <2>3, FollowMoreFound
  <2> QED BY <2>4
<1> HIDE DEF T
<1>12. Len(N) \in T
  <2>1. 1 \in Int /\ Len(N) \in Int /\ Len(N) \in 1..Len(N)
    BY <1>3
  <2> QED BY <1>10, <1>11, <2>1, Upwards
<1>13. FoundSoFar(v, N, O, Len(N), t, h[Len(N)])
  BY <1>12 DEF T
<1> QED BY <1>6, <1>13

(***************************************************************************)
(* A face that does not separate meets the contour in one piece.           *)
(***************************************************************************)
OnePiece(g, c, f) ==
  /\ Cardinality(ToSet(c) \cap OnFace(g, f)) \in Int /\ Cardinality(FacePairs(g, c, f)) \in Int
  /\ Cardinality(ToSet(c) \cap OnFace(g, f)) <= Cardinality(FacePairs(g, c, f)) + 1

LEMMA PieceGoesOn ==
  ASSUME NEW g, NEW c \in Path(g.nodes), NEW f, OnePiece(g, c, f),
         NEW i \in 1..Len(c), NEW j \in 1..Len(c), i < j, c[i] \in OnFace(g, f), c[j] \in OnFace(g, f)
  PROVE  c[i + 1] \in OnFace(g, f)
<1> DEFINE S == Places(g, c, f)
           I == FacePairs(g, c, f)
<1>1. Len(c) \in Nat
  BY PathIndices
<1>2. IsFiniteSet(S) /\ Cardinality(S) = Cardinality(ToSet(c) \cap OnFace(g, f))
  BY PlacesCount
<1>3. \A x : x \in S <=> x \in 1..Len(c) /\ c[x] \in OnFace(g, f)
  BY DEF Places
<1>4. \A x : x \in I <=> x \in 1..(Len(c) - 1) /\ c[x] \in OnFace(g, f) /\ c[x + 1] \in OnFace(g, f)
  BY DEF FacePairs
<1>5. Cardinality(S) \in Int /\ Cardinality(I) \in Int /\ Cardinality(S) <= Cardinality(I) + 1
  BY <1>2 DEF OnePiece
<1> HIDE DEF S, I
<1> SUFFICES ASSUME c[i + 1] \notin OnFace(g, f) PROVE FALSE
  OBVIOUS
<1>6. S \in SUBSET Int /\ \A x \in S : x <= Len(c) /\ x \in Int /\ x >= 1
  BY <1>1, <1>3
<1>7. i \in S /\ j \in S /\ S # {}
  BY <1>3
<1>8. Max(S) \in S /\ \A x \in S : x <= Max(S)
  <2>1. Len(c) \in Int /\ \A x \in S : x <= Len(c)
    BY <1>1, <1>6
  <2> QED BY <1>6, <1>7, <2>1, BoundedMax
<1> DEFINE m == Max(S)
<1>9. m \in S /\ m \in Int /\ j <= m
  BY <1>6, <1>7, <1>8
<1> HIDE DEF m
<1>16. i # m
  BY <1>1, <1>9
<1>10. i \notin I /\ m \notin I
  <2>1. i \notin I
    BY <1>4
  <2>2. m + 1 \notin S
    <3> SUFFICES ASSUME m + 1 \in S PROVE FALSE
      OBVIOUS
    <3>1. m + 1 <= m
      BY <1>8 DEF m
    <3> QED BY <1>9, <3>1
  <2>3. ASSUME m \in I PROVE FALSE
    <3>1. m \in 1..(Len(c) - 1) /\ c[m + 1] \in OnFace(g, f)
      BY <1>4, <2>3
    <3>2. m + 1 \in 1..Len(c)
      BY <1>1, <3>1
    <3>3. m + 1 \in S
      BY <1>3, <3>1, <3>2
    <3> QED BY <2>2, <3>3
  <2> QED BY <2>1, <2>3
<1>11. I \subseteq S \ {i, m}
  <2> SUFFICES ASSUME NEW x \in I PROVE x \in S \ {i, m}
    OBVIOUS
  <2>1. x \in 1..(Len(c) - 1) /\ c[x] \in OnFace(g, f)
    BY <1>4
  <2>2. x \in 1..Len(c)
    BY <1>1, <2>1
  <2> QED BY <1>3, <1>10, <2>1, <2>2
<1>12. IsFiniteSet(S \ {i, m}) /\ Cardinality(I) <= Cardinality(S \ {i, m})
  <2>1. S \ {i, m} \in SUBSET S
    OBVIOUS
  <2>2. IsFiniteSet(S \ {i, m})
    BY <1>2, <2>1, CountSubset
  <2> QED BY <1>11, <2>2, CountSubset
<1>13. IsFiniteSet({i, m}) /\ Cardinality({i, m}) = 2
  BY <1>16, PairCardinality
<1>14. Cardinality(S) = Cardinality(S \ {i, m}) + Cardinality({i, m})
  <2>1. S = (S \ {i, m}) \cup {i, m} /\ (S \ {i, m}) \cap {i, m} = {}
    BY <1>7, <1>9
  <2> QED BY <1>12, <1>13, <2>1, CountDisjoint
<1>15. Cardinality(S \ {i, m}) \in Int
  <2>1. S \ {i, m} \in SUBSET S
    OBVIOUS
  <2> QED BY <1>2, <2>1, CountSubset
<1> QED BY <1>5, <1>12, <1>13, <1>14, <1>15

LEMMA PieceReaches ==
  ASSUME NEW g, NEW c \in Path(g.nodes), NEW f, OnePiece(g, c, f),
         NEW j \in 1..Len(c), NEW k \in 1..Len(c), j < k, c[j] \in OnFace(g, f), c[k] \in OnFace(g, f)
  PROVE  c[k - 1] \in OnFace(g, f)
<1>1. Len(c) \in Nat
  BY PathIndices
<1> DEFINE T == {i \in Int : c[i] \in OnFace(g, f)}
<1>2. j \in T
  BY <1>1
<1>3. ASSUME NEW i \in j..(k - 1 - 1), i \in T PROVE i + 1 \in T
  <2>1. i \in 1..Len(c) /\ i < k
    BY <1>1
  <2>2. c[i + 1] \in OnFace(g, f)
    BY <1>3, <2>1, PieceGoesOn
  <2> QED BY <2>2
<1> HIDE DEF T
<1>4. k - 1 \in T
  <2>1. j \in Int /\ k - 1 \in Int /\ k - 1 \in j..(k - 1)
    BY <1>1
  <2> QED BY <1>2, <1>3, <2>1, Upwards
<1> QED BY <1>4 DEF T

(* No other neighbour of the node was on the contour.                      *)
LEMMA NodeOffContour ==
  ASSUME NEW g, IsEmbedding(g), NEW b, NEW c, NEW R, NEW k, NEW v, NEW N, NodeAt(g, b, c, R, k, v, N),
         NEW O, O = ToSet(c) \cup R \cup ToSet(N), PathMeets(g, v, N, O, Len(N)),
         \A f \in Whole(g, R) : v \in OnFace(g, f) => OnePiece(g, c, f),
         NEW i \in 2..(Len(N) - 1)
  PROVE  N[i] \notin ToSet(c)
<1> SUFFICES ASSUME N[i] \in ToSet(c) PROVE FALSE
  OBVIOUS
<1>1. /\ ContourShape(g, b, c, R) /\ k \in 2..(Len(c) - 1) /\ v = c[k]
      /\ N \in Path(g.nodes) /\ Len(N) >= 3 /\ N[1] = c[k - 1] /\ N[Len(N)] = c[k + 1]
  BY DEF NodeAt
<1>2. /\ Len(N) \in Nat /\ (\A x, y \in 1..Len(N) : N[x] = N[y] => x = y)
      /\ \A x \in 1..Len(N) : N[x] \in ToSet(N)
  BY <1>1, PathIndices
<1>3. /\ Len(c) \in Nat /\ c \in Path(g.nodes)
      /\ \A x : x \in ToSet(c) <=> \E j \in 1..Len(c) : c[j] = x
  <2>1. c \in Path(g.nodes)
    BY <1>1 DEF ContourShape
  <2> QED BY <2>1, PathIndices
<1>4. v \notin ToSet(N)
  BY RoundOfNode
<1>5. PICK j \in 1..Len(c) : c[j] = N[i]
  BY <1>3
<1>6. /\ i \in 1..Len(N) /\ i + 1 \in 1..Len(N) /\ i - 1 \in 1..Len(N) /\ 1 \in 1..Len(N) /\ Len(N) \in 1..Len(N)
      /\ i \in 2..Len(N) /\ i + 1 \in 2..Len(N) /\ (i + 1) - 1 = i
      /\ i # 1 /\ i + 1 # 1 /\ i # Len(N) /\ i - 1 # Len(N)
  BY <1>2
<1>7. j # k /\ k \in 1..Len(c)
  BY <1>1, <1>2, <1>3, <1>4, <1>5, <1>6
<1>8. /\ \A e \in 2..Len(N) : \E f : Gap(g, v, N, e, f)
      /\ \A e, f : Gap(g, v, N, e, f) => f \in Whole(g, R) /\ v \in OnFace(g, f)
  <2>1. NodeGaps(g, R, v, N)
    BY GapsOfNode
  <2> QED BY <2>1 DEF NodeGaps
<1>9. N[1] \in O /\ N[Len(N)] \in O
  BY <1>2, <1>6
<1>10. CASE j < k
  <2>1. PICK f : Gap(g, v, N, i + 1, f)
    BY <1>6, <1>8
  <2>2. f \in Whole(g, R) /\ v \in OnFace(g, f)
    BY <1>8, <2>1
  <2>3. N[i] \in OnFace(g, f)
    <3>1. Entry(g, N[(i + 1) - 1], v, f)
      BY <2>1 DEF Gap
    <3> QED BY <1>6, <3>1, EntryFacts
  <2>4. c[k - 1] \in OnFace(g, f)
    BY <1>1, <1>3, <1>5, <1>7, <1>10, <2>2, <2>3, PieceReaches
  <2>5. N[1] \in {v, N[(i + 1) - 1], N[i + 1]}
    <3>1. OnFace(g, f) \cap O \subseteq {v, N[(i + 1) - 1], N[i + 1]}
      BY <1>6, <2>1 DEF PathMeets
    <3> QED BY <1>1, <1>9, <2>4, <3>1
  <2> QED BY <1>2, <1>4, <1>6, <2>5
<1>11. CASE k < j
  <2>1. PICK f : Gap(g, v, N, i, f)
    BY <1>6, <1>8
  <2>2. f \in Whole(g, R) /\ v \in OnFace(g, f)
    BY <1>8, <2>1
  <2>3. N[i] \in OnFace(g, f)
    <3>1. Entry(g, v, N[i], f)
      BY <2>1 DEF Gap
    <3> QED BY <3>1, EntryFacts
  <2>4. c[k + 1] \in OnFace(g, f)
    BY <1>1, <1>3, <1>5, <1>7, <1>11, <2>2, <2>3, PieceGoesOn
  <2>5. N[Len(N)] \in {v, N[i - 1], N[i]}
    <3>1. OnFace(g, f) \cap O \subseteq {v, N[i - 1], N[i]}
      BY <1>6, <2>1 DEF PathMeets
    <3> QED BY <1>1, <1>9, <2>4, <3>1
  <2> QED BY <1>2, <1>4, <1>6, <2>5
<1> QED BY <1>3, <1>7, <1>10, <1>11

(* What follows a node on the whole has swept over it.                     *)
LEMMA NodeSwept ==
  ASSUME NEW g, IsEmbedding(g), NEW b, NEW c, NEW R, NEW k, NEW v, NEW N, NodeAt(g, b, c, R, k, v, N),
         NEW O, O = ToSet(c) \cup R \cup ToSet(N), NEW P, PathInv(g, v, N, O, Len(N), P),
         \A i \in 2..(Len(N) - 1) : N[i] \notin ToSet(c)
  PROVE  Swept(g, c, R, {v}, k - 1, k + 1, P)
<1> DEFINE m == Len(N)
<1>1. /\ ContourShape(g, b, c, R) /\ k \in 2..(Len(c) - 1) /\ v = c[k]
      /\ N \in Path(g.nodes) /\ Len(N) >= 3 /\ N[1] = c[k - 1] /\ N[Len(N)] = c[k + 1]
      /\ ToSet(N) = Around(g, v) \ R
  BY DEF NodeAt
<1>2. /\ Len(N) \in Nat /\ (\A x, y \in 1..Len(N) : N[x] = N[y] => x = y)
      /\ \A x \in 1..Len(N) : N[x] \in ToSet(N)
  BY <1>1, PathIndices
<1>3. /\ Len(c) \in Nat /\ c \in Path(g.nodes)
      /\ \A x, y \in 1..Len(c) : c[x] = c[y] => x = y
  <2>1. c \in Path(g.nodes)
    BY <1>1 DEF ContourShape
  <2> QED BY <2>1, PathIndices
<1>4. PathEnds(g, v, N, O, m, P) /\ PathGaps(g, v, N, m, P) /\ PathTurns(g, v, N, m, P)
  BY DEF PathInv
<1>5. /\ P \in Path(g.nodes) /\ Len(P) \in Nat
      /\ P[1] = N[1] /\ P[Len(P)] = N[m] /\ v \notin ToSet(P)
      /\ \A e \in 1..m : N[e] \in ToSet(P)
      /\ \A u \in ToSet(P) : u \in O => \E e \in 1..m : u = N[e]
  BY <1>4 DEF PathEnds
<1>6. Len(P) >= 2 /\ FirstGap(g, v, N, P) /\ LastGap(g, v, N, m, P)
  BY <1>1, <1>2, <1>4 DEF PathTurns
<1>7. /\ k - 1 \in 1..Len(c) /\ k + 1 \in 1..Len(c) /\ k - 1 < k + 1 /\ k \in 1..Len(c)
      /\ (k - 1) + 1 = k /\ (k + 1) - 1 = k
      /\ \A i : i \in k..k <=> i = k
  BY <1>1, <1>3
<1>8. Ends(c, k - 1, k + 1, P)
  BY <1>1, <1>5, <1>6, <1>7 DEF Ends
<1>9. {v} = Hidden(c, k - 1, k + 1)
  <2>1. Hidden(c, k - 1, k + 1) = {c[i] : i \in k..k}
    BY <1>7 DEF Hidden
  <2> QED BY <1>1, <1>7, <2>1
<1>10. NodeGaps(g, R, v, N) /\ v \notin ToSet(N) /\ v \in g.nodes
  BY GapsOfNode, RoundOfNode DEF NodeRound
<1>11. /\ \A e, f : Gap(g, v, N, e, f) => f \in Whole(g, R) /\ v \in OnFace(g, f)
       /\ \A f \in Whole(g, R) : v \in OnFace(g, f) => \E e : Gap(g, v, N, e, f)
  BY <1>10 DEF NodeGaps
<1>12. ASSUME NEW x \in InnerOf(P) PROVE x \notin ToSet(c) /\ x \notin R
  <2>1. PICK j \in 2..(Len(P) - 1) : x = P[j]
    BY DEF InnerOf
  <2>2. /\ j \in 1..Len(P) /\ 1 \in 1..Len(P) /\ Len(P) \in 1..Len(P) /\ j # 1 /\ j # Len(P)
        /\ x \in ToSet(P) /\ x # P[1] /\ x # P[Len(P)]
    <3>1. j \in 1..Len(P) /\ 1 \in 1..Len(P) /\ Len(P) \in 1..Len(P) /\ j # 1 /\ j # Len(P)
      BY <1>5, <1>6, <2>1
    <3>2. /\ \A i, h \in 1..Len(P) : P[i] = P[h] => i = h
          /\ \A i \in 1..Len(P) : P[i] \in ToSet(P)
      BY <1>5, PathIndices
    <3> QED BY <2>1, <3>1, <3>2
  <2> SUFFICES ASSUME x \in ToSet(c) \cup R PROVE FALSE
    OBVIOUS
  <2>3. PICK e \in 1..m : x = N[e]
    BY <1>5, <2>2
  <2>4. e # 1 /\ e # m
    BY <1>5, <2>2, <2>3
  <2>5. e \in 2..(Len(N) - 1)
    BY <1>2, <2>4
  <2>6. x \notin ToSet(c)
    BY <2>3, <2>5
  <2>7. x \notin R
    BY <1>1, <1>2, <2>3
  <2> QED BY <2>6, <2>7
<1>13. InnerOf(P) \cap ToSet(c) = {} /\ InnerOf(P) \cap R = {}
  BY <1>12
<1>14. ASSUME NEW j \in 1..(Len(P) - 1)
       PROVE  \E f \in DOMAIN g.faces : Entry(g, P[j + 1], P[j], f) /\ OnFace(g, f) \cap {v} # {}
  <2>1. PICK e \in 2..m : \E f : Gap(g, v, N, e, f) /\ Entry(g, P[j + 1], P[j], f)
    BY <1>4 DEF PathGaps
  <2>2. PICK f : Gap(g, v, N, e, f) /\ Entry(g, P[j + 1], P[j], f)
    BY <2>1
  <2>3. f \in DOMAIN g.faces
    BY <2>2, EntryFacts
  <2>4. v \in OnFace(g, f)
    BY <1>11, <2>2
  <2> QED BY <2>2, <2>3, <2>4
<1>15. ASSUME NEW f \in Whole(g, R), OnFace(g, f) \cap {v} # {}
       PROVE  /\ OnFace(g, f) \subseteq ToSet(P) \cup {v}
              /\ \A j \in 1..Len(P) : \A w : Entry(g, w, P[j], f) => w \in {v} \/ (j < Len(P) /\ w = P[j + 1])
  <2>1. v \in OnFace(g, f)
    BY <1>15
  <2>2. PICK e : Gap(g, v, N, e, f)
    BY <1>11, <2>1
  <2>3. e \in 2..m
    BY <2>2 DEF Gap
  <2>4. /\ OnFace(g, f) \subseteq ToSet(P) \cup {v}
        /\ \A j \in 1..Len(P) : \A w : Entry(g, w, P[j], f) => w = v \/ (j < Len(P) /\ w = P[j + 1])
    BY <1>4, <2>2, <2>3 DEF PathGaps
  <2> QED BY <2>4
<1>16. Around(g, v) \subseteq R \cup ToSet(P) \cup {v}
  <2> SUFFICES ASSUME NEW x \in Around(g, v), x \notin R PROVE x \in ToSet(P)
    OBVIOUS
  <2>1. x \in ToSet(N)
    BY <1>1
  <2>2. PICK e \in 1..Len(N) : N[e] = x
    BY <1>1, <2>1, PathIndices
  <2> QED BY <1>5, <2>2
<1>17. Around(g, c[k - 1]) \cap {v} = {v} /\ Around(g, c[k + 1]) \cap {v} = {v}
  <2>1. 1 \in 1..Len(N) /\ Len(N) \in 1..Len(N)
    BY <1>1, <1>2
  <2>2. c[k - 1] \in Around(g, v) /\ c[k + 1] \in Around(g, v)
    BY <1>1, <1>2, <2>1
  <2>3. v \in Around(g, c[k - 1]) /\ v \in Around(g, c[k + 1])
    BY <2>2, AroundEntry
  <2> QED BY <2>3
<1>18. Beside(g, c[k - 1], P[2], v)
  <2>1. PICK f : Gap(g, v, N, 2, f) /\ Entry(g, P[2], P[1], f)
    BY <1>6 DEF FirstGap
  <2>2. Entry(g, N[1], v, f)
    BY <2>1 DEF Gap
  <2> QED BY <1>1, <1>5, <2>1, <2>2 DEF Beside
<1>19. Beside(g, c[k + 1], v, P[Len(P) - 1])
  <2>1. PICK f : Gap(g, v, N, m, f) /\ Entry(g, P[Len(P)], P[Len(P) - 1], f)
    BY <1>6 DEF LastGap
  <2>2. Entry(g, v, N[m], f)
    BY <2>1 DEF Gap
  <2> QED BY <1>1, <1>5, <2>1, <2>2 DEF Beside
<1>20. \A j \in 2..(Len(P) - 1) : Corner(g, {v}, P[j - 1], P[j], P[j + 1])
  BY <1>4 DEF PathTurns
<1>21. c[(k - 1) + 1] = v /\ c[(k + 1) - 1] = v
  BY <1>1, <1>7
<1> QED
  BY <1>5, <1>8, <1>9, <1>13, <1>14, <1>15, <1>16, <1>17, <1>18, <1>19, <1>20, <1>21, Zenon DEF Swept

(* A node on the list: no face of it separates.                            *)
NodePieces(g, t, c, R, v) ==
  /\ \A f \in Whole(g, R) : v \in OnFace(g, f) => OnePiece(g, c, f)
  /\ \A f \in t.isSf : f \in Whole(g, R) /\ v \notin OnFace(g, f)

LEMMA PossNodePieces ==
  ASSUME NEW g, IsEmbedding(g), NEW b, NEW t, NEW R, NEW c, Valid(g, b, t, R, c),
         t.updF = {}, t.updV = {}, NEW v \in t.possV
  PROVE  NodePieces(g, t, c, R, v)
<1>1. /\ ContourShape(g, b, c, R) /\ IsState(g, t) /\ Counted(g, b, t, R, c)
      /\ FacesMarked(g, t, R) /\ NodesMarked(b, t, R, c)
  BY DEF Valid
<1>2. v \in ToSet(c) /\ PossNode(t, v)
  BY <1>1 DEF NodesMarked
<1>3. v \in g.nodes \ R
  <2>1. PICK i \in 1..Len(c) : c[i] = v
    BY <1>1, <1>2, ContourIndices
  <2> QED BY <1>1, <2>1, ContourIndices
<1>4. t.isSf \subseteq Whole(g, R) /\ Cardinality(SepOf(g, t, c, v)) = 0
  BY <1>1, <1>2, <1>3 DEF Counted, SepCounts, PossNode
<1>5. SepOf(g, t, c, v) = {}
  <2>1. SepOf(g, t, c, v) \subseteq DOMAIN g.faces
    BY <1>4 DEF SepOf, Whole
  <2>2. IsFiniteSet(SepOf(g, t, c, v))
    BY <2>1, FacesFinite, FS_Subset
  <2> QED BY <1>4, <2>2, FS_EmptySet
<1>6. \A f \in t.isSf : f \in Whole(g, R) /\ v \notin OnFace(g, f)
  BY <1>2, <1>4, <1>5 DEF SepOf
<1>7. ASSUME NEW f \in Whole(g, R), v \in OnFace(g, f) PROVE OnePiece(g, c, f)
  <2>1. ~ SepFace(t, f)
    BY <1>1, <1>6, <1>7 DEF FacesMarked
  <2>2. FaceCounts(g, t, R, c)
    BY <1>1 DEF Counted
  <2>3. t.outv[f] = Cardinality(ToSet(c) \cap OnFace(g, f)) /\ t.seqp[f] = Cardinality(FacePairs(g, c, f))
    BY <2>2 DEF FaceCounts
  <2>4. t.outv[f] \in Int /\ t.seqp[f] \in Int
    <3>1. f \in DOMAIN g.faces
      BY DEF Whole
    <3> QED BY <1>1, <3>1 DEF IsState
  <2>5. t.outv[f] <= t.seqp[f] + 1
    BY <2>1, <2>4 DEF SepFace
  <2> QED BY <2>3, <2>4, <2>5 DEF OnePiece
<1> QED BY <1>6, <1>7 DEF NodePieces

(* The contour edges of the node are edges of its own faces.               *)
LEMMA SideFaces ==
  ASSUME IsEmbedding(E), NEW c, NEW R, NEW k, NEW v, NEW N, NodeAt(E, base, c, R, k, v, N),
         Linked(E, s, c, R)
  PROVE  /\ rightOf(s, v) \in Whole(E, R) /\ v \in OnFace(E, rightOf(s, v))
         /\ leftOf(s, v) \in Whole(E, R) /\ v \in OnFace(E, leftOf(s, v))
<1>1. /\ ContourShape(E, base, c, R) /\ k \in 2..(Len(c) - 1) /\ v = c[k]
      /\ N \in Path(E.nodes) /\ Len(N) >= 3 /\ N[1] = c[k - 1] /\ N[Len(N)] = c[k + 1]
  BY DEF NodeAt
<1>2. Len(N) \in Nat /\ Len(c) \in Nat
  BY <1>1, PathIndices, ContourIndices
<1>3. /\ k \in 1..(Len(c) - 1) /\ k - 1 \in 1..(Len(c) - 1) /\ (k - 1) + 1 = k
      /\ 2 \in 2..Len(N) /\ Len(N) \in 2..Len(N) /\ 2 - 1 = 1
  BY <1>1, <1>2
<1>4. NodeGaps(E, R, v, N)
  BY GapsOfNode
<1>5. /\ \A i \in 2..Len(N) : \E f : Gap(E, v, N, i, f)
      /\ \A i, f : Gap(E, v, N, i, f) => f \in Whole(E, R) /\ v \in OnFace(E, f)
  BY <1>4 DEF NodeGaps
<1>6. rightOf(s, v) \in Whole(E, R) /\ v \in OnFace(E, rightOf(s, v))
  <2>1. PICK f : Gap(E, v, N, Len(N), f)
    BY <1>3, <1>5
  <2>2. Entry(E, v, c[k + 1], f)
    BY <1>1, <2>1 DEF Gap
  <2>3. Entry(E, v, c[k + 1], rightOf(s, v))
    BY <1>1, <1>3, RightOfIs
  <2>4. f = rightOf(s, v)
    BY <2>2, <2>3, EntryFacts
  <2> QED BY <1>5, <2>1, <2>4
<1>7. leftOf(s, v) \in Whole(E, R) /\ v \in OnFace(E, leftOf(s, v))
  <2>1. PICK f : Gap(E, v, N, 2, f)
    BY <1>3, <1>5
  <2>2. Entry(E, c[k - 1], v, f)
    BY <1>1, <1>3, <2>1 DEF Gap
  <2>3. Beside(E, v, c[k - 1], s.prevPred[v])
    BY <1>1, <1>3 DEF Linked
  <2>4. PICK h : Entry(E, c[k - 1], v, h) /\ Entry(E, v, s.prevPred[v], h)
    BY <2>3 DEF Beside
  <2>5. h = f
    BY <2>2, <2>4, EntryFacts
  <2>6. leftOf(s, v) = f
    BY <2>4, <2>5 DEF leftOf, right, Entry
  <2> QED BY <1>5, <2>1, <2>6
<1> QED BY <1>6, <1>7

(***************************************************************************)
(* TakeNode.  What was counted for the node is counted for its own faces.  *)
(***************************************************************************)
TimesIn(adj, f) == Cardinality({i \in DOMAIN adj : adj[i] = f})
EdgesIn(v, f) == (IF f = leftOf(s, v) THEN 1 ELSE 0) + (IF f = rightOf(s, v) THEN 1 ELSE 0)
SeqpIn(v, f) == Cardinality({u \in {prev(s, v), next(s, v)} : << u, f >> \in s.inF})

SameLists(t, u) ==
  /\ DOMAIN u = Fields
  /\ u.contour = t.contour /\ u.nextSucc = t.nextSucc /\ u.prevPred = t.prevPred
  /\ u.cutf = t.cutf /\ u.numsf = t.numsf /\ u.isSf = t.isSf /\ u.inF = t.inF
  /\ u.updF = t.updF /\ u.possF = t.possF /\ u.possV = t.possV /\ u.possE = t.possE
  /\ u.fLink = t.fLink /\ u.vLink = t.vLink /\ u.eLink = t.eLink
  /\ u.dangling = t.dangling /\ u.virt = {}
NewCounts(v, adj, N, u) ==
  /\ u.virtSrc = [f \in DOMAIN E.faces |-> s.virtSrc[f]]
  /\ u.outv = [f \in DOMAIN E.faces |-> s.outv[f] - TimesIn(adj, f)]
  /\ u.outer = [f \in DOMAIN E.faces |-> [s.outer[f] EXCEPT ![v] = 0]]
  /\ u.oute = [f \in DOMAIN E.faces |-> s.oute[f] - EdgesIn(v, f)]
  /\ u.seqp = [f \in DOMAIN E.faces |-> s.seqp[f] - TimesIn(adj, f) * SeqpIn(v, f)]
  /\ u.onOuter = s.onOuter \cup ToSet(N) /\ u.updV = s.updV \cup ToSet(N)
  /\ u.deg = [x \in E.nodes |-> IF Contains(N, x) THEN s.deg[x] - 1 ELSE s.deg[x]]

LEMMA TakeNodeFields ==
  ASSUME IsState(E, s), s.virt = {}, NEW v, NEW adj, NEW N, NEW u, u = TakeNode(v, adj, N)
  PROVE  SameLists(s, u) /\ NewCounts(v, adj, N, u)
<1> DEFINE VT == s.virt \ {prev(s, v)}
           VS == [f \in DOMAIN E.faces |->
                    IF (prev(s, v) \in s.virt /\ f = leftOf(s, v)) \/ (v \in s.virt /\ f = rightOf(s, v))
                    THEN None ELSE s.virtSrc[f]]
           PE == s.possE \ ({v} \cap s.virt)
           EL == s.eLink \ ({v} \cap s.virt)
           OV == [f \in DOMAIN E.faces |-> s.outv[f] - TimesIn(adj, f)]
           OU == [f \in DOMAIN E.faces |-> [s.outer[f] EXCEPT ![v] = 0]]
           OE == [f \in DOMAIN E.faces |-> s.oute[f] - EdgesIn(v, f)]
           SQ == [f \in DOMAIN E.faces |-> s.seqp[f] - TimesIn(adj, f) * SeqpIn(v, f)]
           ON == s.onOuter \cup ToSet(N)
           DG == [x \in E.nodes |-> IF Contains(N, x) THEN s.deg[x] - 1 ELSE s.deg[x]]
           UV == s.updV \cup ToSet(N)
<1>1. DOMAIN s = Fields
  BY DEF IsState
<1>2. u = [s EXCEPT !.virt = VT, !.virtSrc = VS, !.possE = PE, !.eLink = EL, !.outv = OV, !.outer = OU,
             !.oute = OE, !.seqp = SQ, !.onOuter = ON, !.deg = DG, !.updV = UV]
  BY Zenon DEF TakeNode, Faces, Nodes, TimesIn, EdgesIn, SeqpIn
<1>3. VT = {} /\ VS = [f \in DOMAIN E.faces |-> s.virtSrc[f]] /\ PE = s.possE /\ EL = s.eLink
  OBVIOUS
<1> HIDE DEF VT, VS, PE, EL, OV, OU, OE, SQ, ON, DG, UV
<1>4. /\ DOMAIN u = Fields
      /\ u.contour = s.contour /\ u.nextSucc = s.nextSucc /\ u.prevPred = s.prevPred
      /\ u.cutf = s.cutf /\ u.numsf = s.numsf /\ u.isSf = s.isSf /\ u.inF = s.inF
      /\ u.updF = s.updF /\ u.possF = s.possF /\ u.possV = s.possV
      /\ u.fLink = s.fLink /\ u.vLink = s.vLink
      /\ u.dangling = s.dangling
  <2>1. DOMAIN u = Fields
    BY <1>1, <1>2 DEF Fields
  <2>2. u.contour = s.contour /\ u.nextSucc = s.nextSucc /\ u.prevPred = s.prevPred
    BY <1>1, <1>2 DEF Fields
  <2>3. u.cutf = s.cutf /\ u.numsf = s.numsf /\ u.isSf = s.isSf /\ u.inF = s.inF /\ u.updF = s.updF
    BY <1>1, <1>2 DEF Fields
  <2>4. u.possF = s.possF /\ u.possV = s.possV /\ u.fLink = s.fLink /\ u.vLink = s.vLink
    BY <1>1, <1>2 DEF Fields
  <2>5. u.dangling = s.dangling
    BY <1>1, <1>2 DEF Fields
  <2> QED BY <2>1, <2>2, <2>3, <2>4, <2>5
<1>5. /\ u.virt = VT /\ u.virtSrc = VS /\ u.possE = PE /\ u.eLink = EL /\ u.outv = OV /\ u.outer = OU
      /\ u.oute = OE /\ u.seqp = SQ /\ u.onOuter = ON /\ u.deg = DG /\ u.updV = UV
  BY <1>1, <1>2 DEF Fields
<1>6. SameLists(s, u)
  BY <1>3, <1>4, <1>5 DEF SameLists
<1>7. NewCounts(v, adj, N, u)
  BY <1>3, <1>5, Zenon DEF NewCounts, OV, OU, OE, SQ, ON, DG, UV
<1> QED BY <1>6, <1>7

(* What the node leaves behind: t is changed only for v's own faces.       *)
NodeLeft(g, t, T, v, N, u) ==
  /\ IsState(g, u)
  /\ u.contour = t.contour /\ u.nextSucc = t.nextSucc /\ u.prevPred = t.prevPred
  /\ u.cutf = t.cutf /\ u.numsf = t.numsf /\ u.virtSrc = t.virtSrc /\ u.isSf = t.isSf /\ u.inF = t.inF
  /\ u.updF = t.updF /\ u.possF = t.possF /\ u.possV = t.possV /\ u.possE = t.possE
  /\ u.fLink = t.fLink /\ u.vLink = t.vLink /\ u.eLink = t.eLink
  /\ u.dangling = t.dangling /\ u.virt = {}
  /\ u.onOuter = t.onOuter \cup ToSet(N) /\ u.updV = t.updV \cup ToSet(N)
  /\ \A x \in g.nodes : u.deg[x] = t.deg[x] - IF x \in ToSet(N) THEN 1 ELSE 0
  /\ \A f \in Whole(g, T) \cup {extFace} :
       u.outv[f] = t.outv[f] /\ u.oute[f] = t.oute[f] /\ u.seqp[f] = t.seqp[f]
  /\ \A f \in Whole(g, T), x \in g.nodes : u.outer[f][x] = IF x = v THEN 0 ELSE t.outer[f][x]

LEMMA NotTimed ==
  ASSUME IsEmbedding(E), BaseShape(E, base), NEW R, NEW c, ContourShape(E, base, c, R), Linked(E, s, c, R),
         NEW k, NEW v, NEW N, NodeAt(E, base, c, R, k, v, N),
         NEW f, f \in Whole(E, R \cup {v}) \cup {extFace}
  PROVE  TimesIn(getAdjFaces(s, v), f) = 0 /\ EdgesIn(v, f) = 0
<1>1. v \in ToSet(c) /\ v \notin ToSet(base)
  <2>1. NodeRound(E, v, N, ToSet(c) \cup R \cup ToSet(N)) /\ v \in ToSet(c)
    BY RoundOfNode
  <2>2. v \notin ToSet(base)
    BY DEF NodeAt
  <2> QED BY <2>1, <2>2
<1>2. getAdjFaces(s, v) \in Path(DOMAIN E.faces) /\ FacesOf(E, base, R, v, AdjOf(s, v))
  BY <1>1, AdjFacesOf
<1>3. f \notin AdjOf(s, v)
  <2>1. CASE f \in Whole(E, R \cup {v})
    <3>1. f \in Whole(E, R) /\ v \notin OnFace(E, f)
      BY <2>1 DEF Whole
    <3> QED BY <1>2, <3>1 DEF FacesOf
  <2>2. CASE f = extFace
    <3>1. extFace \notin Whole(E, R)
      BY DEF Whole
    <3> QED BY <1>1, <1>2, <2>2, <3>1 DEF FacesOf, Inside
  <2> QED BY <2>1, <2>2
<1>4. TimesIn(getAdjFaces(s, v), f) = 0
  <2>1. {i \in DOMAIN getAdjFaces(s, v) : getAdjFaces(s, v)[i] = f} = {}
    <3> DEFINE adj == getAdjFaces(s, v)
    <3>1. DOMAIN adj = 1..Len(adj) /\ \A x : x \in ToSet(adj) <=> \E i \in 1..Len(adj) : adj[i] = x
      BY <1>2, PathIndices
    <3>2. f \notin ToSet(adj)
      BY <1>3 DEF AdjOf
    <3> QED BY <3>1, <3>2
  <2> QED BY <2>1, FS_EmptySet DEF TimesIn
<1>5. /\ rightOf(s, v) \in Whole(E, R) /\ v \in OnFace(E, rightOf(s, v))
      /\ leftOf(s, v) \in Whole(E, R) /\ v \in OnFace(E, leftOf(s, v))
  BY SideFaces
<1>6. f # rightOf(s, v) /\ f # leftOf(s, v)
  BY <1>5 DEF Whole
<1> QED BY <1>4, <1>6 DEF EdgesIn

LEMMA ZeroAt ==
  ASSUME NEW V, NEW h \in [V -> Int], NEW v
  PROVE  /\ [h EXCEPT ![v] = 0] \in [V -> Int]
         /\ \A x \in V : [h EXCEPT ![v] = 0][x] = IF x = v THEN 0 ELSE h[x]
<1>1. \A x \in V : [h EXCEPT ![v] = 0][x] = IF x = v THEN 0 ELSE h[x]
  OBVIOUS
<1>2. \A x \in V : h[x] \in Int
  OBVIOUS
<1> DEFINE q(x) == IF x = v THEN 0 ELSE h[x]
           o == [h EXCEPT ![v] = 0]
<1>3. o = [x \in V |-> q(x)]
  OBVIOUS
<1>4. \A x \in V : q(x) \in Int
  BY <1>2
<1>5. o \in [V -> Int]
  <2> HIDE DEF q, o
  <2> QED BY <1>3, <1>4
<1> QED BY <1>1, <1>5

LEMMA TimesAreInt ==
  ASSUME NEW F, NEW adj \in Path(F), NEW f
  PROVE  TimesIn(adj, f) \in Int
<1>1. DOMAIN adj = 1..Len(adj) /\ Len(adj) \in Nat
  BY PathIndices
<1>2. {i \in DOMAIN adj : adj[i] = f} \in SUBSET (1..Len(adj)) /\ IsFiniteSet(1..Len(adj))
  BY <1>1, FS_Interval
<1>3. Cardinality({i \in DOMAIN adj : adj[i] = f}) \in Nat
  BY <1>2, FS_Subset, FS_CardinalityType
<1> QED BY <1>3 DEF TimesIn

LEMMA TakeNodeLeaves ==
  ASSUME IsEmbedding(E), BaseShape(E, base), NEW R, NEW c, Valid(E, base, s, R, c),
         NEW k, NEW v, NEW N, NodeAt(E, base, c, R, k, v, N), NEW T, T = R \cup {v},
         NEW u, u = TakeNode(v, getAdjFaces(s, v), N)
  PROVE  NodeLeft(E, s, T, v, N, u)
<1> DEFINE adj == getAdjFaces(s, v)
<1>1. ContourShape(E, base, c, R) /\ IsState(E, s) /\ Linked(E, s, c, R)
  BY DEF Valid
<1>2. s.virt = {} /\ \A f \in DOMAIN E.faces : s.virtSrc[f] = None
  BY <1>1 DEF Linked
<1>3. v \in ToSet(c) /\ v \in E.nodes /\ N \in Path(E.nodes)
  <2>1. NodeRound(E, v, N, ToSet(c) \cup R \cup ToSet(N)) /\ v \in ToSet(c)
    BY RoundOfNode
  <2> QED BY <2>1 DEF NodeRound
<1>4. adj \in Path(DOMAIN E.faces)
  BY <1>1, <1>3, AdjFacesOf
<1>5. \A f \in Whole(E, T) \cup {extFace} : TimesIn(adj, f) = 0 /\ EdgesIn(v, f) = 0
  BY <1>1, NotTimed
<1>6. \A f : TimesIn(adj, f) \in Int
  BY <1>4, TimesAreInt
<1>20. SameLists(s, u) /\ NewCounts(v, adj, N, u)
  BY <1>1, <1>2, TakeNodeFields
<1> HIDE DEF adj
<1>7. /\ u.virtSrc = [f \in DOMAIN E.faces |-> s.virtSrc[f]]
      /\ u.outv = [f \in DOMAIN E.faces |-> s.outv[f] - TimesIn(adj, f)]
      /\ u.outer = [f \in DOMAIN E.faces |-> [s.outer[f] EXCEPT ![v] = 0]]
      /\ u.oute = [f \in DOMAIN E.faces |-> s.oute[f] - EdgesIn(v, f)]
      /\ u.seqp = [f \in DOMAIN E.faces |-> s.seqp[f] - TimesIn(adj, f) * SeqpIn(v, f)]
      /\ u.onOuter = s.onOuter \cup ToSet(N) /\ u.updV = s.updV \cup ToSet(N)
      /\ u.deg = [x \in E.nodes |-> IF Contains(N, x) THEN s.deg[x] - 1 ELSE s.deg[x]]
  BY <1>20 DEF NewCounts
<1>21. /\ u.contour = s.contour /\ u.nextSucc = s.nextSucc /\ u.prevPred = s.prevPred
       /\ u.cutf = s.cutf /\ u.numsf = s.numsf /\ DOMAIN u = Fields
  BY <1>20 DEF SameLists
<1>8. /\ s.outv \in [DOMAIN E.faces -> Int] /\ s.oute \in [DOMAIN E.faces -> Int]
      /\ s.seqp \in [DOMAIN E.faces -> Int] /\ s.virtSrc \in [DOMAIN E.faces -> Int]
      /\ s.outer \in [DOMAIN E.faces -> [E.nodes -> Int]] /\ s.deg \in [E.nodes -> Int]
  BY <1>1 DEF IsState
<1>9. \A f : EdgesIn(v, f) \in Int /\ SeqpIn(v, f) \in Int
  <2>1. \A f : EdgesIn(v, f) \in Int
    BY DEF EdgesIn
  <2>2. ASSUME NEW f PROVE SeqpIn(v, f) \in Int
    <3>1. IsFiniteSet({prev(s, v), next(s, v)})
      <4>1. IsFiniteSet({prev(s, v)}) /\ IsFiniteSet({next(s, v)})
        BY FS_Singleton
      <4>2. {prev(s, v), next(s, v)} = {prev(s, v)} \cup {next(s, v)}
        OBVIOUS
      <4> QED BY <4>1, <4>2, FS_Union
    <3> DEFINE S == {y \in {prev(s, v), next(s, v)} : << y, f >> \in s.inF}
    <3>2. S \in SUBSET {prev(s, v), next(s, v)}
      OBVIOUS
    <3>3. Cardinality(S) \in Nat
      BY <3>1, <3>2, CountSubset
    <3> QED BY <3>3 DEF SeqpIn
  <2> QED BY <2>1, <2>2
<1>10. u.virtSrc = s.virtSrc
  BY <1>7, <1>8
<1>11. \A x : Contains(N, x) <=> x \in ToSet(N)
  BY <1>3, PathIndices DEF Contains
<1>12. u.deg \in [E.nodes -> Int] /\ \A x \in E.nodes : u.deg[x] = s.deg[x] - IF x \in ToSet(N) THEN 1 ELSE 0
  BY <1>7, <1>8, <1>11
<1>13. /\ u.outv \in [DOMAIN E.faces -> Int] /\ u.oute \in [DOMAIN E.faces -> Int]
       /\ \A f \in Whole(E, T) \cup {extFace} : u.outv[f] = s.outv[f] /\ u.oute[f] = s.oute[f]
  <2>1. u.outv \in [DOMAIN E.faces -> Int] /\ u.oute \in [DOMAIN E.faces -> Int]
    BY <1>6, <1>7, <1>8, <1>9
  <2>2. \A f \in Whole(E, T) \cup {extFace} : f \in DOMAIN E.faces
    <3>1. extFace \in DOMAIN E.faces
      BY BaseFacts
    <3> QED BY <3>1 DEF Whole
  <2>3. ASSUME NEW f \in Whole(E, T) \cup {extFace} PROVE u.outv[f] = s.outv[f] /\ u.oute[f] = s.oute[f]
    <3>1. u.outv[f] = s.outv[f] - TimesIn(adj, f) /\ u.oute[f] = s.oute[f] - EdgesIn(v, f)
      BY <1>7, <2>2
    <3>2. s.outv[f] \in Int /\ s.oute[f] \in Int /\ TimesIn(adj, f) = 0 /\ EdgesIn(v, f) = 0
      BY <1>5, <1>8, <2>2
    <3> QED BY <3>1, <3>2
  <2> QED BY <2>1, <2>3
<1>14. /\ u.seqp \in [DOMAIN E.faces -> Int]
       /\ \A f \in Whole(E, T) \cup {extFace} : u.seqp[f] = s.seqp[f]
  <2>1. ASSUME NEW f \in DOMAIN E.faces
        PROVE  s.seqp[f] - TimesIn(adj, f) * SeqpIn(v, f) \in Int
    BY <1>6, <1>8, <1>9
  <2>2. \A f \in Whole(E, T) \cup {extFace} : f \in DOMAIN E.faces
    <3>1. extFace \in DOMAIN E.faces
      BY BaseFacts
    <3> QED BY <3>1 DEF Whole
  <2>3. ASSUME NEW f \in Whole(E, T) \cup {extFace} PROVE u.seqp[f] = s.seqp[f]
    <3>1. TimesIn(adj, f) = 0 /\ SeqpIn(v, f) \in Int
      BY <1>5, <1>9
    <3>2. TimesIn(adj, f) * SeqpIn(v, f) = 0
      BY <3>1
    <3>3. u.seqp[f] = s.seqp[f] - TimesIn(adj, f) * SeqpIn(v, f)
      BY <1>7, <2>2
    <3>4. s.seqp[f] \in Int
      BY <1>8, <2>2
    <3> QED BY <3>2, <3>3, <3>4
  <2>4. u.seqp \in [DOMAIN E.faces -> Int]
    <3> DEFINE q(f) == s.seqp[f] - TimesIn(adj, f) * SeqpIn(v, f)
    <3>1. u.seqp = [f \in DOMAIN E.faces |-> q(f)]
      BY <1>7
    <3>2. \A f \in DOMAIN E.faces : q(f) \in Int
      BY <2>1
    <3> HIDE DEF q
    <3> QED BY <3>1, <3>2
  <2> QED BY <2>3, <2>4
<1>15. /\ u.outer \in [DOMAIN E.faces -> [E.nodes -> Int]]
       /\ \A f \in Whole(E, T), x \in E.nodes : u.outer[f][x] = IF x = v THEN 0 ELSE s.outer[f][x]
  <2>1. \A f \in DOMAIN E.faces : s.outer[f] \in [E.nodes -> Int]
    BY <1>8
  <2>2. ASSUME NEW f \in DOMAIN E.faces
        PROVE  /\ u.outer[f] \in [E.nodes -> Int]
               /\ \A x \in E.nodes : u.outer[f][x] = IF x = v THEN 0 ELSE s.outer[f][x]
    <3>1. s.outer[f] \in [E.nodes -> Int]
      BY <2>1
    <3>2. u.outer[f] = [s.outer[f] EXCEPT ![v] = 0]
      BY <1>7
    <3> DEFINE h == s.outer[f]
               o == u.outer[f]
    <3>3. h \in [E.nodes -> Int] /\ o = [h EXCEPT ![v] = 0]
      BY <3>1, <3>2
    <3> HIDE DEF h, o
    <3>4. o \in [E.nodes -> Int] /\ \A x \in E.nodes : o[x] = IF x = v THEN 0 ELSE h[x]
      BY <3>3, ZeroAt
    <3> QED BY <3>4 DEF h, o
  <2>3. \A f \in Whole(E, T) : f \in DOMAIN E.faces
    BY DEF Whole
  <2>4. \E h : u.outer = [f \in DOMAIN E.faces |-> h[f]]
    <3> DEFINE h == [f \in DOMAIN E.faces |-> [s.outer[f] EXCEPT ![v] = 0]]
    <3>1. u.outer = [f \in DOMAIN E.faces |-> h[f]]
      BY <1>7
    <3> QED BY <3>1
  <2>5. u.outer \in [DOMAIN E.faces -> [E.nodes -> Int]]
    BY <2>2, <2>4
  <2> QED BY <2>2, <2>3, <2>5
<1>16. IsState(E, u)
  <2>1. /\ s.contour \in Seq(E.nodes) /\ s.onOuter \subseteq E.nodes
        /\ s.nextSucc \in [E.nodes -> Int] /\ s.prevPred \in [E.nodes -> Int]
        /\ s.cutf \in [E.nodes -> Int] /\ s.numsf \in [E.nodes -> Int]
    BY <1>1 DEF IsState
  <2>2. ToSet(N) \subseteq E.nodes
    BY <1>3, PathIndices
  <2>3. u.onOuter \subseteq E.nodes
    BY <1>7, <2>1, <2>2
  <2> QED BY <1>21, <1>8, <1>10, <1>12, <1>13, <1>14, <1>15, <2>1, <2>3 DEF IsState
<1>17. \A f \in Whole(E, T) \cup {extFace} :
         u.outv[f] = s.outv[f] /\ u.oute[f] = s.oute[f] /\ u.seqp[f] = s.seqp[f]
  BY <1>13, <1>14
<1>18. \A f \in Whole(E, T), x \in E.nodes : u.outer[f][x] = IF x = v THEN 0 ELSE s.outer[f][x]
  BY <1>15
<1>19. \A x \in E.nodes : u.deg[x] = s.deg[x] - IF x \in ToSet(N) THEN 1 ELSE 0
  BY <1>12
<1>22. /\ u.contour = s.contour /\ u.nextSucc = s.nextSucc /\ u.prevPred = s.prevPred
       /\ u.cutf = s.cutf /\ u.numsf = s.numsf /\ u.isSf = s.isSf /\ u.inF = s.inF
       /\ u.updF = s.updF /\ u.possF = s.possF /\ u.possV = s.possV /\ u.possE = s.possE
       /\ u.fLink = s.fLink /\ u.vLink = s.vLink /\ u.eLink = s.eLink
       /\ u.dangling = s.dangling /\ u.virt = {}
  BY <1>20, Zenon DEF SameLists
<1> QED BY <1>7, <1>10, <1>16, <1>17, <1>18, <1>19, <1>22, Zenon DEF NodeLeft

(* Together: what is changed when the contour has been walked to its end.  *)
NodeStep(g, t, T, v, N, P, u) ==
  /\ IsState(g, u)
  /\ u.contour = t.contour /\ u.cutf = t.cutf /\ u.numsf = t.numsf
  /\ u.virtSrc = t.virtSrc /\ u.isSf = t.isSf /\ u.inF = t.inF
  /\ u.updF = t.updF /\ u.possF = t.possF /\ u.possV = t.possV /\ u.possE = t.possE
  /\ u.fLink = t.fLink /\ u.vLink = t.vLink /\ u.eLink = t.eLink
  /\ u.dangling = t.dangling /\ u.virt = {}
  /\ u.onOuter = t.onOuter \cup ToSet(N) \cup ToSet(P) /\ u.updV = t.updV \cup ToSet(N) \cup ToSet(P)
  /\ \A x \in g.nodes : u.deg[x] = t.deg[x] - IF x \in ToSet(N) THEN 1 ELSE 0
  /\ \A f \in Whole(g, T) \cup {extFace} :
       u.outv[f] = t.outv[f] /\ u.oute[f] = t.oute[f] /\ u.seqp[f] = t.seqp[f]
  /\ \A f \in Whole(g, T), x \in g.nodes : u.outer[f][x] = IF x = v THEN 0 ELSE t.outer[f][x]
  /\ LinksFrom(g, P, t, u) /\ LinksOn(g, u, P)

LEMMA NodeStepIs ==
  ASSUME NEW g, IsEmbedding(g), NEW b, BaseShape(g, b), NEW c, NEW R, NEW k, NEW v, NEW N,
         NodeAt(g, b, c, R, k, v, N), NEW T, T = R \cup {v},
         NEW t, NEW x, NodeLeft(g, t, T, v, N, x), NEW P, NEW u, StateInv(g, v, N, Len(N), P, x, u)
  PROVE  NodeStep(g, t, T, v, N, P, u)
<1>1. /\ IsState(g, u) /\ SameOff(x, u) /\ SameFaces(g, v, N, Len(N), x, u) /\ LinksFrom(g, P, x, u)
      /\ u.onOuter = x.onOuter \cup ToSet(P) /\ u.updV = x.updV \cup ToSet(P)
      /\ LinksOn(g, u, P)
  BY DEF StateInv
<1>2. /\ u.contour = x.contour /\ u.cutf = x.cutf /\ u.numsf = x.numsf
      /\ u.virtSrc = x.virtSrc /\ u.isSf = x.isSf /\ u.inF = x.inF
      /\ u.updF = x.updF /\ u.possF = x.possF /\ u.possV = x.possV /\ u.possE = x.possE
      /\ u.fLink = x.fLink /\ u.vLink = x.vLink /\ u.eLink = x.eLink
      /\ u.dangling = x.dangling /\ u.virt \subseteq x.virt
  BY <1>1 DEF SameOff
<1>3. u.deg = x.deg /\ u.oute = x.oute /\ u.seqp = x.seqp
  BY <1>1 DEF SameOff
<1>4. /\ x.contour = t.contour /\ x.nextSucc = t.nextSucc /\ x.prevPred = t.prevPred
      /\ x.cutf = t.cutf /\ x.numsf = t.numsf /\ x.virtSrc = t.virtSrc /\ x.isSf = t.isSf /\ x.inF = t.inF
      /\ x.updF = t.updF /\ x.possF = t.possF /\ x.possV = t.possV /\ x.possE = t.possE
      /\ x.fLink = t.fLink /\ x.vLink = t.vLink /\ x.eLink = t.eLink
      /\ x.dangling = t.dangling /\ x.virt = {}
      /\ x.onOuter = t.onOuter \cup ToSet(N) /\ x.updV = t.updV \cup ToSet(N)
  BY DEF NodeLeft
<1>5. /\ \A y \in g.nodes : x.deg[y] = t.deg[y] - IF y \in ToSet(N) THEN 1 ELSE 0
      /\ \A f \in Whole(g, T) \cup {extFace} :
           x.outv[f] = t.outv[f] /\ x.oute[f] = t.oute[f] /\ x.seqp[f] = t.seqp[f]
      /\ \A f \in Whole(g, T), y \in g.nodes : x.outer[f][y] = IF y = v THEN 0 ELSE t.outer[f][y]
  BY DEF NodeLeft
<1>6. \A f \in Whole(g, T) \cup {extFace} : u.outv[f] = x.outv[f] /\ u.outer[f] = x.outer[f]
  <2> SUFFICES ASSUME NEW f \in Whole(g, T) \cup {extFace}
               PROVE  u.outv[f] = x.outv[f] /\ u.outer[f] = x.outer[f]
    OBVIOUS
  <2>1. f \in DOMAIN g.faces
    <3>1. extFace \in DOMAIN g.faces
      BY BaseFacts
    <3> QED BY <3>1 DEF Whole
  <2>2. NodeGaps(g, R, v, N)
    BY GapsOfNode
  <2>3. \A e, h : Gap(g, v, N, e, h) => h \in Whole(g, R) /\ v \in OnFace(g, h)
    BY <2>2 DEF NodeGaps
  <2>4. \A e \in 2..Len(N) : ~ Gap(g, v, N, e, f)
    <3> SUFFICES ASSUME NEW e, Gap(g, v, N, e, f) PROVE FALSE
      OBVIOUS
    <3>1. f \in Whole(g, R) /\ v \in OnFace(g, f)
      BY <2>3
    <3> QED BY <3>1 DEF Whole
  <2> QED BY <1>1, <2>1, <2>4 DEF SameFaces
<1>7. \A f \in Whole(g, T) \cup {extFace} :
        u.outv[f] = t.outv[f] /\ u.oute[f] = t.oute[f] /\ u.seqp[f] = t.seqp[f]
  BY <1>3, <1>5, <1>6
<1>8. \A f \in Whole(g, T), y \in g.nodes : u.outer[f][y] = IF y = v THEN 0 ELSE t.outer[f][y]
  <2> SUFFICES ASSUME NEW f \in Whole(g, T), NEW y \in g.nodes
               PROVE  u.outer[f][y] = IF y = v THEN 0 ELSE t.outer[f][y]
    OBVIOUS
  <2>1. u.outer[f] = x.outer[f]
    BY <1>6
  <2>2. x.outer[f][y] = IF y = v THEN 0 ELSE t.outer[f][y]
    BY <1>5
  <2> QED BY <2>1, <2>2
<1>9. LinksFrom(g, P, t, u)
  BY <1>1, <1>4 DEF LinksFrom
<1>10. u.virt = {} /\ \A y \in g.nodes : u.deg[y] = t.deg[y] - IF y \in ToSet(N) THEN 1 ELSE 0
  BY <1>2, <1>3, <1>4, <1>5
<1>11. /\ u.onOuter = t.onOuter \cup ToSet(N) \cup ToSet(P)
       /\ u.updV = t.updV \cup ToSet(N) \cup ToSet(P)
  BY <1>1, <1>4
<1>12. /\ u.contour = t.contour /\ u.cutf = t.cutf /\ u.numsf = t.numsf
       /\ u.virtSrc = t.virtSrc /\ u.isSf = t.isSf /\ u.inF = t.inF
       /\ u.updF = t.updF /\ u.possF = t.possF /\ u.possV = t.possV /\ u.possE = t.possE
       /\ u.fLink = t.fLink /\ u.vLink = t.vLink /\ u.eLink = t.eLink
       /\ u.dangling = t.dangling
  BY <1>2, <1>4
<1> QED BY <1>1, <1>7, <1>8, <1>9, <1>10, <1>11, <1>12, Zenon DEF NodeStep

(* What is known when the path from neighbour to neighbour is whole.       *)
NodePath(g, b, c, R, k, v, N, P, d) ==
  /\ NodeAt(g, b, c, R, k, v, N) /\ ToSet(N) \subseteq ToSet(P)
  /\ Grown(g, b, c, R, {v}, k - 1, k + 1, P, d)

LEMMA NodePathIs ==
  ASSUME NEW g, IsEmbedding(g), NEW b, BaseShape(g, b), NEW c, NEW R, NEW k, NEW v, NEW N,
         NodeAt(g, b, c, R, k, v, N), NEW O, O = ToSet(c) \cup R \cup ToSet(N),
         NEW P, PathInv(g, v, N, O, Len(N), P),
         \A f \in Whole(g, R) : v \in OnFace(g, f) => OnePiece(g, c, f)
  PROVE  NodePath(g, b, c, R, k, v, N, P, SpliceOf(c, P))
<1>1. PathEnds(g, v, N, O, Len(N), P) /\ PathMeets(g, v, N, O, Len(N))
  BY DEF PathInv
<1>2. ContourShape(g, b, c, R) /\ v \notin ToSet(b) /\ N \in Path(g.nodes)
  BY DEF NodeAt
<1>3. \A i \in 2..(Len(N) - 1) : N[i] \notin ToSet(c)
  BY <1>1, NodeOffContour
<1>4. Swept(g, c, R, {v}, k - 1, k + 1, P)
  BY <1>3, NodeSwept
<1>5. ToSet(N) \subseteq ToSet(P)
  <2>1. \A e \in 1..Len(N) : N[e] \in ToSet(P)
    BY <1>1 DEF PathEnds
  <2> QED BY <1>2, <2>1, PathIndices
<1>6. Grown(g, b, c, R, {v}, k - 1, k + 1, P, SpliceOf(c, P))
  BY <1>2, <1>4 DEF Grown
<1> QED BY <1>5, <1>6 DEF NodePath

LEMMA NodeLinked ==
  ASSUME NEW g, IsEmbedding(g), NEW b, BaseShape(g, b), NEW c, NEW R, NEW k, NEW v, NEW N, NEW P, NEW d,
         NodePath(g, b, c, R, k, v, N, P, d), NEW T, T = R \cup {v},
         NEW t, IsState(g, t), Linked(g, t, c, R), NEW u, NodeStep(g, t, T, v, N, P, u)
  PROVE  Linked(g, u, d, T)
<1>1. /\ u.cutf = t.cutf /\ u.virtSrc = t.virtSrc /\ u.inF = t.inF /\ u.virt = {}
      /\ u.onOuter = t.onOuter \cup ToSet(N) \cup ToSet(P)
      /\ \A x \in g.nodes : u.deg[x] = t.deg[x] - IF x \in ToSet(N) THEN 1 ELSE 0
      /\ LinksFrom(g, P, t, u) /\ LinksOn(g, u, P)
  BY DEF NodeStep
<1>2. /\ NodeAt(g, b, c, R, k, v, N) /\ ToSet(N) \subseteq ToSet(P)
      /\ Grown(g, b, c, R, {v}, k - 1, k + 1, P, d)
  BY DEF NodePath
<1>3. ContourShape(g, b, c, R) /\ Swept(g, c, R, {v}, k - 1, k + 1, P)
  BY <1>2 DEF Grown
<1>4. Ends(c, k - 1, k + 1, P) /\ InnerOf(P) \cap ToSet(c) = {}
  BY <1>3 DEF Swept
<1>5. P \in Path(g.nodes) /\ Splice(c, k - 1, k + 1, P, d) /\ d \in Seq(g.nodes)
  BY <1>2, GrownShape
<1>6. c \in Path(g.nodes)
  BY <1>3 DEF ContourShape
<1>7. LinksOn(g, u, d)
  <2>1. \A i \in 1..(Len(c) - 1) : LinkAt(g, t, c[i], c[i + 1])
    BY DEF Linked, LinkAt
  <2>2. /\ \A x \in g.nodes : ~ ExceptLast(P, x) => u.nextSucc[x] = t.nextSucc[x]
        /\ \A x \in g.nodes : ~ ExceptFirst(P, x) => u.prevPred[x] = t.prevPred[x]
    BY <1>1 DEF LinksFrom
  <2> QED BY <1>1, <1>4, <1>5, <1>6, <2>1, <2>2, SplicedLinks
<1>8. ASSUME NEW x \in g.nodes \ T
      PROVE u.deg[x] = Cardinality(Around(g, x) \ T)
  <2>1. t.deg[x] = Cardinality(Around(g, x) \ R) /\ t.deg[x] \in Int
    <3>1. x \in g.nodes \ R
      OBVIOUS
    <3>2. t.deg[x] = Cardinality(Around(g, x) \ R)
      BY <3>1 DEF Linked
    <3>3. t.deg[x] \in Int
      BY DEF IsState
    <3> QED BY <3>2, <3>3
  <2>2. u.deg[x] = t.deg[x] - IF x \in ToSet(N) THEN 1 ELSE 0
    BY <1>1
  <2>3. x \in ToSet(N) <=> x \in Around(g, v)
    <3>1. ToSet(N) = Around(g, v) \ R
      BY <1>2 DEF NodeAt
    <3> QED BY <3>1
  <2>4. x \in Around(g, v) <=> v \in Around(g, x)
    BY AroundEntry
  <2>5. v \notin R
    <3>1. NodeRound(g, v, N, ToSet(c) \cup R \cup ToSet(N)) /\ v \in ToSet(c) /\ v \notin R
      BY <1>2, RoundOfNode
    <3> QED BY <3>1
  <2>6. CASE x \in ToSet(N)
    <3>1. OneAround(g, x, R, {v})
      <4>1. Around(g, x) \cap {v} = {v}
        BY <2>3, <2>4, <2>6
      <4> QED BY <2>5, <4>1 DEF OneAround
    <3>2. Cardinality(Around(g, x) \ (R \cup {v})) = Cardinality(Around(g, x) \ R) - 1
      BY <3>1, FewerAround
    <3> QED BY <2>1, <2>2, <2>6, <3>2
  <2>7. CASE x \notin ToSet(N)
    <3>1. Around(g, x) \cap {v} = {}
      BY <2>3, <2>4, <2>7
    <3>2. Cardinality(Around(g, x) \ (R \cup {v})) = Cardinality(Around(g, x) \ R)
      BY <3>1, SameAround
    <3> QED BY <2>1, <2>2, <2>7, <3>2
  <2> QED BY <2>6, <2>7
<1>9. u.onOuter = ToSet(d) \cup T
  <2>1. t.onOuter = ToSet(c) \cup R
    BY DEF Linked
  <2>2. ToSet(d) = (ToSet(c) \ {v}) \cup InnerOf(P) /\ {v} \subseteq ToSet(c)
    BY <1>2, GrownFacts
  <2>3. ToSet(P) = InnerOf(P) \cup {c[k - 1], c[k + 1]} /\ ToSet(P) \subseteq ToSet(d)
    BY <1>4, <1>5, <1>6, SplicePath
  <2> QED BY <1>1, <1>2, <2>1, <2>2, <2>3
<1>10. /\ \A x \in g.nodes : u.cutf[x] = 0
       /\ \A h \in DOMAIN g.faces : u.virtSrc[h] = None
       /\ \A x \in g.nodes, h \in DOMAIN g.faces : << x, h >> \in u.inF <=> x \in OnFace(g, h)
  BY <1>1 DEF Linked
<1>11. \A i \in 1..(Len(d) - 1) :
         /\ Beside(g, d[i], u.nextSucc[d[i]], d[i + 1])
         /\ Beside(g, d[i + 1], d[i], u.prevPred[d[i + 1]])
  BY <1>7 DEF LinksOn, LinkAt
<1>12. u.virt = {}
  BY <1>1
<1> QED BY <1>8, <1>9, <1>10, <1>11, <1>12 DEF Linked

(* The state is ready for the path.                                        *)
LEMMA NodeReady ==
  ASSUME NEW g, IsEmbedding(g), NEW b, BaseShape(g, b), NEW t, NEW R, NEW c, Valid(g, b, t, R, c),
         t.updF = {}, t.updV = {}, t.possF = {}, NEW k, NEW v, NEW N, NEW P, NEW d,
         NodePath(g, b, c, R, k, v, N, P, d), NodePieces(g, t, c, R, v),
         NEW T, T = R \cup {v}, NEW u, NodeStep(g, t, T, v, N, P, u)
  PROVE  Ready(g, b, u, T, c, d, P, {}, {v})
<1>1. /\ ContourShape(g, b, c, R) /\ IsState(g, t) /\ t.contour = c /\ Linked(g, t, c, R)
      /\ Counted(g, b, t, R, c) /\ FacesMarked(g, t, R) /\ NodesMarked(b, t, R, c) /\ EdgesUnmarked(t)
  BY DEF Valid
<1>2. Linked(g, u, d, T)
  BY <1>1, NodeLinked
<1>3. /\ NodeAt(g, b, c, R, k, v, N) /\ ToSet(N) \subseteq ToSet(P)
      /\ Grown(g, b, c, R, {v}, k - 1, k + 1, P, d)
  BY DEF NodePath
<1>4. v \in ToSet(c)
  <2>1. NodeRound(g, v, N, ToSet(c) \cup R \cup ToSet(N)) /\ v \in ToSet(c) /\ v \notin R
    BY <1>3, RoundOfNode
  <2> QED BY <2>1
<1>5. /\ IsState(g, u) /\ u.contour = c
      /\ u.numsf = t.numsf /\ u.isSf = t.isSf
      /\ u.possF = t.possF /\ u.possV = t.possV
      /\ u.fLink = t.fLink /\ u.vLink = t.vLink
      /\ u.possE = t.possE /\ u.eLink = t.eLink /\ u.dangling = t.dangling
      /\ u.updF = {}
  BY <1>1 DEF NodeStep
<1>6. /\ \A f \in Whole(g, T) \cup {extFace} :
           u.outv[f] = t.outv[f] /\ u.oute[f] = t.oute[f] /\ u.seqp[f] = t.seqp[f]
      /\ \A f \in Whole(g, T), x \in g.nodes : u.outer[f][x] = IF x = v THEN 0 ELSE t.outer[f][x]
      /\ \A x \in g.nodes : u.deg[x] = t.deg[x] - IF x \in ToSet(N) THEN 1 ELSE 0
  BY DEF NodeStep
<1>7. Whole(g, T) = {f \in Whole(g, R) : v \notin OnFace(g, f)}
  BY DEF Whole
<1>8. \A f \in t.isSf : f \in Whole(g, T)
  BY <1>7 DEF NodePieces
<1>9. Counted(g, b, u, T, c)
  <2>1. FaceCounts(g, t, R, c) /\ OuterBounds(g, b, t, c) /\ SepCounts(g, t, R, c)
    BY <1>1 DEF Counted
  <2>2. FaceCounts(g, u, T, c)
    <3>1. ASSUME NEW f \in Whole(g, T)
          PROVE  /\ u.outv[f] = Cardinality(ToSet(c) \cap OnFace(g, f))
                 /\ u.oute[f] = Cardinality(RightPairs(g, c, f))
                 /\ u.seqp[f] = Cardinality(FacePairs(g, c, f))
                 /\ \A x \in g.nodes :
                      u.outer[f][x] = IF x \in ToSet(c) /\ x \in OnFace(g, f) THEN 1 ELSE 0
      <4>1. f \in Whole(g, R) /\ v \notin OnFace(g, f)
        BY <1>7
      <4>2. /\ t.outv[f] = Cardinality(ToSet(c) \cap OnFace(g, f))
            /\ t.oute[f] = Cardinality(RightPairs(g, c, f))
            /\ t.seqp[f] = Cardinality(FacePairs(g, c, f))
            /\ \A x \in g.nodes :
                 t.outer[f][x] = IF x \in ToSet(c) /\ x \in OnFace(g, f) THEN 1 ELSE 0
        BY <2>1, <4>1 DEF FaceCounts
      <4>3. \A x \in g.nodes : u.outer[f][x] = IF x = v THEN 0 ELSE t.outer[f][x]
        BY <1>6
      <4>4. u.outv[f] = t.outv[f] /\ u.oute[f] = t.oute[f] /\ u.seqp[f] = t.seqp[f]
        BY <1>6
      <4> QED BY <4>1, <4>2, <4>3, <4>4
    <3> QED BY <3>1 DEF FaceCounts
  <2>3. OuterBounds(g, b, u, c)
    <3>1. u.outv[extFace] = t.outv[extFace] /\ u.seqp[extFace] = t.seqp[extFace]
      BY <1>6
    <3> QED BY <2>1, <3>1 DEF OuterBounds
  <2>4. SepCounts(g, u, T, c)
    <3>1. u.isSf \subseteq Whole(g, T)
      BY <1>5, <1>8
    <3>2. ASSUME NEW x \in g.nodes \ T PROVE u.numsf[x] = Cardinality(SepOf(g, u, c, x))
      <4>1. x \in g.nodes \ R
        OBVIOUS
      <4>2. t.numsf[x] = Cardinality(SepOf(g, t, c, x))
        BY <2>1, <4>1 DEF SepCounts
      <4>3. SepOf(g, u, c, x) = SepOf(g, t, c, x)
        BY <1>5 DEF SepOf
      <4> QED BY <1>5, <4>2, <4>3
    <3> QED BY <3>1, <3>2 DEF SepCounts
  <2> QED BY <2>2, <2>3, <2>4 DEF Counted
<1>10. FacesReady(g, u, T, {})
  <2>1. /\ \A h \in Whole(g, R) : (h \in t.isSf <=> SepFace(t, h)) /\ (h \in t.possF <=> PossFace(t, h))
        /\ t.possF \subseteq t.fLink
        /\ \A h \in Whole(g, R) \cup {extFace} : h \in t.fLink => h \in t.possF
    BY <1>1 DEF FacesMarked
  <2>2. \A h \in Whole(g, T) : (h \in u.isSf <=> SepFace(u, h)) /\ (h \in u.possF <=> PossFace(u, h))
    <3> SUFFICES ASSUME NEW h \in Whole(g, T)
                 PROVE  (h \in u.isSf <=> SepFace(u, h)) /\ (h \in u.possF <=> PossFace(u, h))
      OBVIOUS
    <3>1. (h \in t.isSf <=> SepFace(t, h)) /\ (h \in t.possF <=> PossFace(t, h))
      BY <1>7, <2>1
    <3>2. u.outv[h] = t.outv[h] /\ u.oute[h] = t.oute[h] /\ u.seqp[h] = t.seqp[h]
      BY <1>6
    <3>3. u.isSf = t.isSf /\ u.possF = t.possF
      BY <1>5
    <3> QED BY <3>1, <3>2, <3>3 DEF SepFace, PossFace
  <2>3. u.possF \ {} \subseteq Whole(g, T) /\ u.possF \subseteq u.fLink
    BY <1>5
  <2>4. \A h \in Whole(g, T) \cup {extFace} : h \in u.fLink => h \in u.possF
    BY <1>5, <1>7, <2>1
  <2>5. {} \cap (Whole(g, T) \cup {extFace}) = {} /\ u.updF \subseteq Whole(g, T) \cup {extFace}
    BY <1>5
  <2> QED BY <2>2, <2>3, <2>4, <2>5 DEF FacesReady
<1>11. NodesReady(b, u, T, d, P, {v})
  <2>1. /\ \A x \in ToSet(c) \ ToSet(b) : x \in t.possV <=> PossNode(t, x)
        /\ t.possV \subseteq ToSet(c) \ ToSet(b)
        /\ t.possV \subseteq t.vLink /\ t.vLink \subseteq t.possV \cup R
    BY <1>1 DEF NodesMarked
  <2>2. u.updV = ToSet(P)
    <3>1. u.updV = t.updV \cup ToSet(N) \cup ToSet(P)
      BY DEF NodeStep
    <3> QED BY <1>3, <3>1
  <2>3. ToSet(d) = (ToSet(c) \ {v}) \cup InnerOf(P) /\ ToSet(P) \subseteq ToSet(d) /\ c \in Path(g.nodes)
    BY <1>3, GrownFacts
  <2>4. InnerOf(P) \subseteq ToSet(P)
    <3>1. P \in Path(g.nodes)
      BY <1>3, GrownShape
    <3>2. Len(P) \in Nat /\ \A j \in 1..Len(P) : P[j] \in ToSet(P)
      BY <3>1, PathIndices
    <3> QED BY <3>2 DEF InnerOf
  <2>5. ASSUME NEW x \in ToSet(d) \ (ToSet(b) \cup u.updV) PROVE x \in u.possV <=> PossNode(u, x)
    <3>1. x \in ToSet(c) \ ToSet(b) /\ x \notin ToSet(N)
      BY <1>3, <2>2, <2>3, <2>4
    <3>2. x \in g.nodes
      BY <2>3, <3>1, PathIndices
    <3>3. u.deg[x] = t.deg[x] - 0
      BY <1>6, <3>1, <3>2
    <3>4. t.deg[x] \in Int
      BY <1>1, <3>2 DEF IsState
    <3>5. u.deg[x] = t.deg[x] /\ u.numsf[x] = t.numsf[x]
      BY <1>5, <3>3, <3>4
    <3>6. x \in t.possV <=> PossNode(t, x)
      BY <2>1, <3>1
    <3> QED BY <1>5, <3>5, <3>6 DEF PossNode
  <2>6. u.possV \ {v} \subseteq ToSet(d) \ ToSet(b)
    BY <1>5, <2>1, <2>3
  <2>7. u.possV \subseteq u.vLink /\ u.vLink \subseteq u.possV \cup T
    <3>1. u.possV = t.possV /\ u.vLink = t.vLink
      BY <1>5
    <3> QED BY <2>1, <3>1
  <2>8. {v} \subseteq T
    OBVIOUS
  <2> QED BY <2>2, <2>3, <2>5, <2>6, <2>7, <2>8 DEF NodesReady
<1>12. EdgesUnmarked(u)
  BY <1>1, <1>5 DEF EdgesUnmarked
<1> QED BY <1>2, <1>5, <1>9, <1>10, <1>11, <1>12 DEF Ready

(* Nothing that follows the walk takes a virtual edge away.                *)
HasVirt(t, V) == DOMAIN t = Fields /\ t.virt = V

LEMMA VirtStays ==
  ASSUME NEW t, NEW V, HasVirt(t, V), NEW P, NEW v,
         NEW u, u = doUpdate([PathToContour(t, P) EXCEPT !.possV = @ \ {v}])
  PROVE  HasVirt(u, V)
<1>1. ASSUME NEW x, HasVirt(x, V) PROVE HasVirt(Replace(x, P), V)
  BY <1>1 DEF HasVirt, Replace, Fields
<1>2. ASSUME NEW x, HasVirt(x, V) PROVE HasVirt(setOute(x, P), V)
  BY <1>2 DEF HasVirt, setOute, Fields
<1>3. ASSUME NEW x, HasVirt(x, V), NEW Q PROVE HasVirt(setOutv(x, Q), V)
  BY <1>3 DEF HasVirt, setOutv, Fields
<1>4. ASSUME NEW x, HasVirt(x, V) PROVE HasVirt(setSeqp(x, P), V)
  BY <1>4 DEF HasVirt, setSeqp, Fields
<1>5. ASSUME NEW x, HasVirt(x, V) PROVE HasVirt(UpdateFaces(x), V)
  BY <1>5 DEF HasVirt, UpdateFaces, Fields
<1>6. ASSUME NEW x, HasVirt(x, V) PROVE HasVirt(UpdateNodes(x), V)
  BY <1>6 DEF HasVirt, UpdateNodes, Fields
<1>7. ASSUME NEW x, HasVirt(x, V) PROVE HasVirt([x EXCEPT !.possV = @ \ {v}], V)
  BY <1>7 DEF HasVirt, Fields
<1>8. HasVirt(PathToContour(t, P), V)
  BY <1>1, <1>2, <1>3, <1>4 DEF PathToContour, CountPath
<1> QED BY <1>5, <1>6, <1>7, <1>8 DEF doUpdate

LEMMA NodeIsGone ==
  ASSUME NEW g, NEW T, NEW u, IsState(g, u), \A h \in DOMAIN g.faces : u.virtSrc[h] = None,
         NEW v, NEW w, w = [u EXCEPT !.possV = @ \ {v}]
  PROVE  Gone(g, T, {}, {v}, u, w)
<1>1. DOMAIN u = Fields
  BY DEF IsState
<1>2. /\ DOMAIN w = Fields
      /\ w.contour = u.contour /\ w.nextSucc = u.nextSucc /\ w.prevPred = u.prevPred
      /\ w.virt = u.virt /\ w.deg = u.deg /\ w.cutf = u.cutf /\ w.numsf = u.numsf
      /\ w.onOuter = u.onOuter /\ w.outv = u.outv /\ w.oute = u.oute /\ w.seqp = u.seqp
      /\ w.isSf = u.isSf /\ w.inF = u.inF /\ w.updF = u.updF /\ w.updV = u.updV
      /\ w.possE = u.possE /\ w.fLink = u.fLink /\ w.vLink = u.vLink /\ w.eLink = u.eLink
      /\ w.dangling = u.dangling /\ w.possF = u.possF \ {} /\ w.possV = u.possV \ {v}
      /\ w.virtSrc = u.virtSrc /\ w.outer = u.outer
  BY <1>1 DEF Fields
<1>3. IsState(g, w)
  BY <1>2 DEF IsState
<1>4. /\ \A h \in DOMAIN g.faces : w.virtSrc[h] = None
      /\ \A f \in Whole(g, T) : w.outer[f] = u.outer[f]
  BY <1>2
<1> QED BY <1>2, <1>3, <1>4, Zenon DEF Gone

(* The set found and the path that is walked.                              *)
LEMMA NodeIsRemoved ==
  ASSUME s.virt = {}, NEW v, NEW x, x = FollowFaces(v, getAdjNodes(s, v), None)
  PROVE  removeNextNode(v) = << Set(<< v >>, prev(s, v), next(s, v)), PathToContour(x[2], x[1]) >>
<1> DEFINE vVirt == IF v \in s.virt THEN next(s, v) ELSE IF prev(s, v) \in s.virt THEN prev(s, v) ELSE None
           fVirt == IF v \in s.virt THEN rightOf(s, v)
                    ELSE IF prev(s, v) \in s.virt THEN leftOf(s, v) ELSE None
<1>1. removeNextNode(v) =
        << Set(<< v >>, IF prev(s, v) \in s.virt THEN s.prevPred[v] ELSE prev(s, v),
                        IF v \in s.virt THEN s.nextSucc[v] ELSE next(s, v)),
           Uncut(PathToContour(FollowFaces(v, getAdjNodes(s, v), fVirt)[2],
                               FollowFaces(v, getAdjNodes(s, v), fVirt)[1]), v, vVirt, fVirt) >>
  BY DEF removeNextNode
<1>2. vVirt = None /\ fVirt = None
  OBVIOUS
<1> HIDE DEF vVirt, fVirt
<1>3. Uncut(PathToContour(x[2], x[1]), v, None, None) = PathToContour(x[2], x[1])
  BY DEF Uncut
<1> QED BY <1>1, <1>2, <1>3

(* TakeNode leaves a state from which the faces can be followed.           *)
LEMMA NodeTakenStart ==
  ASSUME IsEmbedding(E), BaseShape(E, base), NEW R, NEW c, Valid(E, base, s, R, c),
         NEW k, NEW v, NodeFound(E, base, s, R, c, k, v), NEW N, N = getAdjNodes(s, v),
         NEW T, T = R \cup {v}, NodeLeft(E, s, T, v, N, TakeNode(v, getAdjFaces(s, v), N))
  PROVE  NodeStart(base, c, R, k, v, N, TakeNode(v, getAdjFaces(s, v), N))
<1> DEFINE t == TakeNode(v, getAdjFaces(s, v), N)
<1>1. Linked(E, s, c, R) /\ ContourShape(E, base, c, R)
  BY DEF Valid
<1>2. NodeAt(E, base, c, R, k, v, N) /\ prev(s, v) = c[k - 1]
  BY DEF NodeFound
<1>3. N[1] = c[k - 1] /\ v = c[k] /\ k \in 2..(Len(c) - 1) /\ c \in Path(E.nodes)
  BY <1>1, <1>2 DEF NodeAt, ContourShape
<1>4. Entry(E, N[1], v, rightOf(s, N[1]))
  <2>1. Len(c) \in Nat
    BY <1>3, PathIndices
  <2>2. k - 1 \in 1..(Len(c) - 1) /\ k - 1 + 1 = k
    BY <1>3, <2>1
  <2>3. Entry(E, c[k - 1], c[k - 1 + 1], rightOf(s, c[k - 1]))
    BY <1>1, <2>2, RightOfIs
  <2> QED BY <1>3, <2>2, <2>3
<1>5. NodeLeft(E, s, T, v, N, t)
  OBVIOUS
<1> HIDE DEF t
<1>6. IsState(E, t) /\ t.onOuter = s.onOuter \cup ToSet(N) /\ t.updV = s.updV \cup ToSet(N)
  BY <1>5 DEF NodeLeft
<1>7. s.onOuter = ToSet(c) \cup R
  BY <1>1 DEF Linked
<1>8. t.onOuter = ToSet(c) \cup R \cup ToSet(N) /\ ToSet(N) \subseteq t.updV
  BY <1>6, <1>7
<1>9. NodeStart(base, c, R, k, v, N, t)
  BY <1>2, <1>3, <1>4, <1>6, <1>8 DEF NodeStart
<1> QED BY <1>9 DEF t

LEMMA OneIsSeq ==
  ASSUME NEW V, NEW v \in V
  PROVE  << v >> \in Seq(V)
  OBVIOUS

(* ... and a node with all the neighbours it had below.                    *)
LEMMA NodePutBack ==
  ASSUME IsEmbedding(E), BaseShape(E, base), NEW c, NEW R, NEW k, NEW v, NEW N, NEW P, NEW d,
         NodePath(E, base, c, R, k, v, N, P, d),
         NEW set, set.nodes = << v >>, set.left = c[k - 1], set.right = c[k + 1]
  PROVE  PutBack(E, c, R, set, d)
<1> DEFINE m == Len(P)
           a == k - 1
           z == k + 1
           X == SetEdges(d, set)
<1>1. /\ NodeAt(E, base, c, R, k, v, N) /\ ToSet(N) \subseteq ToSet(P)
      /\ Grown(E, base, c, R, {v}, a, z, P, d)
  BY DEF NodePath
<1>2. /\ ContourShape(E, base, c, R) /\ k \in 2..(Len(c) - 1) /\ v = c[k]
      /\ N \in Path(E.nodes) /\ Len(N) >= 3 /\ N[1] = c[a] /\ N[Len(N)] = c[z]
      /\ ToSet(N) = Around(E, v) \ R
  BY <1>1 DEF NodeAt
<1>3. c \in Path(E.nodes) /\ Len(c) \in Nat
  BY <1>2, PathIndices DEF ContourShape
<1>4. Ends(c, a, z, P) /\ P \in Path(E.nodes)
  BY <1>1 DEF Grown, Swept
<1>5. ContourShape(E, base, d, R \cup {v}) /\ Splice(c, a, z, P, d)
  BY <1>1, GrownShape
<1>6. d \in Path(E.nodes)
  BY <1>5 DEF ContourShape
<1>7. v \in E.nodes
  <2>1. k \in 1..Len(c)
    BY <1>2, <1>3
  <2> QED BY <1>2, <1>3, <2>1, PathIndices
<1>8. << v >> \in Seq(E.nodes) /\ Len(<< v >>) = 1 /\ << v >>[1] = v
  <2>1. << v >> \in Seq(E.nodes)
    BY <1>7, OneIsSeq
  <2>2. Len(<< v >>) = 1 /\ << v >>[1] = v
    OBVIOUS
  <2> QED BY <2>1, <2>2
<1>9. SectionOf(c, a, z, set)
  <2>1. z - a - 1 = 1 /\ a + 1 = k
    BY <1>2, <1>3
  <2>2. \A i \in 1..1 : set.nodes[i] = c[a + i]
    <3>1. \A i \in 1..1 : i = 1
      OBVIOUS
    <3>2. set.nodes[1] = c[k]
      BY <1>2, <1>8
    <3> QED BY <2>1, <3>1, <3>2
  <2>3. Len(set.nodes) = 1
    BY <1>8
  <2> HIDE DEF a, z
  <2> QED BY <2>1, <2>2, <2>3 DEF SectionOf, a, z
<1>10. /\ m \in Nat /\ m >= 2 /\ P[1] = c[a] /\ P[m] = c[z] /\ a \in 1..Len(c) /\ z \in 1..Len(c) /\ a < z
  BY <1>4, PathIndices DEF Ends
<1>11. set.nodes \in Path(E.nodes) /\ ToSet(set.nodes) \subseteq ToSet(c)
  <2>1. set.nodes \in Seq(E.nodes)
    BY <1>8
  <2> HIDE DEF a, z
  <2> QED BY <1>3, <1>9, <1>10, <2>1, SectionIsPath
<1>12. FitsAt(d, set, a, a + m - 1) /\ OnContour(d, set) /\ PutOn(d, set) = c
  <2>1. set.nodes \in Seq(E.nodes)
    BY <1>8
  <2> HIDE DEF a, z
  <2> QED BY <1>3, <1>4, <1>5, <1>6, <1>9, <2>1, SectionBack
<1>13. BetweenPlaces(E.nodes, d, a, a + m - 1, Covered(d, set))
  BY <1>6, <1>12, CoveredIndices
<1>14. /\ << set.left, v >> \in X /\ << v, set.right >> \in X
       /\ \A w \in ToSet(Covered(d, set)) : << w, v >> \in X
  <2>1. Head(set.nodes) = v /\ Last(set.nodes) = v /\ set.nodes[1] = v /\ Len(set.nodes) = 1
    BY <1>8 DEF Last
  <2>2. ~ Len(set.nodes) > 1
    BY <2>1
  <2> QED BY <2>1, <2>2 DEF SetEdges
<1> HIDE DEF X
<1>15. ASSUME NEW w \in Around(E, v) \ R PROVE EitherWay(X, v, w)
  <2>1. w \in ToSet(P)
    BY <1>1, <1>2, <1>15
  <2>2. PICK j \in 1..m : P[j] = w
    BY <1>4, <2>1, PathIndices
  <2>3. CASE j = 1
    BY <1>10, <1>14, <2>2, <2>3 DEF EitherWay
  <2>4. CASE j = m
    BY <1>10, <1>14, <2>2, <2>4 DEF EitherWay
  <2>5. CASE j # 1 /\ j # m
    <3> DEFINE cov == Covered(d, set)
               i == j - 1
    <3>1. i \in 1..(m - 2)
      BY <1>10, <2>2, <2>5
    <3> DEFINE b == a + m - 1
    <3>2. Len(cov) = b - a - 1 /\ \A e \in 1..(b - a - 1) : cov[e] = d[a + e]
      <4>1. BetweenPlaces(E.nodes, d, a, b, cov)
        BY <1>13
      <4> HIDE DEF a, b, cov
      <4> QED BY <4>1 DEF BetweenPlaces
    <3>3. b - a - 1 = m - 2 /\ a + i = a + j - 1
      BY <1>2, <1>3, <1>10
    <3>4. cov[i] = d[a + j - 1]
      BY <3>1, <3>2, <3>3
    <3>5. d[a + j - 1] = P[j]
      BY <1>5, <2>2 DEF Splice
    <3>6. cov \in Seq(E.nodes) /\ DOMAIN cov = 1..(m - 2)
      <4>1. cov \in Seq(E.nodes)
        BY <1>13 DEF BetweenPlaces
      <4> HIDE DEF cov
      <4> QED BY <3>2, <3>3, <4>1
    <3> HIDE DEF cov, i, b
    <3>7. w \in ToSet(cov)
      BY <2>2, <3>1, <3>4, <3>5, <3>6 DEF ToSet
    <3> QED BY <1>14, <3>7 DEF EitherWay, cov
  <2> QED BY <2>3, <2>4, <2>5
<1>16. \A w \in ToSet(set.nodes) : w = v
  <2>1. DOMAIN << v >> = {1}
    OBVIOUS
  <2> QED BY <1>8, <2>1 DEF ToSet
<1>17. Len(set.nodes) >= 1
  BY <1>8
<1> QED BY <1>11, <1>12, <1>15, <1>16, <1>17 DEF PutBack, X

(* A node is taken: without a virtual edge, what is left is valid again,   *)
(* with the node gone and its set the node between its neighbours.         *)
LEMMA NodeTaken ==
  ASSUME IsEmbedding(E), BaseShape(E, base), NEW R, NEW c, Valid(E, base, s, R, c),
         s.updF = {}, s.updV = {}, s.possF = {}, NEW v \in s.possV,
         NEW u, u = doUpdate([removeNextNode(v)[2] EXCEPT !.possV = @ \ {v}]), u.virt = {}
  PROVE  Taken(E, base, c, R, removeNextNode(v)[1], u)
<1>1. /\ ContourShape(E, base, c, R) /\ s.contour = c /\ Linked(E, s, c, R)
  BY DEF Valid
<1>2. s.virt = {}
  BY <1>1 DEF Linked
<1>3. \E k \in 2..(Len(c) - 1) : NodeFound(E, base, s, R, c, k, v)
  BY PossNodeFound
<1>4. PICK k \in 2..(Len(c) - 1) : NodeFound(E, base, s, R, c, k, v)
  BY <1>3
<1> DEFINE N == getAdjNodes(s, v)
           T == R \cup {v}
           O == ToSet(c) \cup R \cup ToSet(N)
           t == TakeNode(v, getAdjFaces(s, v), N)
           x == FollowFaces(v, N, None)
           P == x[1]
           t0 == x[2]
           d == SpliceOf(c, P)
           u1 == PathToContour(t0, P)
           w == [u1 EXCEPT !.possV = @ \ {v}]
           set == Set(<< v >>, prev(s, v), next(s, v))
<1>5. removeNextNode(v) = << set, u1 >>
  BY <1>2, NodeIsRemoved
<1>6. u = doUpdate(w) /\ removeNextNode(v)[1] = set
  BY <1>5
<1>7. NodeAt(E, base, c, R, k, v, N) /\ prev(s, v) = c[k - 1] /\ next(s, v) = c[k + 1]
  BY <1>4 DEF NodeFound
<1>8. NodeLeft(E, s, T, v, N, t)
  BY <1>7, TakeNodeLeaves
<1>9. NodeStart(base, c, R, k, v, N, t)
  BY <1>4, <1>8, NodeTakenStart
<1>10. FoundSoFar(v, N, O, Len(N), t, x)
  BY <1>9, FollowedFound
<1>11. ~ CutAt(N, Len(N), t0)
  <2>1. SUFFICES ASSUME CutAt(N, Len(N), t0) PROVE FALSE
    OBVIOUS
  <2>2. DOMAIN t0 = Fields /\ t0.virt # {}
    BY <2>1 DEF CutAt
  <2>3. HasVirt(t0, t0.virt)
    BY <2>2 DEF HasVirt
  <2>4. u = doUpdate([PathToContour(t0, P) EXCEPT !.possV = @ \ {v}])
    BY <1>6
  <2>5. HasVirt(u, t0.virt)
    BY <2>3, <2>4, VirtStays
  <2> QED BY <2>2, <2>5 DEF HasVirt
<1>12. PathInv(E, v, N, O, Len(N), P) /\ StateInv(E, v, N, Len(N), P, t, t0)
  BY <1>10, <1>11 DEF FoundSoFar
<1>13. NodePieces(E, s, c, R, v)
  BY PossNodePieces
<1>14. \A f \in Whole(E, R) : v \in OnFace(E, f) => OnePiece(E, c, f)
  BY <1>13 DEF NodePieces
<1>15. set.nodes = << v >> /\ set.left = c[k - 1] /\ set.right = c[k + 1]
  BY <1>7 DEF Set
<1> HIDE DEF N, T, O, t, x, P, t0, d, u1, w, set
<1>16. NodePath(E, base, c, R, k, v, N, P, d)
  BY <1>7, <1>12, <1>14, NodePathIs DEF O, d
<1>17. NodeStep(E, s, T, v, N, P, t0)
  BY <1>7, <1>8, <1>12, NodeStepIs DEF T
<1>18. Ready(E, base, t0, T, c, d, P, {}, {v})
  BY <1>13, <1>16, <1>17, NodeReady DEF T
<1>19. IsState(E, t0) /\ t0.contour = c /\ Linked(E, t0, d, T)
  BY <1>18 DEF Ready
<1>20. Grown(E, base, c, R, {v}, k - 1, k + 1, P, d)
  BY <1>16 DEF NodePath
<1>21. PathStep(E, base, d, T, P, t0, u1)
  BY <1>19, <1>20, PathSteps DEF u1, T
<1>22. Gone(E, T, {}, {v}, u1, w)
  <2>1. IsState(E, u1) /\ Linked(E, u1, d, T)
    BY <1>21 DEF PathStep
  <2>2. \A h \in DOMAIN E.faces : u1.virtSrc[h] = None
    BY <2>1 DEF Linked
  <2>3. w = [u1 EXCEPT !.possV = @ \ {v}]
    BY DEF w
  <2> QED BY <2>1, <2>2, <2>3, NodeIsGone
<1>23. Valid(E, base, w, T, d)
  BY <1>18, <1>20, <1>21, <1>22, GrownValid DEF T
<1>24. Valid(E, base, u, T, d) /\ u.updF = {} /\ u.updV = {}
  BY <1>6, <1>23, UpdateIsComplete
<1>25. c \in Path(E.nodes)
  BY <1>1 DEF ContourShape
<1>26. v = c[k] /\ c[k] \in E.nodes /\ c[k - 1] \in E.nodes /\ c[k + 1] \in E.nodes
  <2>1. Len(c) \in Nat /\ \A i \in 1..Len(c) : c[i] \in E.nodes
    BY <1>25, PathIndices
  <2>2. k \in 1..Len(c) /\ k - 1 \in 1..Len(c) /\ k + 1 \in 1..Len(c)
    BY <2>1
  <2> QED BY <1>7, <2>1, <2>2 DEF NodeAt
<1>27. << v >> \in Seq(E.nodes) /\ ToSet(<< v >>) = {v}
  <2>1. v \in E.nodes
    BY <1>26
  <2>2. << v >> \in Seq(E.nodes)
    BY <2>1, OneIsSeq
  <2>3. ToSet(<< v >>) = {v}
    <3> DEFINE y == << v >>
    <3>1. DOMAIN y = {1} /\ y[1] = v
      OBVIOUS
    <3> HIDE DEF y
    <3>2. {y[i] : i \in DOMAIN y} = {v}
      BY <3>1
    <3>3. ToSet(y) = {v}
      BY <3>2 DEF ToSet
    <3> QED BY <3>3 DEF y
  <2> QED BY <2>2, <2>3
<1>28. R \cup ToSet(set.nodes) = T
  BY <1>15, <1>27 DEF T
<1>29. set \in [nodes : Seq(E.nodes), left : E.nodes \cup {None}, right : E.nodes \cup {None}]
  BY <1>15, <1>26, <1>27 DEF set, Set
<1>30. PutBack(E, c, R, set, d)
  BY <1>15, <1>16, NodePutBack
<1> QED BY <1>6, <1>24, <1>28, <1>29, <1>30 DEF Taken

-----------------------------------------------------------------------------
(***************************************************************************)
(* The start: the base chain, and the contour around the external face.    *)
(***************************************************************************)
LEMMA ForwardPlace ==
  ASSUME NEW n \in Nat \ {0}, NEW m \in 0..(2 * n - 1)
  PROVE  (m % n) + 1 = IF m < n THEN m + 1 ELSE m - n + 1
<1>1. CASE m < n
  <2>1. m % n = m
    BY <1>1
  <2> QED BY <1>1, <2>1
<1>2. CASE m >= n
  <2>1. m - n \in 0..(n - 1) /\ m = (m - n) + n
    BY <1>2
  <2>2. ((m - n) + n) % n = m - n
    BY <2>1
  <2> QED BY <1>2, <2>1, <2>2
<1> QED BY <1>1, <1>2

PlaceOn(n, i, k) == IF i + k - 2 < n THEN i + k - 1 ELSE i + k - 1 - n

(* The places from i on, fewer than all of them.                           *)
GoesOn(n, i, len) ==
  /\ \A k \in 1..len : ((i + k - 2) % n) + 1 = PlaceOn(n, i, k) /\ PlaceOn(n, i, k) \in 1..n
  /\ \A k, j \in 1..len : PlaceOn(n, i, k) = PlaceOn(n, i, j) => k = j
  /\ \A k \in 1..(len - 1) :
       PlaceOn(n, i, k + 1) = IF PlaceOn(n, i, k) = n THEN 1 ELSE PlaceOn(n, i, k) + 1

LEMMA PlacesOn ==
  ASSUME NEW n \in Nat \ {0}, NEW i \in 1..n, NEW len \in 1..n
  PROVE  GoesOn(n, i, len)
<1>1. ASSUME NEW k \in 1..len
      PROVE  ((i + k - 2) % n) + 1 = PlaceOn(n, i, k) /\ PlaceOn(n, i, k) \in 1..n
  <2> DEFINE m == i + k - 2
  <2>1. m \in 0..(2 * n - 1) /\ m + 1 = i + k - 1 /\ m - n + 1 = i + k - 1 - n
    OBVIOUS
  <2> HIDE DEF m
  <2>2. (m % n) + 1 = IF m < n THEN m + 1 ELSE m - n + 1
    BY <2>1, ForwardPlace
  <2>3. (m % n) + 1 = PlaceOn(n, i, k)
    BY <2>1, <2>2 DEF PlaceOn, m
  <2>4. PlaceOn(n, i, k) \in 1..n
    BY <2>1 DEF PlaceOn, m
  <2> QED BY <2>3, <2>4 DEF m
<1>2. \A k, j \in 1..len : PlaceOn(n, i, k) = PlaceOn(n, i, j) => k = j
  BY DEF PlaceOn
<1>3. \A k \in 1..(len - 1) :
        PlaceOn(n, i, k + 1) = IF PlaceOn(n, i, k) = n THEN 1 ELSE PlaceOn(n, i, k) + 1
  BY DEF PlaceOn
<1> QED BY <1>1, <1>2, <1>3 DEF GoesOn

LEMMA MinOfTwo ==
  ASSUME NEW i \in Int, NEW j \in Int
  PROVE  Min({i, j}) = IF i <= j THEN i ELSE j
<1> DEFINE T == {i, j}
           b == IF i <= j THEN i ELSE j
<1>1. T \in SUBSET Int /\ T # {} /\ b \in Int /\ \A n \in T : b <= n
  OBVIOUS
<1> HIDE DEF T, b
<1>2. Min(T) \in T /\ \A n \in T : Min(T) <= n
  BY <1>1, BoundedMin
<1> QED BY <1>2 DEF T

(* Where findMaxBaseChain finds a chain, getBaseChain cuts it to a third.  *)
ChainFrom(i, len) ==
  [k \in 1..len |-> E.faces[extFace][((i + k - 2) % Len(E.faces[extFace])) + 1]]

LEMMA BaseIsChain ==
  ASSUME IsEmbedding(E), NEW b \in getBaseChain
  PROVE  \E i \in 1..Len(E.faces[extFace]), len \in Int :
           /\ b = ChainFrom(i, len) /\ 2 <= len /\ len < Len(E.faces[extFace])
           /\ 3 * len <= Len(E.faces[extFace]) + 3
<1> DEFINE n == Len(E.faces[extFace])
           inner == {e \in DOMAIN E.rightFace : extFace \notin {right(e[1], e[2]), left(e[1], e[2])}}
           chains == {c \in (1..n) \X (2..(n - 1)) :
                        \A e \in inner : ~ Range(e) \subseteq Range(ChainFrom(c[1], c[2]))}
           length == Max({c[2] : c \in chains})
           most == (33 * n + 50) \div 100
           cut == Max({2, Min({length, most})})
<1>1. getBaseChain = {ChainFrom(i, cut) : i \in {i \in 1..n : << i, length >> \in chains}}
  BY Zenon DEF getBaseChain, ChainFrom
<1>2. PICK i \in 1..n : << i, length >> \in chains /\ b = ChainFrom(i, cut)
  <2> HIDE DEF n, length, cut, chains
  <2> QED BY <1>1
<1>3. length \in 2..(n - 1)
  <2>1. chains \subseteq (1..n) \X (2..(n - 1))
    OBVIOUS
  <2> HIDE DEF n, length, cut, chains
  <2> QED BY <1>2, <2>1
<1>4. n \in Nat /\ n >= 3
  <2>1. extFace \in DOMAIN E.faces
    BY DEF IsEmbedding, extFace
  <2>2. E.faces[extFace] \in Path(E.nodes) /\ n >= 3
    BY <2>1, FaceIsPath
  <2> QED BY <2>2, PathIndices
<1> HIDE DEF n, length, chains
<1>5. most \in Int /\ 100 * most <= 33 * n + 50
  BY <1>4
<1> HIDE DEF most
<1>6. Min({length, most}) \in Int /\ Min({length, most}) <= length /\ Min({length, most}) <= most
  <2>1. length \in Int /\ most \in Int
    BY <1>3, <1>5
  <2>2. Min({length, most}) = IF length <= most THEN length ELSE most
    BY <2>1, MinOfTwo
  <2> QED BY <2>1, <2>2
<1>7. cut = IF 2 >= Min({length, most}) THEN 2 ELSE Min({length, most})
  BY <1>6, MaxOfTwo
<1> DEFINE min == Min({length, most})
<1> HIDE DEF cut, min
<1>8. min \in Int /\ min <= length /\ min <= most /\ cut = IF 2 >= min THEN 2 ELSE min
  BY <1>6, <1>7 DEF min
<1>9. cut \in Int /\ 2 <= cut /\ cut < n /\ 3 * cut <= n + 3
  BY <1>3, <1>4, <1>5, <1>8
<1> QED BY <1>2, <1>9 DEF n

LEMMA BaseChainShape ==
  ASSUME IsEmbedding(E), NEW b \in getBaseChain
  PROVE  BaseShape(E, b)
<1> DEFINE face == E.faces[extFace]
           n == Len(E.faces[extFace])
<1>1. extFace \in DOMAIN E.faces
  BY DEF IsEmbedding, extFace
<1>2. face \in Path(E.nodes) /\ n >= 3
  BY <1>1, FaceIsPath
<1>3. /\ n \in Nat \ {0} /\ \A i \in 1..n : face[i] \in E.nodes
      /\ \A i, j \in 1..n : face[i] = face[j] => i = j
  BY <1>2, PathIndices
<1>4. PICK i \in 1..n, len \in Int : /\ b = ChainFrom(i, len) /\ 2 <= len /\ len < n
                                     /\ 3 * len <= n + 3
  BY BaseIsChain
<1>5. GoesOn(n, i, len)
  <2>1. len \in 1..n
    BY <1>3, <1>4
  <2> HIDE DEF n
  <2> QED BY <1>3, <2>1, PlacesOn
<1>6. \A w, x : Entry(E, w, x, extFace) <=>
        \E k \in 1..n : face[k] = w /\ x = IF k = n THEN face[1] ELSE face[k + 1]
  <2> SUFFICES ASSUME NEW w, NEW x
      PROVE  Entry(E, w, x, extFace) <=>
               \E k \in 1..n : face[k] = w /\ x = IF k = n THEN face[1] ELSE face[k + 1]
    OBVIOUS
  <2>1. Entry(E, w, x, extFace) <=> << w, x >> \in Follows(face)
    BY <1>1, EntryFollows
  <2>2. face \in Path(E.nodes) /\ Len(face) >= 3 /\ Len(face) = n
    BY <1>2
  <2> HIDE DEF face, n
  <2>3. << w, x >> \in Follows(face) <=>
          \E k \in 1..Len(face) : face[k] = w /\ x = IF k = Len(face) THEN face[1] ELSE face[k + 1]
    BY <2>2, FollowsAt
  <2> QED BY <2>1, <2>2, <2>3
<1>7. b = [k \in 1..len |-> face[((i + k - 2) % n) + 1]]
  BY <1>4 DEF ChainFrom
<1> HIDE DEF n, face
<1>8. b = [k \in 1..len |-> face[PlaceOn(n, i, k)]]
  BY <1>5, <1>7 DEF GoesOn
<1>9. /\ \A k \in 1..len : PlaceOn(n, i, k) \in 1..n
      /\ \A k, j \in 1..len : PlaceOn(n, i, k) = PlaceOn(n, i, j) => k = j
      /\ \A k \in 1..(len - 1) :
           PlaceOn(n, i, k + 1) = IF PlaceOn(n, i, k) = n THEN 1 ELSE PlaceOn(n, i, k) + 1
  BY <1>5 DEF GoesOn
<1>10. b \in Seq(E.nodes) /\ Len(b) = len
  <2>1. b \in [1..len -> E.nodes] /\ len \in Nat
    BY <1>3, <1>4, <1>8, <1>9
  <2> QED BY <2>1, LenProperties
<1>11. \A k \in 1..len : b[k] = face[PlaceOn(n, i, k)]
  BY <1>8
<1>12. b \in Path(E.nodes)
  <2>1. DOMAIN b = 1..len
    BY <1>8
  <2>2. \A k, j \in 1..len : b[k] = b[j] => k = j
    BY <1>3, <1>9, <1>11
  <2> QED BY <1>10, <2>1, <2>2 DEF Path
<1>13. ASSUME NEW k \in 1..(len - 1) PROVE Entry(E, b[k], b[k + 1], extFace)
  <2>1. k \in 1..len /\ k + 1 \in 1..len
    BY <1>4
  <2>2. b[k] = face[PlaceOn(n, i, k)] /\ b[k + 1] = face[PlaceOn(n, i, k + 1)]
    BY <1>11, <2>1
  <2>3. PlaceOn(n, i, k) \in 1..n
    BY <1>9, <2>1
  <2>4. b[k + 1] = IF PlaceOn(n, i, k) = n THEN face[1] ELSE face[PlaceOn(n, i, k) + 1]
    BY <1>9, <2>2
  <2> QED BY <1>6, <2>2, <2>3, <2>4
<1>14. 3 * Len(b) <= Len(E.faces[extFace]) + 3 /\ Len(b) < Len(E.faces[extFace]) /\ Len(b) >= 2
  BY <1>4, <1>10 DEF n
<1> QED BY <1>10, <1>12, <1>13, <1>14 DEF BaseShape

(* The contour goes around the external face, the base chain closes it.    *)
FirstContour(g, b, c) ==
  /\ c \in Path(g.nodes) /\ Len(c) = Len(g.faces[extFace]) + 2 - Len(b)
  /\ c[1] = b[1] /\ c[Len(c)] = b[Len(b)]
  /\ \A j \in 1..(Len(c) - 1) : Entry(g, c[j + 1], c[j], extFace)
  /\ ToSet(c) \subseteq OnFace(g, extFace)
  /\ OnFace(g, extFace) \subseteq ToSet(c) \cup ToSet(b)
  /\ ToSet(c) \cap BaseInner(b) = {}

LEMMA FirstContourIs ==
  ASSUME IsEmbedding(E), BaseShape(E, base), NEW c, c = BackTo(extFace, vLeft, vRight)
  PROVE  FirstContour(E, base, c)
<1> DEFINE B == Back(extFace, base[1])
           n == Len(B)
           p == Len(base)
           m == n + 2 - p
           P == SubSeq(B, 1, m)
<1>1. /\ p \in Nat /\ extFace \in DOMAIN E.faces
      /\ \A i \in 1..p : base[i] \in E.nodes /\ base[i] \in OnFace(E, extFace)
      /\ \A i, j \in 1..p : base[i] = base[j] => i = j
  BY BaseFacts
<1>2. /\ base \in Path(E.nodes) /\ p >= 2 /\ p < Len(E.faces[extFace])
      /\ \A i \in 1..(p - 1) : Entry(E, base[i], base[i + 1], extFace)
  BY DEF BaseShape
<1>3. 1 \in 1..p /\ p \in 1..p
  BY <1>1, <1>2
<1>4. vLeft = base[1] /\ vRight = base[p]
  <2>1. base \in Seq(E.nodes)
    BY <1>2, PathIndices
  <2> QED BY <1>2, <2>1 DEF vLeft, vRight, Last
<1>5. BackFrom(E, extFace, base[1], B)
  <2>1. base[1] \in OnFace(E, extFace)
    BY <1>1, <1>3
  <2> QED BY <1>1, <2>1, BackIsBack
<1>6. /\ B \in Path(E.nodes) /\ B[1] = base[1] /\ ToSet(B) = OnFace(E, extFace)
      /\ n = Len(E.faces[extFace])
      /\ \A i \in 1..(n - 1) : Entry(E, B[i + 1], B[i], extFace)
  BY <1>5 DEF BackFrom
<1>7. \A k \in 1..(p - 1) : n + 1 - k \in 2..n /\ B[n + 1 - k] = base[1 + k]
  <2>1. ComesLast(base, 1, p, B)
    <3>1. /\ base \in Path(E.nodes) /\ 1 \in 1..Len(base) /\ p \in 1..Len(base) /\ 1 < p
          /\ \A i \in 1..(p - 1) : Entry(E, base[i], base[i + 1], extFace)
      BY <1>2, <1>3
    <3> HIDE DEF p, B
    <3> QED BY <1>1, <1>5, <3>1, PathComesLast
  <2> QED BY <2>1 DEF ComesLast
<1>8. c = SubSeq(B, 1, At(B, base[p]))
  BY <1>4 DEF BackTo
<1> HIDE DEF B
<1>9. /\ B \in Seq(E.nodes) /\ n \in Nat /\ \A i \in 1..n : B[i] \in E.nodes
      /\ \A i, j \in 1..n : B[i] = B[j] => i = j
      /\ \A v : v \in ToSet(B) <=> \E i \in 1..n : B[i] = v
  BY <1>6, PathIndices
<1> HIDE DEF p
<1>10. m \in 2..n /\ m \in Nat /\ m >= 3 /\ B[m] = base[p]
  <2>1. p - 1 \in 1..(p - 1) /\ 1 + (p - 1) = p /\ n + 1 - (p - 1) = m
    BY <1>1, <1>2, <1>9
  <2>2. n + 1 - (p - 1) \in 2..n /\ B[n + 1 - (p - 1)] = base[1 + (p - 1)]
    BY <1>7, <2>1
  <2>3. n > p
    BY <1>2, <1>6 DEF p
  <2> QED BY <1>1, <1>9, <2>1, <2>2, <2>3
<1>11. At(B, base[p]) = m
  <2>1. At(B, B[m]) = m
    BY <1>6, <1>9, <1>10, AtIndex
  <2> QED BY <1>10, <2>1
<1>12. c = P
  BY <1>8, <1>11
<1>13. \A i \in (m + 1)..n : \E k \in 2..(p - 1) : B[i] = base[k]
  <2> SUFFICES ASSUME NEW i \in (m + 1)..n PROVE \E k \in 2..(p - 1) : B[i] = base[k]
    OBVIOUS
  <2>1. n + 1 - i \in 1..(p - 1) /\ n + 1 - (n + 1 - i) = i /\ 1 + (n + 1 - i) \in 2..(p - 1)
    BY <1>1, <1>9, <1>10
  <2>2. B[n + 1 - (n + 1 - i)] = base[1 + (n + 1 - i)]
    BY <1>7, <2>1
  <2> QED BY <2>1, <2>2
<1>14. \A i \in 2..(m - 1) : \A k \in 1..p : B[i] # base[k]
  <2> SUFFICES ASSUME NEW i \in 2..(m - 1), NEW k \in 1..p, B[i] = base[k] PROVE FALSE
    OBVIOUS
  <2>1. i \in 1..n /\ 1 \in 1..n
    BY <1>9, <1>10
  <2>2. CASE k = 1
    <3>1. B[i] = B[1]
      BY <1>6, <2>2
    <3>2. i = 1
      BY <1>9, <2>1, <3>1
    <3> QED BY <3>2
  <2>3. CASE k # 1
    <3>1. k - 1 \in 1..(p - 1) /\ 1 + (k - 1) = k
      BY <1>1, <2>3
    <3>2. n + 1 - (k - 1) \in 2..n /\ B[n + 1 - (k - 1)] = base[k]
      BY <1>7, <3>1
    <3>3. n + 1 - (k - 1) \in 1..n
      BY <3>2
    <3>4. i = n + 1 - (k - 1)
      BY <1>9, <2>1, <3>2, <3>3
    <3> QED BY <1>1, <1>9, <3>1, <3>4
  <2> QED BY <2>2, <2>3
<1> HIDE DEF n, m
<1>15. P = [i \in 1..m |-> B[i]]
  BY <1>9, <1>10
<1> HIDE DEF P
<1>16. P \in Seq(E.nodes) /\ Len(P) = m
  <2>1. P \in [1..m -> E.nodes]
    BY <1>9, <1>10, <1>15
  <2> QED BY <1>10, <2>1, LenProperties
<1>17. \A i \in 1..m : P[i] = B[i] /\ i \in 1..n
  BY <1>9, <1>10, <1>15
<1>18. P \in Path(E.nodes)
  <2>1. DOMAIN P = 1..m
    BY <1>15
  <2>2. \A i, j \in DOMAIN P : P[i] = P[j] => i = j
    <3> SUFFICES ASSUME NEW i \in 1..m, NEW j \in 1..m, P[i] = P[j] PROVE i = j
      BY <2>1
    <3>1. i \in 1..n /\ j \in 1..n /\ B[i] = B[j]
      BY <1>17
    <3> QED BY <1>9, <3>1
  <2> QED BY <1>16, <2>2 DEF Path
<1>19. \A v : v \in ToSet(P) <=> \E i \in 1..m : P[i] = v
  BY <1>16, <1>18, PathIndices
<1>20. P[1] = base[1] /\ P[m] = base[p]
  BY <1>6, <1>10, <1>17
<1>21. \A j \in 1..(m - 1) : Entry(E, P[j + 1], P[j], extFace)
  <2> SUFFICES ASSUME NEW j \in 1..(m - 1) PROVE Entry(E, P[j + 1], P[j], extFace)
    OBVIOUS
  <2>1. j \in 1..m /\ j + 1 \in 1..m /\ j \in 1..(n - 1)
    BY <1>9, <1>10
  <2> QED BY <1>6, <1>17, <2>1
<1>22. ToSet(P) \subseteq OnFace(E, extFace)
  <2> SUFFICES ASSUME NEW v \in ToSet(P) PROVE v \in OnFace(E, extFace)
    OBVIOUS
  <2>1. PICK i \in 1..m : P[i] = v
    BY <1>19
  <2> QED BY <1>6, <1>9, <1>17, <2>1
<1>23. \A v : v \in ToSet(base) <=> \E k \in 1..p : base[k] = v
  BY <1>2, PathIndices DEF p
<1>24. OnFace(E, extFace) \subseteq ToSet(P) \cup ToSet(base)
  <2> SUFFICES ASSUME NEW v \in OnFace(E, extFace) PROVE v \in ToSet(P) \/ v \in ToSet(base)
    OBVIOUS
  <2>1. PICK i \in 1..n : B[i] = v
    BY <1>6, <1>9
  <2>2. CASE i \in 1..m
    BY <1>17, <1>19, <2>1, <2>2
  <2>3. CASE i \in (m + 1)..n
    <3>1. PICK k \in 2..(p - 1) : B[i] = base[k]
      BY <1>13, <2>3
    <3>2. k \in 1..p
      BY <1>1
    <3> QED BY <1>23, <2>1, <3>1, <3>2
  <2> QED BY <1>9, <1>10, <2>2, <2>3
<1>25. ToSet(P) \cap BaseInner(base) = {}
  <2> SUFFICES ASSUME NEW v \in ToSet(P), v \in BaseInner(base) PROVE FALSE
    OBVIOUS
  <2>1. v \in ToSet(base) /\ v # base[1] /\ v # base[p]
    BY DEF BaseInner, p
  <2>2. PICK i \in 1..m : P[i] = v
    BY <1>19
  <2>3. i # 1 /\ i # m
    BY <1>20, <2>1, <2>2
  <2>4. i \in 2..(m - 1) /\ B[i] = v
    BY <1>10, <1>17, <2>2, <2>3
  <2> QED BY <1>14, <1>23, <2>1, <2>4
<1>26. /\ c \in Path(E.nodes) /\ Len(c) = m /\ m = Len(E.faces[extFace]) + 2 - Len(base)
       /\ c[1] = base[1] /\ c[Len(c)] = base[Len(base)]
  <2>1. m = n + 2 - p /\ n = Len(E.faces[extFace])
    BY <1>6 DEF m
  <2> QED BY <1>12, <1>16, <1>18, <1>20, <2>1 DEF p
<1>27. \A j \in 1..(Len(c) - 1) : Entry(E, c[j + 1], c[j], extFace)
  BY <1>12, <1>16, <1>21
<1> QED BY <1>12, <1>22, <1>24, <1>25, <1>26, <1>27 DEF FirstContour

(* Before anything is removed every face but the external one is whole.    *)
LEMMA FirstShape ==
  ASSUME NEW g, IsEmbedding(g), NEW b, BaseShape(g, b), NEW c, FirstContour(g, b, c)
  PROVE  ContourShape(g, b, c, {})
<1> DEFINE q == Len(c)
           p == Len(b)
<1>1. /\ p \in Nat /\ extFace \in DOMAIN g.faces
      /\ \A i \in 1..p : b[i] \in g.nodes
  BY BaseFacts
<1>2. p >= 2 /\ p < Len(g.faces[extFace]) /\ \A i \in 1..(p - 1) : Entry(g, b[i], b[i + 1], extFace)
  BY DEF BaseShape
<1>3. /\ c \in Path(g.nodes) /\ q = Len(g.faces[extFace]) + 2 - p
      /\ c[1] = b[1] /\ c[q] = b[p]
      /\ \A j \in 1..(q - 1) : Entry(g, c[j + 1], c[j], extFace)
      /\ OnFace(g, extFace) \subseteq ToSet(c) \cup ToSet(b)
  BY DEF FirstContour
<1>4. q \in Nat /\ \A i \in 1..q : c[i] \in g.nodes
  BY <1>3, PathIndices
<1>5. Len(g.faces[extFace]) \in Nat
  BY <1>1, FaceIsPath, PathIndices
<1>6. q >= 3
  BY <1>1, <1>2, <1>3, <1>5
<1> HIDE DEF p, q
<1>7. Whole(g, {}) = DOMAIN g.faces \ {extFace}
  BY DEF Whole
<1>8. ASSUME NEW i \in 1..(q - 1) PROVE EdgeShape(g, {}, c[i], c[i + 1])
  <2>1. Entry(g, c[i + 1], c[i], extFace)
    BY <1>3
  <2>2. c[i + 1] \in Around(g, c[i]) /\ \A f : Entry(g, c[i + 1], c[i], f) => f = extFace
    BY <2>1, EntryFacts
  <2> QED BY <1>7, <2>2 DEF EdgeShape
<1>9. ASSUME NEW i \in 1..q
      PROVE  Entry(g, After(b, c, i), c[i], extFace) /\ Entry(g, c[i], Before(b, c, i), extFace)
  <2>1. Entry(g, After(b, c, i), c[i], extFace)
    <3>1. CASE i = q
      <4>1. p - 1 \in 1..(p - 1) /\ (p - 1) + 1 = p
        BY <1>1, <1>2
      <4>2. Entry(g, b[p - 1], b[(p - 1) + 1], extFace)
        BY <1>2, <4>1
      <4>3. After(b, c, i) = b[p - 1]
        BY <3>1 DEF After, q, p
      <4> QED BY <1>3, <3>1, <4>1, <4>2, <4>3
    <3>2. CASE i # q
      <4>1. i \in 1..(q - 1)
        BY <1>4, <3>2
      <4>2. After(b, c, i) = c[i + 1]
        BY <3>2 DEF After, q
      <4> QED BY <1>3, <4>1, <4>2
    <3> QED BY <3>1, <3>2
  <2>2. Entry(g, c[i], Before(b, c, i), extFace)
    <3>1. CASE i = 1
      <4>1. 1 \in 1..(p - 1) /\ 1 + 1 = 2
        BY <1>1, <1>2
      <4>2. Entry(g, b[1], b[2], extFace)
        BY <1>2, <4>1
      <4>3. Before(b, c, i) = b[2]
        BY <3>1 DEF Before
      <4> QED BY <1>3, <3>1, <4>2, <4>3
    <3>2. CASE i # 1
      <4>1. i - 1 \in 1..(q - 1) /\ (i - 1) + 1 = i
        BY <1>4, <3>2
      <4>2. Entry(g, c[(i - 1) + 1], c[i - 1], extFace)
        BY <1>3, <4>1
      <4>3. Before(b, c, i) = c[i - 1]
        BY <3>2 DEF Before
      <4> QED BY <4>1, <4>2, <4>3
    <3> QED BY <3>1, <3>2
  <2> QED BY <2>1, <2>2
<1>10. ASSUME NEW i \in 1..q
       PROVE  NodeShape(g, b, {}, Before(b, c, i), c[i], After(b, c, i))
  <2> DEFINE n == After(b, c, i)
             r == Before(b, c, i)
             v == c[i]
  <2>1. Entry(g, n, v, extFace) /\ Entry(g, v, r, extFace)
    BY <1>9
  <2>2. v \in g.nodes
    BY <1>4
  <2> HIDE DEF n, r, v
  <2>3. Beside(g, v, n, r)
    BY <2>1 DEF Beside
  <2>4. Segment(g, v, Around(g, v), r, n)
    BY <2>2, <2>3, SegmentOfAll
  <2>5. Around(g, v) \ {} = Around(g, v)
    OBVIOUS
  <2>6. Segment(g, v, Around(g, v) \ {}, r, n)
    BY <2>4, <2>5
  <2>7. ASSUME NEW w \in Around(g, v) \ ({} \cup {n}), NEW f, Entry(g, w, v, f)
        PROVE  Inside(g, b, {}, v, f)
    <3>1. w # n /\ f \in DOMAIN g.faces /\ v \in OnFace(g, f)
      BY <2>7, EntryFacts
    <3>2. f # extFace
      <4>1. SUFFICES ASSUME f = extFace PROVE FALSE
        OBVIOUS
      <4>2. w = PredOn(g.faces[extFace], v) /\ n = PredOn(g.faces[extFace], v)
        BY <1>1, <2>1, <2>7, <3>1, <4>1, FaceEntries
      <4> QED BY <3>1, <4>2
    <3> QED BY <1>7, <3>1, <3>2 DEF Inside
  <2>8. NodeShape(g, b, {}, r, v, n)
    BY <2>6, <2>7 DEF NodeShape
  <2> QED BY <2>8 DEF n, r, v
<1>11. \A f \in DOMAIN g.faces \ Whole(g, {}) :
         OnFace(g, f) \subseteq ToSet(c) \cup {} \cup (IF f = extFace THEN ToSet(b) ELSE {})
  BY <1>3, <1>7
<1> QED BY <1>3, <1>6, <1>8, <1>10, <1>11 DEF ContourShape, p, q

(* What the counters count before anything is removed.                     *)
FirstOn(c, f) == IF f = extFace THEN {} ELSE ToSet(c) \cap ToSet(E.faces[f])
FirstOutv(c, f) == Cardinality(FirstOn(c, f))
FirstOute(c, f) == Cardinality({i \in 1..(Len(c) - 1) : left(c[i + 1], c[i]) = f})
FirstSeqp(c, f) == Cardinality({i \in 1..(Len(c) - 1) : {c[i], c[i + 1]} \subseteq ToSet(E.faces[f])})
FirstSf(c) == {f \in Faces : FirstOutv(c, f) > FirstSeqp(c, f) + 1}

FirstState(c) ==
  [contour |-> c,
   nextSucc |-> [v \in Nodes |-> None], prevPred |-> [v \in Nodes |-> None],
   virt |-> {}, deg |-> [v \in Nodes |-> Cardinality(Neighbours(v))],
   cutf |-> [v \in Nodes |-> 0],
   numsf |-> [v \in Nodes |-> Cardinality({f \in FirstSf(c) : v \in FirstOn(c, f)})],
   onOuter |-> ToSet(c), outv |-> [f \in Faces |-> FirstOutv(c, f)],
   oute |-> [f \in Faces |-> FirstOute(c, f)], seqp |-> [f \in Faces |-> FirstSeqp(c, f)],
   virtSrc |-> [f \in Faces |-> None], isSf |-> FirstSf(c),
   outer |-> [f \in Faces |-> [v \in Nodes |-> IF v \in FirstOn(c, f) THEN 1 ELSE 0]],
   inF |-> {vf \in Nodes \X Faces : vf[1] \in ToSet(E.faces[vf[2]])},
   updF |-> {}, updV |-> {}, possF |-> {}, possV |-> {}, possE |-> {},
   fLink |-> {}, vLink |-> {}, eLink |-> {}, dangling |-> FALSE]

LEMMA NewIsFirst ==
  ASSUME NEW c, c = BackTo(extFace, vLeft, vRight)
  PROVE  NewComputeBicOrder = EdgesToContour(FirstState(c), c)
BY Zenon DEF NewComputeBicOrder, FirstState, FirstOn, FirstOutv, FirstOute, FirstSeqp, FirstSf

(* The fields one by one.                                                  *)
FirstFields(c, t) ==
  /\ DOMAIN t = Fields /\ t.contour = c
  /\ t.nextSucc = [v \in E.nodes |-> None] /\ t.prevPred = [v \in E.nodes |-> None]
  /\ t.virt = {} /\ t.deg = [v \in E.nodes |-> Cardinality(Around(E, v))]
  /\ t.cutf = [v \in E.nodes |-> 0]
  /\ t.numsf = [v \in E.nodes |-> Cardinality({f \in FirstSf(c) : v \in FirstOn(c, f)})]
  /\ t.onOuter = ToSet(c) /\ t.outv = [f \in DOMAIN E.faces |-> FirstOutv(c, f)]
  /\ t.oute = [f \in DOMAIN E.faces |-> FirstOute(c, f)]
  /\ t.seqp = [f \in DOMAIN E.faces |-> FirstSeqp(c, f)]
  /\ t.virtSrc = [f \in DOMAIN E.faces |-> None] /\ t.isSf = FirstSf(c)
  /\ t.outer = [f \in DOMAIN E.faces |-> [v \in E.nodes |-> IF v \in FirstOn(c, f) THEN 1 ELSE 0]]
  /\ t.inF = {vf \in E.nodes \X (DOMAIN E.faces) : vf[1] \in OnFace(E, vf[2])}
  /\ t.updF = {} /\ t.updV = {} /\ EdgesUnmarked(t)

LEMMA FirstIsFirst ==
  ASSUME NEW c, NEW t, t = FirstState(c)
  PROVE  FirstFields(c, t)
<1> DEFINE LK == [v \in E.nodes |-> None]
           DG == [v \in E.nodes |-> Cardinality(Around(E, v))]
           ZR == [v \in E.nodes |-> 0]
           NS == [v \in E.nodes |-> Cardinality({f \in FirstSf(c) : v \in FirstOn(c, f)})]
           ON == ToSet(c)
           OV == [f \in DOMAIN E.faces |-> FirstOutv(c, f)]
           OE == [f \in DOMAIN E.faces |-> FirstOute(c, f)]
           SQ == [f \in DOMAIN E.faces |-> FirstSeqp(c, f)]
           VS == [f \in DOMAIN E.faces |-> None]
           SF == FirstSf(c)
           OU == [f \in DOMAIN E.faces |-> [v \in E.nodes |-> IF v \in FirstOn(c, f) THEN 1 ELSE 0]]
           IF0 == {vf \in E.nodes \X (DOMAIN E.faces) : vf[1] \in OnFace(E, vf[2])}
<1>1. t = [contour |-> c, nextSucc |-> LK, prevPred |-> LK, virt |-> {}, deg |-> DG, cutf |-> ZR,
           numsf |-> NS, onOuter |-> ON, outv |-> OV, oute |-> OE, seqp |-> SQ, virtSrc |-> VS,
           isSf |-> SF, outer |-> OU, inF |-> IF0,
           updF |-> {}, updV |-> {}, possF |-> {}, possV |-> {}, possE |-> {},
           fLink |-> {}, vLink |-> {}, eLink |-> {}, dangling |-> FALSE]
  BY Zenon DEF FirstState, Neighbours, Around, OnFace, Nodes, Faces
<1> HIDE DEF LK, DG, ZR, NS, ON, OV, OE, SQ, VS, SF, OU, IF0
<1>2. DOMAIN t = Fields
  BY <1>1 DEF Fields
<1>3. /\ t.contour = c /\ t.nextSucc = LK /\ t.prevPred = LK /\ t.virt = {} /\ t.deg = DG
      /\ t.cutf = ZR /\ t.numsf = NS /\ t.onOuter = ON
  BY <1>1
<1>4. /\ t.outv = OV /\ t.oute = OE /\ t.seqp = SQ /\ t.virtSrc = VS /\ t.isSf = SF
      /\ t.outer = OU /\ t.inF = IF0
  BY <1>1
<1>5. t.updF = {} /\ t.updV = {} /\ EdgesUnmarked(t)
  BY <1>1 DEF EdgesUnmarked
<1> QED BY <1>2, <1>3, <1>4, <1>5, Zenon
        DEF FirstFields, LK, DG, ZR, NS, ON, OV, OE, SQ, VS, SF, OU, IF0

(* All counts are counts of finite sets.                                   *)
LEMMA FirstCountsAreInt ==
  ASSUME IsEmbedding(E), NEW c \in Path(E.nodes)
  PROVE  /\ \A f \in DOMAIN E.faces : FirstOutv(c, f) \in Nat /\ FirstOute(c, f) \in Nat /\ FirstSeqp(c, f) \in Nat
         /\ \A v : Cardinality({f \in FirstSf(c) : v \in FirstOn(c, f)}) \in Nat
         /\ \A v : Cardinality(Around(E, v)) \in Nat
<1> DEFINE J == 1..(Len(c) - 1)
<1>1. IsFiniteSet(ToSet(c)) /\ Len(c) \in Nat
  BY PathCardinality, PathIndices
<1>2. IsFiniteSet(J)
  BY <1>1, FS_Interval
<1>3. IsFiniteSet(DOMAIN E.faces)
  BY FacesFinite
<1>4. ASSUME NEW f PROVE FirstOutv(c, f) \in Nat
  <2>1. FirstOn(c, f) \in SUBSET ToSet(c)
    BY DEF FirstOn
  <2>2. Cardinality(FirstOn(c, f)) \in Nat
    BY <1>1, <2>1, CountSubset
  <2> QED BY <2>2 DEF FirstOutv
<1>5. ASSUME NEW f PROVE FirstOute(c, f) \in Nat
  <2> DEFINE S == {i \in J : left(c[i + 1], c[i]) = f}
  <2>1. S \in SUBSET J
    OBVIOUS
  <2> HIDE DEF J
  <2>2. Cardinality(S) \in Nat
    BY <1>2, <2>1, CountSubset
  <2> QED BY <2>2 DEF FirstOute, J
<1>6. ASSUME NEW f PROVE FirstSeqp(c, f) \in Nat
  <2> DEFINE S == {i \in J : {c[i], c[i + 1]} \subseteq ToSet(E.faces[f])}
  <2>1. S \in SUBSET J
    OBVIOUS
  <2> HIDE DEF J
  <2>2. Cardinality(S) \in Nat
    BY <1>2, <2>1, CountSubset
  <2> QED BY <2>2 DEF FirstSeqp, J
<1>7. ASSUME NEW v PROVE Cardinality({f \in FirstSf(c) : v \in FirstOn(c, f)}) \in Nat
  <2> DEFINE S == {f \in FirstSf(c) : v \in FirstOn(c, f)}
  <2>1. S \in SUBSET (DOMAIN E.faces)
    BY DEF FirstSf, Faces
  <2> HIDE DEF S
  <2>2. Cardinality(S) \in Nat
    BY <1>3, <2>1, CountSubset
  <2> QED BY <2>2 DEF S
<1>8. ASSUME NEW v PROVE Cardinality(Around(E, v)) \in Nat
  <2>1. IsFiniteSet(Around(E, v))
    BY AroundNodes
  <2> QED BY <2>1, FS_CardinalityType
<1> HIDE DEF J
<1> QED BY <1>4, <1>5, <1>6, <1>7, <1>8

LEMMA FirstIsState ==
  ASSUME IsEmbedding(E), NEW c \in Path(E.nodes), NEW t, FirstFields(c, t)
  PROVE  IsState(E, t)
<1>1. /\ DOMAIN t = Fields /\ t.contour = c /\ t.onOuter = ToSet(c)
      /\ t.nextSucc = [v \in E.nodes |-> None] /\ t.prevPred = [v \in E.nodes |-> None]
      /\ t.cutf = [v \in E.nodes |-> 0] /\ t.virtSrc = [f \in DOMAIN E.faces |-> None]
  BY DEF FirstFields
<1>2. /\ t.deg = [v \in E.nodes |-> Cardinality(Around(E, v))]
      /\ t.numsf = [v \in E.nodes |-> Cardinality({f \in FirstSf(c) : v \in FirstOn(c, f)})]
  BY DEF FirstFields
<1>3. /\ t.outv = [f \in DOMAIN E.faces |-> FirstOutv(c, f)]
      /\ t.oute = [f \in DOMAIN E.faces |-> FirstOute(c, f)]
      /\ t.seqp = [f \in DOMAIN E.faces |-> FirstSeqp(c, f)]
  BY DEF FirstFields
<1>4. t.outer = [f \in DOMAIN E.faces |-> [v \in E.nodes |-> IF v \in FirstOn(c, f) THEN 1 ELSE 0]]
  BY DEF FirstFields
<1>5. /\ \A f \in DOMAIN E.faces : FirstOutv(c, f) \in Nat /\ FirstOute(c, f) \in Nat /\ FirstSeqp(c, f) \in Nat
      /\ \A v : Cardinality({f \in FirstSf(c) : v \in FirstOn(c, f)}) \in Nat
      /\ \A v : Cardinality(Around(E, v)) \in Nat
  BY FirstCountsAreInt
<1>6. t.contour \in Seq(E.nodes) /\ t.onOuter \subseteq E.nodes
  <2>1. c \in Seq(E.nodes) /\ \A i \in 1..Len(c) : c[i] \in E.nodes
    BY PathIndices
  <2>2. \A v : v \in ToSet(c) => v \in E.nodes
    BY <2>1, PathIndices
  <2> QED BY <1>1, <2>1, <2>2
<1>7. /\ t.nextSucc \in [E.nodes -> Int] /\ t.prevPred \in [E.nodes -> Int]
      /\ t.cutf \in [E.nodes -> Int] /\ t.virtSrc \in [DOMAIN E.faces -> Int]
  BY <1>1 DEF None
<1>8. t.deg \in [E.nodes -> Int]
  BY <1>2, <1>5
<1>9. t.numsf \in [E.nodes -> Int]
  <2> DEFINE q(v) == Cardinality({f \in FirstSf(c) : v \in FirstOn(c, f)})
  <2>1. t.numsf = [v \in E.nodes |-> q(v)] /\ \A v : q(v) \in Nat
    BY <1>2, <1>5
  <2> HIDE DEF q
  <2> QED BY <2>1
<1>10. /\ t.outv \in [DOMAIN E.faces -> Int] /\ t.oute \in [DOMAIN E.faces -> Int]
       /\ t.seqp \in [DOMAIN E.faces -> Int]
  BY <1>3, <1>5
<1>11. t.outer \in [DOMAIN E.faces -> [E.nodes -> Int]]
  <2> DEFINE h(f) == [v \in E.nodes |-> IF v \in FirstOn(c, f) THEN 1 ELSE 0]
  <2>1. t.outer = [f \in DOMAIN E.faces |-> h(f)] /\ \A f : h(f) \in [E.nodes -> Int]
    BY <1>4
  <2> HIDE DEF h
  <2> QED BY <2>1
<1> QED BY <1>1, <1>6, <1>7, <1>8, <1>9, <1>10, <1>11 DEF IsState

LEMMA FirstCounted ==
  ASSUME IsEmbedding(E), BaseShape(E, base), NEW c, FirstContour(E, base, c), NEW t, FirstFields(c, t)
  PROVE  Counted(E, base, t, {}, c)
<1>1. /\ c \in Path(E.nodes) /\ Len(c) = Len(E.faces[extFace]) + 2 - Len(base)
      /\ \A j \in 1..(Len(c) - 1) : Entry(E, c[j + 1], c[j], extFace)
      /\ ToSet(c) \subseteq OnFace(E, extFace)
  BY DEF FirstContour
<1>2. /\ t.outv = [f \in DOMAIN E.faces |-> FirstOutv(c, f)]
      /\ t.oute = [f \in DOMAIN E.faces |-> FirstOute(c, f)]
      /\ t.seqp = [f \in DOMAIN E.faces |-> FirstSeqp(c, f)]
  BY DEF FirstFields
<1>3. t.outer = [f \in DOMAIN E.faces |-> [v \in E.nodes |-> IF v \in FirstOn(c, f) THEN 1 ELSE 0]]
  BY DEF FirstFields
<1>4. /\ t.numsf = [v \in E.nodes |-> Cardinality({f \in FirstSf(c) : v \in FirstOn(c, f)})]
      /\ t.isSf = FirstSf(c)
  BY DEF FirstFields
<1>5. Whole(E, {}) = DOMAIN E.faces \ {extFace}
  BY DEF Whole
<1>6. /\ Len(c) \in Nat /\ \A i \in 1..Len(c) : c[i] \in ToSet(c)
      /\ Len(base) \in Nat /\ extFace \in DOMAIN E.faces
  <2>1. Len(base) \in Nat /\ extFace \in DOMAIN E.faces
    BY BaseFacts
  <2> QED BY <1>1, <2>1, PathIndices
<1>7. Len(E.faces[extFace]) \in Nat
  BY <1>6, FaceIsPath, PathIndices
<1>8. FaceCounts(E, t, {}, c)
  <2> SUFFICES ASSUME NEW f \in DOMAIN E.faces \ {extFace}
      PROVE  /\ t.outv[f] = Cardinality(ToSet(c) \cap OnFace(E, f))
             /\ t.oute[f] = Cardinality(RightPairs(E, c, f))
             /\ t.seqp[f] = Cardinality(FacePairs(E, c, f))
             /\ \A v \in E.nodes :
                  t.outer[f][v] = IF v \in ToSet(c) /\ v \in OnFace(E, f) THEN 1 ELSE 0
    BY <1>5 DEF FaceCounts
  <2>1. FirstOn(c, f) = ToSet(c) \cap OnFace(E, f)
    BY DEF FirstOn, OnFace
  <2>2. t.outv[f] = Cardinality(ToSet(c) \cap OnFace(E, f))
    BY <1>2, <2>1 DEF FirstOutv
  <2>3. t.oute[f] = Cardinality(RightPairs(E, c, f))
    <3>1. ASSUME NEW i \in 1..(Len(c) - 1)
          PROVE  left(c[i + 1], c[i]) = f <=> Entry(E, c[i], c[i + 1], f)
      <4>1. Entry(E, c[i + 1], c[i], extFace)
        BY <1>1
      <4>2. c[i + 1] \in Around(E, c[i])
        BY <4>1, EntryFacts
      <4>3. Entry(E, c[i], c[i + 1], right(c[i], c[i + 1]))
        BY <4>2, RightIsEntry
      <4>4. left(c[i + 1], c[i]) = right(c[i], c[i + 1])
        BY DEF left
      <4>5. \A h : Entry(E, c[i], c[i + 1], h) => h = right(c[i], c[i + 1])
        BY <4>3, EntryFacts
      <4> QED BY <4>3, <4>4, <4>5
    <3>2. {i \in 1..(Len(c) - 1) : left(c[i + 1], c[i]) = f} = RightPairs(E, c, f)
      BY <3>1 DEF RightPairs
    <3> QED BY <1>2, <3>2 DEF FirstOute
  <2>4. t.seqp[f] = Cardinality(FacePairs(E, c, f))
    <3>1. {i \in 1..(Len(c) - 1) : {c[i], c[i + 1]} \subseteq ToSet(E.faces[f])} = FacePairs(E, c, f)
      BY DEF FacePairs, OnFace
    <3> QED BY <1>2, <3>1 DEF FirstSeqp
  <2>5. ASSUME NEW v \in E.nodes
        PROVE  t.outer[f][v] = IF v \in ToSet(c) /\ v \in OnFace(E, f) THEN 1 ELSE 0
    <3>1. t.outer[f] = [x \in E.nodes |-> IF x \in FirstOn(c, f) THEN 1 ELSE 0]
      BY <1>3
    <3> QED BY <2>1, <3>1
  <2> QED BY <2>2, <2>3, <2>4, <2>5
<1>9. FirstOutv(c, extFace) = 0
  <2>1. FirstOn(c, extFace) = {}
    BY DEF FirstOn
  <2> QED BY <2>1, FS_EmptySet DEF FirstOutv
<1>10. FirstSeqp(c, extFace) = Len(c) - 1
  <2>1. ASSUME NEW i \in 1..(Len(c) - 1) PROVE {c[i], c[i + 1]} \subseteq ToSet(E.faces[extFace])
    <3>1. c[i] \in ToSet(c) /\ c[i + 1] \in ToSet(c)
      BY <1>6
    <3> QED BY <1>1, <3>1 DEF OnFace
  <2>2. {i \in 1..(Len(c) - 1) : {c[i], c[i + 1]} \subseteq ToSet(E.faces[extFace])} = 1..(Len(c) - 1)
    BY <2>1
  <2>3. Len(c) >= 2
    <3>1. Len(base) < Len(E.faces[extFace])
      BY DEF BaseShape
    <3> QED BY <1>1, <1>6, <1>7, <3>1
  <2>4. Cardinality(1..(Len(c) - 1)) = Len(c) - 1
    <3> DEFINE m == Len(c) - 1
    <3>1. m \in Int /\ 1 \in Int /\ m >= 1
      BY <1>6, <2>3
    <3> HIDE DEF m
    <3>2. Cardinality(1..m) = IF 1 > m THEN 0 ELSE m - 1 + 1
      BY <3>1, FS_Interval
    <3>3. Cardinality(1..m) = m
      BY <3>1, <3>2
    <3> QED BY <3>3 DEF m
  <2> QED BY <2>2, <2>4 DEF FirstSeqp
<1>11. OuterBounds(E, base, t, c)
  <2>1. t.outv[extFace] = 0 /\ t.seqp[extFace] = Len(c) - 1
    BY <1>2, <1>6, <1>9, <1>10
  <2>2. Cardinality(ToSet(c) \cap BaseInner(base)) \in Nat
    <3>1. IsFiniteSet(ToSet(c)) /\ ToSet(c) \cap BaseInner(base) \in SUBSET ToSet(c)
      BY <1>1, PathCardinality
    <3> QED BY <3>1, CountSubset
  <2>3. Len(c) - 1 >= Len(E.faces[extFace]) - Len(base)
    BY <1>1, <1>6, <1>7
  <2> QED BY <2>1, <2>2, <2>3 DEF OuterBounds
<1>12. SepCounts(E, t, {}, c)
  <2>1. extFace \notin FirstSf(c)
    BY <1>6, <1>9, <1>10 DEF FirstSf
  <2>2. t.isSf \subseteq Whole(E, {})
    BY <1>4, <1>5, <2>1 DEF FirstSf, Faces
  <2>3. ASSUME NEW v \in E.nodes PROVE t.numsf[v] = Cardinality(SepOf(E, t, c, v))
    <3>1. {f \in FirstSf(c) : v \in FirstOn(c, f)} = SepOf(E, t, c, v)
      BY <1>4, <2>1 DEF SepOf, FirstOn, OnFace
    <3> QED BY <1>4, <3>1
  <2> QED BY <2>2, <2>3 DEF SepCounts
<1> QED BY <1>8, <1>11, <1>12 DEF Counted

(* The start is valid, and nothing is marked.                              *)
LEMMA StartIsValid ==
  ASSUME IsEmbedding(E), BaseShape(E, base), NEW u, u = initPossibles(NewComputeBicOrder)
  PROVE  /\ Valid(E, base, u, {}, BackTo(extFace, vLeft, vRight))
         /\ u.updF = {} /\ u.updV = {}
<1> DEFINE c == BackTo(extFace, vLeft, vRight)
           t == FirstState(c)
           x == NewComputeBicOrder
           PF == {f \in Faces : isPossFace(x, f)}
           PV == {v \in ToSet(x.contour) : isPossNode(x, v)}
<1>1. FirstContour(E, base, c)
  BY FirstContourIs
<1>2. FirstFields(c, t)
  BY FirstIsFirst
<1>3. x = EdgesToContour(t, c)
  BY NewIsFirst
<1>4. u = [x EXCEPT !.possF = PF, !.fLink = PF, !.possV = PV, !.vLink = PV]
  BY Zenon DEF initPossibles
<1> HIDE DEF c, t, x, PF, PV
<1>5. /\ c \in Path(E.nodes) /\ Len(c) = Len(E.faces[extFace]) + 2 - Len(base)
      /\ \A j \in 1..(Len(c) - 1) : Entry(E, c[j + 1], c[j], extFace)
  BY <1>1 DEF FirstContour
<1>6. ContourShape(E, base, c, {})
  BY <1>1, FirstShape
<1>7. Len(c) >= 2
  BY <1>6 DEF ContourShape
<1>8. IsState(E, t)
  BY <1>2, <1>5, FirstIsState
<1>9. Counted(E, base, t, {}, c)
  BY <1>1, <1>2, FirstCounted
<1>10. EdgesStep(E, t, c, x)
  <2>1. \A j \in 1..(Len(c) - 1) : c[j + 1] \in Around(E, c[j])
    BY <1>5, EntryFacts
  <2> QED BY <1>3, <1>5, <1>7, <1>8, <2>1, PathEdges
<1>11. IsState(E, x) /\ OnlyLinks(t, x) /\ x.virt \subseteq t.virt /\ LinksOn(E, x, c)
  BY <1>10 DEF EdgesStep
<1>12. /\ x.contour = c /\ x.deg = t.deg /\ x.cutf = t.cutf /\ x.numsf = t.numsf
       /\ x.onOuter = ToSet(c) /\ x.outv = t.outv /\ x.oute = t.oute /\ x.seqp = t.seqp
       /\ x.virtSrc = t.virtSrc /\ x.isSf = t.isSf /\ x.outer = t.outer /\ x.inF = t.inF
       /\ x.updF = {} /\ x.updV = {} /\ x.virt = {}
  <2>1. t.contour = c /\ t.onOuter = ToSet(c) /\ t.updF = {} /\ t.updV = {} /\ t.virt = {}
    BY <1>2 DEF FirstFields
  <2> QED BY <1>11, <2>1 DEF OnlyLinks
<1>13. x.possE = {} /\ x.eLink = {} /\ x.dangling = FALSE
  <2>1. EdgesUnmarked(t)
    BY <1>2 DEF FirstFields
  <2> QED BY <1>11, <2>1 DEF OnlyLinks, EdgesUnmarked
<1>14. Linked(E, x, c, {})
  <2>1. \A i \in 1..(Len(c) - 1) :
          /\ Beside(E, c[i], x.nextSucc[c[i]], c[i + 1])
          /\ Beside(E, c[i + 1], c[i], x.prevPred[c[i + 1]])
    BY <1>11 DEF LinksOn, LinkAt
  <2>2. \A v \in E.nodes \ {} : x.deg[v] = Cardinality(Around(E, v) \ {})
    <3>1. t.deg = [v \in E.nodes |-> Cardinality(Around(E, v))]
      BY <1>2 DEF FirstFields
    <3>2. \A v : Around(E, v) \ {} = Around(E, v)
      OBVIOUS
    <3> QED BY <1>12, <3>1, <3>2
  <2>3. /\ \A v \in E.nodes : x.cutf[v] = 0
        /\ \A f \in DOMAIN E.faces : x.virtSrc[f] = None
    <3>1. t.cutf = [v \in E.nodes |-> 0] /\ t.virtSrc = [f \in DOMAIN E.faces |-> None]
      BY <1>2 DEF FirstFields
    <3> QED BY <1>12, <3>1
  <2>4. \A v \in E.nodes, f \in DOMAIN E.faces : << v, f >> \in x.inF <=> v \in OnFace(E, f)
    <3>1. t.inF = {vf \in E.nodes \X (DOMAIN E.faces) : vf[1] \in OnFace(E, vf[2])}
      BY <1>2 DEF FirstFields
    <3> QED BY <1>12, <3>1
  <2>5. x.virt = {} /\ x.onOuter = ToSet(c) \cup {}
    BY <1>12
  <2> QED BY <2>1, <2>2, <2>3, <2>4, <2>5, Zenon DEF Linked
<1>15. \A v \in ToSet(c) : isPossNode(x, v) <=> v \notin ToSet(base) /\ PossNode(x, v)
  <2>1. \A v \in E.nodes : isPossNode(x, v) <=> NodePoss(x, v)
    BY <1>14, PossNodeIs
  <2>2. \A v \in ToSet(c) : v \in E.nodes
    BY <1>5, PathIndices
  <2>3. \A v : Contains(base, v) <=> v \in ToSet(base)
    <3>1. base \in Path(E.nodes)
      BY DEF BaseShape
    <3> QED BY <3>1, PathIndices DEF Contains
  <2> QED BY <2>1, <2>2, <2>3 DEF NodePoss
<1>16. /\ PF = {f \in Whole(E, {}) : PossFace(x, f)}
       /\ PV = {v \in ToSet(c) \ ToSet(base) : PossNode(x, v)}
  <2>1. PF = {f \in Whole(E, {}) : PossFace(x, f)}
    BY DEF PF, isPossFace, PossFace, Whole, Faces
  <2>2. PV = {v \in ToSet(c) \ ToSet(base) : PossNode(x, v)}
    BY <1>12, <1>15 DEF PV
  <2> QED BY <2>1, <2>2
<1>17. DOMAIN x = Fields
  BY <1>11 DEF IsState
<1>18. /\ DOMAIN u = Fields /\ u.possF = PF /\ u.fLink = PF /\ u.possV = PV /\ u.vLink = PV
       /\ u.contour = x.contour /\ u.nextSucc = x.nextSucc /\ u.prevPred = x.prevPred
       /\ u.virt = x.virt /\ u.deg = x.deg /\ u.cutf = x.cutf /\ u.numsf = x.numsf
  BY <1>4, <1>17 DEF Fields
<1>19. /\ u.onOuter = x.onOuter /\ u.outv = x.outv /\ u.oute = x.oute /\ u.seqp = x.seqp
       /\ u.virtSrc = x.virtSrc /\ u.isSf = x.isSf /\ u.outer = x.outer /\ u.inF = x.inF
       /\ u.updF = x.updF /\ u.updV = x.updV
       /\ u.possE = x.possE /\ u.eLink = x.eLink /\ u.dangling = x.dangling
  BY <1>4, <1>17 DEF Fields
<1>20. IsState(E, u)
  BY <1>11, <1>18, <1>19 DEF IsState
<1>21. Linked(E, u, c, {})
  BY <1>14, <1>18, <1>19 DEF Linked
<1>22. FaceCounts(E, u, {}, c) /\ OuterBounds(E, base, u, c) /\ SepCounts(E, u, {}, c)
  <2>1. FaceCounts(E, t, {}, c) /\ OuterBounds(E, base, t, c) /\ SepCounts(E, t, {}, c)
    BY <1>9 DEF Counted
  <2>2. /\ u.outv = t.outv /\ u.oute = t.oute /\ u.seqp = t.seqp /\ u.outer = t.outer
        /\ u.isSf = t.isSf /\ u.numsf = t.numsf
    BY <1>12, <1>18, <1>19
  <2>3. FaceCounts(E, u, {}, c)
    BY <2>1, <2>2 DEF FaceCounts
  <2>4. OuterBounds(E, base, u, c)
    BY <2>1, <2>2 DEF OuterBounds
  <2>5. SepCounts(E, u, {}, c)
    BY <2>1, <2>2 DEF SepCounts, SepOf
  <2> QED BY <2>3, <2>4, <2>5
<1>23. FacesMarked(E, u, {})
  <2>1. \A f \in Whole(E, {}) : f \in u.isSf <=> SepFace(u, f)
    <3>1. u.isSf = FirstSf(c)
      <4>1. t.isSf = FirstSf(c)
        BY <1>2 DEF FirstFields
      <4> QED BY <1>12, <1>19, <4>1
    <3>2. /\ t.outv = [f \in DOMAIN E.faces |-> FirstOutv(c, f)]
          /\ t.seqp = [f \in DOMAIN E.faces |-> FirstSeqp(c, f)]
      BY <1>2 DEF FirstFields
    <3>3. u.outv = t.outv /\ u.seqp = t.seqp
      BY <1>12, <1>19
    <3> QED BY <3>1, <3>2, <3>3 DEF FirstSf, SepFace, Whole, Faces
  <2>2. \A f \in Whole(E, {}) : f \in u.possF <=> PossFace(u, f)
    BY <1>16, <1>18, <1>19 DEF PossFace
  <2>3. u.updF = {} /\ u.possF \subseteq Whole(E, {}) /\ u.possF = u.fLink
    BY <1>12, <1>16, <1>18, <1>19
  <2> QED BY <2>1, <2>2, <2>3 DEF FacesMarked
<1>24. NodesMarked(base, u, {}, c)
  <2>1. \A v \in ToSet(c) \ ToSet(base) : v \in u.possV <=> PossNode(u, v)
    BY <1>16, <1>18, <1>19 DEF PossNode
  <2>2. u.updV = {} /\ u.possV \subseteq ToSet(c) \ ToSet(base) /\ u.possV = u.vLink
    BY <1>12, <1>16, <1>18, <1>19
  <2> QED BY <2>1, <2>2 DEF NodesMarked
<1>25. EdgesUnmarked(u) /\ u.contour = c /\ u.updF = {} /\ u.updV = {}
  BY <1>12, <1>13, <1>18, <1>19 DEF EdgesUnmarked
<1>26. Valid(E, base, u, {}, c)
  BY <1>6, <1>20, <1>21, <1>22, <1>23, <1>24, <1>25, Zenon DEF Valid, Counted
<1> QED BY <1>25, <1>26 DEF c

-----------------------------------------------------------------------------
(***************************************************************************)
(* The invariant: as long as no virtual edge is on the contour, the state  *)
(* is valid for what is removed, and nothing is marked between two steps.  *)
(***************************************************************************)
NoVirtualEdge == s.virt = {}

SetsOf(g) == [nodes : Seq(g.nodes), left : g.nodes \cup {None}, right : g.nodes \cup {None}]

ValidFor(R) == Valid(E, base, s, R, s.contour) /\ (~ done => R = Removed)

ShellingInv ==
  /\ IsEmbedding(E) /\ BaseShape(E, base)
  /\ done \in BOOLEAN /\ partition \in Seq(SetsOf(E))
  /\ s.updF = {} /\ s.updV = {}
  /\ \E R : ValidFor(R)
  /\ done => s.possF = {} /\ s.possV = {}

LEMMA ConsSet ==
  ASSUME NEW X, NEW p \in Seq(X), NEW x \in X
  PROVE  << x >> \o p \in Seq(X) /\ ToSet(<< x >> \o p) = {x} \cup ToSet(p)
<1> DEFINE q == << x >> \o p
           n == Len(p)
<1>1. << x >> \in Seq(X) /\ Len(<< x >>) = 1 /\ << x >>[1] = x
  OBVIOUS
<1>2. q \in Seq(X) /\ Len(q) = 1 + n
  BY <1>1, ConcatProperties
<1>3. q[1] = x /\ \A i \in 1..n : q[i + 1] = p[i]
  BY <1>1, ConcatProperties
<1>4. DOMAIN q = 1..(1 + n) /\ DOMAIN p = 1..n /\ n \in Nat
  BY <1>2
<1> HIDE DEF q, n
<1>5. ToSet(q) = {x} \cup ToSet(p)
  <2>1. ASSUME NEW y \in ToSet(q) PROVE y = x \/ y \in ToSet(p)
    <3>1. PICK i \in 1..(1 + n) : q[i] = y
      BY <1>4 DEF ToSet
    <3>2. CASE i = 1
      BY <1>3, <3>1, <3>2
    <3>3. CASE i # 1
      <4>1. i - 1 \in 1..n /\ (i - 1) + 1 = i
        BY <1>4, <3>3
      <4>2. p[i - 1] = y
        BY <1>3, <3>1, <4>1
      <4> QED BY <1>4, <4>1, <4>2 DEF ToSet
    <3> QED BY <3>2, <3>3
  <2>2. x \in ToSet(q)
    <3>1. 1 \in 1..(1 + n)
      BY <1>4
    <3> QED BY <1>3, <1>4, <3>1 DEF ToSet
  <2>3. ASSUME NEW y \in ToSet(p) PROVE y \in ToSet(q)
    <3>1. PICK i \in 1..n : p[i] = y
      BY <1>4 DEF ToSet
    <3>2. i + 1 \in 1..(1 + n) /\ q[i + 1] = y
      BY <1>3, <1>4, <3>1
    <3> QED BY <1>4, <3>2 DEF ToSet
  <2> QED BY <2>1, <2>2, <2>3
<1> QED BY <1>2, <1>5 DEF q

(* A set that is put on the partition takes its nodes from what is left.   *)
NodesIn(p) == UNION {ToSet(S.nodes) : S \in ToSet(p)}

LEMMA RemovedGrows ==
  ASSUME NEW X, NEW p \in Seq(X), NEW x \in X
  PROVE  NodesIn(<< x >> \o p) = NodesIn(p) \cup ToSet(x.nodes)
<1> DEFINE q == << x >> \o p
<1>1. ToSet(q) = {x} \cup ToSet(p)
  BY ConsSet
<1> HIDE DEF q
<1>2. \A n : n \in NodesIn(q) <=> \E S \in ToSet(q) : n \in ToSet(S.nodes)
  BY DEF NodesIn
<1>3. \A n : n \in NodesIn(p) <=> \E S \in ToSet(p) : n \in ToSet(S.nodes)
  BY DEF NodesIn
<1>4. \A n : n \in NodesIn(q) <=> n \in NodesIn(p) \cup ToSet(x.nodes)
  BY <1>1, <1>2, <1>3
<1>5. NodesIn(q) = NodesIn(p) \cup ToSet(x.nodes)
  BY <1>4
<1> QED BY <1>5 DEF q

LEMMA StartInv ==
  ASSUME Init
  PROVE  ShellingInv
<1>1. E \in Embeddings /\ base \in getBaseChain /\ partition = << >> /\ done = FALSE
  BY DEF Init
<1>2. s = initPossibles(NewComputeBicOrder)
  BY DEF Init
<1>3. IsEmbedding(E)
  BY <1>1, EmbeddingAssumption
<1>4. BaseShape(E, base)
  BY <1>1, <1>3, BaseChainShape
<1> DEFINE c == BackTo(extFace, vLeft, vRight)
<1>6. Valid(E, base, s, {}, c) /\ s.updF = {} /\ s.updV = {}
  BY <1>2, <1>3, <1>4, StartIsValid
<1> HIDE DEF c
<1>7. s.contour = c
  BY <1>6 DEF Valid
<1>8. Removed = {}
  <2>1. ToSet(partition) = {}
    BY <1>1 DEF ToSet
  <2> QED BY <2>1 DEF Removed
<1>9. ValidFor({})
  BY <1>6, <1>7, <1>8 DEF ValidFor
<1>10. partition \in Seq(SetsOf(E))
  BY <1>1
<1> QED BY <1>1, <1>3, <1>4, <1>6, <1>9, <1>10 DEF ShellingInv

(* What a removal leaves satisfies the invariant again.                    *)
Takes(set, u) ==
  /\ Taken(E, base, s.contour, Removed, set, u)
  /\ partition' = << set >> \o partition /\ s' = u /\ UNCHANGED << E, base, done >>

LEMMA FoundInv ==
  ASSUME ShellingInv, ~ done, NEW set, NEW u, Takes(set, u)
  PROVE  ShellingInv'
<1>1. /\ IsEmbedding(E) /\ BaseShape(E, base) /\ done = FALSE /\ partition \in Seq(SetsOf(E))
  BY DEF ShellingInv
<1>2. /\ set \in SetsOf(E) /\ u.updF = {} /\ u.updV = {}
      /\ \E d : Valid(E, base, u, Removed \cup ToSet(set.nodes), d)
  BY DEF Takes, Taken, SetsOf
<1>3. PICK d : Valid(E, base, u, Removed \cup ToSet(set.nodes), d)
  BY <1>2
<1>4. u.contour = d
  BY <1>3 DEF Valid
<1>5. Removed' = Removed \cup ToSet(set.nodes)
  <2>1. NodesIn(<< set >> \o partition) = NodesIn(partition) \cup ToSet(set.nodes)
    BY <1>1, <1>2, RemovedGrows
  <2>2. Removed = NodesIn(partition)
    BY DEF Removed, NodesIn
  <2>3. Removed' = NodesIn(partition')
    BY DEF Removed, NodesIn
  <2>4. partition' = << set >> \o partition
    BY DEF Takes
  <2> HIDE DEF NodesIn
  <2>5. NodesIn(partition') = NodesIn(<< set >> \o partition)
    BY <2>4
  <2> QED BY <2>1, <2>2, <2>3, <2>5
<1>6. << set >> \o partition \in Seq(SetsOf(E))
  BY <1>1, <1>2, ConsSet
<1>7. E' = E /\ base' = base /\ done' = done /\ s' = u /\ partition' = << set >> \o partition
  BY DEF Takes
<1>8. IsEmbedding(E') /\ BaseShape(E', base') /\ done' = FALSE /\ partition' \in Seq(SetsOf(E'))
  BY <1>1, <1>6, <1>7
<1>9. ValidFor(Removed \cup ToSet(set.nodes))'
  BY <1>3, <1>4, <1>5, <1>7 DEF ValidFor
<1> QED BY <1>2, <1>7, <1>8, <1>9 DEF ShellingInv

LEMMA NextTakes ==
  ASSUME ShellingInv, NoVirtualEdge', NextFace \/ NextNode
  PROVE  ~ done /\ \E set, u : Takes(set, u)
<1>1. /\ IsEmbedding(E) /\ BaseShape(E, base) /\ done \in BOOLEAN
      /\ s.updF = {} /\ s.updV = {} /\ \E R : ValidFor(R)
      /\ done => s.possF = {} /\ s.possV = {}
  BY DEF ShellingInv
<1>2. PICK R : ValidFor(R)
  BY <1>1
<1>3. Valid(E, base, s, R, s.contour) /\ (~ done => R = Removed)
  BY <1>2 DEF ValidFor
<1>4. CASE NextFace
  <2>0. PICK f \in s.possF : \E cl \in getFaceCl(s, f) :
          Found(<< removeNextFace(f, cl)[1], [removeNextFace(f, cl)[2] EXCEPT !.possF = @ \ {f}] >>)
    BY <1>4 DEF NextFace
  <2>1. PICK cl \in getFaceCl(s, f) :
          Found(<< removeNextFace(f, cl)[1], [removeNextFace(f, cl)[2] EXCEPT !.possF = @ \ {f}] >>)
    BY <2>0
  <2> DEFINE set == removeNextFace(f, cl)[1]
             x == [removeNextFace(f, cl)[2] EXCEPT !.possF = @ \ {f}]
             u == doUpdate(x)
  <2>2. Found(<< set, x >>)
    BY <2>1
  <2>3. ~ done /\ R = Removed
    BY <1>1, <1>3
  <2>4. Taken(E, base, s.contour, R, set, u)
    BY <1>1, <1>3, FaceTaken
  <2> HIDE DEF set, x
  <2>5. partition' = << set >> \o partition /\ s' = u /\ UNCHANGED << E, base, done >>
    BY <2>2 DEF Found
  <2> HIDE DEF u
  <2>6. Takes(set, u)
    BY <2>3, <2>4, <2>5 DEF Takes
  <2> QED BY <2>3, <2>6
<1>5. CASE NextNode
  <2>1. PICK v \in s.possV :
          Found(<< removeNextNode(v)[1], [removeNextNode(v)[2] EXCEPT !.possV = @ \ {v}] >>)
    BY <1>5 DEF NextNode
  <2>2. s.possF = {}
    BY <1>5 DEF NextNode
  <2> DEFINE set == removeNextNode(v)[1]
             x == [removeNextNode(v)[2] EXCEPT !.possV = @ \ {v}]
             u == doUpdate(x)
  <2>3. Found(<< set, x >>)
    BY <2>1
  <2>4. ~ done /\ R = Removed
    BY <1>1, <1>3
  <2>5. partition' = << set >> \o partition /\ s' = u /\ UNCHANGED << E, base, done >>
    <3> HIDE DEF set, x
    <3> QED BY <2>3 DEF Found
  <2>6. u.virt = {}
    <3> HIDE DEF u
    <3> QED BY <2>5 DEF NoVirtualEdge
  <2>7. Taken(E, base, s.contour, R, set, u)
    BY <1>1, <1>3, <2>2, <2>6, NodeTaken
  <2> HIDE DEF set, x, u
  <2>8. Takes(set, u)
    BY <2>4, <2>5, <2>7 DEF Takes
  <2> QED BY <2>4, <2>8
<1> QED BY <1>4, <1>5

LEMMA NextInv ==
  ASSUME ShellingInv, NoVirtualEdge', [Next]_vars
  PROVE  ShellingInv'
<1>1. /\ IsEmbedding(E) /\ BaseShape(E, base) /\ done \in BOOLEAN /\ partition \in Seq(SetsOf(E))
      /\ s.updF = {} /\ s.updV = {} /\ \E R : ValidFor(R)
      /\ done => s.possF = {} /\ s.possV = {}
  BY DEF ShellingInv
<1>2. PICK R : ValidFor(R)
  BY <1>1
<1>3. Valid(E, base, s, R, s.contour) /\ (~ done => R = Removed)
  BY <1>2 DEF ValidFor
<1>4. CASE NextFace \/ NextNode
  <2>1. ~ done /\ \E set, u : Takes(set, u)
    BY <1>4, NextTakes
  <2> QED BY <2>1, FoundInv
<1>5. ~ NextVirt
  <2>1. EdgesUnmarked(s)
    BY <1>3 DEF Valid
  <2>2. s.possE = {}
    BY <2>1 DEF EdgesUnmarked
  <2> QED BY <2>2 DEF NextVirt
<1>6. CASE Finish
  <2>1. /\ s.possF = {} /\ s.possV = {} /\ partition' = << Set(base, None, None) >> \o partition
        /\ done' = TRUE /\ UNCHANGED << E, base, s >>
    BY <1>6 DEF Finish
  <2>2. Set(base, None, None) \in SetsOf(E)
    <3>1. base \in Path(E.nodes)
      BY <1>1 DEF BaseShape
    <3>2. base \in Seq(E.nodes)
      BY <3>1, PathIndices
    <3> QED BY <3>2 DEF Set, SetsOf
  <2>3. << Set(base, None, None) >> \o partition \in Seq(SetsOf(E))
    BY <1>1, <2>2, ConsSet
  <2>4. ValidFor(R)'
    BY <1>3, <2>1 DEF ValidFor
  <2>5. IsEmbedding(E') /\ BaseShape(E', base') /\ partition' \in Seq(SetsOf(E'))
    BY <1>1, <2>1, <2>3
  <2> QED BY <1>1, <2>1, <2>4, <2>5 DEF ShellingInv
<1>7. CASE UNCHANGED vars
  <2>1. E' = E /\ base' = base /\ s' = s /\ partition' = partition /\ done' = done
    BY <1>7 DEF vars
  <2>2. ValidFor(R)'
    BY <1>2, <2>1 DEF ValidFor, Removed
  <2> QED BY <1>1, <2>1, <2>2 DEF ShellingInv
<1> QED BY <1>4, <1>5, <1>6, <1>7 DEF Next

-----------------------------------------------------------------------------
(***************************************************************************)
(* The sets that are found, with the contour that is left in front of      *)
(* them, are a shelling order whose last contour is the external face.  A  *)
(* removal takes the last set off the first path.                          *)
(***************************************************************************)
TakenOff(sets, more) ==
  /\ Len(sets) >= 1 /\ Len(more) = Len(sets) + 1
  /\ \A i \in 2..Len(sets) : more[i + 1] = sets[i]
  /\ OnContour(more[1].nodes, more[2])
  /\ PutOn(more[1].nodes, more[2]) = sets[1].nodes

LEMMA TakenContours ==
  ASSUME NEW X, NEW sets \in Seq(X), NEW more \in Seq(X), TakenOff(sets, more)
  PROVE  /\ Contours(more)[1] = more[1].nodes
         /\ \A i \in 1..Len(sets) : Contours(more)[i + 1] = Contours(sets)[i]
<1> DEFINE n == Len(sets)
           C == Contours(sets)
           D == Contours(more)
           T == {i \in Int : D[i + 1] = C[i]}
<1>1. n \in Nat /\ n >= 1 /\ Len(more) = n + 1 /\ \A i \in 2..n : more[i + 1] = sets[i]
  BY LenProperties DEF TakenOff
<1>2. C[1] = sets[1].nodes /\ \A i \in 2..n : C[i] = PutOn(C[i - 1], sets[i])
  BY <1>1, ContoursStep
<1>3. D[1] = more[1].nodes /\ \A i \in 2..(n + 1) : D[i] = PutOn(D[i - 1], more[i])
  <2>1. Len(more) >= 1
    BY <1>1
  <2> QED BY <1>1, <2>1, ContoursStep
<1> HIDE DEF n, C, D
<1>4. 1 \in T
  <2>1. 2 \in 2..(n + 1) /\ 2 - 1 = 1 /\ 1 + 1 = 2
    BY <1>1
  <2>2. D[2] = PutOn(D[1], more[2])
    BY <1>3, <2>1
  <2>3. D[1 + 1] = C[1]
    BY <1>2, <1>3, <2>2 DEF TakenOff
  <2> QED BY <2>3
<1>5. ASSUME NEW i \in 1..(n - 1), i \in T PROVE i + 1 \in T
  <2>1. /\ i + 1 \in 2..n /\ i + 2 \in 2..(n + 1)
        /\ (i + 1) - 1 = i /\ (i + 2) - 1 = i + 1 /\ (i + 1) + 1 = i + 2 /\ i + 1 \in Int
    BY <1>1
  <2>2. C[i + 1] = PutOn(C[i], sets[i + 1])
    BY <1>2, <2>1
  <2>3. D[i + 2] = PutOn(D[i + 1], more[i + 2])
    BY <1>3, <2>1
  <2>4. more[i + 2] = sets[i + 1]
    BY <1>1, <2>1
  <2>5. D[i + 1] = C[i]
    BY <1>5
  <2> QED BY <2>1, <2>2, <2>3, <2>4, <2>5
<1>6. \A i \in 1..n : i \in T
  <2>1. 1 \in Int /\ n \in Int
    BY <1>1
  <2> HIDE DEF T
  <2> QED BY <1>4, <1>5, <2>1, Upwards
<1> QED BY <1>3, <1>6 DEF C, D, n

LEMMA TakenLast ==
  ASSUME NEW X, NEW sets \in Seq(X), NEW more \in Seq(X), TakenOff(sets, more)
  PROVE  Contour(more) = Contour(sets)
<1>1. Len(sets) \in 1..Len(sets) /\ Len(more) = Len(sets) + 1
  BY LenProperties DEF TakenOff
<1>2. Contours(more)[Len(sets) + 1] = Contours(sets)[Len(sets)]
  BY <1>1, TakenContours
<1> QED BY <1>1, <1>2 DEF Contour

LEMMA TakenShelling ==
  ASSUME NEW X, NEW V, NEW sets, Shelling(X, V, sets), NEW more \in Seq(X), TakenOff(sets, more),
         more[1].nodes \in Path(V), Len(more[1].nodes) >= 2,
         more[2].nodes \in Path(V), more[2].nodes # << >>,
         ToSet(more[1].nodes) \cap ToSet(more[2].nodes) = {},
         \A i \in 2..Len(sets) : /\ ToSet(more[1].nodes) \cap ToSet(sets[i].nodes) = {}
                                 /\ ToSet(more[2].nodes) \cap ToSet(sets[i].nodes) = {}
  PROVE  Shelling(X, V, more)
<1> DEFINE n == Len(sets)
           W(i) == ToSet(more[i].nodes)
<1>1. /\ sets \in Seq(X) /\ n \in Nat /\ n >= 1 /\ Len(more) = n + 1
      /\ \A i \in 2..n : more[i + 1] = sets[i]
  BY LenProperties DEF TakenOff, Shelling
<1>2. \A i \in 1..n : Contours(more)[i + 1] = Contours(sets)[i]
  BY <1>1, TakenContours
<1>3. Contours(more)[1] = more[1].nodes
  BY <1>1, TakenContours
<1>4. /\ \A i \in 1..n : sets[i].nodes \in Path(V) /\ sets[i].nodes # << >>
      /\ \A i, j \in 1..n : i # j => ToSet(sets[i].nodes) \cap ToSet(sets[j].nodes) = {}
      /\ \A i \in 2..n : OnContour(Contours(sets)[i - 1], sets[i])
  BY DEF Shelling
<1>5. ASSUME NEW i \in 3..(n + 1)
      PROVE  more[i] = sets[i - 1] /\ i - 1 \in 2..n /\ i - 1 \in 1..n /\ (i - 2) \in 1..n
  <2>1. i - 1 \in 2..n /\ (i - 1) + 1 = i /\ i - 1 \in 1..n /\ (i - 2) \in 1..n
    BY <1>1
  <2> QED BY <1>1, <2>1
<1>6. \A i \in 1..(n + 1) : i = 1 \/ i = 2 \/ i \in 3..(n + 1)
  BY <1>1
<1> HIDE DEF n
<1>7. ASSUME NEW i \in 1..(n + 1) PROVE more[i].nodes \in Path(V) /\ more[i].nodes # << >>
  <2>1. more[1].nodes # << >>
    OBVIOUS
  <2>2. ASSUME i \in 3..(n + 1) PROVE more[i].nodes \in Path(V) /\ more[i].nodes # << >>
    BY <1>4, <1>5, <2>2
  <2> QED BY <1>6, <2>1, <2>2
<1>8. ASSUME NEW i \in 1..(n + 1), NEW j \in 3..(n + 1), i # j PROVE W(i) \cap W(j) = {}
  <2>1. more[j] = sets[j - 1] /\ j - 1 \in 2..n /\ j - 1 \in 1..n
    BY <1>5
  <2>2. CASE i = 1 \/ i = 2
    BY <2>1, <2>2 DEF n
  <2>3. CASE i \in 3..(n + 1)
    <3>1. more[i] = sets[i - 1] /\ i - 1 \in 1..n /\ i - 1 # j - 1
      BY <1>1, <1>5, <1>8, <2>3
    <3> QED BY <1>4, <2>1, <3>1
  <2> QED BY <1>6, <2>2, <2>3
<1>9. ASSUME NEW i \in 1..(n + 1), NEW j \in 1..(n + 1), i # j PROVE W(i) \cap W(j) = {}
  <2>1. CASE j \in 3..(n + 1)
    BY <1>8, <1>9, <2>1
  <2>2. CASE i \in 3..(n + 1)
    <3> HIDE DEF W
    <3>1. W(j) \cap W(i) = {}
      BY <1>8, <1>9, <2>2
    <3> QED BY <3>1
  <2>3. CASE i \in {1, 2} /\ j \in {1, 2}
    BY <1>9, <2>3
  <2> QED BY <1>6, <2>1, <2>2, <2>3
<1>10. ASSUME NEW i \in 2..(n + 1) PROVE OnContour(Contours(more)[i - 1], more[i])
  <2>1. CASE i = 2
    BY <1>3, <2>1 DEF TakenOff
  <2>2. CASE i \in 3..(n + 1)
    <3>1. more[i] = sets[i - 1] /\ i - 1 \in 2..n /\ i - 2 \in 1..n
      BY <1>5, <2>2
    <3>2. (i - 2) + 1 = i - 1 /\ (i - 1) - 1 = i - 2
      BY <2>2
    <3>3. Contours(more)[i - 1] = Contours(sets)[i - 2]
      BY <1>2, <3>1, <3>2
    <3>4. OnContour(Contours(sets)[i - 2], sets[i - 1])
      BY <1>4, <3>1, <3>2
    <3> QED BY <3>1, <3>3, <3>4
  <2> QED BY <1>1, <2>1, <2>2
<1>11. Len(more) >= 1
  BY <1>1
<1>12. /\ \A i \in 1..Len(more) : more[i].nodes \in Path(V) /\ more[i].nodes # << >>
       /\ \A i \in 2..Len(more) : OnContour(Contours(more)[i - 1], more[i])
  BY <1>1, <1>7, <1>10
<1>13. \A i, j \in 1..Len(more) : i # j => ToSet(more[i].nodes) \cap ToSet(more[j].nodes) = {}
  BY <1>1, <1>9
<1> QED BY <1>11, <1>12, <1>13, Zenon DEF Shelling

(* An edge that the order has, either way.                                 *)
JoinedBy(sets, v, w) ==
  \E i \in 2..Len(sets) : EitherWay(SetEdges(Contours(sets)[i - 1], sets[i]), v, w)

LEMMA TakenJoined ==
  ASSUME NEW X, NEW sets \in Seq(X), NEW more \in Seq(X), TakenOff(sets, more), NEW v, NEW w,
         JoinedBy(sets, v, w) \/ EitherWay(SetEdges(more[1].nodes, more[2]), v, w)
  PROVE  JoinedBy(more, v, w)
<1>1. /\ Len(sets) \in Nat /\ Len(sets) >= 1 /\ Len(more) = Len(sets) + 1
      /\ \A i \in 2..Len(sets) : more[i + 1] = sets[i]
  BY LenProperties DEF TakenOff
<1>2. CASE JoinedBy(sets, v, w)
  <2>1. PICK i \in 2..Len(sets) : EitherWay(SetEdges(Contours(sets)[i - 1], sets[i]), v, w)
    BY <1>2 DEF JoinedBy
  <2>2. i - 1 \in 1..Len(sets) /\ (i - 1) + 1 = i /\ i + 1 \in 2..Len(more) /\ (i + 1) - 1 = i
    BY <1>1
  <2>3. Contours(more)[i] = Contours(sets)[i - 1]
    BY <2>2, TakenContours
  <2>4. EitherWay(SetEdges(Contours(more)[(i + 1) - 1], more[i + 1]), v, w)
    BY <1>1, <2>1, <2>2, <2>3
  <2> QED BY <2>2, <2>4 DEF JoinedBy
<1>3. CASE EitherWay(SetEdges(more[1].nodes, more[2]), v, w)
  <2>1. Contours(more)[1] = more[1].nodes
    BY TakenContours
  <2>2. 2 \in 2..Len(more) /\ 2 - 1 = 1
    BY <1>1
  <2>3. EitherWay(SetEdges(Contours(more)[2 - 1], more[2]), v, w)
    BY <1>3, <2>1, <2>2
  <2> QED BY <2>2, <2>3 DEF JoinedBy
<1> QED BY <1>2, <1>3

WithContour(c, p) == << Set(c, None, None) >> \o p

Parts(g, c, p, R, final) ==
  /\ p \in Seq(SetsOf(g)) /\ NodesIn(p) = R
  /\ Shelling(SetsOf(g), g.nodes, WithContour(c, p)) /\ Contour(WithContour(c, p)) = final
  /\ \A v \in R : \A w \in Around(g, v) : JoinedBy(WithContour(c, p), v, w)

LEMMA WithContourIs ==
  ASSUME NEW g, NEW c \in Seq(g.nodes), NEW p \in Seq(SetsOf(g))
  PROVE  /\ WithContour(c, p) \in Seq(SetsOf(g)) /\ Len(WithContour(c, p)) = Len(p) + 1
         /\ WithContour(c, p)[1] = Set(c, None, None) /\ WithContour(c, p)[1].nodes = c
         /\ \A i \in 1..Len(p) : WithContour(c, p)[i + 1] = p[i]
<1> DEFINE X == SetsOf(g)
           x == Set(c, None, None)
           q == << x >> \o p
<1>1. x \in X /\ x.nodes = c
  BY DEF Set, SetsOf
<1> HIDE DEF x, X
<1>2. << x >> \in Seq(X) /\ Len(<< x >>) = 1 /\ << x >>[1] = x
  BY <1>1
<1>3. p \in Seq(X)
  BY DEF X
<1>4. q \in Seq(X) /\ Len(q) = Len(p) + 1
  BY <1>2, <1>3, ConcatProperties
<1>5. q[1] = x /\ \A i \in 1..Len(p) : q[i + 1] = p[i]
  BY <1>2, <1>3, ConcatProperties
<1> HIDE DEF q
<1>6. WithContour(c, p) = q
  BY DEF WithContour, q, x
<1> QED BY <1>1, <1>4, <1>5, <1>6 DEF X, x

LEMMA NodesOfPart ==
  ASSUME NEW X, NEW p \in Seq(X), NEW i \in 1..Len(p)
  PROVE  ToSet(p[i].nodes) \subseteq NodesIn(p)
<1>1. p[i] \in ToSet(p)
  BY DEF ToSet
<1> QED BY <1>1 DEF NodesIn

(* A removal puts its set in front of those before it.                     *)
LEMMA PartsGrow ==
  ASSUME NEW g, IsEmbedding(g), NEW b, NEW c, NEW R, ContourShape(g, b, c, R),
         NEW p, NEW final, Parts(g, c, p, R, final), NEW set \in SetsOf(g), NEW d,
         ContourShape(g, b, d, R \cup ToSet(set.nodes)), PutBack(g, c, R, set, d)
  PROVE  Parts(g, d, << set >> \o p, R \cup ToSet(set.nodes), final)
<1> DEFINE X == SetsOf(g)
           r == << set >> \o p
           q == WithContour(c, p)
           more == WithContour(d, r)
           N == ToSet(set.nodes)
<1>1. /\ p \in Seq(X) /\ NodesIn(p) = R /\ Shelling(X, g.nodes, q) /\ Contour(q) = final
      /\ \A v \in R : \A w \in Around(g, v) : JoinedBy(q, v, w)
  BY DEF Parts
<1>2. c \in Path(g.nodes) /\ Len(c) >= 2 /\ R \cap ToSet(c) = {}
  BY DEF ContourShape
<1>3. d \in Path(g.nodes) /\ Len(d) >= 2 /\ (R \cup N) \cap ToSet(d) = {}
  BY DEF ContourShape
<1>4. /\ set.nodes \in Path(g.nodes) /\ Len(set.nodes) >= 1 /\ N \subseteq ToSet(c)
      /\ OnContour(d, set) /\ PutOn(d, set) = c
      /\ \A v \in N : \A w \in Around(g, v) \ R : EitherWay(SetEdges(d, set), v, w)
  BY DEF PutBack
<1>5. c \in Seq(g.nodes) /\ d \in Seq(g.nodes)
  BY <1>2, <1>3, PathIndices
<1>6. r \in Seq(X) /\ NodesIn(r) = R \cup N
  BY <1>1, ConsSet, RemovedGrows
<1>7. Len(p) \in Nat /\ Len(r) = Len(p) + 1 /\ r[1] = set /\ \A i \in 1..Len(p) : r[i + 1] = p[i]
  <2> HIDE DEF X
  <2>1. set \in X
    BY DEF X
  <2>2. << set >> \in Seq(X) /\ Len(<< set >>) = 1 /\ << set >>[1] = set
    BY <2>1
  <2> QED BY <1>1, <2>2, ConcatProperties, LenProperties
<1>8. /\ q \in Seq(X) /\ Len(q) = Len(p) + 1 /\ q[1].nodes = c /\ \A i \in 1..Len(p) : q[i + 1] = p[i]
  BY <1>1, <1>5, WithContourIs
<1>9. /\ more \in Seq(X) /\ Len(more) = Len(r) + 1 /\ more[1].nodes = d /\ \A i \in 1..Len(r) : more[i + 1] = r[i]
  <2> HIDE DEF r
  <2> QED BY <1>5, <1>6, WithContourIs
<1> HIDE DEF X, r, q, more, N
<1>10. more[2] = set
  <2>1. 1 \in 1..Len(r) /\ 1 + 1 = 2
    BY <1>7
  <2> QED BY <1>7, <1>9, <2>1
<1>11. ASSUME NEW i \in 2..Len(q) PROVE more[i + 1] = q[i] /\ i - 1 \in 1..Len(p) /\ q[i] = p[i - 1]
  <2>1. i - 1 \in 1..Len(p) /\ i \in 1..Len(r) /\ (i - 1) + 1 = i
    BY <1>7, <1>8
  <2> QED BY <1>7, <1>8, <1>9, <2>1
<1>12. TakenOff(q, more)
  BY <1>4, <1>7, <1>8, <1>9, <1>10, <1>11 DEF TakenOff
<1>13. ASSUME NEW i \in 2..Len(q)
       PROVE  ToSet(more[1].nodes) \cap ToSet(q[i].nodes) = {} /\ ToSet(more[2].nodes) \cap ToSet(q[i].nodes) = {}
  <2>1. ToSet(q[i].nodes) \subseteq R
    BY <1>1, <1>11, NodesOfPart
  <2> QED BY <1>2, <1>3, <1>4, <1>9, <1>10, <2>1 DEF N
<1>14. set.nodes # << >>
  BY <1>4
<1>15. Shelling(X, g.nodes, more)
  <2>1. ToSet(more[1].nodes) \cap ToSet(more[2].nodes) = {}
    BY <1>3, <1>9, <1>10 DEF N
  <2> QED BY <1>1, <1>3, <1>4, <1>9, <1>10, <1>12, <1>13, <1>14, <2>1, TakenShelling
<1>16. Contour(more) = final
  BY <1>1, <1>8, <1>9, <1>12, TakenLast
<1>17. ASSUME NEW v \in R \cup N, NEW w \in Around(g, v) PROVE JoinedBy(more, v, w)
  <2>1. CASE v \in R
    <3>1. JoinedBy(q, v, w)
      BY <1>1, <2>1
    <3> QED BY <3>1, <1>8, <1>9, <1>12, TakenJoined
  <2>2. CASE v \in N /\ w \notin R
    <3>1. EitherWay(SetEdges(more[1].nodes, more[2]), v, w)
      BY <1>4, <1>9, <1>10, <2>2
    <3> QED BY <3>1, <1>8, <1>9, <1>12, TakenJoined
  <2>3. CASE w \in R
    <3>1. v \in Around(g, w)
      BY AroundEntry
    <3>2. JoinedBy(q, w, v)
      BY <1>1, <2>3, <3>1
    <3>3. JoinedBy(more, w, v)
      BY <3>2, <1>8, <1>9, <1>12, TakenJoined
    <3> QED BY <3>3 DEF JoinedBy, EitherWay
  <2> QED BY <2>1, <2>2, <2>3
<1> QED BY <1>6, <1>15, <1>16, <1>17 DEF Parts, X, r, more, N

LEMMA PartsStart ==
  ASSUME NEW g, NEW c \in Path(g.nodes), Len(c) >= 2
  PROVE  Parts(g, c, << >>, {}, c)
<1> DEFINE X == SetsOf(g)
           p == << >>
           q == WithContour(c, p)
<1>1. p \in Seq(X) /\ Len(p) = 0
  OBVIOUS
<1>2. NodesIn(p) = {}
  <2>1. ToSet(p) = {}
    BY DEF ToSet
  <2> QED BY <2>1 DEF NodesIn
<1>3. c \in Seq(g.nodes)
  BY PathIndices
<1>4. q \in Seq(X) /\ Len(q) = 1 /\ q[1].nodes = c
  <2> HIDE DEF p
  <2>1. p \in Seq(SetsOf(g))
    BY <1>1
  <2>2. q \in Seq(SetsOf(g)) /\ Len(q) = Len(p) + 1 /\ q[1].nodes = c
    BY <1>3, <2>1, WithContourIs
  <2> HIDE DEF q
  <2> QED BY <1>1, <2>2
<1> HIDE DEF q, X
<1>5. Shelling(X, g.nodes, q)
  <2>1. \A i \in 1..1 : i = 1
    OBVIOUS
  <2>2. c # << >> /\ 2..1 = {}
    OBVIOUS
  <2> QED BY <1>4, <2>1, <2>2 DEF Shelling
<1>6. Contour(q) = c
  BY <1>4, ContoursStep DEF Contour
<1> HIDE DEF p
<1>7. Parts(g, c, p, {}, c)
  BY <1>1, <1>2, <1>5, <1>6 DEF Parts, X, q
<1> QED BY <1>7 DEF p

(***************************************************************************)
(* When the contour has become the base, nothing else is left, and the     *)
(* base completes the partition.                                           *)
(***************************************************************************)
BasePair(b, v, w) == \E j \in 1..(Len(b) - 1) : {v, w} = {b[j], b[j + 1]}

LEMMA BaseAlone ==
  ASSUME NEW g, IsEmbedding(g), NEW b, BaseShape(g, b), NEW R, ContourShape(g, b, b, R),
         NEW i \in 1..Len(b), NEW w \in Around(g, b[i]) \ R
  PROVE  BasePair(b, b[i], w) /\ w \in ToSet(b)
<1> DEFINE n == Len(b)
           A == Around(g, b[i]) \ R
<1>1. /\ n \in Nat /\ n >= 2 /\ b[i] \in g.nodes /\ \A j \in 1..n : b[j] \in ToSet(b)
      /\ \A j \in 1..(n - 1) : Entry(g, b[j], b[j + 1], extFace)
  BY BaseFacts DEF BaseShape
<1>2. Segment(g, b[i], A, Before(b, b, i), After(b, b, i))
  BY DEF ContourShape, NodeShape
<1> HIDE DEF A
<1>3. CASE i = 1
  <2>1. Before(b, b, i) = b[2] /\ After(b, b, i) = b[2]
    BY <1>1, <1>3 DEF Before, After
  <2>2. A = {b[2]}
    BY <1>1, <1>2, <2>1, SegmentOfOne
  <2>3. w = b[1 + 1] /\ 1 \in 1..(n - 1) /\ 2 \in 1..n
    BY <1>1, <2>2 DEF A
  <2>4. {b[i], w} = {b[1], b[1 + 1]}
    BY <1>3, <2>3
  <2>5. BasePair(b, b[i], w)
    BY <2>3, <2>4 DEF BasePair
  <2> QED BY <1>1, <2>3, <2>5
<1>4. CASE i = n /\ i # 1
  <2>1. Before(b, b, i) = b[n - 1] /\ After(b, b, i) = b[n - 1]
    BY <1>1, <1>4 DEF Before, After
  <2>2. A = {b[n - 1]}
    BY <1>1, <1>2, <2>1, SegmentOfOne
  <2>3. w = b[n - 1] /\ n - 1 \in 1..(n - 1) /\ n - 1 \in 1..n /\ (n - 1) + 1 = n
    BY <1>1, <2>2 DEF A
  <2>4. {b[i], w} = {b[n - 1], b[(n - 1) + 1]}
    BY <1>4, <2>3
  <2>5. BasePair(b, b[i], w)
    BY <2>3, <2>4 DEF BasePair
  <2> QED BY <1>1, <2>3, <2>5
<1>5. CASE i # 1 /\ i # n
  <2>1. i - 1 \in 1..(n - 1) /\ i \in 1..(n - 1) /\ (i - 1) + 1 = i /\ i - 1 \in 1..n /\ i + 1 \in 1..n
    BY <1>1, <1>5
  <2>2. Before(b, b, i) = b[i - 1] /\ After(b, b, i) = b[i + 1]
    BY <1>5 DEF Before, After
  <2>3. Entry(g, b[i - 1], b[i], extFace) /\ Entry(g, b[i], b[i + 1], extFace)
    <3>1. Entry(g, b[i - 1], b[(i - 1) + 1], extFace)
      BY <1>1, <2>1
    <3> QED BY <1>1, <2>1, <3>1
  <2>4. Beside(g, b[i], b[i - 1], b[i + 1])
    BY <2>3 DEF Beside
  <2>5. A = {b[i - 1], b[i + 1]}
    BY <1>1, <1>2, <2>2, <2>4, SegmentOfTwo
  <2>6. w = b[i - 1] \/ w = b[i + 1]
    BY <2>5 DEF A
  <2>7. CASE w = b[i - 1]
    <3>1. {b[i], w} = {b[i - 1], b[(i - 1) + 1]}
      BY <2>1, <2>7
    <3>2. BasePair(b, b[i], w)
      BY <2>1, <3>1 DEF BasePair
    <3> QED BY <1>1, <2>1, <2>7, <3>2
  <2>8. CASE w = b[i + 1]
    <3>1. {b[i], w} = {b[i], b[i + 1]}
      BY <2>8
    <3>2. BasePair(b, b[i], w)
      BY <2>1, <3>1 DEF BasePair
    <3> QED BY <1>1, <2>1, <2>8, <3>2
  <2> QED BY <2>6, <2>7, <2>8
<1> QED BY <1>3, <1>4, <1>5

LEMMA NothingIsLeft ==
  ASSUME NEW g, IsEmbedding(g), IsConnected(g), NEW b, BaseShape(g, b), NEW R, ContourShape(g, b, b, R)
  PROVE  R \cup ToSet(b) = g.nodes
<1> DEFINE some == R \cup ToSet(b)
<1>1. b \in Path(g.nodes) /\ Len(b) >= 2 /\ R \subseteq g.nodes
  BY DEF BaseShape, ContourShape
<1>2. /\ Len(b) \in Nat /\ ToSet(b) \subseteq g.nodes
      /\ \A v : v \in ToSet(b) <=> \E i \in 1..Len(b) : b[i] = v
  BY <1>1, PathIndices
<1>3. some \subseteq g.nodes /\ some # {}
  <2>1. b[1] \in ToSet(b)
    <3>1. 1 \in 1..Len(b)
      BY <1>1, <1>2
    <3> QED BY <1>2, <3>1
  <2> QED BY <1>1, <1>2, <2>1
<1>4. ASSUME NEW v \in some, NEW w \in Around(g, v) PROVE w \in some
  <2>1. CASE v \in R
    <3>1. PICK f : Entry(g, v, w, f)
      BY AroundEntry
    <3>2. f \in DOMAIN g.faces /\ v \in OnFace(g, f) /\ w \in OnFace(g, f)
      BY <3>1, EntryFacts
    <3>3. f \notin Whole(g, R)
      BY <2>1, <3>2 DEF Whole
    <3>4. OnFace(g, f) \subseteq ToSet(b) \cup R \cup (IF f = extFace THEN ToSet(b) ELSE {})
      BY <3>2, <3>3 DEF ContourShape
    <3> QED BY <3>2, <3>4
  <2>2. CASE v \in ToSet(b) /\ w \notin R
    <3>1. PICK i \in 1..Len(b) : b[i] = v
      BY <1>2, <2>2
    <3> QED BY <1>4, <2>2, <3>1, BaseAlone
  <2> QED BY <2>1, <2>2
<1> HIDE DEF some
<1>5. some = g.nodes
  <2> SUFFICES ASSUME some # g.nodes PROVE FALSE
    OBVIOUS
  <2>1. some \in (SUBSET g.nodes) \ {{}, g.nodes}
    BY <1>3
  <2>2. PICK v \in some, w \in g.nodes \ some : << v, w >> \in DOMAIN g.rightFace
    BY <2>1 DEF IsConnected
  <2>3. w \in Around(g, v)
    BY <2>2 DEF Around
  <2> QED BY <1>4, <2>2, <2>3
<1> QED BY <1>5 DEF some

(* The edges of an order are those of its sets.                            *)
SetsEdges(sets, i) ==
  IF i = 1 THEN {<< sets[1].nodes[j], sets[1].nodes[j + 1] >> : j \in 1..(Len(sets[1].nodes) - 1)}
  ELSE SetEdges(Contours(sets)[i - 1], sets[i])

LEMMA EdgesOfSets ==
  ASSUME NEW X, NEW sets \in Seq(X), NEW i \in 1..Len(sets)
  PROVE  SetsEdges(sets, i) \subseteq EdgesOf(sets)
<1> DEFINE F(j) == LET S == sets[j]
                       chain == {<< S.nodes[k], S.nodes[k + 1] >> : k \in 1..(Len(S.nodes) - 1)}
                   IN IF j = 1 THEN chain
                      ELSE chain \cup {<< S.left, Head(S.nodes) >>, << Last(S.nodes), S.right >>}
                           \cup IF Len(S.nodes) > 1 THEN {}
                                ELSE {<< v, S.nodes[1] >> : v \in ToSet(Covered(Contours(sets)[j - 1], S))}
<1>1. EdgesOf(sets) = UNION {F(j) : j \in DOMAIN sets}
  BY Zenon DEF EdgesOf
<1>2. SetsEdges(sets, i) = F(i)
  BY DEF SetsEdges, SetEdges
<1>3. i \in DOMAIN sets
  OBVIOUS
<1> HIDE DEF F
<1> QED BY <1>1, <1>2, <1>3

(* Every node is in one of them.                                           *)
LEMMA InOneSet ==
  ASSUME NEW X, NEW V, NEW sets, Shelling(X, V, sets), NEW i \in 1..Len(sets), NEW v \in ToSet(sets[i].nodes)
  PROVE  Cardinality({j \in DOMAIN sets : Contains(sets[j].nodes, v)}) = 1
<1>1. sets \in Seq(X) /\ \A j \in 1..Len(sets) : sets[j].nodes \in Path(V)
  BY DEF Shelling
<1>2. \A j, k \in 1..Len(sets) : j # k => ToSet(sets[j].nodes) \cap ToSet(sets[k].nodes) = {}
  BY DEF Shelling
<1>3. ASSUME NEW j \in 1..Len(sets) PROVE Contains(sets[j].nodes, v) <=> v \in ToSet(sets[j].nodes)
  <2> DEFINE p == sets[j].nodes
  <2>1. p \in Path(V)
    BY <1>1
  <2> HIDE DEF p
  <2>2. Contains(p, v) <=> v \in ToSet(p)
    BY <2>1, PathIndices DEF Contains
  <2> QED BY <2>2 DEF p
<1>4. DOMAIN sets = 1..Len(sets)
  BY <1>1
<1>5. {j \in DOMAIN sets : Contains(sets[j].nodes, v)} = {i}
  BY <1>2, <1>3, <1>4
<1> QED BY <1>5, FS_Singleton

LEMMA BaseCompletes ==
  ASSUME NEW g, IsEmbedding(g), IsConnected(g), NEW b, BaseShape(g, b), NEW R, ContourShape(g, b, b, R),
         NEW p, NEW final, Parts(g, b, p, R, final), NEW sets, sets = WithContour(b, p)
  PROVE  /\ \A v \in g.nodes : Cardinality({i \in DOMAIN sets : Contains(sets[i].nodes, v)}) = 1
         /\ \A i \in 2..Len(sets) :
              sets[i].nodes # << >> /\ OnContour(Contours(sets)[i - 1], sets[i])
         /\ \A v \in g.nodes : \A w \in Around(g, v) : {<< v, w >>, << w, v >>} \cap EdgesOf(sets) # {}
         /\ Contour(sets) = final
<1> DEFINE X == SetsOf(g)
<1>1. /\ p \in Seq(X) /\ NodesIn(p) = R /\ Shelling(X, g.nodes, sets) /\ Contour(sets) = final
      /\ \A v \in R : \A w \in Around(g, v) : JoinedBy(sets, v, w)
  BY DEF Parts
<1>2. b \in Seq(g.nodes) /\ Len(b) \in Nat /\ \A v : v \in ToSet(b) <=> \E i \in 1..Len(b) : b[i] = v
  BY PathIndices DEF BaseShape
<1>3. /\ sets \in Seq(X) /\ Len(sets) = Len(p) + 1 /\ sets[1].nodes = b
      /\ \A i \in 1..Len(p) : sets[i + 1] = p[i]
  BY <1>1, <1>2, WithContourIs
<1>4. R \cup ToSet(b) = g.nodes
  BY NothingIsLeft
<1>5. Len(p) \in Nat
  BY <1>1
<1> HIDE DEF X
<1>6. ASSUME NEW v \in g.nodes
      PROVE  Cardinality({i \in DOMAIN sets : Contains(sets[i].nodes, v)}) = 1
  <2>1. \E i \in 1..Len(sets) : v \in ToSet(sets[i].nodes)
    <3>1. CASE v \in ToSet(b)
      <4>1. 1 \in 1..Len(sets)
        BY <1>3, <1>5
      <4> QED BY <1>3, <3>1, <4>1
    <3>2. CASE v \in R
      <4>1. PICK S \in ToSet(p) : v \in ToSet(S.nodes)
        BY <1>1, <3>2 DEF NodesIn
      <4>2. PICK i \in 1..Len(p) : p[i] = S
        BY <1>1, <4>1 DEF ToSet
      <4>3. i + 1 \in 1..Len(sets) /\ sets[i + 1] = S
        BY <1>3, <1>5, <4>2
      <4> QED BY <4>1, <4>3
    <3> QED BY <1>4, <3>1, <3>2
  <2> QED BY <1>1, <2>1, InOneSet
<1>7. \A i \in 2..Len(sets) : sets[i].nodes # << >> /\ OnContour(Contours(sets)[i - 1], sets[i])
  <2>1. \A i \in 2..Len(sets) : i \in 1..Len(sets)
    BY <1>3, <1>5
  <2> QED BY <1>1, <2>1 DEF Shelling
<1>8. ASSUME NEW v \in R, NEW w \in Around(g, v) PROVE << v, w >> \in EdgesOf(sets) \/ << w, v >> \in EdgesOf(sets)
  <2>1. PICK i \in 2..Len(sets) : EitherWay(SetEdges(Contours(sets)[i - 1], sets[i]), v, w)
    BY <1>1 DEF JoinedBy
  <2>2. i \in 1..Len(sets) /\ i # 1
    BY <1>3, <1>5
  <2>3. SetsEdges(sets, i) = SetEdges(Contours(sets)[i - 1], sets[i])
    BY <2>2 DEF SetsEdges
  <2>4. SetsEdges(sets, i) \subseteq EdgesOf(sets)
    BY <1>3, <2>2, EdgesOfSets
  <2> QED BY <2>1, <2>3, <2>4 DEF EitherWay
<1>9. ASSUME NEW v \in ToSet(b), NEW w \in Around(g, v), w \notin R
      PROVE  << v, w >> \in EdgesOf(sets) \/ << w, v >> \in EdgesOf(sets)
  <2>1. PICK i \in 1..Len(b) : b[i] = v
    BY <1>2
  <2>2. BasePair(b, v, w)
    BY <1>9, <2>1, BaseAlone
  <2>3. PICK j \in 1..(Len(b) - 1) : {v, w} = {b[j], b[j + 1]}
    BY <2>2 DEF BasePair
  <2>4. << b[j], b[j + 1] >> \in SetsEdges(sets, 1)
    BY <1>3 DEF SetsEdges
  <2>5. 1 \in 1..Len(sets)
    BY <1>3, <1>5
  <2>6. << b[j], b[j + 1] >> \in EdgesOf(sets)
    BY <1>3, <2>4, <2>5, EdgesOfSets
  <2>7. (v = b[j] /\ w = b[j + 1]) \/ (w = b[j] /\ v = b[j + 1])
    BY <2>3
  <2> QED BY <2>6, <2>7
<1>10. ASSUME NEW v \in g.nodes, NEW w \in Around(g, v)
       PROVE  {<< v, w >>, << w, v >>} \cap EdgesOf(sets) # {}
  <2>1. CASE v \in R
    BY <1>8, <2>1
  <2>2. CASE v \in ToSet(b) /\ w \notin R
    BY <1>9, <2>2
  <2>3. CASE w \in R
    <3>1. v \in Around(g, w)
      BY AroundEntry
    <3> QED BY <1>8, <2>3, <3>1
  <2> QED BY <1>4, <2>1, <2>2, <2>3
<1> QED BY <1>1, <1>6, <1>7, <1>10

(* The second invariant: p are the sets found so far, R their nodes.       *)
PartsOf(p, R) ==
  /\ Valid(E, base, s, R, s.contour)
  /\ Parts(E, s.contour, p, R, BackTo(extFace, vLeft, vRight))
  /\ partition = IF done THEN WithContour(base, p) ELSE p

PartsInv == IsConnected(E) /\ \E p, R : PartsOf(p, R)

LEMMA PartsInit ==
  ASSUME Init
  PROVE  PartsInv
<1> DEFINE c == BackTo(extFace, vLeft, vRight)
<1>1. E \in Embeddings /\ base \in getBaseChain /\ partition = << >> /\ done = FALSE
  BY DEF Init
<1>2. s = initPossibles(NewComputeBicOrder)
  BY DEF Init
<1>3. IsEmbedding(E) /\ IsConnected(E)
  BY <1>1, EmbeddingAssumption
<1>4. BaseShape(E, base)
  BY <1>1, <1>3, BaseChainShape
<1>5. Valid(E, base, s, {}, c)
  BY <1>2, <1>3, <1>4, StartIsValid
<1> HIDE DEF c
<1>6. s.contour = c /\ c \in Path(E.nodes) /\ Len(c) >= 2
  BY <1>5 DEF Valid, ContourShape
<1>7. Parts(E, c, << >>, {}, c)
  BY <1>6, PartsStart
<1>8. PartsOf(<< >>, {})
  BY <1>1, <1>5, <1>6, <1>7 DEF PartsOf, c
<1> QED BY <1>3, <1>8 DEF PartsInv

LEMMA FinalStays ==
  ASSUME E' = E, base' = base
  PROVE  BackTo(extFace, vLeft, vRight)' = BackTo(extFace, vLeft, vRight)
  BY DEF BackTo, Back, vLeft, vRight

LEMMA PartsFound ==
  ASSUME ShellingInv, PartsInv, ~ done, NEW set, NEW u, Takes(set, u)
  PROVE  PartsInv'
<1> DEFINE N == ToSet(set.nodes)
           c == s.contour
           final == BackTo(extFace, vLeft, vRight)
<1>1. PICK p, R : PartsOf(p, R)
  BY DEF PartsInv
<1>2. Valid(E, base, s, R, c) /\ Parts(E, c, p, R, final) /\ partition = p
  BY <1>1 DEF PartsOf
<1>3. R = Removed
  BY <1>2 DEF Parts, Removed, NodesIn
<1>4. /\ set \in SetsOf(E)
      /\ \E d : Valid(E, base, u, Removed \cup N, d) /\ PutBack(E, c, Removed, set, d)
  BY DEF Takes, Taken, SetsOf
<1>5. PICK d : Valid(E, base, u, Removed \cup N, d) /\ PutBack(E, c, Removed, set, d)
  BY <1>4
<1>6. ContourShape(E, base, c, R) /\ ContourShape(E, base, d, R \cup N) /\ u.contour = d
  BY <1>2, <1>3, <1>5 DEF Valid
<1>7. IsEmbedding(E) /\ IsConnected(E)
  BY DEF ShellingInv, PartsInv
<1> HIDE DEF c, final
<1>8. Parts(E, d, << set >> \o p, R \cup N, final)
  BY <1>2, <1>3, <1>4, <1>5, <1>6, <1>7, PartsGrow
<1>9. E' = E /\ base' = base /\ done' = done /\ s' = u /\ partition' = << set >> \o partition
  BY DEF Takes
<1>10. final' = final
  BY <1>9, FinalStays DEF final
<1> HIDE DEF N
<1>11. PartsOf(<< set >> \o p, R \cup N)'
  <2>1. Valid(E', base', s', R \cup N, s'.contour)
    BY <1>3, <1>5, <1>6, <1>9
  <2>2. Parts(E', s'.contour, << set >> \o p, R \cup N, final')
    BY <1>6, <1>8, <1>9, <1>10
  <2>3. partition' = IF done' THEN WithContour(base', << set >> \o p) ELSE << set >> \o p
    BY <1>2, <1>9
  <2> QED BY <2>1, <2>2, <2>3 DEF PartsOf, final
<1> QED BY <1>7, <1>9, <1>11 DEF PartsInv

LEMMA PartsNext ==
  ASSUME ShellingInv, PartsInv, NoVirtualEdge', [Next]_vars
  PROVE  PartsInv'
<1> DEFINE final == BackTo(extFace, vLeft, vRight)
<1>1. CASE NextFace \/ NextNode
  <2>1. ~ done /\ \E set, u : Takes(set, u)
    BY <1>1, NextTakes
  <2> QED BY <2>1, PartsFound
<1>2. PICK p, R : PartsOf(p, R)
  BY DEF PartsInv
<1>3. Valid(E, base, s, R, s.contour) /\ Parts(E, s.contour, p, R, final)
  BY <1>2 DEF PartsOf
<1>4. partition = IF done THEN WithContour(base, p) ELSE p
  BY <1>2 DEF PartsOf
<1>5. ~ NextVirt
  <2>1. EdgesUnmarked(s)
    BY <1>3 DEF Valid
  <2>2. s.possE = {}
    BY <2>1 DEF EdgesUnmarked
  <2> QED BY <2>2 DEF NextVirt
<1>6. CASE Finish
  <2>1. /\ ~ done /\ partition' = << Set(base, None, None) >> \o partition
        /\ done' = TRUE /\ UNCHANGED << E, base, s >>
    BY <1>6 DEF Finish
  <2>2. final' = final
    BY <2>1, FinalStays
  <2>3. partition' = WithContour(base, p)
    BY <1>4, <2>1 DEF WithContour
  <2> HIDE DEF final
  <2>4. PartsOf(p, R)'
    BY <1>3, <2>1, <2>2, <2>3 DEF PartsOf, final
  <2> QED BY <2>1, <2>4 DEF PartsInv
<1>7. CASE UNCHANGED vars
  <2>1. E' = E /\ base' = base /\ s' = s /\ partition' = partition /\ done' = done
    BY <1>7 DEF vars
  <2>2. final' = final
    BY <2>1, FinalStays
  <2> HIDE DEF final
  <2>3. PartsOf(p, R)'
    BY <1>3, <1>4, <2>1, <2>2 DEF PartsOf, final
  <2> QED BY <2>1, <2>3 DEF PartsInv
<1> QED BY <1>1, <1>5, <1>6, <1>7 DEF Next

LEMMA InvPartition ==
  ASSUME ShellingInv, PartsInv, done, s.contour = base
  PROVE  PartitionIsShelling
<1> DEFINE final == BackTo(extFace, vLeft, vRight)
<1>1. IsEmbedding(E) /\ BaseShape(E, base) /\ IsConnected(E)
  BY DEF ShellingInv, PartsInv
<1>2. PICK p, R : PartsOf(p, R)
  BY DEF PartsInv
<1>3. Valid(E, base, s, R, base) /\ Parts(E, base, p, R, final) /\ partition = WithContour(base, p)
  BY <1>2 DEF PartsOf
<1>4. ContourShape(E, base, base, R)
  BY <1>3 DEF Valid
<1> HIDE DEF final
<1>5. /\ \A v \in E.nodes : Cardinality({i \in DOMAIN partition : Contains(partition[i].nodes, v)}) = 1
      /\ \A i \in 2..Len(partition) :
           partition[i].nodes # << >> /\ OnContour(Contours(partition)[i - 1], partition[i])
      /\ \A v \in E.nodes : \A w \in Around(E, v) : {<< v, w >>, << w, v >>} \cap EdgesOf(partition) # {}
      /\ Contour(partition) = final
  BY <1>1, <1>3, <1>4, BaseCompletes
<1>6. \A v \in E.nodes : Neighbours(v) = Around(E, v)
  BY DEF Neighbours, Around, Nodes
<1> QED BY <1>5, <1>6 DEF PartitionIsShelling, Nodes, final

-----------------------------------------------------------------------------
(***************************************************************************)
(* What the invariant says of the properties of the module.                *)
(***************************************************************************)
LEMMA EndsAre ==
  ASSUME BaseShape(E, base), NEW c, NEW R, ContourShape(E, base, c, R)
  PROVE  /\ base \in Seq(E.nodes) /\ c \in Seq(E.nodes) /\ IsInjective(c)
         /\ Head(c) = vLeft /\ Last(c) = vRight
<1>1. base \in Path(E.nodes) /\ Len(base) >= 2
  BY DEF BaseShape
<1>2. c \in Path(E.nodes) /\ Len(c) >= 2 /\ c[1] = base[1] /\ c[Len(c)] = base[Len(base)]
  BY DEF ContourShape
<1>3. base \in Seq(E.nodes) /\ c \in Seq(E.nodes)
  BY <1>1, <1>2, PathIndices
<1>4. Head(base) = base[1] /\ Head(c) = c[1]
  BY <1>1, <1>2, <1>3
<1>5. Last(base) = base[Len(base)] /\ Last(c) = c[Len(c)]
  BY DEF Last
<1>6. IsInjective(c)
  BY <1>2, PathIndices DEF IsInjective
<1> QED BY <1>2, <1>3, <1>4, <1>5, <1>6 DEF vLeft, vRight

LEMMA InvTypeOK ==
  ASSUME ShellingInv
  PROVE  TypeOK
<1>1. /\ BaseShape(E, base) /\ done \in BOOLEAN /\ partition \in Seq(SetsOf(E))
      /\ s.updF = {} /\ s.updV = {} /\ \E R : ValidFor(R)
  BY DEF ShellingInv
<1>2. PICK R : ValidFor(R)
  BY <1>1
<1>3. ContourShape(E, base, s.contour, R)
  BY <1>2 DEF ValidFor, Valid
<1>4. /\ base \in Seq(E.nodes) /\ s.contour \in Seq(E.nodes) /\ IsInjective(s.contour)
      /\ Head(s.contour) = vLeft /\ Last(s.contour) = vRight
  BY <1>1, <1>3, EndsAre
<1>5. partition \in Seq([nodes : Seq(Nodes), left : Nodes \cup {None}, right : Nodes \cup {None}])
  BY <1>1 DEF SetsOf, Nodes
<1> QED BY <1>1, <1>4, <1>5 DEF TypeOK, Nodes

LEMMA InvNoDanglingLink ==
  ASSUME ShellingInv
  PROVE  NoDanglingLink
<1>1. PICK R : ValidFor(R)
  BY DEF ShellingInv
<1> QED BY <1>1 DEF ValidFor, Valid, EdgesUnmarked, NoDanglingLink

LEMMA InvChainFitsArray ==
  ASSUME ShellingInv
  PROVE  ChainFitsArray
<1>1. IsEmbedding(E) /\ s.updF = {} /\ \E R : ValidFor(R)
  BY DEF ShellingInv
<1>2. PICK R : ValidFor(R)
  BY <1>1
<1>3. Valid(E, base, s, R, s.contour)
  BY <1>2 DEF ValidFor
<1>4. ASSUME NEW f \in s.possF PROVE Fits(s, f)
  BY <1>1, <1>3, PossFits
<1> QED BY <1>4 DEF Fits, ChainFitsArray

LEMMA LeftIs ==
  ASSUME NEW c, Linked(E, s, c, Removed), s.contour = c
  PROVE  /\ Left = Whole(E, Removed)
         /\ \A f \in DOMAIN E.faces : ~ cutv(s, f)
         /\ \A f \in DOMAIN E.faces : ToSet(c) \subseteq E.nodes =>
              OnContourOf(f) = ToSet(c) \cap OnFace(E, f)
<1>1. \A f \in DOMAIN E.faces : s.virtSrc[f] = None
  BY DEF Linked
<1>2. \A f \in DOMAIN E.faces : ~ cutv(s, f)
  BY <1>1 DEF cutv
<1>3. Left = Whole(E, Removed)
  BY <1>2 DEF Left, Whole, Faces, OnFace
<1>4. \A v \in E.nodes, f \in DOMAIN E.faces : << v, f >> \in s.inF <=> v \in OnFace(E, f)
  BY DEF Linked
<1>5. ASSUME NEW f \in DOMAIN E.faces, ToSet(c) \subseteq E.nodes
      PROVE  OnContourOf(f) = ToSet(c) \cap OnFace(E, f)
  BY <1>4, <1>5 DEF OnContourOf
<1> QED BY <1>2, <1>3, <1>5

LEMMA ValidFaces ==
  ASSUME IsEmbedding(E), BaseShape(E, base), Valid(E, base, s, Removed, s.contour), s.updF = {}
  PROVE  FaceCountersTrue
<1> DEFINE c == s.contour
           R == Removed
<1>1. /\ ContourShape(E, base, c, R) /\ Linked(E, s, c, R)
      /\ Counted(E, base, s, R, c) /\ FacesMarked(E, s, R)
  BY DEF Valid
<1>2. c \in Path(E.nodes)
  BY <1>1 DEF ContourShape
<1>3. ToSet(c) \subseteq E.nodes /\ \A i \in 1..Len(c) : c[i] \in ToSet(c)
  BY <1>2, PathIndices
<1>4. Len(c) \in Nat
  BY <1>2, PathIndices
<1>5. /\ Left = Whole(E, R)
      /\ \A f \in DOMAIN E.faces : OnContourOf(f) = ToSet(c) \cap OnFace(E, f)
  BY <1>1, <1>3, LeftIs
<1>6. FaceCounts(E, s, R, c)
  BY <1>1 DEF Counted
<1> HIDE DEF c, R
<1>7. ASSUME NEW f \in Left
      PROVE  /\ s.outv[f] = Cardinality(OnContourOf(f))
             /\ s.oute[f] = Cardinality({i \in Pairs : rightOf(s, s.contour[i]) = f})
             /\ s.seqp[f] = Cardinality({i \in Pairs :
                               {s.contour[i], s.contour[i + 1]} \subseteq OnContourOf(f)})
             /\ \A v \in Nodes : s.outer[f][v] = IF v \in OnContourOf(f) THEN 1 ELSE 0
             /\ f \in s.isSf <=> s.outv[f] > s.seqp[f] + 1
  <2>1. f \in Whole(E, R) /\ f \in DOMAIN E.faces
    BY <1>5, <1>7 DEF Whole
  <2>2. OnContourOf(f) = ToSet(c) \cap OnFace(E, f)
    BY <1>5, <2>1
  <2>3. /\ s.outv[f] = Cardinality(ToSet(c) \cap OnFace(E, f))
        /\ s.oute[f] = Cardinality(RightPairs(E, c, f))
        /\ s.seqp[f] = Cardinality(FacePairs(E, c, f))
        /\ \A v \in E.nodes : s.outer[f][v] = IF v \in ToSet(c) /\ v \in OnFace(E, f) THEN 1 ELSE 0
    BY <1>6, <2>1 DEF FaceCounts
  <2>4. Pairs = 1..(Len(c) - 1)
    BY DEF Pairs, c
  <2>5. {i \in Pairs : rightOf(s, s.contour[i]) = f} = RightPairs(E, c, f)
    <3>1. ASSUME NEW i \in 1..(Len(c) - 1)
          PROVE  rightOf(s, c[i]) = f <=> Entry(E, c[i], c[i + 1], f)
      <4>1. Entry(E, c[i], c[i + 1], rightOf(s, c[i]))
        BY <1>1, RightOfIs
      <4> QED BY <4>1 DEF Entry
    <3>2. {i \in 1..(Len(c) - 1) : rightOf(s, c[i]) = f} = RightPairs(E, c, f)
      BY <3>1 DEF RightPairs
    <3> QED BY <2>4, <3>2 DEF c
  <2>6. {i \in Pairs : {s.contour[i], s.contour[i + 1]} \subseteq OnContourOf(f)} = FacePairs(E, c, f)
    <3>1. ASSUME NEW i \in 1..(Len(c) - 1)
          PROVE  {c[i], c[i + 1]} \subseteq OnContourOf(f) <=> c[i] \in OnFace(E, f) /\ c[i + 1] \in OnFace(E, f)
      <4>1. i \in 1..Len(c) /\ i + 1 \in 1..Len(c)
        BY <1>4
      <4>2. c[i] \in ToSet(c) /\ c[i + 1] \in ToSet(c)
        BY <1>3, <4>1
      <4> QED BY <2>2, <4>2
    <3>2. {i \in 1..(Len(c) - 1) : {c[i], c[i + 1]} \subseteq OnContourOf(f)} = FacePairs(E, c, f)
      BY <3>1 DEF FacePairs
    <3> QED BY <2>4, <3>2 DEF c
  <2>7. \A v \in Nodes : s.outer[f][v] = IF v \in OnContourOf(f) THEN 1 ELSE 0
    BY <2>2, <2>3 DEF Nodes
  <2>8. f \in s.isSf <=> s.outv[f] > s.seqp[f] + 1
    BY <1>1, <2>1 DEF FacesMarked, SepFace
  <2> QED BY <2>2, <2>3, <2>5, <2>6, <2>7, <2>8
<1> QED BY <1>7 DEF FaceCountersTrue

LEMMA ValidNodes ==
  ASSUME IsEmbedding(E), BaseShape(E, base), Valid(E, base, s, Removed, s.contour)
  PROVE  NodeCountersTrue
<1> DEFINE c == s.contour
           R == Removed
<1>1. ContourShape(E, base, c, R) /\ Linked(E, s, c, R) /\ Counted(E, base, s, R, c)
  BY DEF Valid
<1>2. c \in Path(E.nodes) /\ R \cap ToSet(c) = {}
  BY <1>1 DEF ContourShape
<1>3. ToSet(c) \subseteq E.nodes
  BY <1>2, PathIndices
<1>4. /\ Left = Whole(E, R) /\ \A f \in DOMAIN E.faces : ~ cutv(s, f)
      /\ \A f \in DOMAIN E.faces : OnContourOf(f) = ToSet(c) \cap OnFace(E, f)
  BY <1>1, <1>3, LeftIs
<1>5. /\ \A v \in E.nodes \ R : s.deg[v] = Cardinality(Around(E, v) \ R)
      /\ \A v \in E.nodes : s.cutf[v] = 0
      /\ \A f \in DOMAIN E.faces : s.virtSrc[f] = None
      /\ s.virt = {}
  BY <1>1 DEF Linked
<1>6. s.isSf \subseteq Whole(E, R) /\ \A v \in E.nodes \ R : s.numsf[v] = Cardinality(SepOf(E, s, c, v))
  BY <1>1 DEF Counted, SepCounts
<1>7. Whole(E, R) \subseteq DOMAIN E.faces
  BY DEF Whole
<1>8. Cardinality({}) = 0
  BY FS_EmptySet
<1>9. E.nodes \subseteq Nat \ {0}
  BY AroundNodes
<1> HIDE DEF c, R
<1>10. ASSUME NEW v \in Inner
       PROVE  /\ s.deg[v] = Cardinality(Neighbours(v) \ Removed) + virte(s, v)
              /\ s.cutf[v] = Cardinality({f \in Left : cutv(s, f) /\ v \in OnContourOf(f)})
              /\ s.numsf[v] = Cardinality({f \in Left \cap s.isSf : v \in OnContourOf(f)})
  <2>1. v \in ToSet(c) /\ v \in E.nodes \ R
    BY <1>2, <1>3, <1>10 DEF Inner, c
  <2>2. virte(s, v) = 0
    BY <1>1, PossNodeIs
  <2>3. s.deg[v] = Cardinality(Neighbours(v) \ Removed) + virte(s, v)
    <3>1. Neighbours(v) = Around(E, v)
      BY DEF Neighbours, Around, Nodes
    <3>2. IsFiniteSet(Around(E, v))
      BY AroundNodes
    <3>3. Cardinality(Around(E, v) \ R) \in Nat
      <4>1. (Around(E, v) \ R) \in SUBSET Around(E, v)
        OBVIOUS
      <4> QED BY <3>2, <4>1, CountSubset
    <3>4. s.deg[v] = Cardinality(Around(E, v) \ R)
      BY <1>5, <2>1
    <3> QED BY <2>2, <3>1, <3>3, <3>4 DEF R
  <2>4. {f \in Left : cutv(s, f) /\ v \in OnContourOf(f)} = {}
    BY <1>4, <1>7
  <2>5. s.cutf[v] = Cardinality({f \in Left : cutv(s, f) /\ v \in OnContourOf(f)})
    BY <1>5, <1>8, <2>1, <2>4
  <2>6. {f \in Left \cap s.isSf : v \in OnContourOf(f)} = SepOf(E, s, c, v)
    BY <1>4, <1>6, <1>7, <2>1 DEF SepOf
  <2>7. s.numsf[v] = Cardinality({f \in Left \cap s.isSf : v \in OnContourOf(f)})
    BY <1>6, <2>1, <2>6
  <2> QED BY <2>3, <2>5, <2>7
<1>11. ASSUME NEW f \in Left, NEW v \in ToSet(s.contour)
       PROVE  s.virtSrc[f] = v <=> v \in s.virt /\ rightOf(s, v) = f
  <2>1. s.virtSrc[f] = 0
    BY <1>4, <1>5, <1>7 DEF None
  <2>2. v # 0
    BY <1>3, <1>9 DEF c
  <2> QED BY <1>5, <2>1, <2>2
<1> QED BY <1>10, <1>11 DEF NodeCountersTrue

LEMMA ValidCandidates ==
  ASSUME IsEmbedding(E), BaseShape(E, base), Valid(E, base, s, Removed, s.contour),
         s.updF = {}, s.updV = {}
  PROVE  CandidatesTrue
<1> DEFINE c == s.contour
           R == Removed
<1>1. /\ ContourShape(E, base, c, R) /\ Linked(E, s, c, R)
      /\ FacesMarked(E, s, R) /\ NodesMarked(base, s, R, c) /\ EdgesUnmarked(s)
  BY DEF Valid
<1>2. c \in Path(E.nodes)
  BY <1>1 DEF ContourShape
<1>3. ToSet(c) \subseteq E.nodes
  BY <1>2, PathIndices
<1>4. Left = Whole(E, R)
  BY <1>1, LeftIs
<1> HIDE DEF c, R
<1>5. s.possF = {f \in Left : isPossFace(s, f)}
  <2>1. s.possF \subseteq Whole(E, R) /\ \A f \in Whole(E, R) : f \in s.possF <=> PossFace(s, f)
    BY <1>1 DEF FacesMarked
  <2>2. \A f \in Whole(E, R) : isPossFace(s, f) <=> PossFace(s, f)
    BY DEF isPossFace, PossFace, Whole
  <2> QED BY <1>4, <2>1, <2>2
<1>6. s.possV = {v \in ToSet(c) : isPossNode(s, v)}
  <2>1. /\ s.possV \subseteq ToSet(c) \ ToSet(base)
        /\ \A v \in ToSet(c) \ ToSet(base) : v \in s.possV <=> PossNode(s, v)
    BY <1>1 DEF NodesMarked
  <2>2. \A v \in ToSet(c) : isPossNode(s, v) <=> NodePoss(s, v)
    BY <1>1, <1>3, PossNodeIs
  <2>3. \A v : Contains(base, v) <=> v \in ToSet(base)
    <3>1. base \in Path(E.nodes)
      BY DEF BaseShape
    <3>2. DOMAIN base = 1..Len(base)
      BY <3>1, PathIndices
    <3> QED BY <3>1, <3>2, PathIndices DEF Contains
  <2>4. \A v \in ToSet(c) : isPossNode(s, v) <=> v \notin ToSet(base) /\ PossNode(s, v)
    BY <2>2, <2>3 DEF NodePoss
  <2> QED BY <2>1, <2>4
<1>7. s.possE = {v \in ToSet(c) : isPossVirt(s, v)}
  <2>1. s.possE = {} /\ s.virt = {}
    BY <1>1 DEF EdgesUnmarked, Linked
  <2> QED BY <2>1 DEF isPossVirt
<1> QED BY <1>5, <1>6, <1>7 DEF CandidatesTrue, c

LEMMA InvCounters ==
  ASSUME ShellingInv
  PROVE  FaceCountersTrue /\ NodeCountersTrue /\ CandidatesTrue
<1>1. /\ IsEmbedding(E) /\ BaseShape(E, base) /\ s.updF = {} /\ s.updV = {} /\ \E R : ValidFor(R)
  BY DEF ShellingInv
<1>2. PICK R : ValidFor(R)
  BY <1>1
<1>3. CASE done
  BY <1>3 DEF FaceCountersTrue, NodeCountersTrue, CandidatesTrue
<1>4. CASE ~ done
  <2>1. Valid(E, base, s, Removed, s.contour)
    BY <1>2, <1>4 DEF ValidFor
  <2> QED BY <1>1, <2>1, ValidFaces, ValidNodes, ValidCandidates
<1> QED BY <1>3, <1>4

-----------------------------------------------------------------------------
(***************************************************************************)
(* The theorems.                                                           *)
(***************************************************************************)
(* As long as no virtual edge is put on the contour, the invariant holds.  *)
THEOREM ShellingInvHolds == Spec /\ []NoVirtualEdge => []ShellingInv
<1>1. Init => ShellingInv
  BY StartInv
<1>2. ShellingInv /\ NoVirtualEdge' /\ [Next]_vars => ShellingInv'
  BY NextInv
<1> QED BY <1>1, <1>2, PTL DEF Spec

(* The contour stays a path from the left to the right end of the base,    *)
(* and what was marked has been updated.                                   *)
THEOREM ShellingTypeOK == Spec /\ []NoVirtualEdge => []TypeOK
<1>1. ShellingInv => TypeOK
  BY InvTypeOK
<1> QED BY <1>1, ShellingInvHolds, PTL

(* The counters of the faces, which every removal changes one by one, are  *)
(* what a count would yield, in every embedding.                           *)
THEOREM FaceCountersHold == Spec /\ []NoVirtualEdge => []FaceCountersTrue
<1>1. ShellingInv => FaceCountersTrue
  BY InvCounters
<1> QED BY <1>1, ShellingInvHolds, PTL

(* And those of the nodes.                                                 *)
THEOREM NodeCountersHold == Spec /\ []NoVirtualEdge => []NodeCountersTrue
<1>1. ShellingInv => NodeCountersTrue
  BY InvCounters
<1> QED BY <1>1, ShellingInvHolds, PTL

(* Though doUpdate looks only at what is marked, the lists of candidates   *)
(* hold exactly what may be removed.                                       *)
THEOREM CandidatesHold == Spec /\ []NoVirtualEdge => []CandidatesTrue
<1>1. ShellingInv => CandidatesTrue
  BY InvCounters
<1> QED BY <1>1, ShellingInvHolds, PTL

(* No link to an element that has left its list is used.                   *)
THEOREM NoDanglingLinkHolds == Spec /\ []NoVirtualEdge => []NoDanglingLink
<1>1. ShellingInv => NoDanglingLink
  BY InvNoDanglingLink
<1> QED BY <1>1, ShellingInvHolds, PTL

(* removeNextFace fills its array of outv(f) - 2 nodes and no more.        *)
THEOREM ChainFitsArrayHolds == Spec /\ []NoVirtualEdge => []ChainFitsArray
<1>1. ShellingInv => ChainFitsArray
  BY InvChainFitsArray
<1> QED BY <1>1, ShellingInvHolds, PTL

(* What is found when the removals have left nothing but the base is a     *)
(* shelling order of the graph: every node is in one set, each set fits on *)
(* the contour of those before it, no edge of the graph is missing, and    *)
(* the last contour is the external face.                                  *)
THEOREM PartitionShells ==
  Spec /\ []NoVirtualEdge => [](s.contour = base => PartitionIsShelling)
<1>1. Init => ShellingInv /\ PartsInv
  BY StartInv, PartsInit
<1>2. (ShellingInv /\ PartsInv) /\ NoVirtualEdge' /\ [Next]_vars => (ShellingInv /\ PartsInv)'
  BY NextInv, PartsNext
<1>3. ShellingInv /\ PartsInv => (s.contour = base => PartitionIsShelling)
  <2>1. CASE done
    BY <2>1, InvPartition
  <2>2. CASE ~ done
    BY <2>2 DEF PartitionIsShelling
  <2> QED BY <2>1, <2>2
<1> QED BY <1>1, <1>2, <1>3, PTL DEF Spec

=============================================================================
