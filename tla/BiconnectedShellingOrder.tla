------------------------ MODULE BiconnectedShellingOrder ------------------------
(***************************************************************************)
(* BiconnectedShellingOrder::doCall and class ComputeBicOrder              *)
(* (src/lib/ogdf/src/ogdf/planarlayout/BiconnectedShellingOrder.cpp): the  *)
(* partition of the nodes of a biconnected plane graph, found by peeling   *)
(* faces, nodes and virtual edges off its contour.  Which of them may be   *)
(* peeled is told by counters that every removal updates.                  *)
(*                                                                         *)
(* An embedding is the sequence of its faces, a face the cycle of its      *)
(* nodes in the order of faceCycleSucc; the adjacency entry from v to w    *)
(* belongs to its right face.  Everything ComputeBicOrder keeps is the     *)
(* record s:                                                               *)
(*                                                                         *)
(*   contour             c_1, ..., c_q (m_next, m_prev)                    *)
(*   nextSucc, prevPred  the other ends of m_nextSucc and m_prevPred       *)
(*   virt                the c_i with a virtual edge to c_i+1              *)
(*   deg, cutf, numsf, onOuter             of the nodes                    *)
(*   outv, oute, seqp, virtSrc, isSf       of the faces                    *)
(*   outer               how often m_outerNodes[f] lists v                 *)
(*   inF                 the pairs << v, f >> with "v in F"                *)
(*   updF, updV          what is marked to be updated                      *)
(*   possF, possV, possE the lists of candidates, in any order             *)
(*   fLink, vLink, eLink whose link into its list is not nil               *)
(*   dangling            a link to an element that left its list was used  *)
(***************************************************************************)
EXTENDS ShellingSets

CONSTANT Embeddings   \* the graphs, each with its external face first

(* What an embedding is: a finite graph without loops, the entries of      *)
(* every edge on the cycles of its two right faces, every node at most     *)
(* once on a face, and the entries of a node in one cycle around it.       *)
Follows(face) == {<< face[i], face[(i % Len(face)) + 1] >> : i \in DOMAIN face}

IsEmbedding(e) ==
  /\ IsFiniteSet(e.nodes) /\ e.nodes \subseteq Nat \ {0}
  /\ e.faces \in Seq(Seq(e.nodes)) /\ e.faces # << >>
  /\ \A f \in DOMAIN e.faces : IsInjective(e.faces[f]) /\ Len(e.faces[f]) >= 3
  /\ DOMAIN e.rightFace = UNION {Follows(e.faces[f]) : f \in DOMAIN e.faces}
  /\ \A f \in DOMAIN e.faces : \A vw \in Follows(e.faces[f]) :
       e.rightFace[vw] = f /\ << vw[2], vw[1] >> \in DOMAIN e.rightFace
  /\ \A v \in e.nodes :
       LET around == {w \in e.nodes : << v, w >> \in DOMAIN e.rightFace} IN
       \A some \in (SUBSET around) \ {{}, around} :
         \E w \in some, x \in around \ some :
           e.rightFace[<< v, x >>] = e.rightFace[<< w, v >>]

(* Its graph is in one piece, as a biconnected graph is.                   *)
IsConnected(e) ==
  \A some \in (SUBSET e.nodes) \ {{}, e.nodes} :
    \E v \in some, w \in e.nodes \ some : << v, w >> \in DOMAIN e.rightFace

ASSUME EmbeddingAssumption == \A e \in Embeddings : IsEmbedding(e) /\ IsConnected(e)

VARIABLES
  E,           \* the embedding
  base,        \* z_1, ..., z_p
  s,           \* the ComputeBicOrder
  partition,   \* the sets found, the last one first
  done

vars == << E, base, s, partition, done >>

None == 0
extFace == 1
Faces == DOMAIN E.faces
Nodes == E.nodes
vLeft == Head(base)
vRight == Last(base)

-----------------------------------------------------------------------------
(***************************************************************************)
(* The embedding.                                                          *)
(***************************************************************************)
Succ(f, v) == E.faces[f][(At(E.faces[f], v) % Len(E.faces[f])) + 1]
Pred(f, v) == E.faces[f][((At(E.faces[f], v) + Len(E.faces[f]) - 2) % Len(E.faces[f])) + 1]

right(v, w) == E.rightFace[<< v, w >>]
left(v, w) == right(w, v)
cyclicPred(v, w) == Succ(right(w, v), v)
cyclicSucc(v, w) == Pred(right(v, w), v)

Neighbours(v) == {w \in Nodes : << v, w >> \in DOMAIN E.rightFace}

(* The nodes of a face from v on against its cycle.                        *)
Back(f, v) ==
  LET n == Len(E.faces[f]) IN [i \in 1..n |-> E.faces[f][((At(E.faces[f], v) + n - i) % n) + 1]]

(* The same up to w.                                                       *)
BackTo(f, v, w) == SubSeq(Back(f, v), 1, At(Back(f, v), w))

-----------------------------------------------------------------------------
(***************************************************************************)
(* The contour.                                                            *)
(***************************************************************************)
next(t, v) == t.contour[At(t.contour, v) + 1]
prev(t, v) == t.contour[At(t.contour, v) - 1]

(* The faces to the right of c_i -> c_i+1 and to the left of c_i -> c_i-1. *)
rightOf(t, v) == left(v, t.nextSucc[v])
leftOf(t, v) == right(v, t.prevPred[v])

cutv(t, f) == t.virtSrc[f] # None

virte(t, v) ==
  Cardinality({u \in t.virt : u = v \/ (v # vLeft /\ u = prev(t, v))})

(* Faults: a face with an edge in the middle off the contour is possible;  *)
(* a node is whose face is cut by an edge that is not at the node.         *)
AnyFace(t, f) == f # extFace /\ t.outv[f] >= 3 /\ t.oute[f] >= 2
OnCutFace(t, v) ==
  ~ Contains(base, v) /\ t.cutf[v] <= 1 /\ t.numsf[v] = 0 /\ t.deg[v] >= 3

isPossFace(t, f) ==
  f # extFace /\ t.outv[f] >= 3 /\ t.outv[f] = t.oute[f] + 1

isPossNode(t, v) ==
  /\ ~ Contains(base, v)
  /\ t.cutf[v] <= 1
  /\ t.cutf[v] = virte(t, v)
  /\ t.numsf[v] = 0
  /\ t.deg[v] >= 3

isPossVirt(t, v) ==
  /\ v \in t.virt
  /\ \/ t.deg[v] = 2 /\ v # vLeft
     \/ t.deg[next(t, v)] = 2 /\ next(t, v) # vRight

(* edgeToContour for every edge of a path.                                 *)
EdgesToContour(t, path) ==
  LET on(v) == At(path, v) IN
  [t EXCEPT
    !.nextSucc = [v \in Nodes |-> IF Contains(Front(path), v)
                                  THEN cyclicSucc(v, path[on(v) + 1]) ELSE @[v]],
    !.prevPred = [v \in Nodes |-> IF Contains(Tail(path), v)
                                  THEN cyclicPred(v, path[on(v) - 1]) ELSE @[v]],
    !.virt = @ \ ToSet(Front(path))]

(* Fault: the left node is put on the contour again.                       *)
ReplaceTwice(t, path) ==
  [t EXCEPT !.contour =
    SubSeq(@, 1, At(@, Head(path))) \o path
      \o SubSeq(@, At(@, Last(path)) + 1, Len(@))]

(* The part of the contour from cl to cr becomes path.                     *)
Replace(t, path) ==
  [t EXCEPT !.contour =
    SubSeq(@, 1, At(@, Head(path))) \o Tail(path)
      \o SubSeq(@, At(@, Last(path)) + 1, Len(@))]

-----------------------------------------------------------------------------
(***************************************************************************)
(* getAdjFaces, getAdjNodes: what a contour node v has inside the contour. *)
(***************************************************************************)
adjStart(t, v) ==
  IF v # vRight THEN t.nextSucc[v] ELSE cyclicSucc(v, base[Len(base) - 1])
adjEnd(t, v) == IF v # vLeft THEN t.prevPred[v] ELSE cyclicPred(v, base[2])

(* The other ends of the entries of v from adjEnd to adjStart.             *)
Fan(t, v) ==
  LET turn[n \in 0..Cardinality(Nodes)] ==
        IF n = 0 THEN adjEnd(t, v) ELSE cyclicPred(v, turn[n - 1])
      last == Min({n \in 0..Cardinality(Nodes) : turn[n] = adjStart(t, v)})
  IN [i \in 1..(last + 1) |-> turn[i - 1]]

getAdjFaces(t, v) ==
  LET first == left(v, adjStart(t, v)) IN
  IF t.deg[v] <= 1 THEN << >>
  ELSE (IF first = extFace THEN << >> ELSE << first >>)
       \o IF t.deg[v] < 3 THEN << >>
          ELSE [i \in DOMAIN Fan(t, v) |-> right(v, Fan(t, v)[i])]

getAdjNodes(t, v) == << prev(t, v) >> \o Fan(t, v) \o << next(t, v) >>

(* Every face of every node of a path lists the node; the node counts the  *)
(* face when it is cut or separates.                                       *)
setOutv(t, nodes) ==
  LET adj == [i \in DOMAIN nodes |-> getAdjFaces(t, nodes[i])]
      met == UNION {{<< nodes[i], adj[i][j], i, j >> : j \in DOMAIN adj[i]} : i \in DOMAIN nodes}
      times(vs, fs) == Cardinality({m \in met : m[1] \in vs /\ m[2] \in fs})
      cut == {f \in Faces : cutv(t, f)}
  IN [t EXCEPT
       !.outv = [f \in Faces |-> @[f] + times(Nodes, {f})],
       !.outer = [f \in Faces |-> [v \in Nodes |-> @[f][v] + times({v}, {f})]],
       !.cutf = [v \in Nodes |-> @[v] + times({v}, cut)],
       !.numsf = [v \in Nodes |-> @[v] + times({v}, t.isSf)],
       !.updF = @ \cup {m[2] : m \in met},
       !.updV = @ \cup {m[1] : m \in {m \in met : m[2] \in cut \cup t.isSf}}]

(* The faces of the pair c_i, c_i+1, looked for at the node of lower degree. *)
setSeqp(t, path) ==
  LET small(i) == IF t.deg[path[i]] < t.deg[path[i + 1]] THEN path[i] ELSE path[i + 1]
      big(i) == IF small(i) = path[i] THEN path[i + 1] ELSE path[i]
      adj == [i \in 1..(Len(path) - 1) |-> getAdjFaces(t, small(i))]
      met == UNION {{<< adj[i][j], i, j >> : j \in {j \in DOMAIN adj[i] : << big(i), adj[i][j] >> \in t.inF}}
                      : i \in DOMAIN adj}
  IN [t EXCEPT
       !.seqp = [f \in Faces |-> @[f] + Cardinality({m \in met : m[1] = f})],
       !.updF = @ \cup {m[1] : m \in met}]

(* The new edges on the contour count for the faces below them.            *)
setOute(t, path) ==
  LET below == [i \in 1..(Len(path) - 1) |-> rightOf(t, path[i])]
  IN [t EXCEPT
       !.oute = [f \in Faces |-> @[f] + Cardinality({i \in DOMAIN below : below[i] = f})],
       !.updF = @ \cup ToSet(below)]

(* Fault: the left node, which was on the contour already, is counted anew. *)
CountPathAgain(t, path) == setOutv(setOute(t, path), Front(path))

(* The new nodes count for all their faces.                                *)
CountPath(t, path) == setOutv(setOute(t, path), Tail(Front(path)))

-----------------------------------------------------------------------------
(***************************************************************************)
(* Removals.  Each yields the set that is put on the partition and the     *)
(* state before doUpdate.                                                  *)
(***************************************************************************)
Set(nodes, cl, cr) == [nodes |-> nodes, left |-> cl, right |-> cr]

(* The chain of nodes of degree two around the contour edge from v.        *)
ChainLeft(t, v) ==
  t.contour[Max({i \in 1..At(t.contour, v) :
                   i = 1 \/ t.deg[t.contour[i]] # 2})]
ChainRight(t, v) ==
  t.contour[Min({i \in (At(t.contour, v) + 1)..Len(t.contour) :
                   i = Len(t.contour) \/ t.deg[t.contour[i]] # 2})]
Between(t, cl, cr) ==
  SubSeq(t.contour, At(t.contour, cl) + 1, At(t.contour, cr) - 1)

getFaceCl(t, f) ==
  IF cutv(t, f) THEN {ChainLeft(t, t.virtSrc[f])}
  ELSE {ChainLeft(t, v) : v \in {v \in ToSet(E.faces[f]) \cap t.onOuter : t.deg[v] = 2}}

PathToContour(t, path) == setSeqp(CountPath(Replace(t, path), path), path)

TakeFace(f, cl, cr, path, src) ==
  LET cut == src # None
      unlinks == cut /\ src # cr
      taken == [s EXCEPT
        !.cutf[cl] = IF cut THEN @ - 1 ELSE @, !.cutf[cr] = IF cut THEN @ - 1 ELSE @,
        !.possE = IF unlinks THEN @ \ {src} ELSE @,
        !.eLink = IF unlinks THEN @ \ {src} ELSE @,
        !.dangling = @ \/ (unlinks /\ src \notin s.eLink),
        !.onOuter = @ \cup ToSet(path),
        !.deg[cl] = @ - 1, !.deg[cr] = @ - 1,
        !.updV = @ \cup ToSet(path)]
  IN [PathToContour(EdgesToContour(taken, path), path) EXCEPT
        !.virtSrc[f] = None, !.outer[f] = [v \in Nodes |-> 0]]

removeNextFace(f, cl) ==
  LET cr == ChainRight(s, cl)
      path == BackTo(rightOf(s, cl), cl, cr)
  IN << Set(Between(s, cl, cr), cl, cr), TakeFace(f, cl, cr, path, s.virtSrc[f]) >>

(***************************************************************************)
(* removeNextNode: between two neighbours w1 and w of the node the contour *)
(* follows the face below it, up to w or, when it meets what is on the     *)
(* outside already, up to there and by a virtual edge to w.                *)
(***************************************************************************)
WalkFace(t, v, f, walk, w, steps) ==
  LET leaves == Head(walk) = prev(s, v) /\ steps > 1 IN
  [EdgesToContour(t, walk) EXCEPT
    !.onOuter = @ \cup ToSet(walk),
    !.updV = @ \cup (ToSet(walk) \ {Head(walk), w}),
    !.outer[f][Head(walk)] = IF leaves /\ @ > 0 THEN @ - 1 ELSE @,
    !.outv[f] = IF leaves THEN @ - 1 ELSE @]

CutFace(t, v, f, walk, w, met, fVirt, potF) ==
  LET last == Last(walk) IN
  [t EXCEPT
    !.inF = @ \ {<< u, f >> : u \in ToSet(Front(walk))},
    !.seqp[f] = IF f = potF /\ last # prev(s, v) THEN @ - 1 ELSE @,
    !.nextSucc[last] = met,
    !.prevPred[w] = IF w = next(s, v) THEN @ ELSE cyclicPred(w, v),
    !.virt = @ \cup {last},
    !.deg[last] = @ + 1, !.deg[w] = @ + 1,
    !.cutf = IF f = fVirt THEN @ ELSE [u \in Nodes |-> @[u] + t.outer[f][u]],
    !.virtSrc[f] = last,
    !.updF = @ \cup {f},
    !.updV = @ \cup {last, w}
               \cup IF f = fVirt THEN {} ELSE {u \in Nodes : t.outer[f][u] > 0}]

FollowFace(t, v, f, back, w, fVirt, potF) ==
  LET k == Min({i \in 2..Len(back) : back[i] = w \/ back[i] \in t.onOuter})
      walk(n) == SubSeq(back, 1, n)
      stepped(n) == WalkFace(t, v, f, walk(n), w, k - 1)
  IN IF back[k] = w
     THEN << walk(k), [stepped(k) EXCEPT !.outer[f] = [u \in Nodes |-> 0]] >>
     ELSE << Append(walk(k - 1), w),
             CutFace(stepped(k - 1), v, f, walk(k - 1), w, back[k], fVirt, potF) >>

(* v leaves the contour; its faces are adjFaces, its neighbours adjNodes.  *)
TakeNode(v, adjFaces, adjNodes) ==
  LET cl == prev(s, v)
      cr == next(s, v)
      seqpOf(f) == Cardinality({u \in {cl, cr} : << u, f >> \in s.inF})
      times(f) == Cardinality({i \in DOMAIN adjFaces : adjFaces[i] = f})
      edgesOf(f) == (IF f = leftOf(s, v) THEN 1 ELSE 0) + (IF f = rightOf(s, v) THEN 1 ELSE 0)
  IN [s EXCEPT
       !.virt = @ \ {cl},
       !.virtSrc = [f \in Faces |->
         IF (cl \in s.virt /\ f = leftOf(s, v)) \/ (v \in s.virt /\ f = rightOf(s, v))
         THEN None ELSE @[f]],
       !.possE = @ \ ({v} \cap s.virt),
       !.eLink = @ \ ({v} \cap s.virt),
       !.outv = [f \in Faces |-> @[f] - times(f)],
       !.outer = [f \in Faces |-> [@[f] EXCEPT ![v] = 0]],
       !.oute = [f \in Faces |-> @[f] - edgesOf(f)],
       !.seqp = [f \in Faces |-> @[f] - times(f) * seqpOf(f)],
       !.onOuter = @ \cup ToSet(adjNodes),
       !.deg = [u \in Nodes |-> IF Contains(adjNodes, u) THEN @[u] - 1 ELSE @[u]],
       !.updV = @ \cup ToSet(adjNodes)]

FollowFaces(v, adjNodes, fVirt) ==
  LET cl == prev(s, v)
      first == rightOf(s, cl)
      potF == IF cl # vLeft /\ << prev(s, cl), first >> \in s.inF THEN first ELSE None
      below(i) == IF i = 2 THEN first ELSE right(adjNodes[i - 1], v)
      follow(found, i) == FollowFace(found, v, below(i), Back(below(i), adjNodes[i - 1]),
                                     adjNodes[i], fVirt, potF)
      followed[i \in DOMAIN adjNodes] ==
        IF i = 1 THEN << << cl >>, TakeNode(v, getAdjFaces(s, v), adjNodes) >>
        ELSE LET more == follow(followed[i - 1][2], i)
             IN << followed[i - 1][1] \o Tail(more[1]), more[2] >>
  IN followed[Len(adjNodes)]

(* Fault: a neighbour keeps its cut face.                                  *)
KeepCut(t, v, vVirt, fVirt) == t

(* The end of a virtual edge that was at v, when its face is cut no more,  *)
(* or cut elsewhere.                                                       *)
Uncut(t, v, vVirt, fVirt) ==
  IF /\ vVirt # None
     /\ t.virtSrc[fVirt] = None \/ (vVirt = prev(s, v) /\ t.virtSrc[fVirt] # vVirt)
  THEN [t EXCEPT !.cutf[vVirt] = @ - 1, !.updV = @ \cup {vVirt}]
  ELSE t

removeNextNode(v) ==
  LET cl == prev(s, v)
      cr == next(s, v)
      vVirt == IF v \in s.virt THEN cr ELSE IF cl \in s.virt THEN cl ELSE None
      fVirt == IF v \in s.virt THEN rightOf(s, v)
               ELSE IF cl \in s.virt THEN leftOf(s, v) ELSE None
      onContour(found) == PathToContour(found[2], found[1])
  IN << Set(<< v >>, IF cl \in s.virt THEN s.prevPred[v] ELSE cl,
                     IF v \in s.virt THEN s.nextSucc[v] ELSE cr),
        Uncut(onContour(FollowFaces(v, getAdjNodes(s, v), fVirt)), v, vVirt, fVirt) >>

removeNextVirt(v) ==
  LET cl == ChainLeft(s, v)
      cr == ChainRight(s, v)
      set == Between(s, cl, cr)
      f == rightOf(s, cl)
      joined ==
        Replace([s EXCEPT
          !.virt = @ \cup {cl},
          !.virtSrc[f] = cl,
          !.outer = [g \in Faces |-> [u \in Nodes |->
                       IF Contains(set, u) THEN 0 ELSE @[g][u]]],
          !.outv[f] = @ - Len(set),
          !.oute[f] = @ - Len(set),
          !.seqp[f] = @ - Len(set) - 1,
          !.updF = @ \cup {f},
          !.updV = @ \cup {cl, cr}], << cl, cr >>)
  IN << Set(set, cl, cr), setSeqp(joined, << cl, cr >>) >>

-----------------------------------------------------------------------------
(***************************************************************************)
(* doUpdate: what is marked and may now be removed is linked into its      *)
(* list, what may not be removed any more is unlinked.                     *)
(***************************************************************************)
UpdateFaces(t) ==
  LET separating == {f \in t.updF : t.outv[f] > t.seqp[f] + 1}
      added == separating \ t.isSf
      ended == (t.updF \ separating) \cap t.isSf
      listed(v, fs) == Cardinality(UNION {{<< f, k >> : k \in 1..t.outer[f][v]} : f \in fs})
      possible == {f \in t.updF : isPossFace(t, f)}
      unlinked == (t.updF \ possible) \cap t.fLink
  IN [t EXCEPT
       !.numsf = [v \in Nodes |-> @[v] + listed(v, added) - listed(v, ended)],
       !.updV = @ \cup {v \in Nodes : \E f \in added \cup ended : t.outer[f][v] > 0},
       !.isSf = (@ \ t.updF) \cup separating,
       !.possF = (@ \ unlinked) \cup (possible \ t.fLink),
       !.fLink = (@ \ unlinked) \cup possible,
       !.dangling = @ \/ ~ unlinked \subseteq t.possF,
       !.updF = {}]

(* Fault: the edge to a marked node is not marked.                         *)
MarkedOnly(t) == t.updV

Marked(t) ==
  t.updV \cup ({prev(t, v) : v \in t.updV \ {vLeft}} \cap t.virt)

UpdateNodes(t) ==
  LET marked == Marked(t)
      nodes == {v \in marked : isPossNode(t, v)}
      edges == {v \in marked : isPossVirt(t, v)}
      unlinkedV == (marked \ nodes) \cap t.vLink
      unlinkedE == (marked \ edges) \cap t.eLink
  IN [t EXCEPT
       !.possV = (@ \ unlinkedV) \cup (nodes \ t.vLink),
       !.vLink = (@ \ unlinkedV) \cup nodes,
       !.possE = (@ \ unlinkedE) \cup (edges \ t.eLink),
       !.eLink = (@ \ unlinkedE) \cup edges,
       !.dangling = @ \/ ~ unlinkedV \subseteq t.possV \/ ~ unlinkedE \subseteq t.possE,
       !.updV = {}]

doUpdate(t) == UpdateNodes(UpdateFaces(t))

-----------------------------------------------------------------------------
(***************************************************************************)
(* BiconnectedShellingOrder::doCall.                                       *)
(***************************************************************************)
(* findMaxBaseChain, getBaseChain: a longest chain on the external face of *)
(* nodes that are joined only to their neighbours on it, cut to a third of *)
(* the face.                                                               *)
getBaseChain ==
  LET n == Len(E.faces[extFace])
      chain(i, len) == [k \in 1..len |-> E.faces[extFace][((i + k - 2) % n) + 1]]
      inner == {e \in DOMAIN E.rightFace : extFace \notin {right(e[1], e[2]), left(e[1], e[2])}}
      chains == {c \in (1..n) \X (2..(n - 1)) :
                   \A e \in inner : ~ Range(e) \subseteq Range(chain(c[1], c[2]))}
      length == Max({c[2] : c \in chains})
      cut == Max({2, Min({length, (33 * n + 50) \div 100})})
  IN {chain(i, cut) : i \in {i \in 1..n : << i, length >> \in chains}}

NewComputeBicOrder ==
  LET contour == BackTo(extFace, vLeft, vRight)
      on(f) == IF f = extFace THEN {} ELSE ToSet(contour) \cap ToSet(E.faces[f])
      pair(i) == {contour[i], contour[i + 1]}
      pairs == 1..(Len(contour) - 1)
      outv(f) == Cardinality(on(f))
      oute(f) == Cardinality({i \in pairs : left(contour[i + 1], contour[i]) = f})
      seqp(f) == Cardinality({i \in pairs : pair(i) \subseteq ToSet(E.faces[f])})
      isSf == {f \in Faces : outv(f) > seqp(f) + 1}
      new == [contour |-> contour,
              nextSucc |-> [v \in Nodes |-> None], prevPred |-> [v \in Nodes |-> None],
              virt |-> {}, deg |-> [v \in Nodes |-> Cardinality(Neighbours(v))],
              cutf |-> [v \in Nodes |-> 0],
              numsf |-> [v \in Nodes |-> Cardinality({f \in isSf : v \in on(f)})],
              onOuter |-> ToSet(contour), outv |-> [f \in Faces |-> outv(f)],
              oute |-> [f \in Faces |-> oute(f)], seqp |-> [f \in Faces |-> seqp(f)],
              virtSrc |-> [f \in Faces |-> None], isSf |-> isSf,
              outer |-> [f \in Faces |-> [v \in Nodes |-> IF v \in on(f) THEN 1 ELSE 0]],
              inF |-> {vf \in Nodes \X Faces : vf[1] \in ToSet(E.faces[vf[2]])},
              updF |-> {}, updV |-> {}, possF |-> {}, possV |-> {}, possE |-> {},
              fLink |-> {}, vLink |-> {}, eLink |-> {}, dangling |-> FALSE]
  IN EdgesToContour(new, contour)

initPossibles(t) ==
  LET faces == {f \in Faces : isPossFace(t, f)}
      nodes == {v \in ToSet(t.contour) : isPossNode(t, v)}
  IN [t EXCEPT !.possF = faces, !.fLink = faces, !.possV = nodes, !.vLink = nodes]

Init ==
  /\ E \in Embeddings
  /\ base \in getBaseChain
  /\ \E t \in {NewComputeBicOrder} : s = initPossibles(t)
  /\ partition = << >>
  /\ done = FALSE

Found(removed) ==
  /\ partition' = << removed[1] >> \o partition
  /\ s' = doUpdate(removed[2])
  /\ UNCHANGED << E, base, done >>

NextFace ==
  \E f \in s.possF : \E cl \in getFaceCl(s, f) :
    LET removed == removeNextFace(f, cl) IN
    Found(<< removed[1], [removed[2] EXCEPT !.possF = @ \ {f}] >>)

NextNode ==
  /\ s.possF = {}
  /\ \E v \in s.possV :
       LET removed == removeNextNode(v) IN
       Found(<< removed[1], [removed[2] EXCEPT !.possV = @ \ {v}] >>)

(* Fault: the link of an edge is not reset.                                *)
NextVirtLinked ==
  /\ s.possF = {} /\ s.possV = {}
  /\ \E v \in s.possE :
       LET removed == removeNextVirt(v) IN
       Found(<< removed[1], [removed[2] EXCEPT !.possE = @ \ {v}] >>)

NextVirt ==
  /\ s.possF = {} /\ s.possV = {}
  /\ \E v \in s.possE :
       LET removed == removeNextVirt(v) IN
       Found(<< removed[1],
                [removed[2] EXCEPT !.possE = @ \ {v}, !.eLink = @ \ {v}] >>)

Finish ==
  /\ ~ done
  /\ s.possF = {} /\ s.possV = {} /\ s.possE = {}
  /\ partition' = << Set(base, None, None) >> \o partition
  /\ done' = TRUE
  /\ UNCHANGED << E, base, s >>

Next == NextFace \/ NextNode \/ NextVirt \/ Finish

Spec == Init /\ [][Next]_vars

-----------------------------------------------------------------------------
(***************************************************************************)
(* Properties.                                                             *)
(***************************************************************************)
TypeOK ==
  /\ base \in Seq(Nodes) /\ done \in BOOLEAN
  /\ partition \in Seq([nodes : Seq(Nodes), left : Nodes \cup {None}, right : Nodes \cup {None}])
  /\ s.contour \in Seq(Nodes) /\ IsInjective(s.contour)
  /\ Head(s.contour) = vLeft /\ Last(s.contour) = vRight
  /\ s.updF = {} /\ s.updV = {}

(* What is left of the graph: no node of it is in a set, and its faces are *)
(* whole but for those that a virtual edge cuts.                           *)
Removed == UNION {ToSet(S.nodes) : S \in ToSet(partition)}
Left == {f \in Faces \ {extFace} : cutv(s, f) \/ ToSet(E.faces[f]) \cap Removed = {}}
OnContourOf(f) == {v \in ToSet(s.contour) : << v, f >> \in s.inF}
Pairs == 1..(Len(s.contour) - 1)
Inner == ToSet(s.contour) \ {vLeft, vRight}

(* The counters of the faces are changed one by one by every removal and   *)
(* are never counted anew; they are what a count would yield: the nodes,   *)
(* the edges and the neighbours on the contour, and each node on the       *)
(* contour is listed once.                                                 *)
FaceCountersTrue ==
  ~ done => \A f \in Left :
    /\ s.outv[f] = Cardinality(OnContourOf(f))
    /\ s.oute[f] = Cardinality({i \in Pairs : rightOf(s, s.contour[i]) = f})
    /\ s.seqp[f] = Cardinality({i \in Pairs :
                      {s.contour[i], s.contour[i + 1]} \subseteq OnContourOf(f)})
    /\ \A v \in Nodes : s.outer[f][v] = IF v \in OnContourOf(f) THEN 1 ELSE 0
    /\ f \in s.isSf <=> s.outv[f] > s.seqp[f] + 1

(* So are those of the nodes: the edges that are left, with the virtual    *)
(* ones, the adjacent faces that are cut and those that separate.  A cut   *)
(* face knows its virtual edge.                                            *)
NodeCountersTrue ==
  ~ done =>
    /\ \A v \in Inner :
         /\ s.deg[v] = Cardinality(Neighbours(v) \ Removed) + virte(s, v)
         /\ s.cutf[v] = Cardinality({f \in Left : cutv(s, f) /\ v \in OnContourOf(f)})
         /\ s.numsf[v] = Cardinality({f \in Left \cap s.isSf : v \in OnContourOf(f)})
    /\ \A f \in Left, v \in ToSet(s.contour) :
         s.virtSrc[f] = v <=> v \in s.virt /\ rightOf(s, v) = f

(* Only what is marked is looked at again, and nothing is missed: after    *)
(* doUpdate the lists hold exactly what may be removed.                    *)
CandidatesTrue ==
  ~ done =>
    /\ s.possF = {f \in Left : isPossFace(s, f)}
    /\ s.possV = {v \in ToSet(s.contour) : isPossNode(s, v)}
    /\ s.possE = {v \in ToSet(s.contour) : isPossVirt(s, v)}

(* A candidate is taken from its list by popFront, its link is reset only  *)
(* for an edge, and removeNextFace deletes an edge without a look at its   *)
(* link: no link to an element that has left its list is ever used.        *)
NoDanglingLink == ~ s.dangling

(* removeNextFace has an array of outv(f) - 2 nodes and fills it with the  *)
(* chain it walks; the chain is of that length, and it is the one of f.    *)
ChainFitsArray ==
  \A f \in s.possF :
    /\ getFaceCl(s, f) # {}
    /\ \A cl \in getFaceCl(s, f) :
         /\ Len(Between(s, cl, ChainRight(s, cl))) = s.outv[f] - 2
         /\ rightOf(s, cl) = f

(* What is found is a shelling order of the graph: every node is in one    *)
(* set, each set is put on the contour of those before it, the graph has   *)
(* no edge that such an order does not have, and in the end the contour is *)
(* the external face.                                                      *)
PartitionIsShelling ==
  done =>
    /\ \A v \in Nodes : Cardinality({i \in DOMAIN partition :
                                       Contains(partition[i].nodes, v)}) = 1
    /\ \A i \in 2..Len(partition) :
         /\ partition[i].nodes # << >>
         /\ OnContour(Contours(partition)[i - 1], partition[i])
    /\ \A v \in Nodes : \A w \in Neighbours(v) :
         {<< v, w >>, << w, v >>} \cap EdgesOf(partition) # {}
    /\ Contour(partition) = BackTo(extFace, vLeft, vRight)
==============================================================================
