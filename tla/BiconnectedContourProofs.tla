----------------------- MODULE BiconnectedContourProofs -----------------------
(***************************************************************************)
(* What the operators of BiconnectedShellingOrder do, for every embedding: *)
(* the order of the neighbours around a node and the faces between them,   *)
(* the contour of what is left, the counters, and what a set that is       *)
(* removed does to all of these, up to removeNextFace and doUpdate.        *)
(*                                                                         *)
(*   ContourShape   the contour is a path around what is left, the         *)
(*                  neighbours of a node on it that are left are those     *)
(*                  from the node before to the node after it, and a face  *)
(*                  that is not whole lies outside                         *)
(*   Linked         links, degrees and "v in F" say the same               *)
(*   Counted        the counters are what a count would yield              *)
(*   FacesMarked, NodesMarked, EdgesUnmarked                               *)
(*                  the lists hold what may be removed                     *)
(*                                                                         *)
(* The removal of a face keeps these (FaceTaken).                          *)
(***************************************************************************)
EXTENDS BiconnectedShellingOrder, ShellingSetsProofs

-----------------------------------------------------------------------------
(***************************************************************************)
(* Counting.                                                               *)
(***************************************************************************)
LEMMA CountSubset ==
  ASSUME NEW S, IsFiniteSet(S), NEW T \in SUBSET S
  PROVE  IsFiniteSet(T) /\ Cardinality(T) \in Nat /\ Cardinality(T) <= Cardinality(S)
BY FS_Subset, FS_CardinalityType

LEMMA CountDisjoint ==
  ASSUME NEW S, NEW T, IsFiniteSet(S), IsFiniteSet(T), S \cap T = {}
  PROVE  /\ IsFiniteSet(S \cup T)
         /\ Cardinality(S \cup T) = Cardinality(S) + Cardinality(T)
<1>1. IsFiniteSet(S \cup T)
  BY FS_Union
<1>2. Cardinality(S \cup T) = Cardinality(S) + Cardinality(T) - Cardinality(S \cap T)
  BY FS_Union
<1>3. Cardinality(S \cap T) = 0
  BY FS_EmptySet
<1>4. Cardinality(S) \in Nat /\ Cardinality(T) \in Nat
  BY FS_CardinalityType
<1> QED BY <1>1, <1>2, <1>3, <1>4

-----------------------------------------------------------------------------
(***************************************************************************)
(* Places on a face.                                                       *)
(***************************************************************************)
LEMMA NextPlace ==
  ASSUME NEW n \in Nat \ {0}, NEW i \in 1..n
  PROVE  (i % n) + 1 = IF i = n THEN 1 ELSE i + 1
<1>1. CASE i = n
  <2>1. n % n = 0
    OBVIOUS
  <2> QED BY <1>1, <2>1
<1>2. CASE i # n
  <2>1. i % n = i
    BY <1>2
  <2> QED BY <1>2, <2>1
<1> QED BY <1>1, <1>2

LEMMA PrevPlace ==
  ASSUME NEW n \in Nat \ {0}, NEW i \in 1..n
  PROVE  ((i + n - 2) % n) + 1 = IF i = 1 THEN n ELSE i - 1
<1>1. CASE i = 1
  <2>1. (n - 1) % n = n - 1 /\ i + n - 2 = n - 1
    BY <1>1
  <2> QED BY <1>1, <2>1
<1>2. CASE i # 1
  <2> DEFINE j == i - 2
  <2>1. j \in 0..(n - 1) /\ i + n - 2 = n + j
    BY <1>2
  <2>2. (n + j) % n = j
    <3> HIDE DEF j
    <3> QED BY <2>1
  <2> QED BY <1>2, <2>1, <2>2
<1> QED BY <1>1, <1>2

SuccOn(face, v) == face[(At(face, v) % Len(face)) + 1]
PredOn(face, v) == face[((At(face, v) + Len(face) - 2) % Len(face)) + 1]

LEMMA FollowsAt ==
  ASSUME NEW V, NEW face \in Path(V), Len(face) >= 3, NEW v, NEW w
  PROVE  << v, w >> \in Follows(face) <=>
           \E i \in 1..Len(face) : face[i] = v /\ w = IF i = Len(face) THEN face[1] ELSE face[i + 1]
<1>1. DOMAIN face = 1..Len(face) /\ Len(face) \in Nat
  BY PathIndices
<1>2. ASSUME NEW i \in 1..Len(face)
      PROVE  face[(i % Len(face)) + 1] = IF i = Len(face) THEN face[1] ELSE face[i + 1]
  <2> DEFINE n == Len(face)
  <2>1. n \in Nat \ {0} /\ i \in 1..n
    BY <1>1
  <2>2. (i % n) + 1 = IF i = n THEN 1 ELSE i + 1
    <3> HIDE DEF n
    <3> QED BY <2>1, NextPlace
  <2> QED BY <2>2
<1>3. << v, w >> \in Follows(face) <=>
        \E i \in 1..Len(face) : << v, w >> = << face[i], face[(i % Len(face)) + 1] >>
  BY <1>1 DEF Follows
<1> QED BY <1>2, <1>3

LEMMA TurnOnFace ==
  ASSUME NEW V, NEW face \in Path(V), Len(face) >= 3, NEW v \in ToSet(face)
  PROVE  /\ << v, SuccOn(face, v) >> \in Follows(face)
         /\ << PredOn(face, v), v >> \in Follows(face)
         /\ \A w : << v, w >> \in Follows(face) => w = SuccOn(face, v)
         /\ \A w : << w, v >> \in Follows(face) => w = PredOn(face, v)
<1> DEFINE n == Len(face)
           i == At(face, v)
<1>1. n \in Nat /\ n >= 3 /\ \A j, k \in 1..n : face[j] = face[k] => j = k
  BY PathIndices
<1>2. i \in 1..n /\ face[i] = v
  BY AtOfMember
<1>3. SuccOn(face, v) = IF i = n THEN face[1] ELSE face[i + 1]
  <2>1. (i % n) + 1 = IF i = n THEN 1 ELSE i + 1
    <3> HIDE DEF n, i
    <3>1. n \in Nat \ {0} /\ i \in 1..n
      BY <1>1, <1>2
    <3> QED BY <3>1, NextPlace
  <2> QED BY <2>1 DEF SuccOn
<1>4. PredOn(face, v) = IF i = 1 THEN face[n] ELSE face[i - 1]
  <2>1. ((i + n - 2) % n) + 1 = IF i = 1 THEN n ELSE i - 1
    <3> HIDE DEF n, i
    <3>1. n \in Nat \ {0} /\ i \in 1..n
      BY <1>1, <1>2
    <3> QED BY <3>1, PrevPlace
  <2> QED BY <2>1 DEF PredOn
<1> HIDE DEF n, i
<1>5. << v, SuccOn(face, v) >> \in Follows(face)
  BY <1>2, <1>3, FollowsAt DEF n
<1>6. << PredOn(face, v), v >> \in Follows(face)
  <2>1. CASE i = 1
    <3>1. n \in 1..n /\ face[n] = PredOn(face, v) /\ face[1] = v
      BY <1>1, <1>2, <1>4, <2>1
    <3> QED BY <3>1, FollowsAt DEF n
  <2>2. CASE i # 1
    <3>1. i - 1 \in 1..n /\ i - 1 # n /\ face[i - 1] = PredOn(face, v) /\ face[(i - 1) + 1] = v
      BY <1>1, <1>2, <1>4, <2>2
    <3> QED BY <3>1, FollowsAt DEF n
  <2> QED BY <2>1, <2>2
<1>7. ASSUME NEW w, << v, w >> \in Follows(face) PROVE w = SuccOn(face, v)
  <2>1. PICK j \in 1..n : face[j] = v /\ w = IF j = n THEN face[1] ELSE face[j + 1]
    BY <1>7, FollowsAt DEF n
  <2>2. j = i
    BY <1>1, <1>2, <2>1
  <2> QED BY <1>3, <2>1, <2>2
<1>8. ASSUME NEW w, << w, v >> \in Follows(face) PROVE w = PredOn(face, v)
  <2>1. PICK j \in 1..n : face[j] = w /\ v = IF j = n THEN face[1] ELSE face[j + 1]
    BY <1>8, FollowsAt DEF n
  <2>2. CASE j = n
    <3>1. i = 1
      BY <1>1, <1>2, <2>1, <2>2
    <3> QED BY <1>4, <2>1, <2>2, <3>1
  <2>3. CASE j # n
    <3>1. i = j + 1 /\ j + 1 # 1 /\ (j + 1) - 1 = j
      BY <1>1, <1>2, <2>1, <2>3
    <3> QED BY <1>4, <2>1, <3>1
  <2> QED BY <2>2, <2>3
<1> QED BY <1>5, <1>6, <1>7, <1>8

LEMMA FollowsMembers ==
  ASSUME NEW V, NEW face \in Path(V), Len(face) >= 3, NEW v, NEW w, << v, w >> \in Follows(face)
  PROVE  v \in ToSet(face) /\ w \in ToSet(face) /\ v # w
<1>1. PICK i \in 1..Len(face) : face[i] = v /\ w = IF i = Len(face) THEN face[1] ELSE face[i + 1]
  BY FollowsAt
<1>2. Len(face) \in Nat /\ \A j, k \in 1..Len(face) : face[j] = face[k] => j = k
  BY PathIndices
<1>3. PICK j \in 1..Len(face) : w = face[j] /\ j # i
  BY <1>1, <1>2
<1> QED BY <1>1, <1>2, <1>3, PathIndices

-----------------------------------------------------------------------------
(***************************************************************************)
(* A plane graph g: the entry of v to w is on the face f to its right; x   *)
(* comes after w around v when the entry to v and the entry from v are on  *)
(* one face.                                                               *)
(***************************************************************************)
Entry(g, v, w, f) == << v, w >> \in DOMAIN g.rightFace /\ g.rightFace[<< v, w >>] = f
OnFace(g, f) == ToSet(g.faces[f])
Around(g, v) == {w \in g.nodes : << v, w >> \in DOMAIN g.rightFace}
Beside(g, v, w, x) == \E f : Entry(g, w, v, f) /\ Entry(g, v, x, f)

LEMMA FaceIsPath ==
  ASSUME NEW g, IsEmbedding(g), NEW f \in DOMAIN g.faces
  PROVE  g.faces[f] \in Path(g.nodes) /\ Len(g.faces[f]) >= 3
<1>1. /\ g.faces \in Seq(Seq(g.nodes))
      /\ IsInjective(g.faces[f]) /\ Len(g.faces[f]) >= 3
  BY DEF IsEmbedding
<1>2. g.faces[f] \in Seq(g.nodes)
  BY <1>1, ElementOfSeq, LenProperties
<1> QED BY <1>1, <1>2 DEF Path, IsInjective

(* The entries of a face follow each other on it.                          *)
LEMMA EntryFollows ==
  ASSUME NEW g, IsEmbedding(g), NEW v, NEW w, NEW f
  PROVE  Entry(g, v, w, f) <=> f \in DOMAIN g.faces /\ << v, w >> \in Follows(g.faces[f])
<1> DEFINE Entries == DOMAIN g.rightFace
           On(h) == Follows(g.faces[h])
<1>1. Entries = UNION {On(h) : h \in DOMAIN g.faces}
  BY DEF IsEmbedding
<1>2. \A h \in DOMAIN g.faces : \A vw \in On(h) : g.rightFace[vw] = h
  BY DEF IsEmbedding
<1>3. Entry(g, v, w, f) <=> << v, w >> \in Entries /\ g.rightFace[<< v, w >>] = f
  BY DEF Entry
<1> HIDE DEF Entries, On
<1>4. << v, w >> \in Entries <=> \E h \in DOMAIN g.faces : << v, w >> \in On(h)
  BY <1>1
<1>5. f \in DOMAIN g.faces /\ << v, w >> \in On(f) => Entry(g, v, w, f)
  BY <1>2, <1>3, <1>4
<1>6. Entry(g, v, w, f) => f \in DOMAIN g.faces /\ << v, w >> \in On(f)
  BY <1>2, <1>3, <1>4
<1> QED BY <1>5, <1>6 DEF On

LEMMA EntryBack ==
  ASSUME NEW g, IsEmbedding(g), NEW v, NEW w, NEW f, Entry(g, v, w, f)
  PROVE  \E h : Entry(g, w, v, h)
<1> DEFINE e == << v, w >>
<1>1. f \in DOMAIN g.faces /\ e \in Follows(g.faces[f])
  BY EntryFollows
<1>2. << e[2], e[1] >> \in DOMAIN g.rightFace
  <2> HIDE DEF e
  <2>1. \A h \in DOMAIN g.faces : \A vw \in Follows(g.faces[h]) : << vw[2], vw[1] >> \in DOMAIN g.rightFace
    BY DEF IsEmbedding
  <2> QED BY <1>1, <2>1
<1>3. << w, v >> \in DOMAIN g.rightFace
  BY <1>2
<1> QED BY <1>3 DEF Entry

LEMMA EntryFacts ==
  ASSUME NEW g, IsEmbedding(g), NEW v, NEW w, NEW f, Entry(g, v, w, f)
  PROVE  /\ f \in DOMAIN g.faces /\ v \in OnFace(g, f) /\ w \in OnFace(g, f)
         /\ v \in g.nodes /\ w \in g.nodes /\ v # w
         /\ w \in Around(g, v) /\ v \in Around(g, w)
         /\ \A h : Entry(g, v, w, h) => h = f
<1>1. f \in DOMAIN g.faces /\ << v, w >> \in Follows(g.faces[f])
  BY EntryFollows
<1>2. g.faces[f] \in Path(g.nodes) /\ Len(g.faces[f]) >= 3
  BY <1>1, FaceIsPath
<1>3. v \in ToSet(g.faces[f]) /\ w \in ToSet(g.faces[f]) /\ v # w
  BY <1>1, <1>2, FollowsMembers
<1>4. v \in g.nodes /\ w \in g.nodes
  BY <1>2, <1>3, PathIndices
<1>5. w \in Around(g, v)
  BY <1>4 DEF Around, Entry
<1>6. v \in Around(g, w)
  BY <1>4, EntryBack DEF Around, Entry
<1>7. \A h : Entry(g, v, w, h) => h = f
  BY DEF Entry
<1> QED BY <1>1, <1>3, <1>4, <1>5, <1>6, <1>7 DEF OnFace

LEMMA AroundEntry ==
  ASSUME NEW g, IsEmbedding(g), NEW v, NEW w
  PROVE  /\ w \in Around(g, v) <=> \E f : Entry(g, v, w, f)
         /\ w \in Around(g, v) <=> \E f : Entry(g, w, v, f)
         /\ w \in Around(g, v) <=> v \in Around(g, w)
<1>1. w \in Around(g, v) => \E f : Entry(g, v, w, f)
  BY DEF Around, Entry
<1>2. v \in Around(g, w) => \E f : Entry(g, w, v, f)
  BY DEF Around, Entry
<1>3. \A f : Entry(g, v, w, f) => w \in Around(g, v) /\ v \in Around(g, w)
  BY EntryFacts
<1>4. \A f : Entry(g, w, v, f) => w \in Around(g, v) /\ v \in Around(g, w)
  BY EntryFacts
<1> QED BY <1>1, <1>2, <1>3, <1>4

(* A node has one entry to it and one entry from it on each of its faces.  *)
LEMMA FaceEntries ==
  ASSUME NEW g, IsEmbedding(g), NEW f \in DOMAIN g.faces, NEW v \in OnFace(g, f)
  PROVE  /\ Entry(g, v, SuccOn(g.faces[f], v), f)
         /\ Entry(g, PredOn(g.faces[f], v), v, f)
         /\ \A w : Entry(g, v, w, f) => w = SuccOn(g.faces[f], v)
         /\ \A w : Entry(g, w, v, f) => w = PredOn(g.faces[f], v)
<1>1. g.faces[f] \in Path(g.nodes) /\ Len(g.faces[f]) >= 3 /\ v \in ToSet(g.faces[f])
  BY FaceIsPath DEF OnFace
<1>2. /\ << v, SuccOn(g.faces[f], v) >> \in Follows(g.faces[f])
      /\ << PredOn(g.faces[f], v), v >> \in Follows(g.faces[f])
      /\ \A w : << v, w >> \in Follows(g.faces[f]) => w = SuccOn(g.faces[f], v)
      /\ \A w : << w, v >> \in Follows(g.faces[f]) => w = PredOn(g.faces[f], v)
  BY <1>1, TurnOnFace
<1> QED BY <1>2, EntryFollows

LEMMA BesideUnique ==
  ASSUME NEW g, IsEmbedding(g), NEW v, NEW w, NEW x, Beside(g, v, w, x)
  PROVE  /\ w \in Around(g, v) /\ x \in Around(g, v)
         /\ \A y : Beside(g, v, w, y) => y = x
         /\ \A y : Beside(g, v, y, x) => y = w
<1>1. PICK f : Entry(g, w, v, f) /\ Entry(g, v, x, f)
  BY DEF Beside
<1>2. f \in DOMAIN g.faces /\ v \in OnFace(g, f) /\ w \in Around(g, v) /\ x \in Around(g, v)
  BY <1>1, EntryFacts
<1>3. ASSUME NEW y, Beside(g, v, w, y) PROVE y = x
  <2>1. PICK h : Entry(g, w, v, h) /\ Entry(g, v, y, h)
    BY <1>3 DEF Beside
  <2>2. h = f
    BY <1>1, <2>1, EntryFacts
  <2> QED BY <1>1, <1>2, <2>1, <2>2, FaceEntries
<1>4. ASSUME NEW y, Beside(g, v, y, x) PROVE y = w
  <2>1. PICK h : Entry(g, y, v, h) /\ Entry(g, v, x, h)
    BY <1>4 DEF Beside
  <2>2. h = f
    BY <1>1, <2>1, EntryFacts
  <2> QED BY <1>1, <1>2, <2>1, <2>2, FaceEntries
<1> QED BY <1>2, <1>3, <1>4

LEMMA BesideExists ==
  ASSUME NEW g, IsEmbedding(g), NEW v, NEW w \in Around(g, v)
  PROVE  (\E x : Beside(g, v, w, x)) /\ (\E x : Beside(g, v, x, w))
<1>1. PICK f : Entry(g, w, v, f)
  BY AroundEntry
<1>2. PICK h : Entry(g, v, w, h)
  BY AroundEntry
<1>3. f \in DOMAIN g.faces /\ v \in OnFace(g, f) /\ h \in DOMAIN g.faces /\ v \in OnFace(g, h)
  BY <1>1, <1>2, EntryFacts
<1>4. PICK x : Entry(g, v, x, f)
  BY <1>3, FaceEntries
<1>5. PICK y : Entry(g, y, v, h)
  BY <1>3, FaceEntries
<1> QED BY <1>1, <1>2, <1>4, <1>5 DEF Beside

(* Whoever turns around a node meets all its neighbours.                   *)
LEMMA Rotation ==
  ASSUME NEW g, IsEmbedding(g), NEW v \in g.nodes,
         NEW some \in SUBSET Around(g, v), some # {},
         \A w \in some : \A x : Beside(g, v, w, x) => x \in some
  PROVE  some = Around(g, v)
<1> SUFFICES ASSUME some # Around(g, v) PROVE FALSE
  OBVIOUS
<1>1. \A T \in (SUBSET Around(g, v)) \ {{}, Around(g, v)} :
        \E w \in T, x \in Around(g, v) \ T :
          g.rightFace[<< v, x >>] = g.rightFace[<< w, v >>]
  BY DEF IsEmbedding, Around
<1>2. PICK w \in some, x \in Around(g, v) \ some :
        g.rightFace[<< v, x >>] = g.rightFace[<< w, v >>]
  <2>1. some \in (SUBSET Around(g, v)) \ {{}, Around(g, v)}
    OBVIOUS
  <2> QED BY <1>1, <2>1
<1>3. PICK f : Entry(g, w, v, f)
  BY AroundEntry
<1>4. PICK h : Entry(g, v, x, h)
  BY AroundEntry
<1>5. f = h
  BY <1>2, <1>3, <1>4 DEF Entry
<1> QED BY <1>2, <1>3, <1>4, <1>5 DEF Beside

-----------------------------------------------------------------------------
(***************************************************************************)
(* The neighbours A of v that are left, from p to n around it.             *)
(***************************************************************************)
Segment(g, v, A, p, n) ==
  /\ A \subseteq Around(g, v) /\ p \in A /\ n \in A
  /\ \A w \in A \ {n} : \A x : Beside(g, v, w, x) => x \in A
  /\ \A w \in A \ {n} : ~ Beside(g, v, w, p)

LEMMA SegmentOfTwo ==
  ASSUME NEW g, IsEmbedding(g), NEW v \in g.nodes, NEW A, NEW p, NEW n,
         Segment(g, v, A, p, n), Beside(g, v, p, n)
  PROVE  A = {p, n}
<1> DEFINE some == A \ {p, n}
<1>1. \A w \in some : \A x : Beside(g, v, w, x) => x \in some
  <2> SUFFICES ASSUME NEW w \in some, NEW x, Beside(g, v, w, x) PROVE x \in some
    OBVIOUS
  <2>1. x \in A /\ x # p
    BY DEF Segment
  <2>2. x # n
    BY BesideUnique
  <2> QED BY <2>1, <2>2
<1>2. some \in SUBSET Around(g, v) /\ p \in Around(g, v) /\ p \notin some
  BY DEF Segment
<1> HIDE DEF some
<1>3. some = {}
  BY <1>1, <1>2, Rotation
<1> QED BY <1>3 DEF some, Segment

LEMMA NotBesideItself ==
  ASSUME NEW g, IsEmbedding(g), NEW v \in g.nodes, NEW p, NEW n,
         p \in Around(g, v), n \in Around(g, v), p # n
  PROVE  ~ Beside(g, v, p, p)
<1> SUFFICES ASSUME Beside(g, v, p, p) PROVE FALSE
  OBVIOUS
<1> DEFINE some == {p}
<1>1. \A w \in some : \A x : Beside(g, v, w, x) => x \in some
  BY BesideUnique
<1>2. some \in SUBSET Around(g, v) /\ some # {}
  OBVIOUS
<1> HIDE DEF some
<1>3. some = Around(g, v)
  BY <1>1, <1>2, Rotation
<1> QED BY <1>3 DEF some

LEMMA TwoAreBeside ==
  ASSUME NEW g, IsEmbedding(g), NEW v \in g.nodes, NEW A, NEW p, NEW n,
         Segment(g, v, A, p, n), p # n, A = {p, n}
  PROVE  Beside(g, v, p, n)
<1>1. p \in Around(g, v) /\ n \in Around(g, v)
  BY DEF Segment
<1>2. PICK x : Beside(g, v, p, x)
  BY <1>1, BesideExists
<1>3. x \in A
  BY <1>2 DEF Segment
<1>4. x # p
  BY <1>1, <1>2, NotBesideItself
<1> QED BY <1>2, <1>3, <1>4

LEMMA SegmentWithoutLast ==
  ASSUME NEW g, IsEmbedding(g), NEW v \in g.nodes, NEW A, NEW p, NEW n, NEW m,
         Segment(g, v, A, p, n), p # n, m \in A, m # n, Beside(g, v, m, n)
  PROVE  Segment(g, v, A \ {n}, p, m)
BY BesideUnique DEF Segment

LEMMA SegmentWithoutFirst ==
  ASSUME NEW g, IsEmbedding(g), NEW v \in g.nodes, NEW A, NEW p, NEW n, NEW q,
         Segment(g, v, A, p, n), p # n, q \in A, q # p, Beside(g, v, p, q)
  PROVE  Segment(g, v, A \ {p}, q, n)
BY BesideUnique DEF Segment

LEMMA SegmentOfAll ==
  ASSUME NEW g, IsEmbedding(g), NEW v \in g.nodes, NEW p, NEW n, Beside(g, v, n, p)
  PROVE  Segment(g, v, Around(g, v), p, n)
<1>1. \A w, x : Beside(g, v, w, x) => x \in Around(g, v)
  BY BesideUnique
<1>2. p \in Around(g, v) /\ n \in Around(g, v) /\ \A y : Beside(g, v, y, p) => y = n
  BY BesideUnique
<1> QED BY <1>1, <1>2 DEF Segment

LEMMA SegmentOfAllBut ==
  ASSUME NEW g, IsEmbedding(g), NEW v \in g.nodes, NEW p, NEW n, NEW d,
         Beside(g, v, n, d), Beside(g, v, d, p), d # n, d # p
  PROVE  Segment(g, v, Around(g, v) \ {d}, p, n)
<1>1. \A w, x : Beside(g, v, w, x) => x \in Around(g, v)
  BY BesideUnique
<1>2. p \in Around(g, v) /\ n \in Around(g, v)
  BY BesideUnique
<1>3. (\A y : Beside(g, v, y, p) => y = d) /\ (\A y : Beside(g, v, y, d) => y = n)
  BY BesideUnique
<1> QED BY <1>1, <1>2, <1>3 DEF Segment

(* From p on around v one meets the nodes of A and comes to n.             *)
Turns(g, v, p, turn, N) ==
  /\ Beside(g, v, p, turn[0])
  /\ \A i \in 0..(N - 1) : \A x : Beside(g, v, turn[i], x) => turn[i + 1] = x

LEMMA TurnStays ==
  ASSUME NEW g, IsEmbedding(g), NEW v \in g.nodes, NEW A, NEW p, NEW n,
         Segment(g, v, A, p, n), p # n, ~ Beside(g, v, p, n),
         NEW N \in Nat, NEW turn, Turns(g, v, p, turn, N),
         NEW last, Beside(g, v, last, n),
         NEW k \in 0..N, \A i \in 0..(k - 1) : turn[i] # last
  PROVE  /\ \A i \in 0..k : turn[i] \in A \ {p, n}
         /\ \A i \in 0..(k - 1) : Beside(g, v, turn[i], turn[i + 1])
         /\ \A i, j \in 0..k : turn[i] = turn[j] => i = j
<1>1. p \in Around(g, v) /\ n \in Around(g, v)
  BY DEF Segment
<1>2. \A w \in A \ {p, n} : \A x : Beside(g, v, w, x) => x \in A /\ x # p
  BY DEF Segment
<1>3. turn[0] \in A \ {p, n}
  <2>1. turn[0] \in A /\ turn[0] # n
    BY DEF Segment, Turns
  <2>2. turn[0] # p
    BY <1>1, NotBesideItself DEF Turns
  <2> QED BY <2>1, <2>2
<1>4. ASSUME NEW i \in 0..(k - 1), turn[i] \in A \ {p, n}
      PROVE  Beside(g, v, turn[i], turn[i + 1]) /\ turn[i + 1] \in A \ {p, n}
  <2>1. turn[i] \in Around(g, v)
    BY <1>4 DEF Segment
  <2>2. PICK x : Beside(g, v, turn[i], x)
    BY <2>1, BesideExists
  <2>3. i \in 0..(N - 1) /\ turn[i + 1] = x
    BY <2>2 DEF Turns
  <2>4. x # n
    BY <2>2, BesideUnique
  <2> QED BY <1>2, <1>4, <2>2, <2>3, <2>4
<1> DEFINE T == {i \in Int : turn[i] \in A \ {p, n}}
<1>5. \A i \in 0..k : i \in T
  <2>1. 0 \in T /\ \A i \in 0..(k - 1) : i \in T => i + 1 \in T
    BY <1>3, <1>4
  <2>2. 0 \in Int /\ k \in Int
    OBVIOUS
  <2> HIDE DEF T
  <2> QED BY <2>1, <2>2, Upwards
<1>6. \A i \in 0..k : turn[i] \in A \ {p, n}
  BY <1>5
<1>7. \A i \in 0..(k - 1) : Beside(g, v, turn[i], turn[i + 1])
  BY <1>4, <1>6
<1> DEFINE M == {j \in Nat : j <= k /\ \E i \in 0..(j - 1) : turn[i] = turn[j]}
<1>8. M = {}
  <2> SUFFICES ASSUME M # {} PROVE FALSE
    OBVIOUS
  <2>1. PICK j \in M : \A m \in M : j <= m
    <3>1. M \in SUBSET Nat
      OBVIOUS
    <3> HIDE DEF M
    <3> QED BY <3>1, LeastNumber
  <2>2. PICK i \in 0..(j - 1) : turn[i] = turn[j]
    OBVIOUS
  <2>3. j - 1 \in 0..(k - 1) /\ (j - 1) + 1 = j
    BY <2>2
  <2>4. Beside(g, v, turn[j - 1], turn[j])
    BY <1>7, <2>3
  <2>5. CASE i = 0
    <3>1. turn[j - 1] = p
      BY <2>2, <2>4, <2>5, BesideUnique DEF Turns
    <3> QED BY <1>6, <2>3, <3>1
  <2>6. CASE i # 0
    <3>1. i - 1 \in 0..(k - 1) /\ (i - 1) + 1 = i
      BY <2>6, <2>3
    <3>2. Beside(g, v, turn[i - 1], turn[i])
      BY <1>7, <3>1
    <3>3. turn[i - 1] = turn[j - 1]
      BY <2>2, <2>4, <3>2, BesideUnique
    <3>4. i - 1 \in 0..((j - 1) - 1) /\ j - 1 <= k /\ j - 1 \in Nat
      BY <2>3, <3>1
    <3>5. j - 1 \in M
      BY <3>3, <3>4
    <3> HIDE DEF M
    <3> QED BY <2>1, <2>3, <3>5
  <2> QED BY <2>5, <2>6
<1>9. ASSUME NEW i \in 0..k, NEW j \in 0..k, turn[i] = turn[j], i # j PROVE FALSE
  <2>1. CASE i < j
    <3>1. j \in M
      BY <1>9, <2>1
    <3> QED BY <1>8, <3>1
  <2>2. CASE j < i
    <3>1. i \in M
      BY <1>9, <2>2
    <3> QED BY <1>8, <3>1
  <2> QED BY <1>9, <2>1, <2>2
<1> QED BY <1>6, <1>7, <1>9

(* The nodes of A between p and n.                                         *)
Fanned(g, v, A, p, n, fan) ==
  /\ fan \in Path(g.nodes) /\ Len(fan) >= 1
  /\ ToSet(fan) = A \ {p, n}
  /\ Beside(g, v, p, fan[1]) /\ Beside(g, v, fan[Len(fan)], n)
  /\ \A i \in 1..(Len(fan) - 1) : Beside(g, v, fan[i], fan[i + 1])

LEMMA AroundNodes ==
  ASSUME NEW g, IsEmbedding(g), NEW v
  PROVE  /\ IsFiniteSet(g.nodes) /\ Cardinality(g.nodes) \in Nat
         /\ g.nodes \subseteq Nat \ {0}
         /\ Around(g, v) \subseteq g.nodes
         /\ IsFiniteSet(Around(g, v))
<1>1. IsFiniteSet(g.nodes) /\ g.nodes \subseteq Nat \ {0}
  BY DEF IsEmbedding
<1>2. Around(g, v) \subseteq g.nodes
  BY DEF Around
<1>3. IsFiniteSet(Around(g, v)) /\ Cardinality(g.nodes) \in Nat
  BY <1>1, <1>2, FS_Subset, FS_CardinalityType
<1> QED BY <1>1, <1>2, <1>3

LEMMA TurnEnds ==
  ASSUME NEW g, IsEmbedding(g), NEW v \in g.nodes, NEW A, NEW p, NEW n,
         Segment(g, v, A, p, n), p # n, ~ Beside(g, v, p, n),
         NEW N, N = Cardinality(g.nodes), NEW turn, Turns(g, v, p, turn, N),
         NEW last, Beside(g, v, last, n)
  PROVE  \E k \in 0..N : turn[k] = last
<1> SUFFICES ASSUME \A k \in 0..N : turn[k] # last PROVE FALSE
  OBVIOUS
<1>1. N \in Nat /\ IsFiniteSet(g.nodes) /\ Around(g, v) \subseteq g.nodes
  BY AroundNodes
<1>2. N \in 0..N /\ \A i \in 0..(N - 1) : turn[i] # last
  BY <1>1
<1>3. /\ \A i \in 0..N : turn[i] \in A \ {p, n}
      /\ \A i, j \in 0..N : turn[i] = turn[j] => i = j
  BY <1>1, <1>2, TurnStays
<1> DEFINE f == [i \in 0..N |-> turn[i]]
<1>4. f \in [0..N -> g.nodes]
  BY <1>1, <1>3 DEF Segment
<1>5. IsFiniteSet(0..N) /\ Cardinality(0..N) = N + 1
  BY <1>1, FS_Interval
<1>6. \E i, j \in 0..N : i # j /\ f[i] = f[j]
  <2>1. Cardinality(g.nodes) < Cardinality(0..N)
    BY <1>1, <1>5
  <2> HIDE DEF f
  <2> QED BY <1>1, <1>4, <1>5, <2>1, FS_PigeonHole
<1> QED BY <1>3, <1>6

LEMMA TurnFans ==
  ASSUME NEW g, IsEmbedding(g), NEW v \in g.nodes, NEW A, NEW p, NEW n,
         Segment(g, v, A, p, n), p # n, ~ Beside(g, v, p, n),
         NEW N \in Nat, NEW turn, Turns(g, v, p, turn, N),
         NEW k \in 0..N, Beside(g, v, turn[k], n), \A i \in 0..(k - 1) : turn[i] # turn[k]
  PROVE  Fanned(g, v, A, p, n, [i \in 1..(k + 1) |-> turn[i - 1]])
<1> DEFINE fan == [i \in 1..(k + 1) |-> turn[i - 1]]
<1>1. /\ \A i \in 0..k : turn[i] \in A \ {p, n}
      /\ \A i \in 0..(k - 1) : Beside(g, v, turn[i], turn[i + 1])
      /\ \A i, j \in 0..k : turn[i] = turn[j] => i = j
  BY TurnStays
<1>2. A \subseteq g.nodes
  BY AroundNodes DEF Segment
<1>3. Len(fan) = k + 1 /\ DOMAIN fan = 1..(k + 1) /\ fan \in Seq(g.nodes)
  <2>1. ASSUME NEW i \in 1..(k + 1) PROVE turn[i - 1] \in g.nodes
    <3>1. i - 1 \in 0..k
      OBVIOUS
    <3> QED BY <1>1, <1>2, <3>1
  <2>2. fan \in [1..(k + 1) -> g.nodes] /\ k + 1 \in Nat
    BY <2>1
  <2> HIDE DEF fan
  <2> QED BY <2>2
<1>4. \A i \in 1..(k + 1) : i - 1 \in 0..k /\ fan[i] = turn[i - 1]
  OBVIOUS
<1>5. fan \in Path(g.nodes)
  <2>1. \A i, j \in 1..(k + 1) : fan[i] = fan[j] => i = j
    <3> SUFFICES ASSUME NEW i \in 1..(k + 1), NEW j \in 1..(k + 1), fan[i] = fan[j] PROVE i = j
      OBVIOUS
    <3>1. i - 1 = j - 1
      BY <1>1, <1>4
    <3> QED BY <3>1
  <2> HIDE DEF fan
  <2> QED BY <1>3, <2>1 DEF Path
<1>6. \A w : w \in ToSet(fan) <=> \E i \in 0..k : turn[i] = w
  <2>1. \A w : w \in ToSet(fan) <=> \E i \in 1..(k + 1) : fan[i] = w
    <3> HIDE DEF fan
    <3> QED BY <1>3, <1>5, PathIndices
  <2>2. ASSUME NEW i \in 0..k PROVE i + 1 \in 1..(k + 1) /\ fan[i + 1] = turn[i]
    OBVIOUS
  <2> HIDE DEF fan
  <2> QED BY <1>4, <2>1, <2>2
<1> HIDE DEF fan
<1> DEFINE some == A \ (ToSet(fan) \cup {p, n})
<1>7. \A w \in some : \A x : Beside(g, v, w, x) => x \in some
  <2> SUFFICES ASSUME NEW w \in some, NEW x, Beside(g, v, w, x) PROVE x \in some
    OBVIOUS
  <2>1. x \in A /\ x # p
    BY DEF Segment
  <2>2. turn[k] \in ToSet(fan)
    BY <1>6
  <2>3. x # n
    BY <2>2, BesideUnique
  <2>4. ASSUME NEW i \in 0..k, x = turn[i] PROVE FALSE
    <3>1. CASE i = 0
      <4>1. w = p
        BY <2>4, <3>1, BesideUnique DEF Turns
      <4> QED BY <4>1
    <3>2. CASE i # 0
      <4>1. i - 1 \in 0..(k - 1) /\ i - 1 \in 0..k /\ (i - 1) + 1 = i
        BY <3>2
      <4>2. Beside(g, v, turn[i - 1], x)
        BY <1>1, <2>4, <4>1
      <4>3. w = turn[i - 1]
        BY <4>2, BesideUnique
      <4> QED BY <1>6, <4>1, <4>3
    <3> QED BY <3>1, <3>2
  <2> QED BY <1>6, <2>1, <2>3, <2>4
<1>8. some = {}
  <2>1. some \in SUBSET Around(g, v) /\ p \in Around(g, v) /\ p \notin some
    BY DEF Segment
  <2> HIDE DEF some
  <2> QED BY <1>7, <2>1, Rotation
<1>9. ToSet(fan) = A \ {p, n}
  <2>1. ToSet(fan) \subseteq A \ {p, n}
    BY <1>1, <1>6
  <2> QED BY <1>8, <2>1
<1>10. Beside(g, v, p, fan[1]) /\ Beside(g, v, fan[k + 1], n)
  <2>1. fan[1] = turn[0] /\ fan[k + 1] = turn[k]
    BY <1>4
  <2> QED BY <2>1 DEF Turns
<1>11. \A i \in 1..(Len(fan) - 1) : Beside(g, v, fan[i], fan[i + 1])
  <2> SUFFICES ASSUME NEW i \in 1..k PROVE Beside(g, v, fan[i], fan[i + 1])
    BY <1>3
  <2>1. i - 1 \in 0..(k - 1) /\ fan[i] = turn[i - 1] /\ fan[i + 1] = turn[(i - 1) + 1]
    <3>1. i \in 1..(k + 1) /\ i + 1 \in 1..(k + 1) /\ (i + 1) - 1 = (i - 1) + 1
      OBVIOUS
    <3> QED BY <1>4, <3>1
  <2> QED BY <1>1, <2>1
<1>12. Len(fan) >= 1 /\ k + 1 = Len(fan)
  BY <1>3
<1>13. Fanned(g, v, A, p, n, fan)
  BY <1>5, <1>9, <1>10, <1>11, <1>12 DEF Fanned
<1> QED BY <1>13 DEF fan

-----------------------------------------------------------------------------
(***************************************************************************)
(* The operators of ComputeBicOrder that look at the embedding.            *)
(***************************************************************************)
LEMMA RightIsEntry ==
  ASSUME IsEmbedding(E), NEW v, NEW w \in Around(E, v)
  PROVE  Entry(E, v, w, right(v, w)) /\ Entry(E, w, v, left(v, w))
<1>1. PICK f : Entry(E, v, w, f)
  BY AroundEntry
<1>2. PICK h : Entry(E, w, v, h)
  BY AroundEntry
<1> QED BY <1>1, <1>2 DEF Entry, right, left

LEMMA CyclicIsBeside ==
  ASSUME IsEmbedding(E), NEW v, NEW w \in Around(E, v)
  PROVE  /\ Beside(E, v, w, cyclicPred(v, w))
         /\ Beside(E, v, cyclicSucc(v, w), w)
         /\ \A x : Beside(E, v, w, x) => cyclicPred(v, w) = x
<1> DEFINE f == right(w, v)
           h == right(v, w)
<1>1. Entry(E, w, v, f) /\ Entry(E, v, w, h)
  BY RightIsEntry DEF left
<1>2. f \in DOMAIN E.faces /\ v \in OnFace(E, f) /\ h \in DOMAIN E.faces /\ v \in OnFace(E, h)
  BY <1>1, EntryFacts
<1>3. Entry(E, v, SuccOn(E.faces[f], v), f) /\ Entry(E, PredOn(E.faces[h], v), v, h)
  BY <1>2, FaceEntries
<1>4. cyclicPred(v, w) = SuccOn(E.faces[f], v) /\ cyclicSucc(v, w) = PredOn(E.faces[h], v)
  BY DEF cyclicPred, cyclicSucc, Succ, Pred, SuccOn, PredOn
<1> HIDE DEF f, h
<1>5. Beside(E, v, w, cyclicPred(v, w)) /\ Beside(E, v, cyclicSucc(v, w), w)
  BY <1>1, <1>3, <1>4 DEF Beside
<1> QED BY <1>5, BesideUnique

TurnOf(v, a, n, g) == g = [i \in 0..n |-> IF i = 0 THEN a ELSE cyclicPred(v, g[i - 1])]

LEMMA TurnExists ==
  ASSUME NEW v, NEW a, NEW n \in Nat
  PROVE  \E g : TurnOf(v, a, n, g)
<1> DEFINE Step(g, i) == IF i = 0 THEN a ELSE cyclicPred(v, g[i - 1])
           T == {m \in Int : \E g : g = [i \in 0..m |-> Step(g, i)]}
<1>1. 0 \in T
  <2> DEFINE g == [i \in 0..0 |-> a]
  <2>1. g = [i \in 0..0 |-> Step(g, i)]
    OBVIOUS
  <2> HIDE DEF g
  <2>2. \E f : f = [i \in 0..0 |-> Step(f, i)]
    BY <2>1, Zenon
  <2>3. 0 \in Int
    OBVIOUS
  <2> QED BY <2>2, <2>3, Zenon
<1>2. ASSUME NEW m \in 0..(n - 1), m \in T PROVE m + 1 \in T
  <2>1. PICK g : g = [i \in 0..m |-> Step(g, i)]
    BY <1>2
  <2> DEFINE h == [i \in 0..(m + 1) |-> Step(g, i)]
  <2>2. h = [i \in 0..(m + 1) |-> Step(h, i)]
    <3>1. ASSUME NEW i \in 0..(m + 1) PROVE Step(h, i) = Step(g, i)
      <4>1. CASE i = 0
        BY <4>1
      <4>2. CASE i # 0
        <5>1. i - 1 \in 0..m
          BY <4>2
        <5>2. h[i - 1] = Step(g, i - 1)
          BY <5>1
        <5>3. g[i - 1] = Step(g, i - 1)
          BY <5>1, <2>1, Zenon
        <5> QED BY <5>2, <5>3
      <4> QED BY <4>1, <4>2
    <3> QED BY <3>1
  <2> HIDE DEF h
  <2> QED BY <2>2
<1> HIDE DEF T
<1>3. n \in T
  BY <1>1, <1>2, Upwards
<1> QED BY <1>3 DEF T, TurnOf

(* getAdjNodes looks at the entries of v between its places on the contour. *)
LEMMA FanIsFan ==
  ASSUME IsEmbedding(E), NEW v \in E.nodes, NEW t, NEW A, NEW p, NEW n,
         Segment(E, v, A, p, n), p # n, ~ Beside(E, v, p, n),
         Beside(E, v, p, adjEnd(t, v)), Beside(E, v, adjStart(t, v), n)
  PROVE  Fanned(E, v, A, p, n, Fan(t, v))
<1> DEFINE N == Cardinality(E.nodes)
           a == adjEnd(t, v)
           last == adjStart(t, v)
           turn == CHOOSE g : g = [i \in 0..N |-> IF i = 0 THEN a ELSE cyclicPred(v, g[i - 1])]
           end == Min({k \in 0..N : turn[k] = last})
<1>1. N \in Nat
  BY AroundNodes
<1>2. turn = [i \in 0..N |-> IF i = 0 THEN a ELSE cyclicPred(v, turn[i - 1])]
  <2>1. turn = CHOOSE g : TurnOf(v, a, N, g)
    BY DEF TurnOf
  <2> HIDE DEF a, N, turn
  <2>2. \E g : TurnOf(v, a, N, g)
    BY <1>1, TurnExists
  <2>3. TurnOf(v, a, N, turn)
    BY <2>1, <2>2, Zenon
  <2> QED BY <2>3 DEF TurnOf
<1>3. Fan(t, v) = [i \in 1..(end + 1) |-> turn[i - 1]]
  BY DEF Fan, Nodes
<1> HIDE DEF turn, end
<1>4. Turns(E, v, p, turn, N)
  <2> HIDE DEF N
  <2>1. turn[0] = a
    BY <1>1, <1>2
  <2>2. ASSUME NEW i \in 0..(N - 1), NEW x, Beside(E, v, turn[i], x) PROVE turn[i + 1] = x
    <3>1. turn[i + 1] = cyclicPred(v, turn[i])
      <4>1. i + 1 \in 0..N /\ i + 1 # 0 /\ (i + 1) - 1 = i
        BY <1>1
      <4> QED BY <1>2, <4>1
    <3>2. turn[i] \in Around(E, v)
      BY <2>2, BesideUnique
    <3> QED BY <2>2, <3>1, <3>2, CyclicIsBeside
  <2> QED BY <2>1, <2>2 DEF Turns
<1> HIDE DEF a, last
<1>5. Beside(E, v, last, n)
  BY DEF last
<1>6. \E k \in 0..N : turn[k] = last
  <2>1. N = Cardinality(E.nodes)
    OBVIOUS
  <2> HIDE DEF N
  <2> QED BY <1>4, <1>5, <2>1, TurnEnds
<1> HIDE DEF N
<1>7. end \in {k \in 0..N : turn[k] = last} /\ \A k \in {k \in 0..N : turn[k] = last} : end <= k
  <2> DEFINE T == {k \in 0..N : turn[k] = last}
  <2>1. T \in SUBSET Int /\ T # {} /\ \A k \in T : 0 <= k
    BY <1>1, <1>6
  <2>2. end = Min(T)
    BY DEF end
  <2> HIDE DEF T
  <2>3. end \in T /\ \A k \in T : end <= k
    <3>1. 0 \in Int
      OBVIOUS
    <3> QED BY <2>1, <2>2, <3>1, BoundedMin
  <2> QED BY <2>3 DEF T
<1>8. end \in 0..N /\ Beside(E, v, turn[end], n)
  BY <1>5, <1>7
<1>9. \A i \in 0..(end - 1) : turn[i] # turn[end]
  <2> SUFFICES ASSUME NEW i \in 0..(end - 1), turn[i] = last PROVE FALSE
    BY <1>7
  <2>1. i \in 0..N /\ ~ end <= i
    BY <1>1, <1>8
  <2> QED BY <1>7, <2>1
<1>10. Fanned(E, v, A, p, n, [i \in 1..(end + 1) |-> turn[i - 1]])
  BY <1>1, <1>4, <1>8, <1>9, TurnFans
<1> HIDE DEF N, a, last
<1> QED BY <1>3, <1>10, Zenon

LEMMA PairCardinality ==
  ASSUME NEW p, NEW n, p # n
  PROVE  IsFiniteSet({p, n}) /\ Cardinality({p, n}) = 2
<1>1. IsFiniteSet({p}) /\ Cardinality({p}) = 1
  BY FS_Singleton
<1>2. IsFiniteSet({p} \cup {n}) /\ Cardinality({p} \cup {n}) = 1 + 1
  BY <1>1, FS_AddElement
<1>3. {p} \cup {n} = {p, n}
  OBVIOUS
<1> QED BY <1>2, <1>3

LEMMA PathJoin ==
  ASSUME NEW V, NEW P \in Path(V), NEW Q \in Path(V), ToSet(P) \cap ToSet(Q) = {}
  PROVE  /\ P \o Q \in Path(V)
         /\ Len(P \o Q) = Len(P) + Len(Q)
         /\ ToSet(P \o Q) = ToSet(P) \cup ToSet(Q)
         /\ \A i \in 1..Len(P) : (P \o Q)[i] = P[i]
         /\ \A i \in 1..Len(Q) : (P \o Q)[Len(P) + i] = Q[i]
<1> DEFINE d == P \o Q
           m == Len(P)
           n == Len(Q)
<1>1. /\ m \in Nat /\ n \in Nat /\ P \in Seq(V) /\ Q \in Seq(V)
      /\ \A i \in 1..m : P[i] \in V
      /\ \A i \in 1..n : Q[i] \in V
      /\ \A i, j \in 1..m : P[i] = P[j] => i = j
      /\ \A i, j \in 1..n : Q[i] = Q[j] => i = j
      /\ \A v : v \in ToSet(P) <=> \E i \in 1..m : P[i] = v
      /\ \A v : v \in ToSet(Q) <=> \E i \in 1..n : Q[i] = v
  BY PathIndices
<1>2. d \in Seq(V) /\ Len(d) = m + n
  BY <1>1
<1>3. \A i \in 1..(m + n) : d[i] = IF i <= m THEN P[i] ELSE Q[i - m]
  BY <1>1
<1> HIDE DEF d, m, n
<1>4. \A i \in 1..m : d[i] = P[i]
  BY <1>1, <1>3
<1>5. ASSUME NEW i \in 1..n PROVE d[m + i] = Q[i] /\ m + i \in 1..(m + n)
  <2>1. m + i \in 1..(m + n) /\ ~ m + i <= m /\ (m + i) - m = i
    BY <1>1
  <2> QED BY <1>3, <2>1
<1>6. ASSUME NEW i \in 1..(m + n), NEW j \in 1..(m + n), d[i] = d[j] PROVE i = j
  <2>1. \A k \in 1..(m + n) : k > m => k - m \in 1..n /\ d[k] = Q[k - m] /\ d[k] \in ToSet(Q)
    BY <1>1, <1>3
  <2>2. \A k \in 1..(m + n) : k <= m => k \in 1..m /\ d[k] = P[k] /\ d[k] \in ToSet(P)
    BY <1>1, <1>3
  <2>3. CASE i <= m /\ j <= m
    BY <1>1, <1>6, <2>2, <2>3
  <2>4. CASE i > m /\ j > m
    <3>1. i - m = j - m
      BY <1>1, <1>6, <2>1, <2>4
    <3> QED BY <1>1, <3>1
  <2>5. ~ (i <= m /\ j > m) /\ ~ (i > m /\ j <= m)
    BY <1>6, <2>1, <2>2
  <2> QED BY <1>1, <2>3, <2>4, <2>5
<1>7. DOMAIN d = 1..(m + n)
  BY <1>2, LenProperties
<1>8. d \in Path(V)
  BY <1>2, <1>6, <1>7 DEF Path
<1>9. ToSet(d) = ToSet(P) \cup ToSet(Q)
  <2>1. \A v : v \in ToSet(d) <=> \E i \in 1..(m + n) : d[i] = v
    BY <1>2, <1>8, PathIndices
  <2>2. \A v : v \in ToSet(d) => v \in ToSet(P) \/ v \in ToSet(Q)
    <3> SUFFICES ASSUME NEW i \in 1..(m + n) PROVE d[i] \in ToSet(P) \/ d[i] \in ToSet(Q)
      BY <2>1
    <3>1. i <= m => i \in 1..m
      BY <1>1
    <3>2. i > m => i - m \in 1..n
      BY <1>1
    <3> QED BY <1>1, <1>3, <3>1, <3>2
  <2>3. \A v : v \in ToSet(P) => v \in ToSet(d)
    <3>1. \A i \in 1..m : i \in 1..(m + n)
      BY <1>1
    <3> QED BY <1>1, <1>4, <2>1, <3>1
  <2>4. \A v : v \in ToSet(Q) => v \in ToSet(d)
    BY <1>1, <1>5, <2>1
  <2> QED BY <2>2, <2>3, <2>4
<1> QED BY <1>2, <1>4, <1>5, <1>8, <1>9 DEF d, m, n

LEMMA PathOfOne ==
  ASSUME NEW V, NEW x \in V
  PROVE  << x >> \in Path(V) /\ ToSet(<< x >>) = {x} /\ Len(<< x >>) = 1
BY DEF Path, ToSet

LEMMA PathOfNone ==
  ASSUME NEW V
  PROVE  << >> \in Path(V) /\ ToSet(<< >>) = {} /\ Len(<< >>) = 0
BY DEF Path, ToSet

-----------------------------------------------------------------------------
(***************************************************************************)
(* getAdjFaces: the faces between the nodes of a segment, each once; of    *)
(* the external face it may say nothing.                                   *)
(***************************************************************************)
Gaps(g, v, A, n) == {f \in DOMAIN g.faces : \E w \in A \ {n} : Entry(g, w, v, f)}

AdjFaces(g, v, A, n, adj) ==
  /\ adj \in Path(DOMAIN g.faces)
  /\ ToSet(adj) \subseteq Gaps(g, v, A, n)
  /\ Gaps(g, v, A, n) \ {extFace} \subseteq ToSet(adj)

LEMMA SegmentOfOne ==
  ASSUME NEW g, IsEmbedding(g), NEW v \in g.nodes, NEW A, NEW n, Segment(g, v, A, n, n)
  PROVE  A = {n}
<1> DEFINE some == A \ {n}
<1>1. \A w \in some : \A x : Beside(g, v, w, x) => x \in some
  BY DEF Segment
<1>2. some \in SUBSET Around(g, v) /\ n \in Around(g, v) /\ n \notin some
  BY DEF Segment
<1> HIDE DEF some
<1>3. some = {}
  BY <1>1, <1>2, Rotation
<1> QED BY <1>3 DEF some, Segment

LEMMA SegmentSize ==
  ASSUME NEW g, IsEmbedding(g), NEW v \in g.nodes, NEW A, NEW p, NEW n, Segment(g, v, A, p, n)
  PROVE  /\ IsFiniteSet(A) /\ Cardinality(A) \in Nat
         /\ Cardinality(A) <= 1 <=> p = n
         /\ Cardinality(A) <= 2 <=> p = n \/ Beside(g, v, p, n)
<1>1. IsFiniteSet(A) /\ Cardinality(A) \in Nat
  BY AroundNodes, FS_Subset, FS_CardinalityType DEF Segment
<1>2. p \in A /\ n \in A
  BY DEF Segment
<1>3. CASE p = n
  <2>1. A = {n}
    BY <1>3, SegmentOfOne
  <2>2. Cardinality(A) = 1
    BY <2>1, FS_Singleton
  <2> QED BY <1>1, <1>3, <2>2
<1>4. CASE p # n
  <2>1. IsFiniteSet({p, n}) /\ Cardinality({p, n}) = 2
    BY <1>4, PairCardinality
  <2>2. {p, n} \in SUBSET A
    BY <1>2
  <2>3. Cardinality({p, n}) <= Cardinality(A) /\ (Cardinality(A) = Cardinality({p, n}) => A = {p, n})
    BY <1>1, <2>2, FS_Subset
  <2>4. Cardinality(A) >= 2 /\ (Cardinality(A) = 2 => A = {p, n}) /\ (A = {p, n} => Cardinality(A) = 2)
    BY <1>1, <2>1, <2>3
  <2>5. A = {p, n} <=> Beside(g, v, p, n)
    BY <1>4, SegmentOfTwo, TwoAreBeside
  <2> QED BY <1>1, <1>4, <2>4, <2>5
<1> QED BY <1>3, <1>4

BelowFan(v, fan) == [i \in DOMAIN fan |-> right(v, fan[i])]

LEMMA FanFaces ==
  ASSUME IsEmbedding(E), NEW v \in E.nodes, NEW A, NEW p, NEW n, NEW fan,
         Segment(E, v, A, p, n), p # n, Fanned(E, v, A, p, n, fan),
         NEW last, Beside(E, v, last, n)
  PROVE  /\ BelowFan(v, fan) \in Path(DOMAIN E.faces)
         /\ left(v, last) \notin ToSet(BelowFan(v, fan))
         /\ Gaps(E, v, A, n) = ToSet(BelowFan(v, fan)) \cup {left(v, last)}
<1> DEFINE below == BelowFan(v, fan)
           m == Len(fan)
<1>1. /\ m \in Nat /\ m >= 1 /\ DOMAIN fan = 1..m
      /\ \A i \in 1..m : fan[i] \in ToSet(fan)
      /\ \A i, j \in 1..m : fan[i] = fan[j] => i = j
      /\ \A w : w \in ToSet(fan) <=> \E i \in 1..m : fan[i] = w
  BY PathIndices DEF Fanned
<1>2. /\ ToSet(fan) = A \ {p, n} /\ A \subseteq Around(E, v) /\ p \in A /\ n \in A
      /\ Beside(E, v, p, fan[1]) /\ Beside(E, v, fan[m], n)
      /\ \A i \in 1..(m - 1) : Beside(E, v, fan[i], fan[i + 1])
  BY DEF Fanned, Segment
<1> HIDE DEF m
<1>3. \A i \in 1..m : fan[i] \in A \ {p, n} /\ Entry(E, v, fan[i], right(v, fan[i]))
  BY <1>1, <1>2, RightIsEntry
<1>4. last = fan[m] /\ last \in A \ {p, n} /\ Entry(E, last, v, left(v, last))
  <2>1. last = fan[m]
    BY <1>2, BesideUnique
  <2> QED BY <1>1, <1>2, <2>1, RightIsEntry
<1>5. DOMAIN below = 1..m /\ \A i \in 1..m : below[i] = right(v, fan[i])
  BY <1>1 DEF BelowFan
<1>6. below \in Path(DOMAIN E.faces)
  <2>1. \A i \in 1..m : below[i] \in DOMAIN E.faces
    BY <1>3, <1>5, EntryFacts
  <2>2. below \in [1..m -> DOMAIN E.faces]
    BY <1>1, <2>1 DEF BelowFan
  <2>3. below \in Seq(DOMAIN E.faces)
    BY <1>1, <2>2
  <2>4. ASSUME NEW i \in 1..m, NEW j \in 1..m, below[i] = below[j] PROVE i = j
    <3>1. Entry(E, v, fan[i], below[i]) /\ Entry(E, v, fan[j], below[i])
      BY <1>3, <1>5, <2>4
    <3>2. below[i] \in DOMAIN E.faces /\ v \in OnFace(E, below[i])
      BY <3>1, EntryFacts
    <3>3. fan[i] = fan[j]
      BY <3>1, <3>2, FaceEntries
    <3> QED BY <1>1, <3>3
  <2> HIDE DEF below
  <2> QED BY <1>5, <2>3, <2>4 DEF Path
<1> HIDE DEF below
<1>7. \A f : f \in ToSet(below) <=> \E x \in ToSet(fan) : right(v, x) = f
  <2>1. Len(below) = m
    BY <1>5, <1>6, <1>1, PathIndices, LenProperties
  <2>2. \A f : f \in ToSet(below) <=> \E i \in 1..m : below[i] = f
    BY <1>6, <2>1, PathIndices
  <2> QED BY <1>1, <1>5, <2>2
<1>8. \A x \in ToSet(fan) : Entry(E, v, x, right(v, x)) /\ x # n
  BY <1>2, RightIsEntry
<1>9. left(v, last) \notin ToSet(below)
  <2> SUFFICES ASSUME NEW x \in ToSet(fan), right(v, x) = left(v, last) PROVE FALSE
    BY <1>7
  <2>1. Entry(E, v, x, left(v, last))
    BY <1>8
  <2>2. Beside(E, v, last, x)
    BY <1>4, <2>1 DEF Beside
  <2> QED BY <1>8, <2>2, BesideUnique
<1>10. left(v, last) \in Gaps(E, v, A, n)
  BY <1>4, EntryFacts DEF Gaps
<1>11. ASSUME NEW x \in ToSet(fan) PROVE right(v, x) \in Gaps(E, v, A, n)
  <2>1. PICK w \in A \ {n} : Beside(E, v, w, x)
    <3>1. PICK i \in 1..m : fan[i] = x
      BY <1>1
    <3>2. CASE i = 1
      BY <1>2, <3>1, <3>2
    <3>3. CASE i # 1
      <4>1. i - 1 \in 1..(m - 1) /\ i - 1 \in 1..m /\ (i - 1) + 1 = i
        BY <1>1, <3>3
      <4> QED BY <1>2, <1>3, <3>1, <4>1
    <3> QED BY <3>2, <3>3
  <2>2. PICK f : Entry(E, w, v, f) /\ Entry(E, v, x, f)
    BY <2>1 DEF Beside
  <2>3. f = right(v, x) /\ f \in DOMAIN E.faces
    BY <1>8, <2>2, EntryFacts
  <2> QED BY <2>2, <2>3 DEF Gaps
<1>12. ASSUME NEW f \in Gaps(E, v, A, n), f # left(v, last) PROVE f \in ToSet(below)
  <2>1. PICK w \in A \ {n} : Entry(E, w, v, f)
    BY DEF Gaps
  <2>2. w # last
    BY <1>4, <1>12, <2>1, EntryFacts
  <2>3. PICK x : Beside(E, v, w, x)
    BY <1>2, BesideExists
  <2>4. x \in A /\ x # p
    BY <2>3 DEF Segment
  <2>5. x # n
    BY <2>2, <2>3, BesideUnique
  <2>6. PICK h : Entry(E, w, v, h) /\ Entry(E, v, x, h)
    BY <2>3 DEF Beside
  <2>7. x \in ToSet(fan) /\ h = f
    BY <1>2, <2>1, <2>4, <2>5, <2>6, EntryFacts
  <2>8. right(v, x) = f
    BY <1>8, <2>6, <2>7, EntryFacts
  <2> QED BY <1>7, <2>7, <2>8
<1>13. Gaps(E, v, A, n) = ToSet(below) \cup {left(v, last)}
  BY <1>7, <1>10, <1>11, <1>12
<1> QED BY <1>6, <1>9, <1>10, <1>13 DEF below

LEMMA GetAdjFaces ==
  ASSUME IsEmbedding(E), NEW v \in E.nodes, NEW t, NEW A, NEW p, NEW n,
         Segment(E, v, A, p, n), t.deg[v] = Cardinality(A),
         Beside(E, v, p, adjEnd(t, v)), Beside(E, v, adjStart(t, v), n)
  PROVE  AdjFaces(E, v, A, n, getAdjFaces(t, v))
<1> DEFINE last == adjStart(t, v)
           first == left(v, last)
           head == IF first = extFace THEN << >> ELSE << first >>
           below == BelowFan(v, Fan(t, v))
           X == DOMAIN E.faces
<1>1. /\ Cardinality(A) \in Nat
      /\ Cardinality(A) <= 1 <=> p = n
      /\ Cardinality(A) <= 2 <=> p = n \/ Beside(E, v, p, n)
  BY SegmentSize
<1>2. Beside(E, v, last, n)
  OBVIOUS
<1>3. last \in Around(E, v) /\ Entry(E, last, v, first) /\ first \in X
  <2> HIDE DEF last
  <2>1. last \in Around(E, v)
    BY <1>2, BesideUnique
  <2> QED BY <2>1, RightIsEntry, EntryFacts
<1>4. getAdjFaces(t, v) =
        IF t.deg[v] <= 1 THEN << >> ELSE head \o (IF t.deg[v] < 3 THEN << >> ELSE below)
  BY DEF getAdjFaces, BelowFan
<1> HIDE DEF last, first
<1>5. head \in Path(X) /\ ToSet(head) \subseteq {first} /\ {first} \ {extFace} \subseteq ToSet(head)
  BY <1>3, PathOfOne, PathOfNone
<1>6. CASE p = n
  <2>1. A \ {n} = {}
    BY <1>6, SegmentOfOne
  <2>2. getAdjFaces(t, v) = << >>
    BY <1>1, <1>4, <1>6
  <2> QED BY <2>1, <2>2, PathOfNone DEF AdjFaces, Gaps
<1>7. CASE p # n /\ Beside(E, v, p, n)
  <2>1. getAdjFaces(t, v) = head
    <3>1. ~ t.deg[v] <= 1 /\ t.deg[v] < 3
      BY <1>1, <1>7
    <3>2. head \o << >> = head
      BY <1>5 DEF Path
    <3> QED BY <1>4, <3>1, <3>2
  <2>2. A \ {n} = {p} /\ last = p
    BY <1>2, <1>7, SegmentOfTwo, BesideUnique
  <2>3. Gaps(E, v, A, n) = {first}
    BY <1>3, <2>2, EntryFacts DEF Gaps
  <2> HIDE DEF head
  <2> QED BY <1>5, <2>1, <2>3 DEF AdjFaces
<1>8. CASE p # n /\ ~ Beside(E, v, p, n)
  <2>1. getAdjFaces(t, v) = head \o below
    <3>1. ~ t.deg[v] <= 1 /\ ~ t.deg[v] < 3
      BY <1>1, <1>8
    <3> HIDE DEF head, below
    <3> QED BY <1>4, <3>1
  <2>2. Fanned(E, v, A, p, n, Fan(t, v))
    BY <1>8, FanIsFan
  <2>3. /\ below \in Path(X) /\ first \notin ToSet(below)
        /\ Gaps(E, v, A, n) = ToSet(below) \cup {first}
    BY <1>2, <1>8, <2>2, FanFaces DEF first
  <2> HIDE DEF head, below
  <2>4. ToSet(head) \cap ToSet(below) = {}
    BY <1>5, <2>3
  <2>5. head \o below \in Path(X) /\ ToSet(head \o below) = ToSet(head) \cup ToSet(below)
    BY <1>5, <2>3, <2>4, PathJoin
  <2> QED BY <1>5, <2>1, <2>3, <2>5 DEF AdjFaces
<1> QED BY <1>6, <1>7, <1>8

-----------------------------------------------------------------------------
(***************************************************************************)
(* The contour c of the graph g with the base b, when the nodes of R have  *)
(* been removed and no virtual edge was put on it.                         *)
(***************************************************************************)
(* The base: consecutive on the external face.  It is at most a third of   *)
(* it, which is why the external face never separates.                     *)
BaseShape(g, b) ==
  /\ b \in Path(g.nodes) /\ Len(b) >= 2
  /\ 3 * Len(b) <= Len(g.faces[extFace]) + 3 /\ Len(b) < Len(g.faces[extFace])
  /\ \A i \in 1..(Len(b) - 1) : Entry(g, b[i], b[i + 1], extFace)

(* The faces with all their nodes.                                         *)
Whole(g, R) == {f \in DOMAIN g.faces : f # extFace /\ OnFace(g, f) \cap R = {}}

(* What may be inside the contour at its node v.                           *)
Inside(g, b, R, v, f) == f \in Whole(g, R) \/ (f = extFace /\ v \in ToSet(b))

(* The edge from v to w on the contour: nothing whole is outside.          *)
EdgeShape(g, R, v, w) ==
  w \in Around(g, v) /\ \A f : Entry(g, w, v, f) => f \notin Whole(g, R)

(* The node v on the contour between p and n.                              *)
NodeShape(g, b, R, p, v, n) ==
  /\ Segment(g, v, Around(g, v) \ R, p, n)
  /\ \A w \in Around(g, v) \ (R \cup {n}) : \A f : Entry(g, w, v, f) => Inside(g, b, R, v, f)

Before(b, c, i) == IF i = 1 THEN b[2] ELSE c[i - 1]
After(b, c, i) == IF i = Len(c) THEN b[Len(b) - 1] ELSE c[i + 1]

ContourShape(g, b, c, R) ==
  /\ c \in Path(g.nodes) /\ Len(c) >= 2 /\ c[1] = b[1] /\ c[Len(c)] = b[Len(b)]
  /\ R \subseteq g.nodes /\ R \cap ToSet(c) = {} /\ R \cap ToSet(b) = {}
  /\ \A i \in 1..(Len(c) - 1) : EdgeShape(g, R, c[i], c[i + 1])
  /\ \A i \in 1..Len(c) : NodeShape(g, b, R, Before(b, c, i), c[i], After(b, c, i))
  /\ \A f \in DOMAIN g.faces \ Whole(g, R) :
       OnFace(g, f) \subseteq ToSet(c) \cup R \cup (IF f = extFace THEN ToSet(b) ELSE {})

(* The faces f that a node of the contour has inside are the whole ones.   *)
FacesOf(g, b, R, v, F) ==
  /\ \A f \in F : f \in DOMAIN g.faces /\ Inside(g, b, R, v, f)
  /\ \A f \in Whole(g, R) : f \in F <=> v \in OnFace(g, f)

LEMMA BaseFacts ==
  ASSUME NEW g, IsEmbedding(g), NEW b, BaseShape(g, b)
  PROVE  /\ Len(b) \in Nat /\ extFace \in DOMAIN g.faces
         /\ \A i \in 1..Len(b) : b[i] \in g.nodes /\ b[i] \in ToSet(b) /\ b[i] \in OnFace(g, extFace)
         /\ \A i, j \in 1..Len(b) : b[i] = b[j] => i = j
         /\ ToSet(b) \subseteq OnFace(g, extFace)
<1>1. /\ Len(b) \in Nat /\ Len(b) >= 2
      /\ \A i \in 1..Len(b) : b[i] \in g.nodes /\ b[i] \in ToSet(b)
      /\ \A i, j \in 1..Len(b) : b[i] = b[j] => i = j
      /\ \A v : v \in ToSet(b) <=> \E i \in 1..Len(b) : b[i] = v
  BY PathIndices DEF BaseShape
<1>2. \A i \in 1..(Len(b) - 1) : b[i] \in OnFace(g, extFace) /\ b[i + 1] \in OnFace(g, extFace)
  BY EntryFacts DEF BaseShape
<1>3. ASSUME NEW i \in 1..Len(b) PROVE b[i] \in OnFace(g, extFace)
  <2>1. CASE i = Len(b)
    <3>1. i - 1 \in 1..(Len(b) - 1) /\ (i - 1) + 1 = i
      BY <1>1, <2>1
    <3> QED BY <1>2, <3>1
  <2>2. CASE i # Len(b)
    <3>1. i \in 1..(Len(b) - 1)
      BY <1>1, <2>2
    <3> QED BY <1>2, <3>1
  <2> QED BY <2>1, <2>2
<1>4. extFace \in DOMAIN g.faces
  <2>1. 1 \in 1..(Len(b) - 1)
    BY <1>1
  <2> QED BY <2>1, EntryFacts DEF BaseShape
<1> QED BY <1>1, <1>3, <1>4

LEMMA ContourIndices ==
  ASSUME NEW g, IsEmbedding(g), NEW b, NEW c, NEW R, ContourShape(g, b, c, R)
  PROVE  /\ Len(c) \in Nat /\ Len(c) >= 2 /\ DOMAIN c = 1..Len(c)
         /\ \A i \in 1..Len(c) : c[i] \in g.nodes /\ c[i] \in ToSet(c) /\ c[i] \notin R
         /\ \A i, j \in 1..Len(c) : c[i] = c[j] => i = j
         /\ \A v : v \in ToSet(c) <=> \E i \in 1..Len(c) : c[i] = v
BY PathIndices DEF ContourShape

LEMMA GapsAreFaces ==
  ASSUME NEW g, IsEmbedding(g), NEW b, BaseShape(g, b), NEW c, NEW R, ContourShape(g, b, c, R),
         NEW i \in 1..Len(c)
  PROVE  FacesOf(g, b, R, c[i], Gaps(g, c[i], Around(g, c[i]) \ R, After(b, c, i)))
<1> DEFINE v == c[i]
           n == After(b, c, i)
           F == Gaps(g, v, Around(g, v) \ R, n)
<1>1. NodeShape(g, b, R, Before(b, c, i), v, n)
  BY DEF ContourShape
<1>2. \A f \in F : f \in DOMAIN g.faces /\ Inside(g, b, R, v, f)
  BY <1>1 DEF NodeShape, Gaps
<1>3. \A f \in F : v \in OnFace(g, f)
  BY EntryFacts DEF Gaps
<1>4. \A f : Entry(g, n, v, f) => f \notin Whole(g, R)
  <2>1. CASE i = Len(c)
    <3>1. Len(b) - 1 \in 1..(Len(b) - 1) /\ (Len(b) - 1) + 1 = Len(b) /\ v = b[Len(b)] /\ n = b[Len(b) - 1]
      BY <2>1, BaseFacts DEF After, ContourShape, BaseShape
    <3>2. Entry(g, n, v, extFace)
      BY <3>1 DEF BaseShape
    <3> QED BY <3>2, EntryFacts DEF Whole
  <2>2. CASE i # Len(c)
    <3>1. i \in 1..(Len(c) - 1) /\ n = c[i + 1]
      BY <2>2, ContourIndices DEF After
    <3> QED BY <3>1 DEF ContourShape, EdgeShape
  <2> QED BY <2>1, <2>2
<1>5. ASSUME NEW f \in Whole(g, R), v \in OnFace(g, f) PROVE f \in F
  <2>1. f \in DOMAIN g.faces
    BY DEF Whole
  <2>2. PICK w : Entry(g, w, v, f)
    BY <1>5, <2>1, FaceEntries
  <2>3. w \in Around(g, v) /\ w \in OnFace(g, f) /\ w # n
    BY <1>4, <2>2, EntryFacts
  <2>4. w \notin R
    BY <2>3 DEF Whole
  <2> QED BY <2>1, <2>2, <2>3, <2>4 DEF Gaps
<1> QED BY <1>2, <1>3, <1>5 DEF FacesOf

-----------------------------------------------------------------------------
(***************************************************************************)
(* What PathToContour counts.  Node nodes[i] has the faces adj[i].         *)
(***************************************************************************)
LEMMA CountByPart ==
  ASSUME NEW S, NEW T, IsFiniteSet(T), NEW k,
         \A x \in S : x[k] \in T,
         \A x, y \in S : x[k] = y[k] => x = y,
         \A y \in T : \E x \in S : x[k] = y
  PROVE  IsFiniteSet(S) /\ Cardinality(S) = Cardinality(T)
<1> DEFINE f == [x \in S |-> x[k]]
<1>1. f \in [S -> T] /\ \A x \in S : f[x] = x[k]
  OBVIOUS
<1> HIDE DEF f
<1>2. f \in Injection(S, T)
  BY <1>1 DEF Injection, IsInjective
<1>3. f \in Surjection(S, T)
  BY <1>1 DEF Surjection
<1> QED BY <1>2, <1>3, FS_Injection

MetOf(nodes, adj) ==
  UNION {{<< nodes[i], adj[i][j], i, j >> : j \in DOMAIN adj[i]} : i \in DOMAIN nodes}

MetCovers(nodes, adj) ==
  \A i \in 1..Len(nodes) : \A x \in ToSet(adj[i]) :
    \E m \in MetOf(nodes, adj) : m[1] = nodes[i] /\ m[2] = x

LEMMA MetMembers ==
  ASSUME NEW V, NEW F, NEW nodes \in Path(V), NEW adj, \A i \in 1..Len(nodes) : adj[i] \in Path(F)
  PROVE  /\ MetCovers(nodes, adj)
         /\ \A m \in MetOf(nodes, adj) :
              \E i \in 1..Len(nodes) : m[1] = nodes[i] /\ m[2] \in ToSet(adj[i]) /\ m[1] \in V /\ m[2] \in F
         /\ \A m, n \in MetOf(nodes, adj) : m[1] = n[1] /\ m[2] = n[2] => m = n
<1> DEFINE M == MetOf(nodes, adj)
<1>1. /\ DOMAIN nodes = 1..Len(nodes)
      /\ \A i \in 1..Len(nodes) : nodes[i] \in V
      /\ \A i, j \in 1..Len(nodes) : nodes[i] = nodes[j] => i = j
  BY PathIndices
<1>2. ASSUME NEW i \in 1..Len(nodes)
      PROVE  /\ \A j \in DOMAIN adj[i] : adj[i][j] \in ToSet(adj[i]) /\ adj[i][j] \in F
             /\ \A j, k \in DOMAIN adj[i] : adj[i][j] = adj[i][k] => j = k
             /\ \A f \in ToSet(adj[i]) : \E j \in DOMAIN adj[i] : adj[i][j] = f
  <2> DEFINE a == adj[i]
  <2>1. a \in Path(F)
    OBVIOUS
  <2> HIDE DEF a
  <2>2. /\ \A j \in DOMAIN a : a[j] \in ToSet(a) /\ a[j] \in F
        /\ \A j, k \in DOMAIN a : a[j] = a[k] => j = k
        /\ \A f \in ToSet(a) : \E j \in DOMAIN a : a[j] = f
    BY <2>1, PathIndices
  <2> QED BY <2>2 DEF a
<1>3. \A m : m \in M <=> \E i \in 1..Len(nodes) : \E j \in DOMAIN adj[i] : m = << nodes[i], adj[i][j], i, j >>
  BY <1>1 DEF MetOf
<1> HIDE DEF M
<1>4. ASSUME NEW i \in 1..Len(nodes), NEW f \in ToSet(adj[i])
      PROVE  \E m \in M : m[1] = nodes[i] /\ m[2] = f
  <2>1. PICK j \in DOMAIN adj[i] : adj[i][j] = f
    BY <1>2
  <2>2. << nodes[i], adj[i][j], i, j >> \in M
    BY <1>3
  <2> QED BY <2>1, <2>2
<1>5. ASSUME NEW m \in M
      PROVE  \E i \in 1..Len(nodes) : m[1] = nodes[i] /\ m[2] \in ToSet(adj[i]) /\ m[1] \in V /\ m[2] \in F
  BY <1>1, <1>2, <1>3
<1>6. ASSUME NEW m \in M, NEW n \in M, m[1] = n[1], m[2] = n[2] PROVE m = n
  <2>1. PICK i \in 1..Len(nodes) : \E j \in DOMAIN adj[i] : m = << nodes[i], adj[i][j], i, j >>
    BY <1>3
  <2>2. PICK k \in 1..Len(nodes) : \E l \in DOMAIN adj[k] : n = << nodes[k], adj[k][l], k, l >>
    BY <1>3
  <2>3. PICK j \in DOMAIN adj[i] : m = << nodes[i], adj[i][j], i, j >>
    BY <2>1
  <2>4. PICK l \in DOMAIN adj[k] : n = << nodes[k], adj[k][l], k, l >>
    BY <2>2
  <2>5. i = k
    BY <1>1, <1>6, <2>3, <2>4
  <2>6. j = l
    BY <1>2, <1>6, <2>3, <2>4, <2>5
  <2> QED BY <2>3, <2>4, <2>5, <2>6
<1> QED BY <1>4, <1>5, <1>6 DEF M, MetCovers

Times(nodes, adj, vs, fs) == Cardinality({m \in MetOf(nodes, adj) : m[1] \in vs /\ m[2] \in fs})

NodesOfFace(V, nodes, adj, f) ==
  {v \in V : \E i \in 1..Len(nodes) : nodes[i] = v /\ f \in ToSet(adj[i])}

LEMMA TimesOfFace ==
  ASSUME NEW V, IsFiniteSet(V), NEW F, NEW nodes \in Path(V), NEW adj,
         \A i \in 1..Len(nodes) : adj[i] \in Path(F), NEW f
  PROVE  Times(nodes, adj, V, {f})
           = Cardinality(NodesOfFace(V, nodes, adj, f))
<1> DEFINE S == {m \in MetOf(nodes, adj) : m[1] \in V /\ m[2] \in {f}}
           T == NodesOfFace(V, nodes, adj, f)
<1>1. IsFiniteSet(T)
  BY FS_Subset DEF NodesOfFace
<1>2. \A x \in S : x[1] \in T
  BY MetMembers DEF NodesOfFace
<1>3. \A x, y \in S : x[1] = y[1] => x = y
  BY MetMembers
<1>0. MetCovers(nodes, adj)
  BY MetMembers
<1>4. ASSUME NEW y \in T PROVE \E x \in S : x[1] = y
  <2>1. PICK i \in 1..Len(nodes) : nodes[i] = y /\ f \in ToSet(adj[i])
    BY DEF NodesOfFace
  <2>2. PICK m \in MetOf(nodes, adj) : m[1] = nodes[i] /\ m[2] = f
    BY <1>0, <2>1 DEF MetCovers
  <2> QED BY <2>1, <2>2 DEF NodesOfFace
<1> HIDE DEF S, T
<1>5. Cardinality(S) = Cardinality(T)
  BY <1>1, <1>2, <1>3, <1>4, CountByPart
<1> QED BY <1>5 DEF S, T, Times

LEMMA TimesOfNode ==
  ASSUME NEW V, NEW F, IsFiniteSet(F), NEW nodes \in Path(V), NEW adj,
         \A i \in 1..Len(nodes) : adj[i] \in Path(F), NEW k \in 1..Len(nodes), NEW fs
  PROVE  Times(nodes, adj, {nodes[k]}, fs) = Cardinality(ToSet(adj[k]) \cap fs)
<1> DEFINE S == {m \in MetOf(nodes, adj) : m[1] \in {nodes[k]} /\ m[2] \in fs}
           T == ToSet(adj[k]) \cap fs
<1>1. \A i, j \in 1..Len(nodes) : nodes[i] = nodes[j] => i = j
  BY PathIndices
<1>2. IsFiniteSet(T)
  <2> DEFINE a == adj[k]
  <2>1. a \in Path(F)
    OBVIOUS
  <2> HIDE DEF a
  <2>2. ToSet(a) \subseteq F
    BY <2>1, PathIndices
  <2> QED BY <2>2, FS_Subset DEF a
<1>3. \A x \in S : x[2] \in T
  BY <1>1, MetMembers
<1>4. \A x, y \in S : x[2] = y[2] => x = y
  BY MetMembers
<1>0. MetCovers(nodes, adj)
  BY MetMembers
<1>5. ASSUME NEW y \in T PROVE \E x \in S : x[2] = y
  <2>1. PICK m \in MetOf(nodes, adj) : m[1] = nodes[k] /\ m[2] = y
    BY <1>0 DEF MetCovers
  <2> QED BY <2>1
<1> HIDE DEF S, T
<1>6. Cardinality(S) = Cardinality(T)
  BY <1>2, <1>3, <1>4, <1>5, CountByPart
<1> QED BY <1>6 DEF S, T, Times

LEMMA TimesOfOther ==
  ASSUME NEW V, NEW F, NEW nodes \in Path(V), NEW adj,
         \A i \in 1..Len(nodes) : adj[i] \in Path(F), NEW v, v \notin ToSet(nodes), NEW fs
  PROVE  Times(nodes, adj, {v}, fs) = 0
<1>1. \A i \in 1..Len(nodes) : nodes[i] \in ToSet(nodes)
  BY PathIndices
<1>2. {m \in MetOf(nodes, adj) : m[1] \in {v} /\ m[2] \in fs} = {}
  BY <1>1, MetMembers
<1> QED BY <1>2, FS_EmptySet DEF Times

(* The faces of the pairs of a path.                                       *)
MetPairs(n, adj, big, inF) ==
  UNION {{<< adj[i][j], i, j >> : j \in {j \in DOMAIN adj[i] : << big[i], adj[i][j] >> \in inF}} : i \in 1..n}

MetFace(n, adj, big, inF, f) == {m \in MetPairs(n, adj, big, inF) : m[1] = f}
PairPlaces(n, adj, big, inF, f) == {i \in 1..n : f \in ToSet(adj[i]) /\ << big[i], f >> \in inF}

LEMMA PairsOfFace ==
  ASSUME NEW F, NEW n \in Nat, NEW adj, \A i \in 1..n : adj[i] \in Path(F), NEW big, NEW inF, NEW f
  PROVE  /\ Cardinality(MetFace(n, adj, big, inF, f))
              = Cardinality(PairPlaces(n, adj, big, inF, f))
         /\ f \in {m[1] : m \in MetPairs(n, adj, big, inF)}
              <=> PairPlaces(n, adj, big, inF, f) # {}
         /\ IsFiniteSet(PairPlaces(n, adj, big, inF, f))
<1> DEFINE M == MetPairs(n, adj, big, inF)
           S == {m \in M : m[1] = f}
           T == {i \in 1..n : f \in ToSet(adj[i]) /\ << big[i], f >> \in inF}
<1>1. ASSUME NEW i \in 1..n
      PROVE  /\ \A j \in DOMAIN adj[i] : adj[i][j] \in ToSet(adj[i])
             /\ \A j, k \in DOMAIN adj[i] : adj[i][j] = adj[i][k] => j = k
             /\ \A x \in ToSet(adj[i]) : \E j \in DOMAIN adj[i] : adj[i][j] = x
  <2> DEFINE a == adj[i]
  <2>1. a \in Path(F)
    OBVIOUS
  <2> HIDE DEF a
  <2>2. /\ \A j \in DOMAIN a : a[j] \in ToSet(a)
        /\ \A j, k \in DOMAIN a : a[j] = a[k] => j = k
        /\ \A x \in ToSet(a) : \E j \in DOMAIN a : a[j] = x
    BY <2>1, PathIndices
  <2> QED BY <2>2 DEF a
<1>2. \A m : m \in M <=> \E i \in 1..n : \E j \in DOMAIN adj[i] :
                           << big[i], adj[i][j] >> \in inF /\ m = << adj[i][j], i, j >>
  BY DEF MetPairs
<1> HIDE DEF M
<1>3. IsFiniteSet(T)
  <2>1. IsFiniteSet(1..n)
    BY FS_Interval
  <2> QED BY <2>1, FS_Subset
<1>4. ASSUME NEW x \in S PROVE x[2] \in T
  <2>1. PICK i \in 1..n : \E j \in DOMAIN adj[i] :
          << big[i], adj[i][j] >> \in inF /\ x = << adj[i][j], i, j >>
    BY <1>2
  <2>2. PICK j \in DOMAIN adj[i] : << big[i], adj[i][j] >> \in inF /\ x = << adj[i][j], i, j >>
    BY <2>1
  <2>3. adj[i][j] = f /\ x[2] = i /\ adj[i][j] \in ToSet(adj[i])
    BY <1>1, <2>2
  <2> QED BY <2>2, <2>3
<1>5. \A x, y \in S : x[2] = y[2] => x = y
  <2> SUFFICES ASSUME NEW x \in S, NEW y \in S, x[2] = y[2] PROVE x = y
    OBVIOUS
  <2>1. PICK i \in 1..n : \E j \in DOMAIN adj[i] : x = << adj[i][j], i, j >>
    BY <1>2
  <2>2. PICK k \in 1..n : \E l \in DOMAIN adj[k] : y = << adj[k][l], k, l >>
    BY <1>2
  <2>3. PICK j \in DOMAIN adj[i] : x = << adj[i][j], i, j >>
    BY <2>1
  <2>4. PICK l \in DOMAIN adj[k] : y = << adj[k][l], k, l >>
    BY <2>2
  <2>5. i = k /\ adj[i][j] = f /\ adj[k][l] = f
    BY <2>3, <2>4
  <2>6. j = l
    BY <1>1, <2>5
  <2> QED BY <2>3, <2>4, <2>5, <2>6
<1>6. ASSUME NEW y \in T PROVE \E x \in S : x[2] = y
  <2>1. PICK j \in DOMAIN adj[y] : adj[y][j] = f
    BY <1>1
  <2>2. << adj[y][j], y, j >> \in M
    BY <1>2, <2>1
  <2> QED BY <2>1, <2>2
<1>7. Cardinality(S) = Cardinality(T)
  <2> HIDE DEF S, T
  <2> QED BY <1>3, <1>4, <1>5, <1>6, CountByPart
<1>8. f \in {m[1] : m \in M} <=> T # {}
  <2>1. f \in {m[1] : m \in M} <=> S # {}
    OBVIOUS
  <2> HIDE DEF S, T
  <2> QED BY <1>4, <1>6, <2>1
<1> QED BY <1>3, <1>7, <1>8 DEF M, PairPlaces, MetFace

-----------------------------------------------------------------------------
(***************************************************************************)
(* The state of ComputeBicOrder, and what PathToContour does to it.        *)
(***************************************************************************)
Fields ==
  {"contour", "nextSucc", "prevPred", "virt", "deg", "cutf", "numsf", "onOuter",
   "outv", "oute", "seqp", "virtSrc", "isSf", "outer", "inF", "updF", "updV",
   "possF", "possV", "possE", "fLink", "vLink", "eLink", "dangling"}

IsState(g, t) ==
  /\ DOMAIN t = Fields
  /\ t.contour \in Seq(g.nodes) /\ t.onOuter \subseteq g.nodes
  /\ t.nextSucc \in [g.nodes -> Int] /\ t.prevPred \in [g.nodes -> Int]
  /\ t.deg \in [g.nodes -> Int] /\ t.cutf \in [g.nodes -> Int] /\ t.numsf \in [g.nodes -> Int]
  /\ t.outv \in [DOMAIN g.faces -> Int] /\ t.oute \in [DOMAIN g.faces -> Int]
  /\ t.seqp \in [DOMAIN g.faces -> Int] /\ t.virtSrc \in [DOMAIN g.faces -> Int]
  /\ t.outer \in [DOMAIN g.faces -> [g.nodes -> Int]]

(* What no counting changes.                                               *)
Kept(t, u) ==
  /\ u.nextSucc = t.nextSucc /\ u.prevPred = t.prevPred /\ u.virt = t.virt
  /\ u.deg = t.deg /\ u.onOuter = t.onOuter /\ u.virtSrc = t.virtSrc
  /\ u.isSf = t.isSf /\ u.inF = t.inF
  /\ u.possF = t.possF /\ u.possV = t.possV /\ u.possE = t.possE
  /\ u.fLink = t.fLink /\ u.vLink = t.vLink /\ u.eLink = t.eLink
  /\ u.dangling = t.dangling

EdgesBelow(t, path, f) == {i \in 1..(Len(path) - 1) : rightOf(t, path[i]) = f}

LEMMA SetOute ==
  ASSUME NEW t, IsState(E, t), NEW path,
         \A i \in 1..(Len(path) - 1) : rightOf(t, path[i]) \in DOMAIN E.faces
  PROVE  LET u == setOute(t, path) IN
         /\ IsState(E, u) /\ Kept(t, u)
         /\ u.contour = t.contour /\ u.outv = t.outv /\ u.seqp = t.seqp /\ u.outer = t.outer
         /\ u.cutf = t.cutf /\ u.numsf = t.numsf /\ u.updV = t.updV
         /\ \A f \in DOMAIN E.faces : u.oute[f] = t.oute[f] + Cardinality(EdgesBelow(t, path, f))
         /\ \A f : f \in u.updF <=> f \in t.updF \/ EdgesBelow(t, path, f) # {}
<1> DEFINE n == Len(path) - 1
           under == [i \in 1..n |-> rightOf(t, path[i])]
           below(f) == {i \in 1..n : rightOf(t, path[i]) = f}
           u == setOute(t, path)
           new == [f \in DOMAIN E.faces |-> t.oute[f] + Cardinality(below(f))]
           met == {rightOf(t, path[i]) : i \in 1..n}
<1>1. ToSet(under) = met /\ DOMAIN under = 1..n
  BY DEF ToSet
<1>2. \A f : {i \in DOMAIN under : under[i] = f} = below(f)
  OBVIOUS
<1>3. u = [t EXCEPT !.oute = [f \in Faces |-> @[f] + Cardinality({i \in DOMAIN under : under[i] = f})],
                    !.updF = @ \cup ToSet(under)]
  BY DEF setOute
<1>4. u = [t EXCEPT !.oute = new, !.updF = @ \cup met]
  BY <1>1, <1>2, <1>3 DEF Faces
<1>5. \A f : IsFiniteSet(below(f)) /\ Cardinality(below(f)) \in Int
  <2>1. IsFiniteSet(1..n)
    BY FS_Interval
  <2> QED BY <2>1, FS_Subset, FS_CardinalityType
<1>6. new \in [DOMAIN E.faces -> Int]
  <2>1. \A f \in DOMAIN E.faces : t.oute[f] \in Int
    BY DEF IsState
  <2> HIDE DEF below
  <2>2. \A f \in DOMAIN E.faces : t.oute[f] + Cardinality(below(f)) \in Int
    BY <1>5, <2>1
  <2> QED BY <2>2
<1> HIDE DEF u, under
<1>7. \A f \in DOMAIN E.faces : new[f] = t.oute[f] + Cardinality(below(f))
  OBVIOUS
<1> HIDE DEF new, met
<1>8. IsState(E, u)
  BY <1>4, <1>6 DEF IsState, Fields
<1>9. u.oute = new /\ u.updF = t.updF \cup met
  BY <1>4 DEF IsState, Fields
<1>10. /\ Kept(t, u)
       /\ u.contour = t.contour /\ u.outv = t.outv /\ u.seqp = t.seqp /\ u.outer = t.outer
       /\ u.cutf = t.cutf /\ u.numsf = t.numsf /\ u.updV = t.updV
  BY <1>4 DEF IsState, Fields, Kept
<1>11. \A f \in DOMAIN E.faces : u.oute[f] = t.oute[f] + Cardinality(EdgesBelow(t, path, f))
  BY <1>7, <1>9 DEF EdgesBelow
<1>12. \A f : f \in met <=> EdgesBelow(t, path, f) # {}
  BY DEF EdgesBelow, met
<1> QED BY <1>8, <1>9, <1>10, <1>11, <1>12 DEF u

LEMMA TimesIsInt ==
  ASSUME NEW V, IsFiniteSet(V), NEW F, IsFiniteSet(F), NEW nodes \in Path(V), NEW adj,
         \A i \in 1..Len(nodes) : adj[i] \in Path(F)
  PROVE  /\ \A f : Times(nodes, adj, V, {f}) \in Int
         /\ \A v, fs : Times(nodes, adj, {v}, fs) \in Int
<1>1. ASSUME NEW f PROVE Times(nodes, adj, V, {f}) \in Int
  <2> DEFINE T == NodesOfFace(V, nodes, adj, f)
  <2>1. Times(nodes, adj, V, {f}) = Cardinality(T)
    BY TimesOfFace
  <2>2. T \in SUBSET V
    BY DEF NodesOfFace
  <2> HIDE DEF T
  <2>3. IsFiniteSet(T)
    BY <2>2, FS_Subset
  <2> QED BY <2>1, <2>3, FS_CardinalityType
<1>2. ASSUME NEW v, NEW fs PROVE Times(nodes, adj, {v}, fs) \in Int
  <2>1. CASE v \in ToSet(nodes)
    <3>1. PICK k \in 1..Len(nodes) : nodes[k] = v
      BY <2>1, PathIndices
    <3>2. Times(nodes, adj, {v}, fs) = Cardinality(ToSet(adj[k]) \cap fs)
      BY <3>1, TimesOfNode
    <3> DEFINE a == adj[k]
    <3>3. a \in Path(F)
      OBVIOUS
    <3> HIDE DEF a
    <3>4. ToSet(a) \subseteq F
      BY <3>3, PathIndices
    <3>5. ToSet(a) \cap fs \in SUBSET F
      BY <3>4
    <3>6. IsFiniteSet(ToSet(a) \cap fs)
      BY <3>5, FS_Subset
    <3> QED BY <3>2, <3>6, FS_CardinalityType DEF a
  <2>2. CASE v \notin ToSet(nodes)
    BY <2>2, TimesOfOther
  <2> QED BY <2>1, <2>2
<1> QED BY <1>1, <1>2

LEMMA FacesFinite ==
  ASSUME NEW g, IsEmbedding(g)
  PROVE  IsFiniteSet(DOMAIN g.faces)
<1>1. g.faces \in Seq(Seq(g.nodes))
  BY DEF IsEmbedding
<1>2. DOMAIN g.faces = 1..Len(g.faces) /\ Len(g.faces) \in Nat
  BY <1>1, LenProperties
<1> QED BY <1>2, FS_Interval

AdjOf(t, v) == ToSet(getAdjFaces(t, v))
Meeting(t, nodes, f) == {v \in ToSet(nodes) : f \in AdjOf(t, v)}

LEMMA SetOutv ==
  ASSUME IsEmbedding(E), NEW t, IsState(E, t), NEW nodes \in Path(E.nodes),
         \A v \in ToSet(nodes) : getAdjFaces(t, v) \in Path(DOMAIN E.faces),
         \A f \in DOMAIN E.faces : t.virtSrc[f] = None
  PROVE  LET u == setOutv(t, nodes) IN
         /\ IsState(E, u) /\ Kept(t, u)
         /\ u.contour = t.contour /\ u.oute = t.oute /\ u.seqp = t.seqp
         /\ \A v \in E.nodes : u.cutf[v] = t.cutf[v]
         /\ \A f \in DOMAIN E.faces :
              u.outv[f] = t.outv[f] + Cardinality(Meeting(t, nodes, f))
         /\ \A f \in DOMAIN E.faces, v \in E.nodes :
              u.outer[f][v] = t.outer[f][v] + IF v \in ToSet(nodes) /\ f \in AdjOf(t, v) THEN 1 ELSE 0
         /\ \A v \in E.nodes :
              u.numsf[v] = t.numsf[v] + IF v \in ToSet(nodes) THEN Cardinality(AdjOf(t, v) \cap t.isSf) ELSE 0
         /\ \A f : f \in u.updF <=> f \in t.updF \/ \E v \in ToSet(nodes) : f \in AdjOf(t, v)
         /\ t.updV \subseteq u.updV /\ u.updV \subseteq t.updV \cup ToSet(nodes)
<1> DEFINE adj == [i \in DOMAIN nodes |-> getAdjFaces(t, nodes[i])]
           V == E.nodes
           F == DOMAIN E.faces
           met == MetOf(nodes, adj)
           cut == {f \in F : cutv(t, f)}
           u == setOutv(t, nodes)
           outv == [f \in F |-> t.outv[f] + Times(nodes, adj, V, {f})]
           outer == [f \in F |-> [v \in V |-> t.outer[f][v] + Times(nodes, adj, {v}, {f})]]
           cutf == [v \in V |-> t.cutf[v] + Times(nodes, adj, {v}, cut)]
           numsf == [v \in V |-> t.numsf[v] + Times(nodes, adj, {v}, t.isSf)]
           fs == {m[2] : m \in met}
           vs == {m[1] : m \in {m \in met : m[2] \in cut \cup t.isSf}}
<1>1. u = [t EXCEPT !.outv = outv, !.outer = outer, !.cutf = cutf, !.numsf = numsf,
                    !.updF = @ \cup fs, !.updV = @ \cup vs]
  BY DEF setOutv, MetOf, Times, Faces, Nodes
<1>2. IsFiniteSet(V) /\ IsFiniteSet(F)
  BY AroundNodes, FacesFinite
<1>3. DOMAIN nodes = 1..Len(nodes) /\ \A i \in 1..Len(nodes) : nodes[i] \in ToSet(nodes) /\ nodes[i] \in V
  BY PathIndices
<1>4. \A i \in 1..Len(nodes) : adj[i] = getAdjFaces(t, nodes[i])
  BY <1>3
<1>5. \A i \in 1..Len(nodes) : adj[i] \in Path(F) /\ ToSet(adj[i]) = AdjOf(t, nodes[i])
  BY <1>3, <1>4 DEF AdjOf
<1>6. cut = {}
  BY DEF cutv
<1>0. nodes \in Path(V)
  OBVIOUS
<1> HIDE DEF adj, u, V, F, cut
<1>7. /\ \A f : Times(nodes, adj, V, {f}) \in Int
      /\ \A v, x : Times(nodes, adj, {v}, x) \in Int
  BY <1>0, <1>2, <1>5, TimesIsInt
<1>8. ASSUME NEW v, NEW x
      PROVE  Times(nodes, adj, {v}, x) = IF v \in ToSet(nodes) THEN Cardinality(AdjOf(t, v) \cap x) ELSE 0
  <2>1. CASE v \in ToSet(nodes)
    <3>1. PICK k \in 1..Len(nodes) : nodes[k] = v
      BY <2>1, PathIndices
    <3>2. Times(nodes, adj, {nodes[k]}, x) = Cardinality(ToSet(adj[k]) \cap x)
      BY <1>2, <1>5, TimesOfNode
    <3> QED BY <1>5, <2>1, <3>1, <3>2
  <2>2. CASE v \notin ToSet(nodes)
    <3>1. Times(nodes, adj, {v}, x) = 0
      BY <1>5, <2>2, TimesOfOther
    <3> QED BY <2>2, <3>1
  <2> QED BY <2>1, <2>2
<1>9. ASSUME NEW f
      PROVE  Times(nodes, adj, V, {f}) = Cardinality(Meeting(t, nodes, f))
  <2>1. Times(nodes, adj, V, {f})
          = Cardinality(NodesOfFace(V, nodes, adj, f))
    BY <1>0, <1>2, <1>5, TimesOfFace
  <2>2. NodesOfFace(V, nodes, adj, f) = Meeting(t, nodes, f)
    <3>1. \A v : v \in ToSet(nodes) <=> \E i \in 1..Len(nodes) : nodes[i] = v
      BY PathIndices
    <3>2. \A v : v \in ToSet(nodes) => v \in V
      BY <1>3, <3>1
    <3> QED BY <1>5, <3>1, <3>2 DEF NodesOfFace, Meeting
  <2> QED BY <2>1, <2>2
<1>10. ASSUME NEW v, NEW f
       PROVE  Times(nodes, adj, {v}, {f}) = IF v \in ToSet(nodes) /\ f \in AdjOf(t, v) THEN 1 ELSE 0
  <2>1. CASE f \in AdjOf(t, v)
    <3>1. AdjOf(t, v) \cap {f} = {f} /\ Cardinality({f}) = 1
      BY <2>1, FS_Singleton
    <3> QED BY <1>8, <2>1, <3>1
  <2>2. CASE f \notin AdjOf(t, v)
    <3>1. AdjOf(t, v) \cap {f} = {} /\ Cardinality({}) = 0
      BY <2>2, FS_EmptySet
    <3> QED BY <1>8, <2>2, <3>1
  <2> QED BY <2>1, <2>2
<1>11. ASSUME NEW v PROVE Times(nodes, adj, {v}, cut) = 0
  <2>1. AdjOf(t, v) \cap cut = {} /\ Cardinality({}) = 0
    BY <1>6, FS_EmptySet
  <2> QED BY <1>8, <2>1
<1>12. \A f : f \in fs <=> \E v \in ToSet(nodes) : f \in AdjOf(t, v)
  <2>1. MetCovers(nodes, adj)
    BY <1>5, MetMembers
  <2>2. \A m \in met : \E i \in 1..Len(nodes) : m[1] = nodes[i] /\ m[2] \in ToSet(adj[i])
    BY <1>5, MetMembers
  <2>3. \A v : v \in ToSet(nodes) <=> \E i \in 1..Len(nodes) : nodes[i] = v
    BY PathIndices
  <2> HIDE DEF met
  <2>4. ASSUME NEW m \in met PROVE \E v \in ToSet(nodes) : m[2] \in AdjOf(t, v)
    BY <1>5, <2>2, <2>3
  <2>5. ASSUME NEW v \in ToSet(nodes), NEW f \in AdjOf(t, v) PROVE \E m \in met : m[2] = f
    <3>1. PICK i \in 1..Len(nodes) : nodes[i] = v
      BY <2>3
    <3>2. f \in ToSet(adj[i])
      BY <1>5, <3>1
    <3> QED BY <2>1, <3>2 DEF MetCovers, met
  <2> QED BY <2>4, <2>5
<1>13. vs \subseteq ToSet(nodes)
  <2>1. \A m \in met : \E i \in 1..Len(nodes) : m[1] = nodes[i]
    BY <1>5, MetMembers
  <2>2. \A m \in met : m[1] \in ToSet(nodes)
    BY <1>3, <2>1
  <2> HIDE DEF met
  <2> QED BY <2>2
<1>14. /\ outv \in [F -> Int] /\ outer \in [F -> [V -> Int]]
       /\ cutf \in [V -> Int] /\ numsf \in [V -> Int]
  <2>1. /\ \A f \in F : t.outv[f] \in Int
        /\ \A f \in F, v \in V : t.outer[f][v] \in Int
        /\ \A v \in V : t.cutf[v] \in Int /\ t.numsf[v] \in Int
    BY DEF IsState, F, V
  <2>2. outv \in [F -> Int]
    <3>1. ASSUME NEW f \in F PROVE t.outv[f] + Times(nodes, adj, V, {f}) \in Int
      <4> DEFINE k == Times(nodes, adj, V, {f})
      <4>1. k \in Int
        BY <1>7
      <4> HIDE DEF k
      <4>2. t.outv[f] + k \in Int
        BY <2>1, <4>1
      <4> QED BY <4>2 DEF k
    <3> QED BY <3>1
  <2>3. outer \in [F -> [V -> Int]]
    <3>1. ASSUME NEW f \in F, NEW v \in V PROVE t.outer[f][v] + Times(nodes, adj, {v}, {f}) \in Int
      <4> DEFINE k == Times(nodes, adj, {v}, {f})
      <4>1. k \in Int
        BY <1>7
      <4> HIDE DEF k
      <4>2. t.outer[f][v] + k \in Int
        BY <2>1, <4>1
      <4> QED BY <4>2 DEF k
    <3> QED BY <3>1
  <2>4. cutf \in [V -> Int]
    <3>1. ASSUME NEW v \in V PROVE t.cutf[v] + Times(nodes, adj, {v}, cut) \in Int
      <4> DEFINE k == Times(nodes, adj, {v}, cut)
      <4>1. k \in Int
        BY <1>7
      <4> HIDE DEF k
      <4>2. t.cutf[v] + k \in Int
        BY <2>1, <4>1
      <4> QED BY <4>2 DEF k
    <3> QED BY <3>1
  <2>5. numsf \in [V -> Int]
    <3>1. ASSUME NEW v \in V PROVE t.numsf[v] + Times(nodes, adj, {v}, t.isSf) \in Int
      <4> DEFINE k == Times(nodes, adj, {v}, t.isSf)
      <4>1. k \in Int
        BY <1>7
      <4> HIDE DEF k
      <4>2. t.numsf[v] + k \in Int
        BY <2>1, <4>1
      <4> QED BY <4>2 DEF k
    <3> QED BY <3>1
  <2> QED BY <2>2, <2>3, <2>4, <2>5
<1>15. /\ \A f \in F : outv[f] = t.outv[f] + Times(nodes, adj, V, {f})
       /\ \A f \in F, v \in V : outer[f][v] = t.outer[f][v] + Times(nodes, adj, {v}, {f})
       /\ \A v \in V : cutf[v] = t.cutf[v] + 0
       /\ \A v \in V : numsf[v] = t.numsf[v] + Times(nodes, adj, {v}, t.isSf)
  BY <1>11
<1> HIDE DEF outv, outer, cutf, numsf, fs, vs, met
<1>16. IsState(E, u)
  BY <1>1, <1>14 DEF IsState, Fields, F, V
<1>17. /\ u.outv = outv /\ u.outer = outer /\ u.cutf = cutf /\ u.numsf = numsf
       /\ u.updF = t.updF \cup fs /\ u.updV = t.updV \cup vs
  BY <1>1 DEF IsState, Fields
<1>18. Kept(t, u) /\ u.contour = t.contour /\ u.oute = t.oute /\ u.seqp = t.seqp
  BY <1>1 DEF IsState, Fields, Kept
<1>19. \A v \in V : u.cutf[v] = t.cutf[v]
  <2>1. \A v \in V : t.cutf[v] \in Int
    BY DEF IsState, V
  <2> QED BY <1>15, <1>17, <2>1
<1>20. ASSUME NEW f \in F PROVE u.outv[f] = t.outv[f] + Cardinality(Meeting(t, nodes, f))
  BY <1>9, <1>15, <1>17
<1>22. ASSUME NEW f \in F, NEW v \in V
       PROVE  u.outer[f][v] = t.outer[f][v] + IF v \in ToSet(nodes) /\ f \in AdjOf(t, v) THEN 1 ELSE 0
  <2>1. u.outer[f][v] = t.outer[f][v] + Times(nodes, adj, {v}, {f})
    BY <1>15, <1>17
  <2> QED BY <1>10, <2>1
<1>23. ASSUME NEW v \in V
       PROVE  u.numsf[v] = t.numsf[v] + IF v \in ToSet(nodes) THEN Cardinality(AdjOf(t, v) \cap t.isSf) ELSE 0
  <2>1. u.numsf[v] = t.numsf[v] + Times(nodes, adj, {v}, t.isSf)
    BY <1>15, <1>17
  <2> QED BY <1>8, <2>1
<1>21. /\ \A f : f \in u.updF <=> f \in t.updF \/ \E v \in ToSet(nodes) : f \in AdjOf(t, v)
       /\ t.updV \subseteq u.updV /\ u.updV \subseteq t.updV \cup ToSet(nodes)
  BY <1>12, <1>13, <1>17
<1> QED BY <1>16, <1>18, <1>19, <1>20, <1>21, <1>22, <1>23 DEF u, V, F

PairsIn(inF, path, f) ==
  {i \in 1..(Len(path) - 1) : << path[i], f >> \in inF /\ << path[i + 1], f >> \in inF}

LEMMA SetSeqp ==
  ASSUME IsEmbedding(E), NEW t, IsState(E, t), NEW path \in Path(E.nodes), Len(path) >= 2,
         \A v \in ToSet(path) : getAdjFaces(t, v) \in Path(DOMAIN E.faces)
  PROVE  LET u == setSeqp(t, path) IN
         /\ IsState(E, u) /\ Kept(t, u)
         /\ u.contour = t.contour /\ u.outv = t.outv /\ u.oute = t.oute /\ u.outer = t.outer
         /\ u.cutf = t.cutf /\ u.numsf = t.numsf /\ u.updV = t.updV
         /\ \A f \in DOMAIN E.faces : u.seqp[f] >= t.seqp[f]
         /\ \A f \in DOMAIN E.faces :
              (\A v \in ToSet(path) : f \in AdjOf(t, v) <=> << v, f >> \in t.inF)
                => u.seqp[f] = t.seqp[f] + Cardinality(PairsIn(t.inF, path, f))
         /\ \A f \in DOMAIN E.faces : f \notin u.updF => u.seqp[f] = t.seqp[f]
         /\ \A f \in u.updF : f \in t.updF \/ \E v \in ToSet(path) : f \in AdjOf(t, v)
         /\ t.updF \subseteq u.updF
<1> DEFINE n == Len(path) - 1
           small(i) == IF t.deg[path[i]] < t.deg[path[i + 1]] THEN path[i] ELSE path[i + 1]
           big(i) == IF small(i) = path[i] THEN path[i + 1] ELSE path[i]
           adj == [i \in 1..n |-> getAdjFaces(t, small(i))]
           bigs == [i \in 1..n |-> big(i)]
           F == DOMAIN E.faces
           met == MetPairs(n, adj, bigs, t.inF)
           seqp == [f \in F |-> t.seqp[f] + Cardinality({m \in met : m[1] = f})]
           fs == {m[1] : m \in met}
           u == setSeqp(t, path)
           T(f) == PairPlaces(n, adj, bigs, t.inF, f)
           big1(i) == {<< adj[i][j], i, j >> : j \in {j \in DOMAIN adj[i] : << big(i), adj[i][j] >> \in t.inF}}
           big2(i) == {<< adj[i][j], i, j >> : j \in {j \in DOMAIN adj[i] : << bigs[i], adj[i][j] >> \in t.inF}}
<1>1. DOMAIN adj = 1..n
  OBVIOUS
<1>2. met = UNION {{<< adj[i][j], i, j >> : j \in {j \in DOMAIN adj[i] : << big(i), adj[i][j] >> \in t.inF}} : i \in DOMAIN adj}
  <2>1. \A i \in 1..n : bigs[i] = big(i)
    OBVIOUS
  <2> HIDE DEF bigs, adj, big, n
  <2>2. \A i \in 1..n : big1(i) = big2(i)
    BY <2>1
  <2>3. met = UNION {big2(i) : i \in 1..n}
    BY DEF MetPairs
  <2> HIDE DEF big1, big2, met
  <2>4. met = UNION {big1(i) : i \in DOMAIN adj}
    BY <1>1, <2>2, <2>3
  <2> QED BY <2>4 DEF big1
<1>3. u = [t EXCEPT !.seqp = seqp, !.updF = @ \cup fs]
  <2>1. u = [t EXCEPT
          !.seqp = [f \in Faces |-> @[f] + Cardinality({m \in
               UNION {{<< adj[i][j], i, j >> : j \in {j \in DOMAIN adj[i] : << big(i), adj[i][j] >> \in t.inF}} : i \in DOMAIN adj}
               : m[1] = f})],
          !.updF = @ \cup {m[1] : m \in
               UNION {{<< adj[i][j], i, j >> : j \in {j \in DOMAIN adj[i] : << big(i), adj[i][j] >> \in t.inF}} : i \in DOMAIN adj}}]
    BY DEF setSeqp
  <2> HIDE DEF met, adj, big, u
  <2> QED BY <1>2, <2>1 DEF Faces
<1>4. /\ n \in Nat /\ Len(path) = n + 1
      /\ \A i \in 1..n : path[i] \in ToSet(path) /\ path[i + 1] \in ToSet(path)
      /\ \A i \in 1..n : path[i] # path[i + 1]
  <2>1. Len(path) \in Nat /\ \A i \in 1..Len(path) : path[i] \in ToSet(path)
    BY PathIndices
  <2>2. \A i, j \in 1..Len(path) : path[i] = path[j] => i = j
    BY PathIndices
  <2>3. \A i \in 1..n : i \in 1..Len(path) /\ i + 1 \in 1..Len(path) /\ i # i + 1
    BY <2>1
  <2> QED BY <2>1, <2>2, <2>3
<1>5. \A i \in 1..n : {small(i), bigs[i]} = {path[i], path[i + 1]} /\ small(i) \in ToSet(path)
  BY <1>4
<1>6. \A i \in 1..n : adj[i] = getAdjFaces(t, small(i))
  OBVIOUS
<1> HIDE DEF small, big, adj, bigs, F, n, u
<1>7. \A i \in 1..n : adj[i] \in Path(F) /\ ToSet(adj[i]) = AdjOf(t, small(i))
  BY <1>5, <1>6 DEF AdjOf, F
<1>8. ASSUME NEW f
      PROVE  /\ Cardinality({m \in met : m[1] = f}) = Cardinality(T(f))
             /\ f \in fs <=> T(f) # {}
             /\ IsFiniteSet(T(f)) /\ Cardinality(T(f)) \in Nat
  <2>1. Cardinality({m \in met : m[1] = f}) = Cardinality(T(f))
    <3>1. Cardinality(MetFace(n, adj, bigs, t.inF, f)) = Cardinality(PairPlaces(n, adj, bigs, t.inF, f))
      <4>1. n \in Nat /\ \A i \in 1..n : adj[i] \in Path(F)
        BY <1>4, <1>7
      <4> HIDE DEF met
      <4> QED BY <4>1, PairsOfFace
    <3>2. MetFace(n, adj, bigs, t.inF, f) = {m \in met : m[1] = f}
      BY DEF MetFace
    <3> QED BY <3>1, <3>2
  <2>2. (f \in fs <=> T(f) # {}) /\ IsFiniteSet(T(f))
    BY <1>4, <1>7, PairsOfFace
  <2> HIDE DEF T
  <2>3. Cardinality(T(f)) \in Nat
    BY <2>2, FS_CardinalityType
  <2> QED BY <2>1, <2>2, <2>3
<1> HIDE DEF met
<1>9. \A f \in F : t.seqp[f] \in Int
  BY DEF IsState, F
<1>10. \A f \in F : t.seqp[f] + Cardinality({m \in met : m[1] = f}) \in Int
  <2> SUFFICES ASSUME NEW f \in F PROVE t.seqp[f] + Cardinality({m \in met : m[1] = f}) \in Int
    OBVIOUS
  <2> DEFINE k == Cardinality({m \in met : m[1] = f})
  <2>1. k \in Nat
    BY <1>8
  <2> HIDE DEF k
  <2>2. t.seqp[f] + k \in Int
    BY <1>9, <2>1
  <2> QED BY <2>2 DEF k
<1>11. seqp \in [F -> Int] /\ \A f \in F : seqp[f] = t.seqp[f] + Cardinality(T(f))
  BY <1>8, <1>10
<1>12. ASSUME NEW f, \A v \in ToSet(path) : f \in AdjOf(t, v) <=> << v, f >> \in t.inF
       PROVE  T(f) = PairsIn(t.inF, path, f)
  <2>1. ASSUME NEW i \in 1..n
        PROVE  f \in ToSet(adj[i]) /\ << bigs[i], f >> \in t.inF
                 <=> << path[i], f >> \in t.inF /\ << path[i + 1], f >> \in t.inF
    <3>1. f \in ToSet(adj[i]) <=> << small(i), f >> \in t.inF
      BY <1>5, <1>7, <1>12
    <3>2. (small(i) = path[i] /\ bigs[i] = path[i + 1]) \/ (small(i) = path[i + 1] /\ bigs[i] = path[i])
      BY <1>4, <1>5
    <3> QED BY <3>1, <3>2
  <2> QED BY <1>4, <2>1 DEF PairsIn, PairPlaces, n
<1>13. \A f \in fs : \E v \in ToSet(path) : f \in AdjOf(t, v)
  <2> SUFFICES ASSUME NEW f \in fs PROVE \E v \in ToSet(path) : f \in AdjOf(t, v)
    OBVIOUS
  <2>1. T(f) # {}
    BY <1>8
  <2>2. PICK i \in 1..n : f \in ToSet(adj[i])
    BY <2>1 DEF PairPlaces
  <2> QED BY <1>5, <1>7, <2>2
<1>14. \A f : f \notin fs => Cardinality(T(f)) = 0
  BY <1>8, FS_EmptySet
<1> HIDE DEF T, seqp, fs
<1>15. u.seqp = seqp /\ u.updF = t.updF \cup fs
  BY <1>3 DEF IsState, Fields
<1>16. IsState(E, u)
  BY <1>3, <1>11 DEF IsState, Fields, F
<1>17. /\ Kept(t, u)
       /\ u.contour = t.contour /\ u.outv = t.outv /\ u.oute = t.oute /\ u.outer = t.outer
       /\ u.cutf = t.cutf /\ u.numsf = t.numsf /\ u.updV = t.updV
  BY <1>3 DEF IsState, Fields, Kept
<1>18. \A f \in F : u.seqp[f] >= t.seqp[f]
  <2> SUFFICES ASSUME NEW f \in F PROVE u.seqp[f] >= t.seqp[f]
    OBVIOUS
  <2> DEFINE k == Cardinality(T(f))
  <2>1. k \in Nat
    BY <1>8
  <2>2. u.seqp[f] = t.seqp[f] + k /\ t.seqp[f] \in Int
    BY <1>9, <1>11, <1>15
  <2> HIDE DEF k
  <2> QED BY <2>1, <2>2
<1>19. \A f \in F :
         (\A v \in ToSet(path) : f \in AdjOf(t, v) <=> << v, f >> \in t.inF)
           => u.seqp[f] = t.seqp[f] + Cardinality(PairsIn(t.inF, path, f))
  BY <1>11, <1>12, <1>15
<1>20. \A f \in F : f \notin u.updF => u.seqp[f] = t.seqp[f]
  BY <1>9, <1>11, <1>14, <1>15
<1>21. /\ \A f \in u.updF : f \in t.updF \/ \E v \in ToSet(path) : f \in AdjOf(t, v)
       /\ t.updF \subseteq u.updF
  BY <1>13, <1>15
<1> QED BY <1>16, <1>17, <1>18, <1>19, <1>20, <1>21 DEF u, F

-----------------------------------------------------------------------------
(***************************************************************************)
(* The contour c after a part of it, the one from c_a to c_z, was replaced *)
(* by the path P: the contour d.                                           *)
(***************************************************************************)
Ends(c, a, z, P) ==
  /\ a \in 1..Len(c) /\ z \in 1..Len(c) /\ a < z
  /\ Len(P) >= 2 /\ P[1] = c[a] /\ P[Len(P)] = c[z]

Hidden(c, a, z) == {c[i] : i \in (a + 1)..(z - 1)}
InnerOf(P) == {P[j] : j \in 2..(Len(P) - 1)}

Splice(c, a, z, P, d) ==
  /\ Len(d) = a + Len(P) - 1 + (Len(c) - z)
  /\ \A i \in 1..a : d[i] = c[i]
  /\ \A j \in 1..Len(P) : d[a + j - 1] = P[j]
  /\ \A i \in z..Len(c) : d[i - z + a + Len(P) - 1] = c[i]

SpliceOf(c, P) ==
  SubSeq(c, 1, At(c, Head(P))) \o Tail(P) \o SubSeq(c, At(c, Last(P)) + 1, Len(c))

LEMMA SpliceIndices ==
  ASSUME NEW V, NEW c \in Path(V), NEW P \in Path(V), NEW a, NEW z, Ends(c, a, z, P)
  PROVE  SpliceOf(c, P) \in Seq(V) /\ Splice(c, a, z, P, SpliceOf(c, P))
<1> DEFINE q == Len(c)
           m == Len(P)
           low == SubSeq(c, 1, a)
           high == SubSeq(c, z + 1, q)
           mid == Tail(P)
           d == SpliceOf(c, P)
<1>0. a \in 1..q /\ z \in 1..q /\ a < z /\ m >= 2 /\ P[1] = c[a] /\ P[m] = c[z]
  BY DEF Ends
<1>1. /\ q \in Nat /\ c \in Seq(V) /\ \A i \in 1..q : c[i] \in V
      /\ m \in Nat /\ P \in Seq(V) /\ \A i \in 1..m : P[i] \in V
  BY PathIndices
<1>2. At(c, Head(P)) = a /\ At(c, Last(P)) = z
  <2>1. At(c, c[a]) = a /\ At(c, c[z]) = z
    BY <1>0, AtIndex
  <2>2. Head(P) = P[1] /\ Last(P) = P[m]
    BY <1>1 DEF Last
  <2> QED BY <1>0, <2>1, <2>2
<1>3. d = low \o mid \o high
  BY <1>2 DEF SpliceOf
<1>4. low \in Seq(V) /\ Len(low) = a /\ \A i \in 1..a : low[i] = c[i]
  <2>1. \A i \in 1..a : c[i] \in V
    BY <1>0, <1>1
  <2> QED BY <1>0, <2>1, SubSeqProperties
<1>5. /\ high \in Seq(V) /\ Len(high) = q - z
      /\ \A i \in 1..(q - z) : high[i] = c[z + i]
  <2>1. \A i \in (z + 1)..q : c[i] \in V
    BY <1>0, <1>1
  <2>2. /\ high \in Seq(V)
        /\ Len(high) = (IF z + 1 <= q THEN q - (z + 1) + 1 ELSE 0)
        /\ \A i \in 1..(q - (z + 1) + 1) : high[i] = c[(z + 1) + i - 1]
    BY <1>0, <1>1, <2>1, SubSeqProperties
  <2> HIDE DEF high
  <2>3. Len(high) = q - z
    BY <1>0, <1>1, <2>2
  <2>4. \A i \in 1..(q - z) : i \in 1..(q - (z + 1) + 1) /\ (z + 1) + i - 1 = z + i
    BY <1>0, <1>1
  <2> QED BY <2>2, <2>3, <2>4
<1>6. mid \in Seq(V) /\ Len(mid) = m - 1 /\ \A i \in 1..(m - 1) : mid[i] = P[i + 1]
  <2>1. P # << >>
    BY <1>0, <1>1
  <2> QED BY <1>1, <2>1, HeadTailProperties
<1> HIDE DEF low, high, mid, m, q
<1> DEFINE front == low \o mid
<1>7. /\ front \in Seq(V) /\ Len(front) = a + (m - 1)
      /\ \A i \in 1..(a + (m - 1)) : front[i] = IF i <= a THEN low[i] ELSE mid[i - a]
  <2>1. /\ low \o mid \in Seq(V) /\ Len(low \o mid) = Len(low) + Len(mid)
        /\ \A i \in 1..(Len(low) + Len(mid)) : (low \o mid)[i] =
             IF i <= Len(low) THEN low[i] ELSE mid[i - Len(low)]
    BY <1>4, <1>6, ConcatProperties
  <2>2. Len(low) = a /\ Len(mid) = m - 1
    BY <1>4, <1>6
  <2> QED BY <2>1, <2>2
<1> HIDE DEF front
<1>8. /\ d \in Seq(V) /\ Len(d) = a + (m - 1) + (q - z)
      /\ \A i \in 1..(a + (m - 1) + (q - z)) :
           d[i] = IF i <= a + (m - 1) THEN front[i] ELSE high[i - (a + (m - 1))]
  <2>1. d = front \o high
    BY <1>3 DEF front
  <2> HIDE DEF d
  <2>2. /\ front \o high \in Seq(V) /\ Len(front \o high) = Len(front) + Len(high)
        /\ \A i \in 1..(Len(front) + Len(high)) : (front \o high)[i] =
             IF i <= Len(front) THEN front[i] ELSE high[i - Len(front)]
    BY <1>5, <1>7, ConcatProperties
  <2> QED BY <1>5, <1>7, <2>1, <2>2
<1> HIDE DEF d
<1>9. ASSUME NEW i \in 1..a PROVE d[i] = c[i]
  <2>1. i \in 1..(a + (m - 1) + (q - z)) /\ i <= a + (m - 1) /\ i \in 1..(a + (m - 1)) /\ i <= a
    BY <1>0, <1>1 DEF m, q
  <2>2. d[i] = front[i] /\ front[i] = low[i]
    BY <1>7, <1>8, <2>1
  <2> QED BY <1>4, <2>2
<1>10. ASSUME NEW j \in 1..m PROVE d[a + j - 1] = P[j]
  <2>1. CASE j = 1
    <3>1. a + j - 1 = a /\ a \in 1..a
      BY <1>0, <1>1, <2>1 DEF q
    <3> QED BY <1>0, <1>9, <2>1, <3>1
  <2>2. CASE j # 1
    <3> DEFINE i == a + j - 1
    <3>1. /\ i \in 1..(a + (m - 1) + (q - z)) /\ i <= a + (m - 1) /\ i \in 1..(a + (m - 1)) /\ ~ i <= a
          /\ i - a = j - 1 /\ j - 1 \in 1..(m - 1) /\ (j - 1) + 1 = j
      BY <1>0, <1>1, <2>2 DEF m, q
    <3> HIDE DEF i
    <3>2. d[i] = front[i] /\ front[i] = mid[j - 1]
      BY <1>7, <1>8, <3>1
    <3>3. mid[j - 1] = P[j]
      BY <1>6, <3>1
    <3>4. d[i] = P[j]
      BY <3>2, <3>3
    <3> QED BY <3>4 DEF i
  <2> QED BY <2>1, <2>2
<1>11. ASSUME NEW i \in z..q PROVE d[i - z + a + m - 1] = c[i]
  <2> DEFINE k == i - z + a + m - 1
  <2>1. CASE i = z
    <3>1. k = a + m - 1 /\ m \in 1..m
      BY <1>0, <1>1, <2>1 DEF m, q
    <3> HIDE DEF k
    <3>2. d[k] = P[m]
      BY <1>10, <3>1
    <3>3. d[k] = c[i]
      BY <1>0, <2>1, <3>2
    <3> QED BY <3>3 DEF k
  <2>2. CASE i # z
    <3>1. /\ k \in 1..(a + (m - 1) + (q - z)) /\ ~ k <= a + (m - 1)
          /\ k - (a + (m - 1)) = i - z /\ i - z \in 1..(q - z) /\ z + (i - z) = i
      BY <1>0, <1>1, <2>2 DEF m, q
    <3> HIDE DEF k
    <3>2. d[k] = high[i - z] /\ high[i - z] = c[i]
      BY <1>5, <1>8, <3>1
    <3>3. d[k] = c[i]
      BY <3>2
    <3> QED BY <3>3 DEF k
  <2> QED BY <2>1, <2>2
<1>12. Len(d) = a + m - 1 + (q - z)
  BY <1>0, <1>1, <1>8 DEF m, q
<1>13. Splice(c, a, z, P, d)
  BY <1>9, <1>10, <1>11, <1>12 DEF Splice, m, q
<1> QED BY <1>8, <1>13 DEF d

(* The places on d: low, on the path, or high.                             *)
LEMMA SplicePlaces ==
  ASSUME NEW V, NEW c \in Path(V), NEW P \in Path(V), NEW a, NEW z, Ends(c, a, z, P),
         NEW d, Splice(c, a, z, P, d), NEW k \in 1..Len(d)
  PROVE  \/ k \in 1..a /\ d[k] = c[k]
         \/ \E j \in 2..(Len(P) - 1) : k = a + j - 1 /\ d[k] = P[j]
         \/ \E i \in z..Len(c) : k = i - z + a + Len(P) - 1 /\ d[k] = c[i]
<1> DEFINE q == Len(c)
           m == Len(P)
<1>1. q \in Nat /\ m \in Nat /\ a \in 1..q /\ z \in 1..q /\ a < z /\ m >= 2
  BY PathIndices DEF Ends
<1>2. /\ Len(d) = a + m - 1 + (q - z)
      /\ \A i \in 1..a : d[i] = c[i]
      /\ \A j \in 1..m : d[a + j - 1] = P[j]
      /\ \A i \in z..q : d[i - z + a + m - 1] = c[i]
  BY DEF Splice
<1> HIDE DEF q, m
<1>3. CASE k <= a
  <2>1. k \in 1..a
    BY <1>1, <1>3
  <2> QED BY <1>2, <2>1
<1>4. CASE k > a /\ k < a + m - 1
  <2> DEFINE j == k - a + 1
  <2>1. j \in 2..(m - 1) /\ j \in 1..m /\ a + j - 1 = k
    BY <1>1, <1>4
  <2> HIDE DEF j
  <2>2. d[k] = P[j]
    BY <1>2, <2>1
  <2> QED BY <2>1, <2>2 DEF m
<1>5. CASE k >= a + m - 1
  <2> DEFINE i == k - (a + m - 1) + z
  <2>1. i \in z..q /\ i - z + a + m - 1 = k
    BY <1>1, <1>2, <1>5
  <2> HIDE DEF i
  <2>2. d[k] = c[i]
    BY <1>2, <2>1
  <2> QED BY <2>1, <2>2 DEF m, q
<1> QED BY <1>1, <1>3, <1>4, <1>5

LEMMA SplicePath ==
  ASSUME NEW V, NEW c \in Path(V), NEW P \in Path(V), NEW a, NEW z, Ends(c, a, z, P),
         InnerOf(P) \cap ToSet(c) = {},
         NEW d \in Seq(V), Splice(c, a, z, P, d)
  PROVE  /\ d \in Path(V) /\ Len(d) \in Nat
         /\ ToSet(d) = (ToSet(c) \ Hidden(c, a, z)) \cup InnerOf(P)
         /\ ToSet(P) \subseteq ToSet(d)
         /\ ToSet(P) = InnerOf(P) \cup {c[a], c[z]}
         /\ Hidden(c, a, z) \subseteq ToSet(c) /\ Hidden(c, a, z) \cap ToSet(d) = {}
<1> DEFINE q == Len(c)
           m == Len(P)
           D == Hidden(c, a, z)
           I == InnerOf(P)
<1>1. /\ q \in Nat /\ m \in Nat /\ a \in 1..q /\ z \in 1..q /\ a < z /\ m >= 2
      /\ P[1] = c[a] /\ P[m] = c[z]
  BY PathIndices DEF Ends
<1>2. /\ \A i, j \in 1..q : c[i] = c[j] => i = j
      /\ \A i, j \in 1..m : P[i] = P[j] => i = j
      /\ \A v : v \in ToSet(c) <=> \E i \in 1..q : c[i] = v
      /\ \A v : v \in ToSet(P) <=> \E i \in 1..m : P[i] = v
  BY PathIndices
<1>3. DOMAIN d = 1..Len(d) /\ Len(d) \in Nat /\ Len(d) = a + m - 1 + (q - z)
  BY LenProperties DEF Splice
<1>4. \A k \in 1..Len(d) :
         \/ k \in 1..a /\ d[k] = c[k]
         \/ \E j \in 2..(m - 1) : k = a + j - 1 /\ d[k] = P[j]
         \/ \E i \in z..q : k = i - z + a + m - 1 /\ d[k] = c[i]
  BY SplicePlaces
<1>5. \A j \in 2..(m - 1), i \in 1..q : P[j] # c[i]
  <2>1. \A j \in 2..(m - 1) : P[j] \in I
    BY DEF InnerOf
  <2> QED BY <1>2, <2>1
<1>6. /\ \A i \in 1..a : d[i] = c[i]
      /\ \A j \in 1..m : d[a + j - 1] = P[j]
      /\ \A i \in z..q : d[i - z + a + m - 1] = c[i]
  BY DEF Splice
<1>7. \A v : v \in D <=> \E i \in (a + 1)..(z - 1) : c[i] = v
  BY DEF Hidden
<1>8. \A v : v \in I <=> \E j \in 2..(m - 1) : P[j] = v
  BY DEF InnerOf
<1>9. \A v : v \in ToSet(d) <=> \E k \in 1..Len(d) : d[k] = v
  BY <1>3 DEF ToSet
<1> HIDE DEF q, m, D, I
<1>10. ASSUME NEW k \in 1..Len(d), NEW l \in 1..Len(d), d[k] = d[l] PROVE k = l
  <2>1. CASE k \in 1..a /\ d[k] = c[k]
    <3>1. CASE l \in 1..a /\ d[l] = c[l]
      <4>1. k \in 1..q /\ l \in 1..q
        BY <1>1, <2>1, <3>1
      <4> QED BY <1>2, <1>10, <2>1, <3>1, <4>1
    <3>2. CASE \E j \in 2..(m - 1) : l = a + j - 1 /\ d[l] = P[j]
      <4>1. k \in 1..q
        BY <1>1, <2>1
      <4> QED BY <1>5, <1>10, <2>1, <3>2, <4>1
    <3>3. CASE \E i \in z..q : l = i - z + a + m - 1 /\ d[l] = c[i]
      <4>1. PICK i \in z..q : d[l] = c[i]
        BY <3>3
      <4>2. k \in 1..q /\ i \in 1..q /\ k # i
        BY <1>1, <2>1
      <4> QED BY <1>2, <1>10, <2>1, <4>1, <4>2
    <3> QED BY <1>4, <3>1, <3>2, <3>3
  <2>2. CASE \E j \in 2..(m - 1) : k = a + j - 1 /\ d[k] = P[j]
    <3>0. PICK j \in 2..(m - 1) : k = a + j - 1 /\ d[k] = P[j]
      BY <2>2
    <3>1. CASE l \in 1..a /\ d[l] = c[l]
      <4>1. l \in 1..q
        BY <1>1, <3>1
      <4> QED BY <1>5, <1>10, <3>0, <3>1, <4>1
    <3>2. CASE \E jj \in 2..(m - 1) : l = a + jj - 1 /\ d[l] = P[jj]
      <4>1. PICK jj \in 2..(m - 1) : l = a + jj - 1 /\ d[l] = P[jj]
        BY <3>2
      <4>2. j \in 1..m /\ jj \in 1..m
        BY <1>1
      <4>3. j = jj
        BY <1>2, <1>10, <3>0, <4>1, <4>2
      <4> QED BY <3>0, <4>1, <4>3
    <3>3. CASE \E i \in z..q : l = i - z + a + m - 1 /\ d[l] = c[i]
      <4>1. PICK i \in z..q : d[l] = c[i]
        BY <3>3
      <4>2. i \in 1..q
        BY <1>1
      <4> QED BY <1>5, <1>10, <3>0, <4>1, <4>2
    <3> QED BY <1>4, <3>1, <3>2, <3>3
  <2>3. CASE \E i \in z..q : k = i - z + a + m - 1 /\ d[k] = c[i]
    <3>0. PICK i \in z..q : k = i - z + a + m - 1 /\ d[k] = c[i]
      BY <2>3
    <3>00. i \in 1..q
      BY <1>1
    <3>1. CASE l \in 1..a /\ d[l] = c[l]
      <4>1. l \in 1..q /\ l # i
        BY <1>1, <3>1
      <4> QED BY <1>2, <1>10, <3>0, <3>00, <3>1, <4>1
    <3>2. CASE \E jj \in 2..(m - 1) : l = a + jj - 1 /\ d[l] = P[jj]
      BY <1>5, <1>10, <3>0, <3>00, <3>2
    <3>3. CASE \E ii \in z..q : l = ii - z + a + m - 1 /\ d[l] = c[ii]
      <4>1. PICK ii \in z..q : l = ii - z + a + m - 1 /\ d[l] = c[ii]
        BY <3>3
      <4>2. ii \in 1..q
        BY <1>1
      <4>3. ii = i
        BY <1>2, <1>10, <3>0, <3>00, <4>1, <4>2
      <4> QED BY <3>0, <4>1, <4>3
    <3> QED BY <1>4, <3>1, <3>2, <3>3
  <2> QED BY <1>4, <2>1, <2>2, <2>3
<1>11. ASSUME NEW v \in ToSet(d) PROVE (v \in ToSet(c) /\ v \notin D) \/ v \in I
  <2>1. PICK k \in 1..Len(d) : d[k] = v
    BY <1>9
  <2>2. CASE k \in 1..a /\ d[k] = c[k]
    <3>1. k \in 1..q /\ \A i \in (a + 1)..(z - 1) : i \in 1..q /\ i # k
      BY <1>1, <2>2
    <3> QED BY <1>2, <1>7, <2>1, <2>2, <3>1
  <2>3. CASE \E j \in 2..(m - 1) : k = a + j - 1 /\ d[k] = P[j]
    BY <1>8, <2>1, <2>3
  <2>4. CASE \E i \in z..q : k = i - z + a + m - 1 /\ d[k] = c[i]
    <3>1. PICK i \in z..q : d[k] = c[i]
      BY <2>4
    <3>2. i \in 1..q /\ \A j \in (a + 1)..(z - 1) : j \in 1..q /\ j # i
      BY <1>1
    <3> QED BY <1>2, <1>7, <2>1, <3>1, <3>2
  <2> QED BY <1>4, <2>1, <2>2, <2>3, <2>4
<1>12. ASSUME NEW j \in 1..m PROVE P[j] \in ToSet(d)
  <2>1. a + j - 1 \in 1..Len(d)
    BY <1>1, <1>3
  <2> QED BY <1>6, <1>9, <2>1
<1>13. ASSUME NEW v \in ToSet(c), v \notin D PROVE v \in ToSet(d)
  <2>1. PICK i \in 1..q : c[i] = v
    BY <1>2
  <2>2. CASE i \in 1..a
    <3>1. i \in 1..Len(d)
      BY <1>1, <1>3, <2>2
    <3> QED BY <1>6, <1>9, <2>1, <2>2, <3>1
  <2>3. CASE i \in z..q
    <3>1. i - z + a + m - 1 \in 1..Len(d)
      BY <1>1, <1>3, <2>3
    <3> QED BY <1>6, <1>9, <2>1, <2>3, <3>1
  <2>4. CASE i \in (a + 1)..(z - 1)
    BY <1>7, <1>13, <2>1, <2>4
  <2> QED BY <1>1, <2>2, <2>3, <2>4
<1>14. D \subseteq ToSet(c)
  <2>1. \A i \in (a + 1)..(z - 1) : i \in 1..q
    BY <1>1
  <2> QED BY <1>2, <1>7, <2>1
<1>15. ToSet(P) = I \cup {c[a], c[z]}
  <2>1. \A j : j \in 1..m <=> j = 1 \/ j = m \/ j \in 2..(m - 1)
    BY <1>1
  <2> QED BY <1>1, <1>2, <1>8, <2>1
<1>16. I \subseteq ToSet(d)
  BY <1>2, <1>12, <1>15
<1>17. D \cap ToSet(d) = {}
  <2>1. \A v \in I : v \notin ToSet(c)
    BY DEF I
  <2> QED BY <1>11, <1>14, <2>1
<1>18. d \in Path(V)
  BY <1>3, <1>10 DEF Path
<1>19. ToSet(d) = (ToSet(c) \ D) \cup I
  BY <1>11, <1>13, <1>16
<1>20. ToSet(P) \subseteq ToSet(d)
  BY <1>2, <1>12
<1> QED BY <1>3, <1>14, <1>15, <1>17, <1>18, <1>19, <1>20 DEF D, I

LEMMA ShiftCount ==
  ASSUME NEW S, S \subseteq Int, IsFiniteSet(S), NEW k \in Int, NEW T, T \subseteq Int,
         \A i \in Int : i + k \in T <=> i \in S
  PROVE  IsFiniteSet(T) /\ Cardinality(T) = Cardinality(S)
<1> DEFINE f == [i \in T |-> i - k]
<1>1. \A i \in T : f[i] = i - k /\ i - k \in S /\ i \in Int
  <2> SUFFICES ASSUME NEW i \in T PROVE i - k \in S
    OBVIOUS
  <2>1. i - k \in Int /\ (i - k) + k = i
    OBVIOUS
  <2> QED BY <2>1
<1>2. f \in [T -> S]
  BY <1>1
<1>3. \A i \in S : i + k \in T /\ (i + k) - k = i
  OBVIOUS
<1>4. f \in Injection(T, S)
  <2>0. \A i \in T : f[i] = i - k /\ i \in Int
    BY <1>1
  <2> HIDE DEF f
  <2>1. \A i, j \in T : f[i] = f[j] => i = j
    BY <2>0
  <2> QED BY <1>2, <2>1 DEF Injection, IsInjective
<1>5. f \in Surjection(T, S)
  <2>1. \A i \in T : f[i] = i - k /\ i \in Int
    BY <1>1
  <2> HIDE DEF f
  <2>2. \A i \in S : \E j \in T : f[j] = i
    <3> SUFFICES ASSUME NEW i \in S PROVE \E j \in T : f[j] = i
      OBVIOUS
    <3>1. i + k \in T /\ f[i + k] = i
      BY <1>3, <2>1
    <3> QED BY <3>1
  <2> QED BY <1>2, <2>2 DEF Surjection
<1> HIDE DEF f
<1> QED BY <1>4, <1>5, FS_Injection

(* The pairs of d are those of c outside the part and those of the path.   *)
SplicePairs(q, m, a, z, I, J, K) ==
  /\ I \subseteq 1..(q - 1) /\ J \subseteq 1..(m - 1) /\ K \subseteq 1..(a + m - 1 + (q - z) - 1)
  /\ \A i \in a..(z - 1) : i \notin I
  /\ \A i \in 1..(a - 1) : i \in K <=> i \in I
  /\ \A j \in 1..(m - 1) : a + j - 1 \in K <=> j \in J
  /\ \A i \in z..(q - 1) : i - z + a + m - 1 \in K <=> i \in I

LEMMA SpliceCount ==
  ASSUME NEW q \in Nat, NEW m \in Nat, NEW a \in 1..q, NEW z \in 1..q, a < z, m >= 2,
         NEW I, NEW J, NEW K, SplicePairs(q, m, a, z, I, J, K)
  PROVE  /\ IsFiniteSet(I) /\ IsFiniteSet(J) /\ IsFiniteSet(K)
         /\ Cardinality(K) = Cardinality(I) + Cardinality(J)
<1>1. IsFiniteSet(I) /\ IsFiniteSet(J)
  <2>1. IsFiniteSet(1..(q - 1)) /\ IsFiniteSet(1..(m - 1))
    BY FS_Interval
  <2>2. I \subseteq 1..(q - 1) /\ J \subseteq 1..(m - 1)
    BY DEF SplicePairs
  <2> QED BY <2>1, <2>2, FS_Subset
<1>0. /\ \A i \in I : i \in Int /\ i >= 1 /\ i <= q - 1
      /\ \A i \in J : i \in Int
      /\ \A k \in K : k \in Int /\ k >= 1 /\ k <= a + m - 1 + (q - z) - 1
      /\ a \in Int /\ z \in Int /\ q \in Int /\ m \in Int /\ a < z /\ a >= 1 /\ z <= q /\ a <= q - 1
  BY DEF SplicePairs
<1> DEFINE I1 == {i \in I : i < a}
           I2 == {i \in I : i >= z}
           K1 == {k \in K : k < a}
           K2 == {k \in K : k >= a /\ k < a + m - 1}
           K3 == {k \in K : k >= a + m - 1}
<1>2. IsFiniteSet(I1) /\ IsFiniteSet(I2)
  BY <1>1, FS_Subset
<1>3. Cardinality(I) = Cardinality(I1) + Cardinality(I2)
  <2>1. I = I1 \cup I2
    <3>1. \A i \in I : i < a \/ i >= z
      <4> SUFFICES ASSUME NEW i \in I, ~ i < a, ~ i >= z PROVE FALSE
        OBVIOUS
      <4>1. i \in a..(z - 1)
        BY <1>0
      <4> QED BY <4>1 DEF SplicePairs
    <3> QED BY <3>1
  <2>2. I1 \cap I2 = {}
    BY <1>0
  <2> HIDE DEF I1, I2
  <2> QED BY <1>2, <2>1, <2>2, CountDisjoint
<1>4. K1 = I1
  <2>1. ASSUME NEW i, i \in K1 PROVE i \in I1
    <3>1. i \in 1..(a - 1) /\ i \in K
      BY <1>0, <2>1
    <3> QED BY <3>1 DEF SplicePairs
  <2>2. ASSUME NEW i, i \in I1 PROVE i \in K1
    <3>1. i \in 1..(a - 1) /\ i \in I
      BY <1>0, <2>2
    <3>2. i \in K
      BY <3>1 DEF SplicePairs
    <3> QED BY <1>0, <3>1, <3>2
  <2> HIDE DEF K1, I1
  <2> QED BY <2>1, <2>2
<1>5. IsFiniteSet(K2) /\ Cardinality(K2) = Cardinality(J)
  <2>1. ASSUME NEW i \in Int PROVE i + (a - 1) \in K2 <=> i \in J
    <3>1. CASE i \in 1..(m - 1)
      <4>1. a + i - 1 \in K <=> i \in J
        BY <3>1 DEF SplicePairs
      <4>2. i + (a - 1) = a + i - 1 /\ i + (a - 1) >= a /\ i + (a - 1) < a + m - 1
        BY <3>1
      <4> QED BY <4>1, <4>2
    <3>2. CASE i \notin 1..(m - 1)
      <4>1. ~ (i + (a - 1) >= a /\ i + (a - 1) < a + m - 1)
        BY <3>2
      <4>2. i \notin J
        BY <3>2 DEF SplicePairs
      <4> QED BY <4>1, <4>2
    <3> QED BY <3>1, <3>2
  <2>2. K2 \subseteq Int /\ J \subseteq Int /\ a - 1 \in Int
    BY <1>0
  <2> HIDE DEF K2
  <2> QED BY <1>1, <2>1, <2>2, ShiftCount
<1>6. IsFiniteSet(K3) /\ Cardinality(K3) = Cardinality(I2)
  <2> DEFINE h == a + m - 1 - z
  <2>1. ASSUME NEW i \in Int PROVE i + h \in K3 <=> i \in I2
    <3>1. CASE i \in z..(q - 1)
      <4>1. i - z + a + m - 1 \in K <=> i \in I
        BY <3>1 DEF SplicePairs
      <4>2. i + h = i - z + a + m - 1 /\ i + h >= a + m - 1 /\ i >= z
        BY <3>1
      <4> QED BY <4>1, <4>2
    <3>2. CASE i < z
      <4>1. ~ i + h >= a + m - 1 /\ ~ i >= z
        BY <3>2
      <4> QED BY <4>1
    <3>3. CASE i > q - 1
      <4>1. i \notin I
        BY <1>0, <3>3
      <4>2. ~ i + h <= a + m - 1 + (q - z) - 1
        BY <3>3
      <4>3. i + h \notin K
        BY <1>0, <4>2
      <4> QED BY <4>1, <4>3
    <3> QED BY <3>1, <3>2, <3>3
  <2>2. K3 \subseteq Int /\ I2 \subseteq Int /\ h \in Int
    BY <1>0
  <2> HIDE DEF K3, I2, h
  <2> QED BY <1>2, <2>1, <2>2, ShiftCount
<1>7. IsFiniteSet(K1 \cup K2) /\ Cardinality(K1 \cup K2) = Cardinality(I1) + Cardinality(J)
  <2>1. K1 \cap K2 = {}
    BY <1>0
  <2> HIDE DEF K1, K2, I1
  <2> QED BY <1>2, <1>4, <1>5, <2>1, CountDisjoint
<1>8. K = (K1 \cup K2) \cup K3 /\ (K1 \cup K2) \cap K3 = {}
  <2>1. \A k \in K : k < a \/ (k >= a /\ k < a + m - 1) \/ k >= a + m - 1
    BY <1>0
  <2>2. \A k \in K : k >= a + m - 1 => ~ k < a /\ ~ k < a + m - 1
    BY <1>0
  <2> QED BY <2>1, <2>2
<1> DEFINE L == K1 \cup K2
<1>9. IsFiniteSet(L \cup K3) /\ Cardinality(L \cup K3) = Cardinality(L) + Cardinality(K3)
  <2>1. IsFiniteSet(L) /\ IsFiniteSet(K3) /\ L \cap K3 = {}
    BY <1>6, <1>7, <1>8
  <2> HIDE DEF L, K3
  <2> QED BY <2>1, CountDisjoint
<1>10. Cardinality(I1) \in Nat /\ Cardinality(I2) \in Nat /\ Cardinality(J) \in Nat
  BY <1>1, <1>2, FS_CardinalityType
<1> HIDE DEF K1, K2, K3, I1, I2
<1> QED BY <1>1, <1>3, <1>6, <1>7, <1>8, <1>9, <1>10

-----------------------------------------------------------------------------
(***************************************************************************)
(* The part of the contour between c_a and c_z is removed and the path P,  *)
(* along the faces that were inside it, is put on the contour.             *)
(***************************************************************************)
LEMMA NoWayBack ==
  ASSUME NEW g, IsEmbedding(g), NEW v, NEW w, NEW f, Entry(g, v, w, f)
  PROVE  ~ Entry(g, w, v, f)
<1> SUFFICES ASSUME Entry(g, w, v, f) PROVE FALSE
  OBVIOUS
<1> DEFINE face == g.faces[f]
           n == Len(face)
<1>1. f \in DOMAIN g.faces /\ << v, w >> \in Follows(face) /\ << w, v >> \in Follows(face)
  BY EntryFollows
<1>2. face \in Path(g.nodes) /\ n >= 3
  BY <1>1, FaceIsPath
<1> HIDE DEF face
<1>3. n \in Nat /\ \A i, j \in 1..n : face[i] = face[j] => i = j
  BY <1>2, PathIndices
<1>4. PICK i \in 1..n : face[i] = v /\ w = IF i = n THEN face[1] ELSE face[i + 1]
  BY <1>1, <1>2, FollowsAt
<1>5. PICK j \in 1..n : face[j] = w /\ v = IF j = n THEN face[1] ELSE face[j + 1]
  BY <1>1, <1>2, FollowsAt
<1>6. j = IF i = n THEN 1 ELSE i + 1
  BY <1>2, <1>3, <1>4, <1>5
<1>7. i = IF j = n THEN 1 ELSE j + 1
  BY <1>2, <1>3, <1>4, <1>5
<1> HIDE DEF n
<1> QED BY <1>2, <1>3, <1>6, <1>7

(* A node inside the contour has not lost a neighbour.                     *)
LEMMA InnerIsFree ==
  ASSUME NEW g, IsEmbedding(g), NEW b, BaseShape(g, b), NEW c, NEW R, ContourShape(g, b, c, R),
         NEW u, u \notin ToSet(c), u \notin R
  PROVE  /\ Around(g, u) \cap R = {}
         /\ \A f \in DOMAIN g.faces : u \in OnFace(g, f) => Inside(g, b, R, u, f)
<1>1. ASSUME NEW f \in DOMAIN g.faces, u \in OnFace(g, f) PROVE Inside(g, b, R, u, f)
  <2>1. CASE f \notin Whole(g, R)
    <3>1. OnFace(g, f) \subseteq ToSet(c) \cup R \cup (IF f = extFace THEN ToSet(b) ELSE {})
      BY <2>1 DEF ContourShape
    <3> QED BY <1>1, <3>1 DEF Inside
  <2> QED BY <2>1 DEF Inside
<1>2. ASSUME NEW r \in Around(g, u) \cap R PROVE FALSE
  <2>1. PICK f : Entry(g, u, r, f)
    BY AroundEntry
  <2>2. PICK h : Entry(g, r, u, h)
    BY AroundEntry
  <2>3. /\ f \in DOMAIN g.faces /\ u \in OnFace(g, f) /\ r \in OnFace(g, f)
        /\ h \in DOMAIN g.faces /\ u \in OnFace(g, h) /\ r \in OnFace(g, h)
    BY <2>1, <2>2, EntryFacts
  <2>4. f \notin Whole(g, R) /\ h \notin Whole(g, R)
    BY <2>3 DEF Whole
  <2>5. f = h
    BY <1>1, <2>3, <2>4 DEF Inside
  <2> QED BY <2>1, <2>2, <2>5, NoWayBack
<1> QED BY <1>1, <1>2

Corner(g, D, p, u, n) ==
  \/ Around(g, u) \cap D = {} /\ Beside(g, u, n, p)
  \/ \E d : Around(g, u) \cap D = {d} /\ d # n /\ d # p /\ Beside(g, u, n, d) /\ Beside(g, u, d, p)

(* The faces of the nodes of D are left by the path.                       *)
Swept(g, c, R, D, a, z, P) ==
  /\ Ends(c, a, z, P) /\ P \in Path(g.nodes) /\ D = Hidden(c, a, z)
  /\ InnerOf(P) \cap ToSet(c) = {} /\ InnerOf(P) \cap R = {}
  /\ \A j \in 1..(Len(P) - 1) :
       \E f \in DOMAIN g.faces : Entry(g, P[j + 1], P[j], f) /\ OnFace(g, f) \cap D # {}
  /\ \A f \in Whole(g, R) : OnFace(g, f) \cap D # {} =>
       /\ OnFace(g, f) \subseteq ToSet(P) \cup D
       /\ \A j \in 1..Len(P) : \A w : Entry(g, w, P[j], f) =>
            w \in D \/ (j < Len(P) /\ w = P[j + 1])
  /\ \A v \in D : Around(g, v) \subseteq R \cup ToSet(P) \cup D
  /\ Around(g, c[a]) \cap D = {c[a + 1]} /\ Beside(g, c[a], P[2], c[a + 1])
  /\ Around(g, c[z]) \cap D = {c[z - 1]} /\ Beside(g, c[z], c[z - 1], P[Len(P) - 1])
  /\ \A j \in 2..(Len(P) - 1) : Corner(g, D, P[j - 1], P[j], P[j + 1])

LEMMA SweptLow ==
  ASSUME NEW g, IsEmbedding(g), NEW b, BaseShape(g, b), NEW c, NEW R, ContourShape(g, b, c, R),
         NEW D, NEW a, NEW z, NEW P, Swept(g, c, R, D, a, z, P)
  PROVE  NodeShape(g, b, R \cup D, Before(b, c, a), c[a], P[2])
<1> DEFINE v == c[a]
           p == Before(b, c, a)
           A == Around(g, v) \ R
           n == c[a + 1]
           m == P[2]
<1>1. a \in 1..Len(c) /\ z \in 1..Len(c) /\ a < z /\ Len(P) >= 2 /\ P[1] = v /\ Len(c) \in Nat /\ Len(P) \in Nat
  BY ContourIndices, PathIndices DEF Swept, Ends
<1>2. NodeShape(g, b, R, p, v, After(b, c, a))
  BY <1>1 DEF ContourShape
<1>3. After(b, c, a) = n
  BY <1>1 DEF After
<1>4. Around(g, v) \cap D = {n} /\ Beside(g, v, m, n)
  BY DEF Swept
<1>5. v \in g.nodes
  BY <1>1, ContourIndices
<1>6. P[2] \in ToSet(P) \ D /\ P[2] \notin R
  <2>1. P \in Path(g.nodes) /\ 2 \in 1..Len(P)
    BY <1>1 DEF Swept
  <2>2. P[2] \in ToSet(P)
    BY <2>1, PathIndices
  <2>3. CASE Len(P) = 2
    <3>1. P[2] = c[z]
      BY <2>3 DEF Swept, Ends
    <3>2. \A i \in (a + 1)..(z - 1) : i \in 1..Len(c) /\ i # z
      BY <1>1
    <3>3. P[2] \notin Hidden(c, a, z)
      BY <1>1, <3>1, <3>2, ContourIndices DEF Hidden
    <3>4. P[2] \notin R
      BY <1>1, <3>1, ContourIndices
    <3> QED BY <2>2, <3>3, <3>4 DEF Swept
  <2>4. CASE Len(P) # 2
    <3>0. \A k \in Nat : k >= 2 /\ k # 2 => 2 \in 2..(k - 1)
      OBVIOUS
    <3>1. 2 \in 2..(Len(P) - 1)
      BY <1>1, <2>4, <3>0
    <3>2. P[2] \in InnerOf(P)
      BY <3>1 DEF InnerOf
    <3>3. \A i \in (a + 1)..(z - 1) : i \in 1..Len(c)
      BY <1>1
    <3>4. Hidden(c, a, z) \subseteq ToSet(c)
      BY <3>3, ContourIndices DEF Hidden
    <3>5. InnerOf(P) \cap ToSet(c) = {} /\ InnerOf(P) \cap R = {} /\ D = Hidden(c, a, z)
      BY DEF Swept
    <3> QED BY <2>2, <3>2, <3>4, <3>5
  <2> QED BY <2>3, <2>4
<1>7. m \in A /\ m # n /\ n \in A
  <2>1. m \in Around(g, v) /\ n \in Around(g, v)
    BY <1>4, BesideUnique
  <2>2. n \in A
    BY <1>2, <1>3 DEF NodeShape, Segment
  <2> QED BY <1>4, <1>6, <2>1, <2>2
<1>8. Segment(g, v, A, p, n)
  BY <1>2, <1>3 DEF NodeShape
<1>9. p # n
  <2> SUFFICES ASSUME p = n PROVE FALSE
    OBVIOUS
  <2>1. A = {n}
    <3> HIDE DEF p, n, A, v
    <3> QED BY <1>5, <1>8, SegmentOfOne
  <2> QED BY <1>7, <2>1
<1>10. Around(g, v) \ (R \cup D) = A \ {n}
  BY <1>4
<1>11. Segment(g, v, A \ {n}, p, m)
  <2> HIDE DEF p, n, A, v, m
  <2> QED BY <1>4, <1>5, <1>7, <1>8, <1>9, SegmentWithoutLast
<1>12. ASSUME NEW w \in Around(g, v) \ ((R \cup D) \cup {m}), NEW f, Entry(g, w, v, f)
       PROVE  Inside(g, b, R \cup D, v, f)
  <2>1. Inside(g, b, R, v, f)
    <3>1. w \in Around(g, v) \ (R \cup {n})
      BY <1>4
    <3> QED BY <1>2, <1>3, <1>12, <3>1 DEF NodeShape
  <2>2. CASE f \in Whole(g, R)
    <3>1. OnFace(g, f) \cap D = {}
      <4> SUFFICES ASSUME OnFace(g, f) \cap D # {} PROVE FALSE
        OBVIOUS
      <4>1. \A j \in 1..Len(P) : \A x : Entry(g, x, P[j], f) => x \in D \/ (j < Len(P) /\ x = P[j + 1])
        BY <2>2 DEF Swept
      <4>2. 1 \in 1..Len(P) /\ Entry(g, w, P[1], f) /\ 1 + 1 = 2
        BY <1>1, <1>12
      <4>3. w \in D \/ w = P[2]
        BY <4>1, <4>2
      <4> QED BY <4>3
    <3> QED BY <2>2, <3>1 DEF Inside, Whole
  <2> QED BY <2>1, <2>2 DEF Inside
<1> HIDE DEF p, n, A, v, m
<1>13. NodeShape(g, b, R \cup D, p, v, m)
  BY <1>10, <1>11, <1>12 DEF NodeShape
<1> QED BY <1>13 DEF p, v, m

LEMMA SweptHigh ==
  ASSUME NEW g, IsEmbedding(g), NEW b, BaseShape(g, b), NEW c, NEW R, ContourShape(g, b, c, R),
         NEW D, NEW a, NEW z, NEW P, Swept(g, c, R, D, a, z, P)
  PROVE  NodeShape(g, b, R \cup D, P[Len(P) - 1], c[z], After(b, c, z))
<1> DEFINE v == c[z]
           n == After(b, c, z)
           A == Around(g, v) \ R
           p == c[z - 1]
           k == Len(P)
           m == P[Len(P) - 1]
<1>1. a \in 1..Len(c) /\ z \in 1..Len(c) /\ a < z /\ k >= 2 /\ P[1] = c[a] /\ P[k] = v /\ Len(c) \in Nat /\ k \in Nat
  BY ContourIndices, PathIndices DEF Swept, Ends
<1>2. NodeShape(g, b, R, Before(b, c, z), v, n)
  BY <1>1 DEF ContourShape
<1>3. Before(b, c, z) = p
  BY <1>1 DEF Before
<1>4. Around(g, v) \cap D = {p} /\ Beside(g, v, p, m)
  BY DEF Swept
<1>5. v \in g.nodes
  BY <1>1, ContourIndices
<1>6. m \in ToSet(P) \ D /\ m \notin R
  <2>1. P \in Path(g.nodes) /\ k - 1 \in 1..k
    BY <1>1 DEF Swept
  <2>2. m \in ToSet(P)
    BY <2>1, PathIndices
  <2>3. CASE k = 2
    <3>1. m = c[a]
      BY <1>1, <2>3
    <3>2. \A i \in (a + 1)..(z - 1) : i \in 1..Len(c) /\ i # a
      BY <1>1
    <3>3. m \notin Hidden(c, a, z)
      BY <1>1, <3>1, <3>2, ContourIndices DEF Hidden
    <3>4. m \notin R
      BY <1>1, <3>1, ContourIndices
    <3> QED BY <2>2, <3>3, <3>4 DEF Swept
  <2>4. CASE k # 2
    <3>0. \A i \in Nat : i >= 2 /\ i # 2 => i - 1 \in 2..(i - 1)
      OBVIOUS
    <3>1. k - 1 \in 2..(k - 1)
      BY <1>1, <2>4, <3>0
    <3>2. m \in InnerOf(P)
      BY <3>1 DEF InnerOf
    <3>3. \A i \in (a + 1)..(z - 1) : i \in 1..Len(c)
      BY <1>1
    <3>4. Hidden(c, a, z) \subseteq ToSet(c)
      BY <3>3, ContourIndices DEF Hidden
    <3>5. InnerOf(P) \cap ToSet(c) = {} /\ InnerOf(P) \cap R = {} /\ D = Hidden(c, a, z)
      BY DEF Swept
    <3> QED BY <2>2, <3>2, <3>4, <3>5
  <2> QED BY <2>3, <2>4
<1>7. m \in A /\ m # p /\ p \in A
  <2>1. m \in Around(g, v) /\ p \in Around(g, v)
    BY <1>4, BesideUnique
  <2>2. p \in A
    BY <1>2, <1>3 DEF NodeShape, Segment
  <2> QED BY <1>4, <1>6, <2>1, <2>2
<1>8. Segment(g, v, A, p, n)
  BY <1>2, <1>3 DEF NodeShape
<1>9. p # n
  <2> SUFFICES ASSUME p = n PROVE FALSE
    OBVIOUS
  <2>1. A = {n}
    <3> HIDE DEF p, n, A, v
    <3> QED BY <1>5, <1>8, SegmentOfOne
  <2> QED BY <1>7, <2>1
<1>10. Around(g, v) \ (R \cup D) = A \ {p}
  BY <1>4
<1>11. Segment(g, v, A \ {p}, m, n)
  <2> HIDE DEF p, n, A, v, m
  <2> QED BY <1>4, <1>5, <1>7, <1>8, <1>9, SegmentWithoutFirst
<1>12. ASSUME NEW w \in Around(g, v) \ ((R \cup D) \cup {n}), NEW f, Entry(g, w, v, f)
       PROVE  Inside(g, b, R \cup D, v, f)
  <2>1. Inside(g, b, R, v, f)
    BY <1>2, <1>12 DEF NodeShape
  <2>2. CASE f \in Whole(g, R)
    <3>1. OnFace(g, f) \cap D = {}
      <4> SUFFICES ASSUME OnFace(g, f) \cap D # {} PROVE FALSE
        OBVIOUS
      <4>1. \A j \in 1..Len(P) : \A x : Entry(g, x, P[j], f) => x \in D \/ (j < Len(P) /\ x = P[j + 1])
        BY <2>2 DEF Swept
      <4>2. k \in 1..k /\ Entry(g, w, P[k], f) /\ ~ k < k
        BY <1>1, <1>12
      <4>3. w \in D
        BY <4>1, <4>2
      <4> QED BY <4>3
    <3> QED BY <2>2, <3>1 DEF Inside, Whole
  <2> QED BY <2>1, <2>2 DEF Inside
<1> HIDE DEF p, n, A, v, m
<1>13. NodeShape(g, b, R \cup D, m, v, n)
  BY <1>10, <1>11, <1>12 DEF NodeShape
<1> QED BY <1>13 DEF n, v, m

LEMMA SweptInner ==
  ASSUME NEW g, IsEmbedding(g), NEW b, BaseShape(g, b), NEW c, NEW R, ContourShape(g, b, c, R),
         NEW D, NEW a, NEW z, NEW P, Swept(g, c, R, D, a, z, P), NEW j \in 2..(Len(P) - 1)
  PROVE  NodeShape(g, b, R \cup D, P[j - 1], P[j], P[j + 1])
<1> DEFINE u == P[j]
           p == P[j - 1]
           n == P[j + 1]
<1>1. P \in Path(g.nodes) /\ Len(P) \in Nat /\ j \in 1..Len(P) /\ j < Len(P)
  BY PathIndices DEF Swept
<1>2. u \in InnerOf(P) /\ u \in g.nodes
  BY <1>1, PathIndices DEF InnerOf
<1>3. u \notin ToSet(c) /\ u \notin R
  BY <1>2 DEF Swept
<1>4. /\ Around(g, u) \cap R = {}
      /\ \A f \in DOMAIN g.faces : u \in OnFace(g, f) => Inside(g, b, R, u, f)
  BY <1>3, InnerIsFree
<1>5. Corner(g, D, p, u, n)
  BY DEF Swept
<1>6. \A f \in Whole(g, R) : OnFace(g, f) \cap D # {} => \A w : Entry(g, w, u, f) => w \in D \/ w = n
  BY <1>1 DEF Swept
<1> HIDE DEF u, p, n
<1>7. Segment(g, u, Around(g, u) \ (R \cup D), p, n)
  <2>1. CASE Around(g, u) \cap D = {} /\ Beside(g, u, n, p)
    <3>1. Around(g, u) \ (R \cup D) = Around(g, u)
      BY <1>4, <2>1
    <3> QED BY <1>2, <2>1, <3>1, SegmentOfAll
  <2>2. CASE \E d : Around(g, u) \cap D = {d} /\ d # n /\ d # p /\ Beside(g, u, n, d) /\ Beside(g, u, d, p)
    <3>1. PICK d : Around(g, u) \cap D = {d} /\ d # n /\ d # p /\ Beside(g, u, n, d) /\ Beside(g, u, d, p)
      BY <2>2
    <3>2. Around(g, u) \ (R \cup D) = Around(g, u) \ {d}
      BY <1>4, <3>1
    <3> QED BY <1>2, <3>1, <3>2, SegmentOfAllBut
  <2> QED BY <1>5, <2>1, <2>2 DEF Corner
<1>8. ASSUME NEW w \in Around(g, u) \ ((R \cup D) \cup {n}), NEW f, Entry(g, w, u, f)
      PROVE  Inside(g, b, R \cup D, u, f)
  <2>1. f \in DOMAIN g.faces /\ u \in OnFace(g, f)
    BY <1>8, EntryFacts
  <2>2. Inside(g, b, R, u, f)
    BY <1>4, <2>1
  <2>3. CASE f \in Whole(g, R)
    <3>1. OnFace(g, f) \cap D = {}
      BY <1>6, <1>8, <2>3
    <3> QED BY <2>3, <3>1 DEF Inside, Whole
  <2> QED BY <2>2, <2>3 DEF Inside
<1>9. NodeShape(g, b, R \cup D, p, u, n)
  BY <1>7, <1>8 DEF NodeShape
<1> QED BY <1>9 DEF p, u, n

LEMMA SweptShape ==
  ASSUME NEW g, IsEmbedding(g), NEW b, BaseShape(g, b), NEW c, NEW R, ContourShape(g, b, c, R),
         NEW D, NEW a, NEW z, NEW P, Swept(g, c, R, D, a, z, P), D \cap ToSet(b) = {},
         NEW d \in Seq(g.nodes), Splice(c, a, z, P, d)
  PROVE  ContourShape(g, b, d, R \cup D)
<1> DEFINE q == Len(c)
           m == Len(P)
           n == Len(d)
           S == R \cup D
           h == a + m - 1 - z
<1>1. /\ a \in 1..q /\ z \in 1..q /\ a < z /\ m >= 2 /\ q \in Nat /\ m \in Nat /\ q >= 2
      /\ P[1] = c[a] /\ P[m] = c[z] /\ Ends(c, a, z, P)
  BY ContourIndices, PathIndices DEF Swept, Ends
<1>2. c \in Path(g.nodes) /\ P \in Path(g.nodes) /\ InnerOf(P) \cap ToSet(c) = {} /\ InnerOf(P) \cap R = {}
      /\ D = Hidden(c, a, z)
  BY DEF Swept, ContourShape
<1>3. /\ d \in Path(g.nodes)
      /\ ToSet(d) = (ToSet(c) \ D) \cup InnerOf(P)
      /\ ToSet(P) = InnerOf(P) \cup {c[a], c[z]} /\ ToSet(P) \subseteq ToSet(d)
      /\ D \subseteq ToSet(c) /\ D \cap ToSet(d) = {}
  BY <1>1, <1>2, SplicePath
<1>4. /\ n = a + m - 1 + (q - z)
      /\ \A i \in 1..a : d[i] = c[i]
      /\ \A j \in 1..m : d[a + j - 1] = P[j]
      /\ \A i \in z..q : d[i - z + a + m - 1] = c[i]
  BY DEF Splice
<1>5. /\ \A k \in 1..n :
           \/ k \in 1..a /\ d[k] = c[k]
           \/ \E j \in 2..(m - 1) : k = a + j - 1 /\ d[k] = P[j]
           \/ \E i \in z..q : k = i - z + a + m - 1 /\ d[k] = c[i]
  BY <1>1, <1>2, SplicePlaces
<1>6. /\ c[1] = b[1] /\ c[q] = b[Len(b)]
      /\ R \subseteq g.nodes /\ R \cap ToSet(c) = {} /\ R \cap ToSet(b) = {}
      /\ \A i \in 1..(q - 1) : EdgeShape(g, R, c[i], c[i + 1])
      /\ \A i \in 1..q : NodeShape(g, b, R, Before(b, c, i), c[i], After(b, c, i))
      /\ \A f \in DOMAIN g.faces \ Whole(g, R) :
           OnFace(g, f) \subseteq ToSet(c) \cup R \cup (IF f = extFace THEN ToSet(b) ELSE {})
  BY DEF ContourShape
<1>7. Whole(g, S) = {f \in Whole(g, R) : OnFace(g, f) \cap D = {}}
  BY DEF Whole
<1>8. \A i, j \in 1..q : c[i] = c[j] => i = j
  BY ContourIndices
<1>9. \A i \in 1..q : c[i] \in ToSet(c) /\ c[i] \in g.nodes /\ c[i] \notin R
  BY ContourIndices
<1>10. n >= 2 /\ n \in Nat /\ a + m - 1 \in 1..n
  BY <1>1, <1>4
<1>11. d[1] = b[1]
  BY <1>1, <1>4, <1>6
<1>12. d[n] = b[Len(b)]
  <2>1. q \in z..q /\ q - z + a + m - 1 = n
    BY <1>1, <1>4
  <2> QED BY <1>4, <1>6, <2>1
<1>13. S \subseteq g.nodes /\ S \cap ToSet(d) = {} /\ S \cap ToSet(b) = {}
  <2>1. D \subseteq g.nodes
    BY <1>2, <1>3, PathIndices
  <2> QED BY <1>2, <1>3, <1>6, <2>1
<1>14. \A f \in DOMAIN g.faces \ Whole(g, S) :
         OnFace(g, f) \subseteq ToSet(d) \cup S \cup (IF f = extFace THEN ToSet(b) ELSE {})
  <2> SUFFICES ASSUME NEW f \in DOMAIN g.faces \ Whole(g, S)
               PROVE  OnFace(g, f) \subseteq ToSet(d) \cup S \cup (IF f = extFace THEN ToSet(b) ELSE {})
    OBVIOUS
  <2>1. CASE f \notin Whole(g, R)
    <3>1. OnFace(g, f) \subseteq ToSet(c) \cup R \cup (IF f = extFace THEN ToSet(b) ELSE {})
      BY <1>6, <2>1
    <3> QED BY <1>3, <3>1
  <2>2. CASE f \in Whole(g, R)
    <3>1. OnFace(g, f) \cap D # {}
      BY <1>7, <2>2
    <3>2. OnFace(g, f) \subseteq ToSet(P) \cup D
      BY <2>2, <3>1 DEF Swept
    <3> QED BY <1>3, <3>2
  <2> QED BY <2>1, <2>2
<1>15. \A j \in 1..(m - 1) : EdgeShape(g, S, P[j], P[j + 1])
  <2> SUFFICES ASSUME NEW j \in 1..(m - 1) PROVE EdgeShape(g, S, P[j], P[j + 1])
    OBVIOUS
  <2>1. PICK f \in DOMAIN g.faces : Entry(g, P[j + 1], P[j], f) /\ OnFace(g, f) \cap D # {}
    BY DEF Swept
  <2>2. P[j + 1] \in Around(g, P[j]) /\ \A x : Entry(g, P[j + 1], P[j], x) => x = f
    BY <2>1, EntryFacts
  <2> QED BY <1>7, <2>1, <2>2 DEF EdgeShape
<1>16. \A i \in 1..(q - 1) : EdgeShape(g, S, c[i], c[i + 1])
  BY <1>6, <1>7 DEF EdgeShape
<1> HIDE DEF q, m, n, S
<1>17. ASSUME NEW k \in 1..(n - 1) PROVE EdgeShape(g, S, d[k], d[k + 1])
  <2>1. CASE k < a
    <3>1. k \in 1..a /\ k + 1 \in 1..a /\ k \in 1..(q - 1)
      BY <1>1, <2>1
    <3> QED BY <1>4, <1>16, <3>1
  <2>2. CASE k >= a /\ k < a + m - 1
    <3> DEFINE j == k - a + 1
    <3>1. j \in 1..(m - 1) /\ j \in 1..m /\ j + 1 \in 1..m /\ a + j - 1 = k /\ a + (j + 1) - 1 = k + 1
      BY <1>1, <2>2
    <3> HIDE DEF j
    <3>2. d[k] = P[j] /\ d[k + 1] = P[j + 1]
      BY <1>4, <3>1
    <3> QED BY <1>15, <3>1, <3>2
  <2>3. CASE k >= a + m - 1
    <3> DEFINE i == k - (a + m - 1) + z
    <3>1. i \in z..q /\ i + 1 \in z..q /\ i \in 1..(q - 1) /\ i - z + a + m - 1 = k /\ (i + 1) - z + a + m - 1 = k + 1
      BY <1>1, <1>4, <2>3
    <3> HIDE DEF i
    <3>2. d[k] = c[i] /\ d[k + 1] = c[i + 1]
      BY <1>4, <3>1
    <3> QED BY <1>16, <3>1, <3>2
  <2> QED BY <1>1, <1>4, <2>1, <2>2, <2>3
<1>18. ASSUME NEW i \in 1..q, i # a, i # z, c[i] \notin D
       PROVE  NodeShape(g, b, S, Before(b, c, i), c[i], After(b, c, i))
  <2> DEFINE v == c[i]
  <2>1. v \in ToSet(c) /\ v \notin R /\ v \notin D
    BY <1>9, <1>18
  <2>2. v \notin ToSet(P)
    <3>1. v # c[a] /\ v # c[z]
      BY <1>1, <1>8, <1>18
    <3> HIDE DEF v
    <3> QED BY <1>2, <1>3, <2>1, <3>1
  <2>3. Around(g, v) \cap D = {}
    <3> SUFFICES ASSUME NEW x \in Around(g, v) \cap D PROVE FALSE
      OBVIOUS
    <3>1. v \in Around(g, x)
      BY AroundEntry
    <3>2. Around(g, x) \subseteq R \cup ToSet(P) \cup D
      BY DEF Swept
    <3> QED BY <2>1, <2>2, <3>1, <3>2
  <2>4. NodeShape(g, b, R, Before(b, c, i), v, After(b, c, i))
    BY <1>6, <1>18 DEF q
  <2> HIDE DEF v
  <2>5. Around(g, v) \ S = Around(g, v) \ R
    BY <2>3 DEF S
  <2>6. ASSUME NEW w \in Around(g, v) \ (S \cup {After(b, c, i)}), NEW f, Entry(g, w, v, f)
        PROVE  Inside(g, b, S, v, f)
    <3>1. Inside(g, b, R, v, f)
      BY <2>4, <2>6 DEF NodeShape, S
    <3>2. CASE f \in Whole(g, R)
      <4>1. v \in OnFace(g, f)
        BY <2>6, EntryFacts
      <4>2. OnFace(g, f) \cap D = {}
        <5> SUFFICES ASSUME OnFace(g, f) \cap D # {} PROVE FALSE
          OBVIOUS
        <5>1. OnFace(g, f) \subseteq ToSet(P) \cup D
          BY <3>2 DEF Swept
        <5> QED BY <2>1, <2>2, <4>1, <5>1
      <4> QED BY <1>7, <3>2, <4>2 DEF Inside
    <3> QED BY <3>1, <3>2 DEF Inside
  <2>7. NodeShape(g, b, S, Before(b, c, i), v, After(b, c, i))
    BY <2>4, <2>5, <2>6 DEF NodeShape
  <2> QED BY <2>7 DEF v
<1>19. NodeShape(g, b, S, Before(b, c, a), c[a], P[2])
  BY SweptLow DEF S
<1>20. NodeShape(g, b, S, P[m - 1], c[z], After(b, c, z))
  BY SweptHigh DEF S, m
<1>21. ASSUME NEW k \in 1..n
       PROVE  NodeShape(g, b, S, Before(b, d, k), d[k], After(b, d, k))
  <2>1. CASE k < a
    <3>1. k \in 1..a /\ k \in 1..q /\ k # a /\ k # z /\ k # q /\ k # n /\ k + 1 \in 1..a /\ (k # 1 => k - 1 \in 1..a)
      BY <1>1, <1>4, <2>1
    <3>2. Before(b, d, k) = Before(b, c, k) /\ After(b, d, k) = After(b, c, k) /\ d[k] = c[k]
      BY <1>4, <3>1 DEF Before, After, q, n
    <3>3. c[k] \notin D
      <4>1. \A i \in (a + 1)..(z - 1) : i \in 1..q /\ i # k
        BY <1>1, <3>1
      <4> QED BY <1>2, <1>8, <3>1, <4>1 DEF Hidden
    <3> QED BY <1>18, <3>1, <3>2, <3>3
  <2>2. CASE k = a
    <3>1. k \in 1..a /\ k # n /\ (k # 1 => k - 1 \in 1..a) /\ 2 \in 1..m /\ a + 2 - 1 = k + 1
      BY <1>1, <1>4, <2>2
    <3>2. Before(b, d, k) = Before(b, c, a) /\ After(b, d, k) = P[2] /\ d[k] = c[a]
      BY <1>4, <2>2, <3>1 DEF Before, After, n
    <3> QED BY <1>19, <3>2
  <2>3. CASE k > a /\ k < a + m - 1
    <3> DEFINE j == k - a + 1
    <3>1. /\ j \in 2..(m - 1) /\ j \in 1..m /\ j + 1 \in 1..m /\ j - 1 \in 1..m
          /\ a + j - 1 = k /\ a + (j + 1) - 1 = k + 1 /\ a + (j - 1) - 1 = k - 1 /\ k # 1 /\ k # n
      BY <1>1, <1>4, <2>3
    <3> HIDE DEF j
    <3>2. d[k] = P[j] /\ d[k + 1] = P[j + 1] /\ d[k - 1] = P[j - 1]
      BY <1>4, <3>1
    <3>3. Before(b, d, k) = P[j - 1] /\ After(b, d, k) = P[j + 1]
      BY <3>1, <3>2 DEF Before, After, n
    <3>4. NodeShape(g, b, S, P[j - 1], P[j], P[j + 1])
      BY <3>1, SweptInner DEF S, m
    <3> QED BY <3>2, <3>3, <3>4
  <2>4. CASE k = a + m - 1
    <3>1. /\ m \in 1..m /\ m - 1 \in 1..m /\ a + (m - 1) - 1 = k - 1 /\ k # 1
          /\ (z = q <=> k = n) /\ (z # q => z + 1 \in z..q /\ (z + 1) - z + a + m - 1 = k + 1)
      BY <1>1, <1>4, <2>4
    <3>2. d[k] = P[m] /\ d[k - 1] = P[m - 1]
      BY <1>4, <2>4, <3>1
    <3>3. Before(b, d, k) = P[m - 1]
      BY <3>1, <3>2 DEF Before
    <3>4. After(b, d, k) = After(b, c, z)
      <4>1. CASE z = q
        BY <3>1, <4>1 DEF After, n, q
      <4>2. CASE z # q
        <5>1. d[k + 1] = c[z + 1]
          BY <1>4, <3>1, <4>2
        <5> QED BY <3>1, <4>2, <5>1 DEF After, n, q
      <4> QED BY <4>1, <4>2
    <3> QED BY <1>1, <1>20, <3>2, <3>3, <3>4
  <2>5. CASE k > a + m - 1
    <3> DEFINE i == k - (a + m - 1) + z
    <3>1. /\ i \in z..q /\ i - 1 \in z..q /\ i \in 1..q /\ i # a /\ i # z /\ i # 1 /\ k # 1
          /\ i - z + a + m - 1 = k /\ (i - 1) - z + a + m - 1 = k - 1
          /\ (i = q <=> k = n) /\ (i # q => i + 1 \in z..q /\ (i + 1) - z + a + m - 1 = k + 1)
      BY <1>1, <1>4, <2>5
    <3> HIDE DEF i
    <3>2. d[k] = c[i] /\ d[k - 1] = c[i - 1] /\ (i # q => d[k + 1] = c[i + 1])
      BY <1>4, <3>1
    <3>3. Before(b, d, k) = Before(b, c, i)
      BY <3>1, <3>2 DEF Before
    <3>4. After(b, d, k) = After(b, c, i)
      <4>1. CASE i = q
        BY <3>1, <4>1 DEF After, n, q
      <4>2. CASE i # q
        BY <3>1, <3>2, <4>2 DEF After, n, q
      <4> QED BY <4>1, <4>2
    <3>5. c[i] \notin D
      <4>1. i \in 1..q /\ \A x \in (a + 1)..(z - 1) : x \in 1..q /\ x # i
        BY <1>1, <3>1
      <4>2. \A x \in (a + 1)..(z - 1) : c[x] # c[i]
        BY <1>8, <4>1
      <4> QED BY <1>2, <4>2 DEF Hidden
    <3> QED BY <1>18, <3>1, <3>2, <3>3, <3>4, <3>5
  <2> QED BY <1>1, <1>4, <2>1, <2>2, <2>3, <2>4, <2>5
<1>22. ContourShape(g, b, d, S)
  BY <1>3, <1>10, <1>11, <1>12, <1>13, <1>14, <1>17, <1>21 DEF ContourShape, n
<1> QED BY <1>22 DEF S

-----------------------------------------------------------------------------
(***************************************************************************)
(* The state t fits the contour c.                                         *)
(***************************************************************************)
Linked(g, t, c, R) ==
  /\ \A i \in 1..(Len(c) - 1) :
       /\ Beside(g, c[i], t.nextSucc[c[i]], c[i + 1])
       /\ Beside(g, c[i + 1], c[i], t.prevPred[c[i + 1]])
  /\ \A v \in g.nodes \ R : t.deg[v] = Cardinality(Around(g, v) \ R)
  /\ \A v \in g.nodes : t.cutf[v] = 0
  /\ \A f \in DOMAIN g.faces : t.virtSrc[f] = None
  /\ \A v \in g.nodes, f \in DOMAIN g.faces : << v, f >> \in t.inF <=> v \in OnFace(g, f)
  /\ t.virt = {} /\ t.onOuter = ToSet(c) \cup R

LEMMA AdjStartEnd ==
  ASSUME IsEmbedding(E), BaseShape(E, base), NEW c, NEW R, ContourShape(E, base, c, R),
         NEW t, Linked(E, t, c, R), NEW i \in 1..Len(c)
  PROVE  /\ Beside(E, c[i], Before(base, c, i), adjEnd(t, c[i]))
         /\ Beside(E, c[i], adjStart(t, c[i]), After(base, c, i))
<1> DEFINE p == Len(base)
           q == Len(c)
           v == c[i]
<1>1. p \in Nat /\ p >= 2 /\ base[1] = Head(base) /\ base[p] = Last(base)
  <2>1. base \in Path(E.nodes) /\ p >= 2
    BY DEF BaseShape
  <2>2. base \in Seq(E.nodes) /\ p \in Nat
    BY <2>1, PathIndices
  <2>3. base[1] = Head(base) /\ base[p] = Last(base)
    BY <2>2 DEF Last
  <2> QED BY <2>1, <2>2, <2>3
<1>2. q \in Nat /\ q >= 2 /\ (\A k, l \in 1..q : c[k] = c[l] => k = l) /\ c[1] = base[1] /\ c[q] = base[p]
  <2>1. c[1] = base[1] /\ c[q] = base[p]
    BY DEF ContourShape
  <2> QED BY <2>1, ContourIndices
<1>3. vLeft = c[1] /\ vRight = c[q]
  BY <1>1, <1>2 DEF vLeft, vRight
<1>4. Beside(E, v, adjStart(t, v), After(base, c, i))
  <2>1. CASE i # q
    <3>1. v # vRight /\ i \in 1..(q - 1)
      BY <1>2, <1>3, <2>1
    <3>2. adjStart(t, v) = t.nextSucc[v] /\ After(base, c, i) = c[i + 1]
      BY <2>1, <3>1 DEF adjStart, After
    <3> QED BY <3>1, <3>2 DEF Linked
  <2>2. CASE i = q
    <3>1. p - 1 \in 1..(p - 1) /\ (p - 1) + 1 = p
      BY <1>1
    <3>2. Entry(E, base[p - 1], base[p], extFace)
      BY <3>1 DEF BaseShape
    <3>3. base[p - 1] \in Around(E, v)
      BY <1>2, <2>2, <3>2, EntryFacts
    <3>4. adjStart(t, v) = cyclicSucc(v, base[p - 1]) /\ After(base, c, i) = base[p - 1]
      BY <1>3, <2>2 DEF adjStart, After
    <3> QED BY <3>3, <3>4, CyclicIsBeside
  <2> QED BY <2>1, <2>2
<1>5. Beside(E, v, Before(base, c, i), adjEnd(t, v))
  <2>1. CASE i # 1
    <3>1. v # vLeft /\ i - 1 \in 1..(q - 1) /\ (i - 1) + 1 = i
      BY <1>2, <1>3, <2>1
    <3>2. adjEnd(t, v) = t.prevPred[v] /\ Before(base, c, i) = c[i - 1]
      BY <2>1, <3>1 DEF adjEnd, Before
    <3>3. Beside(E, c[(i - 1) + 1], c[i - 1], t.prevPred[c[(i - 1) + 1]])
      BY <3>1 DEF Linked
    <3> QED BY <3>1, <3>2, <3>3
  <2>2. CASE i = 1
    <3>1. 1 \in 1..(p - 1) /\ 1 + 1 = 2
      BY <1>1
    <3>2. Entry(E, base[1], base[2], extFace)
      BY <3>1 DEF BaseShape
    <3>3. base[2] \in Around(E, v)
      BY <1>2, <2>2, <3>2, EntryFacts
    <3>4. adjEnd(t, v) = cyclicPred(v, base[2]) /\ Before(base, c, i) = base[2]
      BY <1>3, <2>2 DEF adjEnd, Before
    <3> QED BY <3>3, <3>4, CyclicIsBeside
  <2> QED BY <2>1, <2>2
<1> QED BY <1>4, <1>5

LEMMA AdjFacesOf ==
  ASSUME IsEmbedding(E), BaseShape(E, base), NEW c, NEW R, ContourShape(E, base, c, R),
         NEW t, Linked(E, t, c, R), NEW v \in ToSet(c)
  PROVE  /\ getAdjFaces(t, v) \in Path(DOMAIN E.faces)
         /\ FacesOf(E, base, R, v, AdjOf(t, v))
<1>1. PICK i \in 1..Len(c) : c[i] = v
  BY ContourIndices
<1> DEFINE p == Before(base, c, i)
           n == After(base, c, i)
           A == Around(E, v) \ R
<1>2. v \in E.nodes /\ v \notin R
  BY <1>1, ContourIndices
<1>3. Segment(E, v, A, p, n)
  BY <1>1 DEF ContourShape, NodeShape
<1>4. Beside(E, v, p, adjEnd(t, v)) /\ Beside(E, v, adjStart(t, v), n)
  BY <1>1, AdjStartEnd
<1>5. t.deg[v] = Cardinality(A)
  BY <1>2 DEF Linked
<1>6. FacesOf(E, base, R, v, Gaps(E, v, A, n))
  BY <1>1, GapsAreFaces
<1> HIDE DEF p, n, A
<1>7. AdjFaces(E, v, A, n, getAdjFaces(t, v))
  BY <1>2, <1>3, <1>4, <1>5, GetAdjFaces
<1> DEFINE F == AdjOf(t, v)
           G == Gaps(E, v, A, n)
<1>8. getAdjFaces(t, v) \in Path(DOMAIN E.faces) /\ F \subseteq G /\ G \ {extFace} \subseteq F
  BY <1>7 DEF AdjFaces, AdjOf
<1> HIDE DEF F, G
<1>9. FacesOf(E, base, R, v, F)
  <2>1. extFace \notin Whole(E, R)
    BY DEF Whole
  <2> QED BY <1>6, <1>8, <2>1 DEF FacesOf, G
<1> QED BY <1>8, <1>9 DEF F

LEMMA RightOfIs ==
  ASSUME IsEmbedding(E), NEW c, NEW R, NEW t, Linked(E, t, c, R), NEW i \in 1..(Len(c) - 1)
  PROVE  Entry(E, c[i], c[i + 1], rightOf(t, c[i]))
<1>1. Beside(E, c[i], t.nextSucc[c[i]], c[i + 1])
  BY DEF Linked
<1>2. PICK f : Entry(E, t.nextSucc[c[i]], c[i], f) /\ Entry(E, c[i], c[i + 1], f)
  BY <1>1 DEF Beside
<1>3. rightOf(t, c[i]) = f
  BY <1>2 DEF rightOf, left, right, Entry
<1> QED BY <1>2, <1>3

-----------------------------------------------------------------------------
(***************************************************************************)
(* What the counters of a face f count on the contour c.                   *)
(***************************************************************************)
RightPairs(g, c, f) == {i \in 1..(Len(c) - 1) : Entry(g, c[i], c[i + 1], f)}
FacePairs(g, c, f) == {i \in 1..(Len(c) - 1) : c[i] \in OnFace(g, f) /\ c[i + 1] \in OnFace(g, f)}

(* A face that loses no node gains what is on the path.                    *)
(* What is counted along a contour and along the path put on it adds up.   *)
NodeSums(c, P, d, X) ==
  /\ IsFiniteSet(ToSet(c) \cap X) /\ IsFiniteSet(InnerOf(P) \cap X)
  /\ Cardinality(ToSet(d) \cap X) = Cardinality(ToSet(c) \cap X) + Cardinality(InnerOf(P) \cap X)
PairSums(g, c, P, d, f) ==
  /\ Cardinality(RightPairs(g, d, f))
       = Cardinality(RightPairs(g, c, f)) + Cardinality(RightPairs(g, P, f))
  /\ Cardinality(FacePairs(g, d, f))
       = Cardinality(FacePairs(g, c, f)) + Cardinality(FacePairs(g, P, f))

LEMMA SweptCounts ==
  ASSUME NEW g, IsEmbedding(g), NEW b, NEW c, NEW R, ContourShape(g, b, c, R),
         NEW D, NEW a, NEW z, NEW P, Swept(g, c, R, D, a, z, P),
         NEW d \in Seq(g.nodes), Splice(c, a, z, P, d)
  PROVE  /\ \A X : X \cap D = {} => NodeSums(c, P, d, X)
         /\ \A f : OnFace(g, f) \cap D = {} => PairSums(g, c, P, d, f)
<1> DEFINE q == Len(c)
           m == Len(P)
           n == Len(d)
<1>1. /\ a \in 1..q /\ z \in 1..q /\ a < z /\ m >= 2 /\ q \in Nat /\ m \in Nat
      /\ Ends(c, a, z, P)
  BY ContourIndices, PathIndices DEF Swept, Ends
<1>2. c \in Path(g.nodes) /\ P \in Path(g.nodes) /\ InnerOf(P) \cap ToSet(c) = {}
      /\ D = Hidden(c, a, z)
  BY DEF Swept, ContourShape
<1>3. /\ ToSet(d) = (ToSet(c) \ D) \cup InnerOf(P)
      /\ ToSet(P) = InnerOf(P) \cup {c[a], c[z]}
  BY <1>1, <1>2, SplicePath
<1>4. /\ n = a + m - 1 + (q - z)
      /\ \A i \in 1..a : d[i] = c[i]
      /\ \A j \in 1..m : d[a + j - 1] = P[j]
      /\ \A i \in z..q : d[i - z + a + m - 1] = c[i]
  BY DEF Splice
<1>5. ASSUME NEW X, X \cap D = {}
      PROVE  /\ IsFiniteSet(ToSet(c) \cap X) /\ IsFiniteSet(InnerOf(P) \cap X)
             /\ Cardinality(ToSet(d) \cap X)
                  = Cardinality(ToSet(c) \cap X) + Cardinality(InnerOf(P) \cap X)
  <2>1. IsFiniteSet(g.nodes) /\ ToSet(c) \subseteq g.nodes /\ InnerOf(P) \subseteq g.nodes
    <3>1. ToSet(c) \subseteq g.nodes /\ ToSet(P) \subseteq g.nodes
      BY <1>2, PathIndices
    <3> QED BY <1>3, <3>1, AroundNodes
  <2>2. IsFiniteSet(ToSet(c) \cap X) /\ IsFiniteSet(InnerOf(P) \cap X)
    BY <2>1, FS_Subset
  <2>3. ToSet(d) \cap X = (ToSet(c) \cap X) \cup (InnerOf(P) \cap X)
    BY <1>3, <1>5
  <2>4. (ToSet(c) \cap X) \cap (InnerOf(P) \cap X) = {}
    BY <1>2
  <2> QED BY <2>2, <2>3, <2>4, CountDisjoint
<1>6. \A i \in a..(z - 1) : c[i] \in D \/ c[i + 1] \in D
  <2> SUFFICES ASSUME NEW i \in a..(z - 1) PROVE c[i] \in D \/ c[i + 1] \in D
    OBVIOUS
  <2>1. \E j : j \in (a + 1)..(z - 1)
    <3>1. c[a + 1] \in Hidden(c, a, z)
      BY <1>2 DEF Swept
    <3> QED BY <3>1 DEF Hidden
  <2>2. i \in (a + 1)..(z - 1) \/ i + 1 \in (a + 1)..(z - 1)
    BY <1>1, <2>1
  <2> QED BY <1>2, <2>2 DEF Hidden
<1>7. /\ \A i \in 1..(a - 1) : d[i] = c[i] /\ d[i + 1] = c[i + 1] /\ i \in 1..(q - 1) /\ i \in 1..(n - 1)
      /\ \A j \in 1..(m - 1) : d[a + j - 1] = P[j] /\ d[(a + j - 1) + 1] = P[j + 1] /\ a + j - 1 \in 1..(n - 1)
      /\ \A i \in z..(q - 1) : /\ d[i - z + a + m - 1] = c[i] /\ d[(i - z + a + m - 1) + 1] = c[i + 1]
                               /\ i \in 1..(q - 1) /\ i - z + a + m - 1 \in 1..(n - 1)
  <2> HIDE DEF q, m, n
  <2>1. ASSUME NEW i \in 1..(a - 1)
        PROVE  d[i] = c[i] /\ d[i + 1] = c[i + 1] /\ i \in 1..(q - 1) /\ i \in 1..(n - 1)
    <3>1. i \in 1..a /\ i + 1 \in 1..a /\ i \in 1..(q - 1) /\ i \in 1..(n - 1)
      BY <1>1, <1>4
    <3> QED BY <1>4, <3>1
  <2>2. ASSUME NEW j \in 1..(m - 1)
        PROVE  d[a + j - 1] = P[j] /\ d[(a + j - 1) + 1] = P[j + 1] /\ a + j - 1 \in 1..(n - 1)
    <3>1. j \in 1..m /\ j + 1 \in 1..m /\ a + (j + 1) - 1 = (a + j - 1) + 1 /\ a + j - 1 \in 1..(n - 1)
      BY <1>1, <1>4
    <3>2. d[a + (j + 1) - 1] = P[j + 1]
      BY <1>4, <3>1
    <3> QED BY <1>4, <3>1, <3>2
  <2>3. ASSUME NEW i \in z..(q - 1)
        PROVE  /\ d[i - z + a + m - 1] = c[i] /\ d[(i - z + a + m - 1) + 1] = c[i + 1]
               /\ i \in 1..(q - 1) /\ i - z + a + m - 1 \in 1..(n - 1)
    <3>1. /\ i \in z..q /\ i + 1 \in z..q /\ (i + 1) - z + a + m - 1 = (i - z + a + m - 1) + 1
          /\ i \in 1..(q - 1) /\ i - z + a + m - 1 \in 1..(n - 1)
      BY <1>1, <1>4
    <3>2. d[(i + 1) - z + a + m - 1] = c[i + 1]
      BY <1>4, <3>1
    <3> QED BY <1>4, <3>1, <3>2
  <2> QED BY <2>1, <2>2, <2>3
<1>8. ASSUME NEW f, OnFace(g, f) \cap D = {}
      PROVE  /\ Cardinality(RightPairs(g, d, f))
                  = Cardinality(RightPairs(g, c, f)) + Cardinality(RightPairs(g, P, f))
             /\ Cardinality(FacePairs(g, d, f))
                  = Cardinality(FacePairs(g, c, f)) + Cardinality(FacePairs(g, P, f))
  <2>1. \A i \in a..(z - 1) : c[i] \notin OnFace(g, f) \/ c[i + 1] \notin OnFace(g, f)
    BY <1>6, <1>8
  <2>2. \A i : Entry(g, c[i], c[i + 1], f) => c[i] \in OnFace(g, f) /\ c[i + 1] \in OnFace(g, f)
    BY EntryFacts
  <2> HIDE DEF q, m, n
  <2>0. n - 1 = a + m - 1 + (q - z) - 1
    BY <1>1, <1>4
  <2>3. SplicePairs(q, m, a, z, RightPairs(g, c, f), RightPairs(g, P, f), RightPairs(g, d, f))
    <3> DEFINE I == RightPairs(g, c, f)
               J == RightPairs(g, P, f)
               K == RightPairs(g, d, f)
    <3>1. I \subseteq 1..(q - 1) /\ J \subseteq 1..(m - 1) /\ K \subseteq 1..(a + m - 1 + (q - z) - 1)
      <4>1. K \subseteq 1..(n - 1) /\ I \subseteq 1..(q - 1) /\ J \subseteq 1..(m - 1)
        BY DEF RightPairs, q, m, n
      <4> QED BY <2>0, <4>1
    <3>2. \A i \in a..(z - 1) : i \notin I
      BY <2>1, <2>2 DEF RightPairs
    <3>3. /\ \A i \in 1..(a - 1) : i \in K <=> i \in I
          /\ \A j \in 1..(m - 1) : a + j - 1 \in K <=> j \in J
          /\ \A i \in z..(q - 1) : i - z + a + m - 1 \in K <=> i \in I
      <4>1. /\ \A i : i \in I <=> i \in 1..(q - 1) /\ Entry(g, c[i], c[i + 1], f)
            /\ \A i : i \in J <=> i \in 1..(m - 1) /\ Entry(g, P[i], P[i + 1], f)
            /\ \A i : i \in K <=> i \in 1..(n - 1) /\ Entry(g, d[i], d[i + 1], f)
        BY DEF RightPairs, q, m, n
      <4> HIDE DEF I, J, K
      <4> QED BY <1>7, <4>1
    <3> QED BY <3>1, <3>2, <3>3 DEF SplicePairs
  <2>4. SplicePairs(q, m, a, z, FacePairs(g, c, f), FacePairs(g, P, f), FacePairs(g, d, f))
    <3> DEFINE I == FacePairs(g, c, f)
               J == FacePairs(g, P, f)
               K == FacePairs(g, d, f)
    <3>1. I \subseteq 1..(q - 1) /\ J \subseteq 1..(m - 1) /\ K \subseteq 1..(a + m - 1 + (q - z) - 1)
      <4>1. K \subseteq 1..(n - 1) /\ I \subseteq 1..(q - 1) /\ J \subseteq 1..(m - 1)
        BY DEF FacePairs, q, m, n
      <4> QED BY <2>0, <4>1
    <3>2. \A i \in a..(z - 1) : i \notin I
      BY <2>1 DEF FacePairs
    <3>3. /\ \A i \in 1..(a - 1) : i \in K <=> i \in I
          /\ \A j \in 1..(m - 1) : a + j - 1 \in K <=> j \in J
          /\ \A i \in z..(q - 1) : i - z + a + m - 1 \in K <=> i \in I
      <4>1. /\ \A i : i \in I <=> i \in 1..(q - 1) /\ c[i] \in OnFace(g, f) /\ c[i + 1] \in OnFace(g, f)
            /\ \A i : i \in J <=> i \in 1..(m - 1) /\ P[i] \in OnFace(g, f) /\ P[i + 1] \in OnFace(g, f)
            /\ \A i : i \in K <=> i \in 1..(n - 1) /\ d[i] \in OnFace(g, f) /\ d[i + 1] \in OnFace(g, f)
        BY DEF FacePairs, q, m, n
      <4> HIDE DEF I, J, K
      <4>2. \A i \in 1..(a - 1) : i \in K <=> i \in I
        BY <1>7, <4>1
      <4>3. \A j \in 1..(m - 1) : a + j - 1 \in K <=> j \in J
        BY <1>7, <4>1
      <4>4. \A i \in z..(q - 1) : i - z + a + m - 1 \in K <=> i \in I
        BY <1>7, <4>1
      <4> QED BY <4>2, <4>3, <4>4
    <3> QED BY <3>1, <3>2, <3>3 DEF SplicePairs
  <2> QED BY <1>1, <2>3, <2>4, SpliceCount
<1> QED BY <1>5, <1>8 DEF NodeSums, PairSums

BaseInner(b) == ToSet(b) \ {b[1], b[Len(b)]}
SepOf(g, t, c, v) == {f \in t.isSf : v \in ToSet(c) /\ v \in OnFace(g, f)}

FaceCounts(g, t, R, c) ==
  \A f \in Whole(g, R) :
    /\ t.outv[f] = Cardinality(ToSet(c) \cap OnFace(g, f))
    /\ t.oute[f] = Cardinality(RightPairs(g, c, f))
    /\ t.seqp[f] = Cardinality(FacePairs(g, c, f))
    /\ \A v \in g.nodes :
         t.outer[f][v] = IF v \in ToSet(c) /\ v \in OnFace(g, f) THEN 1 ELSE 0

(* The external face is counted for the nodes of the base, and its pairs   *)
(* are never taken back.                                                   *)
OuterBounds(g, b, t, c) ==
  /\ t.outv[extFace] <= Cardinality(ToSet(c) \cap BaseInner(b))
  /\ t.seqp[extFace] >= Len(g.faces[extFace]) - Len(b)

SepCounts(g, t, R, c) ==
  /\ t.isSf \subseteq Whole(g, R)
  /\ \A v \in g.nodes \ R : t.numsf[v] = Cardinality(SepOf(g, t, c, v))

Counted(g, b, t, R, c) == FaceCounts(g, t, R, c) /\ OuterBounds(g, b, t, c) /\ SepCounts(g, t, R, c)

(* What PathToContour marks, and what it may leave unmarked.               *)
Marks(g, t, u, R, P) ==
  /\ t.updF \subseteq u.updF /\ u.updF \subseteq t.updF \cup Whole(g, R) \cup {extFace}
  /\ t.updV \subseteq u.updV /\ u.updV \subseteq t.updV \cup InnerOf(P)
  /\ \A f \in Whole(g, R) \ u.updF :
       u.outv[f] = t.outv[f] /\ u.oute[f] = t.oute[f] /\ u.seqp[f] = t.seqp[f]

LEMMA InnerPath ==
  ASSUME NEW V, NEW P \in Path(V), Len(P) >= 2
  PROVE  Tail(Front(P)) \in Path(V) /\ ToSet(Tail(Front(P))) = InnerOf(P)
<1> DEFINE m == Len(P)
           F == Front(P)
           N == Tail(Front(P))
<1>1. m \in Nat /\ P \in Seq(V) /\ (\A i \in 1..m : P[i] \in V) /\ \A i, j \in 1..m : P[i] = P[j] => i = j
  BY PathIndices
<1>2. F \in Seq(V) /\ Len(F) = m - 1 /\ \A i \in 1..(m - 1) : F[i] = P[i]
  <2>1. F = SubSeq(P, 1, m - 1)
    BY DEF Front
  <2>2. \A i \in 1..(m - 1) : P[i] \in V
    BY <1>1
  <2> HIDE DEF F, m
  <2>3. m \in Nat /\ m - 1 \in Int /\ 1 \in Int /\ m >= 2
    BY <1>1 DEF m
  <2>4. /\ SubSeq(P, 1, m - 1) \in Seq(V)
        /\ Len(SubSeq(P, 1, m - 1)) = IF 1 <= m - 1 THEN (m - 1) - 1 + 1 ELSE 0
        /\ \A i \in 1..((m - 1) - 1 + 1) : SubSeq(P, 1, m - 1)[i] = P[1 + i - 1]
    BY <2>2, <2>3, SubSeqProperties
  <2>5. \A i \in 1..(m - 1) : i \in 1..((m - 1) - 1 + 1) /\ 1 + i - 1 = i
    BY <2>3
  <2>6. \A i \in 1..(m - 1) : SubSeq(P, 1, m - 1)[i] = P[i]
    BY <2>4, <2>5
  <2>7. Len(SubSeq(P, 1, m - 1)) = m - 1
    BY <2>3, <2>4
  <2> QED BY <2>1, <2>4, <2>6, <2>7
<1> HIDE DEF F
<1>3. N \in Seq(V) /\ Len(N) = m - 2 /\ \A i \in 1..(m - 2) : N[i] = P[i + 1]
  <2>1. F # << >> /\ N = Tail(F)
    BY <1>1, <1>2 DEF F
  <2> HIDE DEF N, m
  <2>2. /\ Tail(F) \in Seq(V) /\ Len(Tail(F)) = Len(F) - 1
        /\ \A i \in 1..Len(Tail(F)) : Tail(F)[i] = F[i + 1]
    BY <1>2, <2>1, HeadTailProperties
  <2>3. Len(N) = m - 2
    BY <1>1, <1>2, <2>1, <2>2
  <2>4. \A i \in 1..(m - 2) : i \in 1..Len(Tail(F)) /\ i + 1 \in 1..(m - 1)
    BY <1>1, <2>1, <2>3
  <2> QED BY <1>2, <2>1, <2>2, <2>3, <2>4
<1> HIDE DEF N
<1>4. DOMAIN N = 1..(m - 2)
  BY <1>3, LenProperties
<1>5. N \in Path(V)
  <2>1. ASSUME NEW i \in DOMAIN N, NEW j \in DOMAIN N, N[i] = N[j] PROVE i = j
    <3>1. i \in 1..(m - 2) /\ j \in 1..(m - 2) /\ i + 1 \in 1..m /\ j + 1 \in 1..m
      BY <1>1, <1>4
    <3>2. P[i + 1] = P[j + 1]
      BY <1>3, <2>1, <3>1
    <3> QED BY <1>1, <3>1, <3>2
  <2> QED BY <1>3, <2>1 DEF Path
<1>6. ToSet(N) = InnerOf(P)
  <2>1. \A v : v \in ToSet(N) <=> \E i \in 1..(m - 2) : N[i] = v
    BY <1>4 DEF ToSet
  <2>2. \A v : v \in InnerOf(P) <=> \E j \in 2..(m - 1) : P[j] = v
    BY DEF InnerOf
  <2>3. \A i \in 1..(m - 2) : i + 1 \in 2..(m - 1)
    BY <1>1
  <2>4. \A j \in 2..(m - 1) : j - 1 \in 1..(m - 2) /\ (j - 1) + 1 = j
    BY <1>1
  <2> HIDE DEF m
  <2>5. ASSUME NEW v \in ToSet(N) PROVE v \in InnerOf(P)
    BY <1>3, <2>1, <2>2, <2>3, <2>5
  <2>6. ASSUME NEW v \in InnerOf(P) PROVE v \in ToSet(N)
    <3>1. PICK j \in 2..(m - 1) : P[j] = v
      BY <2>2
    <3>2. N[j - 1] = v
      BY <1>3, <2>4, <3>1
    <3> QED BY <2>1, <2>4, <3>2
  <2> QED BY <2>5, <2>6
<1> QED BY <1>5, <1>6 DEF N

LEMMA KeptLinked ==
  ASSUME NEW g, NEW t, NEW c, NEW R, Linked(g, t, c, R), NEW u, Kept(t, u),
         \A v \in g.nodes : u.cutf[v] = t.cutf[v]
  PROVE  Linked(g, u, c, R)
<1>1. /\ u.nextSucc = t.nextSucc /\ u.prevPred = t.prevPred /\ u.virt = t.virt
      /\ u.deg = t.deg /\ u.onOuter = t.onOuter /\ u.virtSrc = t.virtSrc /\ u.inF = t.inF
  BY DEF Kept
<1>2. \A v \in g.nodes : u.cutf[v] = 0
  BY DEF Linked
<1> QED BY <1>1, <1>2 DEF Linked

(* The face below an edge of the contour is whole, or the external one.    *)
LEMMA EdgeIsInside ==
  ASSUME NEW g, IsEmbedding(g), NEW b, BaseShape(g, b), NEW c, NEW R, ContourShape(g, b, c, R),
         NEW i \in 1..(Len(c) - 1), NEW f, Entry(g, c[i], c[i + 1], f)
  PROVE  f \in Whole(g, R) \cup {extFace}
<1> DEFINE q == Len(c)
           n == After(b, c, i + 1)
<1>1. /\ q \in Nat /\ i \in 1..q /\ i + 1 \in 1..q /\ (i + 1 # q => i + 2 \in 1..q /\ i + 2 # i)
  BY ContourIndices
<1>2. \A j \in 1..q : c[j] \in g.nodes /\ c[j] \in ToSet(c) /\ c[j] \notin R
  BY ContourIndices
<1>3. \A j, k \in 1..q : c[j] = c[k] => j = k
  BY ContourIndices
<1>4. NodeShape(g, b, R, Before(b, c, i + 1), c[i + 1], n) /\ c[q] = b[Len(b)]
  <2>1. \A j \in 1..Len(c) : NodeShape(g, b, R, Before(b, c, j), c[j], After(b, c, j))
    BY DEF ContourShape
  <2>2. c[Len(c)] = b[Len(b)]
    BY DEF ContourShape
  <2> QED BY <1>1, <2>1, <2>2
<1> HIDE DEF n, q
<1>5. c[i] \in Around(g, c[i + 1])
  BY EntryFacts
<1>6. CASE c[i] # n
  <2>1. c[i] \in Around(g, c[i + 1]) \ (R \cup {n})
    BY <1>1, <1>2, <1>5, <1>6
  <2>2. Inside(g, b, R, c[i + 1], f)
    BY <1>4, <2>1 DEF NodeShape
  <2> QED BY <2>2 DEF Inside
<1>7. CASE c[i] = n
  <2>1. i + 1 = q
    <3>1. SUFFICES ASSUME i + 1 # q PROVE FALSE
      OBVIOUS
    <3>2. n = c[i + 2]
      BY <1>1, <3>1 DEF n, After, q
    <3> QED BY <1>1, <1>3, <1>7, <3>1, <3>2
  <2>2. n = b[Len(b) - 1]
    BY <2>1 DEF n, After, q
  <2>3. Len(b) \in Nat /\ Len(b) >= 2 /\ \A k \in 1..(Len(b) - 1) : Entry(g, b[k], b[k + 1], extFace)
    BY BaseFacts DEF BaseShape
  <2>4. Entry(g, b[Len(b) - 1], b[Len(b) - 1 + 1], extFace)
    BY <2>3
  <2>5. Len(b) - 1 + 1 = Len(b)
    BY <2>3
  <2>6. Entry(g, c[i], c[i + 1], extFace)
    BY <1>4, <1>7, <2>1, <2>2, <2>4, <2>5
  <2> QED BY <2>6, EntryFacts
<1> QED BY <1>6, <1>7

(* P is the part of d from a on.                                           *)
LiesOn(d, a, P) ==
  /\ Len(P) \in Nat /\ Len(P) >= 2 /\ a \in Nat \ {0} /\ a + Len(P) - 1 <= Len(d)
  /\ \A j \in 1..Len(P) : d[a + j - 1] = P[j]

LEMMA BelowOf ==
  ASSUME IsEmbedding(E), BaseShape(E, base), NEW d, NEW R, ContourShape(E, base, d, R),
         NEW t, Linked(E, t, d, R), NEW P, NEW a, LiesOn(d, a, P)
  PROVE  /\ \A i \in 1..(Len(P) - 1) :
              rightOf(t, P[i]) \in DOMAIN E.faces /\ rightOf(t, P[i]) \in Whole(E, R) \cup {extFace}
         /\ \A f : EdgesBelow(t, P, f) = RightPairs(E, P, f)
<1>0. /\ Len(P) \in Nat /\ Len(P) >= 2 /\ a \in Nat \ {0} /\ a + Len(P) - 1 <= Len(d)
      /\ \A j \in 1..Len(P) : d[a + j - 1] = P[j]
  BY DEF LiesOn
<1>1. \A i \in 1..(Len(P) - 1) : Entry(E, P[i], P[i + 1], rightOf(t, P[i]))
  <2>1. SUFFICES ASSUME NEW i \in 1..(Len(P) - 1)
                 PROVE  Entry(E, P[i], P[i + 1], rightOf(t, P[i]))
    OBVIOUS
  <2>2. Len(d) \in Nat
    BY ContourIndices
  <2> DEFINE k == a + i - 1
  <2>3. k \in 1..(Len(d) - 1) /\ k + 1 = a + (i + 1) - 1 /\ i \in 1..Len(P) /\ i + 1 \in 1..Len(P)
    BY <1>0, <2>2
  <2>4. d[k] = P[i] /\ d[k + 1] = P[i + 1]
    BY <1>0, <2>3
  <2> HIDE DEF k
  <2>5. Entry(E, d[k], d[k + 1], rightOf(t, d[k]))
    BY <2>3, RightOfIs
  <2> QED BY <2>4, <2>5
<1>2. \A i \in 1..(Len(P) - 1) :
        rightOf(t, P[i]) \in DOMAIN E.faces /\ rightOf(t, P[i]) \in Whole(E, R) \cup {extFace}
  <2>1. SUFFICES ASSUME NEW i \in 1..(Len(P) - 1)
                 PROVE  rightOf(t, P[i]) \in DOMAIN E.faces /\ rightOf(t, P[i]) \in Whole(E, R) \cup {extFace}
    OBVIOUS
  <2>2. Len(d) \in Nat
    BY ContourIndices
  <2> DEFINE k == a + i - 1
  <2>3. k \in 1..(Len(d) - 1) /\ k + 1 = a + (i + 1) - 1 /\ i \in 1..Len(P) /\ i + 1 \in 1..Len(P)
    BY <1>0, <2>2
  <2>4. d[k] = P[i] /\ d[k + 1] = P[i + 1]
    BY <1>0, <2>3
  <2> HIDE DEF k
  <2>5. Entry(E, d[k], d[k + 1], rightOf(t, P[i]))
    BY <1>1, <2>4
  <2>6. rightOf(t, P[i]) \in Whole(E, R) \cup {extFace}
    BY <2>3, <2>5, EdgeIsInside
  <2>7. rightOf(t, P[i]) \in DOMAIN E.faces
    BY <2>5, EntryFacts
  <2> QED BY <2>6, <2>7
<1>3. \A f : EdgesBelow(t, P, f) = RightPairs(E, P, f)
  <2>1. SUFFICES ASSUME NEW f PROVE EdgesBelow(t, P, f) = RightPairs(E, P, f)
    OBVIOUS
  <2>2. \A i \in 1..(Len(P) - 1) : rightOf(t, P[i]) = f <=> Entry(E, P[i], P[i + 1], f)
    BY <1>1, EntryFacts
  <2> QED BY <2>2 DEF EdgesBelow, RightPairs
<1> QED BY <1>2, <1>3

(* The contour that a removal leaves.                                      *)
Grown(g, b, c, R, D, a, z, P, d) ==
  /\ ContourShape(g, b, c, R) /\ Swept(g, c, R, D, a, z, P) /\ D \cap ToSet(b) = {}
  /\ d = SpliceOf(c, P)

LEMMA GrownShape ==
  ASSUME NEW g, IsEmbedding(g), NEW b, BaseShape(g, b), NEW c, NEW R, NEW D, NEW a, NEW z, NEW P,
         NEW d, Grown(g, b, c, R, D, a, z, P, d)
  PROVE  /\ ContourShape(g, b, d, R \cup D)
         /\ P \in Path(g.nodes) /\ LiesOn(d, a, P)
         /\ Splice(c, a, z, P, d) /\ d \in Seq(g.nodes)
<1>1. ContourShape(g, b, c, R) /\ Swept(g, c, R, D, a, z, P) /\ D \cap ToSet(b) = {} /\ d = SpliceOf(c, P)
  BY DEF Grown
<1>2. Ends(c, a, z, P) /\ P \in Path(g.nodes)
  BY <1>1 DEF Swept
<1>3. c \in Path(g.nodes)
  BY <1>1 DEF ContourShape
<1>4. d \in Seq(g.nodes) /\ Splice(c, a, z, P, d)
  BY <1>1, <1>2, <1>3, SpliceIndices
<1>5. ContourShape(g, b, d, R \cup D)
  BY <1>1, <1>4, SweptShape
<1>6. a \in 1..Len(c) /\ z \in 1..Len(c) /\ Len(P) >= 2
  BY <1>2 DEF Ends
<1>7. Len(c) \in Nat
  BY <1>1, ContourIndices
<1>8. Len(P) \in Nat
  BY <1>2, PathIndices
<1>9. a + Len(P) - 1 <= Len(d)
  BY <1>4, <1>6, <1>7, <1>8 DEF Splice
<1>10. \A j \in 1..Len(P) : d[a + j - 1] = P[j]
  BY <1>4 DEF Splice
<1>11. LiesOn(d, a, P)
  BY <1>6, <1>7, <1>8, <1>9, <1>10 DEF LiesOn
<1> QED BY <1>2, <1>4, <1>5, <1>11

LEMMA GrownFacts ==
  ASSUME NEW g, IsEmbedding(g), NEW b, BaseShape(g, b), NEW c, NEW R, NEW D, NEW a, NEW z, NEW P,
         NEW d, Grown(g, b, c, R, D, a, z, P, d)
  PROVE  /\ c \in Path(g.nodes) /\ d \in Path(g.nodes)
         /\ ToSet(d) = (ToSet(c) \ D) \cup InnerOf(P)
         /\ InnerOf(P) \cap ToSet(c) = {} /\ D \subseteq ToSet(c)
         /\ ToSet(P) \subseteq ToSet(d) /\ ToSet(d) \cap (R \cup D) = {}
         /\ InnerOf(P) \subseteq g.nodes
         /\ b[1] \in ToSet(c) /\ b[Len(b)] \in ToSet(c)
<1>1. ContourShape(g, b, c, R) /\ Swept(g, c, R, D, a, z, P) /\ D \cap ToSet(b) = {} /\ d = SpliceOf(c, P)
  BY DEF Grown
<1>2. /\ Ends(c, a, z, P) /\ P \in Path(g.nodes) /\ D = Hidden(c, a, z)
      /\ InnerOf(P) \cap ToSet(c) = {}
  BY <1>1 DEF Swept
<1>3. c \in Path(g.nodes) /\ c[1] = b[1] /\ c[Len(c)] = b[Len(b)]
  BY <1>1 DEF ContourShape
<1>4. d \in Seq(g.nodes) /\ Splice(c, a, z, P, d) /\ ContourShape(g, b, d, R \cup D)
  BY GrownShape
<1>6. /\ d \in Path(g.nodes) /\ Len(d) \in Nat
      /\ ToSet(d) = (ToSet(c) \ Hidden(c, a, z)) \cup InnerOf(P)
      /\ ToSet(P) \subseteq ToSet(d)
      /\ ToSet(P) = InnerOf(P) \cup {c[a], c[z]}
      /\ Hidden(c, a, z) \subseteq ToSet(c)
  BY <1>2, <1>3, <1>4, SplicePath
<1>7. a \in 1..Len(c) /\ z \in 1..Len(c) /\ Len(P) >= 2
  BY <1>2 DEF Ends
<1>8. Len(c) \in Nat /\ 1 \in 1..Len(c) /\ Len(c) \in 1..Len(c)
  BY <1>1, ContourIndices
<1>9. c[1] \in ToSet(c) /\ c[Len(c)] \in ToSet(c)
  BY <1>1, <1>8, ContourIndices
<1>10. Len(P) \in Nat /\ \A j \in 1..Len(P) : P[j] \in g.nodes
  BY <1>2, PathIndices
<1>12. ToSet(d) \cap (R \cup D) = {}
  BY <1>4 DEF ContourShape
<1>13. InnerOf(P) \subseteq g.nodes
  BY <1>10 DEF InnerOf
<1> QED BY <1>2, <1>3, <1>6, <1>9, <1>12, <1>13

OuteStep(g, d, T, P, t, u) ==
  /\ IsState(g, u) /\ Kept(t, u) /\ Linked(g, u, d, T)
  /\ u.contour = t.contour /\ u.outv = t.outv /\ u.seqp = t.seqp /\ u.outer = t.outer
  /\ u.numsf = t.numsf /\ u.updV = t.updV
  /\ \A f \in DOMAIN g.faces : u.oute[f] = t.oute[f] + Cardinality(RightPairs(g, P, f))
  /\ t.updF \subseteq u.updF /\ u.updF \subseteq t.updF \cup Whole(g, T) \cup {extFace}
  /\ \A f \in Whole(g, T) \ u.updF : Cardinality(RightPairs(g, P, f)) = 0

LEMMA PathOute ==
  ASSUME IsEmbedding(E), BaseShape(E, base), NEW c, NEW R, NEW D, NEW a, NEW z, NEW P,
         NEW d, Grown(E, base, c, R, D, a, z, P, d),
         NEW t, IsState(E, t), Linked(E, t, d, R \cup D)
  PROVE  OuteStep(E, d, R \cup D, P, t, setOute(t, P))
<1> DEFINE u == setOute(t, P)
           T == R \cup D
<1>1. ContourShape(E, base, d, T) /\ LiesOn(d, a, P)
  BY GrownShape DEF T
<1>2. /\ \A i \in 1..(Len(P) - 1) :
           rightOf(t, P[i]) \in DOMAIN E.faces /\ rightOf(t, P[i]) \in Whole(E, T) \cup {extFace}
      /\ \A f : EdgesBelow(t, P, f) = RightPairs(E, P, f)
  BY <1>1, BelowOf
<1> HIDE DEF T
<1>3. /\ IsState(E, u) /\ Kept(t, u)
      /\ u.contour = t.contour /\ u.outv = t.outv /\ u.seqp = t.seqp /\ u.outer = t.outer
      /\ u.cutf = t.cutf /\ u.numsf = t.numsf /\ u.updV = t.updV
      /\ \A f \in DOMAIN E.faces : u.oute[f] = t.oute[f] + Cardinality(EdgesBelow(t, P, f))
      /\ \A f : f \in u.updF <=> f \in t.updF \/ EdgesBelow(t, P, f) # {}
  BY <1>2, SetOute
<1> HIDE DEF u
<1>4. Linked(E, u, d, T)
  BY <1>3, KeptLinked DEF T
<1>5. \A f : EdgesBelow(t, P, f) # {} => f \in Whole(E, T) \cup {extFace}
  BY <1>2 DEF EdgesBelow
<1>6. \A f \in Whole(E, T) \ u.updF : RightPairs(E, P, f) = {}
  BY <1>2, <1>3
<1>7. Cardinality({}) = 0
  BY FS_EmptySet
<1>8. \A f \in Whole(E, T) \ u.updF : Cardinality(RightPairs(E, P, f)) = 0
  BY <1>6, <1>7
<1>9. t.updF \subseteq u.updF /\ u.updF \subseteq t.updF \cup Whole(E, T) \cup {extFace}
  BY <1>3, <1>5
<1>10. \A f \in DOMAIN E.faces : u.oute[f] = t.oute[f] + Cardinality(RightPairs(E, P, f))
  BY <1>2, <1>3
<1>11. OuteStep(E, d, T, P, t, u)
  BY <1>3, <1>4, <1>8, <1>9, <1>10 DEF OuteStep
<1> QED BY <1>11 DEF u, T

(* Of a face of the embedding, what has been met is on the path.           *)
MetOnPath(g, b, R, P, t, N) ==
  /\ \A f \in Whole(g, R) : Meeting(t, N, f) = InnerOf(P) \cap OnFace(g, f)
  /\ Meeting(t, N, extFace) \subseteq InnerOf(P) \cap BaseInner(b)
  /\ \A v \in ToSet(N) : getAdjFaces(t, v) \in Path(DOMAIN g.faces)
  /\ \A v \in ToSet(N) : \A f : f \in AdjOf(t, v) => f \in Whole(g, R) \cup {extFace}
  /\ \A v \in ToSet(N) : \A f \in Whole(g, R) : f \in AdjOf(t, v) <=> v \in OnFace(g, f)

LEMMA MetOnPathOf ==
  ASSUME IsEmbedding(E), BaseShape(E, base), NEW d, NEW T, ContourShape(E, base, d, T),
         NEW t, Linked(E, t, d, T), NEW P, NEW N, ToSet(N) = InnerOf(P),
         InnerOf(P) \subseteq ToSet(d), base[1] \notin InnerOf(P), base[Len(base)] \notin InnerOf(P)
  PROVE  MetOnPath(E, base, T, P, t, N)
<1>1. \A v \in ToSet(N) : getAdjFaces(t, v) \in Path(DOMAIN E.faces) /\ FacesOf(E, base, T, v, AdjOf(t, v))
  BY AdjFacesOf
<1>2. /\ \A v \in ToSet(N) : \A f : f \in AdjOf(t, v) => Inside(E, base, T, v, f)
      /\ \A v \in ToSet(N) : \A f \in Whole(E, T) : f \in AdjOf(t, v) <=> v \in OnFace(E, f)
  BY <1>1 DEF FacesOf
<1>3. \A v \in ToSet(N) : \A f : f \in AdjOf(t, v) => f \in Whole(E, T) \cup {extFace}
  BY <1>2 DEF Inside
<1>4. \A f \in Whole(E, T) : Meeting(t, N, f) = InnerOf(P) \cap OnFace(E, f)
  BY <1>2 DEF Meeting
<1>5. extFace \notin Whole(E, T)
  BY DEF Whole
<1>6. Meeting(t, N, extFace) \subseteq InnerOf(P) \cap BaseInner(base)
  BY <1>2, <1>5 DEF Meeting, Inside, BaseInner
<1> QED BY <1>1, <1>2, <1>3, <1>4, <1>6 DEF MetOnPath

OutvStep(g, b, d, T, P, N, t, u) ==
  /\ IsState(g, u) /\ Kept(t, u) /\ Linked(g, u, d, T)
  /\ u.contour = t.contour /\ u.oute = t.oute /\ u.seqp = t.seqp
  /\ ToSet(N) = InnerOf(P) /\ MetOnPath(g, b, T, P, t, N)
  /\ \A f \in DOMAIN g.faces : u.outv[f] = t.outv[f] + Cardinality(Meeting(t, N, f))
  /\ \A f \in DOMAIN g.faces, v \in g.nodes :
       u.outer[f][v] = t.outer[f][v] + IF v \in InnerOf(P) /\ f \in AdjOf(t, v) THEN 1 ELSE 0
  /\ \A v \in g.nodes :
       u.numsf[v] = t.numsf[v] + IF v \in InnerOf(P) THEN Cardinality(AdjOf(t, v) \cap t.isSf) ELSE 0
  /\ t.updF \subseteq u.updF /\ u.updF \subseteq t.updF \cup Whole(g, T) \cup {extFace}
  /\ \A f \in Whole(g, T) \ u.updF : Meeting(t, N, f) = {}
  /\ t.updV \subseteq u.updV /\ u.updV \subseteq t.updV \cup InnerOf(P)

LEMMA PathOutv ==
  ASSUME IsEmbedding(E), BaseShape(E, base), NEW c, NEW R, NEW D, NEW a, NEW z, NEW P,
         NEW d, Grown(E, base, c, R, D, a, z, P, d),
         NEW t, IsState(E, t), Linked(E, t, d, R \cup D)
  PROVE  OutvStep(E, base, d, R \cup D, P, Tail(Front(P)), t, setOutv(t, Tail(Front(P))))
<1> DEFINE N == Tail(Front(P))
           u == setOutv(t, N)
           T == R \cup D
<1>1. ContourShape(E, base, d, T) /\ P \in Path(E.nodes) /\ LiesOn(d, a, P)
  BY GrownShape DEF T
<1>2. Len(P) >= 2
  BY <1>1 DEF LiesOn
<1>3. N \in Path(E.nodes) /\ ToSet(N) = InnerOf(P)
  BY <1>1, <1>2, InnerPath
<1>4. /\ InnerOf(P) \subseteq ToSet(d)
      /\ base[1] \notin InnerOf(P) /\ base[Len(base)] \notin InnerOf(P)
  <2>1. /\ ToSet(d) = (ToSet(c) \ D) \cup InnerOf(P) /\ InnerOf(P) \cap ToSet(c) = {}
        /\ base[1] \in ToSet(c) /\ base[Len(base)] \in ToSet(c)
    BY GrownFacts
  <2> QED BY <2>1
<1>5. Linked(E, t, d, T)
  BY DEF T
<1> HIDE DEF T, N
<1>6. MetOnPath(E, base, T, P, t, N)
  BY <1>1, <1>3, <1>4, <1>5, MetOnPathOf
<1>7. /\ \A v \in ToSet(N) : getAdjFaces(t, v) \in Path(DOMAIN E.faces)
      /\ \A v \in ToSet(N) : \A f : f \in AdjOf(t, v) => f \in Whole(E, T) \cup {extFace}
  BY <1>6 DEF MetOnPath
<1>8. \A f \in DOMAIN E.faces : t.virtSrc[f] = None
  BY <1>5 DEF Linked
<1>9. /\ IsState(E, u) /\ Kept(t, u)
      /\ u.contour = t.contour /\ u.oute = t.oute /\ u.seqp = t.seqp
      /\ \A v \in E.nodes : u.cutf[v] = t.cutf[v]
      /\ \A f \in DOMAIN E.faces :
           u.outv[f] = t.outv[f] + Cardinality(Meeting(t, N, f))
      /\ \A f \in DOMAIN E.faces, v \in E.nodes :
           u.outer[f][v] = t.outer[f][v] + IF v \in ToSet(N) /\ f \in AdjOf(t, v) THEN 1 ELSE 0
      /\ \A v \in E.nodes :
           u.numsf[v] = t.numsf[v] + IF v \in ToSet(N) THEN Cardinality(AdjOf(t, v) \cap t.isSf) ELSE 0
      /\ \A f : f \in u.updF <=> f \in t.updF \/ \E v \in ToSet(N) : f \in AdjOf(t, v)
      /\ t.updV \subseteq u.updV /\ u.updV \subseteq t.updV \cup ToSet(N)
  BY <1>3, <1>7, <1>8, SetOutv
<1> HIDE DEF u
<1>10. Linked(E, u, d, T)
  BY <1>5, <1>9, KeptLinked
<1>11. t.updF \subseteq u.updF /\ u.updF \subseteq t.updF \cup Whole(E, T) \cup {extFace}
  BY <1>7, <1>9
<1>12. \A f \in Whole(E, T) \ u.updF : Meeting(t, N, f) = {}
  BY <1>9 DEF Meeting
<1>13. OutvStep(E, base, d, T, P, N, t, u)
  BY <1>3, <1>6, <1>9, <1>10, <1>11, <1>12 DEF OutvStep
<1> QED BY <1>13 DEF u, N, T

SeqpStep(g, d, T, P, t, u) ==
  /\ IsState(g, u) /\ Kept(t, u) /\ Linked(g, u, d, T)
  /\ u.contour = t.contour /\ u.outv = t.outv /\ u.oute = t.oute /\ u.outer = t.outer
  /\ u.numsf = t.numsf /\ u.updV = t.updV
  /\ \A f \in DOMAIN g.faces : u.seqp[f] >= t.seqp[f]
  /\ \A f \in Whole(g, T) : u.seqp[f] = t.seqp[f] + Cardinality(FacePairs(g, P, f))
  /\ t.updF \subseteq u.updF /\ u.updF \subseteq t.updF \cup Whole(g, T) \cup {extFace}
  /\ \A f \in Whole(g, T) \ u.updF : u.seqp[f] = t.seqp[f]

LEMMA PathSeqp ==
  ASSUME IsEmbedding(E), BaseShape(E, base), NEW c, NEW R, NEW D, NEW a, NEW z, NEW P,
         NEW d, Grown(E, base, c, R, D, a, z, P, d),
         NEW t, IsState(E, t), Linked(E, t, d, R \cup D)
  PROVE  SeqpStep(E, d, R \cup D, P, t, setSeqp(t, P))
<1> DEFINE u == setSeqp(t, P)
           T == R \cup D
<1>1. ContourShape(E, base, d, T) /\ P \in Path(E.nodes) /\ LiesOn(d, a, P)
  BY GrownShape DEF T
<1>2. Len(P) >= 2 /\ Len(P) \in Nat
  BY <1>1 DEF LiesOn
<1>3. ToSet(P) \subseteq ToSet(d)
  BY GrownFacts
<1>4. Linked(E, t, d, T)
  BY DEF T
<1> HIDE DEF T
<1>5. \A v \in ToSet(P) : getAdjFaces(t, v) \in Path(DOMAIN E.faces) /\ FacesOf(E, base, T, v, AdjOf(t, v))
  BY <1>1, <1>3, <1>4, AdjFacesOf
<1>6. /\ \A v \in ToSet(P) : \A f : f \in AdjOf(t, v) => Inside(E, base, T, v, f)
      /\ \A v \in ToSet(P) : \A f \in Whole(E, T) : f \in AdjOf(t, v) <=> v \in OnFace(E, f)
  BY <1>5 DEF FacesOf
<1>7. \A v \in ToSet(P) : \A f : f \in AdjOf(t, v) => f \in Whole(E, T) \cup {extFace}
  BY <1>6 DEF Inside
<1>8. /\ IsState(E, u) /\ Kept(t, u)
      /\ u.contour = t.contour /\ u.outv = t.outv /\ u.oute = t.oute /\ u.outer = t.outer
      /\ u.cutf = t.cutf /\ u.numsf = t.numsf /\ u.updV = t.updV
      /\ \A f \in DOMAIN E.faces : u.seqp[f] >= t.seqp[f]
      /\ \A f \in DOMAIN E.faces :
           (\A v \in ToSet(P) : f \in AdjOf(t, v) <=> << v, f >> \in t.inF)
             => u.seqp[f] = t.seqp[f] + Cardinality(PairsIn(t.inF, P, f))
      /\ \A f \in DOMAIN E.faces : f \notin u.updF => u.seqp[f] = t.seqp[f]
      /\ \A f \in u.updF : f \in t.updF \/ \E v \in ToSet(P) : f \in AdjOf(t, v)
      /\ t.updF \subseteq u.updF
  BY <1>1, <1>2, <1>5, SetSeqp
<1> HIDE DEF u
<1>9. Linked(E, u, d, T)
  BY <1>4, <1>8, KeptLinked
<1>10. u.updF \subseteq t.updF \cup Whole(E, T) \cup {extFace}
  BY <1>7, <1>8
<1>11. \A f \in Whole(E, T) : f \in DOMAIN E.faces
  BY DEF Whole
<1>12. \A v \in E.nodes : \A f \in DOMAIN E.faces : << v, f >> \in t.inF <=> v \in OnFace(E, f)
  BY <1>4 DEF Linked
<1>13. /\ \A v \in ToSet(P) : v \in E.nodes
       /\ \A i \in 1..(Len(P) - 1) : P[i] \in E.nodes /\ P[i + 1] \in E.nodes
  <2>1. \A i \in 1..Len(P) : P[i] \in E.nodes
    BY <1>1, PathIndices
  <2>2. \A v : v \in ToSet(P) <=> \E i \in 1..Len(P) : P[i] = v
    BY <1>1, PathIndices
  <2>3. \A i \in 1..(Len(P) - 1) : i \in 1..Len(P) /\ i + 1 \in 1..Len(P)
    BY <1>2
  <2> QED BY <2>1, <2>2, <2>3
<1>14. \A f \in Whole(E, T) : PairsIn(t.inF, P, f) = FacePairs(E, P, f)
  BY <1>11, <1>12, <1>13 DEF PairsIn, FacePairs
<1>15. \A f \in Whole(E, T) : \A v \in ToSet(P) : f \in AdjOf(t, v) <=> << v, f >> \in t.inF
  BY <1>6, <1>11, <1>12, <1>13
<1>16. \A f \in Whole(E, T) : u.seqp[f] = t.seqp[f] + Cardinality(FacePairs(E, P, f))
  BY <1>8, <1>11, <1>14, <1>15
<1>17. \A f \in Whole(E, T) \ u.updF : u.seqp[f] = t.seqp[f]
  BY <1>8, <1>11
<1>18. SeqpStep(E, d, T, P, t, u)
  BY <1>8, <1>9, <1>10, <1>16, <1>17 DEF SeqpStep
<1> QED BY <1>18 DEF u, T

LEMMA GrownCounts ==
  ASSUME NEW g, IsEmbedding(g), NEW b, BaseShape(g, b), NEW c, NEW R, NEW D, NEW a, NEW z, NEW P,
         NEW d, Grown(g, b, c, R, D, a, z, P, d)
  PROVE  /\ \A f \in Whole(g, R \cup D) :
              NodeSums(c, P, d, OnFace(g, f)) /\ PairSums(g, c, P, d, f)
         /\ NodeSums(c, P, d, BaseInner(b))
<1>1. ContourShape(g, b, c, R) /\ Swept(g, c, R, D, a, z, P) /\ D \cap ToSet(b) = {}
  BY DEF Grown
<1>2. d \in Seq(g.nodes) /\ Splice(c, a, z, P, d)
  BY GrownShape
<1>3. /\ \A X : X \cap D = {} => NodeSums(c, P, d, X)
      /\ \A f : OnFace(g, f) \cap D = {} => PairSums(g, c, P, d, f)
  BY <1>1, <1>2, SweptCounts
<1>4. \A f \in Whole(g, R \cup D) : OnFace(g, f) \cap D = {}
  BY DEF Whole
<1>5. BaseInner(b) \cap D = {}
  BY <1>1 DEF BaseInner
<1> QED BY <1>3, <1>4, <1>5

SfAt(g, t, v) == {f \in t.isSf : v \in OnFace(g, f)}

PathStep(g, b, d, T, P, t, u) ==
  /\ IsState(g, u) /\ Kept(t, u) /\ Linked(g, u, d, T) /\ u.contour = d
  /\ \A f \in Whole(g, T) :
       /\ u.outv[f] = t.outv[f] + Cardinality(InnerOf(P) \cap OnFace(g, f))
       /\ u.oute[f] = t.oute[f] + Cardinality(RightPairs(g, P, f))
       /\ u.seqp[f] = t.seqp[f] + Cardinality(FacePairs(g, P, f))
  /\ \A f \in Whole(g, T), v \in g.nodes :
       u.outer[f][v] = t.outer[f][v] + IF v \in InnerOf(P) /\ v \in OnFace(g, f) THEN 1 ELSE 0
  /\ u.outv[extFace] <= t.outv[extFace] + Cardinality(InnerOf(P) \cap BaseInner(b))
  /\ u.seqp[extFace] >= t.seqp[extFace]
  /\ t.isSf \subseteq Whole(g, T) => \A v \in g.nodes :
       u.numsf[v] = t.numsf[v] + IF v \in InnerOf(P) THEN Cardinality(SfAt(g, t, v)) ELSE 0
  /\ Marks(g, t, u, T, P)

LEMMA PathSteps ==
  ASSUME IsEmbedding(E), BaseShape(E, base), NEW c, NEW R, NEW D, NEW a, NEW z, NEW P,
         NEW d, Grown(E, base, c, R, D, a, z, P, d),
         NEW t, IsState(E, t), t.contour = c, Linked(E, t, d, R \cup D)
  PROVE  PathStep(E, base, d, R \cup D, P, t, PathToContour(t, P))
<1> DEFINE u == PathToContour(t, P)
           T == R \cup D
           N == Tail(Front(P))
           t1 == Replace(t, P)
           t2 == setOute(t1, P)
           t3 == setOutv(t2, N)
<1>1. u = setSeqp(t3, P)
  BY DEF PathToContour, CountPath
<1>2. d = SpliceOf(c, P) /\ d \in Seq(E.nodes)
  BY GrownShape DEF Grown
<1>3. t1 = [t EXCEPT !.contour = d]
  BY <1>2 DEF Replace, SpliceOf
<1>4. DOMAIN t = Fields
  BY DEF IsState
<1> HIDE DEF t1
<1>5. /\ DOMAIN t1 = Fields /\ t1.contour = d /\ Kept(t, t1)
      /\ t1.deg = t.deg /\ t1.cutf = t.cutf /\ t1.numsf = t.numsf /\ t1.outv = t.outv /\ t1.oute = t.oute
      /\ t1.seqp = t.seqp /\ t1.outer = t.outer /\ t1.updF = t.updF /\ t1.updV = t.updV
  BY <1>3, <1>4 DEF Fields, Kept
<1>6. IsState(E, t1)
  BY <1>2, <1>5 DEF IsState, Kept
<1>7. Linked(E, t1, d, T)
  BY <1>5, KeptLinked
<1> HIDE DEF t2
<1>8. OuteStep(E, d, T, P, t1, t2)
  BY <1>6, <1>7, PathOute DEF t2
<1> HIDE DEF t3
<1>0. IsState(E, t2) /\ Linked(E, t2, d, T)
  BY <1>8 DEF OuteStep
<1>9. OutvStep(E, base, d, T, P, N, t2, t3)
  BY <1>0, PathOutv DEF t3
<1> HIDE DEF u
<1>22. IsState(E, t3) /\ Linked(E, t3, d, T)
  BY <1>9 DEF OutvStep
<1>10. SeqpStep(E, d, T, P, t3, u)
  BY <1>1, <1>22, PathSeqp
<1> HIDE DEF T, N
<1>11. Kept(t, u) /\ u.contour = d
  BY <1>5, <1>8, <1>9, <1>10 DEF Kept, OuteStep, OutvStep, SeqpStep
<1>12. /\ \A f \in Whole(E, T) : Meeting(t2, N, f) = InnerOf(P) \cap OnFace(E, f)
       /\ Meeting(t2, N, extFace) \subseteq InnerOf(P) \cap BaseInner(base)
       /\ \A v \in ToSet(N) : \A f : f \in AdjOf(t2, v) => f \in Whole(E, T) \cup {extFace}
       /\ \A v \in ToSet(N) : \A f \in Whole(E, T) : f \in AdjOf(t2, v) <=> v \in OnFace(E, f)
  BY <1>9 DEF MetOnPath, OutvStep
<1>13. \A f \in Whole(E, T) : f \in DOMAIN E.faces
  BY DEF Whole
<1>14. extFace \in DOMAIN E.faces
  BY BaseFacts
<1>25. /\ Kept(t1, t2) /\ t2.outv = t1.outv /\ t2.seqp = t1.seqp /\ t2.outer = t1.outer
       /\ t2.numsf = t1.numsf /\ t2.updV = t1.updV
       /\ \A f \in DOMAIN E.faces : t2.oute[f] = t1.oute[f] + Cardinality(RightPairs(E, P, f))
       /\ t1.updF \subseteq t2.updF /\ t2.updF \subseteq t1.updF \cup Whole(E, T) \cup {extFace}
       /\ \A f \in Whole(E, T) \ t2.updF : Cardinality(RightPairs(E, P, f)) = 0
  BY <1>8 DEF OuteStep
<1>26. /\ t3.oute = t2.oute /\ t3.seqp = t2.seqp /\ ToSet(N) = InnerOf(P)
       /\ \A f \in DOMAIN E.faces : t3.outv[f] = t2.outv[f] + Cardinality(Meeting(t2, N, f))
       /\ \A f \in DOMAIN E.faces, v \in E.nodes :
            t3.outer[f][v] = t2.outer[f][v] + IF v \in InnerOf(P) /\ f \in AdjOf(t2, v) THEN 1 ELSE 0
       /\ \A v \in E.nodes :
            t3.numsf[v] = t2.numsf[v] + IF v \in InnerOf(P) THEN Cardinality(AdjOf(t2, v) \cap t2.isSf) ELSE 0
       /\ t2.updF \subseteq t3.updF /\ t3.updF \subseteq t2.updF \cup Whole(E, T) \cup {extFace}
       /\ \A f \in Whole(E, T) \ t3.updF : Meeting(t2, N, f) = {}
       /\ t2.updV \subseteq t3.updV /\ t3.updV \subseteq t2.updV \cup InnerOf(P)
  BY <1>9 DEF OutvStep
<1>27. /\ u.outv = t3.outv /\ u.oute = t3.oute /\ u.outer = t3.outer /\ u.numsf = t3.numsf /\ u.updV = t3.updV
       /\ \A f \in DOMAIN E.faces : u.seqp[f] >= t3.seqp[f]
       /\ \A f \in Whole(E, T) : u.seqp[f] = t3.seqp[f] + Cardinality(FacePairs(E, P, f))
       /\ t3.updF \subseteq u.updF /\ u.updF \subseteq t3.updF \cup Whole(E, T) \cup {extFace}
       /\ \A f \in Whole(E, T) \ u.updF : u.seqp[f] = t3.seqp[f]
  BY <1>10 DEF SeqpStep
<1>28. \A f \in DOMAIN E.faces :
         /\ u.outv[f] = t.outv[f] + Cardinality(Meeting(t2, N, f))
         /\ u.oute[f] = t.oute[f] + Cardinality(RightPairs(E, P, f))
  BY <1>5, <1>25, <1>26, <1>27
<1>29. u.outv = t3.outv /\ u.oute = t3.oute /\ t3.seqp = t.seqp
  BY <1>5, <1>25, <1>26, <1>27
<1>15. \A f \in Whole(E, T) :
         /\ u.outv[f] = t.outv[f] + Cardinality(InnerOf(P) \cap OnFace(E, f))
         /\ u.oute[f] = t.oute[f] + Cardinality(RightPairs(E, P, f))
         /\ u.seqp[f] = t.seqp[f] + Cardinality(FacePairs(E, P, f))
  <2>1. SUFFICES ASSUME NEW f \in Whole(E, T)
                 PROVE  /\ u.outv[f] = t.outv[f] + Cardinality(InnerOf(P) \cap OnFace(E, f))
                        /\ u.oute[f] = t.oute[f] + Cardinality(RightPairs(E, P, f))
                        /\ u.seqp[f] = t.seqp[f] + Cardinality(FacePairs(E, P, f))
    OBVIOUS
  <2>2. f \in DOMAIN E.faces
    BY <1>13
  <2>3. Meeting(t2, N, f) = InnerOf(P) \cap OnFace(E, f)
    BY <1>12
  <2>4. u.seqp[f] = t3.seqp[f] + Cardinality(FacePairs(E, P, f))
    BY <1>27
  <2>5. u.outv[f] = t.outv[f] + Cardinality(Meeting(t2, N, f)) /\ u.oute[f] = t.oute[f] + Cardinality(RightPairs(E, P, f))
    BY <1>28, <2>2
  <2> QED BY <1>29, <2>3, <2>4, <2>5
<1>16. \A f \in Whole(E, T), v \in E.nodes :
         u.outer[f][v] = t.outer[f][v] + IF v \in InnerOf(P) /\ v \in OnFace(E, f) THEN 1 ELSE 0
  BY <1>5, <1>25, <1>26, <1>27, <1>12, <1>13
<1>17. u.outv[extFace] <= t.outv[extFace] + Cardinality(InnerOf(P) \cap BaseInner(base))
  <2>1. IsFiniteSet(InnerOf(P) \cap BaseInner(base))
    BY GrownCounts DEF NodeSums
  <2>2. /\ Cardinality(Meeting(t2, N, extFace)) \in Nat /\ Cardinality(InnerOf(P) \cap BaseInner(base)) \in Nat
        /\ Cardinality(Meeting(t2, N, extFace)) <= Cardinality(InnerOf(P) \cap BaseInner(base))
    BY <1>12, <2>1, FS_CardinalityType, CountSubset
  <2>3. u.outv[extFace] = t.outv[extFace] + Cardinality(Meeting(t2, N, extFace))
    BY <1>5, <1>25, <1>26, <1>27, <1>14
  <2>4. t.outv[extFace] \in Int
    BY <1>14 DEF IsState
  <2> QED BY <2>2, <2>3, <2>4
<1>18. u.seqp[extFace] >= t.seqp[extFace]
  BY <1>5, <1>25, <1>26, <1>27, <1>14
<1>19. ASSUME t.isSf \subseteq Whole(E, T), NEW v \in E.nodes
       PROVE  u.numsf[v] = t.numsf[v] + IF v \in InnerOf(P) THEN Cardinality(SfAt(E, t, v)) ELSE 0
  <2>1. t2.isSf = t.isSf
    BY <1>5, <1>25 DEF Kept
  <2>2. u.numsf[v] = t.numsf[v] + IF v \in InnerOf(P) THEN Cardinality(AdjOf(t2, v) \cap t.isSf) ELSE 0
    BY <1>5, <1>25, <1>26, <1>27, <2>1
  <2>3. ASSUME v \in InnerOf(P) PROVE AdjOf(t2, v) \cap t.isSf = SfAt(E, t, v)
    BY <1>26, <1>12, <1>19, <2>3 DEF SfAt
  <2> QED BY <2>2, <2>3
<1>20. Marks(E, t, u, T, P)
  <2>1. t.updF \subseteq u.updF /\ u.updF \subseteq t.updF \cup Whole(E, T) \cup {extFace}
    BY <1>5, <1>25, <1>26, <1>27
  <2>2. t.updV \subseteq u.updV /\ u.updV \subseteq t.updV \cup InnerOf(P)
    BY <1>5, <1>25, <1>26, <1>27
  <2>3. ASSUME NEW f \in Whole(E, T) \ u.updF
        PROVE  u.outv[f] = t.outv[f] /\ u.oute[f] = t.oute[f] /\ u.seqp[f] = t.seqp[f]
    <3>1. f \notin t2.updF /\ f \notin t3.updF /\ f \in DOMAIN E.faces
      BY <1>26, <1>27, <1>13
    <3>2. t.outv[f] \in Int /\ t.oute[f] \in Int
      BY <3>1 DEF IsState
    <3>3. Cardinality({}) = 0
      BY FS_EmptySet
    <3>4. u.outv[f] = t.outv[f]
      <4>1. Meeting(t2, N, f) = {}
        BY <1>26, <3>1
      <4>2. u.outv[f] = t.outv[f] + Cardinality(Meeting(t2, N, f))
        BY <1>28, <3>1
      <4> QED BY <3>2, <3>3, <4>1, <4>2
    <3>5. u.oute[f] = t.oute[f]
      BY <1>5, <1>25, <1>26, <1>27, <3>1, <3>2
    <3>6. u.seqp[f] = t.seqp[f]
      BY <1>5, <1>25, <1>26, <1>27
    <3> QED BY <3>4, <3>5, <3>6
  <2> QED BY <2>1, <2>2, <2>3 DEF Marks
<1>30. IsState(E, u) /\ Linked(E, u, d, T)
  BY <1>10 DEF SeqpStep
<1>21. PathStep(E, base, d, T, P, t, u)
  BY <1>30, <1>11, <1>15, <1>16, <1>17, <1>18, <1>19, <1>20 DEF PathStep
<1> QED BY <1>21 DEF u, T

LEMMA PathCounted ==
  ASSUME NEW g, IsEmbedding(g), NEW b, BaseShape(g, b), NEW c, NEW R, NEW D, NEW a, NEW z, NEW P,
         NEW d, Grown(g, b, c, R, D, a, z, P, d),
         NEW t, IsState(g, t), Counted(g, b, t, R \cup D, c),
         NEW u, PathStep(g, b, d, R \cup D, P, t, u)
  PROVE  Counted(g, b, u, R \cup D, d)
<1> DEFINE T == R \cup D
           I == InnerOf(P)
<1>1. /\ \A f \in Whole(g, T) : NodeSums(c, P, d, OnFace(g, f)) /\ PairSums(g, c, P, d, f)
      /\ NodeSums(c, P, d, BaseInner(b))
  BY GrownCounts
<1>2. /\ ToSet(d) = (ToSet(c) \ D) \cup I /\ I \cap ToSet(c) = {}
  BY GrownFacts
<1>3. D \subseteq T /\ \A f \in Whole(g, T) : OnFace(g, f) \cap D = {}
  BY DEF Whole
<1>4. FaceCounts(g, t, T, c) /\ OuterBounds(g, b, t, c) /\ SepCounts(g, t, T, c)
  BY DEF Counted
<1>5. PathStep(g, b, d, T, P, t, u)
  OBVIOUS
<1> HIDE DEF T, I
<1>6. FaceCounts(g, u, T, d)
  <2>1. SUFFICES ASSUME NEW f \in Whole(g, T)
                 PROVE  /\ u.outv[f] = Cardinality(ToSet(d) \cap OnFace(g, f))
                        /\ u.oute[f] = Cardinality(RightPairs(g, d, f))
                        /\ u.seqp[f] = Cardinality(FacePairs(g, d, f))
                        /\ \A v \in g.nodes :
                             u.outer[f][v] = IF v \in ToSet(d) /\ v \in OnFace(g, f) THEN 1 ELSE 0
    BY DEF FaceCounts
  <2>2. /\ u.outv[f] = t.outv[f] + Cardinality(I \cap OnFace(g, f))
        /\ u.oute[f] = t.oute[f] + Cardinality(RightPairs(g, P, f))
        /\ u.seqp[f] = t.seqp[f] + Cardinality(FacePairs(g, P, f))
        /\ \A v \in g.nodes :
             u.outer[f][v] = t.outer[f][v] + IF v \in I /\ v \in OnFace(g, f) THEN 1 ELSE 0
    BY <1>5 DEF PathStep, I
  <2>3. /\ t.outv[f] = Cardinality(ToSet(c) \cap OnFace(g, f))
        /\ t.oute[f] = Cardinality(RightPairs(g, c, f))
        /\ t.seqp[f] = Cardinality(FacePairs(g, c, f))
        /\ \A v \in g.nodes :
             t.outer[f][v] = IF v \in ToSet(c) /\ v \in OnFace(g, f) THEN 1 ELSE 0
    BY <1>4 DEF FaceCounts
  <2>4. u.outv[f] = Cardinality(ToSet(d) \cap OnFace(g, f))
    BY <1>1, <2>2, <2>3 DEF NodeSums, I
  <2>5. u.oute[f] = Cardinality(RightPairs(g, d, f)) /\ u.seqp[f] = Cardinality(FacePairs(g, d, f))
    BY <1>1, <2>2, <2>3 DEF PairSums
  <2>6. ASSUME NEW v \in g.nodes
        PROVE  u.outer[f][v] = IF v \in ToSet(d) /\ v \in OnFace(g, f) THEN 1 ELSE 0
    <3>1. u.outer[f][v] = t.outer[f][v] + IF v \in I /\ v \in OnFace(g, f) THEN 1 ELSE 0
      BY <2>2
    <3>2. t.outer[f][v] = IF v \in ToSet(c) /\ v \in OnFace(g, f) THEN 1 ELSE 0
      BY <2>3
    <3>3. v \in OnFace(g, f) => v \notin D
      BY <1>3
    <3> QED BY <1>2, <3>1, <3>2, <3>3
  <2> QED BY <2>4, <2>5, <2>6
<1>7. OuterBounds(g, b, u, d)
  <2>1. /\ u.outv[extFace] <= t.outv[extFace] + Cardinality(I \cap BaseInner(b))
        /\ u.seqp[extFace] >= t.seqp[extFace]
    BY <1>5 DEF PathStep, I
  <2>2. /\ t.outv[extFace] <= Cardinality(ToSet(c) \cap BaseInner(b))
        /\ t.seqp[extFace] >= Len(g.faces[extFace]) - Len(b)
    BY <1>4 DEF OuterBounds
  <2>3. extFace \in DOMAIN g.faces /\ Len(b) \in Nat
    BY BaseFacts
  <2>4. Len(g.faces[extFace]) \in Nat
    BY <2>3, FaceIsPath, PathIndices
  <2>5. IsState(g, u)
    BY <1>5 DEF PathStep
  <2>6. /\ t.outv[extFace] \in Int /\ t.seqp[extFace] \in Int
        /\ u.outv[extFace] \in Int /\ u.seqp[extFace] \in Int
    BY <2>3, <2>5 DEF IsState
  <2>7. /\ IsFiniteSet(ToSet(c) \cap BaseInner(b)) /\ IsFiniteSet(I \cap BaseInner(b))
        /\ Cardinality(ToSet(d) \cap BaseInner(b))
             = Cardinality(ToSet(c) \cap BaseInner(b)) + Cardinality(I \cap BaseInner(b))
    BY <1>1 DEF NodeSums, I
  <2>8. Cardinality(ToSet(c) \cap BaseInner(b)) \in Nat /\ Cardinality(I \cap BaseInner(b)) \in Nat
    BY <2>7, FS_CardinalityType
  <2>9. u.outv[extFace] <= Cardinality(ToSet(d) \cap BaseInner(b))
    BY <2>1, <2>2, <2>6, <2>7, <2>8
  <2>10. u.seqp[extFace] >= Len(g.faces[extFace]) - Len(b)
    BY <2>1, <2>2, <2>3, <2>4, <2>6
  <2> QED BY <2>9, <2>10 DEF OuterBounds
<1>8. SepCounts(g, u, T, d)
  <2>1. t.isSf \subseteq Whole(g, T) /\ \A v \in g.nodes \ T : t.numsf[v] = Cardinality(SepOf(g, t, c, v))
    BY <1>4 DEF SepCounts
  <2>2. u.isSf = t.isSf
    BY <1>5 DEF PathStep, Kept
  <2>3. \A v \in g.nodes :
          u.numsf[v] = t.numsf[v] + IF v \in I THEN Cardinality(SfAt(g, t, v)) ELSE 0
    BY <1>5, <2>1 DEF PathStep, I
  <2>4. ASSUME NEW v \in g.nodes \ T PROVE u.numsf[v] = Cardinality(SepOf(g, u, d, v))
    <3>1. v \notin D
      BY <1>3
    <3>2. t.numsf[v] = Cardinality(SepOf(g, t, c, v))
      BY <2>1
    <3>3. CASE v \in I
      <4>1. v \notin ToSet(c) /\ v \in ToSet(d)
        BY <1>2, <3>3
      <4>2. SepOf(g, t, c, v) = {} /\ SepOf(g, u, d, v) = SfAt(g, t, v)
        BY <2>2, <4>1 DEF SepOf, SfAt
      <4>3. u.numsf[v] = t.numsf[v] + Cardinality(SfAt(g, t, v))
        BY <2>3, <3>3
      <4>4. Cardinality({}) = 0
        BY FS_EmptySet
      <4>5. IsFiniteSet(SfAt(g, t, v))
        <5>1. IsFiniteSet(DOMAIN g.faces)
          BY FacesFinite
        <5>2. t.isSf \subseteq Whole(g, T)
          BY <2>1
        <5>3. Whole(g, T) \subseteq DOMAIN g.faces
          BY DEF Whole
        <5>4. SfAt(g, t, v) \in SUBSET DOMAIN g.faces
          BY <5>2, <5>3 DEF SfAt
        <5> QED BY <5>1, <5>4, CountSubset
      <4>6. Cardinality(SfAt(g, t, v)) \in Nat
        BY <4>5, FS_CardinalityType
      <4>7. t.numsf[v] = 0
        BY <3>2, <4>2, <4>4
      <4>8. u.numsf[v] = Cardinality(SfAt(g, t, v))
        BY <4>3, <4>6, <4>7
      <4> QED BY <4>2, <4>8
    <3>4. CASE v \notin I
      <4>1. v \in ToSet(d) <=> v \in ToSet(c)
        BY <1>2, <3>1, <3>4
      <4>2. SepOf(g, u, d, v) = SepOf(g, t, c, v)
        BY <2>2, <4>1 DEF SepOf
      <4>3. u.numsf[v] = t.numsf[v]
        <5>1. t.numsf[v] \in Int
          <6>1. t.numsf \in [g.nodes -> Int]
            BY DEF IsState
          <6>2. v \in g.nodes
            OBVIOUS
          <6> QED BY <6>1, <6>2
        <5> QED BY <2>3, <3>4, <5>1
      <4> QED BY <3>2, <4>2, <4>3
    <3> QED BY <3>3, <3>4
  <2> QED BY <2>1, <2>2, <2>4 DEF SepCounts
<1> QED BY <1>6, <1>7, <1>8 DEF Counted, T

-----------------------------------------------------------------------------
(***************************************************************************)
(* doUpdate.  What is marked may be wrong in the lists, all else is right. *)
(***************************************************************************)
SepFace(t, f) == t.outv[f] > t.seqp[f] + 1
PossFace(t, f) == t.outv[f] >= 3 /\ t.outv[f] = t.oute[f] + 1
PossNode(t, v) == t.numsf[v] = 0 /\ t.deg[v] >= 3

FacesMarked(g, t, R) ==
  /\ t.updF \subseteq Whole(g, R) \cup {extFace}
  /\ \A f \in Whole(g, R) \ t.updF : (f \in t.isSf <=> SepFace(t, f)) /\ (f \in t.possF <=> PossFace(t, f))
  /\ t.possF \subseteq Whole(g, R) /\ t.possF \subseteq t.fLink
  /\ \A f \in Whole(g, R) \cup {extFace} : f \in t.fLink => f \in t.possF

NodesMarked(b, t, R, c) ==
  /\ t.updV \subseteq ToSet(c)
  /\ \A v \in ToSet(c) \ (ToSet(b) \cup t.updV) : v \in t.possV <=> PossNode(t, v)
  /\ t.possV \subseteq ToSet(c) \ ToSet(b)
  /\ t.possV \subseteq t.vLink /\ t.vLink \subseteq t.possV \cup R

EdgesUnmarked(t) == t.possE = {} /\ t.eLink = {} /\ t.dangling = FALSE

Valid(g, b, t, R, c) ==
  /\ ContourShape(g, b, c, R) /\ IsState(g, t) /\ t.contour = c /\ Linked(g, t, c, R)
  /\ Counted(g, b, t, R, c) /\ FacesMarked(g, t, R) /\ NodesMarked(b, t, R, c) /\ EdgesUnmarked(t)

(* A third of its nodes are too few for the external face to separate.     *)
LEMMA OuterNeverSeparates ==
  ASSUME NEW g, IsEmbedding(g), NEW b, BaseShape(g, b), NEW t, IsState(g, t), NEW c, OuterBounds(g, b, t, c)
  PROVE  ~ SepFace(t, extFace)
<1> DEFINE n == Len(g.faces[extFace])
           k == Cardinality(ToSet(c) \cap BaseInner(b))
<1>1. /\ Len(b) \in Nat /\ Len(b) >= 2 /\ 3 * Len(b) <= n + 3 /\ b \in Path(g.nodes)
      /\ extFace \in DOMAIN g.faces
  BY BaseFacts DEF BaseShape
<1>2. n \in Nat
  BY <1>1, FaceIsPath, PathIndices
<1>3. k \in Nat /\ k <= Len(b) - 2
  <2>1. ToSet(b) = {b[1], b[Len(b)]} \cup BaseInner(b)
    <3>1. \A v : v \in ToSet(b) <=> \E i \in 1..Len(b) : b[i] = v
      BY <1>1, PathIndices
    <3>2. 1 \in 1..Len(b) /\ Len(b) \in 1..Len(b)
      BY <1>1
    <3> QED BY <3>1, <3>2 DEF BaseInner
  <2>2. b[1] # b[Len(b)]
    <3>1. \A i, j \in 1..Len(b) : b[i] = b[j] => i = j
      BY <1>1, PathIndices
    <3> QED BY <1>1, <3>1
  <2>3. IsFiniteSet(ToSet(b)) /\ Cardinality(ToSet(b)) = Len(b)
    BY <1>1, PathCardinality
  <2>4. IsFiniteSet({b[1], b[Len(b)]}) /\ Cardinality({b[1], b[Len(b)]}) = 2
    BY <2>2, PairCardinality
  <2>5. BaseInner(b) \in SUBSET ToSet(b) /\ {b[1], b[Len(b)]} \cap BaseInner(b) = {}
    BY DEF BaseInner
  <2>6. IsFiniteSet(BaseInner(b)) /\ Cardinality(BaseInner(b)) \in Nat
    BY <2>3, <2>5, CountSubset
  <2>7. Len(b) = 2 + Cardinality(BaseInner(b))
    BY <2>1, <2>3, <2>4, <2>5, <2>6, CountDisjoint
  <2>8. (ToSet(c) \cap BaseInner(b)) \in SUBSET BaseInner(b)
    OBVIOUS
  <2>9. k \in Nat /\ k <= Cardinality(BaseInner(b))
    BY <2>6, <2>8, CountSubset
  <2> QED BY <1>1, <2>6, <2>7, <2>9
<1> HIDE DEF k, n
<1>4. t.outv[extFace] <= k /\ t.seqp[extFace] >= n - Len(b)
  BY DEF OuterBounds, k, n
<1>5. t.outv[extFace] \in Int /\ t.seqp[extFace] \in Int
  BY <1>1 DEF IsState
<1> QED BY <1>1, <1>2, <1>3, <1>4, <1>5 DEF SepFace

SepMarked(t) == {f \in t.updF : SepFace(t, f)}
Added(t) == SepMarked(t) \ t.isSf
Ended(t) == (t.updF \ SepMarked(t)) \cap t.isSf
ListedIn(t, v, fs) == Cardinality(UNION {{<< f, k >> : k \in 1..t.outer[f][v]} : f \in fs})
ListingNode(t, v, fs) == \E f \in fs : t.outer[f][v] > 0
PossMarked(t) == {f \in t.updF : isPossFace(t, f)}
OldPoss(t) == (t.updF \ PossMarked(t)) \cap t.fLink

(* A face lists the nodes it has on the contour, once.                     *)
FacesAt(g, c, v, fs) == {f \in fs : v \in ToSet(c) /\ v \in OnFace(g, f)}

LEMMA ListedOnce ==
  ASSUME NEW g, IsEmbedding(g), NEW t, NEW R, NEW c, FaceCounts(g, t, R, c),
         NEW v \in g.nodes, NEW fs, fs \subseteq Whole(g, R)
  PROVE  /\ IsFiniteSet(FacesAt(g, c, v, fs))
         /\ ListedIn(t, v, fs) = Cardinality(FacesAt(g, c, v, fs))
         /\ ListingNode(t, v, fs) <=> FacesAt(g, c, v, fs) # {}
<1> DEFINE S == UNION {{<< f, k >> : k \in 1..t.outer[f][v]} : f \in fs}
           T == FacesAt(g, c, v, fs)
<1>1. \A f \in fs : t.outer[f][v] = IF v \in ToSet(c) /\ v \in OnFace(g, f) THEN 1 ELSE 0
  BY DEF FaceCounts
<1>2. IsFiniteSet(T)
  <2>1. IsFiniteSet(DOMAIN g.faces)
    BY FacesFinite
  <2>2. Whole(g, R) \subseteq DOMAIN g.faces
    BY DEF Whole
  <2>3. T \in SUBSET DOMAIN g.faces
    BY <2>2 DEF FacesAt
  <2> QED BY <2>1, <2>3, CountSubset
<1>3. \A f \in fs : t.outer[f][v] > 0 <=> f \in T
  BY <1>1 DEF FacesAt
<1>4. T \subseteq fs /\ \A f \in T : t.outer[f][v] = 1
  BY <1>1 DEF FacesAt
<1>5. \A f \in fs \ T : t.outer[f][v] = 0
  BY <1>1 DEF FacesAt
<1> HIDE DEF T
<1>6. S = {<< f, 1 >> : f \in T}
  <2>1. ASSUME NEW x \in S PROVE x \in {<< f, 1 >> : f \in T}
    <3>1. PICK f \in fs : x \in {<< f, k >> : k \in 1..t.outer[f][v]}
      OBVIOUS
    <3>2. PICK k \in 1..t.outer[f][v] : x = << f, k >>
      BY <3>1
    <3>3. f \in T
      <4>1. SUFFICES ASSUME f \notin T PROVE FALSE
        OBVIOUS
      <4>2. t.outer[f][v] = 0
        BY <1>5, <4>1
      <4>3. k \in 1..0
        BY <3>2, <4>2
      <4> QED BY <4>3
    <3>4. k = 1
      BY <1>4, <3>2, <3>3
    <3> QED BY <3>2, <3>3, <3>4
  <2>2. ASSUME NEW f \in T PROVE << f, 1 >> \in S
    <3>1. f \in fs /\ 1 \in 1..t.outer[f][v]
      BY <1>4
    <3> QED BY <3>1
  <2> QED BY <2>1, <2>2
<1> HIDE DEF S
<1>7. IsFiniteSet(S) /\ Cardinality(S) = Cardinality(T)
  <2>1. \A x \in S : x[1] \in T /\ x = << x[1], 1 >>
    BY <1>6
  <2>2. \A x, y \in S : x[1] = y[1] => x = y
    BY <2>1
  <2>3. \A y \in T : \E x \in S : x[1] = y
    <3>1. SUFFICES ASSUME NEW y \in T PROVE \E x \in S : x[1] = y
      OBVIOUS
    <3>2. << y, 1 >> \in S /\ << y, 1 >>[1] = y
      BY <1>6
    <3> QED BY <3>2
  <2> QED BY <1>2, <2>1, <2>2, <2>3, CountByPart
<1>8. ListingNode(t, v, fs) <=> T # {}
  BY <1>3, <1>4 DEF ListingNode
<1> QED BY <1>2, <1>7, <1>8 DEF ListedIn, S, T

NewNumsf(g, t) ==
  [v \in g.nodes |-> t.numsf[v] + ListedIn(t, v, Added(t)) - ListedIn(t, v, Ended(t))]
NewMarks(g, t) == {v \in g.nodes : ListingNode(t, v, Added(t) \cup Ended(t))}

LEMMA UpdateFacesFields ==
  ASSUME NEW t, IsState(E, t), NEW u, u = UpdateFaces(t)
  PROVE  /\ DOMAIN u = Fields
         /\ u.contour = t.contour /\ u.nextSucc = t.nextSucc /\ u.prevPred = t.prevPred
         /\ u.virt = t.virt /\ u.deg = t.deg /\ u.cutf = t.cutf /\ u.onOuter = t.onOuter
         /\ u.outv = t.outv /\ u.oute = t.oute /\ u.seqp = t.seqp /\ u.virtSrc = t.virtSrc
         /\ u.outer = t.outer /\ u.inF = t.inF
         /\ u.possV = t.possV /\ u.possE = t.possE /\ u.vLink = t.vLink /\ u.eLink = t.eLink
         /\ u.numsf = NewNumsf(E, t) /\ u.updV = t.updV \cup NewMarks(E, t)
         /\ u.isSf = (t.isSf \ t.updF) \cup SepMarked(t)
         /\ u.possF = (t.possF \ OldPoss(t)) \cup (PossMarked(t) \ t.fLink)
         /\ u.fLink = (t.fLink \ OldPoss(t)) \cup PossMarked(t)
         /\ u.dangling = (t.dangling \/ ~ OldPoss(t) \subseteq t.possF)
         /\ u.updF = {}
<1>1. DOMAIN t = Fields
  BY DEF IsState
<1>2. u = [t EXCEPT
       !.numsf = [v \in E.nodes |-> @[v] + ListedIn(t, v, Added(t)) - ListedIn(t, v, Ended(t))],
       !.updV = @ \cup {v \in E.nodes : ListingNode(t, v, Added(t) \cup Ended(t))},
       !.isSf = (@ \ t.updF) \cup SepMarked(t),
       !.possF = (@ \ OldPoss(t)) \cup (PossMarked(t) \ t.fLink),
       !.fLink = (@ \ OldPoss(t)) \cup PossMarked(t),
       !.dangling = @ \/ ~ OldPoss(t) \subseteq t.possF,
       !.updF = {}]
  BY Zenon DEF UpdateFaces, Nodes, ListedIn, ListingNode, Added, Ended, SepMarked, SepFace, PossMarked, OldPoss
<1> QED BY <1>1, <1>2 DEF Fields, NewNumsf, NewMarks

LEMMA MarkedFaces ==
  ASSUME IsEmbedding(E), BaseShape(E, base), NEW t, NEW R, NEW c, Valid(E, base, t, R, c)
  PROVE  /\ SepMarked(t) \subseteq Whole(E, R) /\ Added(t) \subseteq Whole(E, R)
         /\ Ended(t) \subseteq Whole(E, R) /\ t.isSf \subseteq Whole(E, R)
         /\ PossMarked(t) = {f \in t.updF \cap Whole(E, R) : PossFace(t, f)}
         /\ OldPoss(t) \subseteq t.possF
<1>1. FacesMarked(E, t, R) /\ Counted(E, base, t, R, c) /\ IsState(E, t)
  BY DEF Valid
<1>2. OuterBounds(E, base, t, c) /\ t.isSf \subseteq Whole(E, R)
  BY <1>1 DEF Counted, SepCounts
<1>3. ~ SepFace(t, extFace)
  BY <1>1, <1>2, OuterNeverSeparates
<1>4. t.updF \subseteq Whole(E, R) \cup {extFace}
  BY <1>1 DEF FacesMarked
<1>5. SepMarked(t) \subseteq Whole(E, R)
  BY <1>3, <1>4 DEF SepMarked
<1>6. extFace \notin Whole(E, R)
  BY DEF Whole
<1>7. PossMarked(t) = {f \in t.updF \cap Whole(E, R) : PossFace(t, f)}
  BY <1>4, <1>6 DEF PossMarked, isPossFace, PossFace
<1>8. OldPoss(t) \subseteq t.possF
  BY <1>1, <1>4 DEF FacesMarked, OldPoss
<1> QED BY <1>2, <1>5, <1>7, <1>8 DEF Added, Ended

LEMMA UpdatedSeparators ==
  ASSUME IsEmbedding(E), BaseShape(E, base), NEW t, NEW R, NEW c, Valid(E, base, t, R, c),
         NEW u, u = UpdateFaces(t)
  PROVE  /\ \A f \in Whole(E, R) : f \in u.isSf <=> SepFace(t, f)
         /\ u.isSf = (t.isSf \ Ended(t)) \cup Added(t)
         /\ u.isSf \subseteq Whole(E, R)
         /\ Added(t) \cap t.isSf = {} /\ Ended(t) \subseteq t.isSf
<1>1. FacesMarked(E, t, R) /\ IsState(E, t)
  BY DEF Valid
<1>2. u.isSf = (t.isSf \ t.updF) \cup SepMarked(t)
  BY <1>1, UpdateFacesFields
<1>3. SepMarked(t) \subseteq Whole(E, R) /\ t.isSf \subseteq Whole(E, R)
  BY MarkedFaces
<1>4. \A f \in Whole(E, R) \ t.updF : f \in t.isSf <=> SepFace(t, f)
  BY <1>1 DEF FacesMarked
<1>5. \A f \in Whole(E, R) : f \in u.isSf <=> SepFace(t, f)
  BY <1>2, <1>4 DEF SepMarked
<1>6. u.isSf = (t.isSf \ Ended(t)) \cup Added(t)
  BY <1>2 DEF Ended, Added, SepMarked
<1> QED BY <1>2, <1>3, <1>5, <1>6 DEF Added, Ended

LEMMA UpdatedNumsf ==
  ASSUME IsEmbedding(E), BaseShape(E, base), NEW t, NEW R, NEW c, Valid(E, base, t, R, c),
         NEW u, u = UpdateFaces(t), NEW v \in E.nodes
  PROVE  /\ u.numsf[v] = t.numsf[v] + Cardinality(FacesAt(E, c, v, Added(t))) - Cardinality(FacesAt(E, c, v, Ended(t)))
         /\ u.numsf[v] \in Int
         /\ v \notin R => u.numsf[v] = Cardinality(SepOf(E, u, c, v))
         /\ v \notin u.updV => u.numsf[v] = t.numsf[v]
         /\ v \in u.updV => v \in t.updV \/ v \in ToSet(c)
<1> DEFINE A == FacesAt(E, c, v, Added(t))
           B == FacesAt(E, c, v, Ended(t))
           O == SepOf(E, t, c, v)
           S == SepOf(E, u, c, v)
<1>1. /\ IsState(E, t) /\ FaceCounts(E, t, R, c)
      /\ \A w \in E.nodes \ R : t.numsf[w] = Cardinality(SepOf(E, t, c, w))
  BY DEF Valid, Counted, SepCounts
<1>2. Added(t) \subseteq Whole(E, R) /\ Ended(t) \subseteq Whole(E, R)
  BY MarkedFaces
<1>3. IsFiniteSet(A) /\ ListedIn(t, v, Added(t)) = Cardinality(A)
  BY <1>1, <1>2, ListedOnce
<1>4. IsFiniteSet(B) /\ ListedIn(t, v, Ended(t)) = Cardinality(B)
  BY <1>1, <1>2, ListedOnce
<1>5. ListingNode(t, v, Added(t) \cup Ended(t)) <=> FacesAt(E, c, v, Added(t) \cup Ended(t)) # {}
  <2>1. Added(t) \cup Ended(t) \subseteq Whole(E, R)
    BY <1>2
  <2> HIDE DEF Added, Ended
  <2> QED BY <1>1, <2>1, ListedOnce
<1>6. Cardinality(A) \in Nat /\ Cardinality(B) \in Nat
  BY <1>3, <1>4, FS_CardinalityType
<1>7. t.numsf[v] \in Int
  <2>1. t.numsf \in [E.nodes -> Int]
    BY <1>1 DEF IsState
  <2> QED BY <2>1
<1>8. u.numsf[v] = t.numsf[v] + Cardinality(A) - Cardinality(B)
  <2>1. u.numsf = NewNumsf(E, t)
    BY <1>1, UpdateFacesFields
  <2> HIDE DEF A, B
  <2> QED BY <1>3, <1>4, <2>1 DEF NewNumsf
<1>9. /\ u.isSf = (t.isSf \ Ended(t)) \cup Added(t)
      /\ Added(t) \cap t.isSf = {} /\ Ended(t) \subseteq t.isSf
  BY UpdatedSeparators
<1>10. A \cap O = {} /\ B \subseteq O /\ S = (O \ B) \cup A
  BY <1>9 DEF FacesAt, SepOf
<1>11. IsFiniteSet(O)
  <2>1. IsFiniteSet(DOMAIN E.faces)
    BY FacesFinite
  <2>2. t.isSf \subseteq Whole(E, R)
    BY MarkedFaces
  <2>3. Whole(E, R) \subseteq DOMAIN E.faces
    BY DEF Whole
  <2>4. O \in SUBSET DOMAIN E.faces
    BY <2>2, <2>3 DEF SepOf
  <2> QED BY <2>1, <2>4, CountSubset
<1>12. ASSUME v \notin R PROVE u.numsf[v] = Cardinality(S)
  <2>1. t.numsf[v] = Cardinality(O)
    BY <1>1, <1>12
  <2> HIDE DEF A, B, O, S
  <2>2. (O \ B) \in SUBSET O /\ (O \ B) \cap B = {} /\ (O \ B) \cup B = O /\ (O \ B) \cap A = {}
    BY <1>10
  <2>3. IsFiniteSet(O \ B) /\ Cardinality(O \ B) \in Nat
    BY <1>11, <2>2, CountSubset
  <2>4. Cardinality(O) = Cardinality(O \ B) + Cardinality(B)
    BY <1>4, <2>2, <2>3, CountDisjoint
  <2>5. Cardinality(S) = Cardinality(O \ B) + Cardinality(A)
    BY <1>3, <1>10, <2>2, <2>3, CountDisjoint
  <2> QED BY <1>6, <1>8, <2>1, <2>3, <2>4, <2>5
<1>13. u.updV = t.updV \cup {w \in E.nodes : ListingNode(t, w, Added(t) \cup Ended(t))}
  <2>1. u.updV = t.updV \cup NewMarks(E, t)
    BY <1>1, UpdateFacesFields
  <2> QED BY <2>1 DEF NewMarks
<1>14. ASSUME v \notin u.updV PROVE u.numsf[v] = t.numsf[v]
  <2>1. FacesAt(E, c, v, Added(t) \cup Ended(t)) = {}
    BY <1>5, <1>13, <1>14
  <2>2. A = {} /\ B = {}
    BY <2>1 DEF FacesAt
  <2>3. Cardinality({}) = 0
    BY FS_EmptySet
  <2>4. Cardinality(A) = 0 /\ Cardinality(B) = 0
    BY <2>2, <2>3
  <2> HIDE DEF A, B
  <2> QED BY <1>7, <1>8, <2>4
<1>15. ASSUME v \in u.updV, v \notin t.updV PROVE v \in ToSet(c)
  <2>1. FacesAt(E, c, v, Added(t) \cup Ended(t)) # {}
    BY <1>5, <1>13, <1>15
  <2> QED BY <2>1 DEF FacesAt
<1>16. u.numsf[v] \in Int
  <2> HIDE DEF A, B
  <2> QED BY <1>6, <1>7, <1>8
<1> QED BY <1>8, <1>12, <1>14, <1>15, <1>16 DEF A, B, S

LEMMA UpdateFacesValid ==
  ASSUME IsEmbedding(E), BaseShape(E, base), NEW t, NEW R, NEW c, Valid(E, base, t, R, c),
         NEW u, u = UpdateFaces(t)
  PROVE  Valid(E, base, u, R, c) /\ u.updF = {}
<1>1. /\ ContourShape(E, base, c, R) /\ IsState(E, t) /\ t.contour = c /\ Linked(E, t, c, R)
      /\ Counted(E, base, t, R, c) /\ FacesMarked(E, t, R) /\ NodesMarked(base, t, R, c) /\ EdgesUnmarked(t)
  BY DEF Valid
<1>2. /\ DOMAIN u = Fields
      /\ u.contour = t.contour /\ u.nextSucc = t.nextSucc /\ u.prevPred = t.prevPred
      /\ u.virt = t.virt /\ u.deg = t.deg /\ u.cutf = t.cutf /\ u.onOuter = t.onOuter
      /\ u.outv = t.outv /\ u.oute = t.oute /\ u.seqp = t.seqp /\ u.virtSrc = t.virtSrc
      /\ u.outer = t.outer /\ u.inF = t.inF
      /\ u.possV = t.possV /\ u.possE = t.possE /\ u.vLink = t.vLink /\ u.eLink = t.eLink
      /\ u.numsf = NewNumsf(E, t)
      /\ u.possF = (t.possF \ OldPoss(t)) \cup (PossMarked(t) \ t.fLink)
      /\ u.fLink = (t.fLink \ OldPoss(t)) \cup PossMarked(t)
      /\ u.dangling = (t.dangling \/ ~ OldPoss(t) \subseteq t.possF)
      /\ u.updF = {}
  BY <1>1, UpdateFacesFields
<1>3. /\ \A v \in E.nodes : u.numsf[v] \in Int
      /\ \A v \in E.nodes \ R : u.numsf[v] = Cardinality(SepOf(E, u, c, v))
      /\ \A v \in E.nodes : v \notin u.updV => u.numsf[v] = t.numsf[v]
      /\ \A v \in E.nodes : v \in u.updV => v \in t.updV \/ v \in ToSet(c)
  BY UpdatedNumsf
<1>4. IsState(E, u)
  <2>1. u.numsf \in [E.nodes -> Int]
    <3>1. u.numsf = [v \in E.nodes |-> u.numsf[v]]
      BY <1>2 DEF NewNumsf
    <3> QED BY <1>3, <3>1
  <2> QED BY <1>1, <1>2, <2>1 DEF IsState
<1>5. Linked(E, u, c, R)
  BY <1>1, <1>2 DEF Linked
<1>6. /\ \A f \in Whole(E, R) : f \in u.isSf <=> SepFace(t, f)
      /\ u.isSf \subseteq Whole(E, R)
  BY UpdatedSeparators
<1>7. Counted(E, base, u, R, c)
  <2>1. FaceCounts(E, t, R, c) /\ OuterBounds(E, base, t, c)
    BY <1>1 DEF Counted
  <2>2. FaceCounts(E, u, R, c)
    BY <1>2, <2>1 DEF FaceCounts
  <2>3. OuterBounds(E, base, u, c)
    BY <1>2, <2>1 DEF OuterBounds
  <2>4. SepCounts(E, u, R, c)
    BY <1>3, <1>6 DEF SepCounts
  <2> QED BY <2>2, <2>3, <2>4 DEF Counted
<1>8. /\ PossMarked(t) = {f \in t.updF \cap Whole(E, R) : PossFace(t, f)}
      /\ OldPoss(t) \subseteq t.possF
  BY MarkedFaces
<1>9. FacesMarked(E, u, R)
  <2>1. /\ \A f \in Whole(E, R) \ t.updF : f \in t.possF <=> PossFace(t, f)
        /\ t.updF \subseteq Whole(E, R) \cup {extFace}
        /\ t.possF \subseteq Whole(E, R) /\ t.possF \subseteq t.fLink
        /\ \A f \in Whole(E, R) \cup {extFace} : f \in t.fLink => f \in t.possF
    BY <1>1 DEF FacesMarked
  <2>2. \A f \in Whole(E, R) : f \in PossMarked(t) <=> f \in t.updF /\ PossFace(t, f)
    BY <1>8
  <2>3. PossMarked(t) \subseteq Whole(E, R)
    BY <1>8
  <2>4. \A f : f \in OldPoss(t) <=> f \in t.updF /\ f \notin PossMarked(t) /\ f \in t.fLink
    BY DEF OldPoss
  <2>5. \A f \in Whole(E, R) : f \in u.possF <=> PossFace(t, f)
    BY <1>2, <2>1, <2>2, <2>4
  <2>6. u.possF \subseteq Whole(E, R) /\ u.possF \subseteq u.fLink
    BY <1>2, <2>1, <2>3
  <2>7. \A f \in Whole(E, R) \cup {extFace} : f \in u.fLink => f \in u.possF
    BY <1>2, <2>1, <2>3, <2>4
  <2>8. \A f : (PossFace(u, f) <=> PossFace(t, f)) /\ (SepFace(u, f) <=> SepFace(t, f))
    BY <1>2 DEF PossFace, SepFace
  <2> QED BY <1>2, <1>6, <2>5, <2>6, <2>7, <2>8 DEF FacesMarked
<1>10. NodesMarked(base, u, R, c)
  <2>1. /\ t.updV \subseteq ToSet(c)
        /\ \A v \in ToSet(c) \ (ToSet(base) \cup t.updV) : v \in t.possV <=> PossNode(t, v)
        /\ t.possV \subseteq ToSet(c) \ ToSet(base)
        /\ t.possV \subseteq t.vLink /\ t.vLink \subseteq t.possV \cup R
    BY <1>1 DEF NodesMarked
  <2>2. u.updV = t.updV \cup NewMarks(E, t)
    BY <1>1, UpdateFacesFields
  <2>3. NewMarks(E, t) \subseteq E.nodes
    BY DEF NewMarks
  <2>4. u.updV \subseteq ToSet(c)
    BY <1>3, <2>1, <2>2, <2>3
  <2>5. \A v \in ToSet(c) : v \in E.nodes
    <3>1. c \in Path(E.nodes)
      BY <1>1 DEF ContourShape
    <3> QED BY <3>1, PathIndices
  <2>6. \A v \in ToSet(c) \ u.updV : v \notin t.updV /\ (PossNode(u, v) <=> PossNode(t, v))
    BY <1>2, <1>3, <2>2, <2>5 DEF PossNode
  <2>7. \A v \in ToSet(c) \ (ToSet(base) \cup u.updV) : v \in u.possV <=> PossNode(u, v)
    BY <1>2, <2>1, <2>6
  <2> QED BY <1>2, <2>1, <2>4, <2>7 DEF NodesMarked
<1>11. EdgesUnmarked(u)
  BY <1>1, <1>2, <1>8 DEF EdgesUnmarked
<1> QED BY <1>1, <1>2, <1>4, <1>5, <1>7, <1>9, <1>10, <1>11 DEF Valid

NodePoss(t, v) == ~ Contains(base, v) /\ PossNode(t, v)
NodesPoss(t) == {v \in t.updV : NodePoss(t, v)}
OldNodes(t) == (t.updV \ NodesPoss(t)) \cap t.vLink

LEMMA PossNodeIs ==
  ASSUME NEW t, NEW R, NEW c, Linked(E, t, c, R)
  PROVE  /\ \A v : virte(t, v) = 0
         /\ \A v \in E.nodes : isPossNode(t, v) <=> NodePoss(t, v)
<1>1. t.virt = {} /\ \A v \in E.nodes : t.cutf[v] = 0
  BY DEF Linked
<1>2. \A v : virte(t, v) = 0
  <2>1. \A v : {w \in t.virt : w = v \/ (v # vLeft /\ w = prev(t, v))} = {}
    BY <1>1
  <2>2. Cardinality({}) = 0
    BY FS_EmptySet
  <2>3. \A v : virte(t, v) = Cardinality({})
    BY <2>1, Zenon DEF virte
  <2> QED BY <2>2, <2>3
<1> QED BY <1>1, <1>2 DEF isPossNode, NodePoss, PossNode

LEMMA UpdateNodesFields ==
  ASSUME NEW t, IsState(E, t), NEW R, NEW c, Linked(E, t, c, R), EdgesUnmarked(t),
         t.updV \subseteq E.nodes, NEW u, u = UpdateNodes(t)
  PROVE  /\ DOMAIN u = Fields
         /\ u.contour = t.contour /\ u.nextSucc = t.nextSucc /\ u.prevPred = t.prevPred
         /\ u.virt = t.virt /\ u.deg = t.deg /\ u.cutf = t.cutf /\ u.numsf = t.numsf
         /\ u.onOuter = t.onOuter /\ u.outv = t.outv /\ u.oute = t.oute /\ u.seqp = t.seqp
         /\ u.virtSrc = t.virtSrc /\ u.isSf = t.isSf /\ u.outer = t.outer /\ u.inF = t.inF
         /\ u.updF = t.updF /\ u.possF = t.possF /\ u.fLink = t.fLink
         /\ u.possE = {} /\ u.eLink = {}
         /\ u.possV = (t.possV \ OldNodes(t)) \cup (NodesPoss(t) \ t.vLink)
         /\ u.vLink = (t.vLink \ OldNodes(t)) \cup NodesPoss(t)
         /\ u.dangling = ~ OldNodes(t) \subseteq t.possV
         /\ u.updV = {}
<1>1. DOMAIN t = Fields
  BY DEF IsState
<1>2. t.virt = {} /\ \A v \in E.nodes : t.cutf[v] = 0
  BY DEF Linked
<1>3. t.possE = {} /\ t.eLink = {} /\ t.dangling = FALSE
  BY DEF EdgesUnmarked
<1>4. Marked(t) = t.updV
  BY <1>2 DEF Marked
<1>6. \A v \in E.nodes : isPossNode(t, v) <=> NodePoss(t, v)
  BY PossNodeIs
<1>7. {v \in Marked(t) : isPossNode(t, v)} = NodesPoss(t)
  BY <1>4, <1>6 DEF NodesPoss
<1>8. {v \in Marked(t) : isPossVirt(t, v)} = {}
  BY <1>2 DEF isPossVirt
<1>9. u = [t EXCEPT
       !.possV = (@ \ ((Marked(t) \ {v \in Marked(t) : isPossNode(t, v)}) \cap t.vLink))
                   \cup ({v \in Marked(t) : isPossNode(t, v)} \ t.vLink),
       !.vLink = (@ \ ((Marked(t) \ {v \in Marked(t) : isPossNode(t, v)}) \cap t.vLink))
                   \cup {v \in Marked(t) : isPossNode(t, v)},
       !.possE = (@ \ ((Marked(t) \ {v \in Marked(t) : isPossVirt(t, v)}) \cap t.eLink))
                   \cup ({v \in Marked(t) : isPossVirt(t, v)} \ t.eLink),
       !.eLink = (@ \ ((Marked(t) \ {v \in Marked(t) : isPossVirt(t, v)}) \cap t.eLink))
                   \cup {v \in Marked(t) : isPossVirt(t, v)},
       !.dangling = @ \/ ~ ((Marked(t) \ {v \in Marked(t) : isPossNode(t, v)}) \cap t.vLink) \subseteq t.possV
                      \/ ~ ((Marked(t) \ {v \in Marked(t) : isPossVirt(t, v)}) \cap t.eLink) \subseteq t.possE,
       !.updV = {}]
  BY Zenon DEF UpdateNodes
<1>10. u = [t EXCEPT
       !.possV = (@ \ OldNodes(t)) \cup (NodesPoss(t) \ t.vLink),
       !.vLink = (@ \ OldNodes(t)) \cup NodesPoss(t),
       !.possE = (@ \ ((t.updV \ {}) \cap t.eLink)) \cup ({} \ t.eLink),
       !.eLink = (@ \ ((t.updV \ {}) \cap t.eLink)) \cup {},
       !.dangling = @ \/ ~ OldNodes(t) \subseteq t.possV
                      \/ ~ ((t.updV \ {}) \cap t.eLink) \subseteq t.possE,
       !.updV = {}]
  BY <1>4, <1>7, <1>8, <1>9, Zenon DEF OldNodes
<1> QED BY <1>1, <1>3, <1>10 DEF Fields

LEMMA UpdateNodesValid ==
  ASSUME IsEmbedding(E), BaseShape(E, base), NEW t, NEW R, NEW c, Valid(E, base, t, R, c),
         NEW u, u = UpdateNodes(t)
  PROVE  Valid(E, base, u, R, c) /\ u.updF = t.updF /\ u.updV = {}
<1>1. /\ ContourShape(E, base, c, R) /\ IsState(E, t) /\ t.contour = c /\ Linked(E, t, c, R)
      /\ Counted(E, base, t, R, c) /\ FacesMarked(E, t, R) /\ NodesMarked(base, t, R, c) /\ EdgesUnmarked(t)
  BY DEF Valid
<1>2. /\ t.updV \subseteq ToSet(c)
      /\ \A v \in ToSet(c) \ (ToSet(base) \cup t.updV) : v \in t.possV <=> PossNode(t, v)
      /\ t.possV \subseteq ToSet(c) \ ToSet(base)
      /\ t.possV \subseteq t.vLink /\ t.vLink \subseteq t.possV \cup R
  BY <1>1 DEF NodesMarked
<1>3. t.updV \subseteq E.nodes
  <2>1. c \in Path(E.nodes)
    BY <1>1 DEF ContourShape
  <2>2. \A v : v \in ToSet(c) => v \in E.nodes
    BY <2>1, PathIndices
  <2> QED BY <1>2, <2>2
<1>4. /\ DOMAIN u = Fields
      /\ u.contour = t.contour /\ u.nextSucc = t.nextSucc /\ u.prevPred = t.prevPred
      /\ u.virt = t.virt /\ u.deg = t.deg /\ u.cutf = t.cutf /\ u.numsf = t.numsf
      /\ u.onOuter = t.onOuter /\ u.outv = t.outv /\ u.oute = t.oute /\ u.seqp = t.seqp
      /\ u.virtSrc = t.virtSrc /\ u.isSf = t.isSf /\ u.outer = t.outer /\ u.inF = t.inF
      /\ u.updF = t.updF /\ u.possF = t.possF /\ u.fLink = t.fLink
      /\ u.possE = {} /\ u.eLink = {}
      /\ u.possV = (t.possV \ OldNodes(t)) \cup (NodesPoss(t) \ t.vLink)
      /\ u.vLink = (t.vLink \ OldNodes(t)) \cup NodesPoss(t)
      /\ u.dangling = ~ OldNodes(t) \subseteq t.possV
      /\ u.updV = {}
  BY <1>1, <1>3, UpdateNodesFields
<1>5. IsState(E, u)
  BY <1>1, <1>4 DEF IsState
<1>6. Linked(E, u, c, R)
  BY <1>1, <1>4 DEF Linked
<1>7. Counted(E, base, u, R, c)
  BY <1>1, <1>4 DEF Counted, FaceCounts, OuterBounds, SepCounts, SepOf
<1>8. FacesMarked(E, u, R)
  BY <1>1, <1>4 DEF FacesMarked, SepFace, PossFace
<1>9. R \cap ToSet(c) = {}
  BY <1>1 DEF ContourShape
<1>10. \A v : v \in ToSet(base) <=> Contains(base, v)
  BY DEF ToSet, Contains
<1>11. /\ \A v : v \in NodesPoss(t) <=> v \in t.updV /\ v \notin ToSet(base) /\ PossNode(t, v)
       /\ \A v : v \in OldNodes(t) <=> v \in t.updV /\ v \notin NodesPoss(t) /\ v \in t.vLink
  BY <1>10 DEF NodesPoss, OldNodes, NodePoss
<1>12. OldNodes(t) \subseteq t.possV
  BY <1>2, <1>9, <1>11
<1>13. NodesMarked(base, u, R, c)
  <2>1. \A v : PossNode(u, v) <=> PossNode(t, v)
    BY <1>4 DEF PossNode
  <2>2. \A v \in ToSet(c) \ ToSet(base) : v \in u.possV <=> PossNode(t, v)
    BY <1>2, <1>4, <1>9, <1>11
  <2>3. u.possV \subseteq ToSet(c) \ ToSet(base)
    BY <1>2, <1>4, <1>11
  <2>4. u.possV \subseteq u.vLink
    BY <1>2, <1>4, <1>11
  <2>5. u.vLink \subseteq u.possV \cup R
    BY <1>2, <1>4, <1>9, <1>11
  <2> QED BY <1>4, <2>1, <2>2, <2>3, <2>4, <2>5 DEF NodesMarked
<1>14. EdgesUnmarked(u)
  BY <1>4, <1>12 DEF EdgesUnmarked
<1> QED BY <1>1, <1>4, <1>5, <1>6, <1>7, <1>8, <1>13, <1>14 DEF Valid

(* doUpdate looks again at what is marked, and with that nothing is missed. *)
LEMMA UpdateIsComplete ==
  ASSUME IsEmbedding(E), BaseShape(E, base), NEW t, NEW R, NEW c, Valid(E, base, t, R, c),
         NEW u, u = doUpdate(t)
  PROVE  Valid(E, base, u, R, c) /\ u.updF = {} /\ u.updV = {}
<1> DEFINE w == UpdateFaces(t)
<1>1. Valid(E, base, w, R, c) /\ w.updF = {}
  BY UpdateFacesValid
<1>2. u = UpdateNodes(w)
  BY DEF doUpdate
<1> HIDE DEF w
<1> QED BY <1>1, <1>2, UpdateNodesValid

-----------------------------------------------------------------------------
(***************************************************************************)
(* removeNextFace.  A face that has one node more on the contour than      *)
(* edges meets it in one run.                                              *)
(***************************************************************************)
Places(g, c, f) == {i \in 1..Len(c) : c[i] \in OnFace(g, f)}

LEMMA PlacesCount ==
  ASSUME NEW g, NEW c \in Path(g.nodes), NEW f
  PROVE  /\ IsFiniteSet(Places(g, c, f))
         /\ Cardinality(Places(g, c, f)) = Cardinality(ToSet(c) \cap OnFace(g, f))
<1> DEFINE S == Places(g, c, f)
           T == ToSet(c) \cap OnFace(g, f)
           h == [i \in S |-> c[i]]
<1>1. /\ Len(c) \in Nat
      /\ \A i, j \in 1..Len(c) : c[i] = c[j] => i = j
      /\ \A v : v \in ToSet(c) <=> \E i \in 1..Len(c) : c[i] = v
  BY PathIndices
<1>2. IsFiniteSet(S)
  <2>1. IsFiniteSet(1..Len(c))
    BY <1>1, FS_Interval
  <2>2. S \in SUBSET (1..Len(c))
    BY DEF Places
  <2> QED BY <2>1, <2>2, CountSubset
<1>3. /\ \A i \in S : i \in 1..Len(c) /\ c[i] \in T
      /\ \A v \in T : \E i \in S : c[i] = v
  BY <1>1 DEF Places
<1> HIDE DEF S, T
<1>4. h \in [S -> T]
  BY <1>3
<1>5. \A i \in S : h[i] = c[i]
  OBVIOUS
<1> HIDE DEF h
<1>6. h \in Injection(S, T)
  <2>1. \A i, j \in S : h[i] = h[j] => i = j
    BY <1>1, <1>3, <1>5
  <2> QED BY <1>4, <2>1 DEF Injection, IsInjective
<1>7. h \in Surjection(S, T)
  <2>1. \A v \in T : \E i \in S : h[i] = v
    BY <1>3, <1>5
  <2> QED BY <1>4, <2>1 DEF Surjection
<1>8. ExistsBijection(S, T)
  BY <1>6, <1>7 DEF ExistsBijection, Bijection
<1>9. Cardinality(T) = Cardinality(S)
  BY <1>2, <1>8, FS_Bijection
<1> QED BY <1>2, <1>9 DEF S, T

FaceRun(g, c, R, f, a, z) ==
  /\ a \in 1..Len(c) /\ z \in 1..Len(c) /\ a + 2 <= z /\ f \in Whole(g, R)
  /\ \A i \in 1..Len(c) : c[i] \in OnFace(g, f) <=> i \in a..z
  /\ \A i \in a..(z - 1) : Entry(g, c[i], c[i + 1], f)

OneRun(q, S, I, k) ==
  \E a, z \in 1..q : z - a = k - 1 /\ S = a..z /\ \A i \in a..(z - 1) : i \in I

OfRun(S, I) == \A i \in I : i \in S /\ i + 1 \in S

LEMMA RunOfPlaces ==
  ASSUME NEW q \in Nat, NEW S \in SUBSET (1..q), NEW I \in SUBSET (1..(q - 1)), NEW k \in Nat, k >= 3,
         Cardinality(S) = k, k = Cardinality(I) + 1,
         OfRun(S, I)
  PROVE  OneRun(q, S, I, k)
<1>1. IsFiniteSet(1..q) /\ IsFiniteSet(S)
  <2>1. IsFiniteSet(1..q)
    BY FS_Interval
  <2> QED BY <2>1, CountSubset
<1>2. S # {}
  <2>1. Cardinality({}) = 0
    BY FS_EmptySet
  <2>2. Cardinality(S) = k /\ k # 0
    OBVIOUS
  <2> QED BY <2>1, <2>2
<1>3. S \in SUBSET Int /\ \A i \in S : 1 <= i /\ i <= q
  OBVIOUS
<1> DEFINE z == Max(S)
           a == Min(S)
<1>4. a \in S /\ \A i \in S : a <= i
  <2>1. 1 \in Int /\ \A i \in S : 1 <= i
    BY <1>3
  <2> QED BY <1>2, <1>3, <2>1, BoundedMin
<1>5. z \in S /\ \A i \in S : i <= z
  <2>1. q \in Int /\ \A i \in S : i <= q
    BY <1>3
  <2> QED BY <1>2, <1>3, <2>1, BoundedMax
<1> HIDE DEF a, z
<1>6. a \in Int /\ z \in Int /\ a \in 1..q /\ z \in 1..q
  BY <1>3, <1>4, <1>5
<1>7. I \in SUBSET (S \ {z})
  <2>1. ASSUME NEW i \in I PROVE i \in S \ {z}
    <3>1. i \in S /\ i + 1 \in S /\ i \in Int
      BY DEF OfRun
    <3>2. i + 1 <= z
      BY <1>5, <3>1
    <3> QED BY <1>6, <3>1, <3>2
  <2> QED BY <2>1
<1>8. IsFiniteSet(S \ {z}) /\ Cardinality(S \ {z}) = k - 1
  <2>1. Cardinality(S) = k
    OBVIOUS
  <2>2. IsFiniteSet(S \ {z}) /\ Cardinality(S \ {z}) = Cardinality(S) - 1
    BY <1>1, <1>5, FS_RemoveElement
  <2> QED BY <2>2
<1>9. IsFiniteSet(I) /\ Cardinality(I) \in Nat
  BY <1>7, <1>8, CountSubset
<1>10. I = S \ {z}
  <2> DEFINE W == S \ {z}
  <2>1. IsFiniteSet(W) /\ I \in SUBSET W /\ Cardinality(W) = Cardinality(I)
    BY <1>7, <1>8, <1>9
  <2> HIDE DEF W
  <2>2. W = I
    BY <2>1, FS_Subset
  <2> QED BY <2>2 DEF W
<1>11. \A i \in a..(z - 1) : i \in S => i + 1 \in S
  <2>1. ASSUME NEW i \in a..(z - 1), i \in S PROVE i + 1 \in S
    <3>1. i # z
      BY <1>6
    <3> QED BY <1>10, <2>1, <3>1 DEF OfRun
  <2> QED BY <2>1
<1>12. \A i \in a..z : i \in S
  BY <1>4, <1>6, <1>11, Upwards
<1>13. S = a..z
  <2>1. \A i \in S : i \in a..z
    BY <1>3, <1>4, <1>5, <1>6
  <2> QED BY <1>12, <2>1
<1>14. \A i \in a..(z - 1) : i \in I
  <2>1. ASSUME NEW i \in a..(z - 1) PROVE i \in I
    <3>1. i \in a..z /\ i # z
      BY <1>6
    <3> QED BY <1>10, <1>13, <3>1
  <2> QED BY <2>1
<1>15. z - a = k - 1
  <2>1. a <= z
    BY <1>4, <1>5
  <2>2. Cardinality(a..z) = z - a + 1
    BY <1>6, <2>1, FS_Interval
  <2> QED BY <1>6, <1>13, <2>2
<1> QED BY <1>6, <1>13, <1>14, <1>15 DEF OneRun

RunOf(g, c, R, f, k) == \E a, z \in 1..Len(c) : FaceRun(g, c, R, f, a, z) /\ z - a = k - 1

LEMMA FaceRunExists ==
  ASSUME NEW g, IsEmbedding(g), NEW b, NEW c, NEW R, ContourShape(g, b, c, R), NEW f \in Whole(g, R),
         NEW k \in Int, k >= 3, k = Cardinality(ToSet(c) \cap OnFace(g, f)),
         k = Cardinality(RightPairs(g, c, f)) + 1
  PROVE  RunOf(g, c, R, f, k)
<1> DEFINE q == Len(c)
           S == Places(g, c, f)
           I == RightPairs(g, c, f)
<1>1. q \in Nat /\ c \in Path(g.nodes)
  BY ContourIndices DEF ContourShape
<1>2. Cardinality(S) = k
  BY <1>1, PlacesCount
<1>3. S \in SUBSET (1..q) /\ I \in SUBSET (1..(q - 1))
  BY DEF Places, RightPairs
<1>4. \A i \in I : i \in S /\ i + 1 \in S
  <2>1. ASSUME NEW i \in I PROVE i \in S /\ i + 1 \in S
    <3>1. i \in 1..(q - 1) /\ Entry(g, c[i], c[i + 1], f)
      BY DEF RightPairs
    <3>2. c[i] \in OnFace(g, f) /\ c[i + 1] \in OnFace(g, f)
      BY <3>1, EntryFacts
    <3>3. i \in 1..q /\ i + 1 \in 1..q
      BY <1>1, <3>1
    <3> QED BY <3>2, <3>3 DEF Places
  <2> QED BY <2>1
<1>5. k \in Nat /\ k = Cardinality(I) + 1
  OBVIOUS
<1>6. /\ \A i \in 1..q : c[i] \in OnFace(g, f) <=> i \in S
      /\ \A i \in I : Entry(g, c[i], c[i + 1], f)
  BY DEF Places, RightPairs
<1> HIDE DEF S, I, q
<1>7. PICK a \in 1..q, z \in 1..q : z - a = k - 1 /\ S = a..z /\ \A i \in a..(z - 1) : i \in I
  <2>1. OfRun(S, I)
    BY <1>4 DEF OfRun
  <2>2. OneRun(q, S, I, k)
    BY <1>1, <1>2, <1>3, <1>5, <2>1, RunOfPlaces
  <2> QED BY <2>2 DEF OneRun
<1>8. a + 2 <= z
  BY <1>1, <1>7
<1>9. FaceRun(g, c, R, f, a, z)
  <2>1. \A i \in 1..q : c[i] \in OnFace(g, f) <=> i \in a..z
    BY <1>6, <1>7
  <2>2. \A i \in a..(z - 1) : Entry(g, c[i], c[i + 1], f)
    BY <1>6, <1>7
  <2>3. a \in 1..q /\ z \in 1..q
    OBVIOUS
  <2> QED BY <1>8, <2>1, <2>2, <2>3 DEF FaceRun, q
<1> QED BY <1>7, <1>9 DEF RunOf, q

(* A node inside the run has no neighbours left but the two on the contour. *)
LEMMA RunInner ==
  ASSUME NEW g, IsEmbedding(g), NEW b, NEW c, NEW R, ContourShape(g, b, c, R), NEW f, NEW a, NEW z,
         FaceRun(g, c, R, f, a, z), NEW i \in (a + 1)..(z - 1)
  PROVE  /\ i \in 2..(Len(c) - 1) /\ c[i] \in g.nodes
         /\ Around(g, c[i]) \ R = {c[i - 1], c[i + 1]} /\ c[i - 1] # c[i + 1]
         /\ Entry(g, c[i - 1], c[i], f) /\ Entry(g, c[i], c[i + 1], f)
<1>1. /\ a \in 1..Len(c) /\ z \in 1..Len(c)
      /\ \A j \in a..(z - 1) : Entry(g, c[j], c[j + 1], f)
  BY DEF FaceRun
<1>2. Len(c) \in Nat
  BY ContourIndices
<1>3. /\ i \in 2..(Len(c) - 1) /\ i \in a..(z - 1) /\ i - 1 \in a..(z - 1) /\ (i - 1) + 1 = i
      /\ i \in 1..Len(c) /\ i - 1 \in 1..Len(c) /\ i + 1 \in 1..Len(c) /\ i - 1 # i + 1
  BY <1>1, <1>2
<1>4. Entry(g, c[i - 1], c[i], f) /\ Entry(g, c[i], c[i + 1], f)
  <2>1. Entry(g, c[i - 1], c[(i - 1) + 1], f)
    BY <1>1, <1>3
  <2> QED BY <1>1, <1>3, <2>1
<1>5. Beside(g, c[i], c[i - 1], c[i + 1])
  BY <1>4 DEF Beside
<1>6. c[i] \in g.nodes
  BY <1>4, EntryFacts
<1>7. NodeShape(g, b, R, Before(b, c, i), c[i], After(b, c, i))
  BY <1>3 DEF ContourShape
<1>8. Before(b, c, i) = c[i - 1] /\ After(b, c, i) = c[i + 1]
  BY <1>2, <1>3 DEF Before, After
<1>9. Segment(g, c[i], Around(g, c[i]) \ R, c[i - 1], c[i + 1])
  BY <1>7, <1>8 DEF NodeShape
<1>10. Around(g, c[i]) \ R = {c[i - 1], c[i + 1]}
  BY <1>5, <1>6, <1>9, SegmentOfTwo
<1>11. c[i - 1] # c[i + 1]
  <2>1. \A j, k \in 1..Len(c) : c[j] = c[k] => j = k
    BY ContourIndices
  <2> QED BY <1>3, <2>1
<1> QED BY <1>3, <1>4, <1>6, <1>10, <1>11

(* The contour does not go back along the base.                            *)
Backwards(b, c) ==
  {k \in Nat : k \in 2..Len(b) /\ \E i \in 1..(Len(c) - 1) : c[i] = b[k] /\ c[i + 1] = b[k - 1]}

LEMMA NeverBackwards ==
  ASSUME NEW g, IsEmbedding(g), NEW b, BaseShape(g, b), NEW c, NEW R, ContourShape(g, b, c, R)
  PROVE  Backwards(b, c) = {}
<1> DEFINE q == Len(c)
           p == Len(b)
<1>1. SUFFICES ASSUME Backwards(b, c) # {} PROVE FALSE
  OBVIOUS
<1>2. PICK k \in Backwards(b, c) : \A j \in Backwards(b, c) : k <= j
  <2>1. Backwards(b, c) \in SUBSET Nat
    BY DEF Backwards
  <2> QED BY <1>1, <2>1, LeastNumber
<1>3. k \in Nat /\ k \in 2..p /\ \E i \in 1..(q - 1) : c[i] = b[k] /\ c[i + 1] = b[k - 1]
  BY DEF Backwards
<1>4. PICK i \in 1..(q - 1) : c[i] = b[k] /\ c[i + 1] = b[k - 1]
  BY <1>3
<1>5. /\ q \in Nat /\ q >= 2 /\ \A j, h \in 1..q : c[j] = c[h] => j = h
      /\ \A j \in 1..q : c[j] \in g.nodes
  BY ContourIndices
<1>6. /\ p \in Nat /\ p >= 2 /\ \A j, h \in 1..p : b[j] = b[h] => j = h
      /\ \A j \in 1..p : b[j] \in g.nodes /\ b[j] \in ToSet(b)
  BY BaseFacts DEF BaseShape
<1>7. /\ c[1] = b[1] /\ c[q] = b[p] /\ R \cap ToSet(b) = {}
      /\ \A j \in 1..q : NodeShape(g, b, R, Before(b, c, j), c[j], After(b, c, j))
  BY DEF ContourShape
<1>8. \A j \in 1..(p - 1) : Entry(g, b[j], b[j + 1], extFace)
  BY DEF BaseShape
<1> HIDE DEF p, q
<1>9. i \in Int /\ i + 1 \in 1..q /\ i + 1 # 1
  BY <1>5
<1>10. k # 2
  <2>1. SUFFICES ASSUME k = 2 PROVE FALSE
    OBVIOUS
  <2>2. c[i + 1] = c[1]
    BY <1>4, <1>7, <2>1
  <2> QED BY <1>5, <1>9, <2>2
<1>11. k \in 3..p /\ k - 2 \in 1..(p - 1) /\ k - 1 \in 1..(p - 1) /\ (k - 2) + 1 = k - 1 /\ (k - 1) + 1 = k
  BY <1>3, <1>6, <1>10
<1>12. i + 1 # q
  <2>1. SUFFICES ASSUME i + 1 = q PROVE FALSE
    OBVIOUS
  <2>2. b[k - 1] = b[p]
    BY <1>4, <1>7, <2>1
  <2>3. k - 1 \in 1..p /\ p \in 1..p /\ k - 1 # p
    BY <1>6, <1>11
  <2> QED BY <1>6, <2>2, <2>3
<1>13. Before(b, c, i + 1) = b[k] /\ After(b, c, i + 1) = c[i + 2]
  <2>1. Before(b, c, i + 1) = c[(i + 1) - 1] /\ (i + 1) - 1 = i
    BY <1>9 DEF Before
  <2>2. After(b, c, i + 1) = c[(i + 1) + 1] /\ (i + 1) + 1 = i + 2
    BY <1>9, <1>12 DEF After, q
  <2> QED BY <1>4, <2>1, <2>2
<1>14. Segment(g, b[k - 1], Around(g, b[k - 1]) \ R, b[k], c[i + 2])
  <2>1. NodeShape(g, b, R, b[k], b[k - 1], c[i + 2])
    BY <1>4, <1>7, <1>9, <1>13
  <2> QED BY <2>1 DEF NodeShape
<1>15. Entry(g, b[k - 2], b[k - 1], extFace) /\ Entry(g, b[k - 1], b[k], extFace)
  <2>1. Entry(g, b[k - 2], b[(k - 2) + 1], extFace) /\ Entry(g, b[k - 1], b[(k - 1) + 1], extFace)
    BY <1>8, <1>11
  <2> QED BY <1>11, <2>1
<1>16. Beside(g, b[k - 1], b[k - 2], b[k])
  BY <1>15 DEF Beside
<1>17. b[k - 2] \in Around(g, b[k - 1]) \ R
  <2>1. b[k - 2] \in Around(g, b[k - 1])
    BY <1>15, EntryFacts
  <2>2. k - 2 \in 1..p
    BY <1>6, <1>11
  <2> QED BY <1>6, <1>7, <2>1, <2>2
<1>18. b[k - 2] = c[i + 2]
  BY <1>14, <1>16, <1>17 DEF Segment
<1>19. k - 1 \in Backwards(b, c)
  <2>1. k - 1 \in Nat /\ k - 1 \in 2..p /\ (k - 1) - 1 = k - 2
    BY <1>11, <1>6
  <2>2. i + 1 \in 1..(q - 1) /\ (i + 1) + 1 = i + 2
    BY <1>5, <1>9, <1>12
  <2>3. c[i + 1] = b[k - 1] /\ c[(i + 1) + 1] = b[(k - 1) - 1]
    BY <1>4, <1>18, <2>1, <2>2
  <2> QED BY <2>1, <2>2, <2>3 DEF Backwards, p, q
<1>20. k <= k - 1
  BY <1>2, <1>19
<1> QED BY <1>3, <1>20

LEMMA RunOffBase ==
  ASSUME NEW g, IsEmbedding(g), NEW b, BaseShape(g, b), NEW c, NEW R, ContourShape(g, b, c, R),
         NEW f, NEW a, NEW z, FaceRun(g, c, R, f, a, z), NEW i \in (a + 1)..(z - 1)
  PROVE  c[i] \notin ToSet(b)
<1> DEFINE p == Len(b)
<1>1. SUFFICES ASSUME c[i] \in ToSet(b) PROVE FALSE
  OBVIOUS
<1>2. /\ i \in 2..(Len(c) - 1)
      /\ Around(g, c[i]) \ R = {c[i - 1], c[i + 1]} /\ c[i - 1] # c[i + 1]
      /\ Entry(g, c[i], c[i + 1], f)
  BY RunInner
<1>3. /\ p \in Nat /\ p >= 2 /\ \A j, h \in 1..p : b[j] = b[h] => j = h
      /\ \A j \in 1..p : b[j] \in ToSet(b)
  BY BaseFacts DEF BaseShape
<1>4. PICK k \in 1..p : b[k] = c[i]
  <2>1. b \in Path(g.nodes)
    BY DEF BaseShape
  <2> QED BY <1>1, <2>1, PathIndices
<1>5. Len(c) \in Nat /\ \A j, h \in 1..Len(c) : c[j] = c[h] => j = h
  BY ContourIndices
<1>6. c[1] = b[1] /\ c[Len(c)] = b[p] /\ R \cap ToSet(b) = {}
  BY DEF ContourShape
<1>7. \A j \in 1..(p - 1) : Entry(g, b[j], b[j + 1], extFace)
  BY DEF BaseShape
<1> HIDE DEF p
<1>8. i \in 1..Len(c) /\ 1 \in 1..Len(c) /\ Len(c) \in 1..Len(c) /\ i # 1 /\ i # Len(c)
  BY <1>2, <1>5
<1>9. k # 1 /\ k # p
  BY <1>4, <1>5, <1>6, <1>8
<1>10. /\ k \in 1..(p - 1) /\ k - 1 \in 1..(p - 1) /\ (k - 1) + 1 = k
       /\ k - 1 \in 1..p /\ k + 1 \in 1..p /\ k - 1 # k + 1
  BY <1>3, <1>9
<1>11. Entry(g, b[k], b[k + 1], extFace) /\ Entry(g, b[k - 1], b[k], extFace)
  <2>1. Entry(g, b[k - 1], b[(k - 1) + 1], extFace)
    BY <1>7, <1>10
  <2> QED BY <1>7, <1>10, <2>1
<1>12. b[k - 1] \in Around(g, c[i]) /\ b[k + 1] \in Around(g, c[i])
  BY <1>4, <1>11, EntryFacts
<1>13. {b[k - 1], b[k + 1]} \subseteq {c[i - 1], c[i + 1]} /\ b[k - 1] # b[k + 1]
  <2>1. b[k - 1] \notin R /\ b[k + 1] \notin R /\ b[k - 1] # b[k + 1]
    BY <1>3, <1>6, <1>10
  <2> QED BY <1>2, <1>12, <2>1
<1>14. b[k + 1] # c[i + 1]
  <2>1. SUFFICES ASSUME b[k + 1] = c[i + 1] PROVE FALSE
    OBVIOUS
  <2>2. Entry(g, c[i], c[i + 1], extFace)
    BY <1>4, <1>11, <2>1
  <2>3. f = extFace
    BY <1>2, <2>2, EntryFacts
  <2> QED BY <2>3 DEF FaceRun, Whole
<1>15. b[k - 1] = c[i + 1]
  BY <1>13, <1>14
<1>16. k \in Backwards(b, c)
  <2>1. k \in Nat /\ k \in 2..p /\ i \in 1..(Len(c) - 1)
    BY <1>2, <1>3, <1>5, <1>9
  <2> QED BY <1>4, <1>15, <2>1 DEF Backwards, p
<1> QED BY <1>16, NeverBackwards

-----------------------------------------------------------------------------
(***************************************************************************)
(* A face from v on against its cycle.                                     *)
(***************************************************************************)
BackFrom(g, f, v, B) ==
  /\ B \in Path(g.nodes) /\ Len(B) = Len(g.faces[f]) /\ B[1] = v
  /\ \A i \in 1..(Len(B) - 1) : Entry(g, B[i + 1], B[i], f)
  /\ Entry(g, v, B[Len(B)], f)
  /\ ToSet(B) = OnFace(g, f)

LEMMA BackPlace ==
  ASSUME NEW n \in Nat \ {0}, NEW k \in 1..n, NEW i \in 1..n
  PROVE  ((k + n - i) % n) + 1 = IF i <= k THEN k - i + 1 ELSE k + n - i + 1
<1>1. CASE i <= k
  <2>1. k - i \in 0..(n - 1) /\ k + n - i = (k - i) + n
    BY <1>1
  <2>2. ((k - i) + n) % n = k - i
    BY <2>1
  <2> QED BY <1>1, <2>1, <2>2
<1>2. CASE i > k
  <2>1. k + n - i \in 0..(n - 1)
    BY <1>2
  <2>2. (k + n - i) % n = k + n - i
    BY <2>1
  <2> QED BY <1>2, <2>2
<1> QED BY <1>1, <1>2

PlaceBack(n, k, i) == IF i <= k THEN k - i + 1 ELSE k + n - i + 1

TurnsBack(n, k) ==
  /\ \A i \in 1..n : PlaceBack(n, k, i) \in 1..n
  /\ \A i, j \in 1..n : PlaceBack(n, k, i) = PlaceBack(n, k, j) => i = j
  /\ PlaceBack(n, k, 1) = k
  /\ \A i \in 1..(n - 1) :
       PlaceBack(n, k, i) = IF PlaceBack(n, k, i + 1) = n THEN 1 ELSE PlaceBack(n, k, i + 1) + 1
  /\ PlaceBack(n, k, n) = IF k = n THEN 1 ELSE k + 1
  /\ \A j \in 1..n : \E i \in 1..n : PlaceBack(n, k, i) = j

LEMMA PlacesBack ==
  ASSUME NEW n \in Nat \ {0}, NEW k \in 1..n
  PROVE  TurnsBack(n, k)
<1>1. \A i \in 1..n : PlaceBack(n, k, i) \in 1..n
  BY DEF PlaceBack
<1>2. \A i, j \in 1..n : PlaceBack(n, k, i) = PlaceBack(n, k, j) => i = j
  BY DEF PlaceBack
<1>3. \A i \in 1..(n - 1) :
        PlaceBack(n, k, i) = IF PlaceBack(n, k, i + 1) = n THEN 1 ELSE PlaceBack(n, k, i + 1) + 1
  BY DEF PlaceBack
<1>4. \A j \in 1..n : \E i \in 1..n : PlaceBack(n, k, i) = j
  <2>1. SUFFICES ASSUME NEW j \in 1..n PROVE \E i \in 1..n : PlaceBack(n, k, i) = j
    OBVIOUS
  <2>2. CASE j <= k
    <3>1. k - j + 1 \in 1..n /\ PlaceBack(n, k, k - j + 1) = j
      BY <2>2 DEF PlaceBack
    <3> QED BY <3>1
  <2>3. CASE j > k
    <3>1. k + n - j + 1 \in 1..n /\ PlaceBack(n, k, k + n - j + 1) = j
      BY <2>3 DEF PlaceBack
    <3> QED BY <3>1
  <2> QED BY <2>2, <2>3
<1>5. PlaceBack(n, k, 1) = k /\ PlaceBack(n, k, n) = IF k = n THEN 1 ELSE k + 1
  BY DEF PlaceBack
<1> QED BY <1>1, <1>2, <1>3, <1>4, <1>5 DEF TurnsBack

LEMMA BackIsBack ==
  ASSUME IsEmbedding(E), NEW f \in DOMAIN E.faces, NEW v \in OnFace(E, f)
  PROVE  BackFrom(E, f, v, Back(f, v))
<1> DEFINE face == E.faces[f]
           n == Len(E.faces[f])
           k == At(E.faces[f], v)
           B == Back(f, v)
<1>1. face \in Path(E.nodes) /\ n >= 3
  BY FaceIsPath
<1>2. /\ n \in Nat \ {0} /\ DOMAIN face = 1..n
      /\ \A i \in 1..n : face[i] \in E.nodes
      /\ \A i, j \in 1..n : face[i] = face[j] => i = j
      /\ \A w : w \in ToSet(face) <=> \E i \in 1..n : face[i] = w
  BY <1>1, PathIndices
<1>3. k \in 1..n /\ face[k] = v
  BY <1>1, AtOfMember DEF OnFace
<1>4. B = [i \in 1..n |-> face[((k + n - i) % n) + 1]]
  BY Zenon DEF Back
<1>5. ToSet(face) = OnFace(E, f)
  BY DEF OnFace
<1>6. \A w, x : Entry(E, w, x, f) <=> \E i \in 1..n : face[i] = w /\ x = IF i = n THEN face[1] ELSE face[i + 1]
  <2> SUFFICES ASSUME NEW w, NEW x
      PROVE  Entry(E, w, x, f) <=> \E i \in 1..n : face[i] = w /\ x = IF i = n THEN face[1] ELSE face[i + 1]
    OBVIOUS
  <2>1. Entry(E, w, x, f) <=> << w, x >> \in Follows(face)
    BY EntryFollows
  <2>2. face \in Path(E.nodes) /\ Len(face) >= 3 /\ Len(face) = n
    BY <1>1
  <2> HIDE DEF face, n
  <2>3. << w, x >> \in Follows(face) <=>
          \E i \in 1..Len(face) : face[i] = w /\ x = IF i = Len(face) THEN face[1] ELSE face[i + 1]
    BY <2>2, FollowsAt
  <2> QED BY <2>1, <2>2, <2>3
<1> HIDE DEF B, k, n, face
<1>7. B = [i \in 1..n |-> face[PlaceBack(n, k, i)]]
  <2>1. \A i \in 1..n : ((k + n - i) % n) + 1 = PlaceBack(n, k, i)
    <3> SUFFICES ASSUME NEW i \in 1..n PROVE ((k + n - i) % n) + 1 = PlaceBack(n, k, i)
      OBVIOUS
    <3>1. ((k + n - i) % n) + 1 = IF i <= k THEN k - i + 1 ELSE k + n - i + 1
      BY <1>2, <1>3, BackPlace
    <3> QED BY <3>1 DEF PlaceBack
  <2> QED BY <1>4, <2>1
<1>8. /\ \A i \in 1..n : PlaceBack(n, k, i) \in 1..n
      /\ \A i, j \in 1..n : PlaceBack(n, k, i) = PlaceBack(n, k, j) => i = j
      /\ PlaceBack(n, k, 1) = k
      /\ \A i \in 1..(n - 1) :
           PlaceBack(n, k, i) = IF PlaceBack(n, k, i + 1) = n THEN 1 ELSE PlaceBack(n, k, i + 1) + 1
      /\ PlaceBack(n, k, n) = IF k = n THEN 1 ELSE k + 1
      /\ \A j \in 1..n : \E i \in 1..n : PlaceBack(n, k, i) = j
  <2>1. TurnsBack(n, k)
    BY <1>2, <1>3, PlacesBack
  <2> QED BY <2>1 DEF TurnsBack
<1>9. DOMAIN B = 1..n /\ \A i \in 1..n : B[i] = face[PlaceBack(n, k, i)]
  BY <1>7
<1>10. B \in Seq(E.nodes) /\ Len(B) = n
  <2>1. B \in [1..n -> E.nodes]
    BY <1>2, <1>7, <1>8
  <2> QED BY <1>2, <2>1, LenProperties
<1>11. B \in Path(E.nodes)
  <2>1. \A i, j \in DOMAIN B : B[i] = B[j] => i = j
    <3> SUFFICES ASSUME NEW i \in 1..n, NEW j \in 1..n, B[i] = B[j] PROVE i = j
      BY <1>9
    <3>1. PlaceBack(n, k, i) = PlaceBack(n, k, j)
      <4>1. PlaceBack(n, k, i) \in 1..n /\ PlaceBack(n, k, j) \in 1..n
        BY <1>8
      <4>2. face[PlaceBack(n, k, i)] = face[PlaceBack(n, k, j)]
        BY <1>9
      <4> QED BY <1>2, <4>1, <4>2
    <3> QED BY <1>8, <3>1
  <2> QED BY <1>10, <2>1 DEF Path
<1>12. B[1] = v
  <2>1. 1 \in 1..n
    BY <1>2
  <2> QED BY <1>3, <1>8, <1>9, <2>1
<1>13. ASSUME NEW i \in 1..(n - 1) PROVE Entry(E, B[i + 1], B[i], f)
  <2>1. i \in 1..n /\ i + 1 \in 1..n
    BY <1>2
  <2>2. PlaceBack(n, k, i) = IF PlaceBack(n, k, i + 1) = n THEN 1 ELSE PlaceBack(n, k, i + 1) + 1
    BY <1>8
  <2>3. PlaceBack(n, k, i + 1) \in 1..n
    BY <1>8, <2>1
  <2>4. B[i] = face[PlaceBack(n, k, i)] /\ B[i + 1] = face[PlaceBack(n, k, i + 1)]
    BY <1>9, <2>1
  <2> QED BY <1>6, <2>2, <2>3, <2>4
<1>14. Entry(E, v, B[n], f)
  <2>1. n \in 1..n
    BY <1>2
  <2>2. B[n] = IF k = n THEN face[1] ELSE face[k + 1]
    BY <1>8, <1>9, <2>1
  <2> QED BY <1>3, <1>6, <2>2
<1>15. ToSet(B) = OnFace(E, f)
  <2>1. \A w : w \in ToSet(B) <=> \E i \in 1..n : B[i] = w
    BY <1>10, <1>11, PathIndices
  <2>2. ASSUME NEW w \in ToSet(B) PROVE w \in ToSet(face)
    BY <1>2, <1>8, <1>9, <2>1
  <2>3. ASSUME NEW w \in ToSet(face) PROVE w \in ToSet(B)
    <3>1. PICK j \in 1..n : face[j] = w
      BY <1>2
    <3>2. PICK i \in 1..n : PlaceBack(n, k, i) = j
      BY <1>8
    <3> QED BY <1>9, <2>1, <3>1, <3>2
  <2> QED BY <1>5, <2>2, <2>3
<1>16. n = Len(E.faces[f])
  BY DEF n
<1> QED BY <1>10, <1>11, <1>12, <1>13, <1>14, <1>15, <1>16 DEF BackFrom, B

-----------------------------------------------------------------------------
(***************************************************************************)
(* removeNextFace: the run of f is taken from the contour.                 *)
(***************************************************************************)
OnRun(t, c, f, a, z) ==
  /\ a \in 1..Len(c) /\ z \in 1..Len(c) /\ a + 2 <= z /\ z - a = t.outv[f] - 1
  /\ \A i \in (a + 1)..(z - 1) : t.deg[c[i]] = 2
  /\ a = 1 \/ t.deg[c[a]] # 2
  /\ z = Len(c) \/ t.deg[c[z]] # 2

LEMMA LeftOfRun ==
  ASSUME NEW g, IsEmbedding(g), NEW b, NEW c, NEW R, ContourShape(g, b, c, R), NEW f, NEW a, NEW z,
         FaceRun(g, c, R, f, a, z), a # 1
  PROVE  Around(g, c[a]) \ R # {c[a - 1], c[a + 1]}
<1> SUFFICES ASSUME Around(g, c[a]) \ R = {c[a - 1], c[a + 1]} PROVE FALSE
  OBVIOUS
<1>1. /\ Len(c) \in Nat /\ \A i \in 1..Len(c) : c[i] \in g.nodes
      /\ \A i, j \in 1..Len(c) : c[i] = c[j] => i = j
  BY ContourIndices
<1>2. /\ a \in 1..Len(c) /\ z \in 1..Len(c) /\ a + 2 <= z
      /\ \A i \in 1..Len(c) : c[i] \in OnFace(g, f) <=> i \in a..z
      /\ \A i \in a..(z - 1) : Entry(g, c[i], c[i + 1], f)
  BY DEF FaceRun
<1>3. a \in 2..(Len(c) - 1) /\ a \in a..(z - 1) /\ a - 1 \in 1..Len(c) /\ a + 1 \in 1..Len(c) /\ a - 1 \notin a..z
  BY <1>1, <1>2
<1>4. NodeShape(g, b, R, Before(b, c, a), c[a], After(b, c, a))
  BY <1>2 DEF ContourShape
<1>5. Before(b, c, a) = c[a - 1] /\ After(b, c, a) = c[a + 1]
  BY <1>1, <1>3 DEF Before, After
<1>6. Segment(g, c[a], Around(g, c[a]) \ R, c[a - 1], c[a + 1])
  BY <1>4, <1>5 DEF NodeShape
<1>7. c[a - 1] # c[a + 1]
  BY <1>1, <1>3
<1>8. Beside(g, c[a], c[a - 1], c[a + 1])
  BY <1>1, <1>2, <1>6, <1>7, TwoAreBeside
<1>9. PICK h : Entry(g, c[a - 1], c[a], h) /\ Entry(g, c[a], c[a + 1], h)
  BY <1>8 DEF Beside
<1>10. Entry(g, c[a], c[a + 1], f)
  BY <1>2, <1>3
<1>11. h = f
  BY <1>9, <1>10, EntryFacts
<1>12. c[a - 1] \in OnFace(g, f)
  BY <1>9, <1>11, EntryFacts
<1> QED BY <1>2, <1>3, <1>12

LEMMA RightOfRun ==
  ASSUME NEW g, IsEmbedding(g), NEW b, NEW c, NEW R, ContourShape(g, b, c, R), NEW f, NEW a, NEW z,
         FaceRun(g, c, R, f, a, z), z # Len(c)
  PROVE  Around(g, c[z]) \ R # {c[z - 1], c[z + 1]}
<1> SUFFICES ASSUME Around(g, c[z]) \ R = {c[z - 1], c[z + 1]} PROVE FALSE
  OBVIOUS
<1>1. /\ Len(c) \in Nat /\ \A i \in 1..Len(c) : c[i] \in g.nodes
      /\ \A i, j \in 1..Len(c) : c[i] = c[j] => i = j
  BY ContourIndices
<1>2. /\ a \in 1..Len(c) /\ z \in 1..Len(c) /\ a + 2 <= z
      /\ \A i \in 1..Len(c) : c[i] \in OnFace(g, f) <=> i \in a..z
      /\ \A i \in a..(z - 1) : Entry(g, c[i], c[i + 1], f)
  BY DEF FaceRun
<1>3. /\ z \in 2..(Len(c) - 1) /\ z - 1 \in a..(z - 1) /\ (z - 1) + 1 = z
      /\ z - 1 \in 1..Len(c) /\ z + 1 \in 1..Len(c) /\ z + 1 \notin a..z
  BY <1>1, <1>2
<1>4. NodeShape(g, b, R, Before(b, c, z), c[z], After(b, c, z))
  BY <1>2 DEF ContourShape
<1>5. Before(b, c, z) = c[z - 1] /\ After(b, c, z) = c[z + 1]
  BY <1>1, <1>3 DEF Before, After
<1>6. Segment(g, c[z], Around(g, c[z]) \ R, c[z - 1], c[z + 1])
  BY <1>4, <1>5 DEF NodeShape
<1>7. c[z - 1] # c[z + 1]
  BY <1>1, <1>3
<1>8. Beside(g, c[z], c[z - 1], c[z + 1])
  BY <1>1, <1>2, <1>6, <1>7, TwoAreBeside
<1>9. PICK h : Entry(g, c[z - 1], c[z], h) /\ Entry(g, c[z], c[z + 1], h)
  BY <1>8 DEF Beside
<1>10. Entry(g, c[z - 1], c[z], f)
  <2>1. Entry(g, c[z - 1], c[(z - 1) + 1], f)
    BY <1>2, <1>3
  <2> QED BY <1>3, <2>1
<1>11. h = f
  BY <1>9, <1>10, EntryFacts
<1>12. c[z + 1] \in OnFace(g, f)
  BY <1>9, <1>11, EntryFacts
<1> QED BY <1>2, <1>3, <1>12

LEMMA PairSet ==
  ASSUME NEW A, IsFiniteSet(A), Cardinality(A) = 2, NEW x \in A, NEW y \in A, x # y
  PROVE  A = {x, y}
<1>1. {x, y} \in SUBSET A /\ Cardinality({x, y}) = 2
  BY PairCardinality
<1>2. \A B \in SUBSET A : Cardinality(B) = Cardinality(A) => B = A
  BY FS_Subset
<1> QED BY <1>1, <1>2

LEMMA RunDegrees ==
  ASSUME NEW g, IsEmbedding(g), NEW b, NEW c, NEW R, ContourShape(g, b, c, R), NEW t, Linked(g, t, c, R),
         NEW f, NEW a, NEW z, FaceRun(g, c, R, f, a, z), z - a = t.outv[f] - 1
  PROVE  OnRun(t, c, f, a, z)
<1>1. /\ Len(c) \in Nat /\ \A i \in 1..Len(c) : c[i] \in g.nodes /\ c[i] \notin R
      /\ \A i, j \in 1..Len(c) : c[i] = c[j] => i = j
  BY ContourIndices
<1>2. a \in 1..Len(c) /\ z \in 1..Len(c) /\ a + 2 <= z
  BY DEF FaceRun
<1>3. \A v \in g.nodes \ R : t.deg[v] = Cardinality(Around(g, v) \ R)
  BY DEF Linked
<1>4. ASSUME NEW i \in (a + 1)..(z - 1) PROVE t.deg[c[i]] = 2
  <2>1. i \in 1..Len(c)
    BY <1>1, <1>2
  <2>2. Around(g, c[i]) \ R = {c[i - 1], c[i + 1]} /\ c[i - 1] # c[i + 1]
    BY RunInner
  <2>3. Cardinality({c[i - 1], c[i + 1]}) = 2
    BY <2>2, PairCardinality
  <2> QED BY <1>1, <1>3, <2>1, <2>2, <2>3
<1>5. ASSUME NEW i \in 2..(Len(c) - 1), t.deg[c[i]] = 2
      PROVE  Around(g, c[i]) \ R = {c[i - 1], c[i + 1]}
  <2>1. i \in 1..Len(c) /\ i - 1 \in 1..Len(c) /\ i + 1 \in 1..Len(c) /\ i # 1 /\ i # Len(c)
    BY <1>1
  <2>2. NodeShape(g, b, R, Before(b, c, i), c[i], After(b, c, i))
    BY <2>1 DEF ContourShape
  <2>3. Before(b, c, i) = c[i - 1] /\ After(b, c, i) = c[i + 1]
    BY <2>1 DEF Before, After
  <2>4. c[i - 1] \in Around(g, c[i]) \ R /\ c[i + 1] \in Around(g, c[i]) \ R
    BY <2>2, <2>3 DEF NodeShape, Segment
  <2>5. c[i - 1] # c[i + 1]
    BY <1>1, <2>1
  <2>6. Cardinality(Around(g, c[i]) \ R) = 2
    BY <1>1, <1>3, <1>5, <2>1
  <2>7. IsFiniteSet(Around(g, c[i]) \ R)
    BY AroundNodes, FS_Subset
  <2> QED BY <2>4, <2>5, <2>6, <2>7, PairSet
<1>6. a = 1 \/ t.deg[c[a]] # 2
  <2>1. CASE a # 1 /\ t.deg[c[a]] = 2
    <3>1. a \in 2..(Len(c) - 1)
      BY <1>1, <1>2, <2>1
    <3>2. Around(g, c[a]) \ R = {c[a - 1], c[a + 1]}
      BY <1>5, <2>1, <3>1
    <3> QED BY <2>1, <3>2, LeftOfRun
  <2> QED BY <2>1
<1>7. z = Len(c) \/ t.deg[c[z]] # 2
  <2>1. CASE z # Len(c) /\ t.deg[c[z]] = 2
    <3>1. z \in 2..(Len(c) - 1)
      BY <1>1, <1>2, <2>1
    <3>2. Around(g, c[z]) \ R = {c[z - 1], c[z + 1]}
      BY <1>5, <2>1, <3>1
    <3> QED BY <2>1, <3>2, RightOfRun
  <2> QED BY <2>1
<1> QED BY <1>2, <1>4, <1>6, <1>7 DEF OnRun

LEMMA RunChain ==
  ASSUME NEW V, NEW c \in Path(V), NEW t, t.contour = c, NEW f, NEW a, NEW z, OnRun(t, c, f, a, z)
  PROVE  /\ \A i \in a..z : t.deg[c[i]] = 2 => ChainLeft(t, c[i]) = c[a]
         /\ ChainRight(t, c[a]) = c[z]
<1>1. Len(c) \in Nat /\ \A i \in 1..Len(c) : At(c, c[i]) = i
  BY PathIndices, AtIndex
<1>2. /\ a \in 1..Len(c) /\ z \in 1..Len(c) /\ a + 2 <= z
      /\ \A i \in (a + 1)..(z - 1) : t.deg[c[i]] = 2
      /\ a = 1 \/ t.deg[c[a]] # 2
      /\ z = Len(c) \/ t.deg[c[z]] # 2
  BY DEF OnRun
<1>3. ASSUME NEW i \in a..z, t.deg[c[i]] = 2 PROVE ChainLeft(t, c[i]) = c[a]
  <2> DEFINE T == {j \in 1..At(t.contour, c[i]) : j = 1 \/ t.deg[t.contour[j]] # 2}
  <2>1. i \in 1..Len(c)
    BY <1>1, <1>2
  <2>2. At(t.contour, c[i]) = i
    BY <1>1, <2>1
  <2>3. \A j : j \in T <=> j \in 1..i /\ (j = 1 \/ t.deg[c[j]] # 2)
    BY <2>2
  <2>4. ChainLeft(t, c[i]) = c[Max(T)]
    BY DEF ChainLeft
  <2> HIDE DEF T
  <2>5. a \in T
    BY <1>1, <1>2, <2>1, <2>3
  <2>6. \A j \in T : j \in Int /\ j <= i
    BY <2>3
  <2>7. \A j \in T : j <= a
    <3> SUFFICES ASSUME NEW j \in T, ~ j <= a PROVE FALSE
      OBVIOUS
    <3>0. j > a /\ j \in Int
      BY <1>2, <2>6
    <3>1. j \in 1..i /\ j # 1 /\ t.deg[c[j]] # 2
      BY <1>2, <2>3, <3>0
    <3>2. j # i
      BY <1>3, <3>1
    <3>3. j \in (a + 1)..(z - 1)
      BY <1>1, <1>2, <3>0, <3>1, <3>2
    <3> QED BY <1>2, <3>1, <3>3
  <2>8. T \in SUBSET Int /\ T # {} /\ i \in Int
    BY <1>2, <2>5, <2>6
  <2>9. Max(T) \in T /\ \A j \in T : j <= Max(T)
    BY <2>6, <2>8, BoundedMax
  <2>10. Max(T) = a
    <3>1. Max(T) <= a /\ a <= Max(T)
      BY <2>5, <2>7, <2>9
    <3>2. Max(T) \in Int /\ a \in Int
      BY <2>5, <2>6, <2>9
    <3> QED BY <3>1, <3>2
  <2> QED BY <2>4, <2>10
<1>4. ChainRight(t, c[a]) = c[z]
  <2> DEFINE T == {j \in (At(t.contour, c[a]) + 1)..Len(t.contour) : j = Len(t.contour) \/ t.deg[t.contour[j]] # 2}
  <2>1. At(t.contour, c[a]) = a /\ Len(t.contour) = Len(c)
    BY <1>1, <1>2
  <2>2. \A j : j \in T <=> j \in (a + 1)..Len(c) /\ (j = Len(c) \/ t.deg[c[j]] # 2)
    BY <2>1
  <2>3. ChainRight(t, c[a]) = c[Min(T)]
    BY DEF ChainRight
  <2> HIDE DEF T
  <2>4. z \in T
    BY <1>1, <1>2, <2>2
  <2>5. \A j \in T : j \in Int /\ 1 <= j
    BY <1>2, <2>2
  <2>6. \A j \in T : z <= j
    <3> SUFFICES ASSUME NEW j \in T, ~ z <= j PROVE FALSE
      OBVIOUS
    <3>0. j < z /\ j \in Int
      BY <1>2, <2>5
    <3>1. j \in (a + 1)..(z - 1) /\ j # Len(c)
      BY <1>1, <1>2, <2>2, <3>0
    <3> QED BY <1>2, <2>2, <3>1
  <2>7. T \in SUBSET Int /\ T # {} /\ 1 \in Int
    BY <2>4, <2>5
  <2>8. Min(T) \in T /\ \A j \in T : Min(T) <= j
    BY <2>5, <2>7, BoundedMin
  <2>9. Min(T) = z
    <3>1. Min(T) <= z /\ z <= Min(T)
      BY <2>4, <2>6, <2>8
    <3>2. Min(T) \in Int /\ z \in Int
      BY <2>4, <2>5, <2>8
    <3> QED BY <3>1, <3>2
  <2> QED BY <2>3, <2>9
<1> QED BY <1>3, <1>4

LEMMA RunBetween ==
  ASSUME NEW V, NEW c \in Path(V), NEW t, t.contour = c,
         NEW a \in 1..Len(c), NEW z \in 1..Len(c), a < z
  PROVE  /\ Between(t, c[a], c[z]) \in Seq(V)
         /\ Len(Between(t, c[a], c[z])) = z - a - 1
         /\ ToSet(Between(t, c[a], c[z])) = Hidden(c, a, z)
         /\ \A i \in 1..(z - a - 1) : Between(t, c[a], c[z])[i] = c[a + i]
<1>1. /\ Len(c) \in Nat /\ c \in Seq(V) /\ \A i \in 1..Len(c) : c[i] \in V
  BY PathIndices
<1>2. At(c, c[a]) = a /\ At(c, c[z]) = z
  BY AtIndex
<1> DEFINE B == SubSeq(c, a + 1, z - 1)
<1>3. Between(t, c[a], c[z]) = B
  BY <1>2 DEF Between
<1>4. B = [i \in 1..(z - a - 1) |-> c[a + i]]
  BY <1>1
<1> HIDE DEF B
<1>5. B \in [1..(z - a - 1) -> V]
  BY <1>1, <1>4
<1>6. B \in Seq(V) /\ Len(B) = z - a - 1
  BY <1>1, <1>5, LenProperties
<1>7. ASSUME NEW v PROVE v \in ToSet(B) <=> v \in Hidden(c, a, z)
  <2>1. v \in ToSet(B) <=> \E i \in 1..(z - a - 1) : v = c[a + i]
    BY <1>4, <1>6 DEF ToSet
  <2>2. ASSUME NEW i \in 1..(z - a - 1) PROVE a + i \in (a + 1)..(z - 1)
    BY <1>1
  <2>3. ASSUME NEW i \in (a + 1)..(z - 1) PROVE i - a \in 1..(z - a - 1) /\ a + (i - a) = i
    BY <1>1
  <2>4. v \in Hidden(c, a, z) <=> \E i \in (a + 1)..(z - 1) : v = c[i]
    BY DEF Hidden
  <2> QED BY <2>1, <2>2, <2>3, <2>4
<1>8. \A i \in 1..(z - a - 1) : B[i] = c[a + i]
  BY <1>4
<1> QED BY <1>3, <1>6, <1>7, <1>8

LEMMA RunFaceCl ==
  ASSUME IsEmbedding(E), NEW c, NEW R, ContourShape(E, base, c, R), NEW t, t.contour = c, Linked(E, t, c, R),
         NEW f, NEW a, NEW z, FaceRun(E, c, R, f, a, z), OnRun(t, c, f, a, z)
  PROVE  getFaceCl(t, f) = {c[a]}
<1>1. c \in Path(E.nodes) /\ R \cap ToSet(c) = {}
  BY DEF ContourShape
<1>2. /\ a \in 1..Len(c) /\ z \in 1..Len(c) /\ a + 2 <= z /\ f \in Whole(E, R)
      /\ \A i \in 1..Len(c) : c[i] \in OnFace(E, f) <=> i \in a..z
  BY DEF FaceRun
<1>3. f \in DOMAIN E.faces /\ OnFace(E, f) \cap R = {}
  BY <1>2 DEF Whole
<1>4. ~ cutv(t, f) /\ t.onOuter = ToSet(c) \cup R
  BY <1>3 DEF Linked, cutv
<1> DEFINE ends == {v \in ToSet(E.faces[f]) \cap t.onOuter : t.deg[v] = 2}
<1>5. getFaceCl(t, f) = {ChainLeft(t, v) : v \in ends}
  BY <1>4 DEF getFaceCl
<1>6. Len(c) \in Nat /\ \A v : v \in ToSet(c) <=> \E i \in 1..Len(c) : c[i] = v
  BY <1>1, PathIndices
<1>7. \A v : v \in ends <=> v \in OnFace(E, f) /\ v \in ToSet(c) /\ t.deg[v] = 2
  BY <1>3, <1>4 DEF OnFace
<1> HIDE DEF ends
<1>8. ASSUME NEW v \in ends PROVE ChainLeft(t, v) = c[a]
  <2>1. PICK i \in 1..Len(c) : c[i] = v
    BY <1>6, <1>7
  <2>2. i \in a..z /\ t.deg[c[i]] = 2
    BY <1>2, <1>7, <2>1
  <2>3. \A j \in a..z : t.deg[c[j]] = 2 => ChainLeft(t, c[j]) = c[a]
    BY <1>1, RunChain
  <2> QED BY <2>1, <2>2, <2>3
<1>9. c[a + 1] \in ends
  <2>1. a + 1 \in (a + 1)..(z - 1) /\ a + 1 \in 1..Len(c) /\ a + 1 \in a..z
    BY <1>2, <1>6
  <2>2. t.deg[c[a + 1]] = 2
    BY <2>1 DEF OnRun
  <2> QED BY <1>2, <1>6, <1>7, <2>1, <2>2
<1> QED BY <1>5, <1>8, <1>9

(* The face from c_a back to c_z, where the run of f is what is left.      *)
FacePath(g, c, f, a, z, P) ==
  /\ P \in Path(g.nodes) /\ Ends(c, a, z, P)
  /\ \A j \in 1..(Len(P) - 1) : Entry(g, P[j + 1], P[j], f)
  /\ InnerOf(P) \cap ToSet(c) = {} /\ ToSet(P) \subseteq OnFace(g, f)
  /\ OnFace(g, f) \subseteq ToSet(P) \cup Hidden(c, a, z)

(* The run comes last of the face.                                         *)
ComesLast(c, a, z, B) ==
  \A k \in 1..(z - a) : Len(B) + 1 - k \in 2..Len(B) /\ B[Len(B) + 1 - k] = c[a + k]

LEMMA PathComesLast ==
  ASSUME NEW g, IsEmbedding(g), NEW c \in Path(g.nodes), NEW f \in DOMAIN g.faces,
         NEW a \in 1..Len(c), NEW z \in 1..Len(c), a < z,
         \A i \in a..(z - 1) : Entry(g, c[i], c[i + 1], f),
         NEW B, BackFrom(g, f, c[a], B)
  PROVE  ComesLast(c, a, z, B)
<1> DEFINE n == Len(B)
           T == {k \in 1..(z - a) : n + 1 - k \in 2..n /\ B[n + 1 - k] = c[a + k]}
<1>1. /\ Len(c) \in Nat /\ \A i \in 1..Len(c) : c[i] \in g.nodes
      /\ \A i, j \in 1..Len(c) : c[i] = c[j] => i = j
  BY PathIndices
<1>2. /\ a \in 1..Len(c) /\ z \in 1..Len(c) /\ a < z /\ f \in DOMAIN g.faces
      /\ \A i \in a..(z - 1) : Entry(g, c[i], c[i + 1], f)
  OBVIOUS
<1>3. /\ B \in Path(g.nodes) /\ Len(B) = Len(g.faces[f]) /\ B[1] = c[a]
      /\ \A i \in 1..(Len(B) - 1) : Entry(g, B[i + 1], B[i], f)
      /\ Entry(g, c[a], B[Len(B)], f)
  BY DEF BackFrom
<1>4. n \in Nat /\ n >= 3
  BY <1>2, <1>3, FaceIsPath, PathIndices
<1>5. \A v, w, x : Entry(g, v, w, f) /\ Entry(g, v, x, f) => w = x
  <2> SUFFICES ASSUME NEW v, NEW w, NEW x, Entry(g, v, w, f), Entry(g, v, x, f) PROVE w = x
    OBVIOUS
  <2>1. v \in OnFace(g, f)
    BY EntryFacts
  <2> QED BY <1>2, <2>1, FaceEntries
<1>6. \A i \in 2..n : Entry(g, B[i], B[i - 1], f)
  <2> SUFFICES ASSUME NEW i \in 2..n PROVE Entry(g, B[i], B[i - 1], f)
    OBVIOUS
  <2>1. i - 1 \in 1..(Len(B) - 1) /\ (i - 1) + 1 = i
    BY <1>4
  <2> QED BY <1>3, <2>1
<1>7. B[1] = c[a] /\ Entry(g, c[a], B[n], f)
  BY <1>3
<1> HIDE DEF n
<1>8. 1 \in T
  <2>1. 1 \in 1..(z - a) /\ n + 1 - 1 = n /\ n \in 2..n /\ a \in a..(z - 1)
    BY <1>1, <1>2, <1>4
  <2>2. Entry(g, c[a], c[a + 1], f)
    BY <1>2, <2>1
  <2>3. B[n] = c[a + 1]
    BY <1>5, <1>7, <2>2
  <2> QED BY <2>1, <2>3
<1>9. ASSUME NEW k \in 1..(z - a - 1), k \in T PROVE k + 1 \in T
  <2>1. /\ k + 1 \in 1..(z - a) /\ a + k \in a..(z - 1) /\ (a + k) + 1 = a + (k + 1)
        /\ a + k \in 1..Len(c) /\ a + k # a
    BY <1>1, <1>2
  <2>2. n + 1 - k \in 2..n /\ B[n + 1 - k] = c[a + k]
    BY <1>9
  <2>3. Entry(g, B[n + 1 - k], B[(n + 1 - k) - 1], f)
    BY <1>6, <2>2
  <2>4. Entry(g, c[a + k], c[a + (k + 1)], f)
    BY <1>2, <2>1
  <2>5. B[(n + 1 - k) - 1] = c[a + (k + 1)]
    BY <1>5, <2>2, <2>3, <2>4
  <2>6. (n + 1 - k) - 1 = n + 1 - (k + 1) /\ n + 1 - (k + 1) \in 1..n
    BY <1>4, <2>2
  <2>7. n + 1 - (k + 1) # 1
    <3> SUFFICES ASSUME n + 1 - (k + 1) = 1 PROVE FALSE
      OBVIOUS
    <3>1. c[a] = c[a + (k + 1)]
      BY <1>7, <2>5, <2>6
    <3>2. a + (k + 1) \in 1..Len(c) /\ a + (k + 1) # a
      BY <1>1, <1>2, <2>1
    <3> QED BY <1>1, <1>2, <3>1, <3>2
  <2>8. n + 1 - (k + 1) \in 2..n
    BY <1>4, <2>6, <2>7
  <2>9. B[n + 1 - (k + 1)] = c[a + (k + 1)]
    BY <2>5, <2>6
  <2> QED BY <2>1, <2>8, <2>9
<1>10. \A k \in T : k \in 1..(z - a) /\ n + 1 - k \in 2..n /\ B[n + 1 - k] = c[a + k]
  OBVIOUS
<1> HIDE DEF T
<1>11. \A k \in 1..(z - a) : k \in T
  <2>1. 1 \in Int /\ z - a \in Int /\ \A i \in 1..((z - a) - 1) : i \in T => i + 1 \in T
    BY <1>1, <1>2, <1>9
  <2> QED BY <1>8, <2>1, Upwards
<1> QED BY <1>10, <1>11 DEF n, ComesLast

LEMMA RunComesLast ==
  ASSUME NEW g, IsEmbedding(g), NEW b, NEW c, NEW R, ContourShape(g, b, c, R), NEW f, NEW a, NEW z,
         FaceRun(g, c, R, f, a, z), NEW B, BackFrom(g, f, c[a], B)
  PROVE  \A k \in 1..(z - a) : Len(B) + 1 - k \in 2..Len(B) /\ B[Len(B) + 1 - k] = c[a + k]
<1>1. c \in Path(g.nodes) /\ Len(c) \in Nat
  <2>1. c \in Path(g.nodes)
    BY DEF ContourShape
  <2> QED BY <2>1, PathIndices
<1>2. /\ a \in 1..Len(c) /\ z \in 1..Len(c) /\ a < z /\ f \in DOMAIN g.faces
      /\ \A i \in a..(z - 1) : Entry(g, c[i], c[i + 1], f)
  BY <1>1 DEF FaceRun, Whole
<1>3. c \in Path(g.nodes) /\ f \in DOMAIN g.faces /\ a \in 1..Len(c) /\ z \in 1..Len(c)
  BY <1>1, <1>2
<1>4. ComesLast(c, a, z, B)
  BY <1>2, <1>3, PathComesLast
<1> QED BY <1>4 DEF ComesLast

LEMMA RunPath ==
  ASSUME IsEmbedding(E), NEW c, NEW R, ContourShape(E, base, c, R), NEW f, NEW a, NEW z,
         FaceRun(E, c, R, f, a, z)
  PROVE  FacePath(E, c, f, a, z, BackTo(f, c[a], c[z]))
<1> DEFINE B == Back(f, c[a])
           n == Len(B)
           m == n + 1 - (z - a)
           P == SubSeq(B, 1, m)
<1>1. /\ Len(c) \in Nat
      /\ \A i, j \in 1..Len(c) : c[i] = c[j] => i = j
      /\ \A v : v \in ToSet(c) <=> \E i \in 1..Len(c) : c[i] = v
  BY ContourIndices
<1>2. /\ a \in 1..Len(c) /\ z \in 1..Len(c) /\ a + 2 <= z /\ f \in DOMAIN E.faces
      /\ \A i \in 1..Len(c) : c[i] \in OnFace(E, f) <=> i \in a..z
  BY DEF FaceRun, Whole
<1>3. c[a] \in OnFace(E, f)
  BY <1>1, <1>2
<1>4. BackFrom(E, f, c[a], B)
  BY <1>2, <1>3, BackIsBack
<1>5. /\ B \in Path(E.nodes) /\ B[1] = c[a] /\ ToSet(B) = OnFace(E, f)
      /\ \A i \in 1..(Len(B) - 1) : Entry(E, B[i + 1], B[i], f)
  BY <1>4 DEF BackFrom
<1>6. \A k \in 1..(z - a) : n + 1 - k \in 2..n /\ B[n + 1 - k] = c[a + k]
  BY <1>4, RunComesLast
<1>7. BackTo(f, c[a], c[z]) = SubSeq(B, 1, At(B, c[z]))
  BY DEF BackTo
<1> HIDE DEF B
<1>8. /\ B \in Seq(E.nodes) /\ n \in Nat /\ \A i \in 1..n : B[i] \in E.nodes
      /\ \A i, j \in 1..n : B[i] = B[j] => i = j
      /\ \A v : v \in ToSet(B) <=> \E i \in 1..n : B[i] = v
  BY <1>5, PathIndices
<1>9. m \in 2..n /\ m \in Nat /\ B[m] = c[z] /\ z - a \in 1..(z - a)
  <2>1. z - a \in 1..(z - a) /\ a + (z - a) = z
    BY <1>1, <1>2
  <2>2. n + 1 - (z - a) \in 2..n /\ B[n + 1 - (z - a)] = c[a + (z - a)]
    BY <1>6, <2>1
  <2> QED BY <1>8, <2>1, <2>2
<1>10. At(B, c[z]) = m
  <2>1. At(B, B[m]) = m
    BY <1>5, <1>8, <1>9, AtIndex
  <2> QED BY <1>9, <2>1
<1>11. \A i \in (m + 1)..n : B[i] \in Hidden(c, a, z)
  <2> SUFFICES ASSUME NEW i \in (m + 1)..n PROVE B[i] \in Hidden(c, a, z)
    OBVIOUS
  <2>1. n + 1 - i \in 1..(z - a) /\ n + 1 - (n + 1 - i) = i /\ a + (n + 1 - i) \in (a + 1)..(z - 1)
    BY <1>1, <1>2, <1>8, <1>9
  <2>2. B[n + 1 - (n + 1 - i)] = c[a + (n + 1 - i)]
    BY <1>6, <2>1
  <2> QED BY <2>1, <2>2 DEF Hidden
<1>12. \A i \in 2..(m - 1) : B[i] \notin ToSet(c)
  <2> SUFFICES ASSUME NEW i \in 2..(m - 1), B[i] \in ToSet(c) PROVE FALSE
    OBVIOUS
  <2>1. i \in 1..n /\ 1 \in 1..n
    BY <1>8, <1>9
  <2>2. PICK j \in 1..Len(c) : c[j] = B[i]
    BY <1>1
  <2>3. c[j] \in OnFace(E, f)
    BY <1>5, <1>8, <2>1, <2>2
  <2>4. j \in a..z
    BY <1>2, <2>3
  <2>5. CASE j = a
    <3>1. B[i] = B[1]
      BY <1>5, <2>2, <2>5
    <3>2. i = 1
      BY <1>8, <2>1, <3>1
    <3> QED BY <3>2
  <2>6. CASE j # a
    <3>1. j - a \in 1..(z - a) /\ a + (j - a) = j
      BY <1>1, <1>2, <2>4, <2>6
    <3>2. n + 1 - (j - a) \in 2..n /\ B[n + 1 - (j - a)] = c[j]
      BY <1>6, <3>1
    <3>3. i = n + 1 - (j - a)
      BY <1>8, <2>1, <2>2, <3>2
    <3> QED BY <1>1, <1>2, <1>8, <3>1, <3>3
  <2> QED BY <2>5, <2>6
<1> HIDE DEF n, m
<1>13. P = [i \in 1..m |-> B[i]]
  BY <1>8, <1>9
<1> HIDE DEF P
<1>14. P \in Seq(E.nodes) /\ Len(P) = m
  <2>1. P \in [1..m -> E.nodes]
    BY <1>8, <1>9, <1>13
  <2> QED BY <1>9, <2>1, LenProperties
<1>15. \A i \in 1..m : P[i] = B[i] /\ i \in 1..n
  BY <1>8, <1>9, <1>13
<1>16. P \in Path(E.nodes)
  <2>1. DOMAIN P = 1..m
    BY <1>13
  <2>2. \A i, j \in DOMAIN P : P[i] = P[j] => i = j
    <3> SUFFICES ASSUME NEW i \in 1..m, NEW j \in 1..m, P[i] = P[j] PROVE i = j
      BY <2>1
    <3>1. i \in 1..n /\ j \in 1..n /\ B[i] = B[j]
      BY <1>15
    <3> QED BY <1>8, <3>1
  <2> QED BY <1>14, <2>2 DEF Path
<1>17. \A v : v \in ToSet(P) <=> \E i \in 1..m : P[i] = v
  BY <1>14, <1>16, PathIndices
<1>18. Ends(c, a, z, P)
  <2>1. P[1] = c[a] /\ P[m] = c[z]
    BY <1>5, <1>9, <1>15
  <2>2. a < z /\ m >= 2
    BY <1>2, <1>9, <1>1
  <2> QED BY <1>2, <1>14, <2>1, <2>2 DEF Ends
<1>19. \A j \in 1..(Len(P) - 1) : Entry(E, P[j + 1], P[j], f)
  <2> SUFFICES ASSUME NEW j \in 1..(m - 1) PROVE Entry(E, P[j + 1], P[j], f)
    BY <1>14
  <2>1. j \in 1..m /\ j + 1 \in 1..m /\ j \in 1..(n - 1)
    BY <1>8, <1>9
  <2> QED BY <1>5, <1>15, <2>1 DEF n
<1>20. InnerOf(P) \cap ToSet(c) = {}
  <2> SUFFICES ASSUME NEW j \in 2..(m - 1) PROVE P[j] \notin ToSet(c)
    BY <1>14 DEF InnerOf
  <2>1. j \in 1..m
    BY <1>9
  <2> QED BY <1>12, <1>15, <2>1
<1>21. ToSet(P) \subseteq OnFace(E, f)
  <2> SUFFICES ASSUME NEW v \in ToSet(P) PROVE v \in OnFace(E, f)
    OBVIOUS
  <2>1. PICK i \in 1..m : P[i] = v
    BY <1>17
  <2> QED BY <1>5, <1>8, <1>15, <2>1
<1>22. OnFace(E, f) \subseteq ToSet(P) \cup Hidden(c, a, z)
  <2> SUFFICES ASSUME NEW v \in OnFace(E, f) PROVE v \in ToSet(P) \/ v \in Hidden(c, a, z)
    OBVIOUS
  <2>1. PICK i \in 1..n : B[i] = v
    BY <1>5, <1>8
  <2>2. CASE i \in 1..m
    BY <1>15, <1>17, <2>1, <2>2
  <2>3. CASE i \in (m + 1)..n
    BY <1>11, <2>1, <2>3
  <2> QED BY <1>8, <1>9, <2>2, <2>3
<1>23. BackTo(f, c[a], c[z]) = P
  BY <1>7, <1>10 DEF P
<1> QED BY <1>16, <1>18, <1>19, <1>20, <1>21, <1>22, <1>23 DEF FacePath

(* The only face inside the contour that the run meets is f.               *)
LEMMA RunMeetsOne ==
  ASSUME NEW g, IsEmbedding(g), NEW b, NEW c, NEW R, ContourShape(g, b, c, R), NEW f, NEW a, NEW z,
         FaceRun(g, c, R, f, a, z), NEW h \in Whole(g, R), NEW v \in Hidden(c, a, z), v \in OnFace(g, h)
  PROVE  h = f
<1>1. PICK i \in (a + 1)..(z - 1) : v = c[i]
  BY DEF Hidden
<1>2. /\ i \in 2..(Len(c) - 1) /\ c[i] \in g.nodes
      /\ Around(g, c[i]) \ R = {c[i - 1], c[i + 1]} /\ c[i - 1] # c[i + 1]
      /\ Entry(g, c[i - 1], c[i], f) /\ Entry(g, c[i], c[i + 1], f)
  BY RunInner
<1>3. h \in DOMAIN g.faces /\ OnFace(g, h) \cap R = {}
  BY DEF Whole
<1>4. PICK x : Entry(g, v, x, h)
  BY <1>3, FaceEntries
<1>5. PICK y : Entry(g, y, v, h)
  BY <1>3, FaceEntries
<1>6. x \in {c[i - 1], c[i + 1]} /\ y \in {c[i - 1], c[i + 1]}
  <2>1. x \in Around(g, v) /\ y \in Around(g, v) /\ x \in OnFace(g, h) /\ y \in OnFace(g, h)
    BY <1>4, <1>5, EntryFacts
  <2> QED BY <1>1, <1>2, <1>3, <2>1
<1>7. CASE x = c[i + 1]
  BY <1>1, <1>2, <1>4, <1>7, EntryFacts
<1>8. CASE y = c[i - 1]
  BY <1>1, <1>2, <1>5, <1>8, EntryFacts
<1>9. CASE y = c[i + 1]
  <2>1. i \in 1..(Len(c) - 1)
    BY <1>2
  <2>2. EdgeShape(g, R, c[i], c[i + 1])
    BY <2>1 DEF ContourShape
  <2>3. h \notin Whole(g, R)
    BY <1>1, <1>5, <1>9, <2>2 DEF EdgeShape
  <2> QED BY <2>3
<1> QED BY <1>6, <1>7, <1>8, <1>9

(* A node that is left and not in the run has none of it around it, but    *)
(* for the two ends.                                                       *)
LEMMA RunNeighbours ==
  ASSUME NEW g, IsEmbedding(g), NEW b, NEW c, NEW R, ContourShape(g, b, c, R), NEW f, NEW a, NEW z,
         FaceRun(g, c, R, f, a, z), NEW v \in g.nodes \ R, v \notin Hidden(c, a, z)
  PROVE  /\ v # c[a] /\ v # c[z] => Around(g, v) \cap Hidden(c, a, z) = {}
         /\ v = c[a] => Around(g, v) \cap Hidden(c, a, z) = {c[a + 1]}
         /\ v = c[z] => Around(g, v) \cap Hidden(c, a, z) = {c[z - 1]}
<1>1. /\ Len(c) \in Nat
      /\ \A i, j \in 1..Len(c) : c[i] = c[j] => i = j
  BY ContourIndices
<1>2. /\ a \in 1..Len(c) /\ z \in 1..Len(c) /\ a + 2 <= z
      /\ \A i \in a..(z - 1) : Entry(g, c[i], c[i + 1], f)
  BY DEF FaceRun
<1>3. ASSUME NEW w \in Around(g, v), w \in Hidden(c, a, z)
      PROVE  (v = c[a] /\ w = c[a + 1]) \/ (v = c[z] /\ w = c[z - 1])
  <2>1. PICK i \in (a + 1)..(z - 1) : w = c[i]
    BY <1>3 DEF Hidden
  <2>2. Around(g, c[i]) \ R = {c[i - 1], c[i + 1]}
    BY RunInner
  <2>3. v \in Around(g, w)
    BY AroundEntry
  <2>4. v = c[i - 1] \/ v = c[i + 1]
    BY <2>1, <2>2, <2>3
  <2>5. CASE v = c[i - 1]
    <3>1. i - 1 \notin (a + 1)..(z - 1)
      BY <2>5 DEF Hidden
    <3>2. i = a + 1 /\ i - 1 = a
      BY <1>1, <1>2, <3>1
    <3> QED BY <2>1, <2>5, <3>2
  <2>6. CASE v = c[i + 1]
    <3>1. i + 1 \notin (a + 1)..(z - 1)
      BY <2>6 DEF Hidden
    <3>2. i = z - 1 /\ i + 1 = z
      BY <1>1, <1>2, <3>1
    <3> QED BY <2>1, <2>6, <3>2
  <2> QED BY <2>4, <2>5, <2>6
<1>4. c[a + 1] \in Hidden(c, a, z) /\ c[z - 1] \in Hidden(c, a, z)
  <2>1. a + 1 \in (a + 1)..(z - 1) /\ z - 1 \in (a + 1)..(z - 1)
    BY <1>1, <1>2
  <2> QED BY <2>1 DEF Hidden
<1>5. c[a + 1] \in Around(g, c[a]) /\ c[z - 1] \in Around(g, c[z])
  <2>1. a \in a..(z - 1) /\ z - 1 \in a..(z - 1) /\ (z - 1) + 1 = z
    BY <1>1, <1>2
  <2>2. Entry(g, c[a], c[a + 1], f) /\ Entry(g, c[z - 1], c[z], f)
    <3>1. Entry(g, c[z - 1], c[(z - 1) + 1], f)
      BY <1>2, <2>1
    <3> QED BY <1>2, <2>1, <3>1
  <2> QED BY <2>2, EntryFacts
<1>6. c[a] # c[z]
  BY <1>1, <1>2
<1>7. v # c[a] /\ v # c[z] => Around(g, v) \cap Hidden(c, a, z) = {}
  BY <1>3
<1>8. v = c[a] => Around(g, v) \cap Hidden(c, a, z) = {c[a + 1]}
  BY <1>3, <1>4, <1>5, <1>6
<1>9. v = c[z] => Around(g, v) \cap Hidden(c, a, z) = {c[z - 1]}
  BY <1>3, <1>4, <1>5, <1>6
<1> QED BY <1>7, <1>8, <1>9

LEMMA RunSwept ==
  ASSUME NEW g, IsEmbedding(g), NEW b, NEW c, NEW R, ContourShape(g, b, c, R), NEW f, NEW a, NEW z,
         FaceRun(g, c, R, f, a, z), NEW P, FacePath(g, c, f, a, z, P)
  PROVE  Swept(g, c, R, Hidden(c, a, z), a, z, P)
<1> DEFINE D == Hidden(c, a, z)
<1>1. /\ Len(c) \in Nat /\ \A i \in 1..Len(c) : c[i] \in g.nodes /\ c[i] \notin R /\ c[i] \in ToSet(c)
      /\ \A i, j \in 1..Len(c) : c[i] = c[j] => i = j
  BY ContourIndices
<1>2. /\ a \in 1..Len(c) /\ z \in 1..Len(c) /\ a + 2 <= z /\ f \in Whole(g, R)
      /\ \A i \in 1..Len(c) : c[i] \in OnFace(g, f) <=> i \in a..z
      /\ \A i \in a..(z - 1) : Entry(g, c[i], c[i + 1], f)
  BY DEF FaceRun
<1>3. f \in DOMAIN g.faces /\ OnFace(g, f) \cap R = {}
  BY <1>2 DEF Whole
<1>4. /\ P \in Path(g.nodes) /\ Ends(c, a, z, P)
      /\ \A j \in 1..(Len(P) - 1) : Entry(g, P[j + 1], P[j], f)
      /\ InnerOf(P) \cap ToSet(c) = {} /\ ToSet(P) \subseteq OnFace(g, f)
      /\ OnFace(g, f) \subseteq ToSet(P) \cup D
  BY DEF FacePath
<1>5. Len(P) \in Nat /\ Len(P) >= 2 /\ P[1] = c[a] /\ P[Len(P)] = c[z]
  BY <1>4, PathIndices DEF Ends
<1>6. \A v : v \in ToSet(P) <=> \E j \in 1..Len(P) : P[j] = v
  BY <1>4, PathIndices
<1>7. InnerOf(P) \cap R = {}
  <2>1. \A j \in 2..(Len(P) - 1) : P[j] \in ToSet(P)
    BY <1>5, <1>6
  <2> QED BY <1>3, <1>4, <2>1 DEF InnerOf
<1>8. \A i \in (a + 1)..(z - 1) : c[i] \in D /\ i \in 1..Len(c)
  BY <1>1, <1>2 DEF Hidden
<1>9. c[a + 1] \in D \cap OnFace(g, f) /\ c[z - 1] \in D
  <2>1. a + 1 \in (a + 1)..(z - 1) /\ z - 1 \in (a + 1)..(z - 1) /\ a + 1 \in a..z
    BY <1>1, <1>2
  <2> QED BY <1>2, <1>8, <2>1
<1>10. Entry(g, c[a], c[a + 1], f) /\ Entry(g, c[z - 1], c[z], f)
  <2>1. a \in a..(z - 1) /\ z - 1 \in a..(z - 1) /\ (z - 1) + 1 = z
    BY <1>1, <1>2
  <2>2. Entry(g, c[z - 1], c[(z - 1) + 1], f)
    BY <1>2, <2>1
  <2> QED BY <1>2, <2>1, <2>2
<1>11. \A j \in 1..(Len(P) - 1) :
         \E h \in DOMAIN g.faces : Entry(g, P[j + 1], P[j], h) /\ OnFace(g, h) \cap D # {}
  BY <1>3, <1>4, <1>9
<1>12. ASSUME NEW h \in Whole(g, R), OnFace(g, h) \cap D # {}
       PROVE  /\ OnFace(g, h) \subseteq ToSet(P) \cup D
              /\ \A j \in 1..Len(P) : \A w : Entry(g, w, P[j], h) =>
                   w \in D \/ (j < Len(P) /\ w = P[j + 1])
  <2>1. h = f
    BY <1>12, RunMeetsOne
  <2>2. ASSUME NEW j \in 1..Len(P), NEW w, Entry(g, w, P[j], f)
        PROVE  w \in D \/ (j < Len(P) /\ w = P[j + 1])
    <3>1. P[j] \in OnFace(g, f)
      BY <1>4, <1>6
    <3>2. \A x : Entry(g, x, P[j], f) => x = w
      BY <1>3, <2>2, <3>1, FaceEntries
    <3>3. CASE j = Len(P)
      BY <1>5, <1>9, <1>10, <3>2, <3>3
    <3>4. CASE j # Len(P)
      <4>1. j \in 1..(Len(P) - 1) /\ j < Len(P)
        BY <1>5, <3>4
      <4> QED BY <1>4, <3>2, <4>1
    <3> QED BY <3>3, <3>4
  <2> QED BY <1>4, <2>1, <2>2
<1>13. ASSUME NEW v \in D PROVE Around(g, v) \subseteq R \cup ToSet(P) \cup D
  <2>1. PICK i \in (a + 1)..(z - 1) : v = c[i]
    BY DEF Hidden
  <2>2. Around(g, c[i]) \ R = {c[i - 1], c[i + 1]}
    BY RunInner
  <2>3. c[a] \in ToSet(P) /\ c[z] \in ToSet(P)
    <3>1. 1 \in 1..Len(P) /\ Len(P) \in 1..Len(P)
      BY <1>5
    <3> QED BY <1>5, <1>6, <3>1
  <2>4. c[i - 1] \in D \cup ToSet(P)
    <3>1. i - 1 \in (a + 1)..(z - 1) \/ i - 1 = a
      BY <1>1, <1>2
    <3> QED BY <1>8, <2>3, <3>1
  <2>5. c[i + 1] \in D \cup ToSet(P)
    <3>1. i + 1 \in (a + 1)..(z - 1) \/ i + 1 = z
      BY <1>1, <1>2
    <3> QED BY <1>8, <2>3, <3>1
  <2> QED BY <2>1, <2>2, <2>4, <2>5
<1>14. \A i \in 1..Len(c) : c[i] \in D => i \in (a + 1)..(z - 1)
  <2> SUFFICES ASSUME NEW i \in 1..Len(c), c[i] \in D PROVE i \in (a + 1)..(z - 1)
    OBVIOUS
  <2>1. PICK j \in (a + 1)..(z - 1) : c[i] = c[j]
    BY DEF Hidden
  <2> QED BY <1>1, <1>8, <2>1
<1>15. c[a] \in g.nodes \ R /\ c[a] \notin D /\ c[z] \in g.nodes \ R /\ c[z] \notin D
  <2>1. a \notin (a + 1)..(z - 1) /\ z \notin (a + 1)..(z - 1)
    BY <1>1, <1>2
  <2> QED BY <1>1, <1>2, <1>14, <2>1
<1>16. Around(g, c[a]) \cap D = {c[a + 1]} /\ Around(g, c[z]) \cap D = {c[z - 1]}
  BY <1>15, RunNeighbours
<1>17. Beside(g, c[a], P[2], c[a + 1])
  <2>1. 1 \in 1..(Len(P) - 1) /\ 1 + 1 = 2
    BY <1>5
  <2>2. Entry(g, P[1 + 1], P[1], f)
    BY <1>4, <2>1
  <2> QED BY <1>5, <1>10, <2>1, <2>2 DEF Beside
<1>18. Beside(g, c[z], c[z - 1], P[Len(P) - 1])
  <2>1. Len(P) - 1 \in 1..(Len(P) - 1) /\ (Len(P) - 1) + 1 = Len(P)
    BY <1>5
  <2>2. Entry(g, P[(Len(P) - 1) + 1], P[Len(P) - 1], f)
    BY <1>4, <2>1
  <2> QED BY <1>5, <1>10, <2>1, <2>2 DEF Beside
<1>19. ASSUME NEW j \in 2..(Len(P) - 1) PROVE Corner(g, D, P[j - 1], P[j], P[j + 1])
  <2>1. j \in 1..Len(P) /\ j \in 1..(Len(P) - 1) /\ j - 1 \in 1..(Len(P) - 1) /\ (j - 1) + 1 = j
    BY <1>5
  <2>2. Entry(g, P[j + 1], P[j], f) /\ Entry(g, P[j], P[j - 1], f)
    <3>1. Entry(g, P[(j - 1) + 1], P[j - 1], f)
      BY <1>4, <2>1
    <3> QED BY <1>4, <2>1, <3>1
  <2>3. P[j] \in InnerOf(P)
    BY DEF InnerOf
  <2>4. P[j] \notin ToSet(c) /\ P[j] \notin R /\ P[j] \in g.nodes
    BY <1>4, <1>7, <2>2, <2>3, EntryFacts
  <2>5. P[j] \notin D /\ P[j] # c[a] /\ P[j] # c[z]
    BY <1>1, <1>2, <1>8, <2>4 DEF Hidden
  <2>6. Around(g, P[j]) \cap D = {}
    BY <2>4, <2>5, RunNeighbours
  <2>7. Beside(g, P[j], P[j + 1], P[j - 1])
    BY <2>2 DEF Beside
  <2> QED BY <2>6, <2>7 DEF Corner
<1> QED BY <1>4, <1>7, <1>11, <1>12, <1>13, <1>16, <1>17, <1>18, <1>19 DEF Swept

LEMMA RunGrows ==
  ASSUME IsEmbedding(E), BaseShape(E, base), NEW c, NEW R, ContourShape(E, base, c, R),
         NEW f, NEW a, NEW z, FaceRun(E, c, R, f, a, z), NEW P, P = BackTo(f, c[a], c[z])
  PROVE  Grown(E, base, c, R, Hidden(c, a, z), a, z, P, SpliceOf(c, P))
<1>1. FacePath(E, c, f, a, z, P)
  BY RunPath
<1>2. Swept(E, c, R, Hidden(c, a, z), a, z, P)
  BY <1>1, RunSwept
<1>3. Hidden(c, a, z) \cap ToSet(base) = {}
  <2>1. \A i \in (a + 1)..(z - 1) : c[i] \notin ToSet(base)
    BY RunOffBase
  <2> QED BY <2>1 DEF Hidden
<1> QED BY <1>2, <1>3 DEF Grown

(* edgeToContour along a path links its nodes.                             *)
LinkAt(g, t, v, w) == Beside(g, v, t.nextSucc[v], w) /\ Beside(g, w, v, t.prevPred[w])
LinksOn(g, t, c) == \A i \in 1..(Len(c) - 1) : LinkAt(g, t, c[i], c[i + 1])

ExceptLast(P, v) == \E j \in 1..(Len(P) - 1) : P[j] = v
ExceptFirst(P, v) == \E j \in 2..Len(P) : P[j] = v

LEMMA FrontAndTail ==
  ASSUME NEW V, NEW P \in Path(V), Len(P) >= 2
  PROVE  /\ \A v : Contains(Front(P), v) <=> ExceptLast(P, v)
         /\ \A v : v \in ToSet(Front(P)) <=> ExceptLast(P, v)
         /\ \A v : Contains(Tail(P), v) <=> ExceptFirst(P, v)
<1> DEFINE m == Len(P)
           F == Front(P)
           N == Tail(P)
<1>1. m \in Nat /\ P \in Seq(V) /\ (\A i \in 1..m : P[i] \in V)
  BY PathIndices
<1>2. F \in Seq(V) /\ Len(F) = m - 1 /\ \A i \in 1..(m - 1) : F[i] = P[i]
  <2>1. F = SubSeq(P, 1, m - 1)
    BY DEF Front
  <2>2. \A i \in 1..(m - 1) : P[i] \in V
    BY <1>1
  <2> HIDE DEF F, m
  <2>3. m \in Nat /\ m - 1 \in Int /\ 1 \in Int /\ m >= 2
    BY <1>1 DEF m
  <2>4. /\ SubSeq(P, 1, m - 1) \in Seq(V)
        /\ Len(SubSeq(P, 1, m - 1)) = IF 1 <= m - 1 THEN (m - 1) - 1 + 1 ELSE 0
        /\ \A i \in 1..((m - 1) - 1 + 1) : SubSeq(P, 1, m - 1)[i] = P[1 + i - 1]
    BY <2>2, <2>3, SubSeqProperties
  <2>5. \A i \in 1..(m - 1) : i \in 1..((m - 1) - 1 + 1) /\ 1 + i - 1 = i
    BY <2>3
  <2>6. \A i \in 1..(m - 1) : SubSeq(P, 1, m - 1)[i] = P[i]
    BY <2>4, <2>5
  <2>7. Len(SubSeq(P, 1, m - 1)) = m - 1
    BY <2>3, <2>4
  <2> QED BY <2>1, <2>4, <2>6, <2>7
<1> HIDE DEF F
<1>3. N \in Seq(V) /\ Len(N) = m - 1 /\ \A i \in 1..(m - 1) : N[i] = P[i + 1]
  <2>1. P # << >>
    BY <1>1
  <2> HIDE DEF N
  <2>2. /\ Tail(P) \in Seq(V) /\ Len(Tail(P)) = m - 1
        /\ \A i \in 1..Len(Tail(P)) : Tail(P)[i] = P[i + 1]
    BY <1>1, <2>1, HeadTailProperties
  <2> QED BY <2>2 DEF N
<1> HIDE DEF N
<1>4. \A v : Contains(F, v) <=> ExceptLast(P, v)
  <2> SUFFICES ASSUME NEW v PROVE Contains(F, v) <=> ExceptLast(P, v)
    OBVIOUS
  <2>1. Contains(F, v) <=> \E i \in 1..(m - 1) : F[i] = v
    BY <1>2 DEF Contains
  <2> QED BY <1>2, <2>1 DEF ExceptLast
<1>5. \A v : v \in ToSet(F) <=> ExceptLast(P, v)
  <2> SUFFICES ASSUME NEW v PROVE v \in ToSet(F) <=> ExceptLast(P, v)
    OBVIOUS
  <2>1. DOMAIN F = 1..(m - 1)
    BY <1>2, LenProperties
  <2>2. v \in ToSet(F) <=> \E i \in 1..(m - 1) : F[i] = v
    BY <2>1 DEF ToSet
  <2> QED BY <1>2, <2>2 DEF ExceptLast
<1>6. \A v : Contains(N, v) <=> ExceptFirst(P, v)
  <2> SUFFICES ASSUME NEW v PROVE Contains(N, v) <=> ExceptFirst(P, v)
    OBVIOUS
  <2>1. Contains(N, v) <=> \E i \in 1..(m - 1) : N[i] = v
    BY <1>3 DEF Contains
  <2>2. \A i \in 1..(m - 1) : i + 1 \in 2..m
    BY <1>1
  <2>3. \A j \in 2..m : j - 1 \in 1..(m - 1) /\ (j - 1) + 1 = j
    BY <1>1
  <2>4. ASSUME NEW j \in 2..m, P[j] = v PROVE \E i \in 1..(m - 1) : N[i] = v
    <3>1. N[j - 1] = P[(j - 1) + 1]
      BY <1>3, <2>3
    <3> QED BY <2>3, <2>4, <3>1
  <2> QED BY <1>3, <2>1, <2>2, <2>4 DEF ExceptFirst
<1> QED BY <1>4, <1>5, <1>6 DEF F, N

OnlyLinks(t, u) ==
  /\ u.contour = t.contour /\ u.deg = t.deg /\ u.cutf = t.cutf /\ u.numsf = t.numsf
  /\ u.onOuter = t.onOuter /\ u.outv = t.outv /\ u.oute = t.oute /\ u.seqp = t.seqp
  /\ u.virtSrc = t.virtSrc /\ u.isSf = t.isSf /\ u.outer = t.outer /\ u.inF = t.inF
  /\ u.updF = t.updF /\ u.updV = t.updV
  /\ u.possF = t.possF /\ u.possV = t.possV /\ u.possE = t.possE
  /\ u.fLink = t.fLink /\ u.vLink = t.vLink /\ u.eLink = t.eLink
  /\ u.dangling = t.dangling

EdgesStep(g, t, P, u) ==
  /\ IsState(g, u) /\ OnlyLinks(t, u) /\ u.virt \subseteq t.virt
  /\ \A j \in 1..(Len(P) - 1) : u.virt \cap {P[j]} = {}
  /\ \A v \in g.nodes : ~ ExceptLast(P, v) => u.nextSucc[v] = t.nextSucc[v]
  /\ \A v \in g.nodes : ~ ExceptFirst(P, v) => u.prevPred[v] = t.prevPred[v]
  /\ LinksOn(g, u, P)

LEMMA PathEdges ==
  ASSUME IsEmbedding(E), NEW t, IsState(E, t), NEW P \in Path(E.nodes), Len(P) >= 2,
         \A j \in 1..(Len(P) - 1) : P[j + 1] \in Around(E, P[j])
  PROVE  EdgesStep(E, t, P, EdgesToContour(t, P))
<1> DEFINE u == EdgesToContour(t, P)
           NS == [v \in Nodes |-> IF Contains(Front(P), v)
                                  THEN cyclicSucc(v, P[At(P, v) + 1]) ELSE t.nextSucc[v]]
           PP == [v \in Nodes |-> IF Contains(Tail(P), v)
                                  THEN cyclicPred(v, P[At(P, v) - 1]) ELSE t.prevPred[v]]
           VV == t.virt \ ToSet(Front(P))
<1>1. u = [t EXCEPT !.nextSucc = NS, !.prevPred = PP, !.virt = VV]
  BY Zenon DEF EdgesToContour
<1>2. Nodes = E.nodes
  BY DEF Nodes
<1>3. /\ Len(P) \in Nat /\ \A j \in 1..Len(P) : P[j] \in E.nodes /\ At(P, P[j]) = j
  BY PathIndices, AtIndex
<1>4. /\ \A v : Contains(Front(P), v) <=> ExceptLast(P, v)
      /\ \A v : v \in ToSet(Front(P)) <=> ExceptLast(P, v)
      /\ \A v : Contains(Tail(P), v) <=> ExceptFirst(P, v)
  BY FrontAndTail
<1>5. ASSUME NEW v \in E.nodes
      PROVE  /\ ~ ExceptLast(P, v) => NS[v] = t.nextSucc[v]
             /\ ~ ExceptFirst(P, v) => PP[v] = t.prevPred[v]
  BY <1>2, <1>4
<1>6. ASSUME NEW j \in 1..(Len(P) - 1)
      PROVE  /\ NS[P[j]] = cyclicSucc(P[j], P[j + 1])
             /\ PP[P[j + 1]] = cyclicPred(P[j + 1], P[j])
  <2>1. j \in 1..Len(P) /\ j + 1 \in 1..Len(P) /\ j + 1 \in 2..Len(P) /\ (j + 1) - 1 = j
    BY <1>3
  <2>2. ExceptLast(P, P[j]) /\ ExceptFirst(P, P[j + 1])
    BY <2>1 DEF ExceptLast, ExceptFirst
  <2>3. Contains(Front(P), P[j]) /\ Contains(Tail(P), P[j + 1])
    BY <1>4, <2>2
  <2>4. P[j] \in Nodes /\ P[j + 1] \in Nodes /\ At(P, P[j]) = j /\ At(P, P[j + 1]) = j + 1
    BY <1>2, <1>3, <2>1
  <2>5. NS[P[j]] = cyclicSucc(P[j], P[At(P, P[j]) + 1])
    BY <2>3, <2>4
  <2>6. PP[P[j + 1]] = cyclicPred(P[j + 1], P[At(P, P[j + 1]) - 1])
    BY <2>3, <2>4
  <2> QED BY <2>1, <2>4, <2>5, <2>6
<1>7. DOMAIN NS = E.nodes /\ DOMAIN PP = E.nodes /\ DOMAIN t = Fields
  BY <1>2 DEF IsState
<1>8. VV \subseteq t.virt /\ \A j \in 1..(Len(P) - 1) : VV \cap {P[j]} = {}
  BY <1>4 DEF ExceptLast
<1> HIDE DEF NS, PP, VV, u
<1>9. /\ OnlyLinks(t, u) /\ u.nextSucc = NS /\ u.prevPred = PP /\ u.virt = VV /\ DOMAIN u = Fields
  BY <1>1, <1>7 DEF Fields, OnlyLinks
<1>10. ASSUME NEW j \in 1..(Len(P) - 1)
       PROVE  Beside(E, P[j], NS[P[j]], P[j + 1]) /\ Beside(E, P[j + 1], P[j], PP[P[j + 1]])
  <2>1. P[j + 1] \in Around(E, P[j])
    OBVIOUS
  <2>2. P[j] \in Around(E, P[j + 1])
    BY <2>1, AroundEntry
  <2>3. Beside(E, P[j], cyclicSucc(P[j], P[j + 1]), P[j + 1])
    BY <2>1, CyclicIsBeside
  <2>4. Beside(E, P[j + 1], P[j], cyclicPred(P[j + 1], P[j]))
    BY <2>2, CyclicIsBeside
  <2> QED BY <1>6, <2>3, <2>4
<1>11. LinksOn(E, u, P)
  BY <1>9, <1>10 DEF LinksOn, LinkAt
<1>12. \A v \in E.nodes : v \in Int
  BY AroundNodes
<1>13. \A v, w, x : Beside(E, v, w, x) => w \in E.nodes /\ x \in E.nodes
  BY BesideUnique, AroundNodes
<1>14. NS \in [E.nodes -> Int]
  <2>1. \A v \in E.nodes : t.nextSucc[v] \in Int
    BY DEF IsState
  <2>2. ASSUME NEW v \in E.nodes PROVE NS[v] \in Int
    <3>1. CASE ExceptLast(P, v)
      <4>1. PICK j \in 1..(Len(P) - 1) : P[j] = v
        BY <3>1 DEF ExceptLast
      <4> QED BY <1>10, <1>12, <1>13, <4>1
    <3>2. CASE ~ ExceptLast(P, v)
      BY <1>5, <2>1, <3>2
    <3> QED BY <3>1, <3>2
  <2>3. NS = [v \in E.nodes |-> NS[v]]
    BY <1>2 DEF NS
  <2> QED BY <2>2, <2>3
<1>15. PP \in [E.nodes -> Int]
  <2>1. \A v \in E.nodes : t.prevPred[v] \in Int
    BY DEF IsState
  <2>2. ASSUME NEW v \in E.nodes PROVE PP[v] \in Int
    <3>1. CASE ExceptFirst(P, v)
      <4>1. PICK j \in 2..Len(P) : P[j] = v
        BY <3>1 DEF ExceptFirst
      <4>2. j - 1 \in 1..(Len(P) - 1) /\ (j - 1) + 1 = j
        BY <1>3
      <4>3. Beside(E, P[(j - 1) + 1], P[j - 1], PP[P[(j - 1) + 1]])
        BY <1>10, <4>2
      <4> QED BY <1>12, <1>13, <4>1, <4>2, <4>3
    <3>2. CASE ~ ExceptFirst(P, v)
      BY <1>5, <2>1, <3>2
    <3> QED BY <3>1, <3>2
  <2>3. PP = [v \in E.nodes |-> PP[v]]
    BY <1>2 DEF PP
  <2> QED BY <2>2, <2>3
<1>16. IsState(E, u)
  BY <1>9, <1>14, <1>15 DEF IsState, OnlyLinks
<1> QED BY <1>5, <1>8, <1>9, <1>11, <1>16 DEF EdgesStep, u

(* The links of the new contour: those of the path and those beside it.    *)
LinksOff(g, t, c, a, z) ==
  \A i \in 1..(Len(c) - 1) : i < a \/ i >= z => LinkAt(g, t, c[i], c[i + 1])

LEMMA SpliceLinks ==
  ASSUME NEW V, NEW c \in Path(V), NEW P \in Path(V), NEW a, NEW z, Ends(c, a, z, P),
         NEW d, Splice(c, a, z, P, d), NEW g, NEW t, LinksOn(g, t, P), LinksOff(g, t, c, a, z)
  PROVE  LinksOn(g, t, d)
<1>1. /\ a \in 1..Len(c) /\ z \in 1..Len(c) /\ a < z /\ Len(P) >= 2 /\ P[1] = c[a] /\ P[Len(P)] = c[z]
  BY DEF Ends
<1>2. Len(c) \in Nat /\ Len(P) \in Nat
  BY PathIndices
<1>3. /\ Len(d) = a + Len(P) - 1 + (Len(c) - z)
      /\ \A i \in 1..a : d[i] = c[i]
      /\ \A j \in 1..Len(P) : d[a + j - 1] = P[j]
      /\ \A i \in z..Len(c) : d[i - z + a + Len(P) - 1] = c[i]
  BY DEF Splice
<1>4. SUFFICES ASSUME NEW k \in 1..(Len(d) - 1) PROVE LinkAt(g, t, d[k], d[k + 1])
  BY DEF LinksOn
<1> DEFINE q == Len(c)
           m == Len(P)
<1>5. /\ \A i \in 1..(a - 1) : LinkAt(g, t, c[i], c[i + 1])
      /\ \A i \in z..(Len(c) - 1) : LinkAt(g, t, c[i], c[i + 1])
  BY <1>1, <1>2 DEF LinksOff
<1> HIDE DEF q, m
<1>6. CASE k < a
  <2>1. k \in 1..(a - 1) /\ k \in 1..a /\ k + 1 \in 1..a
    BY <1>1, <1>2, <1>6
  <2> QED BY <1>3, <1>5, <2>1
<1>7. CASE a <= k /\ k < a + m - 1
  <2> DEFINE j == k - a + 1
  <2>1. j \in 1..(m - 1) /\ j \in 1..m /\ j + 1 \in 1..m /\ a + j - 1 = k /\ a + (j + 1) - 1 = k + 1
    BY <1>1, <1>2, <1>3, <1>7 DEF q, m
  <2> HIDE DEF j
  <2>2. d[k] = P[j] /\ d[k + 1] = P[j + 1]
    BY <1>3, <2>1 DEF m
  <2>3. LinkAt(g, t, P[j], P[j + 1])
    BY <2>1 DEF LinksOn, m
  <2> QED BY <2>2, <2>3
<1>8. CASE k >= a + m - 1
  <2> DEFINE i == k - (a + m - 1) + z
  <2>1. /\ i \in z..(q - 1) /\ i \in z..q /\ i + 1 \in z..q
        /\ i - z + a + m - 1 = k /\ (i + 1) - z + a + m - 1 = k + 1
    BY <1>1, <1>2, <1>3, <1>8 DEF q, m
  <2> HIDE DEF i
  <2>2. d[k] = c[i] /\ d[k + 1] = c[i + 1]
    BY <1>3, <2>1 DEF m, q
  <2> QED BY <1>5, <2>1, <2>2 DEF q
<1> QED BY <1>1, <1>2, <1>6, <1>7, <1>8 DEF q, m

(* A face that is not cut: s, when f gives way to P and nothing is counted. *)
FaceGone(cl, cr, P) ==
  [s EXCEPT
    !.cutf[cl] = @, !.cutf[cr] = @, !.possE = s.possE, !.eLink = s.eLink, !.dangling = s.dangling \/ FALSE,
    !.onOuter = @ \cup ToSet(P),
    !.deg[cl] = @ - 1, !.deg[cr] = @ - 1,
    !.updV = @ \cup ToSet(P)]

FaceFound(f, cl, cr, P) ==
  [PathToContour(EdgesToContour(FaceGone(cl, cr, P), P), P) EXCEPT
     !.virtSrc[f] = None, !.outer[f] = [v \in Nodes |-> 0]]

LEMMA TakeFaceIs ==
  ASSUME NEW f, NEW cl, NEW cr, NEW P
  PROVE  TakeFace(f, cl, cr, P, None) = FaceFound(f, cl, cr, P)
<1> DEFINE cut == None # None
           unlinks == cut /\ None # cr
           taken == [s EXCEPT
             !.cutf[cl] = IF cut THEN @ - 1 ELSE @, !.cutf[cr] = IF cut THEN @ - 1 ELSE @,
             !.possE = IF unlinks THEN @ \ {None} ELSE @,
             !.eLink = IF unlinks THEN @ \ {None} ELSE @,
             !.dangling = @ \/ (unlinks /\ None \notin s.eLink),
             !.onOuter = @ \cup ToSet(P),
             !.deg[cl] = @ - 1, !.deg[cr] = @ - 1,
             !.updV = @ \cup ToSet(P)]
<1>1. TakeFace(f, cl, cr, P, None) =
        [PathToContour(EdgesToContour(taken, P), P) EXCEPT
           !.virtSrc[f] = None, !.outer[f] = [v \in Nodes |-> 0]]
  BY Zenon DEF TakeFace
<1>2. ~ cut /\ ~ unlinks
  OBVIOUS
<1>3. taken = FaceGone(cl, cr, P)
  <2> HIDE DEF cut
  <2> QED BY <1>2 DEF FaceGone
<1> HIDE DEF taken
<1> QED BY <1>1, <1>3, Zenon DEF FaceFound

GoneFields(g, t, cl, cr, P, u) ==
  /\ IsState(g, u)
  /\ u.contour = t.contour /\ u.nextSucc = t.nextSucc /\ u.prevPred = t.prevPred
  /\ u.virt = t.virt /\ u.cutf = t.cutf /\ u.numsf = t.numsf
  /\ u.outv = t.outv /\ u.oute = t.oute /\ u.seqp = t.seqp
  /\ u.virtSrc = t.virtSrc /\ u.isSf = t.isSf /\ u.outer = t.outer /\ u.inF = t.inF
  /\ u.updF = t.updF
  /\ u.possF = t.possF /\ u.possV = t.possV /\ u.possE = t.possE
  /\ u.fLink = t.fLink /\ u.vLink = t.vLink /\ u.eLink = t.eLink
  /\ u.dangling = t.dangling
  /\ u.onOuter = t.onOuter \cup ToSet(P) /\ u.updV = t.updV \cup ToSet(P)
  /\ \A v \in g.nodes : u.deg[v] = t.deg[v] - IF v \in {cl, cr} THEN 1 ELSE 0

LEMMA FaceGoneFields ==
  ASSUME IsState(E, s), s.dangling = FALSE, NEW P, ToSet(P) \subseteq E.nodes,
         NEW cl \in E.nodes, NEW cr \in E.nodes, cl # cr
  PROVE  GoneFields(E, s, cl, cr, P, FaceGone(cl, cr, P))
<1> DEFINE u == FaceGone(cl, cr, P)
           on == s.onOuter \cup ToSet(P)
           up == s.updV \cup ToSet(P)
<1>1. DOMAIN s = Fields /\ s.onOuter \subseteq E.nodes
  BY DEF IsState
<1>2. /\ DOMAIN u = Fields
      /\ u.contour = s.contour /\ u.nextSucc = s.nextSucc /\ u.prevPred = s.prevPred
      /\ u.virt = s.virt /\ u.numsf = s.numsf
      /\ u.outv = s.outv /\ u.oute = s.oute /\ u.seqp = s.seqp
      /\ u.virtSrc = s.virtSrc /\ u.isSf = s.isSf /\ u.outer = s.outer /\ u.inF = s.inF
      /\ u.updF = s.updF
      /\ u.possF = s.possF /\ u.possV = s.possV /\ u.possE = s.possE
      /\ u.fLink = s.fLink /\ u.vLink = s.vLink /\ u.eLink = s.eLink
      /\ u.dangling = (s.dangling \/ FALSE)
      /\ u.onOuter = on /\ u.updV = up
  BY <1>1 DEF FaceGone, Fields
<1>3. /\ u.cutf = [[s.cutf EXCEPT ![cl] = @] EXCEPT ![cr] = @]
      /\ u.deg = [[s.deg EXCEPT ![cl] = @ - 1] EXCEPT ![cr] = @ - 1]
  BY <1>1 DEF FaceGone, Fields
<1> HIDE DEF u, on, up
<1>4. /\ u.cutf = s.cutf /\ u.deg \in [E.nodes -> Int]
      /\ \A v \in E.nodes : u.deg[v] = s.deg[v] - IF v \in {cl, cr} THEN 1 ELSE 0
  <2>1. s.cutf \in [E.nodes -> Int] /\ s.deg \in [E.nodes -> Int]
    BY DEF IsState
  <2> QED BY <1>3, <2>1
<1>5. u.dangling = s.dangling
  BY <1>2
<1>6. on \subseteq E.nodes
  BY <1>1 DEF on
<1>7. IsState(E, u)
  BY <1>2, <1>4, <1>6 DEF IsState
<1> QED BY <1>2, <1>4, <1>5, <1>7 DEF GoneFields, u, on, up

(***************************************************************************)
(* The path is put on the contour: from a state t that is ready for it,    *)
(* but for the faces F and the nodes V that have left, to a valid one.     *)
(***************************************************************************)
FacesReady(g, t, T, F) ==
  /\ t.updF \subseteq Whole(g, T) \cup {extFace}
  /\ \A f \in Whole(g, T) \ t.updF : (f \in t.isSf <=> SepFace(t, f)) /\ (f \in t.possF <=> PossFace(t, f))
  /\ t.possF \ F \subseteq Whole(g, T) /\ t.possF \subseteq t.fLink
  /\ F \cap (Whole(g, T) \cup {extFace}) = {}
  /\ \A f \in Whole(g, T) \cup {extFace} : f \in t.fLink => f \in t.possF

NodesReady(b, t, T, d, P, V) ==
  /\ t.updV \subseteq ToSet(d) /\ ToSet(P) \subseteq t.updV /\ V \subseteq T
  /\ \A v \in ToSet(d) \ (ToSet(b) \cup t.updV) : v \in t.possV <=> PossNode(t, v)
  /\ t.possV \ V \subseteq ToSet(d) \ ToSet(b)
  /\ t.possV \subseteq t.vLink /\ t.vLink \subseteq t.possV \cup T

Ready(g, b, t, T, c, d, P, F, V) ==
  /\ IsState(g, t) /\ t.contour = c /\ Linked(g, t, d, T) /\ Counted(g, b, t, T, c)
  /\ FacesReady(g, t, T, F) /\ NodesReady(b, t, T, d, P, V) /\ EdgesUnmarked(t)

Gone(g, T, F, V, u, w) ==
  /\ IsState(g, w)
  /\ w.contour = u.contour /\ w.nextSucc = u.nextSucc /\ w.prevPred = u.prevPred
  /\ w.virt = u.virt /\ w.deg = u.deg /\ w.cutf = u.cutf /\ w.numsf = u.numsf
  /\ w.onOuter = u.onOuter /\ w.outv = u.outv /\ w.oute = u.oute /\ w.seqp = u.seqp
  /\ w.isSf = u.isSf /\ w.inF = u.inF /\ w.updF = u.updF /\ w.updV = u.updV
  /\ w.possE = u.possE /\ w.fLink = u.fLink /\ w.vLink = u.vLink /\ w.eLink = u.eLink
  /\ w.dangling = u.dangling
  /\ w.possF = u.possF \ F /\ w.possV = u.possV \ V
  /\ \A f \in DOMAIN g.faces : w.virtSrc[f] = None
  /\ \A f \in Whole(g, T) : w.outer[f] = u.outer[f]

LEMMA GrownValid ==
  ASSUME NEW g, IsEmbedding(g), NEW b, BaseShape(g, b), NEW c, NEW R, NEW D, NEW a, NEW z, NEW P,
         NEW d, Grown(g, b, c, R, D, a, z, P, d), NEW T, T = R \cup D,
         NEW F, NEW V, NEW t, Ready(g, b, t, T, c, d, P, F, V),
         NEW u, PathStep(g, b, d, T, P, t, u), NEW w, Gone(g, T, F, V, u, w)
  PROVE  Valid(g, b, w, T, d)
<1>1. ContourShape(g, b, d, T)
  BY GrownShape
<1>2. /\ IsState(g, t) /\ t.contour = c /\ Linked(g, t, d, T) /\ Counted(g, b, t, T, c)
      /\ FacesReady(g, t, T, F) /\ NodesReady(b, t, T, d, P, V) /\ EdgesUnmarked(t)
  BY DEF Ready
<1>3. /\ IsState(g, u) /\ Kept(t, u) /\ Linked(g, u, d, T) /\ u.contour = d /\ Marks(g, t, u, T, P)
  BY DEF PathStep
<1>4. Counted(g, b, u, T, d)
  BY <1>2, PathCounted
<1>5. /\ IsState(g, w)
      /\ w.contour = u.contour /\ w.nextSucc = u.nextSucc /\ w.prevPred = u.prevPred
      /\ w.virt = u.virt /\ w.deg = u.deg /\ w.cutf = u.cutf /\ w.numsf = u.numsf
      /\ w.onOuter = u.onOuter /\ w.outv = u.outv /\ w.oute = u.oute /\ w.seqp = u.seqp
      /\ w.isSf = u.isSf /\ w.inF = u.inF /\ w.updF = u.updF /\ w.updV = u.updV
      /\ w.possE = u.possE /\ w.fLink = u.fLink /\ w.vLink = u.vLink /\ w.eLink = u.eLink
      /\ w.dangling = u.dangling
      /\ w.possF = u.possF \ F /\ w.possV = u.possV \ V
      /\ \A f \in DOMAIN g.faces : w.virtSrc[f] = None
      /\ \A f \in Whole(g, T) : w.outer[f] = u.outer[f]
  BY DEF Gone
<1>6. Linked(g, w, d, T)
  BY <1>3, <1>5 DEF Linked
<1>7. Counted(g, b, w, T, d)
  <2>1. FaceCounts(g, u, T, d) /\ OuterBounds(g, b, u, d) /\ SepCounts(g, u, T, d)
    BY <1>4 DEF Counted
  <2>2. FaceCounts(g, w, T, d)
    <3>1. /\ w.outv = u.outv /\ w.oute = u.oute /\ w.seqp = u.seqp
          /\ \A f \in Whole(g, T) : w.outer[f] = u.outer[f]
      BY <1>5
    <3>2. ASSUME NEW f \in Whole(g, T)
          PROVE  /\ u.outv[f] = Cardinality(ToSet(d) \cap OnFace(g, f))
                 /\ u.oute[f] = Cardinality(RightPairs(g, d, f))
                 /\ u.seqp[f] = Cardinality(FacePairs(g, d, f))
                 /\ \A v \in g.nodes : u.outer[f][v] = IF v \in ToSet(d) /\ v \in OnFace(g, f) THEN 1 ELSE 0
      BY <2>1, <3>2 DEF FaceCounts
    <3> QED BY <3>1, <3>2 DEF FaceCounts
  <2>3. OuterBounds(g, b, w, d)
    BY <1>5, <2>1 DEF OuterBounds
  <2>4. SepCounts(g, w, T, d)
    BY <1>5, <2>1 DEF SepCounts, SepOf
  <2> QED BY <2>2, <2>3, <2>4 DEF Counted
<1>8. /\ t.updF \subseteq u.updF /\ u.updF \subseteq t.updF \cup Whole(g, T) \cup {extFace}
      /\ t.updV \subseteq u.updV /\ u.updV \subseteq t.updV \cup InnerOf(P)
      /\ \A f \in Whole(g, T) \ u.updF :
           u.outv[f] = t.outv[f] /\ u.oute[f] = t.oute[f] /\ u.seqp[f] = t.seqp[f]
  BY <1>3 DEF Marks
<1>9. /\ u.deg = t.deg /\ u.isSf = t.isSf
      /\ u.possF = t.possF /\ u.possV = t.possV /\ u.possE = t.possE
      /\ u.fLink = t.fLink /\ u.vLink = t.vLink /\ u.eLink = t.eLink /\ u.dangling = t.dangling
  BY <1>3 DEF Kept
<1>10. FacesMarked(g, w, T)
  <2>1. /\ t.updF \subseteq Whole(g, T) \cup {extFace}
        /\ \A f \in Whole(g, T) \ t.updF : (f \in t.isSf <=> SepFace(t, f)) /\ (f \in t.possF <=> PossFace(t, f))
        /\ t.possF \ F \subseteq Whole(g, T) /\ t.possF \subseteq t.fLink
        /\ F \cap (Whole(g, T) \cup {extFace}) = {}
        /\ \A f \in Whole(g, T) \cup {extFace} : f \in t.fLink => f \in t.possF
    BY <1>2 DEF FacesReady
  <2>2. w.updF \subseteq Whole(g, T) \cup {extFace}
    BY <1>5, <1>8, <2>1
  <2>3. ASSUME NEW f \in Whole(g, T) \ w.updF
        PROVE  (f \in w.isSf <=> SepFace(w, f)) /\ (f \in w.possF <=> PossFace(w, f))
    <3>1. f \notin t.updF /\ f \notin F
      BY <1>5, <1>8, <2>1
    <3>2. w.outv[f] = t.outv[f] /\ w.oute[f] = t.oute[f] /\ w.seqp[f] = t.seqp[f]
      <4>1. w.outv = u.outv /\ w.oute = u.oute /\ w.seqp = u.seqp /\ w.updF = u.updF
        BY <1>5
      <4>2. f \in Whole(g, T) \ u.updF
        BY <4>1
      <4>3. \A h \in Whole(g, T) \ u.updF :
              u.outv[h] = t.outv[h] /\ u.oute[h] = t.oute[h] /\ u.seqp[h] = t.seqp[h]
        BY <1>8
      <4> HIDE <1>5
      <4> QED BY <4>1, <4>2, <4>3
    <3>3. (f \in t.isSf <=> SepFace(t, f)) /\ (f \in t.possF <=> PossFace(t, f))
      BY <2>1, <3>1
    <3>4. (f \in w.isSf <=> f \in t.isSf) /\ (f \in w.possF <=> f \in t.possF)
      <4>1. w.isSf = u.isSf /\ w.possF = u.possF \ F
        BY <1>5
      <4>2. u.isSf = t.isSf /\ u.possF = t.possF
        BY <1>9
      <4> QED BY <3>1, <4>1, <4>2
    <3> QED BY <3>2, <3>3, <3>4 DEF SepFace, PossFace
  <2>4. w.possF \subseteq Whole(g, T) /\ w.possF \subseteq w.fLink
    BY <1>5, <1>9, <2>1
  <2>5. \A f \in Whole(g, T) \cup {extFace} : f \in w.fLink => f \in w.possF
    BY <1>5, <1>9, <2>1
  <2> QED BY <2>2, <2>3, <2>4, <2>5 DEF FacesMarked
<1>11. NodesMarked(b, w, T, d)
  <2>1. /\ t.updV \subseteq ToSet(d) /\ ToSet(P) \subseteq t.updV /\ V \subseteq T
        /\ \A v \in ToSet(d) \ (ToSet(b) \cup t.updV) : v \in t.possV <=> PossNode(t, v)
        /\ t.possV \ V \subseteq ToSet(d) \ ToSet(b)
        /\ t.possV \subseteq t.vLink /\ t.vLink \subseteq t.possV \cup T
    BY <1>2 DEF NodesReady
  <2>2. /\ P \in Path(g.nodes) /\ ToSet(d) \cap T = {} /\ InnerOf(P) \subseteq ToSet(d)
        /\ d \in Path(g.nodes)
    <3>1. P \in Path(g.nodes)
      BY GrownShape
    <3>2. d \in Path(g.nodes)
      BY GrownFacts
    <3>3. ToSet(d) \cap (R \cup D) = {}
      BY GrownFacts
    <3>4. ToSet(d) = (ToSet(c) \ D) \cup InnerOf(P)
      BY GrownFacts
    <3> QED BY <3>1, <3>2, <3>3, <3>4
  <2>3. \A v : v \in InnerOf(P) => v \in ToSet(P)
    <3>1. Len(P) \in Nat /\ \A v : v \in ToSet(P) <=> \E j \in 1..Len(P) : P[j] = v
      BY <2>2, PathIndices
    <3> QED BY <3>1 DEF InnerOf
  <2>4. w.updV \subseteq ToSet(d)
    <3>1. w.updV = u.updV
      BY <1>5
    <3>2. u.updV \subseteq t.updV \cup InnerOf(P)
      BY <1>8
    <3> QED BY <2>1, <2>2, <3>1, <3>2
  <2>5. ASSUME NEW v \in ToSet(d) \ (ToSet(b) \cup w.updV) PROVE v \in w.possV <=> PossNode(w, v)
    <3>1. v \notin t.updV /\ v \notin InnerOf(P) /\ v \notin V
      BY <1>5, <1>8, <2>1, <2>2, <2>3
    <3>2. v \in t.possV <=> PossNode(t, v)
      BY <2>1, <3>1
    <3>3. v \in g.nodes
      BY <2>2, PathIndices
    <3>4. t.isSf \subseteq Whole(g, T)
      BY <1>2 DEF Counted, SepCounts
    <3>5. u.numsf[v] = t.numsf[v]
      <4>1. \A x \in g.nodes : u.numsf[x] = t.numsf[x] + IF x \in InnerOf(P) THEN Cardinality(SfAt(g, t, x)) ELSE 0
        BY <3>4 DEF PathStep
      <4>2. t.numsf[v] \in Int
        BY <1>2, <3>3 DEF IsState
      <4> QED BY <3>1, <3>3, <4>1, <4>2
    <3>6. w.numsf[v] = t.numsf[v] /\ w.deg[v] = t.deg[v]
      BY <1>5, <1>9, <3>5
    <3>7. v \in w.possV <=> v \in t.possV
      BY <1>5, <1>9, <3>1
    <3> QED BY <3>2, <3>6, <3>7 DEF PossNode
  <2>6. w.possV \subseteq ToSet(d) \ ToSet(b)
    BY <1>5, <1>9, <2>1
  <2>7. w.possV \subseteq w.vLink /\ w.vLink \subseteq w.possV \cup T
    BY <1>5, <1>9, <2>1
  <2> QED BY <2>4, <2>5, <2>6, <2>7 DEF NodesMarked
<1>12. EdgesUnmarked(w)
  BY <1>2, <1>5, <1>9 DEF EdgesUnmarked
<1> QED BY <1>1, <1>3, <1>5, <1>6, <1>7, <1>10, <1>11, <1>12 DEF Valid

(***************************************************************************)
(* The next face: a face that may be taken meets the contour in one run,   *)
(* the chain that removeNextFace walks.                                    *)
(***************************************************************************)
IsRun(g, t, c, R, f, a, z) == FaceRun(g, c, R, f, a, z) /\ OnRun(t, c, f, a, z)

LEMMA PossRun ==
  ASSUME NEW g, IsEmbedding(g), NEW b, NEW t, NEW R, NEW c, Valid(g, b, t, R, c), t.updF = {},
         NEW f \in t.possF
  PROVE  \E a, z \in 1..Len(c) : IsRun(g, t, c, R, f, a, z)
<1>1. /\ ContourShape(g, b, c, R) /\ IsState(g, t) /\ Linked(g, t, c, R)
      /\ Counted(g, b, t, R, c) /\ FacesMarked(g, t, R)
  BY DEF Valid
<1>2. f \in Whole(g, R) /\ PossFace(t, f)
  BY <1>1 DEF FacesMarked
<1>3. FaceCounts(g, t, R, c)
  BY <1>1 DEF Counted
<1>4. /\ t.outv[f] = Cardinality(ToSet(c) \cap OnFace(g, f))
      /\ t.oute[f] = Cardinality(RightPairs(g, c, f))
  BY <1>2, <1>3 DEF FaceCounts
<1>5. t.outv[f] \in Int
  <2>1. t.outv \in [DOMAIN g.faces -> Int]
    BY <1>1 DEF IsState
  <2> QED BY <1>2, <2>1 DEF Whole
<1>6. t.outv[f] >= 3 /\ t.outv[f] = t.oute[f] + 1
  BY <1>2 DEF PossFace
<1> DEFINE k == t.outv[f]
<1>7. k \in Int /\ k >= 3 /\ k = Cardinality(ToSet(c) \cap OnFace(g, f)) /\ k = Cardinality(RightPairs(g, c, f)) + 1
  BY <1>4, <1>5, <1>6
<1> HIDE DEF k
<1>8. RunOf(g, c, R, f, k)
  BY <1>1, <1>2, <1>7, FaceRunExists
<1>9. PICK a \in 1..Len(c), z \in 1..Len(c) : FaceRun(g, c, R, f, a, z) /\ z - a = k - 1
  BY <1>8 DEF RunOf
<1>10. OnRun(t, c, f, a, z)
  <2>1. z - a = t.outv[f] - 1
    BY <1>9 DEF k
  <2> QED BY <1>1, <1>9, <2>1, RunDegrees
<1>11. IsRun(g, t, c, R, f, a, z)
  BY <1>9, <1>10 DEF IsRun
<1> QED BY <1>9, <1>11

(* The chain fits the array of outv(f) - 2 nodes, and is the one of f.     *)
Fits(t, f) ==
  /\ getFaceCl(t, f) # {}
  /\ \A cl \in getFaceCl(t, f) :
       /\ Len(Between(t, cl, ChainRight(t, cl))) = t.outv[f] - 2
       /\ rightOf(t, cl) = f

ChainOf(t, c, f, a, z) ==
  /\ getFaceCl(t, f) = {c[a]} /\ ChainRight(t, c[a]) = c[z] /\ rightOf(t, c[a]) = f
  /\ Len(Between(t, c[a], c[z])) = t.outv[f] - 2

LEMMA RunIsChain ==
  ASSUME IsEmbedding(E), NEW t, NEW R, NEW c, Valid(E, base, t, R, c),
         NEW f, NEW a, NEW z, IsRun(E, t, c, R, f, a, z)
  PROVE  ChainOf(t, c, f, a, z)
<1>1. /\ ContourShape(E, base, c, R) /\ Linked(E, t, c, R) /\ t.contour = c
  BY DEF Valid
<1>2. FaceRun(E, c, R, f, a, z) /\ OnRun(t, c, f, a, z)
  BY DEF IsRun
<1>3. c \in Path(E.nodes)
  BY <1>1 DEF ContourShape
<1>4. getFaceCl(t, f) = {c[a]}
  BY <1>1, <1>2, RunFaceCl
<1>5. ChainRight(t, c[a]) = c[z]
  BY <1>1, <1>2, <1>3, RunChain
<1>6. a \in 1..Len(c) /\ z \in 1..Len(c) /\ a + 2 <= z /\ z - a = t.outv[f] - 1 /\ Len(c) \in Nat
  <2>1. Len(c) \in Nat
    BY <1>3, PathIndices
  <2> QED BY <1>2, <2>1 DEF OnRun
<1>7. Len(Between(t, c[a], c[z])) = z - a - 1
  <2>1. a < z
    BY <1>6
  <2> QED BY <1>1, <1>3, <1>6, <2>1, RunBetween
<1>8. rightOf(t, c[a]) = f
  <2>1. a \in 1..(Len(c) - 1) /\ a \in a..(z - 1)
    BY <1>6
  <2>2. Entry(E, c[a], c[a + 1], rightOf(t, c[a]))
    BY <1>1, <2>1, RightOfIs
  <2>3. Entry(E, c[a], c[a + 1], f)
    BY <1>2, <2>1 DEF FaceRun
  <2> QED BY <2>2, <2>3, EntryFacts
<1>9. t.outv[f] \in Int
  <2>1. IsState(E, t) /\ f \in DOMAIN E.faces
    BY <1>2 DEF Valid, FaceRun, Whole
  <2>2. t.outv \in [DOMAIN E.faces -> Int]
    BY <2>1 DEF IsState
  <2> QED BY <2>1, <2>2
<1>10. Len(Between(t, c[a], c[z])) = t.outv[f] - 2
  BY <1>6, <1>7, <1>9
<1> QED BY <1>4, <1>5, <1>8, <1>10 DEF ChainOf

LEMMA PossFits ==
  ASSUME IsEmbedding(E), NEW t, NEW R, NEW c, Valid(E, base, t, R, c), t.updF = {}, NEW f \in t.possF
  PROVE  Fits(t, f)
<1>1. \E a, z \in 1..Len(c) : IsRun(E, t, c, R, f, a, z)
  BY PossRun
<1>2. PICK a \in 1..Len(c), z \in 1..Len(c) : IsRun(E, t, c, R, f, a, z)
  BY <1>1
<1>3. ChainOf(t, c, f, a, z)
  BY <1>2, RunIsChain
<1> QED BY <1>3 DEF ChainOf, Fits

(* The chain between cl and cr leaves the contour of t, and P is linked    *)
(* into its place.                                                         *)
FaceStep(g, t, cl, cr, P, u) ==
  /\ IsState(g, u)
  /\ u.contour = t.contour /\ u.cutf = t.cutf /\ u.numsf = t.numsf
  /\ u.outv = t.outv /\ u.oute = t.oute /\ u.seqp = t.seqp
  /\ u.virtSrc = t.virtSrc /\ u.isSf = t.isSf /\ u.outer = t.outer /\ u.inF = t.inF
  /\ u.updF = t.updF
  /\ u.possF = t.possF /\ u.possV = t.possV /\ u.possE = t.possE
  /\ u.fLink = t.fLink /\ u.vLink = t.vLink /\ u.eLink = t.eLink
  /\ u.dangling = t.dangling /\ u.virt \subseteq t.virt
  /\ u.onOuter = t.onOuter \cup ToSet(P) /\ u.updV = t.updV \cup ToSet(P)
  /\ \A v \in g.nodes : u.deg[v] = t.deg[v] - IF v \in {cl, cr} THEN 1 ELSE 0
  /\ \A v \in g.nodes : ~ ExceptLast(P, v) => u.nextSucc[v] = t.nextSucc[v]
  /\ \A v \in g.nodes : ~ ExceptFirst(P, v) => u.prevPred[v] = t.prevPred[v]
  /\ LinksOn(g, u, P)

LEMMA FaceStepIs ==
  ASSUME NEW g, NEW t, NEW cl, NEW cr, NEW P, NEW x, GoneFields(g, t, cl, cr, P, x),
         NEW u, EdgesStep(g, x, P, u)
  PROVE  FaceStep(g, t, cl, cr, P, u)
<1>1. /\ IsState(g, u) /\ OnlyLinks(x, u) /\ u.virt \subseteq x.virt /\ LinksOn(g, u, P)
      /\ \A v \in g.nodes : ~ ExceptLast(P, v) => u.nextSucc[v] = x.nextSucc[v]
      /\ \A v \in g.nodes : ~ ExceptFirst(P, v) => u.prevPred[v] = x.prevPred[v]
  BY DEF EdgesStep
<1>2. /\ u.contour = x.contour /\ u.deg = x.deg /\ u.cutf = x.cutf /\ u.numsf = x.numsf
      /\ u.onOuter = x.onOuter /\ u.outv = x.outv /\ u.oute = x.oute /\ u.seqp = x.seqp
      /\ u.virtSrc = x.virtSrc /\ u.isSf = x.isSf /\ u.outer = x.outer /\ u.inF = x.inF
      /\ u.updF = x.updF /\ u.updV = x.updV
      /\ u.possF = x.possF /\ u.possV = x.possV /\ u.possE = x.possE
      /\ u.fLink = x.fLink /\ u.vLink = x.vLink /\ u.eLink = x.eLink
      /\ u.dangling = x.dangling
  BY <1>1 DEF OnlyLinks
<1>3. /\ x.contour = t.contour /\ x.nextSucc = t.nextSucc /\ x.prevPred = t.prevPred
      /\ x.virt = t.virt /\ x.cutf = t.cutf /\ x.numsf = t.numsf
      /\ x.outv = t.outv /\ x.oute = t.oute /\ x.seqp = t.seqp
      /\ x.virtSrc = t.virtSrc /\ x.isSf = t.isSf /\ x.outer = t.outer /\ x.inF = t.inF
      /\ x.updF = t.updF
      /\ x.possF = t.possF /\ x.possV = t.possV /\ x.possE = t.possE
      /\ x.fLink = t.fLink /\ x.vLink = t.vLink /\ x.eLink = t.eLink
      /\ x.dangling = t.dangling
      /\ x.onOuter = t.onOuter \cup ToSet(P) /\ x.updV = t.updV \cup ToSet(P)
      /\ \A v \in g.nodes : x.deg[v] = t.deg[v] - IF v \in {cl, cr} THEN 1 ELSE 0
  BY DEF GoneFields
<1>4. /\ \A v \in g.nodes : u.deg[v] = t.deg[v] - IF v \in {cl, cr} THEN 1 ELSE 0
      /\ \A v \in g.nodes : ~ ExceptLast(P, v) => u.nextSucc[v] = t.nextSucc[v]
      /\ \A v \in g.nodes : ~ ExceptFirst(P, v) => u.prevPred[v] = t.prevPred[v]
      /\ u.onOuter = t.onOuter \cup ToSet(P) /\ u.updV = t.updV \cup ToSet(P)
      /\ u.virt \subseteq t.virt
  <2>1. u.deg = x.deg /\ x.nextSucc = t.nextSucc /\ x.prevPred = t.prevPred /\ x.virt = t.virt
    BY <1>2, <1>3
  <2>2. \A v \in g.nodes : x.deg[v] = t.deg[v] - IF v \in {cl, cr} THEN 1 ELSE 0
    BY <1>3
  <2>3. u.onOuter = t.onOuter \cup ToSet(P) /\ u.updV = t.updV \cup ToSet(P)
    BY <1>2, <1>3
  <2> HIDE <1>2, <1>3
  <2> QED BY <1>1, <2>1, <2>2, <2>3
<1>5. /\ u.contour = t.contour /\ u.cutf = t.cutf /\ u.numsf = t.numsf
      /\ u.outv = t.outv /\ u.oute = t.oute /\ u.seqp = t.seqp
      /\ u.virtSrc = t.virtSrc /\ u.isSf = t.isSf /\ u.outer = t.outer /\ u.inF = t.inF
      /\ u.updF = t.updF
      /\ u.possF = t.possF /\ u.possV = t.possV /\ u.possE = t.possE
      /\ u.fLink = t.fLink /\ u.vLink = t.vLink /\ u.eLink = t.eLink
      /\ u.dangling = t.dangling
  BY <1>2, <1>3
<1> QED BY <1>1, <1>4, <1>5, Zenon DEF FaceStep

(* The links of the new contour: those of the old one off the run, and     *)
(* those of the path.                                                      *)
LEMMA SplicedLinks ==
  ASSUME NEW V, NEW c \in Path(V), NEW P \in Path(V), NEW a, NEW z, Ends(c, a, z, P),
         InnerOf(P) \cap ToSet(c) = {}, NEW d, Splice(c, a, z, P, d), NEW g, V = g.nodes,
         NEW t, \A i \in 1..(Len(c) - 1) : LinkAt(g, t, c[i], c[i + 1]),
         NEW u, LinksOn(g, u, P),
         \A v \in g.nodes : ~ ExceptLast(P, v) => u.nextSucc[v] = t.nextSucc[v],
         \A v \in g.nodes : ~ ExceptFirst(P, v) => u.prevPred[v] = t.prevPred[v]
  PROVE  LinksOn(g, u, d)
<1>1. /\ Len(c) \in Nat /\ Len(P) \in Nat /\ Len(P) >= 2
      /\ a \in 1..Len(c) /\ z \in 1..Len(c) /\ a < z /\ P[1] = c[a] /\ P[Len(P)] = c[z]
      /\ \A i \in 1..Len(c) : c[i] \in V /\ c[i] \in ToSet(c)
      /\ \A i, j \in 1..Len(c) : c[i] = c[j] => i = j
  BY PathIndices DEF Ends
<1>2. ASSUME NEW i \in 1..Len(c), NEW j \in 1..Len(P), P[j] = c[i]
      PROVE  (j = 1 /\ i = a) \/ (j = Len(P) /\ i = z)
  <2>1. ~ (j \in 2..(Len(P) - 1))
    BY <1>1, <1>2 DEF InnerOf
  <2>2. j = 1 \/ j = Len(P)
    BY <1>1, <2>1
  <2> QED BY <1>1, <1>2, <2>2
<1>3. ASSUME NEW i \in 1..(Len(c) - 1), i < a \/ i >= z PROVE LinkAt(g, u, c[i], c[i + 1])
  <2>1. i \in 1..Len(c) /\ i + 1 \in 1..Len(c)
    BY <1>1
  <2>2. ~ ExceptLast(P, c[i])
    <3> SUFFICES ASSUME NEW j \in 1..(Len(P) - 1), P[j] = c[i] PROVE FALSE
      BY DEF ExceptLast
    <3>1. j \in 1..Len(P) /\ j # Len(P)
      BY <1>1
    <3>2. i = a
      BY <1>2, <2>1, <3>1
    <3> QED BY <1>1, <1>3, <3>2
  <2>3. ~ ExceptFirst(P, c[i + 1])
    <3> SUFFICES ASSUME NEW j \in 2..Len(P), P[j] = c[i + 1] PROVE FALSE
      BY DEF ExceptFirst
    <3>1. j \in 1..Len(P) /\ j # 1
      BY <1>1
    <3>2. i + 1 = z
      BY <1>2, <2>1, <3>1
    <3> QED BY <1>1, <1>3, <3>2
  <2>4. u.nextSucc[c[i]] = t.nextSucc[c[i]] /\ u.prevPred[c[i + 1]] = t.prevPred[c[i + 1]]
    BY <1>1, <2>1, <2>2, <2>3
  <2> QED BY <2>4 DEF LinkAt
<1>4. LinksOff(g, u, c, a, z)
  BY <1>3 DEF LinksOff
<1> QED BY <1>4, SpliceLinks

OneAround(g, v, R, D) == \E x : Around(g, v) \cap D = {x} /\ x \notin R

LEMMA FewerAround ==
  ASSUME NEW g, IsEmbedding(g), NEW v, NEW R, NEW D, OneAround(g, v, R, D)
  PROVE  Cardinality(Around(g, v) \ (R \cup D)) = Cardinality(Around(g, v) \ R) - 1
<1>1. IsFiniteSet(Around(g, v))
  BY AroundNodes
<1> DEFINE A == Around(g, v) \ R
<1>2. IsFiniteSet(A)
  BY <1>1, FS_Subset
<1>3. PICK x : Around(g, v) \cap D = {x} /\ x \notin R
  BY DEF OneAround
<1>4. x \in A /\ Around(g, v) \ (R \cup D) = A \ {x}
  BY <1>3
<1> HIDE DEF A
<1>5. Cardinality(A \ {x}) = Cardinality(A) - 1
  BY <1>2, <1>4, FS_RemoveElement
<1> QED BY <1>4, <1>5 DEF A

LEMMA SameAround ==
  ASSUME NEW g, NEW v, NEW R, NEW D, Around(g, v) \cap D = {}
  PROVE  Cardinality(Around(g, v) \ (R \cup D)) = Cardinality(Around(g, v) \ R)
<1>1. Around(g, v) \ (R \cup D) = Around(g, v) \ R
  OBVIOUS
<1> QED BY <1>1

(* With the run gone the state is linked as the new contour is.            *)
LEMMA FaceLinked ==
  ASSUME NEW g, IsEmbedding(g), NEW b, BaseShape(g, b), NEW c, NEW R, NEW f, NEW a, NEW z,
         FaceRun(g, c, R, f, a, z), NEW D, D = Hidden(c, a, z), NEW P, NEW d,
         Grown(g, b, c, R, D, a, z, P, d), NEW t, Linked(g, t, c, R),
         NEW u, FaceStep(g, t, c[a], c[z], P, u)
  PROVE  Linked(g, u, d, R \cup D)
<1>1. /\ u.cutf = t.cutf /\ u.virtSrc = t.virtSrc /\ u.inF = t.inF /\ u.virt \subseteq t.virt
      /\ u.onOuter = t.onOuter \cup ToSet(P)
      /\ \A v \in g.nodes : u.deg[v] = t.deg[v] - IF v \in {c[a], c[z]} THEN 1 ELSE 0
      /\ \A v \in g.nodes : ~ ExceptLast(P, v) => u.nextSucc[v] = t.nextSucc[v]
      /\ \A v \in g.nodes : ~ ExceptFirst(P, v) => u.prevPred[v] = t.prevPred[v]
      /\ LinksOn(g, u, P)
  BY DEF FaceStep
<1>2. ContourShape(g, b, c, R)
  BY DEF Grown
<1>3. Swept(g, c, R, D, a, z, P)
  BY DEF Grown
<1>4. Ends(c, a, z, P) /\ InnerOf(P) \cap ToSet(c) = {}
  BY <1>3 DEF Swept
<1>5. P \in Path(g.nodes) /\ Splice(c, a, z, P, d)
  BY GrownShape
<1>6. c \in Path(g.nodes)
  BY <1>2 DEF ContourShape
<1>7. LinksOn(g, u, d)
  <2>1. \A i \in 1..(Len(c) - 1) : LinkAt(g, t, c[i], c[i + 1])
    BY DEF Linked, LinkAt
  <2> QED BY <1>1, <1>4, <1>5, <1>6, <2>1, SplicedLinks
<1>8. ASSUME NEW v \in g.nodes \ (R \cup D)
      PROVE u.deg[v] = Cardinality(Around(g, v) \ (R \cup D))
  <2>1. t.deg[v] = Cardinality(Around(g, v) \ R)
    BY DEF Linked
  <2>2. u.deg[v] = t.deg[v] - IF v \in {c[a], c[z]} THEN 1 ELSE 0
    BY <1>1
  <2>3. v \in g.nodes \ R /\ v \notin Hidden(c, a, z)
    OBVIOUS
  <2>4. /\ v # c[a] /\ v # c[z] => Around(g, v) \cap D = {}
        /\ v = c[a] => Around(g, v) \cap D = {c[a + 1]}
        /\ v = c[z] => Around(g, v) \cap D = {c[z - 1]}
    BY <1>2, <2>3, RunNeighbours
  <2>5. c[a + 1] \notin R /\ c[z - 1] \notin R
    <3>1. a + 1 \in 1..Len(c) /\ z - 1 \in 1..Len(c)
      <4>1. a \in 1..Len(c) /\ z \in 1..Len(c) /\ a + 2 <= z
        BY DEF FaceRun
      <4>2. Len(c) \in Nat
        BY <1>2, ContourIndices
      <4> QED BY <4>1, <4>2
    <3> QED BY <1>2, <3>1, ContourIndices
  <2>6. CASE v = c[a] \/ v = c[z]
    <3>1. Cardinality(Around(g, v) \ (R \cup D)) = Cardinality(Around(g, v) \ R) - 1
      <4>1. OneAround(g, v, R, D)
        BY <2>4, <2>5, <2>6 DEF OneAround
      <4> QED BY <4>1, FewerAround
    <3>2. u.deg[v] = t.deg[v] - 1
      BY <2>2, <2>6
    <3> QED BY <2>1, <3>1, <3>2
  <2>7. CASE v # c[a] /\ v # c[z]
    <3>1. Cardinality(Around(g, v) \ (R \cup D)) = Cardinality(Around(g, v) \ R)
      BY <2>4, <2>7, SameAround
    <3>2. u.deg[v] = t.deg[v]
      <4>1. Cardinality(Around(g, v) \ R) \in Nat
        <5>1. IsFiniteSet(Around(g, v))
          BY AroundNodes
        <5> QED BY <5>1, FS_Subset, FS_CardinalityType
      <4> QED BY <2>1, <2>2, <2>7, <4>1
    <3> QED BY <2>1, <3>1, <3>2
  <2> QED BY <2>6, <2>7
<1>9. u.onOuter = ToSet(d) \cup (R \cup D) /\ u.virt = {}
  <2>1. t.onOuter = ToSet(c) \cup R /\ t.virt = {}
    BY DEF Linked
  <2>2. ToSet(d) = (ToSet(c) \ D) \cup InnerOf(P) /\ D \subseteq ToSet(c)
    BY GrownFacts
  <2>3. ToSet(P) = InnerOf(P) \cup {c[a], c[z]} /\ ToSet(P) \subseteq ToSet(d)
    <3>1. d \in Seq(g.nodes)
      BY GrownShape
    <3> QED BY <1>4, <1>5, <1>6, <3>1, SplicePath
  <2> QED BY <1>1, <2>1, <2>2, <2>3
<1>10. /\ \A v \in g.nodes : u.cutf[v] = 0
       /\ \A h \in DOMAIN g.faces : u.virtSrc[h] = None
       /\ \A v \in g.nodes, h \in DOMAIN g.faces : << v, h >> \in u.inF <=> v \in OnFace(g, h)
  BY <1>1 DEF Linked
<1>11. \A i \in 1..(Len(d) - 1) :
         /\ Beside(g, d[i], u.nextSucc[d[i]], d[i + 1])
         /\ Beside(g, d[i + 1], d[i], u.prevPred[d[i + 1]])
  BY <1>7 DEF LinksOn, LinkAt
<1> QED BY <1>8, <1>9, <1>10, <1>11 DEF Linked

LEMMA RunLeavesOthers ==
  ASSUME NEW g, IsEmbedding(g), NEW b, NEW c, NEW R, ContourShape(g, b, c, R), NEW f, NEW a, NEW z,
         FaceRun(g, c, R, f, a, z), NEW D, D = Hidden(c, a, z)
  PROVE  Whole(g, R \cup D) = Whole(g, R) \ {f}
<1>1. a \in 1..Len(c) /\ z \in 1..Len(c) /\ a + 2 <= z /\ Len(c) \in Nat
  BY ContourIndices DEF FaceRun
<1>2. a + 1 \in (a + 1)..(z - 1) /\ a + 1 \in a..z /\ a + 1 \in 1..Len(c)
  BY <1>1
<1>3. c[a + 1] \in D /\ c[a + 1] \in OnFace(g, f)
  BY <1>2 DEF Hidden, FaceRun
<1>4. ASSUME NEW h \in Whole(g, R \cup D) PROVE h \in Whole(g, R) \ {f}
  BY <1>3 DEF Whole
<1>5. ASSUME NEW h \in Whole(g, R) \ {f} PROVE h \in Whole(g, R \cup D)
  <2>1. ASSUME NEW v \in D, v \in OnFace(g, h) PROVE FALSE
    <3>1. h = f
      BY <2>1, RunMeetsOne
    <3> QED BY <3>1
  <2> QED BY <2>1 DEF Whole
<1> QED BY <1>4, <1>5

LEMMA PossIsNoSep ==
  ASSUME NEW g, IsEmbedding(g), NEW b, NEW t, NEW R, NEW c, Valid(g, b, t, R, c), t.updF = {},
         NEW f \in t.possF
  PROVE  f \in Whole(g, R) /\ f \notin t.isSf
<1>1. Counted(g, b, t, R, c) /\ FacesMarked(g, t, R) /\ ContourShape(g, b, c, R)
  BY DEF Valid
<1>2. f \in Whole(g, R) /\ PossFace(t, f) /\ (f \in t.isSf <=> SepFace(t, f))
  BY <1>1 DEF FacesMarked
<1>3. FaceCounts(g, t, R, c)
  BY <1>1 DEF Counted
<1>4. t.oute[f] = Cardinality(RightPairs(g, c, f)) /\ t.seqp[f] = Cardinality(FacePairs(g, c, f))
  BY <1>2, <1>3 DEF FaceCounts
<1>5. RightPairs(g, c, f) \subseteq FacePairs(g, c, f)
  BY EntryFacts DEF RightPairs, FacePairs
<1>6. IsFiniteSet(FacePairs(g, c, f))
  <2>1. IsFiniteSet(1..(Len(c) - 1)) /\ FacePairs(g, c, f) \subseteq 1..(Len(c) - 1)
    <3>1. Len(c) \in Nat
      BY <1>1, ContourIndices
    <3> QED BY <3>1, FS_Interval DEF FacePairs
  <2> QED BY <2>1, FS_Subset
<1>7. /\ Cardinality(RightPairs(g, c, f)) \in Nat /\ Cardinality(FacePairs(g, c, f)) \in Nat
      /\ Cardinality(RightPairs(g, c, f)) <= Cardinality(FacePairs(g, c, f))
  BY <1>5, <1>6, FS_Subset, FS_CardinalityType
<1>8. t.oute[f] \in Nat /\ t.seqp[f] \in Nat /\ t.oute[f] <= t.seqp[f]
  BY <1>4, <1>7
<1>9. t.outv[f] = t.oute[f] + 1
  BY <1>2 DEF PossFace
<1>10. ~ SepFace(t, f)
  BY <1>8, <1>9 DEF SepFace
<1> QED BY <1>2, <1>10

(* The state is ready for the path: all that is counted for a face that is *)
(* left is counted for the old contour still.                              *)
LEMMA FaceReady ==
  ASSUME NEW g, IsEmbedding(g), NEW b, BaseShape(g, b), NEW t, NEW R, NEW c, Valid(g, b, t, R, c),
         t.updF = {}, t.updV = {}, NEW f \in t.possF, NEW a, NEW z, IsRun(g, t, c, R, f, a, z),
         NEW D, D = Hidden(c, a, z), NEW P, NEW d, Grown(g, b, c, R, D, a, z, P, d),
         NEW u, FaceStep(g, t, c[a], c[z], P, u)
  PROVE  Ready(g, b, u, R \cup D, c, d, P, {f}, {})
<1>1. /\ ContourShape(g, b, c, R) /\ IsState(g, t) /\ t.contour = c /\ Linked(g, t, c, R)
      /\ Counted(g, b, t, R, c) /\ FacesMarked(g, t, R) /\ NodesMarked(b, t, R, c) /\ EdgesUnmarked(t)
  BY DEF Valid
<1>2. FaceRun(g, c, R, f, a, z) /\ OnRun(t, c, f, a, z)
  BY DEF IsRun
<1> DEFINE T == R \cup D
<1>3. Linked(g, u, d, T)
  BY <1>1, <1>2, FaceLinked
<1>4. Whole(g, T) = Whole(g, R) \ {f}
  BY <1>1, <1>2, RunLeavesOthers
<1>5. f \in Whole(g, R) /\ f \notin t.isSf
  BY PossIsNoSep
<1> HIDE DEF T
<1>6. /\ IsState(g, u) /\ u.contour = c
      /\ u.numsf = t.numsf /\ u.isSf = t.isSf
      /\ u.possF = t.possF /\ u.possV = t.possV
      /\ u.fLink = t.fLink /\ u.vLink = t.vLink
  BY <1>1 DEF FaceStep
<1>7. u.outv = t.outv /\ u.oute = t.oute /\ u.seqp = t.seqp /\ u.outer = t.outer /\ u.updF = {}
  BY DEF FaceStep
<1>8. u.possE = t.possE /\ u.eLink = t.eLink /\ u.dangling = t.dangling
  BY DEF FaceStep
<1>9. Counted(g, b, u, T, c)
  <2>1. FaceCounts(g, t, R, c) /\ OuterBounds(g, b, t, c) /\ SepCounts(g, t, R, c)
    BY <1>1 DEF Counted
  <2>2. FaceCounts(g, u, T, c)
    BY <1>4, <1>7, <2>1 DEF FaceCounts
  <2>3. OuterBounds(g, b, u, c)
    BY <1>7, <2>1 DEF OuterBounds
  <2>4. SepCounts(g, u, T, c)
    <3>1. u.isSf \subseteq Whole(g, T)
      BY <1>4, <1>5, <1>6, <2>1 DEF SepCounts
    <3>2. ASSUME NEW v \in g.nodes \ T PROVE u.numsf[v] = Cardinality(SepOf(g, u, c, v))
      <4>1. t.numsf[v] = Cardinality(SepOf(g, t, c, v))
        BY <2>1 DEF SepCounts, T
      <4>2. SepOf(g, u, c, v) = SepOf(g, t, c, v)
        BY <1>6 DEF SepOf
      <4> QED BY <1>6, <4>1, <4>2
    <3> QED BY <3>1, <3>2 DEF SepCounts
  <2> QED BY <2>2, <2>3, <2>4 DEF Counted
<1>10. FacesReady(g, u, T, {f})
  <2>1. /\ \A h \in Whole(g, R) : (h \in t.isSf <=> SepFace(t, h)) /\ (h \in t.possF <=> PossFace(t, h))
        /\ t.possF \subseteq Whole(g, R) /\ t.possF \subseteq t.fLink
        /\ \A h \in Whole(g, R) \cup {extFace} : h \in t.fLink => h \in t.possF
    BY <1>1 DEF FacesMarked
  <2>2. \A h \in Whole(g, T) : (h \in u.isSf <=> SepFace(u, h)) /\ (h \in u.possF <=> PossFace(u, h))
    <3> SUFFICES ASSUME NEW h \in Whole(g, T)
                 PROVE  (h \in u.isSf <=> SepFace(u, h)) /\ (h \in u.possF <=> PossFace(u, h))
      OBVIOUS
    <3>1. (h \in t.isSf <=> SepFace(t, h)) /\ (h \in t.possF <=> PossFace(t, h))
      BY <1>4, <2>1
    <3>2. u.outv[h] = t.outv[h] /\ u.oute[h] = t.oute[h] /\ u.seqp[h] = t.seqp[h]
      BY <1>7
    <3>3. u.isSf = t.isSf /\ u.possF = t.possF
      BY <1>6
    <3> QED BY <3>1, <3>2, <3>3 DEF SepFace, PossFace
  <2>3. f # extFace
    BY <1>5 DEF Whole
  <2>4. {f} \cap (Whole(g, T) \cup {extFace}) = {}
    BY <1>4, <2>3
  <2>5. u.possF \ {f} \subseteq Whole(g, T) /\ u.possF \subseteq u.fLink
    BY <1>4, <1>6, <2>1
  <2>6. \A h \in Whole(g, T) \cup {extFace} : h \in u.fLink => h \in u.possF
    BY <1>4, <1>6, <2>1
  <2> QED BY <1>7, <2>2, <2>4, <2>5, <2>6 DEF FacesReady
<1>11. NodesReady(b, u, T, d, P, {})
  <2>1. /\ \A v \in ToSet(c) \ ToSet(b) : v \in t.possV <=> PossNode(t, v)
        /\ t.possV \subseteq ToSet(c) \ ToSet(b)
        /\ t.possV \subseteq t.vLink /\ t.vLink \subseteq t.possV \cup R
    BY <1>1 DEF NodesMarked
  <2>2. u.updV = ToSet(P)
    BY DEF FaceStep
  <2>3. ToSet(d) = (ToSet(c) \ D) \cup InnerOf(P) /\ D \subseteq ToSet(c)
    BY GrownFacts
  <2>4. P \in Path(g.nodes) /\ c \in Path(g.nodes)
    <3>1. P \in Path(g.nodes)
      BY GrownShape
    <3>2. c \in Path(g.nodes)
      BY GrownFacts
    <3> QED BY <3>1, <3>2
  <2>5. ToSet(P) \subseteq ToSet(d)
    BY GrownFacts
  <2>6. Ends(c, a, z, P)
    <3>1. Swept(g, c, R, D, a, z, P)
      BY DEF Grown
    <3> QED BY <3>1 DEF Swept
  <2>7. c[a] \in ToSet(P) /\ c[z] \in ToSet(P) /\ InnerOf(P) \subseteq ToSet(P)
    <3>1. Len(P) \in Nat /\ \A j \in 1..Len(P) : P[j] \in ToSet(P)
      BY <2>4, PathIndices
    <3> QED BY <2>6, <3>1 DEF Ends, InnerOf
  <2>8. ASSUME NEW v \in ToSet(d) \ (ToSet(b) \cup u.updV) PROVE v \in u.possV <=> PossNode(u, v)
    <3>1. v \in ToSet(c) \ ToSet(b) /\ v # c[a] /\ v # c[z]
      BY <2>2, <2>3, <2>7
    <3>2. v \in g.nodes
      BY <2>4, <3>1, PathIndices
    <3>3. u.deg[v] = t.deg[v] - 0
      BY <3>1, <3>2 DEF FaceStep
    <3>4. t.deg[v] \in Int
      BY <1>1, <3>2 DEF IsState
    <3>5. u.deg[v] = t.deg[v] /\ u.numsf[v] = t.numsf[v]
      BY <1>6, <3>3, <3>4
    <3>6. v \in t.possV <=> PossNode(t, v)
      BY <2>1, <3>1
    <3> QED BY <1>6, <3>5, <3>6 DEF PossNode
  <2>9. t.possV \cap D = {}
    <3> SUFFICES ASSUME NEW v \in D, v \in t.possV PROVE FALSE
      OBVIOUS
    <3>1. PossNode(t, v)
      BY <2>1
    <3>2. PICK i \in (a + 1)..(z - 1) : v = c[i]
      BY DEF Hidden
    <3>3. t.deg[v] = 2
      BY <1>2, <3>2 DEF OnRun
    <3> QED BY <3>1, <3>3 DEF PossNode
  <2>10. u.possV \ {} \subseteq ToSet(d) \ ToSet(b)
    BY <1>6, <2>1, <2>3, <2>9
  <2>11. u.possV \subseteq u.vLink /\ u.vLink \subseteq u.possV \cup T
    <3>1. u.possV = t.possV /\ u.vLink = t.vLink
      BY <1>6
    <3>2. t.possV \subseteq t.vLink /\ t.vLink \subseteq t.possV \cup R
      BY <2>1
    <3> QED BY <3>1, <3>2 DEF T
  <2> QED BY <2>2, <2>5, <2>8, <2>10, <2>11 DEF NodesReady
<1>12. EdgesUnmarked(u)
  BY <1>1, <1>8 DEF EdgesUnmarked
<1> QED BY <1>3, <1>6, <1>9, <1>10, <1>11, <1>12 DEF Ready, T

LEMMA FoundIsGone ==
  ASSUME IsEmbedding(E), NEW T, NEW f \in DOMAIN E.faces, f \notin Whole(E, T), NEW u, IsState(E, u),
         \A h \in DOMAIN E.faces : u.virtSrc[h] = None,
         NEW x, x = [u EXCEPT !.virtSrc[f] = None, !.outer[f] = [v \in Nodes |-> 0]],
         NEW w, w = [x EXCEPT !.possF = @ \ {f}]
  PROVE  Gone(E, T, {f}, {}, u, w)
<1>1. DOMAIN u = Fields
  BY DEF IsState
<1>2. /\ DOMAIN x = Fields
      /\ x.virtSrc = [u.virtSrc EXCEPT ![f] = None]
      /\ x.outer = [u.outer EXCEPT ![f] = [v \in Nodes |-> 0]]
      /\ x.contour = u.contour /\ x.nextSucc = u.nextSucc /\ x.prevPred = u.prevPred
      /\ x.virt = u.virt /\ x.deg = u.deg /\ x.cutf = u.cutf /\ x.numsf = u.numsf
      /\ x.onOuter = u.onOuter /\ x.outv = u.outv /\ x.oute = u.oute /\ x.seqp = u.seqp
      /\ x.isSf = u.isSf /\ x.inF = u.inF /\ x.updF = u.updF /\ x.updV = u.updV
      /\ x.possE = u.possE /\ x.fLink = u.fLink /\ x.vLink = u.vLink /\ x.eLink = u.eLink
      /\ x.dangling = u.dangling /\ x.possF = u.possF /\ x.possV = u.possV
  BY <1>1 DEF Fields
<1>3. /\ DOMAIN w = Fields
      /\ w.virtSrc = x.virtSrc /\ w.outer = x.outer
      /\ w.contour = x.contour /\ w.nextSucc = x.nextSucc /\ w.prevPred = x.prevPred
      /\ w.virt = x.virt /\ w.deg = x.deg /\ w.cutf = x.cutf /\ w.numsf = x.numsf
      /\ w.onOuter = x.onOuter /\ w.outv = x.outv /\ w.oute = x.oute /\ w.seqp = x.seqp
      /\ w.isSf = x.isSf /\ w.inF = x.inF /\ w.updF = x.updF /\ w.updV = x.updV
      /\ w.possE = x.possE /\ w.fLink = x.fLink /\ w.vLink = x.vLink /\ w.eLink = x.eLink
      /\ w.dangling = x.dangling /\ w.possF = x.possF \ {f} /\ w.possV = x.possV
  BY <1>2 DEF Fields
<1>4. /\ w.contour = u.contour /\ w.nextSucc = u.nextSucc /\ w.prevPred = u.prevPred
      /\ w.virt = u.virt /\ w.deg = u.deg /\ w.cutf = u.cutf /\ w.numsf = u.numsf
      /\ w.onOuter = u.onOuter /\ w.outv = u.outv /\ w.oute = u.oute /\ w.seqp = u.seqp
      /\ w.isSf = u.isSf /\ w.inF = u.inF /\ w.updF = u.updF /\ w.updV = u.updV
      /\ w.possE = u.possE /\ w.fLink = u.fLink /\ w.vLink = u.vLink /\ w.eLink = u.eLink
      /\ w.dangling = u.dangling
  BY <1>2, <1>3
<1>5. w.possF = u.possF \ {f} /\ w.possV = u.possV \ {}
  BY <1>2, <1>3
<1>6. /\ w.virtSrc = [u.virtSrc EXCEPT ![f] = None]
      /\ w.outer = [u.outer EXCEPT ![f] = [v \in Nodes |-> 0]]
  BY <1>2, <1>3
<1>7. /\ u.virtSrc \in [DOMAIN E.faces -> Int]
      /\ u.outer \in [DOMAIN E.faces -> [E.nodes -> Int]]
  BY DEF IsState
<1>8. /\ w.virtSrc \in [DOMAIN E.faces -> Int]
      /\ \A h \in DOMAIN E.faces : w.virtSrc[h] = None
  BY <1>6, <1>7 DEF None
<1>9. /\ w.outer \in [DOMAIN E.faces -> [E.nodes -> Int]]
      /\ \A h \in Whole(E, T) : w.outer[h] = u.outer[h]
  <2>1. [v \in Nodes |-> 0] \in [E.nodes -> Int]
    BY DEF Nodes
  <2>2. \A h \in DOMAIN E.faces : h # f => w.outer[h] = u.outer[h]
    BY <1>6, <1>7
  <2> QED BY <1>6, <1>7, <2>1, <2>2 DEF Whole
<1>10. IsState(E, w)
  <2>1. /\ w.nextSucc \in [E.nodes -> Int] /\ w.prevPred \in [E.nodes -> Int]
        /\ w.contour \in Seq(E.nodes) /\ w.onOuter \subseteq E.nodes
    BY <1>4 DEF IsState
  <2>2. w.deg \in [E.nodes -> Int] /\ w.cutf \in [E.nodes -> Int] /\ w.numsf \in [E.nodes -> Int]
    BY <1>4 DEF IsState
  <2>3. /\ w.outv \in [DOMAIN E.faces -> Int] /\ w.oute \in [DOMAIN E.faces -> Int]
        /\ w.seqp \in [DOMAIN E.faces -> Int]
    BY <1>4 DEF IsState
  <2> QED BY <1>3, <1>8, <1>9, <2>1, <2>2, <2>3 DEF IsState
<1>11. w.possF = u.possF \ {f} /\ w.possV = u.possV \ {} /\ \A h \in DOMAIN E.faces : w.virtSrc[h] = None
  BY <1>5, <1>8
<1>12. \A h \in Whole(E, T) : w.outer[h] = u.outer[h]
  BY <1>9
<1> QED BY <1>4, <1>10, <1>11, <1>12, Zenon DEF Gone

(***************************************************************************)
(* The set that is found: put on the new contour d it gives the old one    *)
(* back, and it has all the edges that were left of its nodes.             *)
(***************************************************************************)
SetEdges(contour, S) ==
  {<< S.nodes[j], S.nodes[j + 1] >> : j \in 1..(Len(S.nodes) - 1)}
  \cup {<< S.left, Head(S.nodes) >>, << Last(S.nodes), S.right >>}
  \cup IF Len(S.nodes) > 1 THEN {} ELSE {<< v, S.nodes[1] >> : v \in ToSet(Covered(contour, S))}

EitherWay(edges, v, w) == << v, w >> \in edges \/ << w, v >> \in edges

PutBack(g, c, R, set, d) ==
  /\ set.nodes \in Path(g.nodes) /\ Len(set.nodes) >= 1 /\ ToSet(set.nodes) \subseteq ToSet(c)
  /\ OnContour(d, set) /\ PutOn(d, set) = c
  /\ \A v \in ToSet(set.nodes) : \A w \in Around(g, v) \ R : EitherWay(SetEdges(d, set), v, w)

SectionOf(c, a, z, set) ==
  /\ Len(set.nodes) = z - a - 1 /\ \A i \in 1..(z - a - 1) : set.nodes[i] = c[a + i]
  /\ set.left = c[a] /\ set.right = c[z]

LEMMA SectionIsPath ==
  ASSUME NEW V, NEW c \in Path(V), NEW a \in 1..Len(c), NEW z \in 1..Len(c), a < z,
         NEW set, set.nodes \in Seq(V), SectionOf(c, a, z, set)
  PROVE  set.nodes \in Path(V) /\ ToSet(set.nodes) \subseteq ToSet(c)
<1> DEFINE n == z - a - 1
           w == set.nodes
<1>1. /\ Len(c) \in Nat /\ \A v : v \in ToSet(c) <=> \E i \in 1..Len(c) : c[i] = v
      /\ \A i, j \in 1..Len(c) : c[i] = c[j] => i = j
  BY PathIndices
<1>2. n \in Nat /\ Len(w) = n /\ DOMAIN w = 1..n /\ \A i \in 1..n : w[i] = c[a + i]
  BY <1>1 DEF SectionOf
<1>3. \A i \in 1..n : a + i \in 1..Len(c)
  BY <1>1
<1> HIDE DEF n, w
<1>4. \A i, j \in DOMAIN w : w[i] = w[j] => i = j
  <2>1. ASSUME NEW i \in 1..n, NEW j \in 1..n, w[i] = w[j] PROVE i = j
    <3>1. c[a + i] = c[a + j] /\ a + i \in 1..Len(c) /\ a + j \in 1..Len(c)
      BY <1>2, <1>3, <2>1
    <3>2. a + i = a + j
      BY <1>1, <3>1
    <3> QED BY <1>2, <3>2
  <2> QED BY <1>2, <2>1
<1>5. ASSUME NEW v \in ToSet(w) PROVE v \in ToSet(c)
  <2>1. PICK i \in 1..n : w[i] = v
    BY <1>2, <1>5 DEF ToSet
  <2> QED BY <1>1, <1>2, <1>3, <2>1
<1>6. w \in Path(V)
  <2>1. w \in Seq(V)
    BY DEF w
  <2> QED BY <1>4, <2>1 DEF Path
<1> QED BY <1>5, <1>6 DEF w

LEMMA SectionBack ==
  ASSUME NEW V, NEW c \in Path(V), NEW P, NEW a, NEW z, Ends(c, a, z, P), P \in Path(V),
         NEW d \in Path(V), Splice(c, a, z, P, d),
         NEW set, set.nodes \in Seq(V), SectionOf(c, a, z, set)
  PROVE  FitsAt(d, set, a, a + Len(P) - 1) /\ OnContour(d, set) /\ PutOn(d, set) = c
<1> DEFINE q == Len(c)
           m == Len(P)
           r == Len(d)
           n == z - a - 1
           b == a + m - 1
           e == PutOn(d, set)
<1>1. /\ q \in Nat /\ m \in Nat /\ r \in Nat /\ DOMAIN c = 1..q
  BY PathIndices
<1>2. a \in 1..q /\ z \in 1..q /\ a < z /\ m >= 2 /\ P[1] = c[a] /\ P[m] = c[z]
  BY DEF Ends
<1>3. /\ r = a + m - 1 + (q - z)
      /\ \A i \in 1..a : d[i] = c[i]
      /\ \A j \in 1..m : d[a + j - 1] = P[j]
      /\ \A i \in z..q : d[i - z + a + m - 1] = c[i]
  BY DEF Splice
<1>4. /\ Len(set.nodes) = n /\ \A i \in 1..n : set.nodes[i] = c[a + i]
      /\ set.left = c[a] /\ set.right = c[z]
  BY DEF SectionOf
<1> HIDE DEF q, m, r
<1>5. FitsAt(d, set, a, b)
  <2>1. a \in 1..r /\ b \in 1..r /\ a < b
    BY <1>1, <1>2, <1>3
  <2>2. d[a] = c[a]
    BY <1>2, <1>3
  <2>3. d[b] = P[m]
    BY <1>1, <1>2, <1>3
  <2> QED BY <1>2, <1>4, <2>1, <2>2, <2>3 DEF FitsAt, r
<1>6. OnContour(d, set)
  BY <1>5, OnContourAt
<1>7. Placed(V, d, set, a, b, e, Len(set.nodes))
  BY <1>5, PutOnIndices
<1> HIDE DEF e
<1>8. /\ e \in Seq(V) /\ Len(e) = a + n + (r - b + 1)
      /\ \A i \in 1..a : e[i] = d[i]
      /\ \A i \in (a + 1)..(a + n) : e[i] = set.nodes[i - a]
      /\ \A i \in (a + n + 1)..Len(e) : e[i] = d[i - a - n + b - 1]
  BY <1>4, <1>7 DEF Placed, r
<1>9. Len(e) = q /\ a + n + 1 = z
  BY <1>1, <1>2, <1>3, <1>8
<1>10. ASSUME NEW i \in 1..q PROVE e[i] = c[i]
  <2>1. CASE i \in 1..a
    BY <1>3, <1>8, <2>1
  <2>2. CASE i \in (a + 1)..(a + n)
    <3>1. i - a \in 1..n /\ a + (i - a) = i
      BY <1>1, <1>2, <2>2
    <3> QED BY <1>4, <1>8, <2>2, <3>1
  <2>3. CASE i \in z..q
    <3>1. i \in (a + n + 1)..Len(e)
      BY <1>9, <2>3
    <3>2. i - a - n + b - 1 = i - z + a + m - 1
      BY <1>1, <1>2
    <3>3. e[i] = d[i - z + a + m - 1]
      BY <1>8, <3>1, <3>2
    <3> QED BY <1>3, <2>3, <3>3
  <2> QED BY <1>1, <1>2, <1>9, <2>1, <2>2, <2>3
<1>11. e = c
  <2>1. c \in Seq(V) /\ DOMAIN e = 1..q /\ DOMAIN c = 1..q
    BY <1>1, <1>8, <1>9, PathIndices
  <2> QED BY <1>8, <1>9, <1>10, <2>1, SeqEqual DEF q
<1> QED BY <1>5, <1>6, <1>11 DEF e, m

(* The edges of a chain.                                                   *)
LEMMA ChainEdges ==
  ASSUME NEW V, NEW c \in Path(V), NEW a \in 1..Len(c), NEW z \in 1..Len(c), a + 2 <= z,
         NEW set, set.nodes \in Seq(V), SectionOf(c, a, z, set), NEW contour, NEW i \in (a + 1)..(z - 1)
  PROVE  << c[i - 1], c[i] >> \in SetEdges(contour, set) /\ << c[i], c[i + 1] >> \in SetEdges(contour, set)
<1> DEFINE n == z - a - 1
           k == i - a
           X == SetEdges(contour, set)
           w == set.nodes
<1>1. Len(c) \in Nat
  BY PathIndices
<1>2. n \in Nat /\ n >= 1 /\ k \in 1..n /\ a + k = i
  BY <1>1
<1>3. w \in Seq(V) /\ Len(w) = n /\ (\A j \in 1..n : w[j] = c[a + j]) /\ set.left = c[a] /\ set.right = c[z]
  BY DEF SectionOf
<1>4. /\ \A j \in 1..(n - 1) : << w[j], w[j + 1] >> \in X
      /\ << set.left, Head(w) >> \in X /\ << Last(w), set.right >> \in X
  BY <1>3 DEF SetEdges
<1>5. Head(w) = w[1] /\ Last(w) = w[n]
  BY <1>2, <1>3 DEF Last
<1> HIDE DEF X, w
<1>6. << c[i - 1], c[i] >> \in X
  <2>1. CASE k = 1
    <3>1. i - 1 = a /\ w[1] = c[i]
      BY <1>1, <1>2, <1>3, <2>1
    <3>2. c[i - 1] = set.left /\ c[i] = Head(w)
      BY <1>3, <1>5, <3>1
    <3> QED BY <1>4, <3>2
  <2>2. CASE k # 1
    <3>1. k - 1 \in 1..(n - 1) /\ k - 1 \in 1..n /\ (k - 1) + 1 = k /\ a + (k - 1) = i - 1
      BY <1>1, <1>2, <2>2
    <3>2. w[k - 1] = c[i - 1] /\ w[k] = c[i]
      BY <1>2, <1>3, <3>1
    <3>3. << w[k - 1], w[(k - 1) + 1] >> \in X
      BY <1>4, <3>1
    <3> QED BY <3>1, <3>2, <3>3
  <2> QED BY <2>1, <2>2
<1>7. << c[i], c[i + 1] >> \in X
  <2>1. CASE k = n
    <3>1. i + 1 = z /\ w[n] = c[i]
      BY <1>1, <1>2, <1>3, <2>1
    <3>2. c[i + 1] = set.right /\ c[i] = Last(w)
      BY <1>3, <1>5, <3>1
    <3> QED BY <1>4, <3>2
  <2>2. CASE k # n
    <3>1. k \in 1..(n - 1) /\ k + 1 \in 1..n /\ a + (k + 1) = i + 1
      BY <1>1, <1>2, <2>2
    <3>2. w[k] = c[i] /\ w[k + 1] = c[i + 1]
      BY <1>2, <1>3, <3>1
    <3> QED BY <1>4, <3>1, <3>2
  <2> QED BY <2>1, <2>2
<1> QED BY <1>6, <1>7 DEF X

(* The chain of a face ...                                                 *)
LEMMA FacePutBack ==
  ASSUME IsEmbedding(E), BaseShape(E, base), NEW c, NEW R, ContourShape(E, base, c, R),
         NEW f, NEW a, NEW z, FaceRun(E, c, R, f, a, z), NEW P, NEW d,
         Grown(E, base, c, R, Hidden(c, a, z), a, z, P, d),
         NEW set, set.nodes \in Seq(E.nodes), SectionOf(c, a, z, set), ToSet(set.nodes) = Hidden(c, a, z)
  PROVE  PutBack(E, c, R, set, d)
<1>1. c \in Path(E.nodes) /\ Len(c) \in Nat
  BY PathIndices DEF ContourShape
<1>2. a \in 1..Len(c) /\ z \in 1..Len(c) /\ a + 2 <= z /\ a < z
  BY <1>1 DEF FaceRun
<1>3. Ends(c, a, z, P) /\ P \in Path(E.nodes)
  BY DEF Grown, Swept
<1>4. ContourShape(E, base, d, R \cup Hidden(c, a, z)) /\ Splice(c, a, z, P, d)
  BY GrownShape
<1>5. d \in Path(E.nodes)
  BY <1>4 DEF ContourShape
<1>6. set.nodes \in Path(E.nodes) /\ ToSet(set.nodes) \subseteq ToSet(c)
  BY <1>1, <1>2, SectionIsPath
<1>7. OnContour(d, set) /\ PutOn(d, set) = c
  BY <1>1, <1>3, <1>4, <1>5, SectionBack
<1>8. Len(set.nodes) >= 1
  BY <1>1, <1>2 DEF SectionOf
<1>9. ASSUME NEW v \in ToSet(set.nodes), NEW w \in Around(E, v) \ R PROVE EitherWay(SetEdges(d, set), v, w)
  <2>1. PICK i \in (a + 1)..(z - 1) : c[i] = v
    BY DEF Hidden
  <2>2. Around(E, c[i]) \ R = {c[i - 1], c[i + 1]}
    BY RunInner
  <2>3. << c[i - 1], c[i] >> \in SetEdges(d, set) /\ << c[i], c[i + 1] >> \in SetEdges(d, set)
    BY <1>1, <1>2, ChainEdges
  <2>4. w = c[i - 1] \/ w = c[i + 1]
    BY <1>9, <2>1, <2>2
  <2> QED BY <2>1, <2>3, <2>4 DEF EitherWay
<1> QED BY <1>6, <1>7, <1>8, <1>9 DEF PutBack

(* removeNextFace and doUpdate keep the state valid.                       *)
Taken(g, b, c, R, set, u) ==
  /\ set \in [nodes : Seq(g.nodes), left : g.nodes \cup {None}, right : g.nodes \cup {None}]
  /\ u.updF = {} /\ u.updV = {}
  /\ \E d : Valid(g, b, u, R \cup ToSet(set.nodes), d) /\ PutBack(g, c, R, set, d)

LEMMA FaceTaken ==
  ASSUME IsEmbedding(E), BaseShape(E, base), NEW R, NEW c, Valid(E, base, s, R, c),
         s.updF = {}, s.updV = {}, NEW f \in s.possF, NEW cl \in getFaceCl(s, f),
         NEW u, u = doUpdate([removeNextFace(f, cl)[2] EXCEPT !.possF = @ \ {f}])
  PROVE  Taken(E, base, c, R, removeNextFace(f, cl)[1], u)
<1>1. /\ ContourShape(E, base, c, R) /\ IsState(E, s) /\ s.contour = c /\ Linked(E, s, c, R)
      /\ EdgesUnmarked(s)
  BY DEF Valid
<1>2. \E a, z \in 1..Len(c) : IsRun(E, s, c, R, f, a, z)
  BY PossRun
<1>3. PICK a \in 1..Len(c), z \in 1..Len(c) : IsRun(E, s, c, R, f, a, z)
  BY <1>2
<1>4. FaceRun(E, c, R, f, a, z)
  BY <1>3 DEF IsRun
<1>5. ChainOf(s, c, f, a, z)
  BY <1>3, RunIsChain
<1>6. cl = c[a] /\ ChainRight(s, cl) = c[z] /\ rightOf(s, cl) = f
  BY <1>5 DEF ChainOf
<1> DEFINE D == Hidden(c, a, z)
           P == BackTo(f, c[a], c[z])
           d == SpliceOf(c, P)
           t1 == FaceGone(c[a], c[z], P)
           t0 == EdgesToContour(t1, P)
           u1 == PathToContour(t0, P)
           x == [u1 EXCEPT !.virtSrc[f] = None, !.outer[f] = [v \in Nodes |-> 0]]
           w == [x EXCEPT !.possF = @ \ {f}]
           set == Set(Between(s, c[a], c[z]), c[a], c[z])
<1>7. s.virtSrc[f] = None
  BY <1>1, <1>4 DEF Linked, FaceRun, Whole
<1>8. removeNextFace(f, cl) = << set, x >>
  <2>1. removeNextFace(f, cl) = << Set(Between(s, cl, ChainRight(s, cl)), cl, ChainRight(s, cl)),
             TakeFace(f, cl, ChainRight(s, cl), BackTo(rightOf(s, cl), cl, ChainRight(s, cl)), s.virtSrc[f]) >>
    BY DEF removeNextFace
  <2>2. removeNextFace(f, cl) = << set, TakeFace(f, c[a], c[z], P, None) >>
    BY <1>6, <1>7, <2>1
  <2>3. TakeFace(f, c[a], c[z], P, None) = FaceFound(f, c[a], c[z], P)
    BY TakeFaceIs
  <2>4. FaceFound(f, c[a], c[z], P) = x
    BY DEF FaceFound
  <2> QED BY <2>2, <2>3, <2>4
<1>9. FacePath(E, c, f, a, z, P)
  BY <1>1, <1>4, RunPath
<1>10. Grown(E, base, c, R, D, a, z, P, d)
  BY <1>1, <1>4, RunGrows
<1>11. P \in Path(E.nodes) /\ Len(P) >= 2 /\ ToSet(P) \subseteq OnFace(E, f)
  BY <1>9 DEF FacePath, Ends
<1>12. \A j \in 1..(Len(P) - 1) : P[j + 1] \in Around(E, P[j])
  <2>1. \A j \in 1..(Len(P) - 1) : Entry(E, P[j + 1], P[j], f)
    BY <1>9 DEF FacePath
  <2> QED BY <2>1, EntryFacts
<1>13. /\ c[a] \in E.nodes /\ c[z] \in E.nodes /\ c[a] # c[z]
       /\ Between(s, c[a], c[z]) \in Seq(E.nodes) /\ ToSet(Between(s, c[a], c[z])) = D
       /\ Len(Between(s, c[a], c[z])) = z - a - 1
       /\ \A i \in 1..(z - a - 1) : Between(s, c[a], c[z])[i] = c[a + i]
  <2>1. c \in Path(E.nodes)
    BY <1>1 DEF ContourShape
  <2>2. a + 2 <= z /\ Len(c) \in Nat
    BY <1>4, <2>1, PathIndices DEF FaceRun
  <2>3. c[a] \in E.nodes /\ c[z] \in E.nodes /\ c[a] # c[z]
    <3>1. a # z
      BY <2>2
    <3>2. c[a] \in E.nodes /\ c[z] \in E.nodes
      BY <2>1, PathIndices
    <3>3. \A i, j \in 1..Len(c) : c[i] = c[j] => i = j
      BY <2>1, PathIndices
    <3> QED BY <3>1, <3>2, <3>3
  <2>4. a < z
    BY <2>2
  <2> QED BY <1>1, <2>1, <2>3, <2>4, RunBetween
<1> HIDE DEF D, P, d, t1, t0, u1, x, w, set
<1>14. ToSet(P) \subseteq E.nodes
  <2>1. \A v : v \in ToSet(P) => \E j \in 1..Len(P) : P[j] = v
    BY <1>11, PathIndices
  <2>2. \A j \in 1..Len(P) : P[j] \in E.nodes
    BY <1>11, PathIndices
  <2> QED BY <2>1, <2>2
<1>15. GoneFields(E, s, c[a], c[z], P, t1)
  BY <1>1, <1>13, <1>14, FaceGoneFields DEF EdgesUnmarked, t1
<1>16. EdgesStep(E, t1, P, t0)
  <2>1. IsState(E, t1)
    BY <1>15 DEF GoneFields
  <2> QED BY <1>11, <1>12, <2>1, PathEdges DEF t0
<1>17. FaceStep(E, s, c[a], c[z], P, t0)
  BY <1>15, <1>16, FaceStepIs
<1>18. Ready(E, base, t0, R \cup D, c, d, P, {f}, {})
  BY <1>3, <1>10, <1>17, FaceReady DEF D
<1>19. IsState(E, t0) /\ t0.contour = c /\ Linked(E, t0, d, R \cup D)
  BY <1>18 DEF Ready
<1>20. PathStep(E, base, d, R \cup D, P, t0, u1)
  BY <1>10, <1>19, PathSteps DEF u1
<1>21. Gone(E, R \cup D, {f}, {}, u1, w)
  <2>1. f \in DOMAIN E.faces /\ f \notin Whole(E, R \cup D)
    <3>1. Whole(E, R \cup D) = Whole(E, R) \ {f}
      BY <1>1, <1>4, RunLeavesOthers DEF D
    <3> QED BY <1>4, <3>1 DEF FaceRun, Whole
  <2>2. IsState(E, u1) /\ \A h \in DOMAIN E.faces : u1.virtSrc[h] = None
    <3>1. IsState(E, u1) /\ Linked(E, u1, d, R \cup D)
      BY <1>20 DEF PathStep
    <3> QED BY <3>1 DEF Linked
  <2>3. x = [u1 EXCEPT !.virtSrc[f] = None, !.outer[f] = [v \in Nodes |-> 0]] /\ w = [x EXCEPT !.possF = @ \ {f}]
    BY DEF x, w
  <2> QED BY <2>1, <2>2, <2>3, FoundIsGone
<1>22. Valid(E, base, w, R \cup D, d)
  BY <1>10, <1>18, <1>20, <1>21, GrownValid
<1>23. u = doUpdate(w)
  BY <1>8 DEF w
<1>24. Valid(E, base, u, R \cup D, d) /\ u.updF = {} /\ u.updV = {}
  BY <1>22, <1>23, UpdateIsComplete
<1>25. removeNextFace(f, cl)[1] = set
  BY <1>8
<1>26. /\ set \in [nodes : Seq(E.nodes), left : E.nodes \cup {None}, right : E.nodes \cup {None}]
       /\ ToSet(set.nodes) = D
  BY <1>13 DEF set, Set
<1>27. PutBack(E, c, R, set, d)
  <2>1. set.nodes \in Seq(E.nodes) /\ SectionOf(c, a, z, set)
    BY <1>13 DEF set, Set, SectionOf
  <2>2. ToSet(set.nodes) = Hidden(c, a, z)
    BY <1>26 DEF D
  <2> QED BY <1>1, <1>4, <1>10, <2>1, <2>2, FacePutBack DEF D
<1> QED BY <1>24, <1>25, <1>26, <1>27 DEF Taken
=============================================================================
