--------------------------- MODULE ShellingSetsProofs ---------------------------
(***************************************************************************)
(* Lemmas about numbers, paths, contours and the sets that are put on      *)
(* them, for any graph.  The induction theorems of the library take the    *)
(* formula they prove as an operator; here induction is stated about sets  *)
(* of numbers, from the well-foundedness of the strict subset ordering.    *)
(***************************************************************************)
EXTENDS ShellingSets, FiniteSetTheorems, SequenceTheorems, TLAPS

-----------------------------------------------------------------------------
(***************************************************************************)
(* Induction.                                                              *)
(***************************************************************************)
LEMMA LeastNumber ==
  ASSUME NEW T \in SUBSET Nat, T # {}
  PROVE  \E m \in T : \A n \in T : m <= n
<1> DEFINE U == {0..n : n \in T}
           R == StrictSubsetOrdering(Nat)
<1>1. U \subseteq FiniteSubsetsOf(Nat) /\ U # {}
  <2>1. ASSUME NEW n \in T PROVE IsFiniteSet(0..n)
    BY FS_Interval
  <2>2. \A u \in U : IsFiniteSet(u) /\ u \subseteq Nat
    BY <2>1
  <2>3. U # {}
    OBVIOUS
  <2> HIDE DEF U
  <2> QED BY <2>2, <2>3 DEF FiniteSubsetsOf
<1>2. \E u \in U : \A w \in U : << w, u >> \notin R
  BY <1>1, FS_StrictSubsetOrderingWellFounded, WFMin
<1>3. PICK m \in T : \A w \in U : << w, 0..m >> \notin R
  BY <1>2
<1>4. ASSUME NEW n \in T, n < m PROVE FALSE
  <2>1. << 0..n, 0..m >> \in R
    BY <1>4 DEF StrictSubsetOrdering
  <2> QED BY <1>3, <2>1
<1> QED BY <1>3, <1>4

LEMMA Upwards ==
  ASSUME NEW lo \in Int, NEW hi \in Int, NEW T, lo \in T,
         \A i \in lo..(hi - 1) : i \in T => i + 1 \in T
  PROVE  \A i \in lo..hi : i \in T
<1> DEFINE M == {n \in Nat : lo + n <= hi /\ lo + n \notin T}
<1> SUFFICES ASSUME M # {} PROVE FALSE
  <2>1. ASSUME NEW i \in lo..hi, i \notin T PROVE i - lo \in M
    BY <2>1
  <2> QED BY <2>1
<1>1. PICK m \in M : \A n \in M : m <= n
  <2> HIDE DEF M
  <2>1. M \in SUBSET Nat
    BY DEF M
  <2> QED BY <2>1, LeastNumber
<1>2. m # 0
  BY <1>1
<1>3. m - 1 \in Nat /\ m - 1 \notin M
  BY <1>1, <1>2
<1>4. lo + (m - 1) \in T
  BY <1>3, <1>1
<1> QED BY <1>1, <1>3, <1>4

LEMMA Downwards ==
  ASSUME NEW lo \in Int, NEW hi \in Int, NEW T, hi \in T,
         \A i \in (lo + 1)..hi : i \in T => i - 1 \in T
  PROVE  \A i \in lo..hi : i \in T
<1> DEFINE U == {n \in Int : hi - n \in T}
<1>1. 0 \in U
  OBVIOUS
<1>2. \A n \in 0..(hi - lo - 1) : n \in U => n + 1 \in U
  <2> SUFFICES ASSUME NEW n \in 0..(hi - lo - 1), hi - n \in T PROVE hi - (n + 1) \in T
    OBVIOUS
  <2>1. hi - n \in (lo + 1)..hi /\ (hi - n) - 1 = hi - (n + 1)
    OBVIOUS
  <2> QED BY <2>1
<1>3. \A n \in 0..(hi - lo) : n \in U
  <2>1. 0 \in Int /\ hi - lo \in Int
    OBVIOUS
  <2> HIDE DEF U
  <2> QED BY <1>1, <1>2, <2>1, Upwards
<1>4. ASSUME NEW i \in lo..hi PROVE i \in T
  <2>1. hi - i \in 0..(hi - lo) /\ hi - (hi - i) = i
    OBVIOUS
  <2> QED BY <1>3, <2>1
<1> QED BY <1>4

(* Max and Min of what is bounded.                                         *)
LEMMA BoundedMin ==
  ASSUME NEW T \in SUBSET Int, T # {}, NEW b \in Int, \A i \in T : b <= i
  PROVE  Min(T) \in T /\ \A i \in T : Min(T) <= i
<1> DEFINE U == {n \in Nat : b + n \in T}
<1>1. U # {}
  <2>1. PICK i \in T : TRUE
    OBVIOUS
  <2>2. i - b \in Nat /\ b + (i - b) = i
    OBVIOUS
  <2> QED BY <2>1, <2>2
<1>2. PICK m \in U : \A n \in U : m <= n
  <2> HIDE DEF U
  <2>1. U \in SUBSET Nat
    BY DEF U
  <2> QED BY <1>1, <2>1, LeastNumber
<1>3. ASSUME NEW i \in T PROVE b + m <= i
  <2>1. i - b \in U
    OBVIOUS
  <2> QED BY <1>2, <2>1
<1>4. b + m \in T /\ \A i \in T : b + m <= i
  BY <1>2, <1>3
<1> HIDE DEF U
<1>5. \E k \in T : \A i \in T : k =< i
  BY <1>4
<1> QED BY <1>5 DEF Min

LEMMA BoundedMax ==
  ASSUME NEW T \in SUBSET Int, T # {}, NEW b \in Int, \A i \in T : i <= b
  PROVE  Max(T) \in T /\ \A i \in T : i <= Max(T)
<1> DEFINE U == {n \in Nat : b - n \in T}
<1>1. U # {}
  <2>1. PICK i \in T : TRUE
    OBVIOUS
  <2>2. b - i \in Nat /\ b - (b - i) = i
    OBVIOUS
  <2> QED BY <2>1, <2>2
<1>2. PICK m \in U : \A n \in U : m <= n
  <2> HIDE DEF U
  <2>1. U \in SUBSET Nat
    BY DEF U
  <2> QED BY <1>1, <2>1, LeastNumber
<1>3. ASSUME NEW i \in T PROVE i <= b - m
  <2>1. b - i \in U
    OBVIOUS
  <2>2. m \in Nat /\ i \in Int /\ m <= b - i
    BY <1>2, <2>1
  <2> QED BY <2>2
<1>4. b - m \in T /\ \A i \in T : b - m >= i
  BY <1>2, <1>3
<1> HIDE DEF U
<1>5. \E k \in T : \A i \in T : k >= i
  BY <1>4
<1> QED BY <1>5 DEF Max

LEMMA MaxOfTwo ==
  ASSUME NEW i \in Int, NEW j \in Int
  PROVE  Max({i, j}) = IF i >= j THEN i ELSE j
<1>1. \E b \in Int : \A n \in {i, j} : n <= b
  <2>1. CASE i >= j
    BY <2>1
  <2>2. CASE ~ i >= j
    BY <2>2
  <2> QED BY <2>1, <2>2
<1>2. Max({i, j}) \in {i, j} /\ \A n \in {i, j} : n <= Max({i, j})
  <2> DEFINE T == {i, j}
  <2>1. T \in SUBSET Int /\ T # {} /\ \E b \in Int : \A n \in T : n <= b
    BY <1>1
  <2> HIDE DEF T
  <2>2. Max(T) \in T /\ \A n \in T : n <= Max(T)
    BY <2>1, BoundedMax
  <2> QED BY <2>2 DEF T
<1> QED BY <1>2

(* The greatest of finitely many values.                                   *)
LEMMA MaxOfValues ==
  ASSUME NEW n \in Nat \ {0}, NEW f, \A i \in 1..n : f[i] \in Int
  PROVE  /\ \E i \in 1..n : Max({f[j] : j \in 1..n}) = f[i]
         /\ \A i \in 1..n : f[i] <= Max({f[j] : j \in 1..n})
<1> DEFINE T == {m \in Int : \E b \in Int : \A i \in 1..m : f[i] <= b}
           V == {f[j] : j \in 1..n}
<1>1. 1 \in T
  <2>1. f[1] \in Int /\ \A i \in 1..1 : f[i] <= f[1]
    OBVIOUS
  <2> QED BY <2>1
<1>2. ASSUME NEW m \in 1..(n - 1), m \in T PROVE m + 1 \in T
  <2>1. PICK b \in Int : \A i \in 1..m : f[i] <= b
    BY <1>2
  <2>2. f[m + 1] \in Int
    OBVIOUS
  <2>3. \A i \in 1..(m + 1) : i \in 1..m \/ i = m + 1
    OBVIOUS
  <2>4. CASE f[m + 1] <= b
    <3>1. \A i \in 1..(m + 1) : f[i] <= b
      BY <2>1, <2>3, <2>4
    <3> QED BY <3>1
  <2>5. CASE ~ f[m + 1] <= b
    <3>1. \A i \in 1..(m + 1) : f[i] <= f[m + 1]
      BY <2>1, <2>2, <2>3, <2>5
    <3> QED BY <2>2, <3>1
  <2> QED BY <2>4, <2>5
<1>3. n \in T
  <2> HIDE DEF T
  <2>1. 1 \in Int /\ n \in Int /\ n \in 1..n
    OBVIOUS
  <2> QED BY <1>1, <1>2, <2>1, Upwards
<1>4. PICK b \in Int : \A i \in 1..n : f[i] <= b
  BY <1>3
<1>5. V \in SUBSET Int /\ V # {} /\ \A i \in V : i <= b
  BY <1>4
<1>6. Max(V) \in V /\ \A i \in V : i <= Max(V)
  <2> HIDE DEF V
  <2> QED BY <1>5, BoundedMax
<1> QED BY <1>6

-----------------------------------------------------------------------------
(***************************************************************************)
(* A contour visits no node twice.                                         *)
(***************************************************************************)
Path(V) == {path \in Seq(V) : \A i, j \in DOMAIN path : path[i] = path[j] => i = j}

LEMMA PathIndices ==
  ASSUME NEW V, NEW path \in Path(V)
  PROVE  /\ path \in Seq(V) /\ Len(path) \in Nat
         /\ DOMAIN path = 1..Len(path)
         /\ \A i \in 1..Len(path) : path[i] \in V
         /\ \A i, j \in 1..Len(path) : path[i] = path[j] => i = j
         /\ \A v : v \in ToSet(path) <=> \E i \in 1..Len(path) : path[i] = v
<1>1. path \in Seq(V)
  BY DEF Path
<1>2. /\ DOMAIN path = 1..Len(path) /\ Len(path) \in Nat
      /\ \A i \in 1..Len(path) : path[i] \in V
  BY <1>1, LenProperties, ElementOfSeq
<1> QED BY <1>1, <1>2 DEF Path, ToSet

LEMMA AtIndex ==
  ASSUME NEW V, NEW path \in Path(V), NEW i \in 1..Len(path)
  PROVE  At(path, path[i]) = i
<1>1. \A j \in DOMAIN path : path[j] = path[i] => j = i
  BY PathIndices
<1>2. i \in DOMAIN path
  BY PathIndices
<1> QED BY <1>1, <1>2 DEF At

LEMMA AtOfMember ==
  ASSUME NEW V, NEW path \in Path(V), NEW v \in ToSet(path)
  PROVE  At(path, v) \in 1..Len(path) /\ path[At(path, v)] = v
<1>1. PICK i \in 1..Len(path) : path[i] = v
  BY PathIndices
<1> QED BY <1>1, AtIndex

(* A set fits between the a-th and the b-th node of a contour.             *)
FitsAt(path, S, a, b) ==
  /\ a \in 1..Len(path) /\ b \in 1..Len(path)
  /\ a < b
  /\ path[a] = S.left /\ path[b] = S.right

LEMMA OnContourAt ==
  ASSUME NEW V, NEW path \in Path(V), NEW S
  PROVE  /\ OnContour(path, S) => \E a, b \in 1..Len(path) : FitsAt(path, S, a, b)
         /\ \A a, b : FitsAt(path, S, a, b) =>
              /\ OnContour(path, S)
              /\ At(path, S.left) = a /\ At(path, S.right) = b
<1>1. ASSUME OnContour(path, S)
      PROVE  \E a, b \in 1..Len(path) : FitsAt(path, S, a, b)
  BY <1>1, AtOfMember DEF OnContour, FitsAt
<1>2. ASSUME NEW a, NEW b, FitsAt(path, S, a, b)
      PROVE  OnContour(path, S) /\ At(path, S.left) = a /\ At(path, S.right) = b
  <2>1. S.left \in ToSet(path) /\ S.right \in ToSet(path)
    BY <1>2, PathIndices DEF FitsAt
  <2>2. At(path, S.left) = a /\ At(path, S.right) = b
    BY <1>2, AtIndex DEF FitsAt
  <2> QED BY <1>2, <2>1, <2>2 DEF OnContour, FitsAt
<1> QED BY <1>1, <1>2

(* Where the nodes of a contour are after a set was put on it between its  *)
(* a-th and its b-th node.                                                 *)
Placed(V, path, S, a, b, d, n) ==
  /\ d \in Seq(V) /\ n \in Nat
  /\ Len(d) = a + n + (Len(path) - b + 1)
  /\ \A i \in 1..a : d[i] = path[i]
  /\ \A i \in (a + 1)..(a + n) : d[i] = S.nodes[i - a]
  /\ \A i \in (a + n + 1)..Len(d) : d[i] = path[i - a - n + b - 1]

LEMMA PutOnIndices ==
  ASSUME NEW V, NEW path \in Path(V), NEW S, S.nodes \in Seq(V),
         NEW a, NEW b, FitsAt(path, S, a, b)
  PROVE  Placed(V, path, S, a, b, PutOn(path, S), Len(S.nodes))
<1> DEFINE n == Len(S.nodes)
           d == PutOn(path, S)
           low == SubSeq(path, 1, a)
           high == SubSeq(path, b, Len(path))
<1>0. a \in 1..Len(path) /\ b \in 1..Len(path) /\ a < b
  BY DEF FitsAt
<1>1. OnContour(path, S) /\ At(path, S.left) = a /\ At(path, S.right) = b
  BY OnContourAt
<1>2. d = low \o S.nodes \o high
  BY <1>1 DEF PutOn
<1>3. Len(path) \in Nat /\ path \in Seq(V) /\ \A i \in 1..Len(path) : path[i] \in V
  BY PathIndices
<1>4. /\ low \in Seq(V) /\ Len(low) = a /\ \A i \in 1..a : low[i] = path[i]
  <2>1. \A i \in 1..a : path[i] \in V
    BY <1>0, <1>3
  <2> QED BY <1>0, <2>1, SubSeqProperties
<1>5. /\ high \in Seq(V) /\ Len(high) = Len(path) - b + 1
      /\ \A i \in 1..(Len(path) - b + 1) : high[i] = path[b + i - 1]
  <2>1. \A i \in b..Len(path) : path[i] \in V
    BY <1>0, <1>3
  <2> QED BY <1>0, <1>3, <2>1, SubSeqProperties
<1>6. n \in Nat
  BY LenProperties
<1> HIDE DEF low, high, n
<1>7. /\ low \o S.nodes \in Seq(V) /\ Len(low \o S.nodes) = a + n
      /\ \A i \in 1..(a + n) : (low \o S.nodes)[i] = IF i <= a THEN low[i] ELSE S.nodes[i - a]
  BY <1>0, <1>4, ConcatProperties DEF n
<1> DEFINE front == low \o S.nodes
<1> HIDE DEF front
<1>8. /\ d \in Seq(V) /\ Len(d) = a + n + (Len(path) - b + 1)
      /\ \A i \in 1..Len(d) : d[i] = IF i <= a + n THEN front[i] ELSE high[i - (a + n)]
  <2>1. d = front \o high
    BY <1>2 DEF front
  <2> HIDE DEF d
  <2>2. front \in Seq(V) /\ Len(front) = a + n /\ high \in Seq(V) /\ Len(high) = Len(path) - b + 1
    BY <1>5, <1>7 DEF front
  <2>3. /\ front \o high \in Seq(V) /\ Len(front \o high) = Len(front) + Len(high)
        /\ \A i \in 1..(Len(front) + Len(high)) : (front \o high)[i] =
             IF i <= Len(front) THEN front[i] ELSE high[i - Len(front)]
    BY <2>2, ConcatProperties
  <2> QED BY <2>1, <2>2, <2>3
<1> HIDE DEF d
<1>9. \A i \in 1..a : d[i] = path[i]
  <2> SUFFICES ASSUME NEW i \in 1..a PROVE d[i] = path[i]
    OBVIOUS
  <2>1. i <= a /\ i <= a + n /\ i \in 1..(a + n) /\ i \in 1..Len(d)
    BY <1>0, <1>3, <1>6, <1>8
  <2>2. d[i] = front[i]
    BY <1>8, <2>1
  <2>3. front[i] = low[i]
    BY <1>7, <2>1 DEF front
  <2> QED BY <1>4, <2>2, <2>3
<1>10. \A i \in (a + 1)..(a + n) : d[i] = S.nodes[i - a]
  <2> SUFFICES ASSUME NEW i \in (a + 1)..(a + n) PROVE d[i] = S.nodes[i - a]
    OBVIOUS
  <2>1. ~ i <= a /\ i <= a + n /\ i \in 1..(a + n) /\ i \in 1..Len(d)
    BY <1>0, <1>3, <1>6, <1>8
  <2>2. d[i] = front[i]
    BY <1>8, <2>1
  <2>3. front[i] = S.nodes[i - a]
    BY <1>7, <2>1 DEF front
  <2> QED BY <2>2, <2>3
<1>11. \A i \in (a + n + 1)..Len(d) : d[i] = path[i - a - n + b - 1]
  <2> SUFFICES ASSUME NEW i \in (a + n + 1)..Len(d) PROVE d[i] = path[i - a - n + b - 1]
    OBVIOUS
  <2>1. i - (a + n) \in 1..(Len(path) - b + 1) /\ ~ i <= a + n /\ i \in 1..Len(d)
    BY <1>0, <1>3, <1>6, <1>8
  <2>2. d[i] = high[i - (a + n)]
    BY <1>8, <2>1
  <2>3. high[i - (a + n)] = path[b + (i - (a + n)) - 1]
    BY <1>5, <2>1
  <2>4. b + (i - (a + n)) - 1 = i - a - n + b - 1
    BY <1>0, <1>3, <1>6, <1>8
  <2> QED BY <2>2, <2>3, <2>4
<1> QED BY <1>6, <1>8, <1>9, <1>10, <1>11 DEF n, d, Placed

(* A set that shares no node with the contour and fits on it.              *)
PutOnOK(V, path, S) ==
  /\ path \in Path(V)
  /\ S.nodes \in Path(V) /\ S.nodes # << >>
  /\ ToSet(S.nodes) \cap ToSet(path) = {}
  /\ OnContour(path, S)

(* What is covered are the nodes between the two places.                   *)
BetweenPlaces(V, path, a, b, cov) ==
  /\ cov \in Seq(V)
  /\ Len(cov) = b - a - 1
  /\ \A i \in 1..(b - a - 1) : cov[i] = path[a + i]

LEMMA CoveredIndices ==
  ASSUME NEW V, NEW path \in Path(V), NEW S, NEW a, NEW b, FitsAt(path, S, a, b)
  PROVE  BetweenPlaces(V, path, a, b, Covered(path, S))
<1>0. /\ a \in 1..Len(path) /\ b \in 1..Len(path) /\ a < b
      /\ Len(path) \in Nat /\ path \in Seq(V) /\ \A i \in 1..Len(path) : path[i] \in V
  BY PathIndices DEF FitsAt
<1>1. Covered(path, S) = SubSeq(path, a + 1, b - 1)
  BY OnContourAt DEF Covered
<1>2. \A i \in (a + 1)..(b - 1) : path[i] \in V
  BY <1>0
<1>3. /\ SubSeq(path, a + 1, b - 1) \in Seq(V)
      /\ Len(SubSeq(path, a + 1, b - 1)) = b - a - 1
      /\ \A i \in 1..(b - a - 1) : SubSeq(path, a + 1, b - 1)[i] = path[a + 1 + i - 1]
  BY <1>0, <1>2, SubSeqProperties
<1>4. \A i \in 1..(b - a - 1) : a + 1 + i - 1 = a + i
  BY <1>0
<1> QED BY <1>1, <1>3, <1>4 DEF BetweenPlaces

(* The nodes of the new contour d, one by one: those of the set, and those *)
(* of the old contour that are not between the two places.                 *)
Spliced(V, path, S, a, b, d) ==
  LET n == Len(S.nodes)
  IN /\ d \in Seq(V) /\ n \in Nat \ {0} /\ Len(d) \in Nat
     /\ Len(d) = a + n + (Len(path) - b + 1)
     /\ \A i \in 1..Len(d) :
          \/ \E q \in 1..n : i = a + q /\ d[i] = S.nodes[q]
          \/ \E q \in 1..Len(path) :
               /\ q <= a \/ q >= b
               /\ i = IF q <= a THEN q ELSE q - b + 1 + a + n
               /\ d[i] = path[q]
     /\ \A q \in 1..a : d[q] = path[q] /\ q \in 1..Len(d)
     /\ \A q \in 1..n : d[a + q] = S.nodes[q] /\ a + q \in 1..Len(d)
     /\ \A q \in b..Len(path) : d[q - b + 1 + a + n] = path[q] /\ q - b + 1 + a + n \in 1..Len(d)

LEMMA PutOnNodes ==
  ASSUME NEW V, NEW path, NEW S, PutOnOK(V, path, S), NEW a, NEW b, FitsAt(path, S, a, b)
  PROVE  Spliced(V, path, S, a, b, PutOn(path, S))
<1> DEFINE n == Len(S.nodes)
           d == PutOn(path, S)
<1>1. path \in Path(V) /\ S.nodes \in Seq(V)
  BY DEF PutOnOK, Path
<1>2. n \in Nat \ {0}
  <2>1. S.nodes # << >>
    BY DEF PutOnOK
  <2> QED BY <1>1, <2>1, EmptySeq, LenProperties
<1>3. a \in 1..Len(path) /\ b \in 1..Len(path) /\ a < b /\ Len(path) \in Nat
  BY <1>1, PathIndices DEF FitsAt
<1>4. /\ d \in Seq(V)
      /\ Len(d) = a + n + (Len(path) - b + 1)
      /\ \A i \in 1..a : d[i] = path[i]
      /\ \A i \in (a + 1)..(a + n) : d[i] = S.nodes[i - a]
      /\ \A i \in (a + n + 1)..Len(d) : d[i] = path[i - a - n + b - 1]
  <2>1. Placed(V, path, S, a, b, PutOn(path, S), Len(S.nodes))
    BY <1>1, PutOnIndices
  <2> QED BY <2>1 DEF Placed
<1> HIDE DEF n, d
<1>5. ASSUME NEW i \in 1..Len(d)
      PROVE  \/ \E q \in 1..n : i = a + q /\ d[i] = S.nodes[q]
             \/ \E q \in 1..Len(path) :
                  /\ q <= a \/ q >= b
                  /\ i = IF q <= a THEN q ELSE q - b + 1 + a + n
                  /\ d[i] = path[q]
  <2>1. CASE i \in 1..a
    <3>1. i \in 1..Len(path) /\ i <= a /\ d[i] = path[i]
      BY <1>3, <1>4, <2>1
    <3> QED BY <3>1
  <2>2. CASE i \in (a + 1)..(a + n)
    <3>1. i - a \in 1..n /\ i = a + (i - a) /\ d[i] = S.nodes[i - a]
      BY <1>2, <1>3, <1>4, <2>2
    <3> QED BY <3>1
  <2>3. CASE i \in (a + n + 1)..Len(d)
    <3> DEFINE q == i - a - n + b - 1
    <3>1. d[i] = path[q]
      BY <1>4, <2>3
    <3>2. q \in 1..Len(path) /\ q >= b /\ ~ q <= a /\ i = q - b + 1 + a + n
      BY <1>2, <1>3, <1>4, <2>3
    <3> HIDE DEF q
    <3> QED BY <3>1, <3>2
  <2> QED BY <1>2, <1>3, <1>4, <2>1, <2>2, <2>3
<1>6. ASSUME NEW q \in 1..a PROVE d[q] = path[q] /\ q \in 1..Len(d)
  BY <1>2, <1>3, <1>4
<1>7. ASSUME NEW q \in 1..n PROVE d[a + q] = S.nodes[q] /\ a + q \in 1..Len(d)
  <2>1. a + q \in (a + 1)..(a + n) /\ a + q \in 1..Len(d) /\ (a + q) - a = q
    BY <1>2, <1>3, <1>4
  <2>2. d[a + q] = S.nodes[(a + q) - a]
    BY <1>4, <2>1
  <2> QED BY <2>1, <2>2
<1>8. ASSUME NEW q \in b..Len(path)
      PROVE  d[q - b + 1 + a + n] = path[q] /\ q - b + 1 + a + n \in 1..Len(d)
  <2> DEFINE i == q - b + 1 + a + n
  <2>1. i \in (a + n + 1)..Len(d) /\ i \in 1..Len(d) /\ i - a - n + b - 1 = q
    BY <1>2, <1>3, <1>4
  <2> HIDE DEF i
  <2>2. d[i] = path[i - a - n + b - 1]
    BY <1>4, <2>1
  <2> QED BY <2>1, <2>2 DEF i
<1>9. Len(d) \in Nat
  BY <1>4, LenProperties
<1> QED BY <1>2, <1>4, <1>5, <1>6, <1>7, <1>8, <1>9 DEF n, d, Spliced

LEMMA PutOnPath ==
  ASSUME NEW V, NEW path, NEW S, PutOnOK(V, path, S)
  PROVE  /\ PutOn(path, S) \in Path(V)
         /\ ToSet(PutOn(path, S)) = (ToSet(path) \ ToSet(Covered(path, S))) \cup ToSet(S.nodes)
         /\ Len(PutOn(path, S)) >= 2
         /\ PutOn(path, S)[1] = path[1]
         /\ PutOn(path, S)[Len(PutOn(path, S))] = path[Len(path)]
<1> DEFINE n == Len(S.nodes)
           d == PutOn(path, S)
           cov == Covered(path, S)
<1>1. path \in Path(V) /\ S.nodes \in Path(V)
  BY DEF PutOnOK
<1>2. PICK a, b \in 1..Len(path) : FitsAt(path, S, a, b)
  BY <1>1, OnContourAt DEF PutOnOK
<1>3. a \in 1..Len(path) /\ b \in 1..Len(path) /\ a < b /\ Len(path) \in Nat
  BY <1>1, <1>2, PathIndices DEF FitsAt
<1>31. Spliced(V, path, S, a, b, d)
  <2>1. FitsAt(path, S, a, b)
    BY <1>2
  <2> QED BY <2>1, PutOnNodes
<1>4. /\ d \in Seq(V) /\ n \in Nat \ {0} /\ Len(d) \in Nat
      /\ Len(d) = a + n + (Len(path) - b + 1)
      /\ \A i \in 1..Len(d) :
           \/ \E q \in 1..n : i = a + q /\ d[i] = S.nodes[q]
           \/ \E q \in 1..Len(path) :
                /\ q <= a \/ q >= b
                /\ i = IF q <= a THEN q ELSE q - b + 1 + a + n
                /\ d[i] = path[q]
  BY <1>31 DEF Spliced
<1>5. /\ \A q \in 1..a : d[q] = path[q] /\ q \in 1..Len(d)
      /\ \A q \in 1..n : d[a + q] = S.nodes[q] /\ a + q \in 1..Len(d)
      /\ \A q \in b..Len(path) : d[q - b + 1 + a + n] = path[q] /\ q - b + 1 + a + n \in 1..Len(d)
  BY <1>31 DEF Spliced
<1>6. \A i \in 1..Len(path), q \in 1..n : path[i] # S.nodes[q]
  <2> SUFFICES ASSUME NEW i \in 1..Len(path), NEW q \in 1..n PROVE path[i] # S.nodes[q]
    OBVIOUS
  <2>1. path[i] \in ToSet(path)
    BY <1>1, PathIndices
  <2>2. S.nodes[q] \in ToSet(S.nodes)
    BY <1>1, PathIndices
  <2> QED BY <2>1, <2>2 DEF PutOnOK
<1>7. /\ \A i, j \in 1..Len(path) : path[i] = path[j] => i = j
      /\ \A i, j \in 1..n : S.nodes[i] = S.nodes[j] => i = j
  BY <1>1, PathIndices
<1>8. /\ cov \in Seq(V) /\ Len(cov) = b - a - 1
      /\ \A i \in 1..(b - a - 1) : cov[i] = path[a + i]
  <2>1. path \in Path(V) /\ FitsAt(path, S, a, b)
    BY <1>1, <1>2
  <2>2. BetweenPlaces(V, path, a, b, Covered(path, S))
    BY <2>1, CoveredIndices
  <2> QED BY <2>2 DEF BetweenPlaces, cov
<1> HIDE DEF n, d, cov
<1>9. d \in Path(V)
  <2>1. DOMAIN d = 1..Len(d)
    BY <1>4, LenProperties
  <2>2. ASSUME NEW i \in 1..Len(d), NEW j \in 1..Len(d), d[i] = d[j] PROVE i = j
    <3>1. CASE \E q \in 1..n : i = a + q /\ d[i] = S.nodes[q]
      <4>1. PICK q \in 1..n : i = a + q /\ d[i] = S.nodes[q]
        BY <3>1
      <4>2. PICK t \in 1..n : j = a + t /\ d[j] = S.nodes[t]
        <5>1. ~ \E t \in 1..Len(path) : d[j] = path[t]
          BY <1>6, <2>2, <4>1
        <5> QED BY <1>4, <5>1
      <4>3. q = t
        BY <1>7, <2>2, <4>1, <4>2
      <4> QED BY <4>1, <4>2, <4>3
    <3>2. CASE ~ \E q \in 1..n : i = a + q /\ d[i] = S.nodes[q]
      <4>1. PICK q \in 1..Len(path) :
              i = (IF q <= a THEN q ELSE q - b + 1 + a + n) /\ d[i] = path[q]
        BY <1>4, <3>2
      <4>2. PICK t \in 1..Len(path) :
              j = (IF t <= a THEN t ELSE t - b + 1 + a + n) /\ d[j] = path[t]
        <5>1. ~ \E t \in 1..n : d[j] = S.nodes[t]
          BY <1>6, <2>2, <4>1
        <5> QED BY <1>4, <5>1
      <4>3. q = t
        BY <1>7, <2>2, <4>1, <4>2
      <4> QED BY <4>1, <4>2, <4>3
    <3> QED BY <3>1, <3>2
  <2> QED BY <1>4, <2>1, <2>2 DEF Path
<1>10. ToSet(d) = (ToSet(path) \ ToSet(cov)) \cup ToSet(S.nodes)
  <2>1. \A v : v \in ToSet(cov) <=> \E i \in (a + 1)..(b - 1) : path[i] = v
    <3>1. \A v : v \in ToSet(cov) <=> \E i \in 1..(b - a - 1) : cov[i] = v
      BY <1>8, LenProperties DEF ToSet
    <3>2. ASSUME NEW i \in 1..(b - a - 1) PROVE a + i \in (a + 1)..(b - 1) /\ cov[i] = path[a + i]
      BY <1>3, <1>8
    <3>3. ASSUME NEW i \in (a + 1)..(b - 1) PROVE i - a \in 1..(b - a - 1) /\ cov[i - a] = path[i]
      <4>1. i - a \in 1..(b - a - 1) /\ a + (i - a) = i
        BY <1>3
      <4>2. cov[i - a] = path[a + (i - a)]
        BY <1>8, <4>1
      <4> QED BY <4>1, <4>2
    <3>4. ASSUME NEW v, v \in ToSet(cov) PROVE \E i \in (a + 1)..(b - 1) : path[i] = v
      <4>1. PICK i \in 1..(b - a - 1) : cov[i] = v
        BY <3>1, <3>4
      <4> QED BY <3>2, <4>1
    <3>5. ASSUME NEW i \in (a + 1)..(b - 1) PROVE path[i] \in ToSet(cov)
      BY <3>1, <3>3
    <3> QED BY <3>4, <3>5
  <2>2. /\ \A v : v \in ToSet(path) <=> \E i \in 1..Len(path) : path[i] = v
        /\ \A v : v \in ToSet(S.nodes) <=> \E i \in 1..n : S.nodes[i] = v
        /\ \A v : v \in ToSet(d) <=> \E i \in 1..Len(d) : d[i] = v
    BY <1>1, <1>9, PathIndices DEF n
  <2>3. ASSUME NEW v \in ToSet(d) PROVE v \in (ToSet(path) \ ToSet(cov)) \cup ToSet(S.nodes)
    <3>1. PICK i \in 1..Len(d) : d[i] = v
      BY <2>2
    <3>2. CASE \E q \in 1..n : d[i] = S.nodes[q]
      BY <2>2, <3>1, <3>2
    <3>3. CASE ~ \E q \in 1..n : d[i] = S.nodes[q]
      <4>1. PICK q \in 1..Len(path) : d[i] = path[q] /\ (q <= a \/ q >= b)
        BY <1>4, <3>3
      <4>2. v \in ToSet(path)
        BY <2>2, <3>1, <4>1
      <4>3. ASSUME v \in ToSet(cov) PROVE FALSE
        <5>1. PICK t \in (a + 1)..(b - 1) : path[t] = v
          BY <2>1, <4>3
        <5>2. t \in 1..Len(path)
          BY <1>3
        <5>3. q = t
          BY <1>7, <3>1, <4>1, <5>1, <5>2
        <5> QED BY <1>3, <4>1, <5>3
      <4> QED BY <4>2, <4>3
    <3> QED BY <3>2, <3>3
  <2>4. ASSUME NEW v \in ToSet(S.nodes) PROVE v \in ToSet(d)
    BY <1>5, <2>2
  <2>5. ASSUME NEW v \in ToSet(path), v \notin ToSet(cov) PROVE v \in ToSet(d)
    <3>1. PICK i \in 1..Len(path) : path[i] = v
      BY <2>2
    <3>2. i \in 1..a \/ i \in b..Len(path)
      BY <1>3, <2>1, <2>5, <3>1
    <3> QED BY <1>5, <2>2, <3>1, <3>2
  <2> QED BY <2>3, <2>4, <2>5
<1>11. /\ Len(d) >= 2 /\ d[1] = path[1] /\ d[Len(d)] = path[Len(path)]
  <2>1. d[1] = path[1] /\ Len(d) >= 2
    BY <1>3, <1>4, <1>5
  <2>2. Len(path) - b + 1 + a + n = Len(d) /\ Len(path) \in b..Len(path)
    BY <1>3, <1>4
  <2> QED BY <1>5, <2>1, <2>2
<1> QED BY <1>9, <1>10, <1>11 DEF n, d, cov

(* Two sets that fit side by side can be put on in either order, and each  *)
(* covers what it would cover alone.                                       *)
LEMMA PutOnCommutes ==
  ASSUME NEW V, NEW path, NEW S, NEW T, NEW a, NEW b, NEW a2, NEW b2,
         PutOnOK(V, path, S), PutOnOK(V, path, T),
         ToSet(S.nodes) \cap ToSet(T.nodes) = {},
         FitsAt(path, S, a, b), FitsAt(path, T, a2, b2), b <= a2
  PROVE  /\ PutOnOK(V, PutOn(path, S), T)
         /\ PutOnOK(V, PutOn(path, T), S)
         /\ Covered(PutOn(path, S), T) = Covered(path, T)
         /\ Covered(PutOn(path, T), S) = Covered(path, S)
         /\ PutOn(PutOn(path, S), T) = PutOn(PutOn(path, T), S)
<1> DEFINE e == PutOn(path, S)
           f == PutOn(path, T)
           n == Len(S.nodes)
           m == Len(T.nodes)
           g == PutOn(e, T)
           h == PutOn(f, S)
           sh == a + n + 1 - b
<1>1. /\ path \in Path(V) /\ S.nodes \in Path(V) /\ T.nodes \in Path(V)
      /\ S.nodes \in Seq(V) /\ T.nodes \in Seq(V)
      /\ Len(path) \in Nat
  BY PathIndices DEF PutOnOK
<1>2. /\ a \in 1..Len(path) /\ b \in 1..Len(path) /\ a < b
      /\ a2 \in 1..Len(path) /\ b2 \in 1..Len(path) /\ a2 < b2
  BY DEF FitsAt
<1>3. e \in Path(V) /\ f \in Path(V)
  BY PutOnPath
<1>4. /\ n \in Nat /\ e \in Seq(V) /\ Len(e) = a + n + (Len(path) - b + 1)
      /\ \A i \in 1..a : e[i] = path[i]
      /\ \A i \in (a + 1)..(a + n) : e[i] = S.nodes[i - a]
      /\ \A i \in (a + n + 1)..Len(e) : e[i] = path[i - a - n + b - 1]
  <2>1. path \in Path(V) /\ S.nodes \in Seq(V) /\ FitsAt(path, S, a, b)
    BY <1>1
  <2>2. Placed(V, path, S, a, b, PutOn(path, S), Len(S.nodes))
    BY <2>1, PutOnIndices
  <2> QED BY <2>2 DEF Placed
<1>5. /\ m \in Nat /\ f \in Seq(V) /\ Len(f) = a2 + m + (Len(path) - b2 + 1)
      /\ \A i \in 1..a2 : f[i] = path[i]
      /\ \A i \in (a2 + 1)..(a2 + m) : f[i] = T.nodes[i - a2]
      /\ \A i \in (a2 + m + 1)..Len(f) : f[i] = path[i - a2 - m + b2 - 1]
  <2>1. path \in Path(V) /\ T.nodes \in Seq(V) /\ FitsAt(path, T, a2, b2)
    BY <1>1
  <2>2. Placed(V, path, T, a2, b2, PutOn(path, T), Len(T.nodes))
    BY <2>1, PutOnIndices
  <2> QED BY <2>2 DEF Placed
<1> HIDE DEF e, f, n, m
<1>13. /\ a \in Int /\ b \in Int /\ a2 \in Int /\ b2 \in Int /\ n \in Int /\ m \in Int
       /\ Len(path) \in Int /\ 1 <= a /\ a < b /\ b <= a2 /\ a2 < b2 /\ b2 <= Len(path)
       /\ 0 <= n /\ 0 <= m
       /\ Len(e) \in Int /\ Len(e) = a + n + (Len(path) - b + 1)
       /\ Len(f) \in Int /\ Len(f) = a2 + m + (Len(path) - b2 + 1)
       /\ sh \in Int /\ sh = a + n + 1 - b
  <2>1. n \in Int /\ m \in Int /\ 0 <= n /\ 0 <= m
    BY <1>4, <1>5
  <2>2. /\ a \in Int /\ b \in Int /\ a2 \in Int /\ b2 \in Int
        /\ Len(path) \in Int /\ 1 <= a /\ a < b /\ b <= a2 /\ a2 < b2 /\ b2 <= Len(path)
    BY <1>1, <1>2
  <2>3. Len(e) = a + n + (Len(path) - b + 1) /\ Len(f) = a2 + m + (Len(path) - b2 + 1)
    BY <1>4, <1>5
  <2> QED BY <2>1, <2>2, <2>3
<1> HIDE DEF sh
<1>6. FitsAt(e, T, a2 + sh, b2 + sh)
  <2>1. \A q \in b..Len(path) : e[q + sh] = path[q] /\ q + sh \in 1..Len(e)
    <3> SUFFICES ASSUME NEW q \in b..Len(path)
                 PROVE  e[q + sh] = path[q] /\ q + sh \in 1..Len(e)
      OBVIOUS
    <3>1. /\ q + sh \in (a + n + 1)..Len(e) /\ q + sh \in 1..Len(e)
          /\ (q + sh) - a - n + b - 1 = q
      BY <1>13
    <3>2. e[q + sh] = path[(q + sh) - a - n + b - 1]
      BY <1>4, <3>1
    <3> QED BY <3>1, <3>2
  <2>2. a2 \in b..Len(path) /\ b2 \in b..Len(path)
    BY <1>13
  <2>3. a2 + sh < b2 + sh
    BY <1>13
  <2> QED BY <2>1, <2>2, <2>3 DEF FitsAt
<1>7. FitsAt(f, S, a, b)
  <2>1. a \in 1..a2 /\ b \in 1..a2 /\ a \in 1..Len(f) /\ b \in 1..Len(f)
    BY <1>13
  <2>2. f[a] = path[a] /\ f[b] = path[b]
    BY <1>5, <2>1
  <2> QED BY <1>2, <2>1, <2>2 DEF FitsAt
<1>8. PutOnOK(V, e, T)
  <2>1. ToSet(e) \subseteq ToSet(path) \cup ToSet(S.nodes)
    BY PutOnPath DEF e
  <2>2. OnContour(e, T)
    BY <1>3, <1>6, OnContourAt
  <2> QED BY <1>3, <2>1, <2>2 DEF PutOnOK
<1>9. PutOnOK(V, f, S)
  <2>1. ToSet(f) \subseteq ToSet(path) \cup ToSet(T.nodes)
    BY PutOnPath DEF f
  <2>2. OnContour(f, S)
    BY <1>3, <1>7, OnContourAt
  <2> QED BY <1>3, <2>1, <2>2 DEF PutOnOK
<1>10. Covered(e, T) = Covered(path, T)
  <2>1. /\ Covered(path, T) \in Seq(V) /\ Len(Covered(path, T)) = b2 - a2 - 1
        /\ \A i \in 1..(b2 - a2 - 1) : Covered(path, T)[i] = path[a2 + i]
    <3>1. BetweenPlaces(V, path, a2, b2, Covered(path, T))
      BY <1>1, CoveredIndices
    <3> QED BY <3>1 DEF BetweenPlaces
  <2>2. /\ Covered(e, T) \in Seq(V) /\ Len(Covered(e, T)) = (b2 + sh) - (a2 + sh) - 1
        /\ \A i \in 1..((b2 + sh) - (a2 + sh) - 1) : Covered(e, T)[i] = e[(a2 + sh) + i]
    <3>1. BetweenPlaces(V, e, a2 + sh, b2 + sh, Covered(e, T))
      BY <1>3, <1>6, CoveredIndices
    <3> QED BY <3>1 DEF BetweenPlaces
  <2>3. ASSUME NEW i \in 1..(b2 - a2 - 1) PROVE e[(a2 + sh) + i] = path[a2 + i]
    <3>1. /\ (a2 + sh) + i \in (a + n + 1)..Len(e)
          /\ ((a2 + sh) + i) - a - n + b - 1 = a2 + i
      BY <1>13
    <3> QED BY <1>4, <3>1
  <2>4. (b2 + sh) - (a2 + sh) - 1 = b2 - a2 - 1 /\ sh \in Int
    BY <1>13
  <2>5. /\ Len(Covered(e, T)) = Len(Covered(path, T))
        /\ \A i \in 1..Len(Covered(e, T)) : Covered(e, T)[i] = Covered(path, T)[i]
    BY <2>1, <2>2, <2>3, <2>4
  <2> QED BY <2>1, <2>2, <2>5, SeqEqual
<1>11. Covered(f, S) = Covered(path, S)
  <2>1. /\ Covered(path, S) \in Seq(V) /\ Len(Covered(path, S)) = b - a - 1
        /\ \A i \in 1..(b - a - 1) : Covered(path, S)[i] = path[a + i]
    <3>1. BetweenPlaces(V, path, a, b, Covered(path, S))
      BY <1>1, CoveredIndices
    <3> QED BY <3>1 DEF BetweenPlaces
  <2>2. /\ Covered(f, S) \in Seq(V) /\ Len(Covered(f, S)) = b - a - 1
        /\ \A i \in 1..(b - a - 1) : Covered(f, S)[i] = f[a + i]
    <3>1. BetweenPlaces(V, f, a, b, Covered(f, S))
      BY <1>3, <1>7, CoveredIndices
    <3> QED BY <3>1 DEF BetweenPlaces
  <2>3. ASSUME NEW i \in 1..(b - a - 1) PROVE f[a + i] = path[a + i]
    <3>1. a + i \in 1..a2
      BY <1>13
    <3> QED BY <1>5, <3>1
  <2>4. \A i \in 1..Len(Covered(f, S)) : Covered(f, S)[i] = Covered(path, S)[i]
    BY <2>1, <2>2, <2>3
  <2> QED BY <2>1, <2>2, <2>4, SeqEqual
<1>12. g = h
  <2> DEFINE a3 == a2 + sh
             b3 == b2 + sh
  <2>1. a3 \in Int /\ b3 \in Int /\ a3 = a2 + sh /\ b3 = b2 + sh
    BY <1>13
  <2> HIDE DEF a3, b3
  <2>2. /\ g \in Seq(V) /\ Len(g) = a3 + m + (Len(e) - b3 + 1)
        /\ \A i \in 1..a3 : g[i] = e[i]
        /\ \A i \in (a3 + 1)..(a3 + m) : g[i] = T.nodes[i - a3]
        /\ \A i \in (a3 + m + 1)..Len(g) : g[i] = e[i - a3 - m + b3 - 1]
    <3>1. FitsAt(e, T, a3, b3)
      BY <1>6 DEF a3, b3
    <3>2. Placed(V, e, T, a3, b3, PutOn(e, T), Len(T.nodes))
      BY <1>1, <1>3, <3>1, PutOnIndices
    <3> QED BY <3>2 DEF Placed, m
  <2>3. /\ h \in Seq(V) /\ Len(h) = a + n + (Len(f) - b + 1)
        /\ \A i \in 1..a : h[i] = f[i]
        /\ \A i \in (a + 1)..(a + n) : h[i] = S.nodes[i - a]
        /\ \A i \in (a + n + 1)..Len(h) : h[i] = f[i - a - n + b - 1]
    <3>1. Placed(V, f, S, a, b, PutOn(f, S), Len(S.nodes))
      BY <1>1, <1>3, <1>7, PutOnIndices
    <3> QED BY <3>1 DEF Placed, n
  <2> HIDE DEF g, h
  <2>4. Len(g) = Len(h) /\ Len(g) = Len(path) + a - b + a2 - b2 + n + m + 2
    BY <1>13, <2>1, <2>2, <2>3
  <2>5. ASSUME NEW i \in 1..Len(g) PROVE g[i] = h[i]
    <3>6. i \in Int /\ 1 <= i /\ i <= Len(g) /\ Len(g) \in Int
      BY <2>2, LenProperties
    <3>1. CASE i \in 1..a
      <4>1. i \in 1..a3 /\ i \in 1..a2
        BY <1>13, <2>1, <2>4, <3>1, <3>6
      <4> QED BY <1>4, <1>5, <2>2, <2>3, <3>1, <4>1
    <3>2. CASE i \in (a + 1)..(a + n)
      <4>1. i \in 1..a3
        BY <1>13, <2>1, <2>4, <3>2, <3>6
      <4> QED BY <1>4, <2>2, <2>3, <3>2, <4>1
    <3>3. CASE i \in (a + n + 1)..a3
      <4>1. /\ i \in 1..a3 /\ i \in (a + n + 1)..Len(e) /\ i \in (a + n + 1)..Len(h)
            /\ i - a - n + b - 1 \in 1..a2
        BY <1>13, <2>1, <2>4, <3>3, <3>6
      <4>2. g[i] = path[i - a - n + b - 1]
        BY <1>4, <2>2, <4>1
      <4>3. h[i] = path[i - a - n + b - 1]
        BY <1>5, <2>3, <4>1
      <4> QED BY <4>2, <4>3
    <3>4. CASE i \in (a3 + 1)..(a3 + m)
      <4>1. /\ i \in (a + n + 1)..Len(h)
            /\ i - a - n + b - 1 \in (a2 + 1)..(a2 + m)
            /\ (i - a - n + b - 1) - a2 = i - a3
        BY <1>13, <2>1, <2>4, <3>4, <3>6
      <4>2. g[i] = T.nodes[i - a3]
        BY <2>2, <3>4
      <4>3. h[i] = f[i - a - n + b - 1]
        BY <2>3, <4>1
      <4>4. f[i - a - n + b - 1] = T.nodes[(i - a - n + b - 1) - a2]
        BY <1>5, <4>1
      <4> QED BY <4>1, <4>2, <4>3, <4>4
    <3>5. CASE i \in (a3 + m + 1)..Len(g)
      <4>1. /\ i \in (a + n + 1)..Len(h)
            /\ i - a - n + b - 1 \in (a2 + m + 1)..Len(f)
            /\ i - a3 - m + b3 - 1 \in (a + n + 1)..Len(e)
            /\ (i - a - n + b - 1) - a2 - m + b2 - 1 = (i - a3 - m + b3 - 1) - a - n + b - 1
        BY <1>13, <2>1, <2>4, <3>5, <3>6
      <4>2. g[i] = e[i - a3 - m + b3 - 1]
        BY <2>2, <3>5
      <4>3. e[i - a3 - m + b3 - 1] = path[(i - a3 - m + b3 - 1) - a - n + b - 1]
        BY <1>4, <4>1
      <4>4. h[i] = f[i - a - n + b - 1]
        BY <2>3, <4>1
      <4>5. f[i - a - n + b - 1] = path[(i - a - n + b - 1) - a2 - m + b2 - 1]
        BY <1>5, <4>1
      <4> QED BY <4>1, <4>2, <4>3, <4>4, <4>5
    <3>7. \/ i \in 1..a \/ i \in (a + 1)..(a + n) \/ i \in (a + n + 1)..a3
          \/ i \in (a3 + 1)..(a3 + m) \/ i \in (a3 + m + 1)..Len(g)
      BY <1>13, <2>1, <3>6
    <3> QED BY <3>1, <3>2, <3>3, <3>4, <3>5, <3>7
  <2> QED BY <2>2, <2>3, <2>4, <2>5, SeqEqual
<1> QED BY <1>8, <1>9, <1>10, <1>11, <1>12 DEF e, f

-----------------------------------------------------------------------------
(***************************************************************************)
(* The contours after each set: the recursive function of the model exists *)
(* and satisfies its equation.                                             *)
(***************************************************************************)
LEMMA ContoursExist ==
  ASSUME NEW sets, NEW n \in Nat
  PROVE  \E g : g = [i \in 1..n |-> IF i = 1 THEN sets[1].nodes ELSE PutOn(g[i - 1], sets[i])]
<1> DEFINE Step(after, i) == IF i = 1 THEN sets[1].nodes ELSE PutOn(after[i - 1], sets[i])
           T == {m \in Int : \E g : g = [i \in 1..m |-> Step(g, i)]}
<1>1. 0 \in T
  <2> DEFINE g == [i \in 1..0 |-> {}]
  <2>1. g = [i \in 1..0 |-> Step(g, i)]
    OBVIOUS
  <2> HIDE DEF g
  <2>2. \E f : f = [i \in 1..0 |-> Step(f, i)]
    BY <2>1, Zenon
  <2>3. 0 \in Int
    OBVIOUS
  <2> QED BY <2>2, <2>3, Zenon
<1>2. ASSUME NEW m \in 0..(n - 1), m \in T PROVE m + 1 \in T
  <2>1. PICK g : g = [i \in 1..m |-> Step(g, i)]
    BY <1>2
  <2> DEFINE h == [i \in 1..(m + 1) |-> Step(g, i)]
  <2>2. h = [i \in 1..(m + 1) |-> Step(h, i)]
    <3>1. ASSUME NEW i \in 1..(m + 1) PROVE Step(h, i) = Step(g, i)
      <4>1. CASE i = 1
        BY <4>1
      <4>2. CASE i # 1
        <5>1. i - 1 \in 1..m
          BY <4>2
        <5>2. h[i - 1] = Step(g, i - 1)
          BY <5>1
        <5>3. g[i - 1] = Step(g, i - 1)
          BY <5>1, <2>1, Zenon
        <5> QED BY <5>2, <5>3
      <4> QED BY <4>1, <4>2
    <3> QED BY <3>1
  <2> HIDE DEF h
  <2> QED BY <2>2
<1> HIDE DEF T
<1>3. n \in T
  BY <1>1, <1>2, Upwards
<1> QED BY <1>3 DEF T

LEMMA ContoursDef ==
  ASSUME NEW X, NEW sets \in Seq(X)
  PROVE  Contours(sets) = [i \in 1..Len(sets) |->
           IF i = 1 THEN sets[1].nodes ELSE PutOn(Contours(sets)[i - 1], sets[i])]
<1>1. DOMAIN sets = 1..Len(sets) /\ Len(sets) \in Nat
  BY LenProperties
<1>2. \E g : g = [i \in 1..Len(sets) |-> IF i = 1 THEN sets[1].nodes ELSE PutOn(g[i - 1], sets[i])]
  BY <1>1, ContoursExist
<1> QED BY <1>1, <1>2, Zenon DEF Contours

LEMMA ContoursStep ==
  ASSUME NEW X, NEW sets \in Seq(X), Len(sets) >= 1
  PROVE  /\ Contours(sets)[1] = sets[1].nodes
         /\ \A i \in 2..Len(sets) : Contours(sets)[i] = PutOn(Contours(sets)[i - 1], sets[i])
<1> DEFINE C == Contours(sets)
<1>1. C = [i \in 1..Len(sets) |-> IF i = 1 THEN sets[1].nodes ELSE PutOn(C[i - 1], sets[i])]
  BY ContoursDef
<1>2. Len(sets) \in Nat
  BY LenProperties
<1> HIDE DEF C
<1>3. \A i \in 1..Len(sets) : C[i] = IF i = 1 THEN sets[1].nodes ELSE PutOn(C[i - 1], sets[i])
  BY <1>1, Zenon
<1> QED BY <1>2, <1>3 DEF C

(* The sets of a shelling order share no nodes, and each fits on the       *)
(* contour of those before it.                                             *)
Shelling(X, V, sets) ==
  /\ sets \in Seq(X) /\ Len(sets) >= 1
  /\ Len(sets[1].nodes) >= 2
  /\ \A i \in 1..Len(sets) : sets[i].nodes \in Path(V) /\ sets[i].nodes # << >>
  /\ \A i, j \in 1..Len(sets) : i # j => ToSet(sets[i].nodes) \cap ToSet(sets[j].nodes) = {}
  /\ \A i \in 2..Len(sets) : OnContour(Contours(sets)[i - 1], sets[i])

(* The contour after set i, with the two ends of the base at its ends and  *)
(* nodes of the sets so far on it.                                         *)
ContourOf(V, sets, i) ==
  LET C == Contours(sets)
      base == sets[1].nodes
  IN /\ C[i] \in Path(V) /\ Len(C[i]) >= 2
     /\ C[i][1] = base[1] /\ C[i][Len(C[i])] = base[Len(base)]
     /\ \A v \in ToSet(C[i]) : \E j \in 1..i : v \in ToSet(sets[j].nodes)

LEMMA ShellingStep ==
  ASSUME NEW X, NEW V, NEW sets, Shelling(X, V, sets),
         NEW i \in 1..(Len(sets) - 1), ContourOf(V, sets, i)
  PROVE  /\ PutOnOK(V, Contours(sets)[i], sets[i + 1])
         /\ Contours(sets)[i + 1] = PutOn(Contours(sets)[i], sets[i + 1])
         /\ ContourOf(V, sets, i + 1)
<1> DEFINE C == Contours(sets)
           S == sets[i + 1]
           d == PutOn(C[i], S)
<1>1. sets \in Seq(X) /\ Len(sets) \in Nat /\ Len(sets) >= 1
  BY LenProperties DEF Shelling
<1>2. i + 1 \in 2..Len(sets) /\ i + 1 \in 1..Len(sets) /\ (i + 1) - 1 = i
  BY <1>1
<1>3. C[i + 1] = d
  BY <1>1, <1>2, ContoursStep
<1>4. PutOnOK(V, C[i], S)
  <2>1. OnContour(C[i], S)
    BY <1>2 DEF Shelling
  <2>2. S.nodes \in Path(V) /\ S.nodes # << >>
    BY <1>2 DEF Shelling
  <2>3. C[i] \in Path(V)
    BY DEF ContourOf
  <2>4. ASSUME NEW v \in ToSet(S.nodes), v \in ToSet(C[i]) PROVE FALSE
    <3>1. PICK j \in 1..i : v \in ToSet(sets[j].nodes)
      BY <2>4 DEF ContourOf
    <3>2. j \in 1..Len(sets) /\ j # i + 1
      BY <1>1
    <3> QED BY <1>2, <3>1, <3>2, <2>4 DEF Shelling
  <2> QED BY <2>1, <2>2, <2>3, <2>4 DEF PutOnOK
<1>5. /\ d \in Path(V) /\ Len(d) >= 2
      /\ ToSet(d) \subseteq ToSet(C[i]) \cup ToSet(S.nodes)
      /\ d[1] = C[i][1] /\ d[Len(d)] = C[i][Len(C[i])]
  BY <1>4, PutOnPath
<1> HIDE DEF C, d, S
<1>6. ASSUME NEW v \in ToSet(d) PROVE \E j \in 1..(i + 1) : v \in ToSet(sets[j].nodes)
  <2>1. CASE v \in ToSet(C[i])
    <3>1. PICK j \in 1..i : v \in ToSet(sets[j].nodes)
      BY <2>1 DEF ContourOf, C
    <3> QED BY <3>1, <1>2
  <2>2. CASE v \in ToSet(S.nodes)
    BY <1>2, <2>2 DEF S
  <2> QED BY <1>5, <2>1, <2>2
<1>7. /\ C[i][1] = sets[1].nodes[1]
      /\ C[i][Len(C[i])] = sets[1].nodes[Len(sets[1].nodes)]
  BY DEF ContourOf, C
<1>8. ContourOf(V, sets, i + 1)
  <2>1. Contours(sets)[i + 1] = d
    BY <1>3 DEF C
  <2> QED BY <2>1, <1>5, <1>6, <1>7 DEF ContourOf
<1> QED BY <1>3, <1>4, <1>8 DEF C, S, d

LEMMA ShellingContours ==
  ASSUME NEW X, NEW V, NEW sets, Shelling(X, V, sets)
  PROVE  /\ \A i \in 1..Len(sets) : ContourOf(V, sets, i)
         /\ \A i \in 2..Len(sets) :
              /\ PutOnOK(V, Contours(sets)[i - 1], sets[i])
              /\ Contours(sets)[i] = PutOn(Contours(sets)[i - 1], sets[i])
<1> DEFINE T == {i \in Int : ContourOf(V, sets, i)}
<1>1. sets \in Seq(X) /\ Len(sets) \in Nat /\ Len(sets) >= 1
  BY LenProperties DEF Shelling
<1>2. ContourOf(V, sets, 1)
  <2>1. /\ sets[1].nodes \in Path(V) /\ Len(sets[1].nodes) >= 2
    BY <1>1 DEF Shelling
  <2>2. Contours(sets)[1] = sets[1].nodes
    BY <1>1, ContoursStep
  <2>3. 1 \in 1..1
    OBVIOUS
  <2> QED BY <2>1, <2>2, <2>3 DEF ContourOf
<1>3. ASSUME NEW i \in 1..(Len(sets) - 1), i \in T PROVE i + 1 \in T
  BY <1>1, <1>3, ShellingStep
<1>4. \A i \in 1..Len(sets) : i \in T
  <2>1. 1 \in T
    BY <1>2
  <2>2. 1 \in Int /\ Len(sets) \in Int
    BY <1>1
  <2> HIDE DEF T
  <2> QED BY <1>3, <2>1, <2>2, Upwards
<1>5. \A i \in 1..Len(sets) : ContourOf(V, sets, i)
  BY <1>4
<1>6. ASSUME NEW i \in 2..Len(sets)
      PROVE  /\ PutOnOK(V, Contours(sets)[i - 1], sets[i])
             /\ Contours(sets)[i] = PutOn(Contours(sets)[i - 1], sets[i])
  <2>1. i - 1 \in 1..(Len(sets) - 1) /\ (i - 1) + 1 = i /\ i - 1 \in 1..Len(sets)
    BY <1>1
  <2>2. ContourOf(V, sets, i - 1)
    BY <1>5, <2>1
  <2>3. /\ PutOnOK(V, Contours(sets)[i - 1], sets[(i - 1) + 1])
        /\ Contours(sets)[(i - 1) + 1] = PutOn(Contours(sets)[i - 1], sets[(i - 1) + 1])
    BY <2>1, <2>2, ShellingStep
  <2> QED BY <2>1, <2>3
<1> QED BY <1>5, <1>6

(* One more set changes no contour before it.                              *)
LEMMA AppendContours ==
  ASSUME NEW X, NEW sets \in Seq(X), NEW S \in X, Len(sets) >= 1
  PROVE  /\ \A i \in 1..Len(sets) : Contours(Append(sets, S))[i] = Contours(sets)[i]
         /\ Contours(Append(sets, S))[Len(sets) + 1] = PutOn(Contour(sets), S)
<1> DEFINE more == Append(sets, S)
           C == Contours(sets)
           D == Contours(more)
           T == {i \in Int : D[i] = C[i]}
<1>1. /\ more \in Seq(X) /\ Len(more) = Len(sets) + 1 /\ Len(sets) \in Nat
      /\ \A i \in 1..Len(sets) : more[i] = sets[i]
      /\ more[Len(sets) + 1] = S
  BY AppendProperties, LenProperties
<1> HIDE DEF more
<1>2. /\ C[1] = sets[1].nodes
      /\ \A i \in 2..Len(sets) : C[i] = PutOn(C[i - 1], sets[i])
  BY ContoursStep
<1>3. /\ D[1] = more[1].nodes
      /\ \A i \in 2..Len(more) : D[i] = PutOn(D[i - 1], more[i])
  <2>1. Len(more) >= 1
    BY <1>1
  <2> QED BY <1>1, <2>1, ContoursStep
<1> HIDE DEF C, D
<1>4. 1 \in T
  BY <1>1, <1>2, <1>3
<1>5. ASSUME NEW i \in 1..(Len(sets) - 1), i \in T PROVE i + 1 \in T
  <2>1. /\ i + 1 \in 2..Len(sets) /\ i + 1 \in 2..Len(more) /\ i + 1 \in 1..Len(sets)
        /\ (i + 1) - 1 = i
    BY <1>1
  <2>2. D[i + 1] = PutOn(D[i], sets[i + 1])
    BY <1>1, <1>3, <2>1
  <2>3. C[i + 1] = PutOn(C[i], sets[i + 1])
    BY <1>2, <2>1
  <2> QED BY <1>5, <2>2, <2>3
<1>6. \A i \in 1..Len(sets) : i \in T
  <2> HIDE DEF T
  <2>1. 1 \in Int /\ Len(sets) \in Int
    BY <1>1
  <2> QED BY <1>4, <1>5, <2>1, Upwards
<1>7. D[Len(sets) + 1] = PutOn(C[Len(sets)], S)
  <2>1. /\ Len(sets) + 1 \in 2..Len(more) /\ (Len(sets) + 1) - 1 = Len(sets)
        /\ Len(sets) \in 1..Len(sets)
    BY <1>1
  <2>2. D[Len(sets) + 1] = PutOn(D[Len(sets)], S)
    BY <1>1, <1>3, <2>1
  <2> QED BY <1>6, <2>1, <2>2
<1> QED BY <1>6, <1>7 DEF C, D, more, Contour

LEMMA AppendShelling ==
  ASSUME NEW X, NEW V, NEW sets, Shelling(X, V, sets), NEW S \in X,
         S.nodes \in Path(V), S.nodes # << >>,
         \A i \in 1..Len(sets) : ToSet(sets[i].nodes) \cap ToSet(S.nodes) = {},
         OnContour(Contour(sets), S)
  PROVE  Shelling(X, V, Append(sets, S))
<1> DEFINE more == Append(sets, S)
<1>1. /\ sets \in Seq(X) /\ Len(sets) \in Nat /\ Len(sets) >= 1
  BY LenProperties DEF Shelling
<1>2. /\ more \in Seq(X) /\ Len(more) = Len(sets) + 1
      /\ \A i \in 1..Len(sets) : more[i] = sets[i]
      /\ more[Len(sets) + 1] = S
  BY <1>1, AppendProperties
<1>3. \A i \in 1..Len(sets) : Contours(more)[i] = Contours(sets)[i]
  BY <1>1, AppendContours
<1> HIDE DEF more
<1>4. \A i \in 1..Len(more) : i \in 1..Len(sets) \/ i = Len(sets) + 1
  BY <1>1, <1>2
<1>5. ASSUME NEW i \in 1..Len(more) PROVE more[i].nodes \in Path(V) /\ more[i].nodes # << >>
  BY <1>2, <1>4 DEF Shelling
<1>6. ASSUME NEW i \in 1..Len(more), NEW j \in 1..Len(more), i # j
      PROVE  ToSet(more[i].nodes) \cap ToSet(more[j].nodes) = {}
  BY <1>2, <1>4, <1>6 DEF Shelling
<1>7. ASSUME NEW i \in 2..Len(more) PROVE OnContour(Contours(more)[i - 1], more[i])
  <2>1. CASE i \in 2..Len(sets)
    <3>1. i - 1 \in 1..Len(sets) /\ i \in 1..Len(sets)
      BY <1>1, <2>1
    <3> QED BY <1>2, <1>3, <2>1, <3>1 DEF Shelling
  <2>2. CASE i = Len(sets) + 1
    <3>1. i - 1 = Len(sets) /\ Len(sets) \in 1..Len(sets)
      BY <1>1, <2>2
    <3> QED BY <1>2, <1>3, <2>2, <3>1 DEF Contour
  <2> QED BY <1>1, <1>2, <2>1, <2>2
<1>8. Len(more) >= 1 /\ Len(more[1].nodes) >= 2
  BY <1>1, <1>2 DEF Shelling
<1> QED BY <1>2, <1>5, <1>6, <1>7, <1>8 DEF Shelling, more

(* A path has as many nodes as its length.                                 *)
LEMMA PathCardinality ==
  ASSUME NEW V, NEW path \in Path(V)
  PROVE  IsFiniteSet(ToSet(path)) /\ Cardinality(ToSet(path)) = Len(path)
<1>1. /\ Len(path) \in Nat /\ DOMAIN path = 1..Len(path) /\ path \in Seq(V)
      /\ \A i, j \in 1..Len(path) : path[i] = path[j] => i = j
      /\ \A v : v \in ToSet(path) <=> \E i \in 1..Len(path) : path[i] = v
  BY PathIndices
<1>2. path \in Bijection(1..Len(path), ToSet(path))
  <2>1. path \in [1..Len(path) -> ToSet(path)]
    <3>1. path = [i \in 1..Len(path) |-> path[i]]
      BY <1>1
    <3>2. \A i \in 1..Len(path) : path[i] \in ToSet(path)
      BY <1>1
    <3> QED BY <3>1, <3>2
  <2>2. path \in Injection(1..Len(path), ToSet(path))
    BY <1>1, <2>1 DEF Injection, IsInjective
  <2>3. path \in Surjection(1..Len(path), ToSet(path))
    BY <1>1, <2>1 DEF Surjection
  <2> QED BY <2>2, <2>3 DEF Bijection
<1>3. IsFiniteSet(1..Len(path)) /\ Cardinality(1..Len(path)) = Len(path)
  BY <1>1, FS_Interval, SMTT(20)
<1>4. ExistsBijection(1..Len(path), ToSet(path))
  BY <1>2 DEF ExistsBijection
<1> QED BY <1>3, <1>4, FS_Bijection
==============================================================================
