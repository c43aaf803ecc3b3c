--------------------- MODULE MCBiconnectedShellingOrder ---------------------
(***************************************************************************)
(* All biconnected plane graphs with few nodes and a largest face outside: *)
(* the cycle of the external face, and ears put one by one into the inner  *)
(* faces.                                                                  *)
(***************************************************************************)
EXTENDS BiconnectedShellingOrder

(* A cycle from its least node on.                                         *)
Turned(c) ==
  LET n == Len(c)
      i == At(c, Min(ToSet(c)))
  IN [k \in 1..n |-> c[((i + k - 2) % n) + 1]]

Joined(g, v, w) ==
  \E c \in g : LET n == Len(c) IN
    \E i \in 1..n : {c[i], c[(i % n) + 1]} = {v, w}

(* The faces that replace face c when a path of the nodes new joins its    *)
(* i-th and its j-th node.                                                 *)
Split(c, i, j, new) ==
  {Turned(SubSeq(c, i, j) \o Reverse(new)),
   Turned(SubSeq(c, j, Len(c)) \o SubSeq(c, 1, i) \o new)}

NodesOf(g) == UNION {ToSet(c) : c \in g}

Ears(g, n) ==
  UNION {LET used == Cardinality(NodesOf(g)) IN
         {(g \ {c}) \cup Split(c, ij[1], ij[2], [k \in 1..z |-> used + k]) :
            << ij, z >> \in {<< ij, z >> \in ((1..Len(c)) \X (1..Len(c))) \X (0..(n - used)) :
                      ij[1] < ij[2] /\ (z > 0 \/ ~ Joined(g, c[ij[1]], c[ij[2]]))}}
         : c \in g}

(* The inner faces of the graphs whose external face has p nodes, by the   *)
(* number of their ears.                                                   *)
Grown(p, n) ==
  LET inner == Reverse([i \in 1..p |-> i])
      grown[ears \in Nat] ==
        IF ears = 0 THEN {{Turned(inner)}}
        ELSE UNION {Ears(g, n) : g \in grown[ears - 1]}
      all == UNION {grown[ears] : ears \in 0..(2 * n - 5)}
  IN {g \in all : NodesOf(g) = 1..n /\ \A c \in g : Len(c) <= p}

Embedding(faces, n) ==
  LET follows(c) == {<< c[i], c[(i % Len(c)) + 1] >> : i \in DOMAIN c}
  IN [nodes |-> 1..n,
      faces |-> faces,
      rightFace |-> [vw \in UNION {follows(faces[f]) : f \in DOMAIN faces} |->
                       CHOOSE f \in DOMAIN faces : vw \in follows(faces[f])]]

GraphsOf(n) ==
  UNION {{Embedding(FoldSet(LAMBDA c, fs : Append(fs, c), << [i \in 1..p |-> i] >>, g), n)
            : g \in Grown(p, n)} : p \in 3..n}

UpToSixNodes == UNION {GraphsOf(n) : n \in 3..6}

(***************************************************************************)
(* Larger ones, in which virtual edges are removed, a neighbour's virtual  *)
(* edge becomes possible, a cut face is taken away from under a node, or   *)
(* the base has three nodes.                                               *)
(***************************************************************************)
Picked ==
  {<< 8, << << 1, 2, 3, 4, 5, 6 >>, << 5, 4, 3 >>, << 3, 2, 8 >>, << 2, 1, 6 >>,
            << 6, 5, 7, 3, 8, 2 >>, << 3, 7, 5 >> >> >>,
   << 10, << << 1, 2, 3, 4, 5, 6, 7, 8, 9 >>, << 5, 4, 3 >>, << 7, 6, 10 >>,
             << 6, 5, 3, 2, 1, 9, 8, 7, 10 >> >> >>,
   << 10, << << 1, 2, 3, 4, 5, 6, 7, 8 >>, << 7, 6, 9 >>, << 8, 7, 10 >>, << 2, 1, 8 >>,
             << 5, 4, 3 >>, << 3, 2, 8, 10, 7, 9, 6, 5 >> >> >>,
   << 11, << << 1, 2, 3, 4, 5, 6 >>, << 3, 2, 9 >>, << 1, 6, 5, 4, 3, 7 >>, << 7, 3, 10 >>,
             << 2, 1, 7, 8, 3, 11 >>, << 3, 8, 7, 10 >>, << 3, 9, 2, 11 >> >> >>}

SmallAndPicked == UpToSixNodes \cup {Embedding(graph[2], graph[1]) : graph \in Picked}
==============================================================================
