------------------------------ MODULE ShellingSets ------------------------------
(***************************************************************************)
(* What the sets of a shelling order do to the contour c_1, ..., c_q: a    *)
(* set is put between its left and its right node and covers what is       *)
(* between them.                                                           *)
(***************************************************************************)
EXTENDS Integers, FiniteSets, SequencesExt

At(contour, v) == CHOOSE i \in DOMAIN contour : contour[i] = v
Section(contour, S) == SubSeq(contour, At(contour, S.left), At(contour, S.right))
Covered(contour, S) == SubSeq(contour, At(contour, S.left) + 1, At(contour, S.right) - 1)
OnContour(contour, S) ==
  /\ {S.left, S.right} \subseteq ToSet(contour)
  /\ At(contour, S.left) < At(contour, S.right)

PutOn(contour, S) ==
  IF ~ OnContour(contour, S) THEN contour
  ELSE SubSeq(contour, 1, At(contour, S.left)) \o S.nodes
         \o SubSeq(contour, At(contour, S.right), Len(contour))

(* The contour after each of the sets.                                     *)
Contours(sets) ==
  LET after[i \in DOMAIN sets] ==
        IF i = 1 THEN sets[1].nodes ELSE PutOn(after[i - 1], sets[i])
  IN after

Contour(sets) == Contours(sets)[Len(sets)]

(***************************************************************************)
(* The edges a graph with such an order may have are the base, the chains, *)
(* the two ends of every set with its left and right node, and a single    *)
(* node with all it covers.                                                *)
(***************************************************************************)
EdgesOf(sets) ==
  UNION {LET S == sets[i]
             chain == {<< S.nodes[j], S.nodes[j + 1] >> : j \in 1..(Len(S.nodes) - 1)}
         IN IF i = 1 THEN chain
            ELSE chain \cup {<< S.left, Head(S.nodes) >>, << Last(S.nodes), S.right >>}
                 \cup IF Len(S.nodes) > 1 THEN {}
                      ELSE {<< v, S.nodes[1] >> :
                              v \in ToSet(Covered(Contours(sets)[i - 1], S))}
         : i \in DOMAIN sets}
==============================================================================
