------------------------------ MODULE MCOgdfTest ------------------------------
(***************************************************************************)
(* Small instances of OgdfTest for TLC: the machines the callback is given *)
(***************************************************************************)
EXTENDS OgdfTest

CONSTANT None   \* the value of NoNumber

Recursive == 1

T(from, to, type) == [from |-> from, to |-> to, type |-> type]
Machine(states, transitions) ==
  [json |-> TRUE, states |-> states, transitions |-> transitions]

Malformed == [json |-> FALSE, states |-> << >>, transitions |-> << >>]

Lists(S, n) == UNION {[1..k -> S] : k \in 0..n}

(* No, one, two and three states; ids that are not numbers, that repeat,   *)
(* and that are negative.                                                  *)
StateLists ==
  {<< >>, <<1>>, <<1, 3>>, <<3, 1>>, <<1, 1>>, <<1, None>>, <<-1, 3>>,
   <<1, 3, 4>>, <<1, 3, 1>>}

(* Every transition between two of the states, and to an unknown one.      *)
Known == {T(f, t, y) : f, t \in {1, 3}, y \in {OneWay, Recursive, TwoWay}}
Odd == {T(1, 7, OneWay), T(7, 3, TwoWay), T(1, None, OneWay), T(None, 1, Recursive)}

SmallMachines ==
  {Machine(s, t) : s \in StateLists, t \in Lists(Known \cup Odd, 2)}

(* Three transitions that become edges, between three states; but for the *)
(* names of the states, these first transitions are all there are.        *)
Ends == {T(f, t, y) : f, t \in {1, 3, 4}, y \in {OneWay, TwoWay}}
TripleMachines ==
  {Machine(<<1, 3, 4>>, <<first, second, third>>) :
     first \in {T(1, 3, OneWay), T(1, 3, TwoWay), T(1, 1, OneWay)},
     second \in Ends, third \in Ends}

(* Five states, each joined to each: the smallest machine that is not      *)
(* planar.  Without one transition it is; with both directions of a TwoWay *)
(* transition, and with a OneWay transition twice, it is not.              *)
Ten == <<T(1, 2, OneWay), T(1, 3, OneWay), T(1, 4, OneWay), T(1, 5, OneWay),
         T(2, 3, OneWay), T(2, 4, OneWay), T(2, 5, OneWay), T(3, 4, OneWay),
         T(3, 5, OneWay), T(4, 5, TwoWay)>>
FiveStates == <<1, 2, 3, 4, 5>>
CompleteMachines ==
  {Machine(FiveStates, Ten),
   Machine(FiveStates, SubSeq(Ten, 1, 9)),
   Machine(FiveStates, Append(Ten, T(5, 4, TwoWay))),
   Machine(FiveStates, Append(Ten, T(3, 5, OneWay)))}

AnyMachine ==
  SmallMachines \cup TripleMachines \cup CompleteMachines \cup {Malformed}

(* With at most five nodes the complete graph on five of them is the only  *)
(* one that is not planar.                                                 *)
AllButK5(pairs) == Cardinality({p \in pairs : Cardinality(p) = 2}) < 10
==============================================================================
