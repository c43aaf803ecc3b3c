------------------------------- MODULE OgdfTest -------------------------------
(***************************************************************************)
(* One run of the layout callback: the lambda of src/src/main.cpp:35-47    *)
(* and the class OgdfTest (src/src/OgdfTest.cpp) it uses.  The loops of    *)
(* JSONMachineToGraph are one action per element, because an element that  *)
(* cannot be converted throws out of the middle of a loop.                 *)
(*                                                                         *)
(* A node of G is named by its place in G.nodes; its index() is the id of  *)
(* the state it was made from.  Of a position only the node it was         *)
(* computed for is kept.                                                   *)
(***************************************************************************)
EXTENDS Integers, Sequences, FiniteSets

CONSTANTS
  Machines,     \* the JSON texts the callback may be given
  NoNumber,     \* a JSON value that does not convert to int
  IsPlanar(_)   \* BoyerMyrvold::isPlanar, of a set of joined node pairs

VARIABLES
  machine,         \* the argument of the callback
  pc,              \* how far the callback is
  taken,           \* elements the current loop has handled
  nodes,           \* G.nodes: the index of every node
  edges,           \* G.edges: source and target node of every edge
  isValidMachine,
  graphIsPlanar,
  copy,            \* GC.nodes: the index of every node
  drawn,           \* the edges of the graph given to PlanarStraightLayout
  answer           \* the "states" array of the JSON text returned

vars == << machine, pc, taken, nodes, edges, isValidMachine, graphIsPlanar,
           copy, drawn, answer >>

(***************************************************************************)
(* Transition types.                                                       *)
(***************************************************************************)
OneWay == 0
TwoWay == 2

IdType == Int \cup {NoNumber}
TransitionType == [from : IdType, to : IdType, type : Int]

(* json: whether the text parses to an object; an absent array is empty.   *)
MachineType ==
  [json : BOOLEAN, states : Seq(IdType), transitions : Seq(TransitionType)]

ASSUME MachineAssumption ==
  /\ NoNumber \notin Int
  /\ Machines \subseteq MachineType

Init ==
  /\ machine \in Machines
  /\ pc = "parse"
  /\ taken = 0
  /\ nodes = << >>
  /\ edges = << >>
  /\ isValidMachine = TRUE
  /\ graphIsPlanar = FALSE
  /\ copy = << >>
  /\ drawn = {}
  /\ answer = << >>

(***************************************************************************)
(* Helpers.                                                                *)
(***************************************************************************)
Wild == 0     \* an uninitialised node pointer that points at no node of G

(* Fault: an index is taken for the place of its node.                     *)
placeOfIndex(index) == {index}

(* The first node with this index.  Without one the pointer returned is    *)
(* uninitialised and may point anywhere.                                   *)
getNodeByIndex(index) ==
  LET found == {v \in DOMAIN nodes : nodes[v] = index} IN
  IF found = {} THEN DOMAIN nodes \cup {Wild}
                ELSE {v \in found : \A u \in found : v <= u}

(* Faults: any edge of the source counts; the direction is ignored.        *)
sourceAlreadyExists(iSource, iTarget) ==
  \E e \in DOMAIN edges : nodes[edges[e].source] = iSource

oppositeAlreadyExists(iSource, iTarget) ==
  \E e \in DOMAIN edges : /\ nodes[edges[e].source] = iTarget
                          /\ nodes[edges[e].target] = iSource

transitionAlreadyExists(iSource, iTarget) ==
  \E e \in DOMAIN edges : /\ nodes[edges[e].source] = iSource
                          /\ nodes[edges[e].target] = iTarget

newEdge(v, w) ==
  IF Wild \in {v, w}
  THEN /\ pc' = "undefined"
       /\ UNCHANGED << taken, edges >>
  ELSE /\ edges' = Append(edges, [source |-> v, target |-> w])
       /\ taken' = taken + 1
       /\ UNCHANGED pc

NodePairs(kept) == {{edges[e].source, edges[e].target} : e \in kept}

-----------------------------------------------------------------------------
(***************************************************************************)
(* JSONMachineToGraph.                                                     *)
(***************************************************************************)
Throw == /\ pc' = "threw"
         /\ UNCHANGED << taken, nodes, edges, isValidMachine >>

Reject == /\ pc' = "loaded"
          /\ isValidMachine' = FALSE
          /\ UNCHANGED << taken, nodes, edges >>

EnterLoop(loop) == /\ pc' = loop
                   /\ taken' = 0
                   /\ UNCHANGED << nodes, edges, isValidMachine >>

ParseMachine ==
  /\ pc = "parse"
  /\ \/ ~ machine.json /\ Throw
     \/ machine.json /\ Len(machine.states) < 2 /\ Reject
     \/ machine.json /\ Len(machine.states) >= 2 /\ EnterLoop("states")
  /\ UNCHANGED << machine, graphIsPlanar, copy, drawn, answer >>

SaveState ==
  /\ pc = "states"
  /\ taken < Len(machine.states)
  /\ LET id == machine.states[taken + 1] IN
     \/ id = NoNumber /\ Throw
     \/ /\ id # NoNumber
        /\ nodes' = Append(nodes, id)
        /\ taken' = taken + 1
        /\ UNCHANGED << pc, edges, isValidMachine >>
  /\ UNCHANGED << machine, graphIsPlanar, copy, drawn, answer >>

StatesSaved ==
  /\ pc = "states"
  /\ taken = Len(machine.states)
  /\ \/ machine.transitions = << >> /\ Reject
     \/ machine.transitions # << >> /\ EnterLoop("transitions")
  /\ UNCHANGED << machine, graphIsPlanar, copy, drawn, answer >>

(* The transitions that become an edge.                                    *)
Drawable(t) == t.type \in {OneWay, TwoWay}
Duplicate(t) == t.type = TwoWay /\ transitionAlreadyExists(t.to, t.from)

SaveTransition ==
  /\ pc = "transitions"
  /\ taken < Len(machine.transitions)
  /\ LET t == machine.transitions[taken + 1] IN
     \/ NoNumber \in {t.from, t.to} /\ Throw
     \/ /\ NoNumber \notin {t.from, t.to}
        /\ IF Drawable(t) /\ ~ Duplicate(t)
           THEN \E v \in getNodeByIndex(t.from), w \in getNodeByIndex(t.to) :
                  newEdge(v, w)
           ELSE taken' = taken + 1 /\ UNCHANGED << pc, edges >>
        /\ UNCHANGED << nodes, isValidMachine >>
  /\ UNCHANGED << machine, graphIsPlanar, copy, drawn, answer >>

TransitionsSaved ==
  /\ pc = "transitions"
  /\ taken = Len(machine.transitions)
  /\ pc' = "loaded"
  /\ UNCHANGED << machine, taken, nodes, edges, isValidMachine, graphIsPlanar,
                  copy, drawn, answer >>

(***************************************************************************)
(* graphToPlanarRep.                                                       *)
(***************************************************************************)
(* A node's data is found by its index in arrays that start at 0: with a   *)
(* negative index, or one index for two nodes, the algorithms may do       *)
(* anything.                                                               *)
Indexable ==
  /\ \A v \in DOMAIN nodes : nodes[v] >= 0
  /\ \A u, v \in DOMAIN nodes : nodes[u] = nodes[v] => u = v

(* MaximumPlanarSubgraph::callAndDelete: no deleted edge could be put back *)
(* without a crossing.                                                     *)
PlanarSubgraphs ==
  {kept \in SUBSET DOMAIN edges :
     /\ IsPlanar(NodePairs(kept))
     /\ \A e \in DOMAIN edges \ kept : ~ IsPlanar(NodePairs(kept \cup {e}))}

DrawOriginal ==
  /\ graphIsPlanar' = TRUE
  /\ drawn' = DOMAIN edges
  /\ UNCHANGED copy

(* GraphCopy numbers its nodes from 0.                                     *)
DrawCopy ==
  /\ graphIsPlanar' = FALSE
  /\ copy' = [v \in DOMAIN nodes |-> v - 1]
  /\ drawn' \in PlanarSubgraphs

(* Fault: graphIsPlanar keeps the value the constructor gave it.           *)
graphToPlanarRepKeepsFlag ==
  /\ pc = "loaded"
  /\ isValidMachine
  /\ \/ /\ IsPlanar(NodePairs(DOMAIN edges)) \/ ~ Indexable
        /\ drawn' = DOMAIN edges
        /\ pc' = "drawn"
        /\ UNCHANGED << graphIsPlanar, copy >>
     \/ ~ IsPlanar(NodePairs(DOMAIN edges)) /\ DrawCopy /\ pc' = "drawn"
  /\ UNCHANGED << machine, taken, nodes, edges, isValidMachine, answer >>

graphToPlanarRep ==
  /\ pc = "loaded"
  /\ isValidMachine
  /\ \/ /\ IsPlanar(NodePairs(DOMAIN edges)) \/ ~ Indexable
        /\ DrawOriginal
        /\ pc' = "drawn"
     \/ /\ ~ IsPlanar(NodePairs(DOMAIN edges)) \/ ~ Indexable
        /\ DrawCopy
        /\ pc' = "drawn"
     \/ /\ ~ Indexable
        /\ pc' = "undefined"
        /\ UNCHANGED << graphIsPlanar, copy, drawn >>
  /\ UNCHANGED << machine, taken, nodes, edges, isValidMachine, answer >>

(***************************************************************************)
(* planarRepToJSON, and what the callback does with an invalid machine.    *)
(***************************************************************************)
planarRepToJSON ==
  /\ pc = "drawn"
  /\ LET shown == IF graphIsPlanar THEN nodes ELSE copy IN
       answer' = [v \in DOMAIN shown |-> [id |-> shown[v], position |-> v]]
  /\ pc' = "answered"
  /\ UNCHANGED << machine, taken, nodes, edges, isValidMachine, graphIsPlanar,
                  copy, drawn >>

ReturnMachine ==
  /\ pc = "loaded"
  /\ ~ isValidMachine
  /\ pc' = "echoed"
  /\ UNCHANGED << machine, taken, nodes, edges, isValidMachine, graphIsPlanar,
                  copy, drawn, answer >>

Next ==
  \/ ParseMachine
  \/ SaveState
  \/ StatesSaved
  \/ SaveTransition
  \/ TransitionsSaved
  \/ graphToPlanarRep
  \/ planarRepToJSON
  \/ ReturnMachine

Spec == Init /\ [][Next]_vars

-----------------------------------------------------------------------------
(***************************************************************************)
(* Properties.                                                             *)
(***************************************************************************)
Progress == {"parse", "states", "transitions", "loaded", "drawn", "answered",
             "echoed", "threw", "undefined"}

(* Type invariant of the callback. *)
TypeOK ==
  /\ machine \in Machines
  /\ pc \in Progress
  /\ taken \in Nat
  /\ nodes \in Seq(Int)
  /\ edges \in Seq([source : DOMAIN nodes, target : DOMAIN nodes])
  /\ isValidMachine \in BOOLEAN
  /\ graphIsPlanar \in BOOLEAN
  /\ copy \in Seq(Nat)
  /\ drawn \in SUBSET DOMAIN edges
  /\ answer \in Seq([id : Int, position : Nat \ {0}])

(* The transitions the second loop has handled, once it is reached.        *)
SecondLoop == {"transitions", "loaded", "drawn", "answered", "echoed"}
Handled == {i \in DOMAIN machine.transitions : i <= taken}

HandledEdges == {i \in Handled : Drawable(machine.transitions[i])}

StateIds == {machine.states[i] : i \in DOMAIN machine.states}

(* Every transition that is drawn joins two states of the machine.         *)
KnownEnds ==
  \A i \in DOMAIN machine.transitions :
    Drawable(machine.transitions[i]) =>
      {machine.transitions[i].from, machine.transitions[i].to} \subseteq StateIds

EdgeIds(e) == {nodes[edges[e].source], nodes[edges[e].target]}
TransitionIds(i) == {machine.transitions[i].from, machine.transitions[i].to}

(* Leaving out the second direction of a two-way transition loses no       *)
(* connection and invents none: from the second loop on, the pairs of      *)
(* states that G joins are exactly the pairs joined by the OneWay and      *)
(* TwoWay transitions handled so far.                                      *)
EdgeSupport ==
  (KnownEnds /\ pc \in SecondLoop) =>
    {EdgeIds(e) : e \in DOMAIN edges} = {TransitionIds(i) : i \in HandledEdges}

(* The machines of the toolbox: every state has an id of its own, a loop   *)
(* is a recursive transition, and two states are joined by one OneWay      *)
(* transition or by the two directions of a TwoWay one.                    *)
WellFormed ==
  /\ machine.json
  /\ \A i, j \in DOMAIN machine.states :
       machine.states[i] = machine.states[j] => i = j
  /\ \A i \in DOMAIN machine.states : machine.states[i] \in Nat
  /\ KnownEnds
  /\ LET D == {i \in DOMAIN machine.transitions : Drawable(machine.transitions[i])}
         t(i) == machine.transitions[i]
     IN /\ \A i \in D : t(i).from # t(i).to
        /\ \A i, j \in D :
             (i # j /\ TransitionIds(i) = TransitionIds(j)) =>
               /\ t(i).type = TwoWay /\ t(j).type = TwoWay
               /\ t(i).from = t(j).to

(* G is simple for such a machine, in whatever order its transitions come: *)
(* no edge is a loop and no two edges join the same two nodes, which is    *)
(* what the straight-line layout needs.                                    *)
WellFormedIsSimple ==
  WellFormed =>
    /\ \A e \in DOMAIN edges : edges[e].source # edges[e].target
    /\ \A e, f \in DOMAIN edges : EdgeIds(e) = EdgeIds(f) => e = f

(* An answer has one entry for every state of the machine, in order, each  *)
(* with the position computed for that state and no two with one id,       *)
(* whichever of the two graphs it is read from.                            *)
OneEntryPerState ==
  (pc = "answered" /\ Indexable) =>
    /\ DOMAIN answer = DOMAIN machine.states
    /\ \A i \in DOMAIN answer : answer[i].position = i
    /\ \A i, j \in DOMAIN answer : answer[i].id = answer[j].id => i = j

(***************************************************************************)
(* What comments and assertions say and the code does not do.              *)
(***************************************************************************)
(* planarRepToJSON "saves the new node-positions in a JSON string, that is *)
(* send to the toolbox" (OgdfTest.cpp:106): the ids of the answer are the  *)
(* ids of the machine's states.                                            *)
AnswerNamesStates ==
  pc = "answered" => \A i \in DOMAIN answer : answer[i].id \in StateIds

(* PlanarStraightLayout: "The input graph needs to be planar and simple    *)
(* (i.e., no self-loops and no multiple edges)", asserted with             *)
(* isSimple(G) and isLoopFree(G) by its doCall.                            *)
LayoutGetsSimpleGraph ==
  pc = "drawn" =>
    /\ \A e \in drawn : edges[e].source # edges[e].target
    /\ \A e, f \in drawn : edges[e] = edges[f] => e = f

(* Graph::newEdge asserts that both of its nodes belong to the graph.      *)
NewEdgeGetsNodesOfGraph == pc = "undefined" => ~ Indexable
==============================================================================
