---------------------------- MODULE OgdfTestProofs ----------------------------
(***************************************************************************)
(* The layout callback, for every set of machines and every planarity      *)
(* test: the graph built from a machine joins the right states, is simple  *)
(* for a well-formed machine, and every answer lists every state once.     *)
(***************************************************************************)
EXTENDS OgdfTest, SequenceTheorems, TLAPS

(* How far the loops have come with G and its copy.                        *)
Built ==
  /\ Len(nodes) <= Len(machine.states)
  /\ \A v \in DOMAIN nodes : nodes[v] = machine.states[v]
  /\ pc \in {"parse", "states"} => edges = << >>
  /\ pc = "parse" => taken = 0 /\ nodes = << >>
  /\ pc = "states" => taken = Len(nodes)
  /\ pc = "transitions" => Len(nodes) = Len(machine.states)
  /\ pc = "loaded" /\ isValidMachine => Len(nodes) = Len(machine.states)
  /\ pc = "drawn" =>
       /\ Len(nodes) = Len(machine.states)
       /\ ~ graphIsPlanar => copy = [v \in DOMAIN nodes |-> v - 1]

(* Every edge runs the way of a transition it was made for.                *)
Traced ==
  (KnownEnds /\ pc \in SecondLoop) =>
    \A e \in DOMAIN edges : \E i \in HandledEdges :
      /\ nodes[edges[e].source] = machine.transitions[i].from
      /\ nodes[edges[e].target] = machine.transitions[i].to

(* The inductive invariant.                                                *)
IInv == TypeOK /\ Built /\ EdgeSupport /\ Traced /\ WellFormedIsSimple
               /\ OneEntryPerState

-----------------------------------------------------------------------------
(* What is known of the machine under way. *)
LEMMA MachineTyped ==
  ASSUME machine \in Machines
  PROVE  /\ machine.states \in Seq(IdType)
         /\ machine.transitions \in Seq(TransitionType)
         /\ \A i \in DOMAIN machine.transitions :
              /\ machine.transitions[i].from \in IdType
              /\ machine.transitions[i].to \in IdType
<1>1. machine \in MachineType
  BY MachineAssumption DEF MachineAssumption
<1>2. machine.states \in Seq(IdType) /\ machine.transitions \in Seq(TransitionType)
  BY <1>1 DEF MachineType
<1>3. \A i \in DOMAIN machine.transitions :
         machine.transitions[i] \in TransitionType
  BY <1>2
<1>. QED  BY <1>2, <1>3 DEF TransitionType

(* The nodes an index can be resolved to, for the index of a state.        *)
LEMMA KnownNode ==
  ASSUME NEW index \in StateIds, Built, Len(nodes) = Len(machine.states),
         machine \in Machines, nodes \in Seq(Int),
         NEW v \in getNodeByIndex(index)
  PROVE  v \in DOMAIN nodes /\ nodes[v] = index
<1>. DEFINE found == {u \in DOMAIN nodes : nodes[u] = index}
<1>1. PICK i \in DOMAIN machine.states : machine.states[i] = index
  BY DEF StateIds
<1>2. DOMAIN machine.states = DOMAIN nodes
  BY MachineTyped
<1>3. i \in found
  BY <1>1, <1>2 DEF Built
<1>4. v \in found
  BY <1>3 DEF getNodeByIndex
<1>. QED  BY <1>4

-----------------------------------------------------------------------------
LEMMA Initial == Init => IInv
<1>. SUFFICES ASSUME Init PROVE IInv
  OBVIOUS
<1>1. machine.states \in Seq(IdType) /\ machine.transitions \in Seq(TransitionType)
  BY MachineTyped DEF Init
<1>2. TypeOK
  BY EmptySeq DEF Init, TypeOK, Progress
<1>3. Built
  BY <1>1 DEF Init, Built
<1>4. EdgeSupport /\ Traced
  BY DEF Init, EdgeSupport, Traced, SecondLoop
<1>5. WellFormedIsSimple /\ OneEntryPerState
  BY DEF Init, WellFormedIsSimple, OneEntryPerState
<1>. QED  BY <1>2, <1>3, <1>4, <1>5 DEF IInv

(* G, its edges and the answer stay as they are: what is left of the       *)
(* invariant to show is its typing, Built and, on entering the second      *)
(* loop, that nothing has been handled.                                    *)
LEMMA SameGraph ==
  ASSUME IInv, UNCHANGED << machine, nodes, edges, answer >>,
         pc' # "answered" \/ pc = "answered",
         TypeOK', Built',
         pc' \in SecondLoop =>
           \/ pc \in SecondLoop /\ taken' = taken
           \/ edges = << >> /\ Handled' = {}
  PROVE  IInv'
<1>0. /\ KnownEnds' <=> KnownEnds
      /\ WellFormed' <=> WellFormed
  BY DEF KnownEnds, WellFormed, StateIds, TransitionIds
<1>1. (EdgeSupport /\ Traced)'
  <2>1. CASE pc' \notin SecondLoop
    BY <2>1 DEF EdgeSupport, Traced
  <2>2. CASE pc' \in SecondLoop /\ pc \in SecondLoop /\ taken' = taken
    <3>1. HandledEdges' = HandledEdges
      BY <2>2 DEF HandledEdges, Handled
    <3>2. EdgeSupport'
      BY <2>2, <3>1, <1>0 DEF IInv, EdgeSupport, EdgeIds, TransitionIds
    <3>3. Traced'
      BY <2>2, <3>1, <1>0 DEF IInv, Traced
    <3>. QED  BY <3>2, <3>3
  <2>3. CASE edges = << >> /\ Handled' = {}
    <3>1. HandledEdges' = {} /\ DOMAIN edges' = {}
      BY <2>3 DEF HandledEdges
    <3>. QED  BY <3>1 DEF EdgeSupport, Traced
  <2>. QED  BY <2>1, <2>2, <2>3
<1>2. WellFormedIsSimple'
  BY <1>0 DEF IInv, WellFormedIsSimple, EdgeIds
<1>3. OneEntryPerState'
  BY DEF IInv, OneEntryPerState, Indexable
<1>. QED  BY <1>1, <1>2, <1>3 DEF IInv

-----------------------------------------------------------------------------
(* Parsing, and the checks between the loops. *)
LEMMA ParseMachineKeeps == IInv /\ ParseMachine => IInv'
<1>. SUFFICES ASSUME IInv, ParseMachine PROVE IInv'
  OBVIOUS
<1>0. /\ UNCHANGED << machine, nodes, edges, graphIsPlanar, copy, drawn, answer >>
      /\ pc' \in Progress /\ taken' \in Nat
  BY DEF IInv, TypeOK, ParseMachine, Throw, Reject, EnterLoop, Progress
<1>b. isValidMachine' \in BOOLEAN
  BY Zenon DEF IInv, TypeOK, ParseMachine, Throw, Reject, EnterLoop
<1>1. TypeOK'
  BY <1>0, <1>b, Zenon DEF IInv, TypeOK
<1>2. /\ machine.states \in Seq(IdType) /\ machine.transitions \in Seq(TransitionType)
      /\ nodes = << >> /\ edges = << >> /\ taken = 0
      /\ UNCHANGED << machine, nodes, edges, answer >> /\ taken' = 0
      /\ pc = "parse" /\ pc' \in {"threw", "loaded", "states"}
      /\ pc' = "loaded" => ~ isValidMachine'
  BY MachineTyped
  DEF IInv, TypeOK, Built, ParseMachine, Throw, Reject, EnterLoop
<1>3. Built'
  BY <1>2 DEF Built
<1>4. Handled' = {}
  BY <1>2 DEF Handled
<1>. QED  BY <1>1, <1>2, <1>3, <1>4, SameGraph

LEMMA StatesSavedKeeps == IInv /\ StatesSaved => IInv'
<1>. SUFFICES ASSUME IInv, StatesSaved PROVE IInv'
  OBVIOUS
<1>0. /\ UNCHANGED << machine, nodes, edges, graphIsPlanar, copy, drawn, answer >>
      /\ pc' \in Progress /\ taken' \in Nat
  BY DEF IInv, TypeOK, StatesSaved, Reject, EnterLoop, Progress
<1>b. isValidMachine' \in BOOLEAN
  BY Zenon DEF IInv, TypeOK, StatesSaved, Reject, EnterLoop
<1>1. TypeOK'
  BY <1>0, <1>b, Zenon DEF IInv, TypeOK
<1>2. /\ machine.states \in Seq(IdType) /\ machine.transitions \in Seq(TransitionType)
      /\ nodes \in Seq(Int) /\ Len(nodes) = Len(machine.states) /\ edges = << >>
      /\ UNCHANGED << machine, nodes, edges, answer >>
      /\ \/ pc' = "loaded" /\ ~ isValidMachine' /\ machine.transitions = << >>
         \/ pc' = "transitions" /\ taken' = 0
  BY MachineTyped DEF IInv, TypeOK, Built, StatesSaved, Reject, EnterLoop
<1>3. Built'
  BY <1>2 DEF IInv, Built
<1>4. Handled' = {}
  BY <1>2 DEF Handled
<1>. QED  BY <1>1, <1>2, <1>3, <1>4, SameGraph DEF StatesSaved

(* A state becomes the node of its place. *)
LEMMA SaveStateKeeps == IInv /\ SaveState => IInv'
<1>. SUFFICES ASSUME IInv, SaveState PROVE IInv'
  OBVIOUS
<1>1. /\ machine.states \in Seq(IdType) /\ nodes \in Seq(Int) /\ taken \in Nat
      /\ taken = Len(nodes) /\ taken < Len(machine.states) /\ edges = << >>
      /\ pc = "states"
  BY MachineTyped DEF IInv, TypeOK, Built, SaveState
<1>2. CASE machine.states[taken + 1] = NoNumber
  <2>1. Throw
    BY <1>2 DEF SaveState
  <2>2. TypeOK'
    BY <2>1 DEF IInv, TypeOK, SaveState, Throw, Progress
  <2>3. Built'
    BY <2>1 DEF IInv, Built, SaveState, Throw
  <2>. QED
    BY <2>1, <2>2, <2>3, SameGraph DEF SaveState, Throw, SecondLoop
<1>3. CASE machine.states[taken + 1] # NoNumber
  <2>1. /\ nodes' = Append(nodes, machine.states[taken + 1])
        /\ taken' = taken + 1
        /\ UNCHANGED << pc, edges, isValidMachine, machine, graphIsPlanar, copy,
                        drawn, answer >>
    BY <1>3 DEF SaveState
  <2>2. machine.states[taken + 1] \in Int
    BY <1>1, <1>3 DEF IdType
  <2>3. /\ nodes' \in Seq(Int)
        /\ Len(nodes') = taken + 1
        /\ \A v \in DOMAIN nodes' : nodes'[v] = machine.states[v]
    BY <1>1, <2>1, <2>2 DEF IInv, Built
  <2>4. TypeOK'
    BY <1>1, <2>1, <2>3, EmptySeq DEF IInv, TypeOK
  <2>5. Built'
    BY <1>1, <2>1, <2>3 DEF Built
  <2>6. (EdgeSupport /\ Traced)'
    BY <1>1, <2>1 DEF EdgeSupport, Traced, SecondLoop
  <2>7. (WellFormedIsSimple /\ OneEntryPerState)'
    BY <1>1, <2>1 DEF WellFormedIsSimple, OneEntryPerState
  <2>. QED  BY <2>4, <2>5, <2>6, <2>7 DEF IInv
<1>. QED  BY <1>2, <1>3

-----------------------------------------------------------------------------
(* One more transition. *)
LEMMA OneMoreHandled ==
  ASSUME taken \in Nat, taken < Len(machine.transitions), taken' = taken + 1,
         machine.transitions \in Seq(TransitionType), machine' = machine
  PROVE  /\ Handled' = Handled \cup {taken + 1}
         /\ HandledEdges' = IF Drawable(machine.transitions[taken + 1])
                              THEN HandledEdges \cup {taken + 1} ELSE HandledEdges
         /\ taken + 1 \in DOMAIN machine.transitions
         /\ taken + 1 \notin HandledEdges
<1>1. /\ Handled' = Handled \cup {taken + 1}
      /\ taken + 1 \in DOMAIN machine.transitions
      /\ taken + 1 \notin Handled
  BY DEF Handled
<1>. QED  BY <1>1 DEF HandledEdges, Drawable

(* A transition that is not drawn, or whose opposite is an edge, leaves G. *)
LEMMA TransitionSkipped ==
  ASSUME IInv, SaveTransition, taken' = taken + 1, UNCHANGED << pc, edges >>,
         LET t == machine.transitions[taken + 1]
         IN  ~ Drawable(t) \/ Duplicate(t)
  PROVE  IInv'
<1>. DEFINE k == taken + 1
<1>. DEFINE t == machine.transitions[k]
<1>1. /\ taken \in Nat /\ taken < Len(machine.transitions) /\ pc = "transitions"
      /\ machine.transitions \in Seq(TransitionType)
      /\ edges \in Seq([source : DOMAIN nodes, target : DOMAIN nodes])
      /\ UNCHANGED << machine, pc, nodes, edges, isValidMachine, graphIsPlanar,
                      copy, drawn, answer >>
  BY MachineTyped DEF IInv, TypeOK, SaveTransition, Throw
<1>2. TypeOK'
  <2>1. taken' \in Nat
    BY <1>1
  <2>. QED  BY <1>1, <2>1, Zenon DEF IInv, TypeOK
<1>3. Built'
  BY <1>1 DEF IInv, Built
<1>4. /\ HandledEdges' = IF Drawable(t) THEN HandledEdges \cup {k} ELSE HandledEdges
      /\ KnownEnds' <=> KnownEnds
      /\ WellFormed' <=> WellFormed
  <2>1. HandledEdges' = IF Drawable(t) THEN HandledEdges \cup {k} ELSE HandledEdges
    BY <1>1, OneMoreHandled
  <2>2. (KnownEnds' <=> KnownEnds) /\ (WellFormed' <=> WellFormed)
    BY <1>1 DEF KnownEnds, WellFormed, StateIds, TransitionIds
  <2>. QED  BY <2>1, <2>2
<1>5. EdgeSupport'
  <2>a. /\ {EdgeIds(e) : e \in DOMAIN edges}' = {EdgeIds(e) : e \in DOMAIN edges}
        /\ {TransitionIds(i) : i \in HandledEdges}'
             = {TransitionIds(i) : i \in HandledEdges'}
    BY <1>1 DEF EdgeIds, TransitionIds
  <2>. SUFFICES ASSUME KnownEnds
                PROVE  {EdgeIds(e) : e \in DOMAIN edges}
                         = {TransitionIds(i) : i \in HandledEdges'}
    BY <2>a, <1>4, Zenon DEF EdgeSupport
  <2>1. {EdgeIds(e) : e \in DOMAIN edges} = {TransitionIds(i) : i \in HandledEdges}
    BY <1>1 DEF IInv, EdgeSupport, SecondLoop
  <2>2. CASE ~ Drawable(t)
    BY <1>4, <2>1, <2>2
  <2>3. CASE Drawable(t) /\ Duplicate(t)
    <3>1. PICK e \in DOMAIN edges : /\ nodes[edges[e].source] = t.to
                                    /\ nodes[edges[e].target] = t.from
      BY <2>3 DEF Duplicate, transitionAlreadyExists
    <3>2. EdgeIds(e) = TransitionIds(k)
      BY <3>1 DEF EdgeIds, TransitionIds
    <3>. HIDE DEF k
    <3>3. {TransitionIds(i) : i \in HandledEdges'}
            = {TransitionIds(i) : i \in HandledEdges} \cup {TransitionIds(k)}
      BY <1>4, <2>3
    <3>. QED  BY <2>1, <3>2, <3>3
  <2>. QED  BY <2>2, <2>3
<1>6. Traced'
  BY <1>1, <1>4 DEF IInv, Traced, SecondLoop
<1>7. WellFormedIsSimple'
  BY <1>1, <1>4 DEF IInv, WellFormedIsSimple, EdgeIds
<1>8. OneEntryPerState'
  BY <1>1 DEF IInv, OneEntryPerState, Indexable
<1>. QED  BY <1>2, <1>3, <1>5, <1>6, <1>7, <1>8 DEF IInv

(* A transition that becomes an edge.  For a well-formed machine no edge   *)
(* joins its states yet: such an edge runs the way of another transition,  *)
(* which is the opposite direction of a TwoWay one, so it would have been  *)
(* found by transitionAlreadyExists.                                       *)
LEMMA EdgeAdded ==
  ASSUME IInv, SaveTransition,
         LET t == machine.transitions[taken + 1]
         IN  /\ NoNumber \notin {t.from, t.to}
             /\ Drawable(t) /\ ~ Duplicate(t),
         NEW v \in getNodeByIndex(machine.transitions[taken + 1].from),
         NEW w \in getNodeByIndex(machine.transitions[taken + 1].to),
         v # Wild, w # Wild, newEdge(v, w),
         UNCHANGED << machine, nodes, isValidMachine, graphIsPlanar, copy, drawn,
                      answer >>
  PROVE  IInv'
<1>. DEFINE k == taken + 1
<1>. DEFINE t == machine.transitions[k]
<1>. DEFINE new == [source |-> v, target |-> w]
<1>p. PICK last : last = Len(edges) + 1
  OBVIOUS
<1>1. /\ taken \in Nat /\ taken < Len(machine.transitions) /\ pc = "transitions"
      /\ machine.transitions \in Seq(TransitionType)
      /\ nodes \in Seq(Int) /\ Len(nodes) = Len(machine.states)
      /\ edges \in Seq([source : DOMAIN nodes, target : DOMAIN nodes])
      /\ machine \in Machines
  BY MachineTyped DEF IInv, TypeOK, Built, SaveTransition
<1>2. /\ edges' = Append(edges, new) /\ taken' = k
      /\ UNCHANGED << machine, pc, nodes, isValidMachine, graphIsPlanar, copy,
                      drawn, answer >>
  BY DEF newEdge
<1>3. v \in DOMAIN nodes /\ w \in DOMAIN nodes
  <2>1. getNodeByIndex(t.from) \subseteq DOMAIN nodes \cup {Wild}
    BY DEF getNodeByIndex
  <2>2. getNodeByIndex(t.to) \subseteq DOMAIN nodes \cup {Wild}
    BY DEF getNodeByIndex
  <2>. QED  BY <2>1, <2>2
<1>4. /\ edges' \in Seq([source : DOMAIN nodes, target : DOMAIN nodes])
      /\ DOMAIN edges' = DOMAIN edges \cup {last}
      /\ edges'[last].source = v /\ edges'[last].target = w
      /\ \A e \in DOMAIN edges : edges'[e] = edges[e]
      /\ last \notin DOMAIN edges
  <2>. DEFINE S == [source : DOMAIN nodes, target : DOMAIN nodes]
  <2>1. new \in S /\ new.source = v /\ new.target = w
    BY <1>3
  <2>2. edges \in Seq(S)
    BY <1>1
  <2>. HIDE DEF S, new
  <2>3. /\ Append(edges, new) \in Seq(S)
        /\ Len(Append(edges, new)) = Len(edges) + 1
        /\ \A e \in 1..Len(edges) : Append(edges, new)[e] = edges[e]
        /\ Append(edges, new)[Len(edges) + 1] = new
    BY <2>1, <2>2, AppendProperties
  <2>4. Len(edges) \in Nat /\ DOMAIN edges = 1..Len(edges)
    BY <2>2
  <2>5. DOMAIN Append(edges, new) = 1..(Len(edges) + 1)
    BY <2>3
  <2>6. 1..(Len(edges) + 1) = 1..Len(edges) \cup {Len(edges) + 1}
    BY <2>4
  <2>7. Len(edges) + 1 \notin 1..Len(edges)
    BY <2>4
  <2>. QED  BY <1>p, <1>2, <2>1, <2>3, <2>4, <2>5, <2>6, <2>7 DEF S
<1>5. TypeOK'
  <2>1. taken' \in Nat
    BY <1>1, <1>2
  <2>2. drawn \subseteq DOMAIN edges'
    BY <1>4 DEF IInv, TypeOK
  <2>. QED  BY <1>2, <1>4, <2>1, <2>2, Zenon DEF IInv, TypeOK
<1>6. Built'
  BY <1>1, <1>2 DEF IInv, Built
<1>7. /\ HandledEdges' = HandledEdges \cup {k}
      /\ k \in DOMAIN machine.transitions /\ k \notin HandledEdges
      /\ HandledEdges \subseteq DOMAIN machine.transitions
      /\ KnownEnds' <=> KnownEnds
      /\ WellFormed' <=> WellFormed
  <2>1. /\ HandledEdges' = HandledEdges \cup {k}
        /\ k \in DOMAIN machine.transitions /\ k \notin HandledEdges
    BY <1>1, <1>2, OneMoreHandled
  <2>2. (KnownEnds' <=> KnownEnds) /\ (WellFormed' <=> WellFormed)
    BY <1>2 DEF KnownEnds, WellFormed, StateIds, TransitionIds
  <2>. QED  BY <2>1, <2>2 DEF HandledEdges, Handled
<1>8. KnownEnds => nodes[v] = t.from /\ nodes[w] = t.to
  <2>. SUFFICES ASSUME KnownEnds PROVE nodes[v] = t.from /\ nodes[w] = t.to
    OBVIOUS
  <2>1. t.from \in StateIds /\ t.to \in StateIds
    BY <1>7 DEF KnownEnds
  <2>. QED  BY <1>1, <2>1, KnownNode DEF IInv
<1>. HIDE DEF k
<1>9. /\ EdgeIds(last)' = {nodes[v], nodes[w]}
      /\ \A e \in DOMAIN edges : EdgeIds(e)' = EdgeIds(e)
      /\ \A i : TransitionIds(i)' = TransitionIds(i)
  BY <1>2, <1>4 DEF EdgeIds, TransitionIds
<1>10. EdgeSupport'
  <2>. SUFFICES ASSUME KnownEnds
                PROVE  {EdgeIds(e) : e \in DOMAIN edges}'
                         = {TransitionIds(i) : i \in HandledEdges}'
    BY <1>7, Zenon DEF EdgeSupport
  <2>1. {EdgeIds(e) : e \in DOMAIN edges} = {TransitionIds(i) : i \in HandledEdges}
    BY <1>1 DEF IInv, EdgeSupport, SecondLoop
  <2>2. {EdgeIds(e) : e \in DOMAIN edges}'
          = {EdgeIds(e) : e \in DOMAIN edges} \cup {{nodes[v], nodes[w]}}
    <3>1. {EdgeIds(e) : e \in DOMAIN edges}'
            = {EdgeIds(e)' : e \in DOMAIN edges} \cup {EdgeIds(last)'}
      BY <1>4, Zenon
    <3>2. {EdgeIds(e)' : e \in DOMAIN edges} = {EdgeIds(e) : e \in DOMAIN edges}
      BY <1>9, Zenon
    <3>. QED  BY <1>9, <3>1, <3>2
  <2>3. {TransitionIds(i) : i \in HandledEdges}'
          = {TransitionIds(i) : i \in HandledEdges} \cup {TransitionIds(k)}
    BY <1>7, <1>9
  <2>4. TransitionIds(k) = {nodes[v], nodes[w]}
    BY <1>8 DEF TransitionIds, k
  <2>. QED  BY <2>1, <2>2, <2>3, <2>4
<1>11. Traced'
  <2>. SUFFICES ASSUME KnownEnds, NEW e \in DOMAIN edges'
                PROVE  \E i \in HandledEdges' :
                         /\ nodes[edges'[e].source] = machine.transitions[i].from
                         /\ nodes[edges'[e].target] = machine.transitions[i].to
    BY <1>2, <1>7 DEF Traced
  <2>1. CASE e = last
    BY <1>4, <1>7, <1>8, <2>1 DEF k
  <2>2. CASE e \in DOMAIN edges
    <3>1. PICK i \in HandledEdges :
                 /\ nodes[edges[e].source] = machine.transitions[i].from
                 /\ nodes[edges[e].target] = machine.transitions[i].to
      BY <1>1, <2>2 DEF IInv, Traced, SecondLoop
    <3>2. edges'[e] = edges[e] /\ i \in HandledEdges'
      BY <1>4, <1>7, <2>2
    <3>. QED  BY <3>1, <3>2
  <2>. QED  BY <1>4, <2>1, <2>2
<1>12. WellFormedIsSimple'
  <2>. SUFFICES ASSUME WellFormed
                PROVE  /\ \A e \in DOMAIN edges' : edges'[e].source # edges'[e].target
                       /\ \A e, f \in DOMAIN edges' : EdgeIds(e)' = EdgeIds(f)' => e = f
    BY <1>7 DEF WellFormedIsSimple
  <2>1. KnownEnds
    BY DEF WellFormed
  <2>2. t.from # t.to
    BY <1>7 DEF WellFormed, k
  <2>3. v # w
    BY <1>8, <2>1, <2>2
  <2>4. \A e \in DOMAIN edges : EdgeIds(e) # {nodes[v], nodes[w]}
    <3>. SUFFICES ASSUME NEW e \in DOMAIN edges,
                         EdgeIds(e) = {nodes[v], nodes[w]}
                  PROVE  FALSE
      OBVIOUS
    <3>1. PICK i \in HandledEdges :
                 /\ nodes[edges[e].source] = machine.transitions[i].from
                 /\ nodes[edges[e].target] = machine.transitions[i].to
      BY <1>1, <2>1 DEF IInv, Traced, SecondLoop
    <3>2. TransitionIds(i) = TransitionIds(k) /\ i # k
      BY <1>7, <1>8, <2>1, <3>1 DEF EdgeIds, TransitionIds, k
    <3>3. /\ i \in DOMAIN machine.transitions /\ Drawable(machine.transitions[i])
          /\ k \in DOMAIN machine.transitions /\ Drawable(machine.transitions[k])
      BY <1>7 DEF HandledEdges, k
    <3>4. /\ machine.transitions[k].type = TwoWay
          /\ machine.transitions[i].from = machine.transitions[k].to
          /\ machine.transitions[k].from = machine.transitions[i].to
      BY <3>2, <3>3 DEF WellFormed
    <3>5. transitionAlreadyExists(t.to, t.from)
      BY <3>1, <3>4 DEF transitionAlreadyExists, k
    <3>. QED  BY <3>4, <3>5 DEF Duplicate, k
  <2>5. /\ \A e \in DOMAIN edges : edges[e].source # edges[e].target
        /\ \A e, f \in DOMAIN edges : EdgeIds(e) = EdgeIds(f) => e = f
    BY DEF IInv, WellFormedIsSimple
  <2>6. \A e \in DOMAIN edges' : edges'[e].source # edges'[e].target
    BY <1>4, <2>3, <2>5
  <2>7. \A e, f \in DOMAIN edges' : EdgeIds(e)' = EdgeIds(f)' => e = f
    BY <1>4, <1>9, <2>4, <2>5
  <2>. QED  BY <2>6, <2>7
<1>13. OneEntryPerState'
  BY <1>1, <1>2 DEF OneEntryPerState
<1>. QED  BY <1>5, <1>6, <1>10, <1>11, <1>12, <1>13 DEF IInv

(* The callback has thrown or gone astray: nothing is said of it any more. *)
LEMMA Stopped ==
  ASSUME IInv, pc' \in {"threw", "undefined"},
         UNCHANGED << machine, taken, nodes, edges, isValidMachine, graphIsPlanar,
                      copy, drawn, answer >>
  PROVE  IInv'
<1>1. TypeOK'
  BY DEF IInv, TypeOK, Progress
<1>2. Built'
  BY DEF IInv, Built
<1>. QED  BY <1>1, <1>2, SameGraph DEF SecondLoop

LEMMA SaveTransitionKeeps == IInv /\ SaveTransition => IInv'
<1>. SUFFICES ASSUME IInv, SaveTransition PROVE IInv'
  OBVIOUS
<1>. DEFINE t == machine.transitions[taken + 1]
<1>1. CASE NoNumber \in {t.from, t.to}
  BY <1>1, Stopped DEF SaveTransition, Throw
<1>2. CASE NoNumber \notin {t.from, t.to} /\ (~ Drawable(t) \/ Duplicate(t))
  BY <1>2, TransitionSkipped DEF SaveTransition, Throw
<1>3. CASE NoNumber \notin {t.from, t.to} /\ Drawable(t) /\ ~ Duplicate(t)
  <2>1. /\ UNCHANGED << machine, nodes, isValidMachine, graphIsPlanar, copy, drawn,
                        answer >>
        /\ \E v \in getNodeByIndex(t.from), w \in getNodeByIndex(t.to) : newEdge(v, w)
    BY <1>3 DEF SaveTransition, Throw
  <2>2. PICK v \in getNodeByIndex(t.from), w \in getNodeByIndex(t.to) : newEdge(v, w)
    BY <2>1
  <2>3. CASE Wild \in {v, w}
    BY <2>1, <2>2, <2>3, Stopped DEF newEdge
  <2>4. CASE v # Wild /\ w # Wild
    BY <1>3, <2>1, <2>2, <2>4, EdgeAdded
  <2>. QED  BY <2>3, <2>4
<1>. QED  BY <1>1, <1>2, <1>3

LEMMA TransitionsSavedKeeps == IInv /\ TransitionsSaved => IInv'
<1>. SUFFICES ASSUME IInv, TransitionsSaved PROVE IInv'
  OBVIOUS
<1>1. TypeOK'
  BY DEF IInv, TypeOK, TransitionsSaved, Progress
<1>2. Built'
  BY DEF IInv, Built, TransitionsSaved
<1>. QED  BY <1>1, <1>2, SameGraph DEF TransitionsSaved, SecondLoop

LEMMA ReturnMachineKeeps == IInv /\ ReturnMachine => IInv'
<1>. SUFFICES ASSUME IInv, ReturnMachine PROVE IInv'
  OBVIOUS
<1>1. TypeOK'
  BY DEF IInv, TypeOK, ReturnMachine, Progress
<1>2. Built'
  BY DEF IInv, Built, ReturnMachine
<1>. QED  BY <1>1, <1>2, SameGraph DEF ReturnMachine, SecondLoop

-----------------------------------------------------------------------------
(* The layout and the answer. *)
LEMMA graphToPlanarRepKeeps == IInv /\ graphToPlanarRep => IInv'
<1>. SUFFICES ASSUME IInv, graphToPlanarRep PROVE IInv'
  OBVIOUS
<1>1. /\ UNCHANGED << machine, taken, nodes, edges, isValidMachine, answer >>
      /\ pc = "loaded" /\ isValidMachine /\ nodes \in Seq(Int)
      /\ Len(nodes) = Len(machine.states)
  BY DEF IInv, TypeOK, Built, graphToPlanarRep
<1>2. CASE DrawOriginal /\ pc' = "drawn"
  <2>1. TypeOK'
    <3>1. graphIsPlanar' \in BOOLEAN
      BY <1>2, Zenon DEF DrawOriginal
    <3>2. pc' \in Progress /\ drawn' \in SUBSET DOMAIN edges /\ copy' = copy
      BY <1>2 DEF DrawOriginal, Progress
    <3>. QED  BY <1>1, <3>1, <3>2, Zenon DEF IInv, TypeOK
  <2>2. Built'
    <3>1. graphIsPlanar'
      BY <1>2, Zenon DEF DrawOriginal
    <3>. QED  BY <1>1, <1>2, <3>1 DEF IInv, Built
  <2>. QED  BY <1>1, <1>2, <2>1, <2>2, SameGraph DEF SecondLoop
<1>3. CASE DrawCopy /\ pc' = "drawn"
  <2>1. TypeOK'
    <3>1. graphIsPlanar' \in BOOLEAN
      BY <1>3, Zenon DEF DrawCopy
    <3>2. copy' \in Seq(Nat)
      BY <1>1, <1>3 DEF DrawCopy
    <3>3. pc' \in Progress /\ drawn' \in SUBSET DOMAIN edges
      BY <1>3 DEF DrawCopy, PlanarSubgraphs, Progress
    <3>. QED  BY <1>1, <3>1, <3>2, <3>3, Zenon DEF IInv, TypeOK
  <2>2. Built'
    BY <1>1, <1>3 DEF IInv, Built, DrawCopy
  <2>. QED  BY <1>1, <1>3, <2>1, <2>2, SameGraph DEF SecondLoop
<1>4. CASE pc' = "undefined" /\ UNCHANGED << graphIsPlanar, copy, drawn >>
  BY <1>1, <1>4, Stopped
<1>. QED  BY <1>2, <1>3, <1>4 DEF graphToPlanarRep

LEMMA planarRepToJSONKeeps == IInv /\ planarRepToJSON => IInv'
<1>. SUFFICES ASSUME IInv, planarRepToJSON PROVE IInv'
  OBVIOUS
<1>. DEFINE shown == IF graphIsPlanar THEN nodes ELSE copy
<1>1. /\ UNCHANGED << machine, taken, nodes, edges, isValidMachine, graphIsPlanar,
                      copy, drawn >>
      /\ pc = "drawn" /\ pc' = "answered"
      /\ answer' = [v \in DOMAIN shown |-> [id |-> shown[v], position |-> v]]
      /\ nodes \in Seq(Int) /\ copy \in Seq(Nat)
      /\ Len(nodes) = Len(machine.states)
      /\ machine.states \in Seq(IdType)
      /\ ~ graphIsPlanar => copy = [v \in DOMAIN nodes |-> v - 1]
  BY MachineTyped DEF IInv, TypeOK, Built, planarRepToJSON
<1>2. shown \in Seq(Int) /\ DOMAIN shown = DOMAIN machine.states
  BY <1>1
<1>3. TypeOK'
  <2>1. answer' \in Seq([id : Int, position : Nat \ {0}])
    <3>1. \A v \in DOMAIN shown :
             [id |-> shown[v], position |-> v] \in [id : Int, position : Nat \ {0}]
      BY <1>2
    <3>2. answer' = [v \in 1..Len(shown) |-> [id |-> shown[v], position |-> v]]
      BY <1>1, <1>2
    <3>3. Len(shown) \in Nat /\ DOMAIN shown = 1..Len(shown)
      BY <1>2
    <3>. HIDE DEF shown
    <3>. QED  BY <3>1, <3>2, <3>3
  <2>2. pc' \in Progress
    BY <1>1 DEF Progress
  <2>. QED  BY <1>1, <2>1, <2>2, Zenon DEF IInv, TypeOK
<1>4. Built'
  BY <1>1 DEF IInv, Built
<1>5. OneEntryPerState'
  <2>. SUFFICES ASSUME Indexable
                PROVE  \A u, v \in DOMAIN shown : shown[u] = shown[v] => u = v
    BY <1>1, <1>2 DEF OneEntryPerState, Indexable
  <2>1. CASE graphIsPlanar
    BY <2>1 DEF Indexable
  <2>2. CASE ~ graphIsPlanar
    BY <1>1, <2>2
  <2>. QED  BY <2>1, <2>2
<1>6. HandledEdges' = HandledEdges
  BY <1>1 DEF HandledEdges, Handled
<1>7. (KnownEnds' <=> KnownEnds) /\ (WellFormed' <=> WellFormed)
  BY <1>1 DEF KnownEnds, WellFormed, StateIds, TransitionIds
<1>8. EdgeSupport'
  <2>1. /\ {EdgeIds(e) : e \in DOMAIN edges}' = {EdgeIds(e) : e \in DOMAIN edges}
        /\ {TransitionIds(i) : i \in HandledEdges}'
             = {TransitionIds(i) : i \in HandledEdges}
    BY <1>1, <1>6 DEF EdgeIds, TransitionIds
  <2>. QED  BY <2>1, <1>1, <1>7 DEF IInv, EdgeSupport, SecondLoop
<1>9. Traced'
  BY <1>1, <1>6, <1>7 DEF IInv, Traced, SecondLoop
<1>10. WellFormedIsSimple'
  BY <1>1, <1>7 DEF IInv, WellFormedIsSimple, EdgeIds
<1>. QED  BY <1>3, <1>4, <1>5, <1>8, <1>9, <1>10 DEF IInv

-----------------------------------------------------------------------------
(* Every step of the callback keeps the inductive invariant.               *)
THEOREM Invariance == Spec => []IInv
<1>1. IInv /\ [Next]_vars => IInv'
  <2>. SUFFICES ASSUME IInv, [Next]_vars PROVE IInv'
    OBVIOUS
  <2>1. CASE ParseMachine      BY <2>1, ParseMachineKeeps
  <2>2. CASE SaveState         BY <2>2, SaveStateKeeps
  <2>3. CASE StatesSaved       BY <2>3, StatesSavedKeeps
  <2>4. CASE SaveTransition    BY <2>4, SaveTransitionKeeps
  <2>5. CASE TransitionsSaved  BY <2>5, TransitionsSavedKeeps
  <2>6. CASE graphToPlanarRep  BY <2>6, graphToPlanarRepKeeps
  <2>7. CASE planarRepToJSON   BY <2>7, planarRepToJSONKeeps
  <2>8. CASE ReturnMachine     BY <2>8, ReturnMachineKeeps
  <2>9. CASE UNCHANGED vars
    <3>1. TypeOK' /\ Built'
      BY <2>9 DEF vars, IInv, TypeOK, Built
    <3>. QED  BY <2>9, <3>1, SameGraph DEF vars, SecondLoop
  <2>. QED  BY <2>1, <2>2, <2>3, <2>4, <2>5, <2>6, <2>7, <2>8, <2>9 DEF Next
<1>. QED  BY Initial, <1>1, PTL DEF Spec

(* The state of the callback is always well typed: no edge ever ends at a  *)
(* node that G does not have.                                              *)
THEOREM TypeCorrect == Spec => []TypeOK
<1>1. IInv => TypeOK
  BY DEF IInv
<1>. QED  BY <1>1, Invariance, PTL

(* Leaving out opposite TwoWay transitions loses no connection (OgdfTest   *)
(* lines 54-69), for machines of any size.                                 *)
THEOREM SupportKept == Spec => []EdgeSupport
<1>1. IInv => EdgeSupport
  BY DEF IInv
<1>. QED  BY <1>1, Invariance, PTL

(* G is simple for every well-formed machine, in any order of transitions. *)
THEOREM SimpleGraph == Spec => []WellFormedIsSimple
<1>1. IInv => WellFormedIsSimple
  BY DEF IInv
<1>. QED  BY <1>1, Invariance, PTL

(* Every answer lists every state once, whichever graph was drawn.         *)
THEOREM AnswerComplete == Spec => []OneEntryPerState
<1>1. IInv => OneEntryPerState
  BY DEF IInv
<1>. QED  BY <1>1, Invariance, PTL
==============================================================================
