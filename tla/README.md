# GPD server: TLA+ models and proofs

GPD (graph planar drawing) is a small HTTPS server. A client (the "toolbox")
posts a finite state machine as JSON; the server turns it into a graph, lays
the graph out with OGDF and returns the position of every state. This
directory holds the TLA+ model of that program, the TLC configurations that
check it on small instances, and theorems checked by TLAPS. Paths below are
relative to the repository with `src/` in front, so the program's own sources
are in `src/src/`, the vendored libraries in `src/lib/`.

## Inventory

| component | state | operations |
|---|---|---|
| `TcpConnection` (`src/src/TcpConnection.{h,cpp}`) | `m_buffer`, `m_message`, `m_packageCounter`, `m_packageType`, `m_contentLength`, `m_transferredTotal`, `m_headerSize`, `m_writeBuffer` | handlers `handle_handshake`, `handleRead`, `handleWrite` and what they call: `processPackage`, `extractContentLength`, `extractHeaderAndBody`, `splitHeaderAndBody`, `handlePostRequest`, `handleGetRequest`, `handleOptionsRequest`, `processMessage`, `processRequest` |
| TLS stream, `io_service`, client (external) | pending handshakes, reads and writes, bytes in flight | complete an operation, call its handler; the client closes or breaks |
| `OgdfTest` (`src/src/OgdfTest.{h,cpp}`) | `G`, `GC`, `GA`, `graphIsPlanar`, `isValidMachine` | `JSONMachineToGraph`, `graphToPlanarRep`, `planarRepToJSON`, `getNodeByIndex`, `transitionAlreadyExists` |
| processing callback and `main` (`src/src/main.cpp`) | the `io_service`, the one thread in `run()` | the lambda of lines 35-47; the process ends when an exception leaves `run()` (50-53) |
| `TcpServer` (`src/src/TcpServer.{h,cpp}`) | the acceptor, the TLS context | constructor, `startAccept`, `handleAccept`, `get_password` |
| OGDF's layout (`src/lib/ogdf/src/ogdf/planarlayout`, vendored) | `ComputeBicOrder`'s contour, counters and candidate lists; the partition and its order; coordinates | `BiconnectedShellingOrder::doCall`, `ShellingOrder::initLeftmost`, `PlanarStraightLayout::computeCoordinates` |
| the rest of OGDF, nlohmann json (`src/lib`) | - | third-party libraries |

**How they interact.** `TcpServer` accepts a connection and calls
`processRequest` on it; from there on the connection lives in the handlers that
its pending operations keep alive (`shared_from_this`). When a body is
complete, `processMessage` calls the callback in the handler, on the only
thread; the callback builds an `OgdfTest`, and its result is written to the
client. An exception of the callback leaves the handler, `run()` and `main`.
`OgdfTest` hands its graph to `PlanarStraightLayout`, which makes it biconnected,
takes a shelling order of it from `BiconnectedShellingOrder`, turns the order
leftmost and places one set of it after the other.

**What is hard.**

- *Two chains of handlers.* A first POST package calls `processRequest` in
  `extractHeaderAndBody` (line 199, unless it was complete) and again in
  `processPackage` (line 137). Both chains hand-shake, read and count on the
  same connection.
- *One buffer.* Both chains read into `m_buffer`, and a handler copies the
  buffer when it runs, not when its read completes.
- *Unsigned lengths.* A missing blank line makes `m_headerSize` `npos`; a
  negative `Content-Length` becomes a huge number; the end of a body is accepted
  two bytes early.
- *Blocking and throwing handlers.* `m_socket.shutdown()` waits for the client
  on the only thread; `stoi`, JSON and `shutdown` may throw and end the server.
- *Counters.* Which part of a graph may be peeled off next is told by a dozen
  counters that every removal adjusts and nothing counts anew.
- *Order.* Whether a two-way transition becomes an edge depends on the edges
  made before it; the answer is read from one of two graphs by a flag.

What makes each component correct:

- *TcpConnection*: no chain of handlers gets lost or multiplied; the byte count
  the end of the body is detected with is the number of bytes stored; the
  message is a consecutive part of the stream; nothing is drawn twice; answers
  match what was processed; a request that is sent whole is answered.
- *OgdfTest*: the graph joins what the transitions join, is simple for
  well-formed machines, and the answer lists every state once.
- *TcpServer*: an accept is always pending while the thread runs; one client
  cannot keep the others from being served; the end of the process is always a
  handler's exception.
- *The layout*: counters, links and lists stay true to the contour; what is found is
  a shelling order of the graph, also when it is made leftmost; the drawing has
  no crossing and fits the grid that is promised.

The hazards, each with its line and its properties, are in `PROJECT.json`.

## Modules

| module | what it is |
|---|---|
| `SslStream` | the TLS stream with the client at its other end, as the connection uses it |
| `TcpConnection` | extends `SslStream`; one action per handler, the functions a handler calls as operators with their names in the code |
| `ConnectionLife`, `AbstractConnection` | what one connection means to the server: its chains, its writes, and whether it holds the thread; the second makes a specification of the first |
| `TcpConnectionRefinement` | the mapping by which `TcpConnection` implements `AbstractConnection` |
| `TcpServer` | start, accept loop and the queue of clients |
| `GpdServer` | composes `TcpServer` with a `ConnectionLife` for every client, on one thread |
| `OgdfTest` | the callback: one action per loop iteration and per phase |
| `ShellingSets` | what the sets of a shelling order do to a contour |
| `BiconnectedShellingOrder` | extends `ShellingSets`; finds the partition of a graph: one action per removal, each with the update that follows it |
| `ShellingOrder` | extends `ShellingSets`; any partition, and its leftmost order |
| `PlanarStraightLayout` | extends `ShellingOrder`; the coordinates |
| `MC*` | the requests, clients, machines, graphs and sizes of the runs |
| `TcpConnectionProofs`, `OgdfTestProofs`, `GpdServerProofs` | inductive invariants and theorems |
| `ShellingSetsProofs` | lemmas about numbers, paths, contours and shelling orders |
| `BiconnectedContourProofs` | extends it; lemmas about the embedding, the contour of what is left, the counters and the removal of a face |
| `BiconnectedShellingOrderProofs` | extends it; the removal of a node, and the inductive invariant of the search for the partition, as long as no virtual edge is on the contour |
| `PlanarStraightLayoutProofs` | extends `ShellingSetsProofs`; inductive invariants of the leftmost order and of the layout (slopes of the contour, the grid), and the theorems about them |
| `PlanarDrawingProofs` | extends it; plane geometry, and the inductive invariant that the drawing has no crossing |

### SslStream and TcpConnection

A byte is its position in the client's stream; a request record says what the
bytes spell (verb, header length, value of Content-Length, body length, whether
the body is a machine). That keeps everything the handlers test: the prefix
(`StartsWith`), the blank line (`FindBlankLine`), the number (`stoi` may also
throw: `NoNumber`), the lengths. A buffer is a sequence of positions, so lost,
repeated, reordered and misattributed bytes are all visible in `m_message`.
`size_t` is modelled modulo `SizeModulus`; `npos` is `SizeModulus - 1`.

A handler is one action, since handlers run to their end on one thread. The
exception is `shutdown()`, which waits for the client: `io` becomes `"blocked"`
with the rest of the handler in `resume`, until `ShutdownReturns` or
`ShutdownThrows`. `io = "ended"` is the end of the process. `handleRead` is
split by how its read ended (`handleReadArrived`, `handleReadQueued`,
`handleReadEmpty`, `handleReadEof`, `handleReadError`). A read may be filled
when it is started, with its handler queued, or wait for data; this is where a
second read overwrites the buffer of a queued handler. A first read that ends
in the header may find the length field absent, cut or whole; without it the code
parses from one byte before the buffer, which is modelled by the stray
numbers `StrayLengths` and by a throw. A second `async_write` while the first is
pending garbles either, or not. A GET's answer, whose buffer is a local variable, is
kept whole: the TLS engine has copied it before `async_write` returns.

`lost` (chains that ended without an answer), `processed` (what the callback was
given), `answers` and `overwritten` are history variables. The callback is
abstracted to "draws" or "throws"; it throws on what is not the complete body of
a valid machine, or answers that too (an echo). `m_headerFound` and
`m_readComplete` are never read in the code and left out; `m_headerSize` is
set and used in one handler and is an operator's local value.

### OgdfTest

Nodes are named by their place in `G.nodes`, their index is the id of the state.
`getNodeByIndex` yields any node, or a wild pointer, for an id that does not
exist: its local variable is uninitialised. With negative or repeated ids the
index arrays of OGDF are misused, so `graphToPlanarRep` may do anything. The
planarity test is the constant operator `IsPlanar`, a maximum planar subgraph
(`MaximumPlanarSubgraph`) is over-approximated by any maximal one, and of a
position only the node it was computed for is kept. A text that is not JSON, and
a value that does not convert to `int`, throw.

### AbstractConnection, TcpServer and GpdServer

A connection in `GpdServer` is a record: handshakes and reads under way, answers
being written, whether the first POST package has started its second chain, and
where its handler is (none running, waiting in a shutdown and then returning or going
on, thrown). Which records follow which is written once, in `ConnectionLife`;
`AbstractConnection` is the specification of one such record, and `TcpConnection`
implements it (`ImplementsLife`, checked and proved), so the composition forgets
bytes and requests but not what handlers do.

`TcpServer` has a queue of clients the operating system keeps, an accept that is
pending, and `handleAccept`, which starts the next accept whether or not it
failed. In `GpdServer` an accept fails when no socket is left (`MaxSockets`); a
handler runs only when no other waits in a shutdown (`ThreadFree`); an exception ends
everything (`Ended`). A client may come back when its connection is over.
`Prompt` are the clients that send what they announce, or leave.

### ShellingSets, BiconnectedShellingOrder, ShellingOrder, PlanarStraightLayout

A set of a shelling order is a chain of nodes between a left and a right node of
the contour; `Contours` is the function from a place in a list of sets to the
contour after that set, `Contour` its last value, `EdgesOf` says which
edges a graph with these sets has.

`BiconnectedShellingOrder` is `ComputeBicOrder`. An embedding is the sequence of
its faces; an adjacency entry is the pair of its ends. All of the class is one
record `s`, since every removal touches most of it; the functions that change it
map a record to a record, under their names in the code (`setOutv`, `setSeqp`,
`removeNextFace`, `removeNextNode`, `removeNextVirt`, `doUpdate`). The two
cross-linked structures of "v in F" are a set of pairs, `m_outerNodes` a count per
face and node, a list of candidates a set: their order decides only which candidate comes
next. A link is kept apart from its list (`fLink`, `vLink`, `eLink`), so that a
link to an element that is gone can be told (`dangling`). `findMaxBaseChain` is
specified by what it finds, any longest chain without a chord. An increment in a loop
(`setOutv`, `setOute`, `setSeqp`) is a count of the turns that reach it, which a proof can
work with. The embeddings are a constant; `IsEmbedding` and `IsConnected` say what the
faces of a connected graph are, and nothing of the plane.
`removeNextNode` is split where the code has a loop: `TakeNode`, then `FollowFace`
for every face below the node, which may cut the face by a virtual edge
(`CutFace`), then counting.

`ShellingOrder` tells partitions from the base up, any that sets can make, so
that the layout is checked for more than the ones that are found; it then builds
the leftmost order as `initLeftmost` does, one action per turn of its loop. The list
of sets that wait for a right node is the set of their places in the partition,
since the code fills it in that order and only takes the first (`PopFront`).
`PlanarStraightLayout` places one set per action. `next` and `prev` are the
sequence `contour`.

## Runs

| run | result | question |
|---|---|---|
| `connection` | pass | with every cut of the requests into reads and the client leaving at any point, do the chains, the byte count, the message, the processing and the answers stay in step, does the connection implement `AbstractConnection`, and is a request that is sent whole answered? |
| `server` | pass | with three clients, one of them perhaps silent, and two sockets: is the accept loop kept, does one handler have the thread, is everybody accepted and every prompt client released? |
| `shutdown_waits` | violation | "After that a new connection will be accepted" (`TcpServer.cpp:68`): not while one client leaves the shutdown of its connection unanswered |
| `read_bytes` | violation | "copies the read bytes into a string" (`TcpConnection.cpp:73`): a read may be overwritten before it is copied |
| `whole_body` | violation | "if so we got everything" (`:279`): two bytes may be missing |
| `stored_bytes` | violation | "If the body was send [...] it will be stored in m_message" (`:173`): a cut header is stored |
| `layout` | pass | for every machine, does G join the right states, is it simple when it should be, and is every answer complete? |
| `answer_names` | violation | "Saves the new node-positions [...] send to the toolbox" (`OgdfTest.cpp:106`): for a graph that is not planar the ids are those of the copy |
| `layout_simple` | violation | "needs to be planar and simple" (`PlanarStraightLayout.h:67`): loops and repeated transitions get there |
| `new_edge` | violation | the nodes of an edge belong to the graph (`Graph.cpp:571-574`): not for an unknown id |
| `shelling` | pass | for every small biconnected plane graph and every choice of candidates: are the counters, lists and links right after every removal, and is the result a shelling order of the graph? |
| `straight_line` | pass | for every partition: is the leftmost order one of the same graph, and is the drawing free of crossings and within its grid? |

**Properties of the connection.** `ReaderLedger` accounts for every chain of
handlers: waiting, in a shutdown, processed or lost, never more than two.
`TransferredMatchesMessage`: the counter is the number of bytes in
`m_message`, whatever wrapped. `BodyInOrder`: unless a buffer was overwritten
under a queued handler, the message is a consecutive part of the stream.
`ProcessedGrows`: the callback gets prefixes of the message, at most two bytes
short, each longer than the one before. `AnswersMatch`: each answer has a
processed machine, there are no more of them than were processed, and they
garble only in twos. `FirstPackageIsFinal` (a property of steps): no stored
byte is taken back, and type, length and counter are fixed once the first
package is done. `ImplementsLife` (refinement), `RequestIsServed` (liveness).

**Of the server.** `OneAcceptPending`, `OneHolder`, `TwoOperations` (a bound on
what a connection keeps alive), `ClientsAccepted` and `PromptReleased` (liveness).

**Of the callback.** `EdgeSupport`, `WellFormedIsSimple`, `OneEntryPerState`.

**Of the layout.** `FaceCountersTrue` and `NodeCountersTrue` count anew what the
code adjusts. `CandidatesTrue`: after an update the lists hold what may be
removed, no more and no less. `NoDanglingLink`: no iterator to an erased element is
used. `ChainFitsArray`: the array of a chain is as long as the walk that fills
it. `PartitionIsShelling`: every node in one set, each set on the contour
before it, every edge of the graph accounted for, the contour at the end the
external face. `StackIsContour`, `SameShelling`, `IsLeftmost` say the same of
`initLeftmost`. `ContourSlopes` and `SectionFits` are why the divisions by two are
exact, `UpperIsLater` why the coordinates can be summed up from the top, and
`NoCrossing` and `FitsGrid` are what the header promises of the drawing.

**Bounds of the connection.** Headers are the shortest that hold a verb and a
blank line, bodies
have up to five bytes, the buffer holds nine, `SizeModulus` is 32. A header of
eight bytes and a body of five are cut at every place: inside the verb, inside
the header, in the blank line, at its end, in the body, and a buffer of nine
splits the request where the real one splits a long request. Two chains
are all there are (proved), so more bytes only add reads of the same kind.
Content-Length takes a matching, too small, too large, zero, negative, absent
and unreadable value. The model has no other bound: a connection reads at most
what the client sends.

**Of the server.** Three clients and two sockets: one that holds the thread, one
that waits behind it and one that finds no socket. Clients reconnect without
limit. With `Prompt` empty two silent clients use both sockets and
`ClientsAccepted` fails: nothing has a timeout (`TcpConnection.cpp:103`).

**Of the callback.** In `layout` the machines are all lists of up to two
transitions (known and unknown ends, every type) over state lists with repeated,
negative and unreadable ids; all triples of drawable transitions over three
states, up to the names of the states; and the complete graph on five states, the
smallest that is not planar, with and without one transition, a repeated one and
a two-way one.

**Of the layout.** `shelling` starts from all biconnected plane graphs of up to six
nodes with a largest face outside, made of a cycle and ears. A virtual edge is removed
only in graphs of eight nodes and more, so four larger ones are added; they
came from random graphs given to the C++ code. For 368 random graphs of 5 to 12 nodes,
some of them with several removals of virtual edges, the partition the compiled code finds
is one of those the model finds. `straight_line` has every partition of seven nodes
over an edge and of eight over three nodes (the base is a third of the external face,
rounded, and at least two, so a base of three needs eight nodes on it); eight and
nine nodes pass as well, in more than the time a run has.

Deadlock is not checked: a connection is over when nothing is pending, a callback
when it has returned, a layout when it is drawn, a server when nobody connects.

**Fairness.** `connection` assumes weak fairness of `handle_handshake`,
`handleReadQueued` and `handleWrite`: one `io_service::run` loop calls the
handlers that are ready. `handleReadArrived` is strongly fair: reads may come back
empty in between, which disables and re-enables it, but what the client sent
reaches a read that keeps being started. Nothing obliges the client to leave, to
stay or to answer a shutdown, and a callback may throw; these are the exceptions
`RequestIsServed` lists. In `server` the thread is strongly fair to what is
ready, `Accept`, `Write` and the handlers of prompt clients, because the shutdown of
another connection takes the thread in between and gives it back; `AnsweringSpec` adds
that clients answer the shutdown or break the connection. Without that
`ClientsAccepted` fails (`shutdown_waits`). Handlers of other clients are under no
fairness.

## Proofs

All theorems hold for every value of the constants that satisfies the named
assumptions (`StreamAssumption`, `ConnectionAssumption`, `MachineAssumption`, `ServerAssumption`,
`OrderAssumption`, `EmbeddingAssumption`):
the numbers are numbers, a header holds its verb and its blank line, a request
fits in `size_t`, there are finitely many clients, a base has at least two nodes and
a graph one more, and an embedding is one (`IsEmbedding`: the entries of every edge are on
two faces, a face passes a node at most once, as in a biconnected graph, and whoever turns
around a node from face to face meets all its neighbours; `IsConnected`).

*TcpConnectionProofs.* `Invariance` proves `Spec => []IInv`, and from it follow
`TypeCorrect`, `LedgerHolds` (`ReaderLedger`) and `CountIsRight`
(`TransferredMatchesMessage`). None is inductive alone. That the counter
equals the message length needs that it never wraps, so `StoredWereReceived`
bounds stored bytes, and those of queued handlers, by what was received, and
what was received by the request, which fits in `size_t`. A cut header adds
`Len(buf) - npos - 4` by wrapping, which is the length of what `substr` returns
only while the counter was 0: `NothingBeforeFirstPackage`. The handler that goes
on after a shutdown works on an old buffer: `ResumedIsFirstPackage` says which.
`ReaderLedger` gives that at most two reads are pending. The proof is one lemma
per handler over lemmas about the operators (`PartStored`,
`extractHeaderAndBody`, `AsyncWrite`...).

What is said of the data rests on that `IInv`. `MessageFinal` goes through the
handlers: each appends to the message or leaves it. `ProcessedPrefixes` needs that what
was processed is a prefix of the message and that nothing is processed before the
first package (`PrefixInv`). `AnswersAreDeserved` needs to know of every write that
its machine was processed and that a garbled one has two processed bodies
(`AnswersInv`). `BytesInOrder` needs where the bytes of queued buffers lie: each buffer is
consecutive, starts where the one before ended, and the first where the message ends,
unless a buffer was overwritten (`OrderInv`).

The refinement: `LifeImplemented` is `Spec => Abstract!Spec`: the
initial state maps to `Accepted`, and each handler is one step of `AbstractConnection`
or a stutter. It needs `IInv` for the number of chains, which never exceeds two because
the first package is first only once.

*OgdfTestProofs.* `Invariance` proves an `IInv` of `TypeOK`, `EdgeSupport`,
`WellFormedIsSimple`, `OneEntryPerState` and two facts: `Built` (how much of G
each phase has made, and what the copy holds) and `Traced` (every edge runs the
way of a handled transition). `Traced` is what `WellFormedIsSimple` needs: an
edge that joins the states of the next transition runs the way of its opposite, so
`transitionAlreadyExists` finds it.

*GpdServerProofs.* `Invariance` proves typing, `OneAcceptPending`, `OneHolder` and
`TwoOperations` together, for any set of clients and number of sockets; each action
changes one connection, to a successor that `ConnectionLife` keeps within two operations.

*Induction along a sequence.* The library's induction theorems take an operator as a
parameter, which the provers here cannot instantiate, so `ShellingSetsProofs`
starts from the well-founded order of the natural numbers: a nonempty set of numbers has
a least one (`LeastNumber`), hence a set that holds `lo` and with each number the
next holds all up to `hi` (`Upwards`, `Downwards`). The recursive functions
(`Contours`, `SumUpTo`) get their value at each step from it (`ContoursStep`,
`SumSteps`).

*ShellingSetsProofs* goes on with what a set does to a contour: which node `PutOn` leaves at which place
(`PutOnNodes`), that the contour stays a path (`PutOnPath`) and, the heart of it, that two sets
side by side can be put on in either order and cover the same (`PutOnCommutes`).

*BiconnectedContourProofs* and *BiconnectedShellingOrderProofs* are about the removals, in any embedding and for any choice of
candidates, as long as no virtual edge is on the contour (`NoVirtualEdge`, true in 10001 of the
13152 states of `shelling`). Its theorems are `Spec /\ []NoVirtualEdge => []P`; since a behaviour
may stop before any step, this says of every behaviour that P holds until the first virtual edge.
The counters cannot be reasoned about without the contour, so `ShellingInv` has both, and
links and lists (`Valid`). `ContourShape` is what peeling keeps true of the contour: at each node
of it the neighbours that are left run, in the order around the node, from the node before to the
node after; the faces between them are whole; a face that is not whole has no node inside. For a face
whose counters say one edge fewer than nodes, all its edges on the contour follow each other
(`RunOfPlaces`, `FaceRunExists`): that the face meets the contour in one piece, which the code
relies on when it walks `ChainLeft` and `ChainRight`, is counting and needs no plane. The nodes
between have degree two (`RunDegrees`), so the walk finds the whole run and fills its array exactly.
For a node, the loop over the faces below it is followed piece by piece (`FollowedFound`); that it
meets nothing on the outside before the next neighbour is just that no virtual edge is added.
Either way the removal replaces a section of the contour by a path (`Grown`), for which the contour
keeps its shape (`SweptShape`) and the counts change by what `setOute`, `setOutv` and `setSeqp` add
(`PathCounted`). `doUpdate` looks only at what is marked; `UpdateFacesValid` and `UpdateNodesValid` show
that all that can have changed is. The external face is never removed and its counters are kept only
roughly: it must never count as separating, and does not because the base is at most a third of it
(`OuterNeverSeparates`). From `ShellingInv` follow `ShellingTypeOK`, `FaceCountersHold`, `NodeCountersHold`,
`CandidatesHold`, `NoDanglingLinkHolds` and `ChainFitsArrayHolds`.

`PartitionShells` adds `PartsInv`: the contour that is left, followed by the sets found so far, is a
shelling order with the external face as its last contour, and has all edges of the nodes removed.
Putting the set just removed on the new contour gives the old one back (`PutBack`), so the order grows at
its front (`PartsGrow`). When the contour has become the base, what is left is closed under
neighbours, so in a connected graph it is the base alone (`NothingIsLeft`), and the order is one of the
whole graph (`BaseCompletes`). That the removals do come down to the base is a hypothesis of that
theorem: it needs that there is always a candidate, a theorem about the plane, while nothing
above is about the plane. The `shelling` run checks it.

*PlanarStraightLayoutProofs*, first part: `initLeftmost` keeps `OrderInv`. `PartitionOK`: the
partition is a shelling order whose nodes are numbered upwards. `OrderOK`: so is the order
so far, each set of it covers what it covered in the partition, and no set that waits, or
comes later, has its right node further left than one that was taken. `StackOK`: the stack is the end of the
contour. `RestFits` is the strengthening that makes it inductive:
the sets that wait, put on the contour in the order of the partition, still make a shelling order, each
covering what it did. Taking the first of them that waits for the top of the stack
moves it over those before it; none of these can touch it (`NextSetFits`), so
`PutOnCommutes` applies once for each (`TakeKeepsRest`). The loop ends only when nothing waits (`NothingWaits`).
From it follow `LeftmostKeepsStack`, `LeftmostIsShelling`, `LeftmostIsLeftmost`.

*Second part*, `LayoutInv`: typing, the slopes of the contour
(`ContourSlopes`), `UpperIsLater`, and that the later of two neighbours on the contour is
the higher one (`ContourRanks`). With slopes of one or zero the climb between two nodes
has the parity of their distance (`SectionDistances`), so the halves are whole; the walk
from cl ends before the walk from cr starts, because otherwise some node would
be both lower and higher than its left neighbour (`WalksMeet`). The new nodes are above the section by the
choice of `offset` (`SetFits`). That gives `LayoutTypes`,
`ContourKeepsSlopes`, `SectionsFit` and `UpperComesLater`.

*Third part*, `GridInv`. The code keeps coordinates relative to a node that is itself
relative, so nothing about the drawing can be read off `x` before the last phase. The
invariant says that there are absolute coordinates X, those the drawing would have if the layout
ended now, and for each placed node the contour node `root` it finally hangs on (`Located`),
all within 0 and the width, which is at most 2n-4 for n placed nodes, or 2n-2 while there is
only the base. Placing a set moves every node by what
its root moves (`MoveAndShift`), which no longer depends on the paths below. In the last phase
the coordinates of all nodes from `k` upwards are X already (`Resolved`). `DrawingFitsGrid` is then what the header promises
of the grid, for graphs of any size.

*PlanarDrawingProofs*, the drawing without crossings. Its first part is geometry over the
integers: the turn of three points (`TurnOf`, twice an area), which of two segments over the
same columns is the upper one (`StackedOf`), and that such segments do not cross
(`SegmentsApart`). The second part says what one set does to any plane drawing: if every node
lies under or on the contour (`UnderContour`), nothing on the contour lies under an edge
(`OverEdges`), and the set lies over its section and in view of all of it (`SetOver`), then
drawing its nodes and edges keeps the drawing plane (`SetDrawn`) and the two facts about the
contour (`SetContour`). The third part shows that `PlaceSet` does just that. A set also moves
what is right of it, and every later set moves it again; so the invariant `PlaneFor` says more
than that the drawing is plane: it is plane however far its parts are moved later, as long as no
node of the contour is moved less than one to its left (`SpreadOn`). That is
inductive, because a movement after a set is one before it (`Before`, `SpreadBefore`,
`DrawnBefore`), and `SetIsOver` has to hold for all of them: the slopes of the contour never get
steeper than one, and `offset` puts the set above the section and past its steep ends.
`BasePlane` starts it, and in the last phase the movement is none (`PlaneInv`). With `AllPlaced`,
that every node of the graph is in a set, `NoEdgesCross` is the header's "without edge crossings"
for every graph the sets can make, of any size. The invariants of the layout quantify over
all coordinates and cannot be evaluated by TLC; the runs check what follows from them.

Only model-checked are:

- `RequestIsServed`, `ClientsAccepted` and `PromptReleased`: TLAPS does not do liveness
  under fairness or `ENABLED`;
- the properties of `BiconnectedShellingOrder` once a virtual edge is on the contour: a cut
  face then counts with what it has left, and the invariant would have to say which parts of
  which faces those are;
- that the search ends with the base alone, so that `PartitionIsShelling` holds of every end
  it comes to: that there is always a candidate is a theorem about the plane.

## Not modelled

- The arguments of `main`: `argc > 4` (line 28) can never hold after line 18, so
  the key password is always empty and the password callback never set.
- HTTP wording, the JSON grammar.
- In OGDF: the planarity test and embedding (Boyer-Myrvold), the augmentation to a
  biconnected graph, and the maximum planar subgraph with its branch and cut. They are
  used through what they promise: a test, a plane biconnected graph with a largest
  face outside, a maximal planar subgraph. The solvers beneath (COIN, ABACUS) are numerical code
  over floating point, and most of `src/lib` (the other layouts, file formats,
  generators, cluster and hypergraph algorithms) is never reached from `src/src`.
  The vendored libraries are more than 99% of the lines of the repository; the model
  covers the program's own four source files and the part of OGDF whose result every answer
  consists of, and so a small share of all lines.
- Sizes: ids so large that the index arrays cannot be allocated, a layout that
  takes for ever, `m_message` growing without bound on a length that never comes,
  `int` in the coordinates.

## Observations without a run of their own

- After the shutdown for a Content-Length of 0 `processPackage` goes on, and the
  machine is processed and answered on the closed session (`TcpConnection.cpp:130`).
- `processRequest`, and with it a TLS handshake, is called again for every further read
  (`TcpConnection.cpp:105`, `:137`, `:199`, `:285`).
- The callback throws on text that is not JSON, out of `run()` and `main`, where a comment
  expects an invalid machine to be returned (`main.cpp:44`).
