---------------------------- MODULE GpdServerProofs ----------------------------
(***************************************************************************)
(* Safety of the whole server for any clients and any number of sockets:   *)
(* its types, the accept that is always pending, the single holder of the  *)
(* thread and the two operations a connection may have under way.          *)
(***************************************************************************)
EXTENDS GpdServer, SequenceTheorems, TLAPS

(* A connection as its life can make it: one chain until it forks, and     *)
(* nothing else under way while its first package waits in a shutdown.     *)
Sound(c) ==
  /\ c \in Connection
  /\ c.chains + c.writes <= IF c.forked THEN 2 ELSE 1
  /\ c.at = "resuming" => c.chains = 0 /\ c.writes = 0 /\ c.forked = FALSE

IInv ==
  /\ ServerTypeOK
  /\ conn \in [Clients -> Connection]
  /\ \A c \in Clients : Sound(conn[c])
  /\ OneHolder
  /\ OneAcceptPending
  /\ server = "starting" => accepts = 0

-----------------------------------------------------------------------------
(***************************************************************************)
(* The life of one connection.                                             *)
(***************************************************************************)
LEMMA SoundForked ==
  ASSUME NEW n \in 0..2, NEW w \in 0..2, n + w <= 2,
         NEW p \in {"ready", "closing", "threw"}
  PROVE  Sound(Life(n, w, TRUE, p))
<1>1. Life(n, w, TRUE, p) \in Connection
  BY DEF Life, Connection, Places
<1>2. /\ Life(n, w, TRUE, p).chains = n /\ Life(n, w, TRUE, p).writes = w
      /\ Life(n, w, TRUE, p).forked = TRUE /\ Life(n, w, TRUE, p).at = p
  BY DEF Life
<1> QED BY <1>1, <1>2 DEF Sound

LEMMA SoundUnforked ==
  ASSUME NEW n \in 0..2, NEW w \in 0..2, n + w <= 1,
         NEW p \in {"ready", "closing", "threw"}
  PROVE  Sound(Life(n, w, FALSE, p))
<1>1. Life(n, w, FALSE, p) \in Connection
  BY DEF Life, Connection, Places
<1>2. /\ Life(n, w, FALSE, p).chains = n /\ Life(n, w, FALSE, p).writes = w
      /\ Life(n, w, FALSE, p).forked = FALSE /\ Life(n, w, FALSE, p).at = p
  BY DEF Life
<1> QED BY <1>1, <1>2 DEF Sound

LEMMA SoundResuming == Sound(Life(0, 0, FALSE, "resuming"))
BY DEF Sound, Life, Connection, Places

LEMMA SoundFields ==
  ASSUME NEW c, Sound(c)
  PROVE  /\ c.chains \in 0..2 /\ c.writes \in 0..2 /\ c.forked \in BOOLEAN
         /\ c.at \in Places
         /\ c.forked = TRUE => c.chains + c.writes <= 2
         /\ c.forked = FALSE => c.chains + c.writes <= 1
         /\ c.at = "resuming" => c.chains = 0 /\ c.writes = 0 /\ c.forked = FALSE
BY DEF Sound, Connection

LEMMA SoundForks ==
  ASSUME NEW r \in Forks(0, 0, FALSE)
  PROVE  Sound(r)
<1>1. r \in {Life(0, 0, FALSE, "threw"), Life(1, 1, TRUE, "ready"), Life(2, 0, TRUE, "ready")}
  <2>1. 0 + 1 = 1 /\ 0 + 2 = 2
    OBVIOUS
  <2> QED BY <2>1, Zenon DEF Forks
<1>2. Sound(Life(0, 0, FALSE, "threw"))
  <2>1. 0 \in 0..2 /\ 0 + 0 <= 1 /\ "threw" \in {"ready", "closing", "threw"}
    OBVIOUS
  <2> QED BY <2>1, SoundUnforked
<1>3. Sound(Life(1, 1, TRUE, "ready")) /\ Sound(Life(2, 0, TRUE, "ready"))
  <2>1. /\ 0 \in 0..2 /\ 1 \in 0..2 /\ 2 \in 0..2 /\ 1 + 1 <= 2 /\ 2 + 0 <= 2
        /\ "ready" \in {"ready", "closing", "threw"}
    OBVIOUS
  <2> QED BY <2>1, SoundForked
<1> QED BY <1>1, <1>2, <1>3, Zenon

(* The fields of a sound connection as numbers, whatever f is.             *)
LEMMA SoundCase ==
  ASSUME NEW c, Sound(c)
  PROVE  /\ c.chains \in 0..2 /\ c.writes \in 0..2
         /\ \/ c.forked = TRUE /\ c.chains + c.writes <= 2
            \/ c.forked = FALSE /\ c.chains + c.writes <= 1
BY SoundFields, Zenon

(* A handler keeps a ready connection sound.                               *)
LEMMA SoundHandler ==
  ASSUME NEW c, Sound(c), c.at = "ready", NEW r \in HandlerRuns(c)
  PROVE  Sound(r)
<1> DEFINE n == c.chains - 1
           w == c.writes
<1>1. c.chains # 0
  BY Zenon DEF HandlerRuns
<1>2. c.chains \in 0..2 /\ w \in 0..2
  BY SoundCase, Zenon
<1>3. \/ r \in {c, Life(n, w, c.forked, "ready"), Life(n, w + 1, c.forked, "ready"),
                Life(n, w, c.forked, "closing"), Life(n, w, c.forked, "threw")}
      \/ c.forked = FALSE /\ r \in Forks(n, w, FALSE)
      \/ c.forked = FALSE /\ r = Life(n, w, FALSE, "resuming")
  <2>1. c.forked \in BOOLEAN
    BY SoundFields, Zenon
  <2>2. CASE c.forked = TRUE
    BY <1>1, <2>2, Zenon DEF HandlerRuns
  <2>3. CASE c.forked = FALSE
    BY <1>1, <2>3, Zenon DEF HandlerRuns
  <2> QED BY <2>1, <2>2, <2>3, Zenon
<1> HIDE DEF w
<1>4. CASE c.forked = TRUE /\ c.chains + w <= 2
  <2>1. c.chains + w <= 2
    BY <1>4, Zenon
  <2>2. n \in 0..2 /\ w + 1 \in 0..2 /\ n + w <= 2 /\ n + (w + 1) <= 2
    BY <1>1, <1>2, <2>1
  <2> HIDE DEF n
  <2>3. \A p \in {"ready", "closing", "threw"} : Sound(Life(n, w, TRUE, p))
    BY <1>2, <2>2, SoundForked, Zenon
  <2>4. Sound(Life(n, w + 1, TRUE, "ready"))
    BY <1>2, <2>2, SoundForked, Zenon
  <2>5. c.forked = TRUE
    BY <1>4, Zenon
  <2>6. c.forked # FALSE
    BY <2>5, Zenon
  <2>7. r \in {c, Life(n, w, TRUE, "ready"), Life(n, w + 1, TRUE, "ready"),
               Life(n, w, TRUE, "closing"), Life(n, w, TRUE, "threw")}
    BY <1>3, <2>5, <2>6, Zenon
  <2> QED BY <2>3, <2>4, <2>7, Zenon
<1>5. CASE c.forked = FALSE /\ c.chains + w <= 1
  <2>1. c.chains + w <= 1
    BY <1>5, Zenon
  <2>2. n = 0 /\ w = 0
    BY <1>1, <1>2, <2>1
  <2> HIDE DEF n
  <2>3. /\ 0 \in 0..2 /\ 1 \in 0..2 /\ 0 + 0 <= 1 /\ 0 + 1 <= 1 /\ 0 + 1 = 1
    OBVIOUS
  <2>4. \A p \in {"ready", "closing", "threw"} : Sound(Life(0, 0, FALSE, p))
    BY <2>3, SoundUnforked
  <2>5. Sound(Life(0, 0 + 1, FALSE, "ready"))
    BY <2>3, SoundUnforked
  <2>6. c.forked = FALSE
    BY <1>5, Zenon
  <2>7. \/ r \in {c, Life(0, 0, FALSE, "ready"), Life(0, 0 + 1, FALSE, "ready"),
                  Life(0, 0, FALSE, "closing"), Life(0, 0, FALSE, "threw")}
        \/ r \in Forks(0, 0, FALSE)
        \/ r = Life(0, 0, FALSE, "resuming")
    BY <1>3, <2>2, <2>6, Zenon
  <2> QED BY <2>4, <2>5, <2>7, SoundResuming, SoundForks, Zenon
<1> QED BY <1>4, <1>5, SoundCase, Zenon DEF w

(* The end of a write keeps a ready connection sound.                      *)
LEMMA SoundWrite ==
  ASSUME NEW c, Sound(c), c.at = "ready", NEW r \in WriteEnds(c)
  PROVE  Sound(r)
<1> DEFINE n == c.chains
           w == c.writes - 1
<1>1. c.writes # 0 /\ r = Life(n, w, c.forked, "ready")
  BY Zenon DEF WriteEnds
<1>2. n \in 0..2 /\ c.writes \in 0..2
  BY SoundCase, Zenon
<1> HIDE DEF n
<1>3. w \in 0..2
  BY <1>1, <1>2
<1>4. CASE c.forked = TRUE /\ n + c.writes <= 2
  <2>1. n + c.writes <= 2
    BY <1>4, Zenon
  <2>2. n + w <= 2
    BY <1>2, <2>1
  <2> HIDE DEF w
  <2> QED BY <1>1, <1>2, <1>3, <1>4, <2>2, SoundForked, Zenon
<1>5. CASE c.forked = FALSE /\ n + c.writes <= 1
  <2>1. n + c.writes <= 1
    BY <1>5, Zenon
  <2>2. n + w <= 1
    BY <1>2, <2>1
  <2> HIDE DEF w
  <2> QED BY <1>1, <1>2, <1>3, <1>5, <2>2, SoundUnforked, Zenon
<1> QED BY <1>4, <1>5, SoundCase, Zenon DEF n

(* So does the end of a shutdown, with or without an exception.            *)
LEMMA SoundShutdown ==
  ASSUME NEW c, Sound(c), NEW r \in ShutdownReturns(c) \cup ShutdownThrows(c)
  PROVE  Sound(r)
<1> DEFINE n == c.chains
           w == c.writes
<1>1. \/ \E p \in {"ready", "threw"} : r = Life(n, w, c.forked, p)
      \/ c.at = "resuming" /\ r \in Forks(n, w, c.forked)
  BY DEF ShutdownReturns, ShutdownThrows
<1>2. n \in 0..2 /\ w \in 0..2
  BY SoundCase, Zenon
<1>3. CASE c.at = "resuming" /\ r \in Forks(n, w, c.forked)
  <2>1. n = 0 /\ w = 0 /\ c.forked = FALSE
    BY <1>3, SoundFields, Zenon
  <2> QED BY <1>3, <2>1, SoundForks, Zenon
<1>4. ASSUME NEW p \in {"ready", "threw"}, r = Life(n, w, c.forked, p)
      PROVE  Sound(r)
  <2> HIDE DEF n, w
  <2>1. CASE c.forked = TRUE /\ n + w <= 2
    BY <1>2, <1>4, <2>1, SoundForked, Zenon
  <2>2. CASE c.forked = FALSE /\ n + w <= 1
    BY <1>2, <1>4, <2>2, SoundUnforked, Zenon
  <2> QED BY <2>1, <2>2, SoundCase, Zenon DEF n, w
<1> QED BY <1>1, <1>3, <1>4, Zenon

-----------------------------------------------------------------------------
(***************************************************************************)
(* The initial state and the steps.                                        *)
(***************************************************************************)
LEMMA SoundEnds == Sound(NoConnection) /\ Sound(Accepted)
<1>1. /\ 0 \in 0..2 /\ 1 \in 0..2 /\ 0 + 0 <= 1 /\ 1 + 0 <= 1
      /\ "ready" \in {"ready", "closing", "threw"}
  OBVIOUS
<1> QED BY <1>1, SoundUnforked DEF NoConnection, Accepted

LEMMA InitInv == Init => IInv
<1> SUFFICES ASSUME Init PROVE IInv
  OBVIOUS
<1>1. conn = [c \in Clients |-> NoConnection] /\ Sound(NoConnection)
  BY SoundEnds DEF Init
<1>2. NoConnection \in Connection
  BY <1>1 DEF Sound
<1>3. NoConnection.at = "ready"
  BY DEF NoConnection, Life
<1>4. ServerTypeOK
  BY EmptySeq DEF Init, ServerInit, ServerTypeOK
<1>5. /\ \A c \in Clients : Sound(conn[c])
      /\ conn \in [Clients -> Connection]
      /\ OneHolder
  BY <1>1, <1>2, <1>3, Zenon DEF OneHolder
<1> QED BY <1>4, <1>5 DEF IInv, Init, ServerInit, OneAcceptPending

(* One connection changes to a sound one: it holds the thread already, or  *)
(* nobody does.                                                            *)
LEMMA OneChanges ==
  ASSUME IInv, NEW c \in Clients, NEW r, Sound(r), conn' = [conn EXCEPT ![c] = r],
         \A d \in Clients : d # c => conn[d].at = "ready"
  PROVE  /\ conn' \in [Clients -> Connection]
         /\ \A d \in Clients : Sound(conn'[d])
         /\ OneHolder'
<1>1. conn \in [Clients -> Connection] /\ r \in Connection
  BY DEF IInv, Sound
<1>2. conn'[c] = r /\ \A d \in Clients : d # c => conn'[d] = conn[d]
  BY <1>1, Zenon
<1>3. conn' \in [Clients -> Connection]
  BY <1>1
<1>4. \A d \in Clients : Sound(conn'[d])
  BY <1>2, Zenon DEF IInv
<1>5. OneHolder'
  BY <1>2, Zenon DEF OneHolder
<1> QED BY <1>3, <1>4, <1>5

(* A step that changes one connection and nothing of the accept loop.      *)
LEMMA BecomeInv ==
  ASSUME IInv, NEW c \in Clients, NEW results, \A r \in results : Sound(r),
         Become(c, results), \A d \in Clients : d # c => conn[d].at = "ready"
  PROVE  IInv'
<1>1. PICK r \in results : conn' = [conn EXCEPT ![c] = r]
  BY DEF Become
<1>2. server' = server /\ accepts' = accepts /\ backlog' = backlog
  BY DEF Become, serverVars
<1>3. Sound(r)
  BY <1>1, Zenon
<1>4. /\ conn' \in [Clients -> Connection]
      /\ \A d \in Clients : Sound(conn'[d])
      /\ OneHolder'
  BY <1>1, <1>3, OneChanges
<1> QED BY <1>2, <1>4, Zenon DEF IInv, ServerTypeOK, OneAcceptPending

(* A step of the accept loop that leaves the connections alone.            *)
LEMMA ServerInv ==
  ASSUME IInv, UNCHANGED conn, ServerTypeOK', OneAcceptPending',
         (server = "starting" => accepts = 0)'
  PROVE  IInv'
BY Zenon DEF IInv, OneHolder

LEMMA StartInv == IInv /\ Start => IInv'
<1> SUFFICES ASSUME IInv, Start PROVE IInv'
  OBVIOUS
<1>1. /\ server = "starting" /\ accepts = 0 /\ UNCHANGED << backlog, conn >>
      /\ \/ server' = "failed" /\ accepts' = accepts
         \/ server' = "listening" /\ accepts' = accepts + 1
  BY DEF Start, StartServer, startAccept, IInv
<1>2. ServerTypeOK' /\ OneAcceptPending' /\ (server = "starting" => accepts = 0)'
  BY <1>1 DEF IInv, ServerTypeOK, OneAcceptPending
<1> QED BY <1>1, <1>2, ServerInv

LEMMA ClientConnectsInv ==
  ASSUME IInv, NEW c \in Clients, ClientConnects(c)
  PROVE  IInv'
<1>1. /\ server = "listening" /\ backlog' = Append(backlog, c)
      /\ UNCHANGED << server, accepts, conn >>
  BY DEF ClientConnects, Connect
<1>2. backlog' \in Seq(Clients)
  BY <1>1, AppendProperties DEF IInv, ServerTypeOK
<1>3. ServerTypeOK' /\ OneAcceptPending' /\ (server = "starting" => accepts = 0)'
  BY <1>1, <1>2 DEF IInv, ServerTypeOK, OneAcceptPending
<1> QED BY <1>1, <1>3, ServerInv

(* Whatever its outcome, handleAccept leaves one accept under way.         *)
LEMMA handleAcceptInv ==
  ASSUME IInv, NEW error \in BOOLEAN, handleAccept(error), server = "listening"
  PROVE  /\ ServerTypeOK' /\ OneAcceptPending'
         /\ (server = "starting" => accepts = 0)'
         /\ Head(backlog) \in Clients
<1>1. backlog \in Seq(Clients) /\ backlog # << >> /\ accepts = 1
  BY DEF IInv, ServerTypeOK, OneAcceptPending, handleAccept
<1>2. Head(backlog) \in Clients /\ Tail(backlog) \in Seq(Clients)
  BY <1>1, HeadTailProperties
<1>3. backlog' \in Seq(Clients)
  BY <1>1, <1>2 DEF handleAccept
<1>4. accepts' = 1 /\ server' = server
  BY <1>1 DEF handleAccept, startAccept
<1> QED BY <1>2, <1>3, <1>4 DEF ServerTypeOK, OneAcceptPending

LEMMA AcceptInv == IInv /\ Accept => IInv'
<1> SUFFICES ASSUME IInv, Accept PROVE IInv'
  OBVIOUS
<1>1. /\ server = "listening" /\ \A d \in Clients : conn[d].at = "ready"
      /\ handleAccept(FALSE) /\ conn' = [conn EXCEPT ![Head(backlog)] = Accepted]
  BY DEF Accept, ThreadFree
<1>2. /\ ServerTypeOK' /\ OneAcceptPending'
      /\ (server = "starting" => accepts = 0)'
      /\ Head(backlog) \in Clients
  BY <1>1, handleAcceptInv
<1>3. /\ conn' \in [Clients -> Connection]
      /\ \A d \in Clients : Sound(conn'[d])
      /\ OneHolder'
  BY <1>1, <1>2, SoundEnds, OneChanges
<1> QED BY <1>2, <1>3 DEF IInv

LEMMA AcceptFailsInv == IInv /\ AcceptFails => IInv'
BY handleAcceptInv, ServerInv DEF AcceptFails, ThreadFree

LEMMA HandleInv == ASSUME IInv, NEW c \in Clients, Handle(c) PROVE IInv'
<1>1. \A d \in Clients : conn[d].at = "ready"
  BY DEF Handle, ThreadFree
<1>2. Sound(conn[c]) /\ Become(c, HandlerRuns(conn[c]))
  BY DEF IInv, Handle
<1>3. \A r \in HandlerRuns(conn[c]) : Sound(r)
  BY <1>1, <1>2, SoundHandler, Zenon
<1> QED BY <1>1, <1>2, <1>3, BecomeInv, Zenon

LEMMA WriteInv == ASSUME IInv, NEW c \in Clients, Write(c) PROVE IInv'
<1>1. \A d \in Clients : conn[d].at = "ready"
  BY DEF Write, ThreadFree
<1>2. Sound(conn[c]) /\ Become(c, WriteEnds(conn[c]))
  BY DEF IInv, Write
<1>3. \A r \in WriteEnds(conn[c]) : Sound(r)
  BY <1>1, <1>2, SoundWrite, Zenon
<1> QED BY <1>1, <1>2, <1>3, BecomeInv, Zenon

(* A shutdown ends only where a handler waits in it, so that every other   *)
(* connection is ready.                                                    *)
LEMMA ShutdownInv ==
  ASSUME IInv, NEW c \in Clients,
         \/ Become(c, ShutdownReturns(conn[c]))
         \/ Become(c, ShutdownThrows(conn[c]))
  PROVE  IInv'
<1>1. Sound(conn[c])
  BY DEF IInv
<1>2. \A r \in ShutdownReturns(conn[c]) \cup ShutdownThrows(conn[c]) : Sound(r)
  BY <1>1, SoundShutdown, Zenon
<1>3. conn[c].at # "ready"
  BY DEF Become, ShutdownReturns, ShutdownThrows
<1>4. \A d \in Clients : d # c => conn[d].at = "ready"
  BY <1>3, Zenon DEF IInv, OneHolder
<1>5. /\ \A r \in ShutdownReturns(conn[c]) : Sound(r)
      /\ \A r \in ShutdownThrows(conn[c]) : Sound(r)
  BY <1>2, Zenon
<1> QED BY <1>4, <1>5, BecomeInv, Zenon

LEMMA StepInv == IInv /\ [Next]_vars => IInv'
<1> SUFFICES ASSUME IInv, [Next]_vars PROVE IInv'
  OBVIOUS
<1>1. CASE UNCHANGED vars
  BY <1>1, Zenon DEF IInv, vars, serverVars, ServerTypeOK, OneHolder, OneAcceptPending
<1>2. CASE Start
  BY <1>2, StartInv
<1>3. CASE Accept
  BY <1>3, AcceptInv
<1>4. CASE AcceptFails
  BY <1>4, AcceptFailsInv
<1>5. ASSUME NEW c \in Clients, ClientConnects(c) PROVE IInv'
  BY <1>5, ClientConnectsInv
<1>6. ASSUME NEW c \in Clients, Handle(c) PROVE IInv'
  BY <1>6, HandleInv
<1>7. ASSUME NEW c \in Clients, Write(c) PROVE IInv'
  BY <1>7, WriteInv
<1>8. ASSUME NEW c \in Clients, Return(c) \/ Throw(c) PROVE IInv'
  BY <1>8, ShutdownInv DEF Return, Throw
<1> QED BY <1>1, <1>2, <1>3, <1>4, <1>5, <1>6, <1>7, <1>8, Zenon DEF Next

-----------------------------------------------------------------------------
(* The strengthened invariant holds in every state of the server.          *)
THEOREM Invariance == Spec => []IInv
BY InitInv, StepInv, PTL DEF Spec

(* Every variable of the server keeps its type, for any clients.           *)
THEOREM TypeCorrect == Spec => []TypeOK
<1>1. IInv => TypeOK
  BY Zenon DEF IInv, TypeOK
<1> QED BY <1>1, Invariance, PTL

(* While the server listens exactly one accept is under way: no error, no  *)
(* descriptor that is missing and no connection stops the accept loop or   *)
(* starts it twice (TcpServer::handleAccept).                              *)
THEOREM AcceptKept == Spec => []OneAcceptPending
<1>1. IInv => OneAcceptPending
  BY Zenon DEF IInv
<1> QED BY <1>1, Invariance, PTL

(* The one thread of run() is held by at most one connection.              *)
THEOREM ThreadKept == Spec => []OneHolder
<1>1. IInv => OneHolder
  BY Zenon DEF IInv
<1> QED BY <1>1, Invariance, PTL

(* However its requests interleave, a connection has at most two           *)
(* operations under way, and one before it forks.                          *)
THEOREM OperationsBounded == Spec => []TwoOperations
<1>1. IInv => TwoOperations
  BY Zenon DEF IInv, TwoOperations, Sound
<1> QED BY <1>1, Invariance, PTL
==============================================================================
