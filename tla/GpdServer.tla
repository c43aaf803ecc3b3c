------------------------------- MODULE GpdServer -------------------------------
(***************************************************************************)
(* The whole server: the accept loop of TcpServer and the connections it   *)
(* has accepted, all on the one thread in io_service::run                  *)
(* (src/src/main.cpp:48).  A connection is the life of ConnectionLife,     *)
(* which TcpConnection implements.                                         *)
(***************************************************************************)
EXTENDS TcpServer, ConnectionLife, FiniteSets

CONSTANTS
  MaxSockets,   \* how many client sockets the process may have open
  Prompt        \* the clients that send what they announce, or leave

VARIABLE conn   \* the connection of every client

vars == << serverVars, conn >>

ASSUME ServerAssumption ==
  /\ IsFiniteSet(Clients)
  /\ MaxSockets \in Nat
  /\ Prompt \subseteq Clients

(* Not accepted yet, or over and destroyed.                                *)
NoConnection == Life(0, 0, FALSE, "ready")

Init == ServerInit /\ conn = [c \in Clients |-> NoConnection]

(* An exception leaves run(), main catches it, and the process ends.       *)
Ended == server = "failed" \/ \E c \in Clients : conn[c].at = "threw"

(* A handler that waits in shutdown() has the thread.                      *)
ThreadFree == server = "listening" /\ \A c \in Clients : conn[c].at = "ready"

OpenSockets == {c \in Clients : Open(conn[c])}

-----------------------------------------------------------------------------
Start == StartServer /\ UNCHANGED conn

ClientConnects(c) ==
  /\ ~ Ended
  /\ ~ Open(conn[c])
  /\ Connect(c)
  /\ UNCHANGED conn

(* handleAccept with a new client: processRequest starts its handshake.    *)
Accept ==
  /\ ThreadFree
  /\ Cardinality(OpenSockets) < MaxSockets
  /\ handleAccept(FALSE)
  /\ conn' = [conn EXCEPT ![Head(backlog)] = Accepted]

(* handleAccept with an error: no descriptor is left for the client.       *)
AcceptFails ==
  /\ ThreadFree
  /\ Cardinality(OpenSockets) >= MaxSockets
  /\ handleAccept(TRUE)
  /\ UNCHANGED conn

Become(c, results) ==
  /\ \E r \in results : conn' = [conn EXCEPT ![c] = r]
  /\ UNCHANGED serverVars

(* Fault: handlers run beside one that waits in a shutdown.                *)
HandleBeside(c) == conn[c].at = "ready" /\ Become(c, HandlerRuns(conn[c]))

Handle(c) == ThreadFree /\ Become(c, HandlerRuns(conn[c]))
Write(c) == ThreadFree /\ Become(c, WriteEnds(conn[c]))
Return(c) == ~ Ended /\ Become(c, ShutdownReturns(conn[c]))
Throw(c) == ~ Ended /\ Become(c, ShutdownThrows(conn[c]))

Next ==
  \/ Start
  \/ Accept
  \/ AcceptFails
  \/ \E c \in Clients : \/ ClientConnects(c)
                        \/ Handle(c)
                        \/ Write(c)
                        \/ Return(c)
                        \/ Throw(c)

Spec == Init /\ [][Next]_vars

(***************************************************************************)
(* The io_service runs what is ready whenever its thread is free: strong   *)
(* fairness, for a shutdown of another connection may come between.  A     *)
(* chain of a prompt client does not read for ever.                        *)
(***************************************************************************)
ThreadFairness ==
  /\ WF_vars(Start)
  /\ SF_vars(Accept)
  /\ \A c \in Clients : SF_vars(Write(c))
  /\ \A c \in Prompt : SF_vars(Handle(c))

ThreadSpec == Spec /\ ThreadFairness

(* The clients answer the shutdown of the server, or break the connection. *)
AnsweringSpec == ThreadSpec /\ \A c \in Clients : WF_vars(Return(c) \/ Throw(c))

-----------------------------------------------------------------------------
(***************************************************************************)
(* Properties.                                                             *)
(***************************************************************************)
(* Type invariant of the server. *)
TypeOK ==
  /\ ServerTypeOK
  /\ conn \in [Clients -> Connection]

(* The accept loop survives everything but the end of the process: while   *)
(* the server listens exactly one accept is under way, whatever accepts    *)
(* failed and whatever the connections did.                                *)
OneAcceptPending == server = "listening" => accepts = 1

(* One thread: at most one connection holds it, so one handler that waits  *)
(* or threw is the only one that does.                                     *)
OneHolder ==
  \A c, d \in Clients : (conn[c].at # "ready" /\ conn[d].at # "ready") => c = d

(* No connection ever has more than two operations under way, and one      *)
(* before its first POST package: the sockets and the memory the server    *)
(* holds are bounded by its clients.                                       *)
TwoOperations ==
  \A c \in Clients :
    conn[c].chains + conn[c].writes <= IF conn[c].forked THEN 2 ELSE 1

(* "After that a new connection will be accepted" (TcpServer.cpp:68): a    *)
(* client that connects is accepted unless the process ends.  It holds     *)
(* when clients answer the shutdown of the server and a socket is left     *)
(* beside those that keep silent, and only then.                           *)
ClientsAccepted == \A c \in Clients : Queued(c) ~> (~ Queued(c) \/ Ended)

(* The connection of a prompt client ends and frees its socket.            *)
PromptReleased == \A c \in Prompt : Open(conn[c]) ~> (~ Open(conn[c]) \/ Ended)
==============================================================================
