------------------------------- MODULE TcpServer -------------------------------
(***************************************************************************)
(* main and class TcpServer (src/src/main.cpp, src/src/TcpServer.cpp): the *)
(* process starts, listens, and accepts one client after the other.  The   *)
(* clients whose connection waits to be accepted are a queue kept by the   *)
(* operating system.                                                       *)
(***************************************************************************)
EXTENDS Naturals, Sequences

CONSTANT Clients

VARIABLES
  server,     \* starting, listening, or failed before it listened
  accepts,    \* async_accept operations under way
  backlog     \* the clients waiting to be accepted, in order

serverVars == << server, accepts, backlog >>

ServerInit ==
  /\ server = "starting"
  /\ accepts = 0
  /\ backlog = << >>

startAccept(pending) == accepts' = pending + 1

(* main: too few arguments, a port in use, a file that cannot be read or a *)
(* constructor that reaches its end.                                       *)
StartServer ==
  /\ server = "starting"
  /\ \/ server' = "failed" /\ UNCHANGED accepts
     \/ server' = "listening" /\ startAccept(accepts)
  /\ UNCHANGED backlog

(* Fault: the next accept is started for a client only.                    *)
handleAcceptStops(error) ==
  /\ accepts > 0
  /\ IF error THEN /\ accepts' = accepts - 1
                   /\ UNCHANGED backlog
              ELSE /\ backlog # << >>
                   /\ backlog' = Tail(backlog)
                   /\ startAccept(accepts - 1)
  /\ UNCHANGED server

(* handleAccept for the client at the head of the queue, or for an error,  *)
(* which leaves the client where it is.                                    *)
handleAccept(error) ==
  /\ accepts > 0
  /\ backlog # << >>
  /\ backlog' = IF error THEN backlog ELSE Tail(backlog)
  /\ startAccept(accepts - 1)
  /\ UNCHANGED server

Queued(c) == \E i \in DOMAIN backlog : backlog[i] = c

(* The operating system takes a connection while the port is open.         *)
Connect(c) ==
  /\ server = "listening"
  /\ ~ Queued(c)
  /\ backlog' = Append(backlog, c)
  /\ UNCHANGED << server, accepts >>

ServerTypeOK ==
  /\ server \in {"starting", "listening", "failed"}
  /\ accepts \in Nat
  /\ backlog \in Seq(Clients)
==============================================================================
