-------------------------- MODULE AbstractConnection --------------------------
(***************************************************************************)
(* The life of one connection as a specification: what TcpConnection       *)
(* promises to the server.                                                 *)
(***************************************************************************)
EXTENDS ConnectionLife

VARIABLE conn

Init == conn = Accepted

Handle == conn.at = "ready" /\ conn' \in HandlerRuns(conn) \cup WriteEnds(conn)
Shut == conn' \in ShutdownReturns(conn) \cup ShutdownThrows(conn)

Next == Handle \/ Shut

Spec == Init /\ [][Next]_conn
==============================================================================
