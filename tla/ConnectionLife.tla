---------------------------- MODULE ConnectionLife ----------------------------
(***************************************************************************)
(* What one connection (class TcpConnection) means to the server that      *)
(* shares its thread with it: how many chains of handlers and how many     *)
(* writes it has under way, and whether one of its handlers holds the      *)
(* thread.  Requests, bytes and lengths are left to module TcpConnection,  *)
(* which implements this life (module TcpConnectionRefinement).            *)
(*                                                                         *)
(*   chains  handshakes and reads under way                                *)
(*   writes  answers being written                                         *)
(*   forked  the first POST package has started its second chain           *)
(*   at      ready      none of its handlers is running                    *)
(*           closing    a handler waits in shutdown() and then returns     *)
(*           resuming   a handler waits in shutdown() and then goes on     *)
(*           threw      a handler threw                                    *)
(***************************************************************************)
EXTENDS Integers

Places == {"ready", "closing", "resuming", "threw"}

Connection == [chains : 0..2, writes : 0..2, forked : BOOLEAN, at : Places]

Life(chains, writes, forked, at) ==
  [chains |-> chains, writes |-> writes, forked |-> forked, at |-> at]

Accepted == Life(1, 0, FALSE, "ready")

(* Its pending operations are what keeps a connection and its socket alive *)
(* (shared_from_this in every handler).                                    *)
Open(c) == c.chains + c.writes > 0 \/ c.at \in {"closing", "resuming"}

(* Fault: a second chain although the first package was complete.          *)
ForksTwice(n, w, f) == {Life(n + 2, w + 1, TRUE, "ready")}

(* The rest of the first POST package: it may throw; it is complete and    *)
(* answered, and one chain reads on; or two chains read on.                *)
Forks(n, w, f) ==
  {Life(n, w, f, "threw"), Life(n + 1, w + 1, TRUE, "ready"),
   Life(n + 2, w, TRUE, "ready")}

(* A handshake or read handler: its chain goes on, ends without an answer, *)
(* ends with an answer, waits in shutdown() or throws; a first package may *)
(* fork, at once or after a shutdown.                                      *)
HandlerRuns(c) ==
  LET n == c.chains - 1
      w == c.writes
      f == c.forked
  IN IF c.chains = 0 THEN {}
     ELSE {c, Life(n, w, f, "ready"), Life(n, w + 1, f, "ready"),
           Life(n, w, f, "closing"), Life(n, w, f, "threw")}
          \cup IF f THEN {} ELSE Forks(n, w, f) \cup {Life(n, w, f, "resuming")}

(* Fault: the handler of a write runs without a write.                     *)
WriteEndsAlways(c) == {Life(c.chains, c.writes - 1, c.forked, "ready")}

WriteEnds(c) ==
  IF c.writes = 0 THEN {} ELSE {Life(c.chains, c.writes - 1, c.forked, "ready")}

(* Fault: the handler does not return after its shutdown.                  *)
ShutdownReadsOn(c) ==
  CASE c.at = "closing"  -> {Life(c.chains + 1, c.writes, c.forked, "ready")}
    [] c.at = "resuming" -> Forks(c.chains, c.writes, c.forked)
    [] OTHER             -> {}

ShutdownReturns(c) ==
  CASE c.at = "closing"  -> {Life(c.chains, c.writes, c.forked, "ready")}
    [] c.at = "resuming" -> Forks(c.chains, c.writes, c.forked)
    [] OTHER             -> {}

ShutdownThrows(c) ==
  IF c.at \in {"closing", "resuming"}
  THEN {Life(c.chains, c.writes, c.forked, "threw")} ELSE {}
==============================================================================
