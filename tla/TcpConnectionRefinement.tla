----------------------- MODULE TcpConnectionRefinement -----------------------
(***************************************************************************)
(* TcpConnection implements AbstractConnection.                            *)
(***************************************************************************)
EXTENDS TcpConnection

at ==
  CASE io = "running" -> "ready"
    [] io = "blocked" -> IF resume = << >> THEN "closing" ELSE "resuming"
    [] OTHER          -> "threw"

life ==
  [chains |-> Readers, writes |-> Len(writes), forked |-> m_packageCounter = 1,
   at |-> at]

Abstract == INSTANCE AbstractConnection WITH conn <- life

(* A connection, whatever its client sends and however its reads are cut,  *)
(* shows its server nothing but the life of AbstractConnection: at most    *)
(* two chains, each answered at most once, a handler that waits only in    *)
(* shutdown() and one fork.  The composed server relies on it.             *)
ImplementsLife == Abstract!Spec
==============================================================================
