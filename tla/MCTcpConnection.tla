--------------------------- MODULE MCTcpConnection ---------------------------
(***************************************************************************)
(* Small instances of TcpConnection for TLC: the requests clients send.    *)
(* Headers are the shortest that hold a verb and a blank line.             *)
(***************************************************************************)
EXTENDS TcpConnectionRefinement

Post(length, body, valid) ==
  [verb |-> "POST", header |-> 8, length |-> length, body |-> body, valid |-> valid]

Bodiless(verb) ==
  [verb |-> verb, header |-> VerbLength[verb] + 4, length |-> Missing,
   body |-> 0, valid |-> FALSE]

(* A complete machine, in as many reads as the stream is cut into. *)
WholePost == {Post(5, 5, TRUE)}

(* A body the callback cannot read, bytes after the announced body, and    *)
(* Content-Length absent, not a number, zero, negative or too large.       *)
OddPosts ==
  {Post(3, 3, FALSE), Post(1, 4, TRUE), Post(Missing, 2, TRUE),
   Post(NoNumber, 2, TRUE), Post(0, 2, FALSE), Post(-1, 2, TRUE),
   Post(6, 2, TRUE)}

OtherVerbs == {Bodiless(v) : v \in {"GET", "OPTIONS", "UNKNOWN"}}

AnyRequest == WholePost \cup OddPosts \cup OtherVerbs
FewStrayLengths == {0, 1}
==============================================================================
