------------------------------ MODULE SslStream ------------------------------
(***************************************************************************)
(* The TLS stream of one client connection, as TcpConnection.cpp uses it:  *)
(* boost::asio::ssl::stream and the client at its other end.  Both are     *)
(* outside the repository; what is modelled is what the program can see.   *)
(*                                                                         *)
(* The client sends one request, a stream of bytes.  A byte is named by    *)
(* its position: 1..header is the header with its blank line, the rest is  *)
(* the body.  What the bytes spell is kept in the request record:          *)
(*   verb    the first word: GET, POST, OPTIONS or something else          *)
(*   header  number of header bytes, the blank line included               *)
(*   length  what std::stoi makes of the Content-Length field: a number,   *)
(*           NoNumber when it throws, Missing when there is no such field  *)
(*   body    number of body bytes the client sends                         *)
(*   valid   whether the complete body is a machine the layout callback    *)
(*           can read                                                      *)
(***************************************************************************)
EXTENDS Integers, Sequences

CONSTANTS
  Requests,     \* the requests a client may send
  BufferSize,   \* capacity of m_buffer (32768 in the code)
  NoNumber,     \* std::stoi throws
  Missing       \* no Content-Length field

VARIABLES
  request,      \* the request this client sends
  peer,         \* the client's side of the stream
  received,     \* number of stream bytes handed to reads so far
  m_buffer,     \* the connection's single read buffer; 0 is uninitialised
  handshakes,   \* number of pending async_handshake operations
  reads,        \* number of async_read_some operations waiting for data
  filled,       \* reads filled when they were started, handler queued: byte counts
  writes,       \* pending async_write operations, oldest first
  answers,      \* what has been delivered to the client
  overwritten   \* history: m_buffer was written under a queued handler

streamVars == << request, peer, received, m_buffer, handshakes, reads, filled,
                 writes, answers, overwritten >>

(***************************************************************************)
(* Names of the verbs and the number of bytes the prefix test compares.    *)
(***************************************************************************)
VerbLength == [GET |-> 3, POST |-> 4, OPTIONS |-> 7, UNKNOWN |-> 1]

RequestType ==
  [verb : DOMAIN VerbLength, header : Nat, length : Int \cup {NoNumber, Missing},
   body : Nat, valid : BOOLEAN]

ASSUME StreamAssumption ==
  /\ NoNumber \notin Int /\ Missing \notin Int
  /\ BufferSize \in Nat \ {0}
  /\ Requests \subseteq RequestType
  /\ \A r \in Requests : r.header >= VerbLength[r.verb] + 4

Total == request.header + request.body

(* The complete body, as the positions of its bytes. *)
Body == [i \in 1..request.body |-> request.header + i]

(* Handshakes and reads under way: each of them ends in one handler call.  *)
Readers == handshakes + reads + Len(filled)

Answer(kind, machine) == [kind |-> kind, machine |-> machine]
Garbled == Answer("garbled", << >>)

(***************************************************************************)
(* A read returns between one byte and a full buffer, whatever the TLS     *)
(* records and TCP segments were; nothing follows the client's close (what *)
(* it sent before closing is read before the close is seen).               *)
(***************************************************************************)
Available ==
  IF peer = "open"
  THEN {n \in 1..BufferSize : received + n <= Total}
  ELSE {}

Refilled(n) ==
  [i \in 1..BufferSize |-> IF i <= n THEN received + i ELSE m_buffer[i]]

Fill(n) ==
  /\ m_buffer' = Refilled(n)
  /\ received' = received + n
  /\ overwritten' = (overwritten \/ filled # << >>)

(***************************************************************************)
(* async_read_some(buffer(m_buffer)).  What the TLS engine already holds   *)
(* is put into m_buffer at once and the handler is queued; otherwise the   *)
(* read waits.  While a read waits the engine is empty, so a second read   *)
(* waits too; the io_service runs queued handlers in order, so a waiting   *)
(* read completes only when no handler of a filled read is queued.         *)
(***************************************************************************)
AsyncReadSome ==
  \/ /\ reads' = reads + 1
     /\ UNCHANGED << received, m_buffer, filled, overwritten >>
  \/ /\ reads = 0
     /\ \E n \in Available :
          /\ Fill(n)
          /\ filled' = Append(filled, n)
     /\ UNCHANGED reads

WaitingReadDone ==
  /\ reads > 0
  /\ filled = << >>
  /\ reads' = reads - 1
  /\ UNCHANGED filled

QueuedReadDone ==
  /\ filled # << >>
  /\ filled' = Tail(filled)
  /\ UNCHANGED << reads, received, m_buffer, overwritten >>

(***************************************************************************)
(* async_write of an answer.  An answer that is still being written when   *)
(* another one is started shares its storage and its TLS stream with it:   *)
(* neither is certain to arrive as composed.                               *)
(***************************************************************************)
AsyncWrite(answer) ==
  writes' = Append([i \in DOMAIN writes |-> [writes[i] EXCEPT !.intact = FALSE]],
                   [answer |-> answer, intact |-> writes = << >>])

(* What the client reads once the write w has gone out. *)
Delivered(w) == IF w.intact THEN {w.answer} ELSE {w.answer, Garbled}

(***************************************************************************)
(* The client closes the TLS session or the transport breaks.              *)
(***************************************************************************)
PeerLeaves ==
  /\ peer = "open"
  /\ peer' \in {"closed", "broken"}
  /\ UNCHANGED << request, received, m_buffer, handshakes, reads, filled,
                  writes, answers, overwritten >>

StreamInit ==
  /\ request \in Requests
  /\ peer = "open"
  /\ received = 0
  /\ m_buffer = [i \in 1..BufferSize |-> 0]
  /\ handshakes = 1          \* TcpServer::handleAccept called processRequest
  /\ reads = 0
  /\ filled = << >>
  /\ writes = << >>
  /\ answers = << >>
  /\ overwritten = FALSE

AnswerType ==
  [kind : {"pong", "options", "machine", "garbled"}, machine : Seq(Nat)]

StreamTypeOK ==
  /\ request \in Requests
  /\ peer \in {"open", "closed", "broken", "shut"}
  /\ received \in 0..Total
  /\ m_buffer \in [1..BufferSize -> Nat]
  /\ handshakes \in Nat
  /\ reads \in Nat
  /\ filled \in Seq(1..BufferSize)
  /\ writes \in Seq([answer : AnswerType, intact : BOOLEAN])
  /\ answers \in Seq(AnswerType)
  /\ overwritten \in BOOLEAN
==============================================================================
