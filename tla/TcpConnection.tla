---------------------------- MODULE TcpConnection ----------------------------
(***************************************************************************)
(* One client connection of the server: class TcpConnection                *)
(* (src/src/TcpConnection.cpp) over its TLS stream (module SslStream).     *)
(*                                                                         *)
(* Every handler runs to its end on the one thread that calls              *)
(* io_service::run (src/src/main.cpp:48), so a handler is one action; only *)
(* the synchronous m_socket.shutdown() waits for the client inside a       *)
(* handler and splits it in two.  The handlers have the names they have in *)
(* the code.  A byte is the position it has in the client's stream.        *)
(***************************************************************************)
EXTENDS SslStream

CONSTANTS
  SizeModulus,   \* size_t counts modulo this number (2^64)
  StrayLengths   \* numbers std::stoi may find when the field is cut or absent

VARIABLES
  m_packageCounter, m_packageType, m_contentLength, m_transferredTotal,
  m_message,     \* the bytes streamed into m_message so far
  io,            \* the thread in io_service::run
  resume,        \* buffer of the handler that waits in shutdown(), or << >>
  lost,          \* history: chains of handlers that ended without an answer
  processed      \* history: the machines given to m_processingCallback

packageVars == << m_packageCounter, m_packageType, m_contentLength,
                  m_transferredTotal, m_message >>
vars == << streamVars, packageVars, io, resume, lost, processed >>

ASSUME ConnectionAssumption ==
  /\ SizeModulus \in Nat \ {0}
  /\ StrayLengths \subseteq Int
  /\ \A r \in Requests : r.header + r.body + 2 < SizeModulus
  /\ \A n \in StrayLengths \cup ({r.length : r \in Requests} \cap Int) :
       -SizeModulus < n /\ n < SizeModulus

(***************************************************************************)
(* size_t arithmetic.                                                      *)
(***************************************************************************)
npos == SizeModulus - 1
Plus(a, b) == IF a + b < SizeModulus THEN a + b ELSE a + b - SizeModulus
MinusSigned(a, b) == a - b     \* fault: the subtraction does not wrap
Minus(a, b) == IF a >= b THEN a - b ELSE a - b + SizeModulus
ToSize(n) == IF n < 0 THEN n + SizeModulus ELSE n

(***************************************************************************)
(* What the code finds in the bytes of a first read.                       *)
(***************************************************************************)
StartsWith(buf, verb) ==
  /\ request.verb = verb
  /\ Len(buf) >= VerbLength[verb]
  /\ \A i \in 1..VerbLength[verb] : buf[i] = i

FindBlankLine(buf) ==
  IF Len(buf) >= request.header THEN request.header - 4 ELSE npos

(* The values stoi may return.  Without the field, find returns npos and   *)
(* the text parsed starts one byte before the buffer; in a header that is  *)
(* cut the field may be absent, cut or whole.                              *)
extractContentLength(buf) ==
  (IF request.length = Missing THEN {NoNumber} \cup StrayLengths
                               ELSE {request.length})
    \cup (IF Len(buf) < request.header THEN {NoNumber} \cup StrayLengths ELSE {})

(* Fault: the blank line is taken for two bytes, as in machineLength.      *)
splitAfterTwo(buf, headerSize) ==
  m_message \o SubSeq(buf, Plus(headerSize, 2) + 1, Len(buf))

splitHeaderAndBody(buf, headerSize) ==
  m_message \o SubSeq(buf, Plus(headerSize, 4) + 1, Len(buf))

(***************************************************************************)
(* processRequest called k times: each call starts another async_handshake *)
(* on the stream, also when the session is established.                    *)
(***************************************************************************)
processRequest(k) == handshakes' = handshakes + k

(* The callback of main.cpp parses and draws what it is given; what is not *)
(* a complete valid machine may make it throw, out of io_service::run.     *)
processingCallbackMayThrow(machine) == ~ (request.valid /\ machine = Body)

(* processMessage; its caller then calls processRequest k times more.      *)
processMessage(machine, k) ==
  /\ processed' = Append(processed, machine)
  /\ \/ /\ AsyncWrite(Answer("machine", machine))
        /\ processRequest(k)
        /\ io' = "running"
     \/ /\ processingCallbackMayThrow(machine)
        /\ io' = "ended"
        /\ UNCHANGED << handshakes, writes >>

(* "Need to check if [...] the whole body" (:193) and "everything" (:279). *)
LooserByTwo(total, length) == Plus(total, 4) >= length     \* fault
Complete(total, length) == Plus(total, 2) >= length

NextRead(k) ==
  /\ processRequest(k)
  /\ io' = "running"
  /\ UNCHANGED << writes, processed >>

(* Fault in the tail below: no return after processMessage.                *)
PartStoredNoReturn(message, total, length, k) ==
  /\ m_message' = message
  /\ m_transferredTotal' = total
  /\ IF Complete(total, length) THEN processMessage(message, k + 1)
                                ELSE NextRead(k + 1)

(* The tail extractHeaderAndBody and handlePostRequest share.              *)
PartStored(message, total, length, k) ==
  /\ m_message' = message
  /\ m_transferredTotal' = total
  /\ IF Complete(total, length) THEN processMessage(message, k)
                                ELSE NextRead(k + 1)

extractHeaderAndBody(buf, length, k) ==
  LET headerSize == FindBlankLine(buf) IN
  IF Minus(Len(buf), 4) = headerSize
  THEN /\ NextRead(k + 1)
       /\ UNCHANGED << m_message, m_transferredTotal >>
  ELSE PartStored(splitHeaderAndBody(buf, headerSize),
                  Plus(m_transferredTotal,
                       Minus(Minus(Len(buf), headerSize), 4)),
                  length, k)

(* m_socket.shutdown(): the thread waits for the client; rest is the       *)
(* buffer the handler goes on with afterwards.                             *)
shutdown(rest) ==
  /\ io' = "blocked"
  /\ resume' = rest
  /\ UNCHANGED << m_transferredTotal, m_message, m_packageCounter, handshakes,
                  writes, lost, processed >>

(* The first POST package once its length is known and is not 0, or once   *)
(* the shutdown for a length of 0 has returned.                            *)
FirstPostPart(buf, length) ==
  /\ extractHeaderAndBody(buf, length, 1)
  /\ m_packageCounter' = IF io' = "running" THEN m_packageCounter + 1
                                            ELSE m_packageCounter
  /\ resume' = << >>
  /\ UNCHANGED lost

(* Faults: the message is replaced, not extended; no further read starts.  *)
handlePostReplaces(buf) ==
  /\ PartStored(buf, Plus(m_transferredTotal, Len(buf)), m_contentLength, 0)
  /\ UNCHANGED << m_packageCounter, m_packageType, m_contentLength, resume, lost >>

handlePostStops(buf) ==
  /\ PartStored(m_message \o buf, Plus(m_transferredTotal, Len(buf)),
                m_contentLength, -1)
  /\ UNCHANGED << m_packageCounter, m_packageType, m_contentLength, resume, lost >>

handlePostRequest(buf) ==
  /\ PartStored(m_message \o buf, Plus(m_transferredTotal, Len(buf)),
                m_contentLength, 0)
  /\ UNCHANGED << m_packageCounter, m_packageType, m_contentLength, resume, lost >>

handleAnswered(type, kind) ==
  /\ m_packageType' = type
  /\ AsyncWrite(Answer(kind, << >>))
  /\ UNCHANGED << m_packageCounter, m_contentLength, m_transferredTotal,
                  m_message, handshakes, io, resume, lost, processed >>

handleGetRequest == handleAnswered("GET", "pong")
handleOptionsRequest == handleAnswered("OPTIONS", "options")

FirstPostPackage(buf) ==
  /\ m_packageType' = "POST"
  /\ \/ /\ NoNumber \in extractContentLength(buf)
        /\ io' = "ended"
        /\ lost' = lost + 1
        /\ UNCHANGED << m_contentLength, m_transferredTotal, m_message,
                        m_packageCounter, handshakes, writes, resume, processed >>
     \/ \E n \in extractContentLength(buf) \ {NoNumber} :
          /\ m_contentLength' = ToSize(n)
          /\ IF ToSize(n) = 0 THEN shutdown(buf)
                              ELSE FirstPostPart(buf, ToSize(n))

processPackage(buf) ==
  \/ /\ m_packageCounter # 0
     /\ handlePostRequest(buf)
  \/ /\ m_packageCounter = 0
     /\ \/ StartsWith(buf, "GET") /\ handleGetRequest
        \/ StartsWith(buf, "POST") /\ FirstPostPackage(buf)
        \/ StartsWith(buf, "OPTIONS") /\ handleOptionsRequest
        \/ /\ \A verb \in {"GET", "POST", "OPTIONS"} : ~ StartsWith(buf, verb)
           /\ shutdown(<< >>)
           /\ UNCHANGED << m_packageType, m_contentLength >>

-----------------------------------------------------------------------------
(***************************************************************************)
(* Handlers, called by the io_service.                                     *)
(***************************************************************************)
handle_handshake ==
  /\ io = "running"
  /\ handshakes > 0
  /\ handshakes' = handshakes - 1
  /\ \/ /\ AsyncReadSome
        /\ UNCHANGED lost
     \/ /\ peer # "open"            \* only the first handshake needs the client
        /\ m_packageCounter = 0
        /\ lost' = lost + 1
        /\ UNCHANGED << reads, filled, received, m_buffer, overwritten >>
  /\ UNCHANGED << request, peer, writes, answers, packageVars, io, resume,
                  processed >>

(* handleRead with the bytes a waiting read has just put into m_buffer.    *)
handleReadArrived ==
  /\ io = "running"
  /\ WaitingReadDone
  /\ \E n \in Available :
       /\ Fill(n)
       /\ processPackage(SubSeq(Refilled(n), 1, n))
  /\ UNCHANGED << request, peer, answers >>

(* handleRead for a read filled when it was started: it copies what        *)
(* m_buffer holds now.                                                     *)
handleReadQueued ==
  /\ io = "running"
  /\ QueuedReadDone
  /\ processPackage(SubSeq(m_buffer, 1, Head(filled)))
  /\ UNCHANGED << request, peer, answers >>

(* handleRead without a byte (or error 89).                                *)
handleReadEmpty ==
  /\ io = "running"
  /\ WaitingReadDone
  /\ peer = "open"
  /\ processRequest(1)
  /\ UNCHANGED << request, peer, received, m_buffer, writes, answers,
                  overwritten, packageVars, io, resume, lost, processed >>

(* handleRead with error 2, end of file.                                   *)
handleReadEof ==
  /\ io = "running"
  /\ WaitingReadDone
  /\ peer \in {"closed", "shut"}
  /\ shutdown(<< >>)
  /\ UNCHANGED << request, peer, received, m_buffer, answers, overwritten,
                  m_packageType, m_contentLength >>

(* handleRead with any other error.                                        *)
handleReadError ==
  /\ io = "running"
  /\ WaitingReadDone
  /\ peer = "broken"
  /\ lost' = lost + 1
  /\ UNCHANGED << request, peer, received, m_buffer, handshakes, writes,
                  answers, overwritten, packageVars, io, resume, processed >>

(* handleWrite: the answer has gone out, or could not.                     *)
handleWrite ==
  /\ io = "running"
  /\ writes # << >>
  /\ writes' = Tail(writes)
  /\ \/ /\ peer \in {"open", "closed"}
        /\ \E answer \in Delivered(Head(writes)) :
             answers' = Append(answers, answer)
     \/ /\ peer # "open"
        /\ UNCHANGED answers
  /\ UNCHANGED << request, peer, received, m_buffer, handshakes, reads, filled,
                  overwritten, packageVars, io, resume, lost, processed >>

(* The client has answered the shutdown: the handler goes on.              *)
ShutdownReturns ==
  /\ io = "blocked"
  /\ peer # "broken"
  /\ peer' = "shut"
  /\ \/ /\ resume # << >>
        /\ FirstPostPart(resume, m_contentLength)
     \/ /\ resume = << >>
        /\ io' = "running"
        /\ lost' = lost + 1
        /\ UNCHANGED << m_packageCounter, m_transferredTotal, m_message,
                        handshakes, writes, resume, processed >>
  /\ UNCHANGED << request, received, m_buffer, reads, filled, answers,
                  overwritten, m_packageType, m_contentLength >>

(* shutdown() throws, out of the handler and out of io_service::run.       *)
ShutdownThrows ==
  /\ io = "blocked"
  /\ io' = "ended"
  /\ UNCHANGED << streamVars, packageVars, resume, lost, processed >>

-----------------------------------------------------------------------------
Init ==
  /\ StreamInit
  /\ m_packageCounter = 0
  /\ m_packageType = "UNKNOWN"
  /\ m_contentLength = 0
  /\ m_transferredTotal = 0
  /\ m_message = << >>
  /\ io = "running"
  /\ resume = << >>
  /\ lost = 0
  /\ processed = << >>

ClientLeaves ==
  /\ io # "ended"
  /\ PeerLeaves
  /\ UNCHANGED << packageVars, io, resume, lost, processed >>

Next ==
  \/ handle_handshake
  \/ handleReadArrived
  \/ handleReadQueued
  \/ handleReadEmpty
  \/ handleReadEof
  \/ handleReadError
  \/ handleWrite
  \/ ShutdownReturns
  \/ ShutdownThrows
  \/ ClientLeaves

Spec == Init /\ [][Next]_vars

(***************************************************************************)
(* The io_service runs every handler that is ready, and a client that      *)
(* stays connected has what it sent delivered to a read that keeps being   *)
(* started (reads may come back empty in between).  Nothing obliges the    *)
(* client to leave or to answer a shutdown.                                *)
(***************************************************************************)
Fairness ==
  /\ WF_vars(handle_handshake)
  /\ WF_vars(handleReadQueued)
  /\ WF_vars(handleWrite)
  /\ SF_vars(handleReadArrived)

FairSpec == Spec /\ Fairness

-----------------------------------------------------------------------------
(***************************************************************************)
(* Properties.                                                             *)
(***************************************************************************)
PackageTypes == {"GET", "POST", "OPTIONS", "UNKNOWN"}

(* Type invariant of the connection and its stream. *)
TypeOK ==
  /\ StreamTypeOK
  /\ m_packageCounter \in {0, 1}
  /\ m_packageType \in PackageTypes
  /\ m_contentLength \in 0..SizeModulus - 1
  /\ m_transferredTotal \in 0..SizeModulus - 1
  /\ m_message \in Seq(Nat)
  /\ io \in {"running", "blocked", "ended"}
  /\ resume \in Seq(Nat)
  /\ lost \in Nat
  /\ processed \in Seq(Seq(Nat))

(* The number of handler chains a connection of each kind ever has.        *)
Chains ==
  IF m_packageCounter = 1 THEN 2
  ELSE IF m_packageType \in {"GET", "OPTIONS"} THEN 0 ELSE 1

InShutdown == IF io = "blocked" THEN 1 ELSE 0
Accounted == Readers + Len(processed) + lost + InShutdown

(* No chain of handlers is lost or multiplied: while the thread runs, each *)
(* chain is waiting in a handshake or a read, is in a shutdown, has given  *)
(* its machine to the callback, or has ended by an error or a close.  So   *)
(* a connection never has more than two reads under way, never processes   *)
(* its request more than twice, and never just falls silent.               *)
ReaderLedger ==
  /\ Accounted <= 2
  /\ io # "ended" => Accounted = Chains

(* The counter the end of the body is detected with counts the bytes that  *)
(* are in m_message, whatever the header arithmetic wrapped around.        *)
TransferredMatchesMessage == m_transferredTotal = Len(m_message)

(* As long as no read has overwritten the buffer of a queued handler,      *)
(* m_message holds consecutive bytes of the stream, from the first byte    *)
(* of the body, or from the fourth byte of the stream when the first read  *)
(* cut the header.                                                         *)
Consecutive(message) ==
  \A i \in DOMAIN message : message[i] = message[1] + i - 1

BodyInOrder ==
  (~ overwritten /\ m_message # << >>) =>
    /\ Consecutive(m_message)
    /\ m_message[1] \in {4, request.header + 1}

(* What the callback is given is the start of the message, is at most the  *)
(* two bytes of tolerance short of Content-Length, and a second call gets  *)
(* strictly more than the first: the same bytes are never drawn twice.     *)
ProcessedGrows ==
  /\ \A i \in DOMAIN processed :
       /\ Len(processed[i]) + 2 >= m_contentLength
       /\ processed[i] = SubSeq(m_message, 1, Len(processed[i]))
  /\ \A i, j \in DOMAIN processed :
       i < j => Len(processed[i]) < Len(processed[j])

(* Every machine the client receives is one the callback was given, no     *)
(* request gets more answers than it was processed (GET and OPTIONS: one), *)
(* and an answer arrives garbled only when two answers were written.       *)
AnswersMatch ==
  /\ Len(answers) + Len(writes) <=
       IF m_packageType \in {"GET", "OPTIONS"} THEN 1 ELSE Len(processed)
  /\ \A i \in DOMAIN answers :
       CASE answers[i].kind = "machine" ->
              \E j \in DOMAIN processed : processed[j] = answers[i].machine
         [] answers[i].kind = "garbled" -> Len(processed) = 2
         [] OTHER -> m_packageType \in {"GET", "OPTIONS"}

(* No step takes back a byte of the message or changes the type or the     *)
(* length of a request once its first package has been processed.          *)
FirstPackageIsFinal ==
  [][ /\ SubSeq(m_message', 1, Len(m_message)) = m_message
      /\ m_packageCounter # 0 =>
           UNCHANGED << m_packageCounter, m_packageType, m_contentLength >> ]_vars

(* A client that stays connected and announces no more bytes than it sends *)
(* is answered, unless a handler waits in a shutdown or threw: neither of  *)
(* the two concurrent reads can starve the request.                        *)
RequestIsServed ==
  <>( \/ answers # << >>
      \/ peer # "open" \/ io # "running"
      \/ m_contentLength > request.body + 2 )

(***************************************************************************)
(* What comments of the code say and the code does not do.                 *)
(***************************************************************************)
(* handleRead "copies the read bytes into a string which will be passed to *)
(* other methods" (TcpConnection.cpp:73-74): a message is made of the      *)
(* bytes its reads returned, in order.                                     *)
ReadBytesReachHandler == Consecutive(m_message)

(* "Check if message ends on \r\n, if so we got everything" (:279): a     *)
(* message whose header was read whole is processed only when all of       *)
(* Content-Length has arrived.                                             *)
WholeBodyBeforeProcessing ==
  (m_message # << >> /\ m_message[1] = request.header + 1) =>
    \A i \in DOMAIN processed : Len(processed[i]) >= m_contentLength

(* extractHeaderAndBody: "If the body was send, partially or complete, it  *)
(* will be stored in m_message" (:172-174): m_message holds body bytes.    *)
StoredBytesAreBody ==
  \A i \in DOMAIN m_message : m_message[i] > request.header
==============================================================================
