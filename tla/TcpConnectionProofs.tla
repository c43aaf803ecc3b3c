------------------------- MODULE TcpConnectionProofs -------------------------
(***************************************************************************)
(* TcpConnection for every set of requests, buffer size and size of        *)
(* size_t: first its counts, then its data, then that it implements        *)
(* AbstractConnection.                                                     *)
(*                                                                         *)
(* The counts are the type invariant, the ledger of handler chains and the *)
(* number of stored bytes.  None of the three is inductive alone, so they  *)
(* are proved together with three facts that tie the stream to the package. *)
(***************************************************************************)
EXTENDS TcpConnectionRefinement, SequenceTheorems, TLAPS

(* Bytes in m_buffer whose handler is queued; there are at most two reads. *)
Queued ==
  IF Len(filled) = 0 THEN 0
  ELSE IF Len(filled) = 1 THEN filled[1] ELSE filled[1] + filled[2]

(* No byte is stored that was not received: the size_t counts cannot wrap. *)
StoredWereReceived == Len(m_message) + Queued <= received

(* Until its first package is done a connection has stored nothing.        *)
NothingBeforeFirstPackage ==
  (m_packageCounter = 0 /\ io # "ended") =>
    /\ m_message = << >>
    /\ m_transferredTotal = 0
    /\ processed = << >>

(* Only the first package of a POST request goes on after a shutdown.      *)
ResumedIsFirstPackage ==
  /\ io = "running" => resume = << >>
  /\ (io = "blocked" /\ resume # << >>) =>
       /\ m_packageCounter = 0
       /\ m_packageType = "POST"
       /\ request.verb = "POST"
       /\ 4 <= Len(resume)
       /\ Len(resume) <= received
       /\ filled = << >>

IInv ==
  /\ TypeOK
  /\ ReaderLedger
  /\ TransferredMatchesMessage
  /\ StoredWereReceived
  /\ NothingBeforeFirstPackage
  /\ ResumedIsFirstPackage

-----------------------------------------------------------------------------
(***************************************************************************)
(* The operators the handlers are built from.                              *)
(***************************************************************************)
WriteType == [answer : AnswerType, intact : BOOLEAN]

(* Starting an answer keeps the pending answers well-formed.               *)
LEMMA AsyncWriteType ==
  ASSUME writes \in Seq(WriteType), NEW answer \in AnswerType, AsyncWrite(answer)
  PROVE  writes' \in Seq(WriteType)
<1> DEFINE old == [i \in DOMAIN writes |-> [writes[i] EXCEPT !.intact = FALSE]]
           new == [answer |-> answer, intact |-> writes = << >>]
<1>1. old \in Seq(WriteType)
  <2>1. /\ Len(writes) \in Nat
        /\ DOMAIN writes = 1..Len(writes)
        /\ \A i \in 1..Len(writes) : writes[i] \in WriteType
    BY LenProperties, ElementOfSeq
  <2>2. old \in [1..Len(writes) -> WriteType]
    BY <2>1 DEF WriteType
  <2> QED BY <2>1, <2>2, SeqDef
<1>2. new \in WriteType
  BY DEF WriteType
<1>3. writes' = Append(old, new)
  BY DEF AsyncWrite
<1> HIDE DEF old, new
<1> QED BY <1>1, <1>2, <1>3

(* processMessage answers and starts k reads, or ends the thread.          *)
LEMMA ProcessMessageStep ==
  ASSUME TypeOK, NEW machine \in Seq(Nat), NEW k \in Nat, processMessage(machine, k)
  PROVE  /\ processed' \in Seq(Seq(Nat))
         /\ Len(processed') = Len(processed) + 1
         /\ handshakes' \in Nat
         /\ writes' \in Seq(WriteType)
         /\ \/ io' = "running" /\ handshakes' = handshakes + k
            \/ io' = "ended" /\ handshakes' = handshakes
<1>1. /\ writes \in Seq(WriteType)
      /\ handshakes \in Nat
      /\ processed \in Seq(Seq(Nat))
  BY DEF TypeOK, StreamTypeOK, WriteType
<1>2. processed' = Append(processed, machine)
  BY DEF processMessage
<1>3. Answer("machine", machine) \in AnswerType
  BY DEF Answer, AnswerType
<1>4. CASE AsyncWrite(Answer("machine", machine)) /\ processRequest(k) /\ io' = "running"
  <2>1. writes' \in Seq(WriteType)
    BY <1>1, <1>3, <1>4, AsyncWriteType
  <2> QED BY <1>1, <1>2, <1>4, <2>1 DEF processRequest
<1>5. CASE io' = "ended" /\ UNCHANGED << handshakes, writes >>
  BY <1>1, <1>2, <1>5
<1> QED BY <1>4, <1>5 DEF processMessage

(* The shared tail processes the message or starts one read more than its  *)
(* caller: either way a chain that stored a part is accounted for.         *)
LEMMA PartStoredStep ==
  ASSUME TypeOK, NEW message \in Seq(Nat), NEW total, NEW length, NEW k \in Nat,
         PartStored(message, total, length, k)
  PROVE  /\ m_message' = message
         /\ m_transferredTotal' = total
         /\ processed' \in Seq(Seq(Nat))
         /\ handshakes' \in Nat
         /\ writes' \in Seq(WriteType)
         /\ \/ /\ io' = "running"
               /\ handshakes' + Len(processed') = handshakes + Len(processed) + k + 1
            \/ /\ io' = "ended"
               /\ handshakes' + Len(processed') = handshakes + Len(processed) + 1
<1>1. /\ writes \in Seq(WriteType)
      /\ handshakes \in Nat
      /\ processed \in Seq(Seq(Nat))
      /\ Len(processed) \in Nat
  BY DEF TypeOK, StreamTypeOK, WriteType
<1>2. m_message' = message /\ m_transferredTotal' = total
  BY DEF PartStored
<1>3. CASE processMessage(message, k)
  <2>1. /\ processed' \in Seq(Seq(Nat))
        /\ Len(processed') = Len(processed) + 1
        /\ handshakes' \in Nat
        /\ writes' \in Seq(WriteType)
        /\ \/ io' = "running" /\ handshakes' = handshakes + k
           \/ io' = "ended" /\ handshakes' = handshakes
    BY <1>3, ProcessMessageStep
  <2>2. CASE io' = "running" /\ handshakes' = handshakes + k
    <3>1. handshakes' + Len(processed') = handshakes + Len(processed) + k + 1
      BY <1>1, <2>1, <2>2
    <3> QED BY <1>2, <2>1, <2>2, <3>1
  <2>3. CASE io' = "ended" /\ handshakes' = handshakes
    <3>1. handshakes' + Len(processed') = handshakes + Len(processed) + 1
      BY <1>1, <2>1, <2>3
    <3> QED BY <1>2, <2>1, <2>3, <3>1
  <2> QED BY <2>1, <2>2, <2>3
<1>4. CASE NextRead(k + 1)
  BY <1>1, <1>2, <1>4 DEF NextRead, processRequest
<1> QED BY <1>3, <1>4 DEF PartStored

(* What the assumptions say of the request of a connection.                *)
LEMMA RequestBounds ==
  ASSUME request \in Requests
  PROVE  /\ request \in RequestType
         /\ request.header \in Nat
         /\ request.header >= VerbLength[request.verb] + 4
         /\ Total \in Nat
         /\ Total + 2 < SizeModulus
         /\ SizeModulus \in Nat
         /\ request.header <= Total
<1>1. request \in RequestType
  BY StreamAssumption
<1>2. request.header \in Nat /\ request.body \in Nat
  BY <1>1 DEF RequestType
<1>3. request.header + request.body + 2 < SizeModulus /\ SizeModulus \in Nat
  BY ConnectionAssumption
<1>4. request.header >= VerbLength[request.verb] + 4
  BY StreamAssumption
<1> QED BY <1>1, <1>2, <1>3, <1>4 DEF Total

(* The bytes a read hands over fit the stream and the buffer.              *)
LEMMA FillStep ==
  ASSUME TypeOK, NEW n \in Available, Fill(n), request' = request
  PROVE  /\ n \in 1..BufferSize
         /\ received' = received + n
         /\ received' \in 0..Total'
         /\ m_buffer' = Refilled(n)
         /\ Refilled(n) \in [1..BufferSize -> Nat]
         /\ overwritten' \in BOOLEAN
<1> USE DEF TypeOK, StreamTypeOK
<1>0. Total \in Nat /\ BufferSize \in Nat
  BY RequestBounds, StreamAssumption
<1>1. /\ received \in 0..Total
      /\ m_buffer \in [1..BufferSize -> Nat]
      /\ overwritten \in BOOLEAN
  OBVIOUS
<1>2. n \in 1..BufferSize /\ received + n <= Total
  BY <1>0, <1>1 DEF Available
<1>3. Total' = Total
  BY DEF Total
<1>4. Refilled(n) \in [1..BufferSize -> Nat]
  BY <1>0, <1>1, <1>2 DEF Refilled
<1>5. overwritten' \in BOOLEAN
  BY <1>1, ZenonT(20) DEF Fill
<1>6. received' = received + n /\ m_buffer' = Refilled(n)
  BY DEF Fill
<1>7. received' \in 0..Total'
  BY <1>0, <1>1, <1>2, <1>3, <1>6
<1> HIDE DEF TypeOK, StreamTypeOK
<1> QED BY <1>2, <1>4, <1>5, <1>6, <1>7

-----------------------------------------------------------------------------
(***************************************************************************)
(* The packages.                                                           *)
(***************************************************************************)
(* The first POST package, right after its read or after a shutdown: the   *)
(* header arithmetic, wrapped or not, counts what is stored, and what is   *)
(* stored is shorter than what was read.                                   *)
LEMMA FirstPostPartStep ==
  ASSUME TypeOK, NEW buf \in Seq(Nat), NEW length,
         request.verb = "POST", 4 <= Len(buf), Len(buf) <= Total,
         m_message = << >>, m_transferredTotal = 0, m_packageCounter = 0,
         FirstPostPart(buf, length)
  PROVE  /\ m_message' \in Seq(Nat)
         /\ Len(m_message') <= Len(buf)
         /\ m_transferredTotal' = Len(m_message')
         /\ processed' \in Seq(Seq(Nat))
         /\ handshakes' \in Nat
         /\ writes' \in Seq(WriteType)
         /\ resume' = << >>
         /\ lost' = lost
         /\ \/ /\ io' = "running"
               /\ m_packageCounter' = 1
               /\ handshakes' + Len(processed') = handshakes + Len(processed) + 2
            \/ /\ io' = "ended"
               /\ m_packageCounter' = 0
               /\ handshakes' + Len(processed') = handshakes + Len(processed) + 1
<1> DEFINE headerSize == FindBlankLine(buf)
           message == splitHeaderAndBody(buf, headerSize)
           total == Plus(m_transferredTotal, Minus(Minus(Len(buf), headerSize), 4))
<1>1. /\ writes \in Seq(WriteType)
      /\ handshakes \in Nat
      /\ processed \in Seq(Seq(Nat))
      /\ Len(processed) \in Nat
      /\ Len(buf) \in Nat
  BY DEF TypeOK, StreamTypeOK, WriteType
<1>2. /\ request.header \in Nat
      /\ request.header >= 8
      /\ request.header <= Total
      /\ Total \in Nat
      /\ Total + 2 < SizeModulus
      /\ SizeModulus \in Nat
  BY RequestBounds DEF TypeOK, StreamTypeOK, VerbLength
<1>3. /\ extractHeaderAndBody(buf, length, 1)
      /\ resume' = << >>
      /\ lost' = lost
      /\ m_packageCounter' = IF io' = "running" THEN 1 ELSE 0
  BY DEF FirstPostPart
<1>4. CASE Minus(Len(buf), 4) = headerSize
  <2>1. NextRead(2) /\ m_message' = << >> /\ m_transferredTotal' = 0
    BY <1>3, <1>4 DEF extractHeaderAndBody
  <2> QED BY <1>1, <1>3, <2>1 DEF NextRead, processRequest
<1>5. CASE Minus(Len(buf), 4) # headerSize
  <2>1. PartStored(message, total, length, 1)
    BY <1>3, <1>5 DEF extractHeaderAndBody
  <2>2. message = SubSeq(buf, Plus(headerSize, 4) + 1, Len(buf))
    BY DEF splitHeaderAndBody
  <2>3. \/ Plus(headerSize, 4) = request.header /\ request.header <= Len(buf)
           /\ total = Len(buf) - request.header
        \/ Plus(headerSize, 4) = 3 /\ total = Len(buf) - 3
    <3>1. CASE Len(buf) >= request.header
      <4>1. headerSize = request.header - 4
        BY <3>1 DEF FindBlankLine
      <4>2. Plus(headerSize, 4) = request.header
        BY <1>2, <4>1 DEF Plus
      <4>3. Minus(Minus(Len(buf), headerSize), 4) = Len(buf) - request.header
        <5>1. Minus(Len(buf), headerSize) = Len(buf) - request.header + 4
          BY <1>1, <1>2, <3>1, <4>1 DEF Minus
        <5>2. Minus(Len(buf) - request.header + 4, 4) = Len(buf) - request.header
          BY <1>1, <1>2, <3>1 DEF Minus
        <5> QED BY <5>1, <5>2
      <4>4. total = Len(buf) - request.header
        BY <1>1, <1>2, <3>1, <4>3 DEF Plus
      <4> QED BY <3>1, <4>2, <4>4, <1>1, <1>2
    <3>2. CASE ~ (Len(buf) >= request.header)
      <4>1. headerSize = SizeModulus - 1
        BY <3>2 DEF FindBlankLine, npos
      <4>2. Plus(headerSize, 4) = 3
        BY <1>2, <4>1 DEF Plus
      <4>3. Minus(Minus(Len(buf), headerSize), 4) = Len(buf) - 3
        BY <1>1, <1>2, <4>1 DEF Minus
      <4>4. total = Len(buf) - 3
        BY <1>1, <1>2, <4>3 DEF Plus
      <4> QED BY <4>2, <4>4
    <3> QED BY <3>1, <3>2
  <2>4. PICK skip \in 0..Len(buf) :
          /\ total = Len(buf) - skip
          /\ message = SubSeq(buf, skip + 1, Len(buf))
    <3>1. CASE /\ Plus(headerSize, 4) = request.header
               /\ request.header <= Len(buf)
               /\ total = Len(buf) - request.header
      <4>1. request.header \in 0..Len(buf)
        BY <1>1, <1>2, <3>1
      <4> QED BY <2>2, <3>1, <4>1
    <3>2. CASE Plus(headerSize, 4) = 3 /\ total = Len(buf) - 3
      <4>1. 3 \in 0..Len(buf)
        BY <1>1
      <4> QED BY <2>2, <3>2, <4>1
    <3> QED BY <2>3, <3>1, <3>2
  <2> HIDE DEF message, total, headerSize
  <2>5. message \in Seq(Nat) /\ Len(message) = total /\ total <= Len(buf)
    <3>1. \A i \in skip + 1..Len(buf) : buf[i] \in Nat
      BY <1>1, ElementOfSeq
    <3> QED BY <1>1, <2>4, <3>1, SubSeqProperties
  <2> HIDE DEF message, total
  <2>6. /\ m_message' = message
        /\ m_transferredTotal' = total
        /\ processed' \in Seq(Seq(Nat))
        /\ handshakes' \in Nat
        /\ writes' \in Seq(WriteType)
        /\ \/ /\ io' = "running"
              /\ handshakes' + Len(processed') = handshakes + Len(processed) + 2
           \/ /\ io' = "ended"
              /\ handshakes' + Len(processed') = handshakes + Len(processed) + 1
    <3>1. /\ m_message' = message
          /\ m_transferredTotal' = total
          /\ processed' \in Seq(Seq(Nat))
          /\ handshakes' \in Nat
          /\ writes' \in Seq(WriteType)
          /\ \/ /\ io' = "running"
                /\ handshakes' + Len(processed') = handshakes + Len(processed) + 1 + 1
             \/ /\ io' = "ended"
                /\ handshakes' + Len(processed') = handshakes + Len(processed) + 1
      BY <2>1, <2>5, PartStoredStep
    <3> QED BY <1>1, <3>1
  <2> QED BY <1>3, <2>5, <2>6
<1> QED BY <1>4, <1>5

(* The ledger's sum, and how it moves: by d where a chain is processed,    *)
(* starts or ends, by e where a read is done.                              *)
Sum == Readers + Len(processed) + lost

SumNat ==
  /\ handshakes \in Nat /\ reads \in Nat /\ lost \in Nat
  /\ Len(filled) \in Nat /\ Len(processed) \in Nat

LEMMA LedgerStep ==
  ASSUME SumNat, SumNat', NEW d \in Nat, NEW e \in Nat,
         handshakes' + Len(processed') + lost' = handshakes + Len(processed) + lost + d,
         reads' + Len(filled') = reads + Len(filled) - e
  PROVE  Sum' = Sum + d - e /\ Sum \in Nat
<1>1. PICK h \in Nat, r \in Nat, f \in Nat, p \in Nat, l \in Nat :
        h = handshakes' /\ r = reads' /\ f = Len(filled') /\ p = Len(processed')
        /\ l = lost'
  <2>1. /\ handshakes' \in Nat /\ reads' \in Nat /\ lost' \in Nat
        /\ Len(filled') \in Nat /\ Len(processed') \in Nat
    BY DEF SumNat
  <2> QED BY <2>1, Zenon
<1>2. /\ h + p + l = handshakes + Len(processed) + lost + d
      /\ r + f = reads + Len(filled) - e
  BY <1>1, Zenon
<1>3. h + r + f + p + l = Sum + d - e /\ Sum \in Nat
  BY <1>2, SMTT(60) DEF Sum, Readers, SumNat
<1>4. Sum' = h + r + f + p + l
  BY <1>1, Zenon DEF Sum, Readers
<1> QED BY <1>3, <1>4, Zenon

(* The part of the invariant a handler of a package can disturb.           *)
PackageTypeOK ==
  /\ m_packageCounter \in {0, 1}
  /\ m_packageType \in PackageTypes
  /\ m_contentLength \in 0..SizeModulus - 1
  /\ m_transferredTotal \in 0..SizeModulus - 1
  /\ m_message \in Seq(Nat)
  /\ io \in {"running", "blocked", "ended"}
  /\ resume \in Seq(Nat)
  /\ lost \in Nat
  /\ processed \in Seq(Seq(Nat))
  /\ handshakes \in Nat
  /\ writes \in Seq(WriteType)

PackageInv ==
  /\ PackageTypeOK
  /\ ReaderLedger
  /\ TransferredMatchesMessage
  /\ StoredWereReceived
  /\ NothingBeforeFirstPackage
  /\ ResumedIsFirstPackage

(* Content-Length fits size_t, negative or not.                            *)
LEMMA LengthInRange ==
  ASSUME request \in Requests, NEW buf, NEW n \in extractContentLength(buf),
         n # NoNumber, n # Missing
  PROVE  ToSize(n) \in 0..SizeModulus - 1
<1>1. n \in StrayLengths \cup ({r.length : r \in Requests} \cap Int)
  <2>1. request.length \in Int \cup {NoNumber, Missing}
    BY RequestBounds DEF RequestType
  <2>2. n \in StrayLengths \/ n = request.length
    BY DEF extractContentLength
  <2> QED BY <2>1, <2>2
<1>2. n \in Int /\ -SizeModulus < n /\ n < SizeModulus /\ SizeModulus \in Nat
  BY <1>1, ConnectionAssumption
<1> QED BY <1>2 DEF ToSize

(* What a read handler hands to processPackage: one chain is no longer in  *)
(* a read, and its bytes are among those received.                         *)
ReadHandedOver(buf) ==
  /\ request' = request
  /\ received' \in 0..Total
  /\ reads' \in Nat
  /\ filled' \in Seq(1..BufferSize)
  /\ reads' + Len(filled') = reads + Len(filled) - 1
  /\ Queued' \in Nat
  /\ Len(buf) >= 1
  /\ Len(m_message) + Len(buf) + Queued' <= received'

(* The facts about the state before, in the form the cases need.           *)
LEMMA BeforePackage ==
  ASSUME IInv, io = "running", NEW buf \in Seq(Nat), ReadHandedOver(buf)
  PROVE  /\ PackageTypeOK
         /\ Len(processed) \in Nat /\ Len(filled) \in Nat /\ Len(filled') \in Nat
         /\ Len(m_message) \in Nat /\ Len(buf) \in Nat /\ reads \in Nat
         /\ m_transferredTotal = Len(m_message)
         /\ resume = << >>
         /\ Total \in Nat /\ SizeModulus \in Nat /\ Total + 2 < SizeModulus
         /\ Len(buf) <= Total /\ Len(buf) <= received'
         /\ Len(m_message) + Queued' <= received'
         /\ SumNat /\ Sum = Chains
         /\ m_packageCounter = 0 =>
              /\ m_message = << >> /\ m_transferredTotal = 0 /\ processed = << >>
              /\ Chains = 1 /\ handshakes = 0 /\ lost = 0
              /\ reads' = 0 /\ filled' = << >>
<1> USE DEF ReadHandedOver
<1>1. /\ PackageTypeOK
      /\ request \in Requests
      /\ reads \in Nat
      /\ filled \in Seq(1..BufferSize)
  BY DEF IInv, TypeOK, StreamTypeOK, PackageTypeOK, WriteType
<1>2. /\ Len(processed) \in Nat /\ Len(filled) \in Nat /\ Len(filled') \in Nat
      /\ Len(m_message) \in Nat /\ Len(buf) \in Nat
  BY <1>1, LenProperties DEF PackageTypeOK
<1>3. Total \in Nat /\ SizeModulus \in Nat /\ Total + 2 < SizeModulus
  BY <1>1, RequestBounds
<1>4. /\ Len(buf) <= Total /\ Len(buf) <= received'
      /\ Len(m_message) + Queued' <= received'
  <2>1. PICK q \in Nat, c \in 0..Total : q = Queued' /\ c = received'
    <3>1. Queued' \in Nat /\ received' \in 0..Total
      OBVIOUS
    <3> QED BY <3>1, Zenon
  <2>2. Len(m_message) + Len(buf) + q <= c
    BY <2>1, Zenon
  <2>3. Len(buf) <= Total /\ Len(buf) <= c /\ Len(m_message) + q <= c
    BY <1>2, <1>3, <2>2
  <2> QED BY <2>1, <2>3, Zenon
<1>5. m_transferredTotal = Len(m_message) /\ resume = << >>
  BY DEF IInv, TransferredMatchesMessage, ResumedIsFirstPackage
<1>6. SumNat /\ Sum = Chains
  <2>1. SumNat
    BY <1>1, <1>2 DEF PackageTypeOK, SumNat
  <2>2. Sum + 0 = Chains
    BY DEF IInv, ReaderLedger, Accounted, InShutdown, Sum
  <2> QED BY <2>1, <2>2 DEF Sum, Readers, SumNat
<1>7. ASSUME m_packageCounter = 0
      PROVE  /\ m_message = << >> /\ m_transferredTotal = 0 /\ processed = << >>
             /\ Chains = 1 /\ handshakes = 0 /\ lost = 0
             /\ reads' = 0 /\ filled' = << >>
  <2>1. m_message = << >> /\ m_transferredTotal = 0 /\ processed = << >>
    BY <1>7 DEF IInv, NothingBeforeFirstPackage
  <2>2. Chains \in {0, 1}
    BY <1>7 DEF Chains
  <2>3. Chains = 1 /\ handshakes = 0 /\ lost = 0 /\ reads' = 0 /\ Len(filled') = 0
    <3>1. handshakes \in Nat /\ lost \in Nat /\ reads' \in Nat
      BY <1>1 DEF PackageTypeOK
    <3>2. reads' + Len(filled') = reads + Len(filled) - 1
      OBVIOUS
    <3>3. handshakes + reads + Len(filled) + Len(processed) + lost = Chains
      BY <1>6 DEF Sum, Readers
    <3> HIDE DEF ReadHandedOver
    <3> QED BY <1>1, <1>2, <2>2, <3>1, <3>2, <3>3
  <2>4. filled' = << >>
    BY <2>3, EmptySeq
  <2> QED BY <2>1, <2>3, <2>4
<1> QED BY <1>1, <1>2, <1>3, <1>4, <1>5, <1>6, <1>7

(* A later package is appended and counted.                                *)
LEMMA HandlePostRequestStep ==
  ASSUME IInv, io = "running", NEW buf \in Seq(Nat), ReadHandedOver(buf),
         m_packageCounter # 0, handlePostRequest(buf)
  PROVE  PackageInv'
<1> DEFINE message == m_message \o buf
           total == Plus(m_transferredTotal, Len(buf))
<1>1. PackageTypeOK /\ m_packageCounter = 1
  BY BeforePackage DEF PackageTypeOK
<1>2. /\ Len(processed) \in Nat /\ Len(filled) \in Nat /\ Len(filled') \in Nat
      /\ Len(m_message) \in Nat /\ Len(buf) \in Nat /\ reads \in Nat
      /\ m_transferredTotal = Len(m_message)
      /\ resume = << >>
      /\ Total \in Nat /\ SizeModulus \in Nat /\ Total + 2 < SizeModulus
      /\ SumNat /\ Sum = 2
  BY <1>1, BeforePackage DEF Chains
<1>3. /\ received' \in 0..Total /\ reads' \in Nat /\ Queued' \in Nat
      /\ reads' + Len(filled') = reads + Len(filled) - 1
      /\ Len(m_message) + Len(buf) + Queued' <= received'
  BY DEF ReadHandedOver
<1>4. message \in Seq(Nat) /\ Len(message) = Len(m_message) + Len(buf)
  BY <1>1, ConcatProperties DEF PackageTypeOK
<1>5. total = Len(message) /\ total \in 0..SizeModulus - 1
  <2>1. Len(m_message) + Len(buf) < SizeModulus
    BY <1>2, <1>3
  <2>2. Plus(Len(m_message), Len(buf)) = Len(m_message) + Len(buf)
    BY <1>2, <2>1 DEF Plus
  <2>3. total = Len(m_message) + Len(buf)
    BY <1>2, <2>2
  <2> HIDE DEF message, total
  <2> QED BY <1>2, <1>4, <2>1, <2>3
<1>6. /\ PartStored(message, total, m_contentLength, 0)
      /\ UNCHANGED << m_packageCounter, m_packageType, m_contentLength, resume, lost >>
  BY DEF handlePostRequest
<1> HIDE DEF message, total
<1>7. TypeOK
  BY DEF IInv
<1>8. /\ m_message' = message
      /\ m_transferredTotal' = total
      /\ processed' \in Seq(Seq(Nat))
      /\ handshakes' \in Nat
      /\ writes' \in Seq(WriteType)
      /\ \/ /\ io' = "running"
            /\ handshakes' + Len(processed') = handshakes + Len(processed) + 0 + 1
         \/ /\ io' = "ended"
            /\ handshakes' + Len(processed') = handshakes + Len(processed) + 1
  BY <1>4, <1>6, <1>7, PartStoredStep
<1>9. PackageTypeOK'
  BY <1>1, <1>4, <1>5, <1>6, <1>8 DEF PackageTypeOK
<1>10. Chains' = 2 /\ InShutdown' = 0
  BY <1>1, <1>6, <1>8 DEF Chains, InShutdown
<1>11. ReaderLedger'
  <2>1. SumNat'
    BY <1>2, <1>3, <1>9, LenProperties DEF PackageTypeOK, SumNat
  <2>2. handshakes' + Len(processed') + lost' = handshakes + Len(processed) + lost + 1
    BY <1>2, <1>6, <1>8 DEF SumNat
  <2>3. reads' + Len(filled') = reads + Len(filled) - 1
    BY <1>3
  <2>4. Sum' = Sum + 1 - 1
    BY <1>2, <2>1, <2>2, <2>3, LedgerStep
  <2>5. Accounted' = 2
    BY <1>2, <1>10, <2>4 DEF Accounted, Sum
  <2> QED BY <1>10, <2>5 DEF ReaderLedger
<1>12. TransferredMatchesMessage' /\ StoredWereReceived'
  BY <1>3, <1>4, <1>5, <1>8 DEF TransferredMatchesMessage, StoredWereReceived
<1>13. NothingBeforeFirstPackage' /\ ResumedIsFirstPackage'
  BY <1>1, <1>2, <1>6, <1>8 DEF NothingBeforeFirstPackage, ResumedIsFirstPackage
<1> QED BY <1>9, <1>11, <1>12, <1>13 DEF PackageInv

(* A first package that stores nothing: GET, OPTIONS, an invalid verb, a   *)
(* length that is no number, or 0.                                         *)
LEMMA NothingStoredStep ==
  ASSUME IInv, io = "running", NEW buf \in Seq(Nat), ReadHandedOver(buf),
         m_packageCounter = 0,
         UNCHANGED << m_packageCounter, m_transferredTotal, m_message, handshakes,
                      processed >>,
         m_packageType' \in PackageTypes,
         m_contentLength' \in 0..SizeModulus - 1,
         writes' \in Seq(WriteType),
         \/ /\ io' = "running" /\ resume' = << >> /\ lost' = lost
            /\ m_packageType' \in {"GET", "OPTIONS"}
         \/ /\ io' = "ended" /\ resume' = << >> /\ lost' = lost + 1
         \/ /\ io' = "blocked" /\ lost' = lost
            /\ m_packageType' \notin {"GET", "OPTIONS"}
            /\ \/ resume' = << >>
               \/ /\ resume' = buf /\ 4 <= Len(buf)
                  /\ m_packageType' = "POST" /\ request.verb = "POST"
  PROVE  PackageInv'
<1>1. /\ PackageTypeOK /\ SumNat /\ Sum = 1 /\ m_transferredTotal = Len(m_message)
      /\ Len(filled') \in Nat /\ filled' = << >>
      /\ m_message = << >> /\ m_transferredTotal = 0 /\ processed = << >>
      /\ Len(buf) \in Nat /\ Len(m_message) \in Nat
  BY BeforePackage
<1>2. /\ received' \in 0..Total /\ reads' \in Nat /\ Queued' \in Nat
      /\ reads' + Len(filled') = reads + Len(filled) - 1
      /\ Len(m_message) + Len(buf) + Queued' <= received'
      /\ request' = request
  BY DEF ReadHandedOver
<1>3. PackageTypeOK'
  <2>1. /\ m_packageCounter' \in {0, 1} /\ m_message' \in Seq(Nat)
        /\ m_transferredTotal' \in 0..SizeModulus - 1
        /\ processed' \in Seq(Seq(Nat)) /\ handshakes' \in Nat
    BY <1>1 DEF PackageTypeOK
  <2>2. io' \in {"running", "blocked", "ended"}
    OBVIOUS
  <2>3. resume' \in Seq(Nat)
    BY EmptySeq
  <2>4. lost' \in Nat
    BY <1>1 DEF SumNat
  <2> QED BY <2>1, <2>2, <2>3, <2>4 DEF PackageTypeOK
<1>4. SumNat'
  BY <1>1, <1>2, <1>3, LenProperties DEF PackageTypeOK, SumNat
<1>5. ReaderLedger'
  <2>1. CASE lost' = lost
    <3>1. handshakes' + Len(processed') + lost' = handshakes + Len(processed) + lost + 0
      BY <1>1, <2>1 DEF SumNat
    <3>2. Sum' = Sum + 0 - 1
      BY <1>1, <1>2, <1>4, <3>1, LedgerStep
    <3>3. Sum' = 0
      BY <1>1, <3>2
    <3> QED BY <2>1, <3>3, <1>1 DEF ReaderLedger, Accounted, Sum, InShutdown, Chains, SumNat
  <2>2. CASE io' = "ended" /\ lost' = lost + 1
    <3>1. handshakes' + Len(processed') + lost' = handshakes + Len(processed) + lost + 1
      BY <1>1, <2>2 DEF SumNat
    <3>2. Sum' = Sum + 1 - 1
      BY <1>1, <1>2, <1>4, <3>1, LedgerStep
    <3> QED BY <1>1, <2>2, <3>2 DEF ReaderLedger, Accounted, Sum, InShutdown
  <2> QED BY <2>1, <2>2
<1>6. TransferredMatchesMessage' /\ StoredWereReceived'
  <2>1. m_message' = m_message /\ m_transferredTotal' = m_transferredTotal
    OBVIOUS
  <2>2. Len(m_message) + Queued' <= received'
    BY BeforePackage
  <2> QED BY <1>1, <2>1, <2>2, Zenon DEF TransferredMatchesMessage, StoredWereReceived
<1>7. NothingBeforeFirstPackage'
  BY <1>1 DEF NothingBeforeFirstPackage
<1>8. ResumedIsFirstPackage'
  <2>1. Len(buf) <= received'
    BY BeforePackage
  <2> QED BY <1>1, <1>2, <2>1 DEF ResumedIsFirstPackage
<1> QED BY <1>3, <1>5, <1>6, <1>7, <1>8 DEF PackageInv

(* A first POST part that was the only chain leaves two chains, or ends.   *)
LEMMA FirstPostPartLedger ==
  ASSUME SumNat, SumNat', reads' + Len(filled') = 0,
         handshakes' + Len(processed') + lost' \in {1, 2},
         io' \in {"running", "ended"}, m_packageCounter' \in {0, 1},
         io' = "running" =>
           m_packageCounter' = 1 /\ handshakes' + Len(processed') + lost' = 2
  PROVE  ReaderLedger'
<1>1. PICK h \in Nat, r \in Nat, f \in Nat, p \in Nat, l \in Nat :
        h = handshakes' /\ r = reads' /\ f = Len(filled') /\ p = Len(processed')
        /\ l = lost'
  <2>1. /\ handshakes' \in Nat /\ reads' \in Nat /\ lost' \in Nat
        /\ Len(filled') \in Nat /\ Len(processed') \in Nat
    BY DEF SumNat
  <2> QED BY <2>1, Zenon
<1>2. /\ r + f = 0 /\ h + p + l \in {1, 2}
      /\ io' = "running" => h + p + l = 2
  BY <1>1, Zenon
<1>3. InShutdown' = 0 /\ (io' = "running" => Chains' = 2)
  BY DEF InShutdown, Chains
<1>4. Accounted' = h + r + f + p + l + 0
  BY <1>1, <1>3, Zenon DEF Accounted, Readers
<1>5. h + r + f + p + l + 0 = h + p + l
  BY <1>2
<1>6. Accounted' \in {1, 2} /\ (io' = "running" => Accounted' = 2)
  BY <1>2, <1>4, <1>5, Zenon
<1> QED BY <1>3, <1>6 DEF ReaderLedger

(* A first POST part restores the invariant, whether its read or the end   *)
(* of a shutdown started it.                                               *)
LEMMA FirstPostPartInv ==
  ASSUME TypeOK, PackageTypeOK, NEW buf \in Seq(Nat), NEW length,
         request.verb = "POST", 4 <= Len(buf), Len(buf) <= Total,
         m_message = << >>, m_transferredTotal = 0, m_packageCounter = 0,
         FirstPostPart(buf, length),
         processed = << >>, handshakes = 0, lost = 0,
         reads' = 0, filled' = << >>, received' \in 0..Total, Len(buf) <= received',
         m_contentLength' \in 0..SizeModulus - 1, m_packageType' \in PackageTypes
  PROVE  PackageInv'
<1>1. /\ m_message' \in Seq(Nat)
      /\ Len(m_message') <= Len(buf)
      /\ m_transferredTotal' = Len(m_message')
      /\ processed' \in Seq(Seq(Nat))
      /\ handshakes' \in Nat
      /\ writes' \in Seq(WriteType)
      /\ resume' = << >>
      /\ lost' = 0
  BY FirstPostPartStep
<1>2. \/ /\ io' = "running"
         /\ m_packageCounter' = 1
         /\ handshakes' + Len(processed') = handshakes + Len(processed) + 2
      \/ /\ io' = "ended"
         /\ m_packageCounter' = 0
         /\ handshakes' + Len(processed') = handshakes + Len(processed) + 1
  BY FirstPostPartStep
<1>3. /\ Len(processed') \in Nat /\ Len(m_message') \in Nat /\ Len(buf) \in Nat
      /\ Len(processed) = 0 /\ Len(filled') = 0
  BY <1>1, LenProperties
<1>4. \/ /\ io' = "running" /\ m_packageCounter' = 1
         /\ handshakes' + Len(processed') = 2
      \/ /\ io' = "ended" /\ m_packageCounter' = 0
         /\ handshakes' + Len(processed') = 1
  <2>1. handshakes + Len(processed) + 2 = 2 /\ handshakes + Len(processed) + 1 = 1
    BY <1>3
  <2> QED BY <1>2, <2>1, Zenon
<1>5. PackageTypeOK'
  <2>1. m_transferredTotal' \in 0..SizeModulus - 1
    <3>1. PICK m \in Nat : m = Len(m_message')
      BY <1>3, Zenon
    <3>2. m <= Len(buf)
      BY <1>1, <3>1, Zenon
    <3>3. m \in 0..SizeModulus - 1
      BY <1>3, <3>2, RequestBounds DEF TypeOK, StreamTypeOK
    <3> QED BY <1>1, <3>1, <3>3, Zenon
  <2> QED BY <1>1, <1>4, <2>1, EmptySeq DEF PackageTypeOK
<1>6. ReaderLedger'
  <2>1. SumNat' /\ SumNat
    BY <1>1, <1>3 DEF SumNat, TypeOK, StreamTypeOK
  <2>2. handshakes' + Len(processed') + lost' = handshakes' + Len(processed')
    <3>1. PICK h \in Nat, p \in Nat : h = handshakes' /\ p = Len(processed')
      BY <1>1, <1>3, Zenon
    <3>2. h + p + 0 = h + p
      OBVIOUS
    <3> QED BY <1>1, <3>1, <3>2, Zenon
  <2> QED BY <1>3, <1>4, <2>1, <2>2, FirstPostPartLedger
<1>7. TransferredMatchesMessage'
  BY <1>1 DEF TransferredMatchesMessage
<1>8. StoredWereReceived'
  <2>1. PICK m \in Nat, c \in 0..Total : m = Len(m_message') /\ c = received'
    BY <1>3, Zenon
  <2>2. m <= Len(buf) /\ Len(buf) <= c
    BY <1>1, <2>1, Zenon
  <2>3. m + 0 <= c
    BY <1>3, <2>2, RequestBounds DEF TypeOK, StreamTypeOK
  <2>4. Queued' = 0
    BY <1>3 DEF Queued
  <2> QED BY <2>1, <2>3, <2>4, Zenon DEF StoredWereReceived
<1>9. NothingBeforeFirstPackage' /\ ResumedIsFirstPackage'
  BY <1>1, <1>4 DEF NothingBeforeFirstPackage, ResumedIsFirstPackage
<1> QED BY <1>5, <1>6, <1>7, <1>8, <1>9 DEF PackageInv

(* A first POST package.                                                   *)
LEMMA FirstPostPackageStep ==
  ASSUME IInv, io = "running", NEW buf \in Seq(Nat), ReadHandedOver(buf),
         m_packageCounter = 0, StartsWith(buf, "POST"), FirstPostPackage(buf)
  PROVE  PackageInv'
<1>1. /\ PackageTypeOK /\ TypeOK /\ SumNat /\ Sum = 1
      /\ m_transferredTotal = Len(m_message)
      /\ Len(filled') \in Nat /\ filled' = << >> /\ reads' = 0
      /\ m_message = << >> /\ m_transferredTotal = 0 /\ processed = << >>
      /\ handshakes = 0 /\ lost = 0
      /\ Len(buf) \in Nat /\ Len(m_message) = 0
      /\ Len(buf) <= Total /\ Total \in Nat /\ Total + 2 < SizeModulus
      /\ SizeModulus \in Nat
      /\ resume = << >>
  BY BeforePackage DEF IInv
<1>2. request.verb = "POST" /\ 4 <= Len(buf)
  BY DEF StartsWith, VerbLength
<1>3. m_packageType' = "POST" /\ "POST" \in PackageTypes
  BY DEF FirstPostPackage, PackageTypes
<1>4. request \in Requests
  BY <1>1 DEF TypeOK, StreamTypeOK
<1>5. CASE /\ io' = "ended" /\ lost' = lost + 1
           /\ UNCHANGED << m_contentLength, m_transferredTotal, m_message,
                           m_packageCounter, handshakes, writes, resume, processed >>
  <2>1. m_contentLength' \in 0..SizeModulus - 1 /\ writes' \in Seq(WriteType)
    BY <1>1, <1>5 DEF PackageTypeOK
  <2> QED BY <1>1, <1>3, <1>5, <2>1, NothingStoredStep
<1>6. ASSUME NEW n \in extractContentLength(buf) \ {NoNumber},
             m_contentLength' = ToSize(n),
             IF ToSize(n) = 0 THEN shutdown(buf) ELSE FirstPostPart(buf, ToSize(n))
      PROVE  PackageInv'
  <2>1. m_contentLength' \in 0..SizeModulus - 1
    <3>1. n # Missing
      BY <1>4, StreamAssumption, ConnectionAssumption, RequestBounds
         DEF extractContentLength, RequestType
    <3> QED BY <1>4, <1>6, <3>1, LengthInRange
  <2>2. CASE ToSize(n) = 0
    <3>1. shutdown(buf)
      BY <1>6, <2>2
    <3>2. writes' \in Seq(WriteType) /\ "POST" \notin {"GET", "OPTIONS"}
      BY <1>1, <3>1 DEF PackageTypeOK, shutdown
    <3> QED BY <1>1, <1>2, <1>3, <2>1, <3>1, <3>2, NothingStoredStep DEF shutdown
  <2>3. CASE FirstPostPart(buf, ToSize(n))
    <3>1. received' \in 0..Total /\ Len(buf) <= received'
      BY BeforePackage DEF ReadHandedOver
    <3>2. m_packageType' \in PackageTypes
      BY <1>3
    <3> QED BY <1>1, <1>2, <2>1, <2>3, <3>1, <3>2, FirstPostPartInv
  <2> QED BY <1>6, <2>2, <2>3
<1> QED BY <1>5, <1>6 DEF FirstPostPackage

(* Any package.                                                            *)
LEMMA PackageStep ==
  ASSUME IInv, io = "running", NEW buf \in Seq(Nat), ReadHandedOver(buf),
         processPackage(buf)
  PROVE  PackageInv'
<1>1. CASE m_packageCounter # 0 /\ handlePostRequest(buf)
  BY <1>1, HandlePostRequestStep
<1>2. CASE m_packageCounter = 0 /\ StartsWith(buf, "POST") /\ FirstPostPackage(buf)
  BY <1>2, FirstPostPackageStep
<1>3. ASSUME NEW type \in {"GET", "OPTIONS"}, NEW kind \in {"pong", "options"},
             m_packageCounter = 0, handleAnswered(type, kind)
      PROVE  PackageInv'
  <2>1. PackageTypeOK /\ resume = << >>
    BY <1>3, BeforePackage
  <2>2. Answer(kind, << >>) \in AnswerType
    BY EmptySeq DEF Answer, AnswerType
  <2>3. writes' \in Seq(WriteType)
    BY <1>3, <2>1, <2>2, AsyncWriteType DEF handleAnswered, PackageTypeOK
  <2>4. /\ m_contentLength' \in 0..SizeModulus - 1
        /\ m_packageType' \in {"GET", "OPTIONS"} /\ m_packageType' \in PackageTypes
        /\ io' = "running" /\ resume' = << >> /\ lost' = lost
        /\ UNCHANGED << m_packageCounter, m_transferredTotal, m_message, handshakes,
                        processed >>
    BY <1>3, <2>1 DEF handleAnswered, PackageTypeOK, PackageTypes
  <2> QED BY <1>3, <2>3, <2>4, NothingStoredStep
<1>4. CASE /\ m_packageCounter = 0
           /\ shutdown(<< >>)
           /\ UNCHANGED << m_packageType, m_contentLength >>
  <2>1. PackageTypeOK /\ Chains = 1
    BY <1>4, BeforePackage
  <2>2. /\ m_contentLength' \in 0..SizeModulus - 1
        /\ m_packageType' \in PackageTypes
        /\ m_packageType' \notin {"GET", "OPTIONS"}
        /\ writes' \in Seq(WriteType)
    BY <1>4, <2>1 DEF PackageTypeOK, shutdown, Chains
  <2> QED BY <1>4, <2>2, NothingStoredStep DEF shutdown
<1> QED BY <1>1, <1>2, <1>3, <1>4
        DEF processPackage, handleGetRequest, handleOptionsRequest

-----------------------------------------------------------------------------
(***************************************************************************)
(* The handlers.                                                           *)
(***************************************************************************)
(* The part of the type invariant no package disturbs.                     *)
ReadSideOK ==
  /\ request \in Requests
  /\ peer \in {"open", "closed", "broken", "shut"}
  /\ received \in 0..Total
  /\ m_buffer \in [1..BufferSize -> Nat]
  /\ reads \in Nat
  /\ filled \in Seq(1..BufferSize)
  /\ answers \in Seq(AnswerType)
  /\ overwritten \in BOOLEAN

LEMMA IInvSplit == IInv <=> ReadSideOK /\ PackageInv
BY DEF IInv, PackageInv, PackageTypeOK, ReadSideOK, TypeOK, StreamTypeOK, WriteType

LEMMA IInvSplitPrime == (ReadSideOK' /\ PackageInv') => IInv'
BY DEF IInv, PackageInv, PackageTypeOK, ReadSideOK, TypeOK, StreamTypeOK, WriteType

LEMMA UpToTwo ==
  ASSUME NEW k \in Nat, k <= 2
  PROVE  k = 0 \/ k = 1 \/ k = 2
OBVIOUS

(* The counts of a state that satisfies the invariant.                     *)
LEMMA Counts ==
  ASSUME IInv
  PROVE  /\ SumNat /\ Sum \in Nat /\ Accounted = Sum + InShutdown
         /\ InShutdown \in {0, 1} /\ Sum <= 2
         /\ io = "running" => Sum = Chains
         /\ Len(filled) <= 2 /\ Queued \in Nat
         /\ Len(m_message) \in Nat /\ received \in Nat
         /\ Total \in Nat /\ BufferSize \in Nat
<1>1. SumNat /\ Len(m_message) \in Nat
  BY LenProperties DEF IInv, TypeOK, StreamTypeOK, SumNat
<1>2. Sum \in Nat /\ Len(filled) <= Sum
  BY <1>1 DEF Sum, Readers, SumNat
<1>3. Accounted = Sum + InShutdown /\ InShutdown \in {0, 1}
  BY DEF Accounted, Sum, InShutdown
<1>4. Accounted <= 2 /\ (io # "ended" => Accounted = Chains)
  BY DEF IInv, ReaderLedger
<1>5. Sum <= 2 /\ Len(filled) <= 2
  BY <1>1, <1>2, <1>3, <1>4 DEF SumNat
<1>6. ASSUME io = "running" PROVE Sum = Chains
  BY <1>2, <1>3, <1>4, <1>6 DEF InShutdown
<1>7. Total \in Nat /\ BufferSize \in Nat /\ received \in Nat
  BY RequestBounds, StreamAssumption DEF IInv, TypeOK, StreamTypeOK
<1>8. Queued \in Nat
  <2>1. \A i \in 1..Len(filled) : filled[i] \in Nat
    BY <1>7, ElementOfSeq DEF IInv, TypeOK, StreamTypeOK
  <2>2. CASE Len(filled) = 0
    BY <2>2 DEF Queued
  <2>3. CASE Len(filled) = 1
    BY <2>1, <2>3 DEF Queued
  <2>4. CASE Len(filled) = 2
    <3>1. filled[1] \in Nat /\ filled[2] \in Nat
      BY <2>1, <2>4
    <3> QED BY <2>4, <3>1 DEF Queued
  <2>5. Len(filled) = 0 \/ Len(filled) = 1 \/ Len(filled) = 2
    BY <1>1, <1>5, UpToTwo DEF SumNat
  <2> QED BY <2>2, <2>3, <2>4, <2>5
<1> QED BY <1>1, <1>2, <1>3, <1>5, <1>6, <1>7, <1>8

(* A read that waited completes.                                           *)
LEMMA ReadArrivedHandsOver ==
  ASSUME IInv, handleReadArrived
  PROVE  /\ io = "running" /\ filled = << >>
         /\ UNCHANGED << request, peer, answers, filled >>
         /\ \E n \in 1..BufferSize :
              LET buf == SubSeq(Refilled(n), 1, n)
              IN /\ Fill(n)
                 /\ buf \in Seq(Nat) /\ Len(buf) = n /\ ReadHandedOver(buf)
                 /\ processPackage(buf)
                 /\ m_buffer' \in [1..BufferSize -> Nat] /\ overwritten' \in BOOLEAN
<1>1. PICK n \in Available : Fill(n) /\ processPackage(SubSeq(Refilled(n), 1, n))
  BY DEF handleReadArrived
<1> DEFINE buf == SubSeq(Refilled(n), 1, n)
<1>2. /\ io = "running" /\ UNCHANGED << request, peer, answers >>
      /\ reads > 0 /\ filled = << >> /\ reads' = reads - 1 /\ filled' = filled
  BY DEF handleReadArrived, WaitingReadDone
<1>3. TypeOK /\ ReadSideOK
  BY IInvSplit DEF IInv
<1>4. /\ n \in 1..BufferSize
      /\ received' = received + n
      /\ received' \in 0..Total'
      /\ m_buffer' = Refilled(n)
      /\ Refilled(n) \in [1..BufferSize -> Nat]
      /\ overwritten' \in BOOLEAN
  BY <1>1, <1>2, <1>3, FillStep
<1>5. /\ SumNat /\ Len(m_message) \in Nat /\ received \in Nat /\ BufferSize \in Nat
      /\ Total \in Nat
  BY Counts
<1>6. buf \in Seq(Nat) /\ Len(buf) = n
  <2>1. n \in Int /\ n >= 1 /\ \A i \in 1..n : Refilled(n)[i] \in Nat
    BY <1>4, <1>5
  <2> QED BY <2>1, SubSeqProperties
<1> HIDE DEF buf
<1>7. ReadHandedOver(buf)
  <2>1. Total' = Total
    BY <1>2 DEF Total
  <2>2. Len(filled) = 0 /\ Queued = 0 /\ Queued' = 0
    BY <1>2 DEF Queued
  <2>3. Len(m_message) <= received
    BY <1>5, <2>2 DEF IInv, StoredWereReceived
  <2>4. Len(m_message) + Len(buf) + Queued' <= received'
    <3>1. Len(m_message) + n + 0 <= received + n
      BY <1>4, <1>5, <2>3
    <3> QED BY <1>4, <1>6, <2>2, <3>1, Zenon
  <2>5. reads' \in Nat /\ reads' + Len(filled') = reads + Len(filled) - 1
    <3>1. reads - 1 \in Nat /\ reads - 1 + Len(filled) = reads + Len(filled) - 1
      BY <1>2, <1>5 DEF SumNat
    <3> QED BY <1>2, <3>1, Zenon
  <2>6. Len(buf) >= 1
    BY <1>4, <1>5, <1>6
  <2>7. filled' \in Seq(1..BufferSize)
    BY <1>2, <1>3 DEF ReadSideOK
  <2>8. received' \in 0..Total
    BY <1>4, <2>1
  <2> QED BY <1>2, <2>2, <2>4, <2>5, <2>6, <2>7, <2>8 DEF ReadHandedOver
<1>8. m_buffer' \in [1..BufferSize -> Nat]
  BY <1>4, Zenon
<1> QED BY <1>1, <1>2, <1>4, <1>6, <1>7, <1>8, Zenon DEF buf

LEMMA ReadArrivedStep ==
  ASSUME IInv, handleReadArrived
  PROVE  IInv'
<1>1. PICK n \in 1..BufferSize :
        LET buf == SubSeq(Refilled(n), 1, n)
        IN /\ Fill(n)
           /\ buf \in Seq(Nat) /\ Len(buf) = n /\ ReadHandedOver(buf)
           /\ processPackage(buf)
           /\ m_buffer' \in [1..BufferSize -> Nat] /\ overwritten' \in BOOLEAN
  BY ReadArrivedHandsOver, Zenon
<1> DEFINE buf == SubSeq(Refilled(n), 1, n)
<1>2. io = "running" /\ UNCHANGED << request, peer, answers, filled >>
  BY ReadArrivedHandsOver
<1>3. buf \in Seq(Nat) /\ ReadHandedOver(buf) /\ processPackage(buf)
  BY <1>1
<1> HIDE DEF buf
<1>4. PackageInv'
  BY <1>2, <1>3, PackageStep
<1>5. ReadSideOK
  BY IInvSplit
<1>6. Total' = Total
  BY <1>2 DEF Total
<1>7. ReadSideOK'
  BY <1>1, <1>2, <1>3, <1>5, <1>6 DEF ReadSideOK, ReadHandedOver
<1> QED BY <1>4, <1>7, IInvSplitPrime

(* The handler of a read that was filled when it was started.              *)
LEMMA ReadQueuedHandsOver ==
  ASSUME IInv, handleReadQueued
  PROVE  LET buf == SubSeq(m_buffer, 1, Head(filled))
         IN /\ io = "running" /\ filled # << >> /\ Len(filled) <= 2
            /\ UNCHANGED << request, peer, answers, reads, received, m_buffer, overwritten >>
            /\ Head(filled) \in 1..BufferSize /\ Head(filled) = filled[1]
            /\ filled' = Tail(filled) /\ filled' \in Seq(1..BufferSize)
            /\ Len(filled') = Len(filled) - 1
            /\ buf \in Seq(Nat) /\ Len(buf) = Head(filled) /\ ReadHandedOver(buf)
            /\ processPackage(buf)
            /\ Queued' \in Nat /\ Queued = Head(filled) + Queued'
<1> DEFINE n == Head(filled)
           buf == SubSeq(m_buffer, 1, n)
<1>1. /\ io = "running" /\ processPackage(buf)
      /\ UNCHANGED << request, peer, answers, reads, received, m_buffer, overwritten >>
      /\ filled # << >> /\ filled' = Tail(filled)
  BY DEF handleReadQueued, QueuedReadDone
<1>2. /\ ReadSideOK /\ SumNat /\ Len(filled) <= 2
      /\ Len(m_message) \in Nat /\ received \in Nat /\ BufferSize \in Nat
  BY IInvSplit, Counts
<1>3. /\ n \in 1..BufferSize
      /\ filled' \in Seq(1..BufferSize)
      /\ Len(filled') = Len(filled) - 1
      /\ n = filled[1]
      /\ \A i \in 1..Len(filled') : filled'[i] = filled[i + 1]
  BY <1>1, <1>2, HeadTailProperties DEF ReadSideOK
<1>4. buf \in Seq(Nat) /\ Len(buf) = n
  <2>1. n \in Int /\ n >= 1 /\ \A i \in 1..n : m_buffer[i] \in Nat
    BY <1>2, <1>3 DEF ReadSideOK
  <2> QED BY <2>1, SubSeqProperties
<1> HIDE DEF buf, n
<1>5. Queued' \in Nat /\ Queued = n + Queued'
  <2>1. Len(filled) = 1 \/ Len(filled) = 2
    <3>1. Len(filled) \in Nat /\ Len(filled) # 0
      BY <1>1, <1>2, EmptySeq DEF ReadSideOK
    <3> QED BY <1>2, <3>1, UpToTwo
  <2>2. CASE Len(filled) = 1
    <3>1. Len(filled') = 0
      BY <1>3, <2>2
    <3>2. Queued' = 0 /\ Queued = n
      BY <1>3, <2>2, <3>1 DEF Queued
    <3>3. n = n + 0
      BY <1>2, <1>3
    <3> QED BY <3>2, <3>3
  <2>3. CASE Len(filled) = 2
    <3>1. Len(filled') = 1
      BY <1>3, <2>3
    <3>2. filled'[1] = filled[2]
      <4>1. 1 \in 1..Len(filled') /\ 1 + 1 = 2
        BY <3>1
      <4> QED BY <1>3, <4>1
    <3>3. Queued' = filled[2] /\ Queued = n + filled[2]
      BY <1>3, <2>3, <3>1, <3>2 DEF Queued
    <3>4. filled[2] \in Nat
      <4>1. 2 \in 1..Len(filled)
        BY <2>3
      <4>2. filled[2] \in 1..BufferSize
        BY <1>2, <4>1, ElementOfSeq DEF ReadSideOK
      <4> QED BY <1>2, <4>2
    <3> QED BY <3>3, <3>4
  <2> QED BY <2>1, <2>2, <2>3
<1>6. ReadHandedOver(buf)
  <2>1. Len(m_message) + Len(buf) + Queued' <= received'
    <3>1. PICK q \in Nat : q = Queued'
      BY <1>5, Zenon
    <3>2. Queued = n + q
      BY <1>5, <3>1, Zenon
    <3>3. Len(m_message) + n + q <= received
      BY <1>2, <1>3, <3>2 DEF IInv, StoredWereReceived
    <3> QED BY <1>1, <1>4, <3>1, <3>3, Zenon
  <2>2. reads' \in Nat /\ reads' + Len(filled') = reads + Len(filled) - 1
    <3>1. reads \in Nat /\ reads + (Len(filled) - 1) = reads + Len(filled) - 1
      BY <1>2 DEF SumNat
    <3> QED BY <1>1, <1>3, <3>1, Zenon
  <2>3. Len(buf) >= 1 /\ received' \in 0..Total
    BY <1>1, <1>2, <1>3, <1>4 DEF ReadSideOK
  <2> QED BY <1>1, <1>3, <1>5, <2>1, <2>2, <2>3 DEF ReadHandedOver
<1> QED BY <1>1, <1>2, <1>3, <1>4, <1>5, <1>6, Zenon DEF buf, n

LEMMA ReadQueuedStep ==
  ASSUME IInv, handleReadQueued
  PROVE  IInv'
<1> DEFINE buf == SubSeq(m_buffer, 1, Head(filled))
<1>1. /\ io = "running"
      /\ UNCHANGED << request, peer, answers, reads, received, m_buffer, overwritten >>
      /\ filled' \in Seq(1..BufferSize)
      /\ buf \in Seq(Nat) /\ ReadHandedOver(buf) /\ processPackage(buf)
  BY ReadQueuedHandsOver
<1> HIDE DEF buf
<1>2. PackageInv'
  BY <1>1, PackageStep
<1>3. ReadSideOK'
  <2>1. Total' = Total
    BY <1>1 DEF Total
  <2> QED BY <1>1, <2>1, IInvSplit DEF ReadSideOK
<1> QED BY <1>2, <1>3, IInvSplitPrime

(* A handshake ends in a read, waiting or filled, or ends its chain.       *)
LEMMA HandshakeStep ==
  ASSUME IInv, handle_handshake
  PROVE  IInv'
<1>1. /\ io = "running" /\ handshakes > 0 /\ handshakes' = handshakes - 1
      /\ UNCHANGED << request, peer, writes, answers, packageVars, io, resume,
                      processed >>
  BY DEF handle_handshake
<1>2. /\ ReadSideOK /\ PackageInv /\ SumNat /\ TypeOK /\ Sum = Chains /\ Sum <= 2
      /\ Len(m_message) \in Nat /\ received \in Nat /\ BufferSize \in Nat
      /\ Queued \in Nat /\ Len(filled) <= 2
  BY <1>1, IInvSplit, Counts DEF IInv
<1>3. /\ Total' = Total /\ Chains' = Chains /\ InShutdown' = 0
  BY <1>1 DEF Total, Chains, InShutdown, packageVars
<1>4. ASSUME /\ ReadSideOK' /\ lost' \in Nat
             /\ reads' + Len(filled') + lost' = reads + Len(filled) + lost + 1
             /\ Len(m_message) + Queued' <= received'
      PROVE  IInv'
  <2>1. SumNat' /\ handshakes' \in Nat
    <3>1. handshakes - 1 \in Nat
      BY <1>1, <1>2 DEF SumNat
    <3>2. reads' \in Nat /\ Len(filled') \in Nat
      BY <1>4, LenProperties DEF ReadSideOK
    <3> QED BY <1>1, <1>2, <1>4, <3>1, <3>2 DEF SumNat
  <2>2. Sum' = Sum
    <3>1. PICK r \in Nat, f \in Nat, l \in Nat :
            r = reads' /\ f = Len(filled') /\ l = lost'
      BY <2>1, Zenon DEF SumNat
    <3>2. r + f + l = reads + Len(filled) + lost + 1
      BY <1>4, <3>1, Zenon
    <3>3. handshakes - 1 + r + f + Len(processed) + l = Sum
      BY <1>2, <3>2, SMTT(60) DEF Sum, Readers, SumNat
    <3>4. Sum' = handshakes - 1 + r + f + Len(processed) + l
      BY <1>1, <3>1, Zenon DEF Sum, Readers
    <3> QED BY <3>3, <3>4
  <2>3. ReaderLedger'
    <3>1. Accounted' = Sum + 0
      BY <1>3, <2>2 DEF Accounted, Sum
    <3> QED BY <1>2, <1>3, <3>1 DEF ReaderLedger, Sum, Readers, SumNat
  <2>4. StoredWereReceived'
    BY <1>1, <1>4 DEF StoredWereReceived, packageVars
  <2>5. PackageTypeOK' /\ TransferredMatchesMessage' /\ NothingBeforeFirstPackage'
    BY <1>1, <1>2, <1>4, <2>1 DEF PackageInv, PackageTypeOK, packageVars,
       TransferredMatchesMessage, NothingBeforeFirstPackage
  <2>6. ResumedIsFirstPackage'
    BY <1>1, <1>2 DEF PackageInv, ResumedIsFirstPackage
  <2> QED BY <1>4, <2>3, <2>4, <2>5, <2>6, IInvSplitPrime DEF PackageInv
<1>5. CASE /\ reads' = reads + 1 /\ lost' = lost
           /\ UNCHANGED << received, m_buffer, filled, overwritten >>
  <2>1. ReadSideOK'
    BY <1>1, <1>2, <1>3, <1>5 DEF ReadSideOK
  <2>2. Queued' = Queued
    BY <1>5 DEF Queued
  <2>3. reads + 1 + Len(filled) + lost = reads + Len(filled) + lost + 1
    BY <1>2 DEF SumNat
  <2> QED BY <1>2, <1>4, <1>5, <2>1, <2>2, <2>3 DEF PackageInv, StoredWereReceived, SumNat
<1>6. ASSUME NEW n \in Available, Fill(n), filled' = Append(filled, n),
             reads' = reads, lost' = lost
      PROVE  IInv'
  <2>1. /\ n \in 1..BufferSize /\ received' = received + n /\ received' \in 0..Total'
        /\ m_buffer' = Refilled(n) /\ Refilled(n) \in [1..BufferSize -> Nat]
        /\ overwritten' \in BOOLEAN
    BY <1>1, <1>2, <1>6, FillStep
  <2>2. /\ filled' \in Seq(1..BufferSize) /\ Len(filled') = Len(filled) + 1
        /\ \A i \in 1..Len(filled) : filled'[i] = filled[i]
        /\ filled'[Len(filled) + 1] = n
    BY <1>2, <1>6, <2>1 DEF ReadSideOK
  <2>3. ReadSideOK'
    BY <1>1, <1>2, <1>6, <2>1, <2>2 DEF ReadSideOK
  <2>4. Len(filled) = 0 \/ Len(filled) = 1
    <3>1. Len(filled) # 2
      BY <1>1, <1>2 DEF Sum, Readers, SumNat
    <3> QED BY <1>2, <3>1, UpToTwo DEF SumNat
  <2>5. Queued' = Queued + n
    <3>1. CASE Len(filled) = 0
      <4>1. Len(filled') = 1 /\ filled'[1] = n
        BY <2>2, <3>1
      <4>2. Queued = 0 /\ Queued' = n
        BY <3>1, <4>1 DEF Queued
      <4> QED BY <1>2, <2>1, <4>2
    <3>2. CASE Len(filled) = 1
      <4>1. 1 \in 1..Len(filled) /\ Len(filled) + 1 = 2
        BY <3>2
      <4>2. Len(filled') = 2 /\ filled'[1] = filled[1] /\ filled'[2] = n
        BY <2>2, <4>1
      <4> QED BY <3>2, <4>2 DEF Queued
    <3> QED BY <2>4, <3>1, <3>2
  <2>6. reads' + Len(filled') + lost' = reads + Len(filled) + lost + 1
    <3>1. reads + (Len(filled) + 1) + lost = reads + Len(filled) + lost + 1
      BY <1>2 DEF SumNat
    <3> QED BY <1>6, <2>2, <3>1, Zenon
  <2>7. Len(m_message) + Queued' <= received'
    <3>1. Len(m_message) + (Queued + n) <= received + n
      BY <1>2, <2>1 DEF PackageInv, StoredWereReceived
    <3> QED BY <2>1, <2>5, <3>1, Zenon
  <2> QED BY <1>2, <1>4, <1>6, <2>3, <2>6, <2>7 DEF SumNat
<1>7. CASE /\ lost' = lost + 1
           /\ UNCHANGED << reads, filled, received, m_buffer, overwritten >>
  <2>1. ReadSideOK'
    BY <1>1, <1>2, <1>3, <1>7 DEF ReadSideOK
  <2>2. Queued' = Queued
    BY <1>7 DEF Queued
  <2>3. reads + Len(filled) + (lost + 1) = reads + Len(filled) + lost + 1
    BY <1>2 DEF SumNat
  <2> QED BY <1>2, <1>4, <1>7, <2>1, <2>2, <2>3 DEF PackageInv, StoredWereReceived, SumNat
<1> QED BY <1>5, <1>6, <1>7 DEF handle_handshake, AsyncReadSome

(* Steps that neither read nor store a byte keep what is said of bytes.    *)
LEMMA QuietStep ==
  ASSUME IInv,
         UNCHANGED << request, received, m_buffer, overwritten, filled, packageVars,
                      processed >>,
         peer' \in {"open", "closed", "broken", "shut"}, answers' \in Seq(AnswerType),
         reads' \in Nat, handshakes' \in Nat, lost' \in Nat,
         writes' \in Seq(WriteType), io' \in {"running", "blocked", "ended"},
         io # "ended", resume' \in Seq(Nat), ReaderLedger', ResumedIsFirstPackage'
  PROVE  IInv'
<1>1. ReadSideOK /\ PackageInv /\ Total' = Total /\ Queued' = Queued
  BY IInvSplit DEF Total, Queued
<1>2. ReadSideOK'
  BY <1>1 DEF ReadSideOK
<1>3. PackageTypeOK'
  BY <1>1 DEF PackageInv, PackageTypeOK, packageVars
<1>4. TransferredMatchesMessage' /\ StoredWereReceived' /\ NothingBeforeFirstPackage'
  BY <1>1 DEF PackageInv, packageVars, TransferredMatchesMessage, StoredWereReceived,
     NothingBeforeFirstPackage
<1> QED BY <1>2, <1>3, <1>4, IInvSplitPrime DEF PackageInv

(* Facts about the state before a quiet step.                              *)
LEMMA BeforeQuiet ==
  ASSUME IInv
  PROVE  /\ peer \in {"open", "closed", "broken", "shut"}
         /\ answers \in Seq(AnswerType) /\ writes \in Seq(WriteType)
         /\ reads \in Nat /\ handshakes \in Nat /\ lost \in Nat
         /\ resume \in Seq(Nat) /\ io \in {"running", "blocked", "ended"}
         /\ SumNat /\ ResumedIsFirstPackage /\ ReaderLedger
BY Counts, IInvSplit DEF ReadSideOK, PackageInv, PackageTypeOK

(* The other ends of a waiting read: nothing read, end of file, an error.  *)
LEMMA ReadEndsStep ==
  ASSUME IInv, handleReadEmpty \/ handleReadEof \/ handleReadError
  PROVE  IInv'
<1>1. /\ io = "running" /\ reads > 0 /\ filled = << >> /\ reads' = reads - 1
      /\ UNCHANGED << request, received, m_buffer, overwritten, filled, packageVars,
                      peer, writes, answers, processed >>
  BY DEF handleReadEmpty, handleReadEof, handleReadError, WaitingReadDone, shutdown,
     packageVars
<1>2. \/ handshakes' = handshakes + 1 /\ UNCHANGED << io, resume, lost >>
      \/ /\ io' = "blocked" /\ resume' = << >> /\ UNCHANGED << handshakes, lost >>
      \/ lost' = lost + 1 /\ UNCHANGED << io, resume, handshakes >>
  BY DEF handleReadEmpty, handleReadEof, handleReadError, processRequest, shutdown
<1>3. /\ SumNat /\ Sum = Chains /\ Sum <= 2 /\ resume = << >> /\ Sum \in Nat
      /\ Chains' = Chains /\ InShutdown = 0
  BY <1>1, Counts, BeforeQuiet DEF ResumedIsFirstPackage, Chains, packageVars, InShutdown
<1>4. /\ reads' \in Nat /\ handshakes' \in Nat /\ lost' \in Nat
      /\ reads' + Len(filled') = reads + Len(filled) - 1
  <2>1. /\ reads - 1 \in Nat /\ handshakes + 1 \in Nat /\ lost + 1 \in Nat
        /\ handshakes \in Nat /\ lost \in Nat
        /\ reads - 1 + Len(filled) = reads + Len(filled) - 1
    BY <1>1, <1>3 DEF SumNat
  <2>2. reads' \in Nat /\ reads' + Len(filled') = reads + Len(filled) - 1
    BY <1>1, <2>1, Zenon
  <2> QED BY <1>2, <2>1, <2>2, Zenon
<1>5. SumNat'
  BY <1>1, <1>3, <1>4 DEF SumNat
<1>6. ReaderLedger'
  <2>1. CASE /\ UNCHANGED << io, resume >>
             /\ \/ handshakes' = handshakes + 1 /\ lost' = lost
                \/ handshakes' = handshakes /\ lost' = lost + 1
    <3>1. handshakes' + Len(processed') + lost' = handshakes + Len(processed) + lost + 1
      <4>1. /\ handshakes + 1 + Len(processed) + lost
                 = handshakes + Len(processed) + lost + 1
            /\ handshakes + Len(processed) + (lost + 1)
                 = handshakes + Len(processed) + lost + 1
        BY <1>3 DEF SumNat
      <4> QED BY <1>1, <2>1, <4>1, Zenon
    <3>2. Sum' = Sum + 1 - 1
      BY <1>3, <1>4, <1>5, <3>1, LedgerStep
    <3>3. Accounted' = Sum
      BY <1>1, <1>3, <2>1, <3>2 DEF Accounted, Sum, InShutdown
    <3> QED BY <1>3, <3>3 DEF ReaderLedger
  <2>2. CASE io' = "blocked" /\ UNCHANGED << handshakes, lost >>
    <3>1. handshakes' + Len(processed') + lost' = handshakes + Len(processed) + lost + 0
      BY <1>1, <1>3, <2>2 DEF SumNat
    <3>2. Sum' = Sum + 0 - 1
      BY <1>3, <1>4, <1>5, <3>1, LedgerStep
    <3>3. Accounted' = Sum
      BY <1>3, <2>2, <3>2 DEF Accounted, Sum, InShutdown
    <3> QED BY <1>3, <3>3 DEF ReaderLedger
  <2> QED BY <1>2, <2>1, <2>2
<1>7. ResumedIsFirstPackage' /\ resume' \in Seq(Nat)
      /\ io' \in {"running", "blocked", "ended"}
  BY <1>1, <1>2, <1>3, EmptySeq DEF ResumedIsFirstPackage
<1> QED BY <1>1, <1>4, <1>6, <1>7, BeforeQuiet, QuietStep

(* A write that ends, a shutdown that throws and a client that leaves move *)
(* no chain, except into the end of the thread.                            *)
LEMMA StillStep ==
  ASSUME IInv, handleWrite \/ ShutdownThrows \/ ClientLeaves
  PROVE  IInv'
<1>1. /\ UNCHANGED << request, received, m_buffer, overwritten, filled, packageVars,
                      processed, reads, handshakes, lost, resume >>
      /\ io # "ended"
      /\ io' = io \/ (io = "blocked" /\ io' = "ended")
  BY DEF handleWrite, ShutdownThrows, ClientLeaves, PeerLeaves, streamVars
<1>2. /\ writes \in Seq(WriteType) /\ answers \in Seq(AnswerType)
      /\ peer \in {"open", "closed", "broken", "shut"}
  BY BeforeQuiet
<1>3. peer' \in {"open", "closed", "broken", "shut"}
  BY <1>2 DEF handleWrite, ShutdownThrows, ClientLeaves, PeerLeaves, streamVars
<1>4. writes' \in Seq(WriteType) /\ answers' \in Seq(AnswerType)
  <2>1. CASE handleWrite
    <3>1. writes # << >> /\ writes' = Tail(writes)
      BY <2>1 DEF handleWrite
    <3>2. Head(writes) \in WriteType /\ writes' \in Seq(WriteType)
      BY <1>2, <3>1, HeadTailProperties
    <3>3. Delivered(Head(writes)) \subseteq AnswerType
      <4>1. Garbled \in AnswerType
        BY EmptySeq DEF Garbled, Answer, AnswerType
      <4>2. Head(writes).answer \in AnswerType
        BY <3>2 DEF WriteType
      <4> QED BY <4>1, <4>2 DEF Delivered
    <3>4. CASE \E answer \in Delivered(Head(writes)) : answers' = Append(answers, answer)
      BY <1>2, <3>2, <3>3, <3>4
    <3>5. CASE UNCHANGED answers
      BY <1>2, <3>2, <3>5
    <3> QED BY <2>1, <3>4, <3>5 DEF handleWrite
  <2>2. CASE ShutdownThrows \/ ClientLeaves
    BY <1>2, <2>2 DEF ShutdownThrows, ClientLeaves, PeerLeaves, streamVars
  <2> QED BY <2>1, <2>2
<1>5. SumNat /\ Accounted = Sum + InShutdown /\ Sum <= 2 /\ Sum \in Nat
  BY Counts
<1>6. Chains' = Chains /\ Sum' = Sum
  BY <1>1 DEF Chains, Sum, Readers, packageVars
<1>7. ReaderLedger'
  <2>1. CASE io' = io
    <3>1. Accounted' = Accounted
      BY <1>1, <2>1 DEF Accounted, Readers, InShutdown
    <3> QED BY <1>6, <2>1, <3>1, BeforeQuiet DEF ReaderLedger
  <2>2. CASE io' = "ended"
    <3>1. Accounted' = Sum
      BY <1>5, <1>6, <2>2 DEF Accounted, Sum, InShutdown
    <3> QED BY <1>5, <2>2, <3>1 DEF ReaderLedger
  <2> QED BY <1>1, <2>1, <2>2
<1>8. ResumedIsFirstPackage'
  BY <1>1, BeforeQuiet DEF ResumedIsFirstPackage, packageVars
<1>9. /\ reads' \in Nat /\ handshakes' \in Nat /\ lost' \in Nat
      /\ resume' \in Seq(Nat) /\ io' \in {"running", "blocked", "ended"}
  BY <1>1, BeforeQuiet
<1> QED BY <1>1, <1>3, <1>4, <1>7, <1>8, <1>9, QuietStep

(* A shutdown returns: the first POST part goes on, or the chain is over.  *)
LEMMA ShutdownReturnsStep ==
  ASSUME IInv, ShutdownReturns
  PROVE  IInv'
<1>1. /\ io = "blocked" /\ peer' = "shut"
      /\ UNCHANGED << request, received, m_buffer, reads, filled, answers,
                      overwritten, m_packageType, m_contentLength >>
  BY DEF ShutdownReturns
<1>2. /\ ReadSideOK /\ PackageInv /\ PackageTypeOK /\ TypeOK /\ ResumedIsFirstPackage
      /\ SumNat /\ Sum \in Nat /\ Sum + 1 = Chains /\ Sum + 1 <= 2
  <2>1. Accounted = Sum + 1 /\ Accounted = Chains /\ Accounted <= 2
    BY <1>1, Counts DEF IInv, ReaderLedger, InShutdown
  <2> QED BY <2>1, Counts, IInvSplit DEF IInv, PackageInv
<1>3. CASE resume # << >> /\ FirstPostPart(resume, m_contentLength)
  <2>1. /\ m_packageCounter = 0 /\ m_packageType = "POST" /\ request.verb = "POST"
        /\ 4 <= Len(resume) /\ Len(resume) <= received /\ filled = << >>
        /\ m_message = << >> /\ m_transferredTotal = 0 /\ processed = << >>
    BY <1>1, <1>2, <1>3 DEF ResumedIsFirstPackage, PackageInv, NothingBeforeFirstPackage
  <2>2. Chains = 1
    BY <2>1 DEF Chains
  <2>3. handshakes = 0 /\ lost = 0 /\ reads = 0
    BY <1>2, <2>2 DEF Sum, Readers, SumNat
  <2>4. Len(resume) <= Total /\ Len(resume) \in Nat /\ resume \in Seq(Nat)
    BY <1>2, <2>1, LenProperties, Counts DEF ReadSideOK, PackageTypeOK
  <2>5. received' \in 0..Total /\ Len(resume) <= received'
    BY <1>1, <1>2, <2>1 DEF ReadSideOK
  <2>6. m_contentLength' \in 0..SizeModulus - 1 /\ m_packageType' \in PackageTypes
    BY <1>1, <1>2 DEF PackageTypeOK
  <2>7. PackageInv'
    BY <1>1, <1>2, <1>3, <2>1, <2>3, <2>4, <2>5, <2>6, FirstPostPartInv
  <2>8. ReadSideOK'
    <3>1. Total' = Total
      BY <1>1 DEF Total
    <3> QED BY <1>1, <1>2, <3>1 DEF ReadSideOK
  <2> QED BY <2>7, <2>8, IInvSplitPrime
<1>4. CASE /\ resume = << >> /\ io' = "running" /\ lost' = lost + 1
           /\ UNCHANGED << m_packageCounter, m_transferredTotal, m_message,
                           handshakes, writes, resume, processed >>
  <2>1. lost' \in Nat /\ reads + Len(filled) = reads + Len(filled) - 0
    BY <1>2, <1>4 DEF SumNat
  <2>2. SumNat'
    BY <1>1, <1>2, <1>4, <2>1 DEF SumNat
  <2>3. handshakes' + Len(processed') + lost' = handshakes + Len(processed) + lost + 1
    BY <1>2, <1>4 DEF SumNat
  <2>4. reads' + Len(filled') = reads + Len(filled) - 0
    BY <1>1, <2>1, Zenon
  <2>5. Sum' = Sum + 1 - 0
    BY <1>2, <2>2, <2>3, <2>4, LedgerStep
  <2>6. Accounted' = Sum + 1 /\ Chains' = Chains
    BY <1>1, <1>2, <1>4, <2>5 DEF Accounted, Sum, InShutdown, Chains
  <2>7. ReaderLedger'
    BY <1>2, <2>6 DEF ReaderLedger
  <2>8. ResumedIsFirstPackage'
    BY <1>4 DEF ResumedIsFirstPackage
  <2> QED BY <1>1, <1>4, <2>1, <2>7, <2>8, BeforeQuiet, QuietStep DEF packageVars
<1> QED BY <1>3, <1>4 DEF ShutdownReturns

-----------------------------------------------------------------------------
(***************************************************************************)
(* The invariant.                                                          *)
(***************************************************************************)
(* A new connection satisfies it.                                          *)
LEMMA InitIInv ==
  ASSUME Init
  PROVE  IInv
<1> USE DEF Init, StreamInit
<1>1. /\ BufferSize \in Nat /\ Total \in Nat /\ SizeModulus \in Nat \ {0}
  BY StreamAssumption, ConnectionAssumption, RequestBounds
<1>2. StreamTypeOK
  <2>1. m_buffer \in [1..BufferSize -> Nat] /\ received \in 0..Total
    BY <1>1
  <2>2. overwritten \in BOOLEAN /\ handshakes \in Nat /\ reads \in Nat
    OBVIOUS
  <2>3. /\ filled \in Seq(1..BufferSize)
        /\ writes \in Seq([answer : AnswerType, intact : BOOLEAN])
        /\ answers \in Seq(AnswerType)
    BY EmptySeq
  <2>4. request \in Requests /\ peer \in {"open", "closed", "broken", "shut"}
    OBVIOUS
  <2> HIDE DEF Init, StreamInit
  <2> QED BY <2>1, <2>2, <2>3, <2>4 DEF StreamTypeOK
<1>3. TypeOK
  BY <1>1, <1>2, EmptySeq DEF TypeOK, PackageTypes
<1>4. Len(filled) = 0 /\ Len(processed) = 0 /\ Len(m_message) = 0
  OBVIOUS
<1>5. ReaderLedger
  BY <1>4 DEF ReaderLedger, Accounted, Readers, InShutdown, Chains
<1>6. TransferredMatchesMessage /\ StoredWereReceived
  BY <1>4 DEF TransferredMatchesMessage, StoredWereReceived, Queued
<1>7. NothingBeforeFirstPackage /\ ResumedIsFirstPackage
  BY DEF NothingBeforeFirstPackage, ResumedIsFirstPackage
<1> QED BY <1>3, <1>5, <1>6, <1>7 DEF IInv

(* Every step keeps it: one handler at a time.                             *)
LEMMA NextIInv ==
  ASSUME IInv, [Next]_vars
  PROVE  IInv'
<1>1. CASE handle_handshake
  BY <1>1, HandshakeStep
<1>2. CASE handleReadArrived
  BY <1>2, ReadArrivedStep
<1>3. CASE handleReadQueued
  BY <1>3, ReadQueuedStep
<1>4. CASE handleReadEmpty \/ handleReadEof \/ handleReadError
  BY <1>4, ReadEndsStep
<1>5. CASE handleWrite \/ ShutdownThrows \/ ClientLeaves
  BY <1>5, StillStep
<1>6. CASE ShutdownReturns
  BY <1>6, ShutdownReturnsStep
<1>7. CASE UNCHANGED vars
  BY <1>7 DEF vars, streamVars, packageVars, IInv, TypeOK, StreamTypeOK, Total,
     ReaderLedger, Accounted, Readers, InShutdown, Chains, TransferredMatchesMessage,
     StoredWereReceived, Queued, NothingBeforeFirstPackage, ResumedIsFirstPackage
<1> QED BY <1>1, <1>2, <1>3, <1>4, <1>5, <1>6, <1>7 DEF Next

(* The inductive invariant of a connection.                                *)
THEOREM Invariance == Spec => []IInv
<1>1. Init => IInv
  BY InitIInv
<1>2. IInv /\ [Next]_vars => IInv'
  BY NextIInv
<1> QED BY <1>1, <1>2, PTL DEF Spec

(* Whatever requests, buffer size and size_t: the variables of TcpConnection *)
(* keep their types, so no size_t count of received bytes goes astray.     *)
THEOREM TypeCorrect == Spec => []TypeOK
<1>1. IInv => TypeOK
  BY DEF IInv
<1> QED BY <1>1, Invariance, PTL

(* A connection never has more than two chains of handlers, and while the  *)
(* thread runs none of them is lost: each is waiting, in a shutdown, has   *)
(* processed its machine or has ended with an error.                       *)
THEOREM LedgerHolds == Spec => []ReaderLedger
<1>1. IInv => ReaderLedger
  BY DEF IInv
<1> QED BY <1>1, Invariance, PTL

(* m_transferredTotal is the number of bytes in m_message, also when the   *)
(* header was cut and the arithmetic on npos wrapped around.               *)
THEOREM CountIsRight == Spec => []TransferredMatchesMessage
<1>1. IInv => TransferredMatchesMessage
  BY DEF IInv
<1> QED BY <1>1, Invariance, PTL

-----------------------------------------------------------------------------
(***************************************************************************)
(* What becomes of the bytes of a connection, for every set of requests,   *)
(* buffer size and size of size_t: in which order they are stored, which   *)
(* prefixes of the message are processed, and what the client is answered. *)
(* They rest on the counts above.                                          *)
(***************************************************************************)

(***************************************************************************)
(* What a package does to the data, whatever branch handles it.            *)
(***************************************************************************)
(* The message is given to the callback and answered, or neither.          *)
Stored ==
  \/ UNCHANGED << processed, writes >>
  \/ /\ processed' = Append(processed, m_message')
     /\ Complete(m_transferredTotal', m_contentLength')
     /\ \/ AsyncWrite(Answer("machine", m_message'))
        \/ UNCHANGED writes

(* The first POST package: what follows its first skip bytes is stored,    *)
(* which are the header or, when that is cut, three bytes of it.           *)
FirstPart(buf) ==
  /\ Stored
  /\ \E skip \in {3, request.header} :
       /\ skip <= Len(buf)
       /\ m_message' = SubSeq(buf, skip + 1, Len(buf))
  /\ m_packageType' = "POST"
  /\ m_packageCounter' = 1 \/ (m_packageCounter' = 0 /\ io' = "ended")
  /\ resume' = << >>

(* A later package.                                                        *)
LaterPart(buf) ==
  /\ Stored
  /\ m_message' = m_message \o buf
  /\ UNCHANGED << m_packageCounter, m_packageType, m_contentLength, resume >>

(* A first package that stores nothing: an answer, a shutdown, a throw.    *)
NoPart(buf) ==
  /\ UNCHANGED << m_message, processed, m_packageCounter, handshakes >>
  /\ resume' \in {<< >>, buf}
  /\ \/ /\ m_packageType' \in {m_packageType, "POST"}
        /\ UNCHANGED writes
     \/ /\ m_packageType' \in {"GET", "OPTIONS"}
        /\ \E kind \in {"pong", "options"} : AsyncWrite(Answer(kind, << >>))

LEMMA PartStoredData ==
  ASSUME NEW message, NEW total, NEW k,
         PartStored(message, total, m_contentLength', k)
  PROVE  m_message' = message /\ Stored
<1>1. m_message' = message /\ m_transferredTotal' = total
  BY Zenon DEF PartStored
<1>2. CASE processMessage(message, k) /\ Complete(total, m_contentLength')
  BY <1>1, <1>2, Zenon DEF processMessage, Stored
<1>3. CASE NextRead(k + 1)
  BY <1>1, <1>3, Zenon DEF NextRead, Stored
<1> QED BY <1>2, <1>3 DEF PartStored

(* Where the stored part of the first package begins.                      *)
LEMMA SkipBytes ==
  ASSUME request \in Requests, request.verb = "POST", NEW buf \in Seq(Nat), 4 <= Len(buf)
  PROVE  /\ \E skip \in {3, request.header} :
              skip <= Len(buf) /\ Plus(FindBlankLine(buf), 4) = skip
         /\ Minus(Len(buf), 4) = FindBlankLine(buf) => Len(buf) = request.header
<1>1. /\ request.header \in Nat /\ Len(buf) \in Nat
      /\ request.header >= 8 /\ request.header + 2 < SizeModulus /\ SizeModulus \in Nat
  BY RequestBounds, LenProperties DEF VerbLength
<1>2. CASE Len(buf) >= request.header
  <2>1. FindBlankLine(buf) = request.header - 4
    BY <1>2 DEF FindBlankLine
  <2>2. Plus(FindBlankLine(buf), 4) = request.header
    BY <1>1, <2>1 DEF Plus
  <2>3. Minus(Len(buf), 4) = Len(buf) - 4
    BY <1>1 DEF Minus
  <2>4. Minus(Len(buf), 4) = FindBlankLine(buf) => Len(buf) = request.header
    BY <1>1, <2>1, <2>3
  <2> QED BY <1>1, <1>2, <2>2, <2>4
<1>3. CASE ~ (Len(buf) >= request.header)
  <2>1. FindBlankLine(buf) = SizeModulus - 1
    BY <1>3 DEF FindBlankLine, npos
  <2>2. Plus(FindBlankLine(buf), 4) = 3
    BY <1>1, <2>1 DEF Plus
  <2>3. Minus(Len(buf), 4) = Len(buf) - 4
    BY <1>1 DEF Minus
  <2>4. Minus(Len(buf), 4) # FindBlankLine(buf)
    BY <1>1, <1>3, <2>1, <2>3
  <2> QED BY <1>1, <2>2, <2>4
<1> QED BY <1>2, <1>3

LEMMA FirstPostPartData ==
  ASSUME request \in Requests, request.verb = "POST", NEW buf \in Seq(Nat),
         4 <= Len(buf), m_message = << >>, m_packageCounter = 0,
         m_packageType' = "POST", FirstPostPart(buf, m_contentLength')
  PROVE  FirstPart(buf)
<1> DEFINE headerSize == FindBlankLine(buf)
           message == splitHeaderAndBody(buf, headerSize)
           total == Plus(m_transferredTotal, Minus(Minus(Len(buf), headerSize), 4))
           Skipped == \E skip \in {3, request.header} :
                        /\ skip <= Len(buf)
                        /\ m_message' = SubSeq(buf, skip + 1, Len(buf))
<1>1. extractHeaderAndBody(buf, m_contentLength', 1) /\ resume' = << >>
  BY Zenon DEF FirstPostPart
<1>2. Stored /\ Skipped
  <2>1. CASE Minus(Len(buf), 4) = headerSize
    <3>1. Stored /\ m_message' = << >>
      BY <1>1, <2>1, Zenon DEF extractHeaderAndBody, NextRead, Stored
    <3>2. Len(buf) = request.header /\ Len(buf) \in Nat
      BY <2>1, SkipBytes, LenProperties
    <3>3. SubSeq(buf, Len(buf) + 1, Len(buf)) = << >>
      BY <3>2
    <3> QED BY <3>1, <3>2, <3>3
  <2>2. CASE Minus(Len(buf), 4) # headerSize
    <3>1. PartStored(message, total, m_contentLength', 1)
      BY <1>1, <2>2, Zenon DEF extractHeaderAndBody
    <3>2. message = SubSeq(buf, Plus(headerSize, 4) + 1, Len(buf))
      BY DEF splitHeaderAndBody
    <3> HIDE DEF message, total
    <3>3. m_message' = message /\ Stored
      BY <3>1, PartStoredData
    <3> HIDE DEF headerSize
    <3>4. PICK skip \in {3, request.header} :
            skip <= Len(buf) /\ Plus(headerSize, 4) = skip
      BY SkipBytes DEF headerSize
    <3> QED BY <3>2, <3>3, <3>4, Zenon
  <2> QED BY <2>1, <2>2
<1> HIDE DEF Skipped
<1>3. io' \in {"running", "ended"}
  BY <1>1 DEF extractHeaderAndBody, NextRead, PartStored, processMessage
<1>4. m_packageCounter' = 1 \/ (m_packageCounter' = 0 /\ io' = "ended")
  BY <1>3 DEF FirstPostPart
<1> QED BY <1>1, <1>2, <1>4 DEF FirstPart, Skipped

(* Any package.                                                            *)
LEMMA PackageData ==
  ASSUME IInv, io = "running", NEW buf \in Seq(Nat), ReadHandedOver(buf),
         processPackage(buf)
  PROVE  \/ m_packageCounter # 0 /\ LaterPart(buf)
         \/ m_packageCounter = 0 /\ (FirstPart(buf) \/ NoPart(buf))
<1>1. request \in Requests /\ Len(buf) \in Nat /\ resume = << >>
  BY LenProperties DEF IInv, TypeOK, StreamTypeOK, ResumedIsFirstPackage
<1>2. CASE m_packageCounter # 0 /\ handlePostRequest(buf)
  <2>1. /\ PartStored(m_message \o buf, Plus(m_transferredTotal, Len(buf)),
                      m_contentLength', 0)
        /\ UNCHANGED << m_packageCounter, m_packageType, m_contentLength, resume >>
    BY <1>2 DEF handlePostRequest
  <2> QED BY <1>2, <2>1, PartStoredData DEF LaterPart
<1>3. CASE m_packageCounter = 0 /\ (handleGetRequest \/ handleOptionsRequest)
  BY <1>1, <1>3, Zenon DEF handleGetRequest, handleOptionsRequest, handleAnswered, NoPart
<1>4. CASE m_packageCounter = 0 /\ StartsWith(buf, "POST") /\ FirstPostPackage(buf)
  <2>1. request.verb = "POST" /\ 4 <= Len(buf) /\ m_packageType' = "POST"
    BY <1>1, <1>4 DEF StartsWith, VerbLength, FirstPostPackage
  <2>2. m_message = << >>
    BY <1>4 DEF IInv, NothingBeforeFirstPackage
  <2>3. CASE UNCHANGED << m_message, processed, m_packageCounter, handshakes,
                          writes, resume >>
    BY <1>1, <1>4, <2>1, <2>3, Zenon DEF NoPart
  <2>4. ASSUME NEW n, m_contentLength' = ToSize(n),
               IF ToSize(n) = 0 THEN shutdown(buf) ELSE FirstPostPart(buf, ToSize(n))
        PROVE  FirstPart(buf) \/ NoPart(buf)
    <3>1. CASE shutdown(buf)
      BY <2>1, <3>1, Zenon DEF shutdown, NoPart
    <3>2. CASE FirstPostPart(buf, m_contentLength')
      BY <1>1, <1>4, <2>1, <2>2, <3>2, FirstPostPartData
    <3> QED BY <2>4, <3>1, <3>2, Zenon
  <2> QED BY <1>4, <2>3, <2>4, Zenon DEF FirstPostPackage
<1>5. CASE m_packageCounter = 0 /\ shutdown(<< >>)
             /\ UNCHANGED << m_packageType, m_contentLength >>
  BY <1>5, Zenon DEF shutdown, NoPart
<1> QED BY <1>2, <1>3, <1>4, <1>5, Zenon DEF processPackage
-----------------------------------------------------------------------------
(***************************************************************************)
(* Every step handles a package or leaves the data alone.                  *)
(***************************************************************************)
Package(buf) ==
  /\ \/ m_packageCounter # 0 /\ LaterPart(buf)
     \/ m_packageCounter = 0 /\ (FirstPart(buf) \/ NoPart(buf))
  /\ UNCHANGED << request, answers >>
  /\ io # "ended"
  /\ m_packageCounter = 0 => m_packageType \notin {"GET", "OPTIONS"}

Quiet ==
  /\ UNCHANGED << request, m_message, processed, m_packageCounter, m_packageType,
                  m_contentLength >>
  /\ UNCHANGED << writes, answers >> \/ handleWrite

LEMMA PackageIs ==
  ASSUME IInv, io = "running", NEW buf \in Seq(Nat), ReadHandedOver(buf),
         processPackage(buf), UNCHANGED << request, answers >>
  PROVE  Package(buf)
<1>1. m_packageCounter = 0 => m_packageType \notin {"GET", "OPTIONS"}
  BY BeforePackage DEF Chains
<1> QED BY <1>1, PackageData DEF Package

(* The buffer of a read is stored, or that of a resumed shutdown.          *)
LEMMA ReadData ==
  ASSUME IInv, handleReadArrived \/ handleReadQueued
  PROVE  \E buf \in Seq(Nat) :
           Len(buf) >= 1 /\ ReadHandedOver(buf) /\ Package(buf) /\ io = "running"
<1>1. \E buf \in Seq(Nat) :
        /\ Len(buf) >= 1 /\ ReadHandedOver(buf) /\ processPackage(buf)
        /\ io = "running" /\ UNCHANGED << request, answers >>
  <2>1. CASE handleReadArrived
    <3>1. io = "running" /\ UNCHANGED << request, answers >>
      BY <2>1, ReadArrivedHandsOver
    <3>2. PICK n \in 1..BufferSize :
            LET buf == SubSeq(Refilled(n), 1, n)
            IN buf \in Seq(Nat) /\ ReadHandedOver(buf) /\ processPackage(buf)
      BY <2>1, ReadArrivedHandsOver
    <3> QED BY <3>1, <3>2 DEF ReadHandedOver
  <2>2. CASE handleReadQueued
    <3> DEFINE buf == SubSeq(m_buffer, 1, Head(filled))
    <3>1. /\ io = "running" /\ UNCHANGED << request, answers >>
          /\ buf \in Seq(Nat) /\ ReadHandedOver(buf) /\ processPackage(buf)
      BY <2>2, ReadQueuedHandsOver
    <3> HIDE DEF buf
    <3> QED BY <3>1 DEF ReadHandedOver
  <2> QED BY <2>1, <2>2
<1>2. PICK buf \in Seq(Nat) :
        /\ Len(buf) >= 1 /\ ReadHandedOver(buf) /\ processPackage(buf)
        /\ io = "running" /\ UNCHANGED << request, answers >>
  BY <1>1
<1>3. Package(buf)
  BY <1>2, PackageIs
<1> QED BY <1>2, <1>3

LEMMA ResumedData ==
  ASSUME IInv, ShutdownReturns, resume # << >>
  PROVE  /\ resume \in Seq(Nat) /\ Len(resume) >= 1 /\ Package(resume) /\ FirstPart(resume)
         /\ m_packageCounter = 0
         /\ UNCHANGED << received, m_buffer, reads, filled, overwritten >>
<1>1. /\ io = "blocked" /\ FirstPostPart(resume, m_contentLength)
      /\ UNCHANGED << request, received, m_buffer, reads, filled, answers,
                      overwritten, m_packageType, m_contentLength >>
  BY DEF ShutdownReturns
<1>2. /\ m_packageCounter = 0 /\ m_packageType = "POST" /\ request.verb = "POST"
      /\ 4 <= Len(resume) /\ m_message = << >>
  BY <1>1 DEF IInv, ResumedIsFirstPackage, NothingBeforeFirstPackage
<1>3. request \in Requests /\ resume \in Seq(Nat) /\ Len(resume) \in Nat
  BY LenProperties DEF IInv, TypeOK, StreamTypeOK
<1>4. FirstPart(resume)
  BY <1>1, <1>2, <1>3, FirstPostPartData
<1> QED BY <1>1, <1>2, <1>3, <1>4 DEF Package

LEMMA NextData ==
  ASSUME IInv, [Next]_vars
  PROVE  \/ Quiet
         \/ \E buf \in Seq(Nat) : Len(buf) >= 1 /\ Package(buf)
<1>1. CASE handleReadArrived \/ handleReadQueued
  BY <1>1, ReadData
<1>2. CASE ShutdownReturns /\ resume # << >>
  BY <1>2, ResumedData
<1>3. CASE ShutdownReturns /\ resume = << >>
  BY <1>3, Zenon DEF ShutdownReturns, Quiet
<1>4. CASE handleReadEmpty \/ handleReadEof \/ handleReadError
  BY <1>4, Zenon DEF handleReadEmpty, handleReadEof, handleReadError, shutdown, Quiet,
     packageVars
<1>5. CASE handle_handshake \/ handleWrite
  BY <1>5, Zenon DEF handle_handshake, handleWrite, Quiet, packageVars
<1>6. CASE ShutdownThrows \/ ClientLeaves \/ UNCHANGED vars
  BY <1>6, Zenon DEF ShutdownThrows, ClientLeaves, PeerLeaves, Quiet, vars, streamVars,
     packageVars
<1> QED BY <1>1, <1>2, <1>3, <1>4, <1>5, <1>6 DEF Next

(* What a package adds to a message, as positions.                         *)
LEMMA MessageGrows ==
  ASSUME IInv, NEW buf \in Seq(Nat), Len(buf) >= 1, Package(buf)
  PROVE  /\ m_message \in Seq(Nat) /\ m_message' \in Seq(Nat)
         /\ Len(m_message) \in Nat /\ Len(m_message') \in Nat
         /\ Len(m_message) <= Len(m_message')
         /\ m_packageCounter # 0 => Len(m_message) < Len(m_message')
         /\ \A i \in 1..Len(m_message) : m_message'[i] = m_message[i]
         /\ m_packageCounter = 0 => m_message = << >> /\ processed = << >>
<1>1. m_message \in Seq(Nat) /\ Len(m_message) \in Nat /\ Len(buf) \in Nat
  BY LenProperties DEF IInv, TypeOK
<1>2. CASE m_packageCounter # 0 /\ LaterPart(buf)
  <2>1. m_message' = m_message \o buf
    BY <1>2 DEF LaterPart
  <2>2. /\ m_message' \in Seq(Nat) /\ Len(m_message') = Len(m_message) + Len(buf)
        /\ \A i \in 1..Len(m_message) : m_message'[i] = m_message[i]
    BY <1>1, <2>1, ConcatProperties
  <2> QED BY <1>1, <1>2, <2>2
<1>3. CASE m_packageCounter = 0 /\ (FirstPart(buf) \/ NoPart(buf))
  <2>1. m_message = << >> /\ Len(m_message) = 0 /\ processed = << >>
    BY <1>3 DEF Package, IInv, NothingBeforeFirstPackage
  <2>2. m_message' \in Seq(Nat)
    <3>1. CASE NoPart(buf)
      BY <1>1, <3>1 DEF NoPart
    <3>2. CASE FirstPart(buf)
      <4>1. PICK skip \in {3, request.header} :
              skip <= Len(buf) /\ m_message' = SubSeq(buf, skip + 1, Len(buf))
        BY <3>2 DEF FirstPart
      <4>2. skip \in Nat
        <5>1. request \in Requests
          BY DEF IInv, TypeOK, StreamTypeOK
        <5>2. request.header \in Nat
          BY <5>1, RequestBounds
        <5> QED BY <5>2
      <4>3. \A i \in skip + 1..Len(buf) : buf[i] \in Nat
        BY <1>1, <4>2
      <4> QED BY <1>1, <4>1, <4>2, <4>3, SubSeqProperties
    <3> QED BY <1>3, <3>1, <3>2
  <2>3. Len(m_message') \in Nat
    BY <2>2, LenProperties
  <2> QED BY <1>1, <1>3, <2>1, <2>2, <2>3
<1> QED BY <1>2, <1>3 DEF Package

-----------------------------------------------------------------------------
(* No step takes back a byte of the message, and the type and the length   *)
(* of a request are final once its first package is done.                  *)
LEMMA FinalStep ==
  ASSUME IInv, [Next]_vars
  PROVE  /\ SubSeq(m_message', 1, Len(m_message)) = m_message
         /\ m_packageCounter # 0 =>
              UNCHANGED << m_packageCounter, m_packageType, m_contentLength >>
<1>1. m_message \in Seq(Nat) /\ Len(m_message) \in Nat
  BY LenProperties DEF IInv, TypeOK
<1>2. CASE Quiet
  <2>1. SubSeq(m_message, 1, Len(m_message)) = m_message
    BY <1>1
  <2> QED BY <1>2, <2>1 DEF Quiet
<1>3. ASSUME NEW buf \in Seq(Nat), Len(buf) >= 1, Package(buf)
      PROVE  /\ SubSeq(m_message', 1, Len(m_message)) = m_message
             /\ m_packageCounter # 0 =>
                  UNCHANGED << m_packageCounter, m_packageType, m_contentLength >>
  <2>1. SubSeq(m_message', 1, Len(m_message)) = m_message
    BY <1>3, MessageGrows
  <2>2. m_packageCounter # 0 =>
          UNCHANGED << m_packageCounter, m_packageType, m_contentLength >>
    BY <1>3 DEF Package, LaterPart
  <2> QED BY <2>1, <2>2
<1> QED BY <1>2, <1>3, NextData

(* Whatever the reads return and however they interleave, the message only *)
(* grows at its end and the request is classified once.                    *)
THEOREM MessageFinal == Spec => FirstPackageIsFinal
<1>1. IInv /\ [Next]_vars =>
        [ /\ SubSeq(m_message', 1, Len(m_message)) = m_message
          /\ m_packageCounter # 0 =>
               UNCHANGED << m_packageCounter, m_packageType, m_contentLength >> ]_vars
  BY FinalStep
<1> QED BY <1>1, Invariance, PTL DEF Spec, FirstPackageIsFinal
-----------------------------------------------------------------------------
(***************************************************************************)
(* What is processed.                                                      *)
(***************************************************************************)
(* ProcessedGrows needs that nothing longer than the message was processed *)
(* and, for the tolerance of two bytes, that size_t does not wrap there.   *)
PrefixInv ==
  /\ ProcessedGrows
  /\ \A i \in DOMAIN processed : Len(processed[i]) <= Len(m_message)

LongEnough ==
  Complete(m_transferredTotal, m_contentLength) => Len(m_message) + 2 >= m_contentLength

LEMMA CompleteIsLong == IInv => LongEnough
<1> SUFFICES ASSUME IInv, Complete(m_transferredTotal, m_contentLength)
             PROVE  Len(m_message) + 2 >= m_contentLength
  BY DEF LongEnough
<1>1. /\ Len(m_message) \in Nat /\ Queued \in Nat /\ received \in 0..Total
      /\ request \in Requests /\ m_contentLength \in 0..SizeModulus - 1
  BY Counts DEF IInv, TypeOK, StreamTypeOK
<1>2. Total \in Nat /\ SizeModulus \in Nat /\ Total + 2 < SizeModulus
  BY <1>1, RequestBounds
<1>3. Len(m_message) + Queued <= received /\ m_transferredTotal = Len(m_message)
  BY DEF IInv, StoredWereReceived, TransferredMatchesMessage
<1>4. Len(m_message) + 2 < SizeModulus
  BY <1>1, <1>2, <1>3
<1>5. Plus(m_transferredTotal, 2) = Len(m_message) + 2
  BY <1>3, <1>4 DEF Plus
<1>6. Plus(m_transferredTotal, 2) >= m_contentLength
  BY Zenon DEF Complete
<1> QED BY <1>5, <1>6, Zenon

LEMMA PrefixStep ==
  ASSUME IInv, LongEnough', PrefixInv, [Next]_vars
  PROVE  PrefixInv'
<1>1. CASE Quiet
  BY <1>1 DEF Quiet, PrefixInv, ProcessedGrows
<1>2. ASSUME NEW buf \in Seq(Nat), Len(buf) >= 1, Package(buf)
      PROVE  PrefixInv'
  <2>1. /\ processed \in Seq(Seq(Nat)) /\ Len(processed) \in Nat
        /\ DOMAIN processed = 1..Len(processed)
        /\ \A i \in 1..Len(processed) : Len(processed[i]) \in Nat
    BY LenProperties DEF IInv, TypeOK
  <2>2. /\ m_message' \in Seq(Nat) /\ Len(m_message) \in Nat /\ Len(m_message') \in Nat
        /\ Len(m_message) <= Len(m_message')
        /\ m_packageCounter = 0 => Len(processed) = 0
        /\ m_packageCounter # 0 => Len(m_message) < Len(m_message')
        /\ \A i \in 1..Len(m_message) : m_message'[i] = m_message[i]
    BY <1>2, MessageGrows
  <2>3. \A i \in 1..Len(processed) :
          /\ Len(processed[i]) + 2 >= m_contentLength'
          /\ processed[i] = SubSeq(m_message', 1, Len(processed[i]))
          /\ Len(processed[i]) < Len(m_message')
    <3>1. TAKE i \in 1..Len(processed)
    <3>2. m_packageCounter # 0
      BY <2>1, <2>2
    <3>3. /\ Len(processed[i]) + 2 >= m_contentLength
          /\ processed[i] = SubSeq(m_message, 1, Len(processed[i]))
          /\ Len(processed[i]) <= Len(m_message)
      BY <2>1 DEF PrefixInv, ProcessedGrows
    <3>4. m_contentLength' = m_contentLength
      BY <1>2, <3>2 DEF Package, LaterPart
    <3>5. SubSeq(m_message', 1, Len(processed[i])) = SubSeq(m_message, 1, Len(processed[i]))
      BY <2>1, <2>2, <3>3
    <3>6. Len(processed[i]) < Len(m_message')
      BY <2>1, <2>2, <3>2, <3>3
    <3> QED BY <3>3, <3>4, <3>5, <3>6
  <2>4. \A i, j \in 1..Len(processed) : i < j => Len(processed[i]) < Len(processed[j])
    BY <2>1 DEF PrefixInv, ProcessedGrows
  <2>5. CASE processed' = processed
    BY <2>1, <2>2, <2>3, <2>4, <2>5 DEF PrefixInv, ProcessedGrows
  <2>6. CASE /\ processed' = Append(processed, m_message')
             /\ Complete(m_transferredTotal', m_contentLength')
    <3>1. /\ Len(processed') = Len(processed) + 1
          /\ DOMAIN processed' = 1..Len(processed) + 1
          /\ \A i \in 1..Len(processed) : processed'[i] = processed[i]
          /\ processed'[Len(processed) + 1] = m_message'
      BY <2>1, <2>2, <2>6, AppendProperties
    <3>2. Len(m_message') + 2 >= m_contentLength'
      BY <2>6 DEF LongEnough
    <3>3. m_message' = SubSeq(m_message', 1, Len(m_message'))
      BY <2>2
    <3>4. \A i \in DOMAIN processed' : i \in 1..Len(processed) \/ i = Len(processed) + 1
      BY <2>1, <3>1
    <3>5. \A i \in DOMAIN processed' :
            /\ Len(processed'[i]) + 2 >= m_contentLength'
            /\ processed'[i] = SubSeq(m_message', 1, Len(processed'[i]))
            /\ Len(processed'[i]) <= Len(m_message')
      <4>1. TAKE i \in DOMAIN processed'
      <4>2. CASE i \in 1..Len(processed)
        <5>1. processed'[i] = processed[i]
          BY <3>1, <4>2
        <5>2. Len(processed[i]) <= Len(m_message')
          BY <2>1, <2>2, <2>3, <4>2
        <5> QED BY <2>3, <4>2, <5>1, <5>2
      <4>3. CASE i = Len(processed) + 1
        <5>1. processed'[i] = m_message'
          BY <3>1, <4>3
        <5> QED BY <2>2, <3>2, <3>3, <5>1
      <4> QED BY <3>4, <4>2, <4>3
    <3>6. ASSUME NEW i \in DOMAIN processed', NEW j \in DOMAIN processed', i < j
          PROVE  Len(processed'[i]) < Len(processed'[j])
      <4>1. i \in 1..Len(processed)
        BY <2>1, <3>1, <3>6
      <4>2. CASE j \in 1..Len(processed)
        BY <2>4, <3>1, <3>6, <4>1, <4>2
      <4>3. CASE j = Len(processed) + 1
        BY <2>3, <3>1, <4>1, <4>3
      <4> QED BY <3>4, <4>2, <4>3
    <3> QED BY <3>5, <3>6 DEF PrefixInv, ProcessedGrows
  <2>7. Stored \/ processed' = processed
    BY <1>2 DEF Package, FirstPart, LaterPart, NoPart
  <2> QED BY <2>5, <2>6, <2>7 DEF Stored
<1> QED BY <1>1, <1>2, NextData

(* The callback is given growing starts of the message, never the same     *)
(* bytes twice and never more than two bytes too few.                      *)
THEOREM ProcessedPrefixes == Spec => []ProcessedGrows
<1>1. Init => PrefixInv
  BY DEF Init, PrefixInv, ProcessedGrows
<1>2. IInv /\ LongEnough' /\ PrefixInv /\ [Next]_vars => PrefixInv'
  BY PrefixStep
<1>3. PrefixInv => ProcessedGrows
  BY DEF PrefixInv
<1> QED BY <1>1, <1>2, <1>3, Invariance, CompleteIsLong, PTL DEF Spec
-----------------------------------------------------------------------------
(***************************************************************************)
(* What is answered.                                                       *)
(***************************************************************************)
(* What AnswersMatch asks of an answer that has arrived.                   *)
Deserved(answer, done, type) ==
  CASE answer.kind = "machine" -> \E j \in DOMAIN done : done[j] = answer.machine
    [] answer.kind = "garbled" -> Len(done) = 2
    [] OTHER -> type \in {"GET", "OPTIONS"}

AnswersCounted ==
  Len(answers) + Len(writes) <=
    IF m_packageType \in {"GET", "OPTIONS"} THEN 1 ELSE Len(processed)

AnswersDeserved ==
  \A i \in DOMAIN answers : Deserved(answers[i], processed, m_packageType)

(* The same of the answers still being written, and where they can mix.    *)
WritesDeserved ==
  \A i \in DOMAIN writes :
    /\ Deserved(writes[i].answer, processed, m_packageType)
    /\ ~ writes[i].intact => Len(processed) = 2

AnswersInv ==
  /\ AnswersCounted
  /\ AnswersDeserved
  /\ WritesDeserved
  /\ m_packageCounter = 1 => m_packageType = "POST"

AtMostTwo == Len(processed) <= 2

LEMMA ProcessedTwice == IInv => AtMostTwo
BY Counts DEF AtMostTwo, Sum, SumNat, Readers

(* The pending answers after another one has been started.                 *)
LEMMA AsyncWriteData ==
  ASSUME writes \in Seq(WriteType), NEW answer \in AnswerType, AsyncWrite(answer)
  PROVE  /\ Len(writes) \in Nat /\ Len(writes') = Len(writes) + 1
         /\ DOMAIN writes' = 1..Len(writes) + 1
         /\ \A i \in 1..Len(writes) : writes'[i].answer = writes[i].answer
         /\ writes'[Len(writes) + 1].answer = answer
         /\ \A i \in DOMAIN writes' : ~ writes'[i].intact => Len(writes) >= 1
<1> DEFINE old == [i \in DOMAIN writes |-> [writes[i] EXCEPT !.intact = FALSE]]
           new == [answer |-> answer, intact |-> writes = << >>]
<1>1. /\ Len(writes) \in Nat /\ DOMAIN writes = 1..Len(writes)
      /\ \A i \in 1..Len(writes) : writes[i] \in WriteType
  BY LenProperties, ElementOfSeq
<1>2. old \in Seq(WriteType) /\ new \in WriteType
  <2>1. old \in [1..Len(writes) -> WriteType]
    BY <1>1 DEF WriteType
  <2>2. new \in WriteType
    BY DEF WriteType
  <2> QED BY <1>1, <2>1, <2>2, SeqDef
<1>3. Len(old) = Len(writes)
  BY <1>1
<1>4. \A i \in 1..Len(writes) : old[i].answer = writes[i].answer
  BY <1>1 DEF WriteType
<1>5. new.answer = answer /\ (~ new.intact => Len(writes) >= 1)
  <2>1. new.answer = answer
    OBVIOUS
  <2>2. writes = << >> => new.intact = TRUE
    BY Zenon
  <2>3. writes # << >> => Len(writes) >= 1
    BY <1>1, EmptySeq
  <2> QED BY <2>1, <2>2, <2>3
<1>6. writes' = Append(old, new)
  BY DEF AsyncWrite
<1> HIDE DEF old, new
<1>7. /\ Len(writes') = Len(writes) + 1
      /\ writes' \in Seq(WriteType) /\ DOMAIN writes' = 1..Len(writes')
      /\ \A i \in 1..Len(writes) : writes'[i] = old[i]
      /\ writes'[Len(writes) + 1] = new
  BY <1>1, <1>2, <1>3, <1>6, AppendProperties, LenProperties
<1>8. \A i \in DOMAIN writes' : i \in 1..Len(writes) \/ i = Len(writes) + 1
  BY <1>1, <1>7
<1>9. \A i \in DOMAIN writes' : ~ writes'[i].intact => Len(writes) >= 1
  BY <1>1, <1>5, <1>7, <1>8
<1> QED BY <1>1, <1>4, <1>5, <1>7, <1>9

(* Before the first package nothing has been or is being answered.         *)
LEMMA NothingAnsweredBefore ==
  ASSUME IInv, AnswersInv, m_packageCounter = 0, io # "ended",
         m_packageType \notin {"GET", "OPTIONS"}
  PROVE  answers = << >> /\ writes = << >> /\ processed = << >>
<1>1. answers \in Seq(AnswerType) /\ writes \in Seq(WriteType)
  BY BeforeQuiet
<1>2. processed = << >> /\ Len(processed) = 0
  BY DEF IInv, NothingBeforeFirstPackage
<1>3. Len(answers) + Len(writes) <= 0 /\ Len(answers) \in Nat /\ Len(writes) \in Nat
  BY <1>1, <1>2, LenProperties DEF AnswersInv, AnswersCounted
<1> QED BY <1>1, <1>2, <1>3, EmptySeq

(* A machine given to the callback leaves every answer deserved.           *)
LEMMA DeservedLater ==
  ASSUME NEW answer, NEW done \in Seq(Seq(Nat)), NEW machine \in Seq(Nat),
         Len(done) + 1 <= 2, Deserved(answer, done, "POST")
  PROVE  Deserved(answer, Append(done, machine), "POST")
<1> DEFINE later == Append(done, machine)
<1>1. /\ Len(done) \in Nat /\ DOMAIN done = 1..Len(done)
      /\ DOMAIN later = 1..Len(done) + 1
      /\ \A i \in 1..Len(done) : later[i] = done[i]
  BY LenProperties, AppendProperties
<1> HIDE DEF later
<1>2. Len(done) # 2
  BY <1>1
<1>3. answer.kind = "machine" /\ \E j \in DOMAIN done : done[j] = answer.machine
  BY <1>2 DEF Deserved
<1>4. \E j \in DOMAIN later : later[j] = answer.machine
  BY <1>1, <1>3
<1> QED BY <1>3, <1>4, Zenon DEF Deserved, later

LEMMA StoredAnswers ==
  ASSUME IInv, AtMostTwo', AnswersInv, Stored, UNCHANGED answers,
         m_message' \in Seq(Nat), m_packageType' = "POST",
         m_packageType = "POST" \/ (answers = << >> /\ writes = << >>)
  PROVE  AnswersInv'
<1>1. /\ writes \in Seq(WriteType) /\ answers \in Seq(AnswerType)
      /\ processed \in Seq(Seq(Nat)) /\ Len(processed) \in Nat
      /\ Len(answers) \in Nat /\ Len(writes) \in Nat
      /\ DOMAIN processed = 1..Len(processed)
      /\ DOMAIN answers = 1..Len(answers) /\ DOMAIN writes = 1..Len(writes)
  BY BeforeQuiet, LenProperties DEF IInv, TypeOK
<1>2. Len(answers) + Len(writes) <= Len(processed)
  <2>1. CASE m_packageType = "POST"
    BY <2>1 DEF AnswersInv, AnswersCounted
  <2>2. CASE answers = << >> /\ writes = << >>
    BY <1>1, <2>2
  <2> QED BY <2>1, <2>2
<1>3. /\ \A i \in DOMAIN answers : Deserved(answers[i], processed, "POST")
      /\ \A i \in DOMAIN writes :
           /\ Deserved(writes[i].answer, processed, "POST")
           /\ ~ writes[i].intact => Len(processed) = 2
  <2>1. CASE m_packageType = "POST"
    BY <2>1 DEF AnswersInv, AnswersDeserved, WritesDeserved
  <2>2. CASE answers = << >> /\ writes = << >>
    BY <2>2
  <2> QED BY <2>1, <2>2
<1>4. CASE UNCHANGED << processed, writes >>
  BY <1>2, <1>3, <1>4 DEF AnswersInv, AnswersCounted, AnswersDeserved, WritesDeserved
<1>5. CASE /\ processed' = Append(processed, m_message')
           /\ AsyncWrite(Answer("machine", m_message')) \/ UNCHANGED writes
  <2>1. /\ Len(processed') = Len(processed) + 1
        /\ DOMAIN processed' = 1..Len(processed) + 1
        /\ processed'[Len(processed) + 1] = m_message'
    BY <1>1, <1>5, AppendProperties
  <2>2. Len(processed) + 1 <= 2
    BY <2>1 DEF AtMostTwo
  <2>3. ASSUME NEW answer, Deserved(answer, processed, "POST")
        PROVE  Deserved(answer, processed', "POST")
    BY <1>1, <1>5, <2>2, <2>3, DeservedLater
  <2>4. AnswersDeserved'
    BY <1>1, <1>3, <2>3 DEF AnswersDeserved
  <2>5. CASE UNCHANGED writes
    <3>1. WritesDeserved'
      <4>1. \A i \in DOMAIN writes : Deserved(writes[i].answer, processed', "POST")
        BY <1>3, <2>3
      <4>2. \A i \in DOMAIN writes : writes[i].intact
        BY <1>1, <1>3, <2>2
      <4> QED BY <2>5, <4>1, <4>2 DEF WritesDeserved
    <3>2. AnswersCounted'
      BY <1>1, <1>2, <2>1, <2>5 DEF AnswersCounted
    <3> QED BY <2>4, <3>1, <3>2 DEF AnswersInv
  <2>6. CASE AsyncWrite(Answer("machine", m_message'))
    <3> DEFINE answer == Answer("machine", m_message')
    <3>1. answer \in AnswerType
      BY DEF Answer, AnswerType
    <3>2. answer.kind = "machine" /\ answer.machine = m_message'
      BY DEF Answer
    <3> HIDE DEF answer
    <3>3. /\ Len(writes') = Len(writes) + 1
          /\ DOMAIN writes' = 1..Len(writes) + 1
          /\ \A i \in 1..Len(writes) : writes'[i].answer = writes[i].answer
          /\ writes'[Len(writes) + 1].answer = answer
          /\ \A i \in DOMAIN writes' : ~ writes'[i].intact => Len(writes) >= 1
      BY <1>1, <2>6, <3>1, AsyncWriteData DEF answer
    <3>4. Deserved(answer, processed', "POST")
      <4>1. Len(processed) + 1 \in DOMAIN processed'
        BY <1>1, <2>1
      <4> QED BY <2>1, <3>2, <4>1 DEF Deserved
    <3>5. \A i \in DOMAIN writes' : Deserved(writes'[i].answer, processed', "POST")
      <4>1. TAKE i \in DOMAIN writes'
      <4>2. CASE i \in 1..Len(writes)
        <5>1. Deserved(writes[i].answer, processed', "POST")
          BY <1>1, <1>3, <2>3, <4>2
        <5> QED BY <3>3, <4>2, <5>1
      <4>3. CASE i = Len(writes) + 1
        BY <3>3, <3>4, <4>3
      <4> QED BY <1>1, <3>3, <4>2, <4>3
    <3>6. \A i \in DOMAIN writes' : ~ writes'[i].intact => Len(processed') = 2
      BY <1>1, <1>2, <2>1, <2>2, <3>3
    <3>7. AnswersCounted'
      BY <1>1, <1>2, <2>1, <3>3 DEF AnswersCounted
    <3>8. WritesDeserved'
      BY <3>5, <3>6 DEF WritesDeserved
    <3> QED BY <2>4, <3>7, <3>8 DEF AnswersInv
  <2> QED BY <1>5, <2>5, <2>6
<1> QED BY <1>4, <1>5 DEF Stored
(* The only answer of a GET or OPTIONS request is its own.                 *)
LEMMA FirstAnswer ==
  ASSUME answers = << >>, writes = << >>, processed = << >>, m_packageCounter = 0,
         NEW buf, NoPart(buf), UNCHANGED answers
  PROVE  AnswersInv'
<1>1. CASE UNCHANGED writes
  BY <1>1 DEF AnswersInv, AnswersCounted, AnswersDeserved, WritesDeserved, NoPart
<1>2. ASSUME NEW kind \in {"pong", "options"}, AsyncWrite(Answer(kind, << >>)),
             m_packageType' \in {"GET", "OPTIONS"}
      PROVE  AnswersInv'
  <2>1. writes \in Seq(WriteType) /\ Len(writes) = 0
    BY EmptySeq
  <2>2. Answer(kind, << >>) \in AnswerType /\ Answer(kind, << >>).kind = kind
    BY EmptySeq DEF Answer, AnswerType
  <2>3. /\ Len(writes') = 1 /\ DOMAIN writes' = 1..1
        /\ writes'[1].answer.kind = kind
        /\ \A i \in DOMAIN writes' : writes'[i].intact
    BY <1>2, <2>1, <2>2, AsyncWriteData
  <2>4. WritesDeserved'
    <3>1. Deserved(writes'[1].answer, processed', m_packageType')
      BY <1>2, <2>3 DEF Deserved
    <3> QED BY <2>3, <3>1 DEF WritesDeserved
  <2>5. AnswersCounted' /\ AnswersDeserved'
    BY <1>2, <2>3 DEF AnswersCounted, AnswersDeserved
  <2> QED BY <2>4, <2>5 DEF AnswersInv, NoPart
<1> QED BY <1>1, <1>2 DEF NoPart

(* An answer arrives as composed, or garbled when it was not alone.        *)
LEMMA WriteAnswers ==
  ASSUME IInv, AnswersInv, handleWrite
  PROVE  AnswersInv'
<1>1. /\ writes # << >> /\ writes' = Tail(writes)
      /\ UNCHANGED << processed, m_packageType, m_packageCounter >>
      /\ \/ UNCHANGED answers
         \/ \E answer \in Delivered(Head(writes)) : answers' = Append(answers, answer)
  BY DEF handleWrite, packageVars
<1>2. /\ writes \in Seq(WriteType) /\ answers \in Seq(AnswerType)
      /\ Len(answers) \in Nat /\ Len(writes) \in Nat
      /\ DOMAIN answers = 1..Len(answers) /\ DOMAIN writes = 1..Len(writes)
  BY BeforeQuiet, LenProperties
<1>3. /\ Len(writes') = Len(writes) - 1
      /\ DOMAIN writes' = 1..Len(writes) - 1
      /\ \A i \in 1..Len(writes) - 1 : writes'[i] = writes[i + 1]
      /\ Head(writes) = writes[1] /\ 1 \in DOMAIN writes
      /\ Head(writes) \in WriteType
  BY <1>1, <1>2, HeadTailProperties, EmptySeq, LenProperties
<1>4. WritesDeserved'
  <2>1. \A i \in DOMAIN writes' : i + 1 \in DOMAIN writes /\ writes'[i] = writes[i + 1]
    BY <1>2, <1>3
  <2> QED BY <1>1, <2>1 DEF AnswersInv, WritesDeserved
<1>5. CASE UNCHANGED answers
  BY <1>1, <1>2, <1>3, <1>4, <1>5 DEF AnswersInv, AnswersCounted, AnswersDeserved
<1>6. ASSUME NEW answer \in Delivered(Head(writes)), answers' = Append(answers, answer)
      PROVE  AnswersInv'
  <2>1. answer \in AnswerType /\ Deserved(answer, processed, m_packageType)
    <3>1. CASE answer = Head(writes).answer
      <4>1. Deserved(writes[1].answer, processed, m_packageType)
        BY <1>3 DEF AnswersInv, WritesDeserved
      <4> QED BY <1>3, <3>1, <4>1 DEF WriteType
    <3>2. CASE answer = Garbled /\ ~ Head(writes).intact
      <4>1. Len(processed) = 2
        BY <1>3, <3>2 DEF AnswersInv, WritesDeserved
      <4>2. answer.kind = "garbled" /\ answer \in AnswerType
        BY <3>2, EmptySeq DEF Garbled, Answer, AnswerType
      <4> QED BY <4>1, <4>2 DEF Deserved
    <3>3. answer = Head(writes).answer \/ (answer = Garbled /\ ~ Head(writes).intact)
      BY <1>6, Zenon DEF Delivered
    <3> QED BY <3>1, <3>2, <3>3
  <2>2. /\ Len(answers') = Len(answers) + 1
        /\ DOMAIN answers' = 1..Len(answers) + 1
        /\ \A i \in 1..Len(answers) : answers'[i] = answers[i]
        /\ answers'[Len(answers) + 1] = answer
    BY <1>2, <1>6, <2>1, AppendProperties, LenProperties
  <2>3. AnswersDeserved'
    <3>1. \A i \in DOMAIN answers' : i \in DOMAIN answers \/ i = Len(answers) + 1
      BY <1>2, <2>2
    <3> QED BY <1>1, <1>2, <2>1, <2>2, <3>1 DEF AnswersInv, AnswersDeserved
  <2>4. AnswersCounted'
    BY <1>1, <1>2, <1>3, <2>2 DEF AnswersInv, AnswersCounted
  <2> QED BY <1>1, <1>4, <2>3, <2>4 DEF AnswersInv
<1> QED BY <1>1, <1>5, <1>6

LEMMA AnswersStep ==
  ASSUME IInv, AtMostTwo', AnswersInv, [Next]_vars
  PROVE  AnswersInv'
<1>1. CASE Quiet
  <2>1. CASE handleWrite
    BY <2>1, WriteAnswers
  <2>2. CASE UNCHANGED << writes, answers >>
    BY <1>1, <2>2 DEF Quiet, AnswersInv, AnswersCounted, AnswersDeserved, WritesDeserved
  <2> QED BY <1>1, <2>1, <2>2 DEF Quiet
<1>2. ASSUME NEW buf \in Seq(Nat), Len(buf) >= 1, Package(buf)
      PROVE  AnswersInv'
  <2>1. UNCHANGED answers /\ m_message' \in Seq(Nat)
    BY <1>2, MessageGrows DEF Package
  <2>2. CASE m_packageCounter # 0 /\ LaterPart(buf)
    <3>1. m_packageCounter = 1
      BY <2>2 DEF IInv, TypeOK
    <3>2. m_packageType = "POST" /\ m_packageType' = "POST"
      BY <2>2, <3>1 DEF AnswersInv, LaterPart
    <3> QED BY <2>1, <2>2, <3>2, StoredAnswers DEF LaterPart
  <2>3. CASE m_packageCounter = 0 /\ (FirstPart(buf) \/ NoPart(buf))
    <3>1. answers = << >> /\ writes = << >> /\ processed = << >>
      BY <1>2, <2>3, NothingAnsweredBefore DEF Package
    <3>2. CASE FirstPart(buf)
      BY <2>1, <3>1, <3>2, StoredAnswers DEF FirstPart
    <3>3. CASE NoPart(buf)
      BY <2>1, <2>3, <3>1, <3>3, FirstAnswer
    <3> QED BY <2>3, <3>2, <3>3
  <2> QED BY <1>2, <2>2, <2>3 DEF Package
<1> QED BY <1>1, <1>2, NextData

(* What the client receives was computed from what was processed, once per *)
(* time it was processed, and is garbled only when two answers were mixed. *)
THEOREM AnswersAreDeserved == Spec => []AnswersMatch
<1>1. Init => AnswersInv
  BY EmptySeq DEF Init, StreamInit, AnswersInv, AnswersCounted, AnswersDeserved,
     WritesDeserved
<1>2. IInv /\ AtMostTwo' /\ AnswersInv /\ [Next]_vars => AnswersInv'
  BY AnswersStep
<1>3. AnswersInv => AnswersMatch
  BY Zenon DEF AnswersInv, AnswersCounted, AnswersDeserved, AnswersMatch, Deserved
<1> QED BY <1>1, <1>2, <1>3, Invariance, ProcessedTwice, PTL DEF Spec
-----------------------------------------------------------------------------
(***************************************************************************)
(* In which order the bytes are stored.                                    *)
(***************************************************************************)
Contiguous(bytes, first) == \A i \in 1..Len(bytes) : bytes[i] = first + i - 1

(* Number of bytes handlers have been given.                               *)
HandedOver == received - Queued

(* The one queued handler will find the last bytes received.               *)
BufferInOrder ==
  /\ Len(filled) <= 1
  /\ \A i \in 1..Queued : m_buffer[i] = received - Queued + i

(* The first package begins with the first byte of the stream.             *)
FirstPackageIsFirst ==
  /\ (m_packageCounter = 0 /\ io # "ended" /\ Readers > 0) => received = Queued
  /\ (io = "blocked" /\ resume # << >>) =>
       Contiguous(resume, 1) /\ Len(resume) = received

(* What has been handed over is stored up to its end.                      *)
MessageInOrder ==
  (m_packageCounter = 1 \/ m_message # << >>) =>
    \E first \in {4, request.header + 1} :
      /\ Contiguous(m_message, first)
      /\ first + Len(m_message) = HandedOver + 1

OrderInv ==
  ~ overwritten => BufferInOrder /\ FirstPackageIsFirst /\ MessageInOrder

(* The bytes a handler is given continue those handed over before.         *)
HandedInOrder(buf) ==
  ~ overwritten' =>
    /\ ~ overwritten
    /\ filled' = << >>
    /\ HandedOver' = HandedOver + Len(buf)
    /\ Contiguous(buf, HandedOver + 1)
    /\ Readers > 0

LEMMA ArrivedInOrder ==
  ASSUME IInv, handleReadArrived
  PROVE  \E buf \in Seq(Nat) :
           /\ Len(buf) >= 1 /\ ReadHandedOver(buf) /\ processPackage(buf)
           /\ HandedInOrder(buf)
<1>1. PICK n \in 1..BufferSize :
        LET buf == SubSeq(Refilled(n), 1, n)
        IN /\ Fill(n)
           /\ buf \in Seq(Nat) /\ Len(buf) = n /\ ReadHandedOver(buf)
           /\ processPackage(buf)
  BY ReadArrivedHandsOver
<1> DEFINE buf == SubSeq(Refilled(n), 1, n)
<1>2. filled = << >> /\ filled' = << >> /\ Queued = 0 /\ Queued' = 0 /\ reads > 0
  <2>1. filled = << >> /\ filled' = << >> /\ reads > 0
    BY DEF handleReadArrived, WaitingReadDone
  <2> QED BY <2>1 DEF Queued
<1>3. received \in Nat /\ BufferSize \in Nat /\ n \in Nat /\ SumNat
  BY Counts
<1>4. Contiguous(buf, received + 1)
  <2>1. SUFFICES ASSUME NEW i \in 1..Len(buf) PROVE buf[i] = received + 1 + i - 1
    BY DEF Contiguous
  <2>2. i \in 1..n /\ i \in 1..BufferSize /\ i <= n
    BY <1>1, <1>3
  <2>3. buf[i] = Refilled(n)[i]
    BY <1>3, <2>2
  <2>4. Refilled(n)[i] = received + i
    BY <2>2 DEF Refilled
  <2> QED BY <1>3, <2>2, <2>3, <2>4
<1>5. ~ overwritten' => ~ overwritten
  BY <1>1, Zenon DEF Fill
<1>6. HandedOver' = HandedOver + Len(buf) /\ HandedOver + 1 = received + 1
  BY <1>1, <1>2, <1>3 DEF Fill, HandedOver
<1>7. Readers > 0
  BY <1>2, <1>3 DEF Readers, SumNat
<1>8. buf \in Seq(Nat) /\ Len(buf) >= 1 /\ ReadHandedOver(buf) /\ processPackage(buf)
  BY <1>1, <1>3
<1> HIDE DEF buf
<1>9. HandedInOrder(buf)
  BY <1>2, <1>4, <1>5, <1>6, <1>7, Zenon DEF HandedInOrder
<1> QED BY <1>8, <1>9

LEMMA QueuedInOrder ==
  ASSUME IInv, OrderInv, handleReadQueued
  PROVE  \E buf \in Seq(Nat) :
           /\ Len(buf) >= 1 /\ ReadHandedOver(buf) /\ processPackage(buf)
           /\ HandedInOrder(buf)
<1> DEFINE buf == SubSeq(m_buffer, 1, Head(filled))
<1>1. /\ UNCHANGED << received, m_buffer, overwritten >>
      /\ filled # << >> /\ filled' \in Seq(1..BufferSize)
      /\ Len(filled') = Len(filled) - 1
      /\ Head(filled) \in 1..BufferSize /\ Head(filled) = filled[1]
      /\ buf \in Seq(Nat) /\ Len(buf) = Head(filled)
      /\ ReadHandedOver(buf) /\ processPackage(buf)
  BY ReadQueuedHandsOver
<1>2. /\ received \in Nat /\ BufferSize \in Nat /\ SumNat
      /\ Len(filled) \in Nat /\ Len(filled) >= 1
  <2>1. received \in Nat /\ BufferSize \in Nat /\ SumNat /\ filled \in Seq(1..BufferSize)
    BY Counts DEF IInv, TypeOK, StreamTypeOK
  <2> QED BY <1>1, <2>1, EmptySeq, LenProperties
<1>3. ASSUME ~ overwritten
      PROVE  /\ filled' = << >> /\ Queued = Len(buf)
             /\ HandedOver' = HandedOver + Len(buf)
             /\ Contiguous(buf, HandedOver + 1)
  <2>1. BufferInOrder
    BY <1>3, Zenon DEF OrderInv
  <2>2. Len(filled) = 1
    BY <1>2, <2>1 DEF BufferInOrder
  <2>3. filled' = << >>
    BY <1>1, <2>2, EmptySeq
  <2>4. Queued = Len(buf) /\ Len(buf) \in Nat /\ Len(buf) <= BufferSize
    BY <1>1, <1>2, <2>2 DEF Queued
  <2>5. \A i \in 1..Len(buf) : buf[i] = m_buffer[i]
    BY <1>1, <1>2, <2>4
  <2>6. \A i \in 1..Len(buf) : m_buffer[i] = received - Queued + i
    BY <2>1, <2>4 DEF BufferInOrder
  <2> HIDE DEF buf
  <2>7. Contiguous(buf, HandedOver + 1)
    BY <1>2, <2>4, <2>5, <2>6 DEF Contiguous, HandedOver
  <2>8. HandedOver' = HandedOver + Len(buf)
    <3>1. Queued' = 0
      BY <2>3 DEF Queued
    <3> QED BY <1>1, <1>2, <2>4, <3>1 DEF HandedOver
  <2> QED BY <2>3, <2>4, <2>7, <2>8
<1>4. Readers > 0
  BY <1>2 DEF Readers, SumNat
<1>5. Len(buf) >= 1
  BY <1>1, <1>2
<1> HIDE DEF buf
<1>6. HandedInOrder(buf)
  BY <1>1, <1>3, <1>4, Zenon DEF HandedInOrder
<1> QED BY <1>1, <1>5, <1>6

(* Two facts about sequences of consecutive bytes.                         *)
LEMMA AppendContiguous ==
  ASSUME NEW m \in Seq(Nat), NEW buf \in Seq(Nat), NEW first \in Nat, NEW end \in Nat,
         Contiguous(m, first), first + Len(m) = end + 1, Contiguous(buf, end + 1)
  PROVE  /\ Contiguous(m \o buf, first)
         /\ first + Len(m \o buf) = end + Len(buf) + 1
<1> DEFINE both == m \o buf
<1>1. /\ Len(m) \in Nat /\ Len(buf) \in Nat
      /\ Len(both) = Len(m) + Len(buf)
      /\ \A i \in 1..Len(m) + Len(buf) :
           both[i] = IF i <= Len(m) THEN m[i] ELSE buf[i - Len(m)]
  BY ConcatProperties, LenProperties
<1> HIDE DEF both
<1>2. ASSUME NEW i \in 1..Len(both)
      PROVE  both[i] = first + i - 1
  <2>1. CASE i <= Len(m)
    <3>1. m[i] = first + i - 1
      BY <1>1, <2>1 DEF Contiguous
    <3> QED BY <1>1, <2>1, <3>1
  <2>2. CASE ~ (i <= Len(m))
    <3>1. i \in 1..Len(m) + Len(buf) /\ i - Len(m) \in 1..Len(buf)
      BY <1>1, <2>2
    <3>2. both[i] = buf[i - Len(m)]
      BY <1>1, <2>2, <3>1
    <3>3. buf[i - Len(m)] = end + 1 + (i - Len(m)) - 1
      BY <3>1 DEF Contiguous
    <3>4. end + 1 + (i - Len(m)) - 1 = first + i - 1
      <4>1. i \in Int /\ Len(m) \in Int /\ first + Len(m) = end + 1
        BY <1>1
      <4> QED BY <4>1
    <3> QED BY <3>2, <3>3, <3>4, Zenon
  <2> QED BY <2>1, <2>2
<1>3. Contiguous(both, first)
  BY <1>1, <1>2 DEF Contiguous
<1>4. first + Len(both) = end + Len(buf) + 1
  <2>1. PICK a \in Nat : a = Len(m)
    BY <1>1
  <2>2. PICK b \in Nat : b = Len(buf)
    BY <1>1
  <2>3. Len(both) = a + b /\ first + a = end + 1
    BY <1>1, <2>1, <2>2, Zenon
  <2>4. first + (a + b) = end + b + 1
    BY <2>3
  <2> QED BY <2>2, <2>3, <2>4, Zenon
<1> QED BY <1>3, <1>4 DEF both

LEMMA SkipContiguous ==
  ASSUME NEW buf \in Seq(Nat), NEW skip \in Nat, skip <= Len(buf), Contiguous(buf, 1)
  PROVE  LET rest == SubSeq(buf, skip + 1, Len(buf))
         IN Contiguous(rest, skip + 1) /\ skip + 1 + Len(rest) = Len(buf) + 1
<1> DEFINE rest == SubSeq(buf, skip + 1, Len(buf))
<1>1. Len(buf) \in Nat /\ \A i \in 1..Len(buf) : buf[i] = 1 + i - 1
  BY LenProperties DEF Contiguous
<1>2. Len(rest) = Len(buf) - skip
  BY <1>1
<1>3. ASSUME NEW i \in 1..Len(buf) - skip
      PROVE  rest[i] = skip + 1 + i - 1
  <2>1. rest[i] = buf[skip + i] /\ skip + i \in 1..Len(buf)
    BY <1>1
  <2> HIDE DEF rest
  <2> QED BY <1>1, <2>1
<1> HIDE DEF rest
<1>4. Contiguous(rest, skip + 1)
  BY <1>2, <1>3 DEF Contiguous
<1>5. skip + 1 + Len(rest) = Len(buf) + 1
  BY <1>1, <1>2
<1> QED BY <1>4, <1>5 DEF rest

(* Stored behind what is there, handed bytes keep the message in order.    *)
LEMMA PartInOrder ==
  ASSUME IInv, MessageInOrder, NEW buf \in Seq(Nat), Len(buf) >= 1, Package(buf),
         NEW end \in Nat, m_packageCounter # 0 => HandedOver = end,
         HandedOver' = end + Len(buf), Contiguous(buf, end + 1),
         m_packageCounter = 0 => end = 0, ~ NoPart(buf)
  PROVE  MessageInOrder'
<1>1. /\ Len(buf) \in Nat /\ m_message \in Seq(Nat) /\ request.header \in Nat
      /\ m_packageCounter \in {0, 1} /\ request' = request
  <2>1. request \in Requests /\ m_message \in Seq(Nat) /\ m_packageCounter \in {0, 1}
    BY DEF IInv, TypeOK, StreamTypeOK
  <2> QED BY <2>1, RequestBounds, LenProperties DEF Package
<1>2. \E first \in {4, request.header + 1} :
        Contiguous(m_message', first) /\ first + Len(m_message') = end + Len(buf) + 1
  <2>1. CASE m_packageCounter # 0 /\ LaterPart(buf)
    <3>1. PICK first \in {4, request.header + 1} :
            Contiguous(m_message, first) /\ first + Len(m_message) = end + 1
      BY <1>1, <2>1, Zenon DEF MessageInOrder
    <3>2. first \in Nat
      BY <1>1
    <3>3. m_message' = m_message \o buf
      BY <2>1 DEF LaterPart
    <3>4. /\ Contiguous(m_message \o buf, first)
          /\ first + Len(m_message \o buf) = end + Len(buf) + 1
      BY <1>1, <3>1, <3>2, AppendContiguous
    <3> QED BY <3>3, <3>4, Zenon
  <2>2. CASE m_packageCounter = 0 /\ FirstPart(buf)
    <3>1. PICK skip \in {3, request.header} :
            skip <= Len(buf) /\ m_message' = SubSeq(buf, skip + 1, Len(buf))
      BY <2>2 DEF FirstPart
    <3>2. skip \in Nat /\ skip + 1 \in {4, request.header + 1}
      BY <1>1
    <3>3. end = 0 /\ end + 1 = 1 /\ end + Len(buf) + 1 = Len(buf) + 1
      BY <1>1, <2>2
    <3>4. Contiguous(buf, 1)
      BY <3>3, Zenon
    <3>5. Contiguous(m_message', skip + 1) /\ skip + 1 + Len(m_message') = Len(buf) + 1
      BY <3>1, <3>2, <3>4, SkipContiguous
    <3> QED BY <3>2, <3>3, <3>5, Zenon
  <2> QED BY <2>1, <2>2 DEF Package
<1> QED BY <1>1, <1>2, Zenon DEF MessageInOrder
(* The package of a read.                                                  *)
LEMMA ReadInOrder ==
  ASSUME IInv, OrderInv, io = "running", NEW buf \in Seq(Nat), Len(buf) >= 1,
         ReadHandedOver(buf), HandedInOrder(buf), Package(buf)
  PROVE  OrderInv'
<1> SUFFICES ASSUME ~ overwritten'
             PROVE  BufferInOrder' /\ FirstPackageIsFirst' /\ MessageInOrder'
  BY Zenon DEF OrderInv
<1>1. /\ filled' = << >> /\ HandedOver' = HandedOver + Len(buf)
      /\ Contiguous(buf, HandedOver + 1) /\ Readers > 0
      /\ BufferInOrder /\ FirstPackageIsFirst /\ MessageInOrder
  BY Zenon DEF OrderInv, HandedInOrder
<1>2. Queued' = 0 /\ Len(filled') = 0
  BY <1>1 DEF Queued
<1>3. PICK end \in Nat : end = HandedOver
  <2>1. /\ Len(m_message) \in Nat /\ Queued \in Nat /\ received \in Nat
        /\ Len(m_message) + Queued <= received
    BY Counts DEF IInv, StoredWereReceived
  <2>2. HandedOver \in Nat
    BY <2>1 DEF HandedOver
  <2> QED BY <2>2
<1>4. HandedOver' = end + Len(buf) /\ Contiguous(buf, end + 1)
  BY <1>1, <1>3, Zenon
<1>5. m_packageCounter = 0 => end = 0
  <2>1. m_packageCounter = 0 => received = Queued
    BY <1>1 DEF FirstPackageIsFirst
  <2>2. Queued \in Nat
    BY Counts
  <2> QED BY <1>3, <2>1, <2>2 DEF HandedOver
<1>6. CASE NoPart(buf) /\ m_packageCounter = 0
  <2>1. /\ m_message = << >> /\ m_packageCounter' = 0 /\ m_message' = << >>
        /\ resume' \in {<< >>, buf}
    BY <1>6, MessageGrows DEF NoPart
  <2>2. Readers' = 0
    <3>1. handshakes' = 0 /\ reads' = 0
      BY <1>6, BeforePackage DEF NoPart
    <3> QED BY <1>2, <3>1 DEF Readers
  <2>3. resume' # << >> => Contiguous(resume', 1) /\ Len(resume') = received'
    <3>1. end = 0 /\ end + 1 = 1 /\ Len(buf) \in Nat /\ received' \in Nat
      BY <1>5, <1>6, BeforePackage, LenProperties DEF ReadHandedOver
    <3>2. Contiguous(buf, 1)
      BY <1>4, <3>1, Zenon
    <3>3. Len(buf) = received'
      BY <1>2, <1>4, <3>1 DEF HandedOver
    <3> QED BY <2>1, <3>2, <3>3, Zenon
  <2> QED BY <1>2, <2>1, <2>2, <2>3 DEF BufferInOrder, FirstPackageIsFirst, MessageInOrder
<1>7. CASE ~ (NoPart(buf) /\ m_packageCounter = 0)
  <2>1. resume' = << >> /\ (m_packageCounter' = 0 => io' = "ended") /\ Stored
    <3>1. CASE m_packageCounter # 0 /\ LaterPart(buf)
      <4>1. resume = << >>
        BY DEF IInv, ResumedIsFirstPackage
      <4> QED BY <3>1, <4>1 DEF LaterPart
    <3>2. CASE m_packageCounter = 0 /\ FirstPart(buf)
      BY <3>2 DEF FirstPart
    <3> QED BY <1>7, <3>1, <3>2 DEF Package
  <2>2. MessageInOrder'
    <3>1. CASE m_packageCounter # 0 /\ NoPart(buf)
      <4>1. LaterPart(buf) /\ Len(m_message) < Len(m_message') /\ Len(m_message) \in Nat
        BY <3>1, MessageGrows DEF Package
      <4> QED BY <3>1, <4>1 DEF NoPart
    <3>2. CASE ~ NoPart(buf)
      BY <1>1, <1>3, <1>4, <1>5, <3>2, PartInOrder
    <3> QED BY <1>7, <3>1, <3>2
  <2> QED BY <1>2, <2>1, <2>2 DEF BufferInOrder, FirstPackageIsFirst
<1> QED BY <1>6, <1>7

(* The package of a shutdown that has returned.                            *)
LEMMA ResumedInOrder ==
  ASSUME IInv, OrderInv, ShutdownReturns, resume # << >>
  PROVE  OrderInv'
<1>1. /\ resume \in Seq(Nat) /\ Len(resume) >= 1 /\ Package(resume) /\ FirstPart(resume)
      /\ m_packageCounter = 0 /\ io = "blocked" /\ filled = << >>
      /\ UNCHANGED << received, m_buffer, reads, filled, overwritten >>
  BY ResumedData DEF ShutdownReturns, IInv, ResumedIsFirstPackage
<1> SUFFICES ASSUME ~ overwritten'
             PROVE  BufferInOrder' /\ FirstPackageIsFirst' /\ MessageInOrder'
  BY Zenon DEF OrderInv
<1>2. FirstPackageIsFirst /\ MessageInOrder
  BY <1>1, Zenon DEF OrderInv
<1>3. Queued' = 0 /\ Len(filled') = 0
  BY <1>1 DEF Queued
<1>4. Contiguous(resume, 0 + 1) /\ Len(resume) = received /\ Len(resume) \in Nat
  BY <1>1, <1>2, LenProperties DEF FirstPackageIsFirst
<1>5. HandedOver' = 0 + Len(resume)
  BY <1>1, <1>3, <1>4 DEF HandedOver
<1>6. resume' = << >> /\ (m_packageCounter' = 0 => io' = "ended")
  BY <1>1 DEF FirstPart
<1>7. MessageInOrder'
  <2>1. CASE NoPart(resume)
    <3>1. m_message' = << >> /\ m_packageCounter' = 0
      BY <1>1, <2>1, MessageGrows DEF NoPart
    <3> QED BY <3>1 DEF MessageInOrder
  <2>2. CASE ~ NoPart(resume)
    BY <1>1, <1>2, <1>4, <1>5, <2>2, PartInOrder
  <2> QED BY <2>1, <2>2
<1> QED BY <1>3, <1>6, <1>7 DEF BufferInOrder, FirstPackageIsFirst

(* Steps that move no byte.                                                *)
LEMMA StillInOrder ==
  ASSUME OrderInv, io # "ended",
         UNCHANGED << request, received, m_buffer, filled, overwritten, m_message,
                      m_packageCounter >>,
         Readers' > 0 => Readers > 0,
         io' = "blocked" => resume' = << >> \/ (io = "blocked" /\ resume' = resume)
  PROVE  OrderInv'
<1>1. Queued' = Queued /\ HandedOver' = HandedOver
  BY DEF Queued, HandedOver
<1>2. BufferInOrder => BufferInOrder'
  BY <1>1 DEF BufferInOrder
<1>3. FirstPackageIsFirst => FirstPackageIsFirst'
  BY <1>1 DEF FirstPackageIsFirst
<1>4. MessageInOrder => MessageInOrder'
  BY <1>1 DEF MessageInOrder
<1> QED BY <1>2, <1>3, <1>4, Zenon DEF OrderInv

(* A handshake may start a read that is filled at once.                    *)
LEMMA HandshakeInOrder ==
  ASSUME IInv, OrderInv, handle_handshake
  PROVE  OrderInv'
<1>1. /\ io = "running" /\ io' = io /\ handshakes > 0 /\ resume' = resume
      /\ UNCHANGED << request, m_message, m_packageCounter >>
  BY DEF handle_handshake, packageVars
<1>2. /\ SumNat /\ received \in Nat /\ BufferSize \in Nat /\ TypeOK /\ resume = << >>
      /\ filled \in Seq(1..BufferSize)
  BY <1>1, Counts DEF IInv, TypeOK, StreamTypeOK, ResumedIsFirstPackage
<1>3. Readers > 0
  BY <1>1, <1>2 DEF Readers, SumNat
<1>4. CASE UNCHANGED << received, m_buffer, filled, overwritten >>
  BY <1>1, <1>3, <1>4, StillInOrder
<1>5. ASSUME NEW n \in Available, Fill(n), filled' = Append(filled, n)
      PROVE  OrderInv'
  <2> SUFFICES ASSUME ~ overwritten'
               PROVE  BufferInOrder' /\ FirstPackageIsFirst' /\ MessageInOrder'
    BY Zenon DEF OrderInv
  <2>1. ~ overwritten /\ filled = << >>
    BY <1>5, Zenon DEF Fill
  <2>2. BufferInOrder /\ FirstPackageIsFirst /\ MessageInOrder
    BY <2>1, Zenon DEF OrderInv
  <2>3. n \in 1..BufferSize /\ received' = received + n /\ m_buffer' = Refilled(n)
    BY <1>1, <1>2, <1>5, FillStep
  <2>4. Len(filled') = 1 /\ filled'[1] = n
    BY <1>2, <1>5, <2>1, <2>3
  <2>5. Queued = 0 /\ Queued' = n /\ n \in Nat
    BY <1>2, <2>1, <2>3, <2>4 DEF Queued
  <2>6. HandedOver' = HandedOver
    BY <1>2, <2>3, <2>5 DEF HandedOver
  <2>7. BufferInOrder'
    <3>1. \A i \in 1..n : Refilled(n)[i] = received + i
      BY <1>2, <2>3 DEF Refilled
    <3>2. received' - Queued' = received
      BY <1>2, <2>3, <2>5
    <3>3. \A i \in 1..Queued' : m_buffer'[i] = received' - Queued' + i
      BY <2>3, <2>5, <3>1, <3>2, Zenon
    <3> QED BY <2>4, <3>3 DEF BufferInOrder
  <2>8. FirstPackageIsFirst'
    <3>1. m_packageCounter = 0 => received = 0
      BY <1>1, <1>3, <2>2, <2>5 DEF FirstPackageIsFirst
    <3>2. m_packageCounter = 0 => received' = Queued'
      BY <2>3, <2>5, <3>1
    <3> QED BY <1>1, <1>2, <3>2 DEF FirstPackageIsFirst
  <2>9. MessageInOrder'
    BY <1>1, <2>2, <2>6 DEF MessageInOrder
  <2> QED BY <2>7, <2>8, <2>9
<1> QED BY <1>4, <1>5, Zenon DEF handle_handshake, AsyncReadSome

LEMMA OrderStep ==
  ASSUME IInv, OrderInv, [Next]_vars
  PROVE  OrderInv'
<1>1. CASE handle_handshake
  BY <1>1, HandshakeInOrder
<1>2. CASE handleReadArrived \/ handleReadQueued
  <2>1. PICK buf \in Seq(Nat) :
          /\ Len(buf) >= 1 /\ ReadHandedOver(buf) /\ processPackage(buf)
          /\ HandedInOrder(buf)
    BY <1>2, ArrivedInOrder, QueuedInOrder
  <2>2. io = "running" /\ UNCHANGED << request, answers >>
    BY <1>2 DEF handleReadArrived, handleReadQueued
  <2>3. Package(buf)
    BY <2>1, <2>2, PackageIs
  <2> QED BY <2>1, <2>2, <2>3, ReadInOrder
<1>3. CASE ShutdownReturns /\ resume # << >>
  BY <1>3, ResumedInOrder
<1>4. CASE ShutdownReturns /\ resume = << >>
  <2>1. /\ io # "ended" /\ io' = "running"
        /\ UNCHANGED << request, received, m_buffer, filled, overwritten, m_message,
                        m_packageCounter, handshakes, reads >>
    BY <1>4 DEF ShutdownReturns
  <2> QED BY <2>1, StillInOrder DEF Readers
<1>5. CASE handleReadEmpty \/ handleReadEof \/ handleReadError
  <2>1. /\ io = "running" /\ reads > 0
        /\ UNCHANGED << request, received, m_buffer, filled, overwritten, m_message,
                        m_packageCounter >>
        /\ io' = "blocked" => resume' = << >>
    BY <1>5 DEF handleReadEmpty, handleReadEof, handleReadError, WaitingReadDone, shutdown,
       packageVars
  <2>2. Readers > 0
    BY <2>1, Counts DEF Readers, SumNat
  <2> QED BY <2>1, <2>2, StillInOrder
<1>6. CASE handleWrite \/ ShutdownThrows \/ ClientLeaves
  <2>1. /\ io # "ended" /\ resume' = resume /\ (io' = "blocked" => io = "blocked")
        /\ UNCHANGED << request, received, m_buffer, filled, overwritten, m_message,
                        m_packageCounter, handshakes, reads >>
    BY <1>6 DEF handleWrite, ShutdownThrows, ClientLeaves, PeerLeaves, streamVars,
       packageVars
  <2> QED BY <2>1, StillInOrder DEF Readers
<1>7. CASE UNCHANGED vars
  BY <1>7, Zenon DEF vars, streamVars, packageVars, OrderInv, BufferInOrder, Queued,
     FirstPackageIsFirst, Readers, MessageInOrder, HandedOver
<1> QED BY <1>1, <1>2, <1>3, <1>4, <1>5, <1>6, <1>7 DEF Next

(* As long as the one buffer is not overwritten under a queued handler, a  *)
(* message is a run of the client's bytes.                                 *)
THEOREM BytesInOrder == Spec => []BodyInOrder
<1>1. Init => OrderInv
  BY EmptySeq DEF Init, StreamInit, OrderInv, BufferInOrder, Queued, FirstPackageIsFirst,
     MessageInOrder
<1>2. IInv /\ OrderInv /\ [Next]_vars => OrderInv'
  BY OrderStep
<1>3. IInv /\ OrderInv => BodyInOrder
  <2> SUFFICES ASSUME IInv, OrderInv, ~ overwritten, m_message # << >>
               PROVE  Consecutive(m_message) /\ m_message[1] \in {4, request.header + 1}
    BY DEF BodyInOrder
  <2>1. PICK first \in {4, request.header + 1} : Contiguous(m_message, first)
    BY Zenon DEF OrderInv, MessageInOrder
  <2>2. /\ request.header \in Nat /\ m_message \in Seq(Nat) /\ Len(m_message) \in Nat
        /\ DOMAIN m_message = 1..Len(m_message) /\ 1 \in 1..Len(m_message)
    <3>1. request \in Requests /\ m_message \in Seq(Nat)
      BY DEF IInv, TypeOK, StreamTypeOK
    <3> QED BY <3>1, RequestBounds, LenProperties, EmptySeq
  <2>3. m_message[1] = first
    BY <2>1, <2>2 DEF Contiguous
  <2>4. Consecutive(m_message)
    BY <2>1, <2>2, <2>3 DEF Contiguous, Consecutive
  <2> QED BY <2>3, <2>4
<1> QED BY <1>1, <1>2, <1>3, Invariance, PTL DEF Spec

-----------------------------------------------------------------------------
(***************************************************************************)
(* TcpConnection implements AbstractConnection for every set of requests,  *)
(* buffer size and size of size_t.                                         *)
(***************************************************************************)
L(n, w, f, p) == Abstract!Life(n, w, f, p)

(* The life of a connection, by its four parts.                            *)
LEMMA LifeParts ==
  /\ life = L(Readers, Len(writes), m_packageCounter = 1, at)
  /\ life' = L(Readers', Len(writes'), m_packageCounter' = 1, at')
BY DEF life, L, Abstract!Life

-----------------------------------------------------------------------------
(***************************************************************************)
(* What the abstract life allows, for connections given by their parts.    *)
(***************************************************************************)
(* A handler of a connection with n + 1 chains.                            *)
LEMMA HandlerChoices ==
  ASSUME NEW n \in Nat, NEW w \in Nat, NEW f \in BOOLEAN
  PROVE  LET c == L(n + 1, w, f, "ready")
             next == Abstract!HandlerRuns(c)
         IN /\ {c, L(n, w, f, "ready"), L(n, w + 1, f, "ready"),
                L(n, w, f, "closing"), L(n, w, f, "threw")} \subseteq next
            /\ f = FALSE =>
                 {L(n, w, f, "resuming"), L(n + 1, w + 1, TRUE, "ready"),
                  L(n + 2, w, TRUE, "ready")} \subseteq next
<1> DEFINE c == L(n + 1, w, f, "ready")
<1>1. c.chains # 0 /\ c.chains - 1 = n
  BY DEF L, Abstract!Life
<1>2. c.writes = w
  BY DEF L, Abstract!Life
<1>3. c.forked = f
  BY DEF L, Abstract!Life
<1> HIDE DEF c
<1>4. Abstract!HandlerRuns(c) =
        {c, L(n, w, f, "ready"), L(n, w + 1, f, "ready"), L(n, w, f, "closing"),
         L(n, w, f, "threw")}
        \cup IF f THEN {} ELSE Abstract!Forks(n, w, f) \cup {L(n, w, f, "resuming")}
  BY <1>1, <1>2, <1>3, Zenon DEF Abstract!HandlerRuns, L
<1>5. Abstract!Forks(n, w, f) =
        {L(n, w, f, "threw"), L(n + 1, w + 1, TRUE, "ready"), L(n + 2, w, TRUE, "ready")}
  BY Zenon DEF Abstract!Forks, L
<1> QED BY <1>4, <1>5, Zenon DEF c

(* The end of a write, and of a shutdown.                                  *)
LEMMA OtherChoices ==
  ASSUME NEW n \in Nat, NEW w \in Nat, NEW f \in BOOLEAN
  PROVE  /\ L(n, w, f, "ready") \in Abstract!WriteEnds(L(n, w + 1, f, "ready"))
         /\ L(n, w, f, "ready") \in Abstract!ShutdownReturns(L(n, w, f, "closing"))
         /\ {L(n, w, f, "threw"), L(n + 1, w + 1, TRUE, "ready"),
             L(n + 2, w, TRUE, "ready")}
               \subseteq Abstract!ShutdownReturns(L(n, w, f, "resuming"))
         /\ \A p \in {"closing", "resuming"} :
              L(n, w, f, "threw") \in Abstract!ShutdownThrows(L(n, w, f, p))
<1>1. L(n, w, f, "ready") \in Abstract!WriteEnds(L(n, w + 1, f, "ready"))
  BY DEF L, Abstract!Life, Abstract!WriteEnds
<1>2. L(n, w, f, "ready") \in Abstract!ShutdownReturns(L(n, w, f, "closing"))
  BY DEF L, Abstract!Life, Abstract!ShutdownReturns
<1>3. {L(n, w, f, "threw"), L(n + 1, w + 1, TRUE, "ready"), L(n + 2, w, TRUE, "ready")}
        \subseteq Abstract!ShutdownReturns(L(n, w, f, "resuming"))
  BY DEF L, Abstract!Life, Abstract!Forks, Abstract!ShutdownReturns
<1>4. \A p \in {"closing", "resuming"} :
        L(n, w, f, "threw") \in Abstract!ShutdownThrows(L(n, w, f, p))
  BY DEF L, Abstract!Life, Abstract!ShutdownThrows
<1> QED BY <1>1, <1>2, <1>3, <1>4

-----------------------------------------------------------------------------
(***************************************************************************)
(* What the handlers do to the four parts.                                 *)
(***************************************************************************)
(* An answer more is being written.                                        *)
LEMMA AsyncWriteCounts ==
  ASSUME writes \in Seq(WriteType), NEW answer, AsyncWrite(answer)
  PROVE  Len(writes') = Len(writes) + 1
<1> DEFINE old == [i \in DOMAIN writes |-> [writes[i] EXCEPT !.intact = FALSE]]
           new == [answer |-> answer, intact |-> writes = << >>]
<1>1. /\ Len(writes) \in Nat /\ DOMAIN writes = 1..Len(writes)
      /\ \A i \in 1..Len(writes) : writes[i] \in WriteType
  BY LenProperties, ElementOfSeq
<1>2. old \in Seq(WriteType) /\ Len(old) = Len(writes)
  <2>1. old \in [1..Len(writes) -> WriteType]
    BY <1>1 DEF WriteType
  <2>2. old \in Seq(WriteType)
    BY <1>1, <2>1, SeqDef
  <2>3. DOMAIN old = 1..Len(writes)
    BY <1>1
  <2> QED BY <1>1, <2>2, <2>3, LenProperties
<1>3. writes' = Append(old, new)
  BY DEF AsyncWrite
<1> HIDE DEF old, new
<1> QED BY <1>1, <1>2, <1>3

(* k handshakes and an answer, k + 1 handshakes, or an exception.          *)
Goes(k) ==
  \/ /\ io' = "running"
     /\ \/ handshakes' = handshakes + k + 1 /\ Len(writes') = Len(writes)
        \/ handshakes' = handshakes + k /\ Len(writes') = Len(writes) + 1
  \/ /\ io' = "ended"
     /\ UNCHANGED << handshakes, writes >>

LEMMA PartStoredGoes ==
  ASSUME writes \in Seq(WriteType), handshakes \in Nat,
         NEW message, NEW total, NEW length, NEW k \in Nat,
         PartStored(message, total, length, k)
  PROVE  Goes(k)
<1>1. CASE processMessage(message, k)
  <2>1. CASE AsyncWrite(Answer("machine", message)) /\ processRequest(k) /\ io' = "running"
    BY <2>1, AsyncWriteCounts DEF Goes, processRequest
  <2>2. CASE io' = "ended" /\ UNCHANGED << handshakes, writes >>
    BY <2>2 DEF Goes
  <2> QED BY <1>1, <2>1, <2>2 DEF processMessage
<1>2. CASE NextRead(k + 1)
  BY <1>2 DEF Goes, NextRead, processRequest
<1> QED BY <1>1, <1>2 DEF PartStored

(* The rest of the first POST package.                                     *)
LEMMA FirstPostPartGoes ==
  ASSUME writes \in Seq(WriteType), handshakes \in Nat, m_packageCounter = 0,
         NEW buf, NEW length, FirstPostPart(buf, length)
  PROVE  /\ Goes(1)
         /\ m_packageCounter' = IF io' = "running" THEN 1 ELSE 0
         /\ resume' = << >>
<1>1. Goes(1)
  <2>1. CASE NextRead(1 + 1)
    BY <2>1 DEF Goes, NextRead, processRequest
  <2>2. CASE PartStored(splitHeaderAndBody(buf, FindBlankLine(buf)),
                        Plus(m_transferredTotal,
                             Minus(Minus(Len(buf), FindBlankLine(buf)), 4)), length, 1)
    BY <2>2, PartStoredGoes
  <2> QED BY <2>1, <2>2 DEF FirstPostPart, extractHeaderAndBody
<1> QED BY <1>1 DEF FirstPostPart

(* Any package, of any type.                                               *)
LEMMA PackageGoes ==
  ASSUME writes \in Seq(WriteType), handshakes \in Nat, m_packageCounter \in {0, 1},
         io = "running", resume = << >>, NEW buf, processPackage(buf)
  PROVE  \/ m_packageCounter = 1 /\ Goes(0) /\ UNCHANGED << m_packageCounter, resume >>
         \/ /\ m_packageCounter = 0
            /\ Goes(1)
            /\ m_packageCounter' = IF io' = "running" THEN 1 ELSE 0
            /\ resume' = << >>
         \/ /\ UNCHANGED << m_packageCounter, handshakes >>
            /\ m_packageCounter = 0
            /\ \/ io' = "running" /\ Len(writes') = Len(writes) + 1 /\ resume' = << >>
               \/ io' = "ended" /\ UNCHANGED << writes, resume >>
               \/ io' = "blocked" /\ UNCHANGED writes
<1>1. CASE m_packageCounter # 0 /\ handlePostRequest(buf)
  <2>1. PartStored(m_message \o buf, Plus(m_transferredTotal, Len(buf)), m_contentLength, 0)
        /\ UNCHANGED << m_packageCounter, resume >>
    BY <1>1 DEF handlePostRequest
  <2> QED BY <1>1, <2>1, PartStoredGoes
<1>2. CASE m_packageCounter = 0 /\ (handleGetRequest \/ handleOptionsRequest)
  BY <1>2, AsyncWriteCounts DEF handleGetRequest, handleOptionsRequest, handleAnswered
<1>3. CASE m_packageCounter = 0 /\ FirstPostPackage(buf)
  <2>1. CASE io' = "ended" /\ UNCHANGED << m_packageCounter, handshakes, writes, resume >>
    BY <1>3, <2>1
  <2>2. ASSUME NEW n, IF ToSize(n) = 0 THEN shutdown(buf) ELSE FirstPostPart(buf, ToSize(n))
        PROVE  \/ shutdown(buf)
               \/ FirstPostPart(buf, ToSize(n))
    BY <2>2
  <2>3. ASSUME shutdown(buf)
        PROVE  io' = "blocked" /\ UNCHANGED << m_packageCounter, handshakes, writes >>
    BY <2>3 DEF shutdown
  <2> QED BY <1>3, <2>1, <2>2, <2>3, FirstPostPartGoes DEF FirstPostPackage
<1>4. CASE m_packageCounter = 0 /\ shutdown(<< >>)
  BY <1>4 DEF shutdown
<1> QED BY <1>1, <1>2, <1>3, <1>4 DEF processPackage

-----------------------------------------------------------------------------
(***************************************************************************)
(* Every step is a step of the abstract life, or none.                     *)
(***************************************************************************)
LEMMA CountsOfLife ==
  ASSUME IInv
  PROVE  /\ writes \in Seq(WriteType) /\ Len(writes) \in Nat
         /\ handshakes \in Nat /\ reads \in Nat /\ Len(filled) \in Nat
         /\ m_packageCounter \in {0, 1} /\ io \in {"running", "blocked", "ended"}
         /\ io = "running" => resume = << >>
<1>1. /\ writes \in Seq(WriteType) /\ handshakes \in Nat /\ reads \in Nat
      /\ filled \in Seq(1..BufferSize)
      /\ m_packageCounter \in {0, 1} /\ io \in {"running", "blocked", "ended"}
  BY DEF IInv, TypeOK, StreamTypeOK, WriteType
<1>2. io = "running" => resume = << >>
  BY DEF IInv, ResumedIsFirstPackage
<1> QED BY <1>1, <1>2, LenProperties

(* The life of a connection while the thread runs.                         *)
LEMMA LifeAt ==
  /\ io = "running" => at = "ready"
  /\ io = "blocked" => at = IF resume = << >> THEN "closing" ELSE "resuming"
  /\ io = "ended" => at = "threw"
BY DEF at

LEMMA LifeAtNext ==
  /\ io' = "running" => at' = "ready"
  /\ io' = "blocked" => at' = IF resume' = << >> THEN "closing" ELSE "resuming"
  /\ io' = "ended" => at' = "threw"
BY DEF at

(* A handler that takes one read over and processes its package.           *)
LEMMA PackageLife ==
  ASSUME IInv, io = "running", NEW buf, processPackage(buf),
         reads' \in Nat, Len(filled') \in Nat,
         reads' + Len(filled') = reads + Len(filled) - 1
  PROVE  Abstract!Handle
<1>0. PICK h \in Nat, r \in Nat, q \in Nat :
        h = handshakes /\ r = reads' /\ q = Len(filled')
  BY CountsOfLife
<1>1. PICK n \in Nat : n = h + r + q
  OBVIOUS
<1>2. PICK w \in Nat : w = Len(writes)
  BY CountsOfLife
<1>3. PICK f \in BOOLEAN : f = (m_packageCounter = 1)
  OBVIOUS
<1>4. life = L(n + 1, w, f, "ready") /\ life.at = "ready"
  <2>1. Readers = n + 1
    <3>1. PICK r0 \in Nat, q0 \in Nat : r0 = reads /\ q0 = Len(filled)
      BY CountsOfLife
    <3>2. r + q = r0 + q0 - 1
      BY <1>0, <3>1
    <3>3. h + r0 + q0 = n + 1
      BY <1>1, <3>1, <3>2
    <3> QED BY <1>0, <3>1, <3>3 DEF Readers
  <2>2. life = L(n + 1, w, f, "ready")
    BY <1>2, <1>3, <2>1, LifeAt, LifeParts, Zenon
  <2> QED BY <2>2 DEF L, Abstract!Life
<1>5. /\ handshakes' = handshakes + 1 => Readers' = n + 1
      /\ handshakes' = handshakes + 1 + 1 => Readers' = n + 2
      /\ handshakes' = handshakes + 0 + 1 => Readers' = n + 1
      /\ handshakes' = handshakes + 0 => Readers' = n
      /\ handshakes' = handshakes => Readers' = n
  <2>1. /\ (h + 1) + r + q = n + 1 /\ (h + 1 + 1) + r + q = n + 2
        /\ (h + 0 + 1) + r + q = n + 1 /\ (h + 0) + r + q = n
    BY <1>1
  <2> QED BY <1>0, <1>1, <2>1, Zenon DEF Readers
<1> DEFINE next == Abstract!HandlerRuns(L(n + 1, w, f, "ready"))
<1>6. /\ {L(n + 1, w, f, "ready"), L(n, w, f, "ready"), L(n, w + 1, f, "ready"),
          L(n, w, f, "closing"), L(n, w, f, "threw")} \subseteq next
      /\ f = FALSE =>
           {L(n, w, f, "resuming"), L(n + 1, w + 1, TRUE, "ready"),
            L(n + 2, w, TRUE, "ready")} \subseteq next
  BY HandlerChoices
<1> HIDE DEF next
<1>7. life' \in next
  <2>2. CASE m_packageCounter = 1 /\ Goes(0) /\ UNCHANGED << m_packageCounter, resume >>
    <3>1. f = (m_packageCounter' = 1)
      BY <1>3, <2>2
    <3>2. CASE io' = "running" /\ handshakes' = handshakes + 0 + 1 /\ Len(writes') = Len(writes)
      <4>1. Readers' = n + 1
        BY <1>5, <3>2, CountsOfLife
      <4>2. life' = L(n + 1, w, f, "ready")
        BY <1>2, <3>1, <3>2, <4>1, LifeAtNext, LifeParts, Zenon
      <4> QED BY <1>6, <4>2, Zenon
    <3>3. CASE io' = "running" /\ handshakes' = handshakes + 0 /\ Len(writes') = Len(writes) + 1
      <4>1. Readers' = n
        BY <1>5, <3>3, CountsOfLife
      <4>2. life' = L(n, w + 1, f, "ready")
        BY <1>2, <3>1, <3>3, <4>1, LifeAtNext, LifeParts, Zenon
      <4> QED BY <1>6, <4>2, Zenon
    <3>4. CASE io' = "ended" /\ UNCHANGED << handshakes, writes >>
      <4>1. life' = L(n, w, f, "threw")
        BY <1>2, <1>5, <3>1, <3>4, LifeAtNext, LifeParts, Zenon
      <4> QED BY <1>6, <4>1, Zenon
    <3> QED BY <2>2, <3>2, <3>3, <3>4 DEF Goes
  <2>3. CASE /\ m_packageCounter = 0 /\ Goes(1) /\ resume' = << >>
             /\ m_packageCounter' = IF io' = "running" THEN 1 ELSE 0
    <3>1. f = FALSE
      <4>1. (m_packageCounter = 1) = FALSE
        BY <2>3
      <4> QED BY <1>3, <4>1, Zenon
    <3>2. CASE io' = "running" /\ handshakes' = handshakes + 1 + 1 /\ Len(writes') = Len(writes)
      <4>1. Readers' = n + 2
        BY <1>5, <3>2, CountsOfLife
      <4>2. (m_packageCounter' = 1) = TRUE
        BY <2>3, <3>2
      <4>3. life' = L(n + 2, w, TRUE, "ready")
        BY <1>2, <3>2, <4>1, <4>2, LifeAtNext, LifeParts, Zenon
      <4> QED BY <1>6, <3>1, <4>3, Zenon
    <3>3. CASE io' = "running" /\ handshakes' = handshakes + 1 /\ Len(writes') = Len(writes) + 1
      <4>1. Readers' = n + 1
        BY <1>5, <3>3, CountsOfLife
      <4>2. (m_packageCounter' = 1) = TRUE
        BY <2>3, <3>3
      <4>3. life' = L(n + 1, w + 1, TRUE, "ready")
        BY <1>2, <3>3, <4>1, <4>2, LifeAtNext, LifeParts, Zenon
      <4> QED BY <1>6, <3>1, <4>3, Zenon
    <3>4. CASE io' = "ended" /\ UNCHANGED << handshakes, writes >>
      <4>1. f = (m_packageCounter' = 1)
        BY <2>3, <3>1, <3>4
      <4>2. life' = L(n, w, f, "threw")
        BY <1>2, <1>5, <3>4, <4>1, LifeAtNext, LifeParts, Zenon
      <4> QED BY <1>6, <4>2, Zenon
    <3> QED BY <2>3, <3>2, <3>3, <3>4 DEF Goes
  <2>4. CASE /\ UNCHANGED << m_packageCounter, handshakes >>
             /\ m_packageCounter = 0
             /\ \/ io' = "running" /\ Len(writes') = Len(writes) + 1 /\ resume' = << >>
                \/ io' = "ended" /\ UNCHANGED << writes, resume >>
                \/ io' = "blocked" /\ UNCHANGED writes
    <3>1. f = FALSE /\ f = (m_packageCounter' = 1) /\ Readers' = n
      <4>1. (m_packageCounter = 1) = FALSE /\ m_packageCounter' = m_packageCounter
        BY <2>4
      <4> QED BY <1>3, <1>5, <2>4, <4>1, Zenon
    <3>2. \/ life' = L(n, w + 1, f, "ready") \/ life' = L(n, w, f, "threw")
          \/ life' = L(n, w, f, "closing") \/ life' = L(n, w, f, "resuming")
      BY <1>2, <2>4, <3>1, LifeAtNext, LifeParts, Zenon
    <3> QED BY <1>6, <3>1, <3>2, Zenon
  <2> QED BY <2>2, <2>3, <2>4, CountsOfLife, PackageGoes
<1> QED BY <1>4, <1>7 DEF Abstract!Handle, next

(* A chain that ends or waits in a shutdown without a package.             *)
LEMMA ChainEnds ==
  ASSUME IInv, io = "running", Readers' + 1 = Readers, Readers' \in Nat,
         UNCHANGED << writes, m_packageCounter >>,
         \/ io' = "running"
         \/ io' = "blocked" /\ resume' = << >>
  PROVE  Abstract!Handle
<1>1. PICK n \in Nat, w \in Nat : n = Readers' /\ w = Len(writes)
  BY CountsOfLife
<1>2. PICK f \in BOOLEAN : f = (m_packageCounter = 1)
  OBVIOUS
<1>3. Readers = n + 1
  BY <1>1
<1>4. life = L(n + 1, w, f, "ready")
  BY <1>1, <1>2, <1>3, LifeAt, LifeParts, Zenon
<1>5. life' = L(n, w, f, "ready") \/ life' = L(n, w, f, "closing")
  BY <1>1, <1>2, LifeAtNext, LifeParts, Zenon
<1>6. {L(n, w, f, "ready"), L(n, w, f, "closing")}
        \subseteq Abstract!HandlerRuns(L(n + 1, w, f, "ready"))
  BY HandlerChoices, Zenon
<1>7. life' \in Abstract!HandlerRuns(life)
  BY <1>4, <1>5, <1>6, Zenon
<1>8. life.at = "ready"
  BY <1>4 DEF L, Abstract!Life
<1> QED BY <1>7, <1>8 DEF Abstract!Handle

(* A step that changes none of the four parts.                             *)
LEMMA SameLife ==
  ASSUME Readers' = Readers, UNCHANGED << writes, m_packageCounter, io, resume >>
  PROVE  UNCHANGED life
BY DEF life, at

LEMMA HandshakeLife ==
  ASSUME IInv, handle_handshake
  PROVE  Abstract!Handle \/ UNCHANGED life
<1>1. /\ io = "running" /\ handshakes > 0 /\ handshakes' = handshakes - 1
      /\ UNCHANGED << writes, m_packageCounter, io, resume >>
  BY DEF handle_handshake, packageVars
<1>2. /\ handshakes \in Nat /\ reads \in Nat /\ Len(filled) \in Nat
      /\ filled \in Seq(1..BufferSize)
  BY CountsOfLife DEF IInv, TypeOK, StreamTypeOK
<1>3. CASE reads' = reads + 1 /\ filled' = filled
  <2>1. Readers' = Readers
    BY <1>1, <1>2, <1>3 DEF Readers
  <2> QED BY <1>1, <2>1, SameLife
<1>4. ASSUME NEW n \in Available, Fill(n), filled' = Append(filled, n), reads' = reads
      PROVE  UNCHANGED life
  <2>1. n \in 1..BufferSize
    BY <1>4 DEF Available
  <2>2. Len(filled') = Len(filled) + 1
    BY <1>2, <1>4, <2>1, AppendProperties
  <2>3. Readers' = Readers
    BY <1>1, <1>2, <1>4, <2>2 DEF Readers
  <2> QED BY <1>1, <2>3, SameLife
<1>5. CASE UNCHANGED << reads, filled >>
  <2>1. Readers' + 1 = Readers /\ Readers' \in Nat
    BY <1>1, <1>2, <1>5 DEF Readers
  <2> QED BY <1>1, <2>1, ChainEnds
<1> QED BY <1>3, <1>4, <1>5 DEF handle_handshake, AsyncReadSome

LEMMA ReadLife ==
  ASSUME IInv, handleReadArrived \/ handleReadQueued
  PROVE  Abstract!Handle
<1>1. /\ reads \in Nat /\ Len(filled) \in Nat /\ filled \in Seq(1..BufferSize)
  BY CountsOfLife DEF IInv, TypeOK, StreamTypeOK
<1>2. CASE handleReadArrived
  <2>1. PICK n \in Available : processPackage(SubSeq(Refilled(n), 1, n))
    BY <1>2 DEF handleReadArrived
  <2>2. /\ io = "running" /\ reads > 0 /\ reads' = reads - 1 /\ filled' = filled
    BY <1>2 DEF handleReadArrived, WaitingReadDone
  <2>3. /\ reads' \in Nat /\ Len(filled') \in Nat
        /\ reads' + Len(filled') = reads + Len(filled) - 1
    BY <1>1, <2>2
  <2> QED BY <2>1, <2>2, <2>3, PackageLife
<1>3. CASE handleReadQueued
  <2>1. /\ io = "running" /\ processPackage(SubSeq(m_buffer, 1, Head(filled)))
        /\ filled # << >> /\ filled' = Tail(filled) /\ reads' = reads
    BY <1>3 DEF handleReadQueued, QueuedReadDone
  <2>2. Len(filled') = Len(filled) - 1 /\ Len(filled') \in Nat
    BY <1>1, <2>1, HeadTailProperties
  <2>3. reads' \in Nat /\ reads' + Len(filled') = reads + Len(filled) - 1
    BY <1>1, <2>1, <2>2
  <2> QED BY <2>1, <2>2, <2>3, PackageLife
<1> QED BY <1>2, <1>3

(* A read that brings nothing, the end of the stream or an error.          *)
LEMMA ReadEndsLife ==
  ASSUME IInv, handleReadEmpty \/ handleReadEof \/ handleReadError
  PROVE  Abstract!Handle \/ UNCHANGED life
<1>1. /\ handshakes \in Nat /\ reads \in Nat /\ Len(filled) \in Nat
  BY CountsOfLife
<1>2. /\ io = "running" /\ reads > 0 /\ reads' = reads - 1 /\ filled' = filled
      /\ UNCHANGED << writes, m_packageCounter >>
  BY DEF handleReadEmpty, handleReadEof, handleReadError, WaitingReadDone, shutdown,
     packageVars
<1>3. CASE handleReadEmpty
  <2>1. handshakes' = handshakes + 1 /\ UNCHANGED << io, resume >>
    BY <1>3 DEF handleReadEmpty, processRequest
  <2>2. Readers' = Readers
    BY <1>1, <1>2, <2>1 DEF Readers
  <2> QED BY <1>2, <2>1, <2>2, SameLife
<1>4. CASE handleReadEof \/ handleReadError
  <2>1. /\ handshakes' = handshakes
        /\ io' = "running" \/ (io' = "blocked" /\ resume' = << >>)
    BY <1>2, <1>4 DEF handleReadEof, handleReadError, shutdown
  <2>2. Readers' + 1 = Readers /\ Readers' \in Nat
    BY <1>1, <1>2, <2>1 DEF Readers
  <2> QED BY <1>2, <2>1, <2>2, ChainEnds
<1> QED BY <1>3, <1>4

LEMMA WriteLife ==
  ASSUME IInv, handleWrite
  PROVE  Abstract!Handle
<1>1. /\ io = "running" /\ writes # << >> /\ writes' = Tail(writes)
      /\ UNCHANGED << handshakes, reads, filled, m_packageCounter, io, resume >>
  BY DEF handleWrite, packageVars
<1>2. writes \in Seq(WriteType) /\ Readers \in Nat
  BY CountsOfLife DEF Readers
<1>3. Len(writes') \in Nat /\ Len(writes) = Len(writes') + 1
  BY <1>1, <1>2, HeadTailProperties
<1>4. PICK n \in Nat, w \in Nat : n = Readers /\ w = Len(writes')
  BY <1>2, <1>3
<1>5. PICK f \in BOOLEAN : f = (m_packageCounter = 1)
  OBVIOUS
<1>6. Len(writes) = w + 1
  BY <1>3, <1>4
<1>7. life = L(n, w + 1, f, "ready")
  BY <1>1, <1>4, <1>5, <1>6, LifeAt, LifeParts, Zenon
<1>8. Readers' = Readers
  BY <1>1 DEF Readers
<1>9. life' = L(n, w, f, "ready")
  BY <1>1, <1>4, <1>5, <1>8, LifeAtNext, LifeParts, Zenon
<1>10. life' \in Abstract!WriteEnds(life)
  BY <1>7, <1>9, OtherChoices, Zenon
<1>11. life.at = "ready"
  BY <1>7 DEF L, Abstract!Life
<1> QED BY <1>10, <1>11 DEF Abstract!Handle

LEMMA ShutdownLife ==
  ASSUME IInv, ShutdownReturns \/ ShutdownThrows
  PROVE  Abstract!Shut
<1>1. io = "blocked" /\ UNCHANGED << reads, filled >>
  BY DEF ShutdownReturns, ShutdownThrows, streamVars
<1>2. writes \in Seq(WriteType) /\ handshakes \in Nat /\ Readers \in Nat
  BY CountsOfLife DEF Readers
<1>3. PICK n \in Nat, w \in Nat : n = Readers /\ w = Len(writes)
  BY <1>2, CountsOfLife
<1>4. PICK f \in BOOLEAN : f = (m_packageCounter = 1)
  OBVIOUS
<1>5. handshakes' = handshakes => Readers' = n
  BY <1>1, <1>3 DEF Readers
<1>6. CASE ShutdownThrows
  <2>1. io' = "ended" /\ UNCHANGED << handshakes, writes, m_packageCounter >>
    BY <1>6 DEF ShutdownThrows, streamVars, packageVars
  <2>2. life' = L(n, w, f, "threw")
    BY <1>3, <1>4, <1>5, <2>1, LifeAtNext, LifeParts, Zenon
  <2>3. life = L(n, w, f, "closing") \/ life = L(n, w, f, "resuming")
    BY <1>1, <1>3, <1>4, LifeAt, LifeParts, Zenon
  <2> QED BY <2>2, <2>3, OtherChoices, Zenon DEF Abstract!Shut
<1>7. CASE /\ ShutdownReturns /\ resume = << >> /\ io' = "running"
           /\ UNCHANGED << m_packageCounter, handshakes, writes, resume >>
  <2>1. life' = L(n, w, f, "ready")
    BY <1>3, <1>4, <1>5, <1>7, LifeAtNext, LifeParts, Zenon
  <2>2. life = L(n, w, f, "closing")
    BY <1>1, <1>3, <1>4, <1>7, LifeAt, LifeParts, Zenon
  <2> QED BY <2>1, <2>2, OtherChoices, Zenon DEF Abstract!Shut
<1>8. CASE resume # << >> /\ FirstPostPart(resume, m_contentLength)
  <2>1. m_packageCounter = 0
    BY <1>1, <1>8 DEF IInv, ResumedIsFirstPackage
  <2>2. /\ Goes(1) /\ m_packageCounter' = IF io' = "running" THEN 1 ELSE 0
        /\ resume' = << >>
    BY <1>2, <1>8, <2>1, FirstPostPartGoes
  <2>3. life = L(n, w, f, "resuming")
    BY <1>1, <1>3, <1>4, <1>8, LifeAt, LifeParts, Zenon
  <2>4. (m_packageCounter = 1) = FALSE
    BY <2>1
  <2>5. CASE io' = "running" /\ handshakes' = handshakes + 1 + 1 /\ Len(writes') = Len(writes)
    <3>1. Readers' = n + 2
      BY <1>1, <1>2, <1>3, <2>5, CountsOfLife DEF Readers
    <3>2. (m_packageCounter' = 1) = TRUE
      BY <2>2, <2>5
    <3>3. life' = L(n + 2, w, TRUE, "ready")
      BY <1>3, <2>5, <3>1, <3>2, LifeAtNext, LifeParts, Zenon
    <3> QED BY <2>3, <3>3, OtherChoices, Zenon DEF Abstract!Shut
  <2>6. CASE io' = "running" /\ handshakes' = handshakes + 1 /\ Len(writes') = Len(writes) + 1
    <3>1. Readers' = n + 1
      BY <1>1, <1>2, <1>3, <2>6, CountsOfLife DEF Readers
    <3>2. (m_packageCounter' = 1) = TRUE
      BY <2>2, <2>6
    <3>3. life' = L(n + 1, w + 1, TRUE, "ready")
      BY <1>3, <2>6, <3>1, <3>2, LifeAtNext, LifeParts, Zenon
    <3> QED BY <2>3, <3>3, OtherChoices, Zenon DEF Abstract!Shut
  <2>7. CASE io' = "ended" /\ UNCHANGED << handshakes, writes >>
    <3>1. m_packageCounter' = m_packageCounter
      BY <2>1, <2>2, <2>7
    <3>2. life' = L(n, w, f, "threw")
      BY <1>3, <1>4, <1>5, <2>7, <3>1, LifeAtNext, LifeParts, Zenon
    <3> QED BY <2>3, <3>2, OtherChoices, Zenon DEF Abstract!Shut
  <2> QED BY <2>2, <2>5, <2>6, <2>7 DEF Goes
<1> QED BY <1>6, <1>7, <1>8 DEF ShutdownReturns

(* Every step of a connection is a step of its abstract life or changes    *)
(* nothing of it.                                                          *)
LEMMA NextLife ==
  ASSUME IInv, [Next]_vars
  PROVE  [Abstract!Next]_life
<1>1. CASE handle_handshake
  BY <1>1, HandshakeLife DEF Abstract!Next
<1>2. CASE handleReadArrived \/ handleReadQueued
  BY <1>2, ReadLife DEF Abstract!Next
<1>3. CASE handleReadEmpty \/ handleReadEof \/ handleReadError
  BY <1>3, ReadEndsLife DEF Abstract!Next
<1>4. CASE handleWrite
  BY <1>4, WriteLife DEF Abstract!Next
<1>5. CASE ShutdownReturns \/ ShutdownThrows
  BY <1>5, ShutdownLife DEF Abstract!Next
<1>6. CASE ClientLeaves \/ UNCHANGED vars
  <2>1. UNCHANGED << handshakes, reads, filled, writes, m_packageCounter, io, resume >>
    BY <1>6 DEF ClientLeaves, PeerLeaves, vars, streamVars, packageVars
  <2> QED BY <2>1, SameLife DEF Readers
<1> QED BY <1>1, <1>2, <1>3, <1>4, <1>5, <1>6 DEF Next

LEMMA InitLife ==
  ASSUME Init
  PROVE  Abstract!Init
<1>1. /\ Readers = 1 /\ Len(writes) = 0 /\ at = "ready"
      /\ (m_packageCounter = 1) = FALSE
  BY DEF Init, StreamInit, Readers, at
<1> QED BY <1>1, LifeParts, Zenon DEF Abstract!Init, Abstract!Accepted, L

(* A connection implements AbstractConnection: whatever requests, buffer,  *)
(* cuts and orders, the server never sees it do anything else.             *)
THEOREM LifeImplemented == Spec => ImplementsLife
<1>1. Init => Abstract!Init
  BY InitLife
<1>2. IInv /\ [Next]_vars => [Abstract!Next]_life
  BY NextLife
<1> QED BY <1>1, <1>2, Invariance, PTL DEF Spec, ImplementsLife, Abstract!Spec

=============================================================================
