--------------------------- MODULE HalcsAcq_proofs ---------------------------
(***************************************************************************)
(* Proofs about the acquisition workflow of module HalcsAcq, for every     *)
(* value of its constants that satisfies ConstAssumption.                  *)
(***************************************************************************)
EXTENDS HalcsAcq, SequenceTheorems, TLAPS

USE ConstAssumption

-----------------------------------------------------------------------------
(* The session's receive.                                                  *)

\* What the poller hands a waiting call is either the oldest reply of the
\* pipe, which is a well-formed reply, or the NULL of a timed-out receive,
\* which only happens while fewer than MaxLate receives have timed out.
LEMMA ReceivedFacts ==
    ASSUME TypeOK, NEW rep \in Received
    PROVE  /\ rep.present => /\ toClient # << >>
                             /\ rep = Head(toClient)
                             /\ rep \in Replies
           /\ ~rep.present => late < MaxLate
<1>1. CASE toClient # << >>
  <2>1. rep = Head(toClient)
    BY <1>1 DEF Received
  <2>2. Head(toClient) \in Replies
    BY <1>1, HeadTailProperties DEF TypeOK
  <2>3. rep.present
    BY <2>1, <2>2 DEF Replies
  <2>. QED  BY <1>1, <2>1, <2>2, <2>3
<1>2. CASE toClient = << >>
  <2>1. late < MaxLate /\ rep = NoReport(NoData)
    BY <1>2 DEF Received
  <2>2. ~rep.present
    BY <2>1 DEF NoReport, Report
  <2>. QED  BY <1>2, <2>1, <2>2
<1>. QED  BY <1>1, <1>2

\* Consuming what was received keeps the pipe and the count of timed-out
\* receives well-typed.
LEMMA ConsumeType ==
    ASSUME TypeOK, NEW rep \in Received, Consume(rep)
    PROVE  /\ toClient' \in Seq(Replies)
           /\ late' \in 0..MaxLate
           /\ waiting' \in BOOLEAN
<1>1. CASE rep.present
  <2>1. toClient # << >>
    BY <1>1, ReceivedFacts
  <2>2. toClient' = Tail(toClient) /\ late' = late
    BY <1>1 DEF Consume
  <2>. QED  BY <2>1, <2>2, HeadTailProperties DEF TypeOK, Consume
<1>2. CASE ~rep.present
  <2>1. late < MaxLate
    BY <1>2, ReceivedFacts
  <2>2. toClient' = toClient /\ late' = late + 1
    BY <1>2 DEF Consume
  <2>3. late' \in 0..MaxLate
    BY <2>1, <2>2 DEF TypeOK
  <2>4. toClient' \in Seq(Replies)
    BY <2>2 DEF TypeOK
  <2>5. waiting' = FALSE
    BY DEF Consume
  <2>. QED  BY <2>3, <2>4, <2>5
<1>. QED  BY <1>1, <1>2

\* The replies the server appends are well-formed.
LEMMA StatusReplyType ==
    ASSUME NEW st \in {"SUCCESS", "ERR_REMOTE"}
    PROVE  StatusReply(st) \in Replies
BY DEF StatusReply, Report, NoData, Replies, Chunk, MsgErrCodeSize

LEMMA ValidBytesNat ==
    ASSUME NEW r \in Requests \cup {NoReq}, NEW i \in Nat
    PROVE  ValidBytes(r, i) \in Nat
<1>1. r.pre \in Nat /\ r.post \in Nat /\ r.shots \in Nat
  BY DEF NoReq
<1>2. TotalSamples(r) \in Int /\ NMax \in Nat
  BY <1>1 DEF TotalSamples, NMax
<1>. QED  BY <1>2 DEF ValidBytes

-----------------------------------------------------------------------------
(* Type correctness.                                                       *)

LEMMA InitType == Init => TypeOK
<1>1. << >> \in Seq(Msgs) /\ << >> \in Seq(Replies) /\ << >> \in Seq(Chunk)
  BY EmptySeq
<1>2. NoReq \in Requests \cup {NoReq} /\ 0 \in Capacities \cup {0}
  OBVIOUS
<1>3. [call |-> 0, req |-> NoReq] \in [call : 0..MaxCalls, req : Requests \cup {NoReq}]
  BY <1>2
<1>4. "NONE" \in Results /\ 0 \in 0..(Word - 1) /\ 0 \in PollTimeouts \cup {0}
  BY DEF Results
<1>5. ASSUME Init
      PROVE  /\ hw \in {"IDLE", "ACQUIRING", "DONE"}
             /\ pc \in {"idle", "start", "poll", "curve", "crashed"}
             /\ waiting \in BOOLEAN /\ newAcq \in BOOLEAN
             /\ probed \in BOOLEAN /\ interrupted \in BOOLEAN
  BY <1>5 DEF Init
<1>6. ASSUME Init
      PROVE  /\ blkData \in Nat /\ blkIdx \in Nat /\ blkBytesRead \in Nat
             /\ blockN \in Nat /\ totalBread \in 0..(Word - 1)
             /\ pollStart \in 0..MaxClock /\ calls \in 0..MaxCalls
             /\ now \in 0..MaxClock /\ late \in 0..MaxLate
  BY <1>6 DEF Init
<1>. QED  BY <1>1, <1>3, <1>4, <1>5, <1>6 DEF Init, TypeOK

\* The client's actions keep every variable in its type.
LEMMA ClientStepType ==
    ASSUME TypeOK, ClientStep
    PROVE  TypeOK'
<1>. USE DEF ClientStep, serverVars, transVars, clientVars, envVars
<1>1. CASE Call
  <2>1. << >> \in Seq(Chunk)
    BY EmptySeq
  <2>2. PICK n \in BOOLEAN, r \in Requests, c \in Capacities, t \in PollTimeouts :
           /\ newAcq' = n /\ timeout' = t /\ transReq' = r
           /\ blkData' = 0 /\ blkDataSize' = c /\ cap' = c
           /\ pc' = IF n THEN "start" ELSE "curve"
    BY <1>1 DEF Call
  <2>3. c \in 0..(Word - 1)
    OBVIOUS
  <2>. QED  BY <1>1, <2>1, <2>2, <2>3 DEF Call, TypeOK, Results, ClientErrors
<1>2. CASE StartSend
  <2>1. Msg("start", calls, transReq, 0) \in Msgs
    BY DEF TypeOK, Msg, Msgs
  <2>2. toServer' \in Seq(Msgs)
    BY <1>2, <2>1, AppendProperties DEF StartSend, Send, TypeOK
  <2>. QED  BY <1>2, <2>2 DEF StartSend, Send, TypeOK
<1>3. CASE StartRecv
  <2>1. PICK rep \in Received : Consume(rep) /\ pc' = IF ExecCrashes(rep, FALSE) THEN "crashed" ELSE "poll"
    BY <1>3 DEF StartRecv
  <2>2. toClient' \in Seq(Replies) /\ late' \in 0..MaxLate /\ waiting' \in BOOLEAN
    BY <2>1, ConsumeType
  <2>. QED  BY <1>3, <2>1, <2>2 DEF StartRecv, TypeOK
<1>4. CASE PollTimeout
  BY <1>4 DEF PollTimeout, FinishCall, TypeOK, Results, ClientErrors
<1>5. CASE PollInterrupted
  BY <1>5 DEF PollInterrupted, FinishCall, TypeOK, Results, ClientErrors
<1>6. CASE PollSend
  <2>1. Msg("check", calls, NoReq, 0) \in Msgs
    BY DEF TypeOK, Msg, Msgs
  <2>2. toServer' \in Seq(Msgs)
    BY <1>6, <2>1, AppendProperties DEF PollSend, Send, TypeOK
  <2>. QED  BY <1>6, <2>2 DEF PollSend, Send, TypeOK
<1>7. CASE PollRecv
  <2>1. PICK rep \in Received : Consume(rep) /\ pc' \in {"crashed", "curve", "poll"}
    BY <1>7 DEF PollRecv
  <2>2. toClient' \in Seq(Replies) /\ late' \in 0..MaxLate /\ waiting' \in BOOLEAN
    BY <2>1, ConsumeType
  <2>3. /\ blockN' = 0 /\ totalBread' = 0
        /\ UNCHANGED <<hw, acq, toServer, transVars, newAcq, timeout, pollStart,
                       probed, innerErr, result, calls, interrupted, now>>
    BY <1>7 DEF PollRecv
  <2>. QED  BY <2>1, <2>2, <2>3 DEF TypeOK
<1>8. CASE CurveDone
  BY <1>8 DEF CurveDone, FinishCall, TypeOK, Results, ClientErrors
<1>9. CASE CurveInterrupted
  BY <1>9 DEF CurveInterrupted, FinishCall, TypeOK, Results, ClientErrors
<1>10. CASE CurveSend
  <2>1. Msg("block", calls, transReq, blockN) \in Msgs
    BY DEF TypeOK, Msg, Msgs
  <2>2. toServer' \in Seq(Msgs)
    BY <1>10, <2>1, AppendProperties DEF CurveSend, Send, TypeOK
  <2>. QED  BY <1>10, <2>2 DEF CurveSend, Send, TypeOK
<1>11. CASE CurveRecv
  <2>1. PICK rep \in Received :
           /\ Consume(rep)
           /\ \/ /\ ExecErr(rep) # "SUCCESS"
                 /\ FinishCall("ERR_SERVER")
                 /\ UNCHANGED <<blkData, blkDataSize, blkBytesRead, buf, blockN,
                                totalBread>>
              \/ /\ ExecErr(rep) = "SUCCESS"
                 /\ \E v \in IF ExecCopies(rep) THEN {rep.payload} ELSE Garbage :
                      LET n == ReadSize(blkDataSize, v.valid)
                      IN  /\ buf' = Append(buf, [acq |-> v.acq, idx |-> v.idx,
                                                 valid |-> n])
                          /\ blkBytesRead' = n
                          /\ totalBread' = (totalBread + n) % Word
                          /\ blkData' = blkData + n
                          /\ blkDataSize' = (blkDataSize - n) % Word
                          /\ blockN' = blockN + 1
                 /\ UNCHANGED <<pc, innerErr, result>>
    BY <1>11 DEF CurveRecv
  <2>2. toClient' \in Seq(Replies) /\ late' \in 0..MaxLate /\ waiting' \in BOOLEAN
    BY <2>1, ConsumeType
  <2>3. CASE ExecErr(rep) # "SUCCESS"
    BY <1>11, <2>1, <2>2, <2>3 DEF CurveRecv, FinishCall, TypeOK, Results, ClientErrors
  <2>4. CASE ExecErr(rep) = "SUCCESS"
    <3>. DEFINE Read == IF ExecCopies(rep) THEN {rep.payload} ELSE Garbage
                Size(v) == ReadSize(blkDataSize, v.valid)
                Copy(v) == /\ buf' = Append(buf, [acq |-> v.acq, idx |-> v.idx,
                                                  valid |-> Size(v)])
                           /\ blkBytesRead' = Size(v)
                           /\ totalBread' = (totalBread + Size(v)) % Word
                           /\ blkData' = blkData + Size(v)
                           /\ blkDataSize' = (blkDataSize - Size(v)) % Word
                           /\ blockN' = blockN + 1
    <3>1. Read \subseteq Chunk
      <4>1. CASE ExecCopies(rep)
        <5>1. rep.present
          BY <4>1 DEF ExecCopies, Discarded
        <5>. QED  BY <4>1, <5>1, ReceivedFacts DEF Replies
      <4>2. CASE ~ExecCopies(rep)
        BY <4>2 DEF Garbage, Chunk
      <4>. QED  BY <4>1, <4>2
    <3>2. \E v \in Read : Copy(v)
      BY <2>1, <2>4
    <3>3. PICK v \in Chunk : Copy(v)
      BY <3>1, <3>2
    <3>4. Size(v) \in Nat
      BY <3>3 DEF Chunk, ReadSize, TypeOK
    <3>5. [acq |-> v.acq, idx |-> v.idx, valid |-> Size(v)] \in Chunk
      BY <3>3, <3>4 DEF Chunk
    <3>6. buf' \in Seq(Chunk)
      BY <3>3, <3>5, AppendProperties DEF TypeOK
    <3>7. /\ blkData' \in Nat /\ blkBytesRead' \in Nat /\ blockN' \in Nat
          /\ blkDataSize' \in 0..(Word - 1) /\ totalBread' \in 0..(Word - 1)
      <4>1. /\ blkBytesRead' = Size(v)
            /\ totalBread' = (totalBread + Size(v)) % Word
            /\ blkData' = blkData + Size(v)
            /\ blkDataSize' = (blkDataSize - Size(v)) % Word
            /\ blockN' = blockN + 1
        BY <3>3
      <4>2. Size(v) \in Nat /\ blkData \in Nat /\ blockN \in Nat
            /\ totalBread \in Int /\ blkDataSize \in Int
        BY <3>4 DEF TypeOK
      <4>. HIDE DEF Size
      <4>. QED  BY <4>1, <4>2
    <3>. QED  BY <1>11, <2>1, <2>2, <2>4, <3>6, <3>7 DEF CurveRecv, TypeOK
  <2>. QED  BY <2>3, <2>4
<1>. QED  BY <1>1, <1>2, <1>3, <1>4, <1>5, <1>6, <1>7, <1>8, <1>9, <1>10, <1>11

\* A reply the server appends keeps the pipe well-typed.
LEMMA ReplyType ==
    ASSUME TypeOK, NEW r \in Replies, Reply(r)
    PROVE  toClient' \in Seq(Replies)
BY AppendProperties DEF Reply, TypeOK

\* The server's handling of one request keeps every variable in its type.
LEMMA ServeType ==
    ASSUME TypeOK, Serve
    PROVE  TypeOK'
<1>. DEFINE m == Head(toServer)
<1>1. toServer # << >> /\ toServer' = Tail(toServer)
  BY DEF Serve
<1>2. m \in Msgs /\ toServer' \in Seq(Msgs)
  BY <1>1, HeadTailProperties DEF TypeOK
<1>3. UNCHANGED <<transVars, clientVars, envVars>>
  BY DEF Serve
<1>4. /\ hw' \in {"IDLE", "ACQUIRING", "DONE"}
      /\ acq' \in [call : 0..MaxCalls, req : Requests \cup {NoReq}]
      /\ toClient' \in Seq(Replies)
  <2>1. CASE ServeStart(m)
    <3>1. StatusReply("SUCCESS") \in Replies /\ StatusReply("ERR_REMOTE") \in Replies
      BY StatusReplyType
    <3>2. [call |-> m.call, req |-> m.req] \in [call : 0..MaxCalls, req : Requests \cup {NoReq}]
      BY <1>2 DEF Msgs
    <3>. QED  BY <2>1, <3>1, <3>2, ReplyType DEF ServeStart, TypeOK
  <2>2. CASE ServeCheck(m)
    <3>1. StatusReply(IF hw = "DONE" THEN "SUCCESS" ELSE "ERR_REMOTE") \in Replies
      BY StatusReplyType
    <3>. QED  BY <2>2, <3>1, ReplyType DEF ServeCheck, TypeOK
  <2>3. CASE ServeBlock(m)
    <3>1. m.idx \in Nat /\ acq.call \in 0..MaxCalls /\ acq.req \in Requests \cup {NoReq}
      BY <1>2 DEF Msgs, TypeOK
    <3>2. ValidBytes(acq.req, m.idx) \in Nat
      BY <3>1, ValidBytesNat
    <3>3. DataReply([acq |-> acq.call, idx |-> m.idx,
                     valid |-> ValidBytes(acq.req, m.idx)]) \in Replies
      BY <3>1, <3>2 DEF DataReply, Report, Replies, Chunk, MsgFullSize
    <3>4. StatusReply("ERR_REMOTE") \in Replies
      BY StatusReplyType
    <3>. QED  BY <2>3, <3>3, <3>4, ReplyType DEF ServeBlock, TypeOK
  <2>. QED  BY <2>1, <2>2, <2>3 DEF Serve
<1>. QED  BY <1>2, <1>3, <1>4 DEF TypeOK, transVars, clientVars, envVars

\* The hardware and the process's environment keep every variable in its type.
LEMMA EnvType ==
    ASSUME TypeOK, HwComplete \/ Interrupt \/ Tick
    PROVE  TypeOK'
<1>. USE DEF TypeOK, serverVars, transVars, clientVars, envVars
<1>1. CASE HwComplete
  BY <1>1 DEF HwComplete
<1>2. CASE Interrupt
  BY <1>2 DEF Interrupt
<1>3. CASE Tick
  BY <1>3 DEF Tick
<1>. QED  BY <1>1, <1>2, <1>3

\* Every step keeps every variable in its type.
LEMMA TypeStep ==
    ASSUME TypeOK, [Next]_vars
    PROVE  TypeOK'
<1>1. CASE ClientStep
  BY <1>1, ClientStepType
<1>2. CASE Serve
  BY <1>2, ServeType
<1>3. CASE HwComplete \/ Interrupt \/ Tick
  BY <1>3, EnvType
<1>4. CASE UNCHANGED vars
  BY <1>4 DEF TypeOK, vars, serverVars, transVars, clientVars, envVars
<1>. QED  BY <1>1, <1>2, <1>3, <1>4 DEF Next

\* Type correctness: every state the acquisition workflow reaches gives each
\* variable of the client, the session and the server a value of its type.
THEOREM TypeCorrect == Spec => []TypeOK
<1>1. Init => TypeOK
  BY InitType
<1>2. TypeOK /\ [Next]_vars => TypeOK'
  BY TypeStep
<1>. QED  BY <1>1, <1>2, PTL DEF Spec

-----------------------------------------------------------------------------
(* The caller's buffer.                                                    *)

\* The inductive invariant: type correctness and the buffer accounting of
\* get_curve.  NoBufferOverrun alone is not inductive, since a step of
\* CurveRecv keeps it only because blkDataSize is a uint32_t below Word and
\* the copied size is a natural number, facts TypeOK carries.
BufInv == TypeOK /\ NoBufferOverrun

\* What get_data_block reads into read_val: the payload of a well-formed
\* reply, or the uninitialised structure.
LEMMA ReadChunk ==
    ASSUME TypeOK, NEW rep \in Received
    PROVE  (IF ExecCopies(rep) THEN {rep.payload} ELSE Garbage) \subseteq Chunk
<1>1. CASE ExecCopies(rep)
  <2>1. rep.present
    BY <1>1 DEF ExecCopies, Discarded
  <2>. QED  BY <1>1, <2>1, ReceivedFacts DEF Replies
<1>2. CASE ~ExecCopies(rep)
  BY <1>2 DEF Garbage, Chunk
<1>. QED  BY <1>1, <1>2

\* Subtracting at most data_size from data_size does not wrap around.
LEMMA NoWrap ==
    ASSUME NEW ds \in 0..(Word - 1), NEW k \in Nat, k <= ds
    PROVE  (ds - k) % Word = ds - k
OBVIOUS

\* The block read of get_curve keeps the write pointer plus the room left
\* equal to the size of the caller's buffer.
LEMMA CurveRecvBuf ==
    ASSUME BufInv, CurveRecv
    PROVE  NoBufferOverrun'
<1>1. PICK rep \in Received :
         /\ Consume(rep)
         /\ \/ /\ ExecErr(rep) # "SUCCESS"
               /\ UNCHANGED <<blkData, blkDataSize>>
            \/ \E v \in IF ExecCopies(rep) THEN {rep.payload} ELSE Garbage :
                 LET n == ReadSize(blkDataSize, v.valid)
                 IN  /\ blkData' = blkData + n
                     /\ blkDataSize' = (blkDataSize - n) % Word
  BY DEF CurveRecv
<1>2. cap' = cap
  BY DEF CurveRecv
<1>3. CASE UNCHANGED <<blkData, blkDataSize>>
  BY <1>2, <1>3 DEF BufInv, NoBufferOverrun
<1>4. CASE \E v \in IF ExecCopies(rep) THEN {rep.payload} ELSE Garbage :
             LET n == ReadSize(blkDataSize, v.valid)
             IN  /\ blkData' = blkData + n
                 /\ blkDataSize' = (blkDataSize - n) % Word
  <2>. DEFINE n(v) == ReadSize(blkDataSize, v.valid)
  <2>1. PICK v \in Chunk : /\ blkData' = blkData + n(v)
                           /\ blkDataSize' = (blkDataSize - n(v)) % Word
    BY <1>4, ReadChunk DEF BufInv
  <2>2. n(v) \in Nat /\ n(v) <= blkDataSize
    BY DEF ReadSize, Chunk, BufInv, TypeOK
  <2>3. blkDataSize' = blkDataSize - n(v)
    BY <2>1, <2>2, NoWrap DEF BufInv, TypeOK
  <2>4. PICK k \in Nat : /\ k <= blkDataSize
                         /\ blkData' = blkData + k
                         /\ blkDataSize' = blkDataSize - k
    BY <2>1, <2>2, <2>3
  <2>. QED  BY <1>2, <2>4 DEF BufInv, NoBufferOverrun, TypeOK
<1>. QED  BY <1>1, <1>3, <1>4

\* Every step keeps the buffer accounting.
LEMMA BufStep ==
    ASSUME BufInv, [Next]_vars
    PROVE  NoBufferOverrun'
<1>. DEFINE Kept == UNCHANGED <<blkData, blkDataSize, cap>>
<1>1. Kept => NoBufferOverrun'
  BY DEF BufInv, NoBufferOverrun
<1>2. CASE Call
  <2>1. PICK c \in Capacities : blkData' = 0 /\ blkDataSize' = c /\ cap' = c
    BY <1>2 DEF Call
  <2>. QED  BY <2>1 DEF NoBufferOverrun
<1>3. CASE CurveDone
  <2>1. blkData' = 0 /\ blkDataSize' = cap /\ cap' = cap
    BY <1>3 DEF CurveDone
  <2>2. cap \in Nat
    BY DEF BufInv, TypeOK
  <2>. QED  BY <2>1, <2>2 DEF NoBufferOverrun
<1>4. CASE CurveRecv
  BY <1>4, CurveRecvBuf
<1>5. CASE \/ StartSend \/ StartRecv \/ PollTimeout \/ PollInterrupted
           \/ PollSend \/ PollRecv \/ CurveInterrupted \/ CurveSend
  BY <1>1, <1>5 DEF StartSend, StartRecv, PollTimeout, PollInterrupted,
                     PollSend, PollRecv, CurveInterrupted, CurveSend, transVars
<1>6. CASE Serve \/ HwComplete \/ Interrupt \/ Tick \/ UNCHANGED vars
  BY <1>1, <1>6 DEF Serve, HwComplete, Interrupt, Tick, vars, transVars
<1>. QED  BY <1>2, <1>3, <1>4, <1>5, <1>6 DEF Next, ClientStep

\* get_curve never writes past the end of the caller's buffer: in every
\* reachable state the write pointer plus the room left is the buffer's size
\* and the pointer is inside it, for every block size, sample size, buffer
\* size and reply the server may send, the uninitialised read_val included.
THEOREM BufferSafe == Spec => []NoBufferOverrun
<1>1. Init => BufInv
  <2>1. Init => NoBufferOverrun
    BY DEF Init, NoBufferOverrun
  <2>. QED  BY <2>1, InitType DEF BufInv
<1>2. BufInv /\ [Next]_vars => BufInv'
  <2>. SUFFICES ASSUME BufInv, [Next]_vars PROVE BufInv'
    OBVIOUS
  <2>1. TypeOK'
    BY TypeStep DEF BufInv
  <2>2. NoBufferOverrun'
    BY BufStep
  <2>. QED  BY <2>1, <2>2 DEF BufInv
<1>3. BufInv => NoBufferOverrun
  BY DEF BufInv
<1>. QED  BY <1>1, <1>2, <1>3, PTL DEF Spec

====
