------------------------------ MODULE HalcsAcq ------------------------------
(***************************************************************************)
(* The acquisition workflow of libhalcsclient, over one client session:   *)
(* halcs_full_acq_compat -> _halcs_full_acq -> _halcs_acq_start,           *)
(* _func_polling(check) and _halcs_acq_get_curve, which fetches the curve  *)
(* block by block with _halcs_acq_get_data_block.  Every RPC goes through  *)
(* halcs_func_exec (module HalcsRpc) and is two steps here: the send, and  *)
(* the receive on the session poller, which either takes the oldest reply  *)
(* waiting in the session's pipe or times out.                             *)
(*                                                                         *)
(* The environment: the broker delivers requests and replies reliably and *)
(* in order (the spec's assumption), but a reply may come later than the   *)
(* session timeout; the ACQ module of the server (not in this repository,  *)
(* modelled from the spec) answers one request at a time; the hardware     *)
(* finishes an acquisition at some point; SIGINT may set zsys_interrupted; *)
(* the wall clock, sampled with second granularity, advances.              *)
(***************************************************************************)
EXTENDS Integers, Sequences, HalcsRpc

CONSTANTS
    BlockSize,     \* BLOCK_SIZE: bytes of samples one block reply carries
    SampleSize,    \* acq_chan[chan].sample_size of the channel acquired
    Requests,      \* acquisition requests [pre, post, shots] the caller issues
    Accepted,      \* the requests the server accepts in a start
    Capacities,    \* sizes of the caller's buffer, acq_trans->block.data_size
    PollTimeouts,  \* timeouts (ms) given to halcs_full_acq, -1 = infinite
    Word,          \* 2^32: uint32_t arithmetic is modulo Word
    MaxCalls,      \* bound: library calls the application makes
    MaxClock,      \* bound: seconds the wall clock advances
    MaxLate,       \* bound: receives that time out before their reply comes
    CanInterrupt   \* whether SIGINT may set zsys_interrupted

ASSUME ConstAssumption ==
    /\ SampleSize \in Nat \ {0}
    /\ BlockSize \in Nat /\ BlockSize >= SampleSize
    /\ Requests \subseteq [pre : Nat, post : Nat, shots : Nat]
    /\ Accepted \subseteq Requests
    /\ Capacities \subseteq Nat
    /\ PollTimeouts \subseteq Int
    /\ Word \in Nat \ {0}
    /\ \A c \in Capacities : c < Word
    /\ MaxCalls \in Nat /\ MaxClock \in Nat /\ MaxLate \in Nat
    /\ CanInterrupt \in BOOLEAN

\* INT_MAX, the wait a negative timeout is clamped to (line 2103).
IntMax == 2147483647

\* n_max_samples: samples that fit in one block (line 1229).
NMax == BlockSize \div SampleSize

\* num_samples_multishot, in uint32_t arithmetic (lines 1226-1228).
TotalSamples(r) == (((r.pre + r.post) % Word) * r.shots) % Word

\* block_n_valid: the last block index get_curve fetches (line 1230).  The
\* loop of line 1241 runs block_n = 0 .. LastIdx inclusive.
LastIdx(r) == TotalSamples(r) \div NMax

\* Bytes of samples the server reports valid in block i of an acquisition:
\* full blocks, then the remainder, then empty blocks up to LastIdx.
ValidBytes(r, i) ==
    LET left == TotalSamples(r) - i * NMax
    IN  (IF left > NMax THEN NMax ELSE IF left < 0 THEN 0 ELSE left) * SampleSize

\* Mutant: the clamp of line 1198 dropped, valid_bytes copied as it is.
ReadSizeNoClamp(dataSize, valid) == valid

\* read_size = min(block.data_size, read_val->valid_bytes) (lines 1198-1199).
ReadSize(dataSize, valid) == IF dataSize < valid THEN dataSize ELSE valid

\* Mutant: the loop test block_n <= block_n_valid of line 1241 written <.
MoreBlocksStrict(n, r) == n < LastIdx(r)

\* The loop test of get_curve: block_n <= block_n_valid (line 1241).
MoreBlocks(n, r) == n <= LastIdx(r)

NoReq == [pre |-> 0, post |-> 0, shots |-> 0]
NoData == [acq |-> 0, idx |-> 0, valid |-> 0]
MaxCap == CHOOSE c \in Capacities \cup {0} : \A d \in Capacities : d <= c

\* The uninitialised smio_acq_data_block_t read_val of line 1177 when
\* nothing was copied into it: acq = 0 marks data that belong to no
\* acquisition, valid_bytes is any uint32_t.  Values above MaxCap all clamp
\* to data_size, so 0..MaxCap and Word-1 cover every outcome of line 1198.
Garbage == [acq : {0}, idx : {0}, valid : (0..MaxCap) \cup {Word - 1}]

\* Mutant: a request built without its index frame (args list cut short).
MsgNoIdx(op, call, r, idx) == [op |-> op, call |-> call, req |-> r]

\* A request frame sequence: opcode and arguments.  call is a ghost: the
\* number of the library call that sent it.
Msg(op, call, r, idx) == [op |-> op, call |-> call, req |-> r, idx |-> idx]

\* The two reply shapes the server sends: [status] and [status, size, data].
StatusReply(st) == Report(TRUE, MsgErrCodeSize, st, TRUE, TRUE, NoData)
DataReply(data) == Report(TRUE, MsgFullSize, "SUCCESS", TRUE, TRUE, data)

VARIABLES
    hw,           \* server: acquisition core "IDLE", "ACQUIRING" or "DONE"
    acq,          \* server: [call, req] of the last accepted acquisition
    toServer,     \* requests sent, not yet handled by the server
    toClient,     \* replies in the session's pipe, not yet received
    pc,           \* client: "idle", "start", "poll", "curve" or "crashed"
    waiting,      \* client: a request is sent and its receive is pending
    newAcq,       \* argument new_acq of halcs_full_acq_compat
    timeout,      \* argument timeout of halcs_full_acq
    transReq,     \* acq_trans->req
    blkData,      \* acq_trans->block.data, as an offset into the buffer
    blkDataSize,  \* acq_trans->block.data_size
    blkIdx,       \* acq_trans->block.idx
    blkBytesRead, \* acq_trans->block.bytes_read
    cap,          \* data_size saved by get_curve (line 1237)
    buf,          \* the blocks copied into the caller's buffer, in order
    blockN,       \* block_n, the loop index of get_curve
    totalBread,   \* total_bread of get_curve
    pollStart,    \* start = time (NULL) of _func_polling (line 2107)
    probed,       \* ghost: the running _func_polling sent a check
    innerErr,     \* ghost: what polling or get_curve returned to full_acq
    result,       \* what the last library call returned
    calls,        \* library calls made so far
    interrupted,  \* zsys_interrupted
    now,          \* time (NULL), in seconds
    late          \* receives that timed out so far

serverVars == <<hw, acq, toServer>>
transVars == <<transReq, blkData, blkDataSize, blkIdx, blkBytesRead, cap, buf>>
clientVars == <<pc, waiting, newAcq, timeout, blockN, totalBread, pollStart,
                probed, innerErr, result, calls>>
envVars == <<interrupted, now, late>>
vars == <<serverVars, toClient, transVars, clientVars, envVars>>

Chunk == [acq : 0..MaxCalls, idx : Nat, valid : Nat]
Msgs == [op : {"start", "check", "block"}, call : 0..MaxCalls,
         req : Requests \cup {NoReq}, idx : Nat]
Replies == [present : {TRUE}, nframes : {MsgErrCodeSize, MsgFullSize},
            status : {"SUCCESS", "ERR_REMOTE"}, sizeFrameOk : {TRUE},
            sizeMatches : {TRUE}, payload : Chunk]
Results == ClientErrors \cup {"NONE"}

-----------------------------------------------------------------------------
(* The session: a send, and the receive of halcs_func_exec (line 265).     *)

Send(m) == /\ toServer' = Append(toServer, m)
           /\ waiting' = TRUE

\* What the poller can hand the waiting call: the oldest reply in the pipe,
\* or, when the pipe is empty, NULL after the session timeout.
Received ==
    IF toClient # <<>> THEN {Head(toClient)}
    ELSE IF late < MaxLate THEN {NoReport(NoData)} ELSE {}

\* Taking rep out of the pipe, or counting the timed-out receive.
Consume(rep) ==
    /\ waiting' = FALSE
    /\ IF rep.present THEN /\ toClient' = Tail(toClient)
                           /\ UNCHANGED late
                      ELSE /\ late' = late + 1
                           /\ UNCHANGED toClient

\* The return of a call, through halcs_full_acq (lines 1296-1306, an error
\* of polling or get_curve becomes HALCS_CLIENT_ERR_SERVER) when new_acq,
\* else straight from get_curve (line 1321).
FinishCall(inner) ==
    /\ pc' = "idle"
    /\ innerErr' = inner
    /\ result' = IF newAcq /\ inner # "SUCCESS" THEN "ERR_SERVER" ELSE inner

-----------------------------------------------------------------------------
(* The client.                                                             *)

\* halcs_full_acq_compat (lines 981-985, 1314-1323) with a fresh
\* transaction; without new_acq it goes straight to get_curve, whose locals
\* start at zero (lines 1235, 1241).
Call ==
    /\ pc = "idle"
    /\ calls < MaxCalls
    /\ \E n \in BOOLEAN, r \in Requests, c \in Capacities, t \in PollTimeouts :
        /\ newAcq' = n
        /\ timeout' = t
        /\ transReq' = r
        /\ blkData' = 0
        /\ blkDataSize' = c
        /\ cap' = c
        /\ pc' = IF n THEN "start" ELSE "curve"
    /\ blkIdx' = 0
    /\ blkBytesRead' = 0
    /\ buf' = <<>>
    /\ blockN' = 0
    /\ totalBread' = 0
    /\ innerErr' = "NONE"
    /\ calls' = calls + 1
    /\ UNCHANGED <<serverVars, toClient, waiting, pollStart, probed, result,
                   envVars>>

\* _halcs_acq_start: send [DATA_ACQUIRE, pre, post, shots, chan].
StartSend ==
    /\ pc = "start"
    /\ ~waiting
    /\ Send(Msg("start", calls, transReq, 0))
    /\ UNCHANGED <<hw, acq, toClient, transVars, pc, newAcq, timeout, blockN,
                   totalBread, pollStart, probed, innerErr, result, calls,
                   envVars>>

\* Its receive.  halcs_full_acq ignores what the start returns (line 1290)
\* and enters _func_polling, which samples the clock (line 2107).  The
\* call passes output = NULL, so a full reply here is copied into NULL.
StartRecv ==
    /\ pc = "start"
    /\ waiting
    /\ \E rep \in Received :
        /\ Consume(rep)
        /\ pc' = IF ExecCrashes(rep, FALSE) THEN "crashed" ELSE "poll"
    /\ pollStart' = now
    /\ probed' = FALSE
    /\ UNCHANGED <<serverVars, transVars, newAcq, timeout, blockN, totalBread,
                   innerErr, result, calls, interrupted, now>>

\* The wait bound of _func_polling: a negative timeout is INT_MAX.
EffTimeout == IF timeout < 0 THEN IntMax ELSE timeout

\* The loop test (time(NULL) - start)*1000 < timeout of line 2108.
InTime == (now - pollStart) * 1000 < EffTimeout

\* The loop ends: ERR_TIMEOUT (line 2129).
PollTimeout ==
    /\ pc = "poll"
    /\ ~waiting
    /\ ~InTime
    /\ FinishCall("ERR_TIMEOUT")
    /\ UNCHANGED <<serverVars, toClient, transVars, waiting, newAcq, timeout,
                   blockN, totalBread, pollStart, probed, calls, envVars>>

\* An iteration sees zsys_interrupted: HALCS_CLIENT_INT (lines 2109-2111).
PollInterrupted ==
    /\ pc = "poll"
    /\ ~waiting
    /\ InTime
    /\ interrupted
    /\ FinishCall("INT")
    /\ UNCHANGED <<serverVars, toClient, transVars, waiting, newAcq, timeout,
                   blockN, totalBread, pollStart, probed, calls, envVars>>

\* An iteration sends the check (lines 2114-2115).
PollSend ==
    /\ pc = "poll"
    /\ ~waiting
    /\ InTime
    /\ ~interrupted
    /\ Send(Msg("check", calls, NoReq, 0))
    /\ probed' = TRUE
    /\ UNCHANGED <<hw, acq, toClient, transVars, pc, newAcq, timeout, blockN,
                   totalBread, pollStart, innerErr, result, calls, envVars>>

\* The check's receive: success ends polling and full_acq goes on to
\* get_curve (lines 2117-2120, 1304), anything else sleeps and loops.
PollRecv ==
    /\ pc = "poll"
    /\ waiting
    /\ \E rep \in Received :
        /\ Consume(rep)
        /\ pc' = CASE ExecCrashes(rep, FALSE)       -> "crashed"
                   [] ExecErr(rep) = "SUCCESS"      -> "curve"
                   [] OTHER                         -> "poll"
    /\ blockN' = 0
    /\ totalBread' = 0
    /\ UNCHANGED <<serverVars, transVars, newAcq, timeout, pollStart, probed,
                   innerErr, result, calls, interrupted, now>>

\* get_curve leaves the loop: bytes_read becomes the total and the buffer
\* pointer and size are restored (lines 1269-1271).
CurveDone ==
    /\ pc = "curve"
    /\ ~waiting
    /\ ~MoreBlocks(blockN, transReq)
    /\ blkBytesRead' = totalBread
    /\ blkDataSize' = cap
    /\ blkData' = 0
    /\ FinishCall("SUCCESS")
    /\ UNCHANGED <<serverVars, toClient, transReq, blkIdx, cap, buf, waiting,
                   newAcq, timeout, blockN, totalBread, pollStart, probed,
                   calls, envVars>>

\* An iteration sees zsys_interrupted and returns at once (lines 1242-1244).
CurveInterrupted ==
    /\ pc = "curve"
    /\ ~waiting
    /\ MoreBlocks(blockN, transReq)
    /\ interrupted
    /\ FinishCall("INT")
    /\ UNCHANGED <<serverVars, toClient, transVars, waiting, newAcq, timeout,
                   blockN, totalBread, pollStart, probed, calls, envVars>>

\* An iteration sets block.idx and sends [GET_DATA_BLOCK, chan, idx]
\* (lines 1247-1248, 1173-1185).
CurveSend ==
    /\ pc = "curve"
    /\ ~waiting
    /\ MoreBlocks(blockN, transReq)
    /\ ~interrupted
    /\ blkIdx' = blockN
    /\ Send(Msg("block", calls, transReq, blockN))
    /\ UNCHANGED <<hw, acq, toClient, transReq, blkData, blkDataSize,
                   blkBytesRead, cap, buf, pc, newAcq, timeout, blockN,
                   totalBread, pollStart, probed, innerErr, result, calls,
                   envVars>>

\* The block's receive.  An error status is HALCS_CLIENT_ERR_SERVER and
\* get_curve returns it as it is, buffer fields not restored (lines
\* 1193-1195, 1251-1253).  Otherwise read_val is what was copied, or the
\* uninitialised structure; min(data_size, valid_bytes) bytes are copied
\* and the buffer advances (lines 1198-1205, 1255-1257).
CurveRecv ==
    /\ pc = "curve"
    /\ waiting
    /\ \E rep \in Received :
        /\ Consume(rep)
        /\ \/ /\ ExecErr(rep) # "SUCCESS"
              /\ FinishCall("ERR_SERVER")
              /\ UNCHANGED <<blkData, blkDataSize, blkBytesRead, buf, blockN,
                             totalBread>>
           \/ /\ ExecErr(rep) = "SUCCESS"
              /\ \E v \in IF ExecCopies(rep) THEN {rep.payload} ELSE Garbage :
                   LET n == ReadSize(blkDataSize, v.valid)
                   IN  /\ buf' = Append(buf, [acq |-> v.acq, idx |-> v.idx,
                                              valid |-> n])
                       /\ blkBytesRead' = n
                       /\ totalBread' = (totalBread + n) % Word
                       /\ blkData' = blkData + n
                       /\ blkDataSize' = (blkDataSize - n) % Word
                       /\ blockN' = blockN + 1
              /\ UNCHANGED <<pc, innerErr, result>>
    /\ UNCHANGED <<serverVars, transReq, blkIdx, cap, newAcq, timeout,
                   pollStart, probed, calls, interrupted, now>>

-----------------------------------------------------------------------------
(* The server's ACQ module, one request at a time (modelled from the spec).*)

Reply(rep) == toClient' = Append(toClient, rep)

\* A start it accepts re-arms the acquisition core; one it rejects leaves
\* the core, and the data of the last acquisition, as they are.
ServeStart(m) ==
    /\ m.op = "start"
    /\ \/ /\ m.req \in Accepted
          /\ hw' = "ACQUIRING"
          /\ acq' = [call |-> m.call, req |-> m.req]
          /\ Reply(StatusReply("SUCCESS"))
       \/ /\ m.req \notin Accepted
          /\ Reply(StatusReply("ERR_REMOTE"))
          /\ UNCHANGED <<hw, acq>>

ServeCheck(m) ==
    /\ m.op = "check"
    /\ Reply(StatusReply(IF hw = "DONE" THEN "SUCCESS" ELSE "ERR_REMOTE"))
    /\ UNCHANGED <<hw, acq>>

\* Blocks 0..LastIdx of a finished acquisition; anything else is an error.
ServeBlock(m) ==
    /\ m.op = "block"
    /\ \/ /\ hw = "DONE"
          /\ m.idx <= LastIdx(acq.req)
          /\ Reply(DataReply([acq |-> acq.call, idx |-> m.idx,
                              valid |-> ValidBytes(acq.req, m.idx)]))
       \/ /\ ~(hw = "DONE" /\ m.idx <= LastIdx(acq.req))
          /\ Reply(StatusReply("ERR_REMOTE"))
    /\ UNCHANGED <<hw, acq>>

Serve ==
    /\ toServer # <<>>
    /\ toServer' = Tail(toServer)
    /\ \/ ServeStart(Head(toServer))
       \/ ServeCheck(Head(toServer))
       \/ ServeBlock(Head(toServer))
    /\ UNCHANGED <<transVars, clientVars, envVars>>

\* The acquisition core finishes (trigger seen, samples stored).
HwComplete ==
    /\ hw = "ACQUIRING"
    /\ hw' = "DONE"
    /\ UNCHANGED <<acq, toServer, toClient, transVars, clientVars, envVars>>

-----------------------------------------------------------------------------
(* The process's environment.                                              *)

\* SIGINT: czmq's handler sets zsys_interrupted, which stays set.
Interrupt ==
    /\ CanInterrupt
    /\ ~interrupted
    /\ interrupted' = TRUE
    /\ UNCHANGED <<serverVars, toClient, transVars, clientVars, now, late>>

Tick ==
    /\ now < MaxClock
    /\ now' = now + 1
    /\ UNCHANGED <<serverVars, toClient, transVars, clientVars, interrupted,
                   late>>

-----------------------------------------------------------------------------

Init ==
    /\ hw = "IDLE"
    /\ acq = [call |-> 0, req |-> NoReq]
    /\ toServer = <<>>
    /\ toClient = <<>>
    /\ pc = "idle"
    /\ waiting = FALSE
    /\ newAcq = FALSE
    /\ timeout = 0
    /\ transReq = NoReq
    /\ blkData = 0
    /\ blkDataSize = 0
    /\ blkIdx = 0
    /\ blkBytesRead = 0
    /\ cap = 0
    /\ buf = <<>>
    /\ blockN = 0
    /\ totalBread = 0
    /\ pollStart = 0
    /\ probed = FALSE
    /\ innerErr = "NONE"
    /\ result = "NONE"
    /\ calls = 0
    /\ interrupted = FALSE
    /\ now = 0
    /\ late = 0

ClientStep ==
    \/ Call \/ StartSend \/ StartRecv
    \/ PollTimeout \/ PollInterrupted \/ PollSend \/ PollRecv
    \/ CurveDone \/ CurveInterrupted \/ CurveSend \/ CurveRecv

Next ==
    \/ ClientStep
    \/ Serve
    \/ HwComplete
    \/ Interrupt
    \/ Tick

Spec == Init /\ [][Next]_vars

-----------------------------------------------------------------------------
(* Properties.                                                             *)

TypeOK ==
    /\ hw \in {"IDLE", "ACQUIRING", "DONE"}
    /\ acq \in [call : 0..MaxCalls, req : Requests \cup {NoReq}]
    /\ toServer \in Seq(Msgs)
    /\ toClient \in Seq(Replies)
    /\ pc \in {"idle", "start", "poll", "curve", "crashed"}
    /\ waiting \in BOOLEAN
    /\ newAcq \in BOOLEAN
    /\ timeout \in PollTimeouts \cup {0}
    /\ transReq \in Requests \cup {NoReq}
    /\ blkData \in Nat
    /\ blkDataSize \in 0..(Word - 1)
    /\ blkIdx \in Nat
    /\ blkBytesRead \in Nat
    /\ cap \in Capacities \cup {0}
    /\ buf \in Seq(Chunk)
    /\ blockN \in Nat
    /\ totalBread \in 0..(Word - 1)
    /\ pollStart \in 0..MaxClock
    /\ probed \in BOOLEAN
    /\ innerErr \in Results
    /\ result \in Results
    /\ calls \in 0..MaxCalls
    /\ interrupted \in BOOLEAN
    /\ now \in 0..MaxClock
    /\ late \in 0..MaxLate

\* The caller's buffer is never written past its end: after every block of
\* get_curve the write pointer block.data plus the room left block.data_size
\* is the buffer's size, so memcpy at line 1202 stays inside it, whatever
\* valid_bytes the reply (or an uninitialised read_val) carries.
NoBufferOverrun ==
    /\ blkData + blkDataSize = cap
    /\ blkData <= cap

\* Sum of the bytes copied by the blocks of buf.
BytesCopied == LET f[i \in 0..Len(buf)] ==
                     IF i = 0 THEN 0 ELSE f[i - 1] + buf[i].valid
               IN  f[Len(buf)]

\* A call that returns success hands back a whole curve: blocks 0..LastIdx
\* of the request, in order, all from one acquisition, bytes_read their
\* total and the buffer pointer and size as the caller passed them (the
\* get_curve invariant of the spec, section 8).
CurveAssembled ==
    (pc = "idle" /\ result = "SUCCESS") =>
        /\ Len(buf) = LastIdx(transReq) + 1
        /\ \A i \in 1..Len(buf) : /\ buf[i].idx = i - 1
                                  /\ buf[i].acq # 0
                                  /\ buf[i].acq = buf[1].acq
        /\ blkBytesRead = BytesCopied
        /\ blkData = 0 /\ blkDataSize = cap

\* A halcs_full_acq that succeeds returns the data of the acquisition it
\* started itself, never those of an earlier one: full_acq is start, then
\* check_timed, then get_curve (spec 4.4), and an error fails the
\* acquisition workflow (spec 7).
FreshCurve ==
    (pc = "idle" /\ result = "SUCCESS" /\ newAcq) =>
        \A i \in 1..Len(buf) : buf[i].acq = calls

\* The spec (section 3): the transaction's buffer pointer and size are
\* restored on completion or failure of get_curve.
RestoredOnFailure ==
    (pc = "idle" /\ calls > 0) => (blkData = 0 /\ blkDataSize = cap)

\* The spec (section 5): timeout zero is one immediate attempt, so polling
\* never reports a timeout without having sent a check.
ZeroTimeoutProbes ==
    (pc = "idle" /\ innerErr = "ERR_TIMEOUT") => probed

\* The spec (section 4.4): on cancellation a call returns the distinct
\* "interrupted" status, not a timeout or a server error.
InterruptReported ==
    (pc = "idle" /\ innerErr = "INT") => result = "INT"

\* The process never dies in halcs_func_exec copying a payload to NULL.
NoNullCopy == pc # "crashed"

=============================================================================
