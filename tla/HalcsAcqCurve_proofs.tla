------------------------ MODULE HalcsAcqCurve_proofs ------------------------
(***************************************************************************)
(* Proof that get_curve hands back whole curves (CurveAssembled), for     *)
(* every block size, sample size, request, accepted or rejected start,    *)
(* buffer size and number of calls, when every reply arrives within the   *)
(* session timeout (MaxLate = 0).  With a late reply it does not hold:    *)
(* MC_HalcsAcq_stale.cfg shows a stale reply taken for the answer of a    *)
(* later request.                                                         *)
(***************************************************************************)
EXTENDS HalcsAcq_proofs, WellFoundedInduction

USE ConstAssumption

-----------------------------------------------------------------------------
(* The bytes the blocks of a buffer carry: BytesCopied is the sum of the   *)
(* valid fields of buf, a recursive function; SumOf gives it for any       *)
(* sequence of chunks.                                                     *)

\* The prefix sums of the valid fields of b, as BytesCopied defines them.
PSum(b) == CHOOSE f : f = [i \in 0..Len(b) |-> IF i = 0 THEN 0
                                                ELSE f[i - 1] + b[i].valid]

SumOf(b) == PSum(b)[Len(b)]

\* BytesCopied is SumOf(buf), by the definition of a recursive function.
LEMMA BytesCopiedIs == BytesCopied = SumOf(buf)
BY DEF BytesCopied, SumOf, PSum

\* g holds the prefix sums of the first k chunks of b.
IsPSum(g, b, k) ==
    /\ DOMAIN g = 0..k
    /\ \A i \in 0..k : g[i] = IF i = 0 THEN 0 ELSE g[i - 1] + b[i].valid

\* The least element of a non-empty set of naturals.
LEMMA LeastNat ==
    ASSUME NEW T \in SUBSET Nat, T # {}
    PROVE  \E x \in T : \A y \in T : ~(y < x)
<1>1. \E x \in T : \A y \in T : ~(<<y, x>> \in OpToRel(<, Nat))
  BY NatLessThanWellFounded, WFMin
<1>2. QED
  BY <1>1 DEF OpToRel

\* The first k + 1 prefix sums of a sequence of chunks exist, in Nat.
LEMMA PSumExists ==
    ASSUME NEW b \in Seq(Chunk), NEW k \in 0..Len(b)
    PROVE  \E g \in [0..k -> Nat] : IsPSum(g, b, k)
<1> DEFINE Q(x) == \E g \in [0..x -> Nat] : IsPSum(g, b, x)
<1> DEFINE T == {x \in 0..Len(b) : ~Q(x)}
<1>1. SUFFICES ASSUME T # {} PROVE FALSE
  BY Zenon
<1>2. T \in SUBSET Nat
  OBVIOUS
<1>3. PICK x \in T : \A y \in T : ~(y < x)
  BY <1>1, <1>2, LeastNat
<1>4. x \in 0..Len(b) /\ ~Q(x)
  BY <1>3
<1>5. CASE x = 0
  <2>1. [i \in 0..0 |-> 0] \in [0..0 -> Nat] /\ IsPSum([i \in 0..0 |-> 0], b, 0)
    BY DEF IsPSum
  <2>2. Q(0)
    BY <2>1
  <2>3. QED
    BY <1>4, <1>5, <2>2
<1>6. CASE x # 0
  <2>1. x - 1 \in 0..Len(b)
    BY <1>4, <1>6
  <2>2. x - 1 \notin T
    <3>1. x - 1 < x
      BY <1>4
    <3>2. QED
      BY <1>3, <3>1, Zenon
  <2>3. Q(x - 1)
    BY <2>1, <2>2
  <2>4. PICK g \in [0..x - 1 -> Nat] : IsPSum(g, b, x - 1)
    BY <2>3
  <2> DEFINE g2 == [i \in 0..x |-> IF i < x THEN g[i] ELSE g[x - 1] + b[x].valid]
  <2>5. b[x].valid \in Nat
    <3>1. x \in 1..Len(b)
      BY <1>4, <1>6
    <3>2. b[x] \in Chunk
      BY <3>1
    <3>3. QED
      BY <3>2 DEF Chunk
  <2>6. g2 \in [0..x -> Nat]
    BY <1>4, <1>6, <2>4, <2>5
  <2>7. IsPSum(g2, b, x)
    BY <1>4, <1>6, <2>4 DEF IsPSum
  <2>8. Q(x)
    BY <2>6, <2>7
  <2>9. QED
    BY <1>4, <2>8
<1>7. QED
  BY <1>5, <1>6

\* The prefix sums of the first k chunks are unique.
LEMMA PSumUnique ==
    ASSUME NEW b \in Seq(Chunk), NEW k \in 0..Len(b), NEW g, NEW h,
           IsPSum(g, b, k), IsPSum(h, b, k)
    PROVE  \A i \in 0..k : g[i] = h[i]
<1> DEFINE T == {i \in 0..k : g[i] # h[i]}
<1>1. SUFFICES ASSUME T # {} PROVE FALSE
  BY Zenon
<1>2. T \in SUBSET Nat
  OBVIOUS
<1>3. PICK x \in T : \A y \in T : ~(y < x)
  BY <1>1, <1>2, LeastNat
<1>4. x \in 0..k /\ g[x] # h[x]
  BY <1>3
<1>5. CASE x = 0
  BY <1>4, <1>5 DEF IsPSum
<1>6. CASE x # 0
  <2>1. x - 1 \in 0..k /\ x - 1 < x
    BY <1>4, <1>6
  <2>2. x - 1 \notin T
    BY <1>3, <2>1, Zenon
  <2>3. g[x - 1] = h[x - 1]
    BY <2>1, <2>2
  <2>4. g[x] = g[x - 1] + b[x].valid /\ h[x] = h[x - 1] + b[x].valid
    BY <1>4, <1>6 DEF IsPSum
  <2>5. QED
    BY <1>4, <2>3, <2>4
<1>7. QED
  BY <1>5, <1>6

\* PSum(b) is therefore the function of prefix sums of b.
LEMMA PSumFix ==
    ASSUME NEW b \in Seq(Chunk)
    PROVE  /\ IsPSum(PSum(b), b, Len(b))
           /\ PSum(b) \in [0..Len(b) -> Nat]
<1>1. PICK g \in [0..Len(b) -> Nat] : IsPSum(g, b, Len(b))
  BY PSumExists
<1>2. g = [i \in 0..Len(b) |-> IF i = 0 THEN 0 ELSE g[i - 1] + b[i].valid]
  BY <1>1 DEF IsPSum
<1>3. \E f : f = [i \in 0..Len(b) |-> IF i = 0 THEN 0 ELSE f[i - 1] + b[i].valid]
  BY <1>2
<1>4. PSum(b) = [i \in 0..Len(b) |-> IF i = 0 THEN 0 ELSE PSum(b)[i - 1] + b[i].valid]
  BY <1>3 DEF PSum
<1>5. IsPSum(PSum(b), b, Len(b))
  BY <1>4 DEF IsPSum
<1>6. \A i \in 0..Len(b) : PSum(b)[i] = g[i]
  BY <1>1, <1>5, PSumUnique
<1>7. QED
  BY <1>1, <1>4, <1>5, <1>6

\* An empty buffer carries no bytes.
LEMMA SumOfEmpty ==
    SumOf(<<>>) = 0
<1>1. IsPSum(PSum(<<>>), <<>>, 0)
  BY PSumFix, EmptySeq
<1>2. QED
  BY <1>1 DEF SumOf, IsPSum

\* The bytes a buffer carries are a natural number.
LEMMA SumOfType ==
    ASSUME NEW b \in Seq(Chunk)
    PROVE  SumOf(b) \in Nat
BY PSumFix DEF SumOf

\* A block appended to the buffer adds its valid bytes to the sum.
LEMMA SumOfAppend ==
    ASSUME NEW b \in Seq(Chunk), NEW x \in Chunk
    PROVE  SumOf(Append(b, x)) = SumOf(b) + x.valid
<1> DEFINE c == Append(b, x)
<1> DEFINE n == Len(b)
<1>1. c \in Seq(Chunk) /\ Len(c) = n + 1 /\ c[n + 1] = x
      /\ \A i \in 1..n : c[i] = b[i]
  BY AppendProperties
<1>2. IsPSum(PSum(c), c, n + 1)
  BY <1>1, PSumFix
<1> DEFINE F1 == [i \in 0..n |-> PSum(c)[i]]
<1>3. IsPSum(F1, b, n)
  BY <1>1, <1>2 DEF IsPSum
<1>4. IsPSum(PSum(b), b, n)
  BY PSumFix
<1>5. PSum(c)[n] = PSum(b)[n]
  <2>1. \A i \in 0..n : F1[i] = PSum(b)[i]
    BY <1>3, <1>4, PSumUnique
  <2>2. QED
    BY <2>1
<1>6. PSum(c)[n + 1] = PSum(c)[n] + x.valid
  BY <1>1, <1>2 DEF IsPSum
<1>7. QED
  BY <1>1, <1>5, <1>6 DEF SumOf

-----------------------------------------------------------------------------
(* The inductive invariant.  The client and the server run in lock step:  *)
(* a call sends one request and waits for its reply, and with no reply    *)
(* ever late the pipe holds at most the answer to the request pending.    *)

\* The request the waiting call has sent.
Pending ==
    CASE pc = "start" -> Msg("start", calls, transReq, 0)
      [] pc = "poll"  -> Msg("check", calls, NoReq, 0)
      [] OTHER        -> Msg("block", calls, transReq, blockN)

\* The replies the server can send to the pending request: a status to a
\* start or a check, and to the request of block blockN an error or the
\* block of the last accepted acquisition.
Expected(r) ==
    IF pc = "curve"
    THEN \/ r = StatusReply("ERR_REMOTE")
         \/ r = DataReply([acq |-> acq.call, idx |-> blockN,
                           valid |-> r.payload.valid])
    ELSE r \in {StatusReply(st) : st \in {"SUCCESS", "ERR_REMOTE"}}

\* No request outstanding, the request pending at the server, or its reply
\* the only one in the pipe.
Channel ==
    \/ ~waiting /\ toServer = << >> /\ toClient = << >>
    \/ waiting /\ toServer = << Pending >> /\ toClient = << >>
    \/ /\ waiting /\ toServer = << >>
       /\ Len(toClient) = 1 /\ Expected(Head(toClient))

Lockstep ==
    /\ pc # "crashed"
    /\ waiting => pc \in {"start", "poll", "curve"}
    /\ Channel
    /\ (pc = "curve" /\ toClient # << >> /\ Head(toClient).nframes = MsgFullSize)
          => hw = "DONE"
    /\ hw # "IDLE" => acq.call # 0
    /\ pc # "idle" => transReq \in Requests /\ calls # 0

\* get_curve's accounting: block blockN is the next to fetch, the blocks
\* fetched so far are 0 .. blockN - 1 of the last accepted acquisition, and
\* total_bread and the write pointer are the bytes they carry.
CInv ==
    /\ Lockstep
    /\ pc \in {"start", "poll"} => buf = << >> /\ blkData = 0
    /\ pc = "curve" => /\ Len(buf) = blockN
                       /\ blockN <= LastIdx(transReq) + 1
                       /\ waiting => blockN <= LastIdx(transReq)
                       /\ totalBread = BytesCopied
                       /\ blkData = BytesCopied
    /\ \A i \in 1..Len(buf) : buf[i].idx = i - 1 /\ buf[i].acq = acq.call
    /\ buf # << >> => acq.call # 0
    /\ (pc = "idle" /\ result = "SUCCESS") =>
          /\ Len(buf) = LastIdx(transReq) + 1
          /\ blkBytesRead = BytesCopied
          /\ blkData = 0 /\ blkDataSize = cap

IInv == BufInv /\ CInv

-----------------------------------------------------------------------------
(* Facts the step proofs share.                                            *)

\* BytesCopied after a step is SumOf of the buffer after it.
LEMMA BytesCopiedPrime == BytesCopied' = SumOf(buf')
BY DEF BytesCopied, SumOf, PSum

\* What halcs_func_exec makes of the two reply shapes of the server: a
\* status is returned and nothing copied, a block is copied.
LEMMA ReplyFacts ==
    ASSUME NEW st, NEW d
    PROVE  /\ StatusReply(st).present
           /\ StatusReply(st).nframes = MsgErrCodeSize
           /\ ~ExecCopies(StatusReply(st))
           /\ ExecErr(StatusReply(st)) = st
           /\ DataReply(d).present
           /\ DataReply(d).nframes = MsgFullSize
           /\ DataReply(d).payload = d
           /\ ExecCopies(DataReply(d))
           /\ ExecErr(DataReply(d)) = "SUCCESS"
BY DEF StatusReply, DataReply, Report, ExecCopies, ExecErr, Discarded,
       MsgErrCodeSize, MsgFullSize

\* Integer division and remainder, as Naturals gives them meaning.
LEMMA DivFacts ==
    ASSUME NEW a \in Nat, NEW b \in Nat \ {0}
    PROVE  /\ a \div b \in Nat
           /\ a >= b => a \div b # 0
BY SMT

LEMMA ModRange ==
    ASSUME NEW a \in Int, NEW w \in Nat \ {0}
    PROVE  a % w \in 0..(w - 1)
OBVIOUS

\* A block holds at least one sample.
LEMMA NMaxPos == NMax \in Nat \ {0}
BY DivFacts DEF NMax

\* get_curve's last block index is a natural number.
LEMMA LastIdxNat ==
    ASSUME NEW r \in Requests \cup {NoReq}
    PROVE  LastIdx(r) \in Nat
<1>1. r.pre \in Nat /\ r.post \in Nat /\ r.shots \in Nat
  BY DEF NoReq
<1>2. (r.pre + r.post) % Word \in Nat
  BY <1>1, ModRange
<1>3. PICK a \in Int : a = ((r.pre + r.post) % Word) * r.shots
  BY <1>1, <1>2
<1>4. a % Word \in Nat
  BY ModRange
<1>5. TotalSamples(r) \in Nat
  BY <1>3, <1>4 DEF TotalSamples
<1>. QED  BY <1>5, NMaxPos, DivFacts DEF LastIdx

\* With no reply ever late, the receive of a waiting call takes the only
\* reply in the pipe, the answer to the pending request, and empties it.
LEMMA RecvFacts ==
    ASSUME IInv, MaxLate = 0, waiting, NEW rep \in Received, Consume(rep)
    PROVE  /\ toServer = << >>
           /\ toClient # << >>
           /\ rep = Head(toClient)
           /\ Expected(rep)
           /\ rep.present
           /\ toClient' = << >>
           /\ late' = late
           /\ waiting' = FALSE
<1>1. late = 0
  BY DEF IInv, BufInv, TypeOK
<1>2. toClient # << >> /\ rep = Head(toClient)
  BY <1>1 DEF Received
<1>3. toServer = << >> /\ Len(toClient) = 1 /\ Expected(rep)
  BY <1>2 DEF IInv, CInv, Lockstep, Channel
<1>4. rep.present
  <2>1. CASE pc = "curve"
    BY <1>3, <2>1, ReplyFacts DEF Expected
  <2>2. CASE pc # "curve"
    BY <1>3, <2>2, ReplyFacts DEF Expected
  <2>. QED  BY <2>1, <2>2
<1>5. toClient \in Seq(Replies)
  BY DEF IInv, BufInv, TypeOK
<1>6. Tail(toClient) = << >>
  <2>1. Tail(toClient) \in Seq(Replies) /\ Len(Tail(toClient)) = 0
    BY <1>2, <1>3, <1>5, HeadTailProperties
  <2>. QED  BY <2>1, EmptySeq
<1>. QED  BY <1>2, <1>3, <1>4, <1>6 DEF Consume

-----------------------------------------------------------------------------
(* Steps of the hardware, the environment and the server.                  *)

\* A reply appended to the empty pipe is the only one in it.
LEMMA AppendEmpty ==
    ASSUME NEW x
    PROVE  Append(<< >>, x) = << x >>
OBVIOUS

\* The variables CInv reads.
CVars == <<hw, acq, toServer, toClient, pc, waiting, calls, transReq, blockN,
           buf, totalBread, blkData, blkDataSize, blkBytesRead, cap, result>>

\* A step that changes none of them keeps CInv.
LEMMA CFrame ==
    ASSUME CInv, UNCHANGED CVars
    PROVE  CInv'
BY BytesCopiedIs, BytesCopiedPrime
   DEF CInv, Lockstep, Channel, Expected, Pending, CVars

\* The acquisition core finishing, SIGINT and the clock keep CInv.
LEMMA EnvStep ==
    ASSUME IInv, HwComplete \/ Interrupt \/ Tick
    PROVE  CInv'
<1>1. CASE Interrupt \/ Tick
  BY <1>1, CFrame DEF Interrupt, Tick, IInv, CVars, serverVars, transVars,
                      clientVars
<1>2. CASE HwComplete
  <2>1. hw = "ACQUIRING" /\ hw' = "DONE"
        /\ UNCHANGED <<acq, toServer, toClient, pc, waiting, calls, transReq,
                       blockN, buf, totalBread, blkData, blkDataSize,
                       blkBytesRead, cap, result>>
    BY <1>2 DEF HwComplete, transVars, clientVars
  <2>2. Lockstep'
    BY <2>1 DEF IInv, CInv, Lockstep, Channel, Expected, Pending
  <2>. QED
    BY <2>1, <2>2, BytesCopiedIs, BytesCopiedPrime DEF IInv, CInv
<1>. QED  BY <1>1, <1>2

\* The server answers the pending request, and its answer is the one the
\* waiting call expects.
LEMMA ServeStep ==
    ASSUME IInv, Serve
    PROVE  CInv'
<1>1. waiting /\ toServer = << Pending >> /\ toClient = << >>
  BY DEF Serve, IInv, CInv, Lockstep, Channel
<1>2. Head(toServer) = Pending /\ toServer' = << >>
  BY <1>1 DEF Serve
<1>3. UNCHANGED <<pc, waiting, calls, transReq, blockN, buf, totalBread,
                  blkData, blkDataSize, blkBytesRead, cap, result>>
  BY DEF Serve, transVars, clientVars
<1>4. pc \in {"start", "poll", "curve"} /\ transReq \in Requests /\ calls # 0
  BY <1>1 DEF IInv, CInv, Lockstep
<1>5. BytesCopied' = BytesCopied
  BY <1>3, BytesCopiedIs, BytesCopiedPrime
\* The conjuncts of CInv that do not read the server's state.
<1>6. /\ (pc \in {"start", "poll"} => buf = << >> /\ blkData = 0)'
      /\ (pc = "curve" => /\ Len(buf) = blockN
                          /\ blockN <= LastIdx(transReq) + 1
                          /\ waiting => blockN <= LastIdx(transReq)
                          /\ totalBread = BytesCopied
                          /\ blkData = BytesCopied)'
      /\ ((pc = "idle" /\ result = "SUCCESS") =>
             /\ Len(buf) = LastIdx(transReq) + 1
             /\ blkBytesRead = BytesCopied
             /\ blkData = 0 /\ blkDataSize = cap)'
      /\ (waiting => pc \in {"start", "poll", "curve"})'
      /\ (pc # "crashed")'
      /\ (pc # "idle" => transReq \in Requests /\ calls # 0)'
  BY <1>3, <1>4, <1>5 DEF IInv, CInv, Lockstep
\* The answer, and what it leaves of the rest.
<1>7. /\ Channel'
      /\ (pc = "curve" /\ toClient # << >>
            /\ Head(toClient).nframes = MsgFullSize => hw = "DONE")'
      /\ (hw # "IDLE" => acq.call # 0)'
      /\ (\A i \in 1..Len(buf) : buf[i].idx = i - 1 /\ buf[i].acq = acq.call)'
      /\ (buf # << >> => acq.call # 0)'
  <2>1. CASE pc = "start"
    <3>1. Pending = Msg("start", calls, transReq, 0)
      BY <2>1 DEF Pending
    <3>2. ServeStart(Pending)
      BY <1>2, <3>1 DEF Serve, ServeCheck, ServeBlock, Msg
    <3>3. buf = << >>
      BY <2>1 DEF IInv, CInv
    <3>4. PICK st \in {"SUCCESS", "ERR_REMOTE"} :
             /\ toClient' = << StatusReply(st) >>
             /\ hw' # "IDLE" => acq'.call # 0
      <4>1. CASE transReq \in Accepted
        <5>1. hw' = "ACQUIRING" /\ acq'.call = calls
              /\ toClient' = Append(toClient, StatusReply("SUCCESS"))
          BY <3>1, <3>2, <4>1 DEF ServeStart, Reply, Msg
        <5>. QED  BY <1>1, <1>4, <5>1, AppendEmpty
      <4>2. CASE transReq \notin Accepted
        <5>1. UNCHANGED <<hw, acq>>
              /\ toClient' = Append(toClient, StatusReply("ERR_REMOTE"))
          BY <3>1, <3>2, <4>2 DEF ServeStart, Reply, Msg
        <5>. QED  BY <1>1, <5>1, AppendEmpty DEF IInv, CInv, Lockstep
      <4>. QED  BY <4>1, <4>2
    <3>5. StatusReply(st).nframes # MsgFullSize
      BY ReplyFacts DEF MsgFullSize, MsgErrCodeSize
    <3>6. Len(toClient') = 1 /\ Head(toClient') = StatusReply(st)
      BY <3>4
    <3>7. Channel'
      <4>1. pc' # "curve" /\ waiting' /\ toServer' = << >>
        BY <1>1, <1>2, <1>3, <2>1
      <4>2. Expected(StatusReply(st))'
        BY <4>1 DEF Expected
      <4>. QED  BY <3>6, <4>1, <4>2 DEF Channel
    <3>8. (pc = "curve" /\ toClient # << >>
             /\ Head(toClient).nframes = MsgFullSize => hw = "DONE")'
      BY <1>3, <2>1
    <3>. QED
      BY <1>3, <3>3, <3>4, <3>7, <3>8
  <2>2. CASE pc = "poll"
    <3>1. Pending = Msg("check", calls, NoReq, 0)
      BY <2>2 DEF Pending
    <3>2. ServeCheck(Pending)
      BY <1>2, <3>1 DEF Serve, ServeStart, ServeBlock, Msg
    <3>3. PICK st \in {"SUCCESS", "ERR_REMOTE"} :
             /\ toClient' = << StatusReply(st) >>
             /\ UNCHANGED <<hw, acq>>
      BY <1>1, <3>2, AppendEmpty DEF ServeCheck, Reply
    <3>4. Channel'
      <4>1. pc' = "poll" /\ waiting' /\ toServer' = << >>
        BY <1>1, <1>2, <1>3, <2>2
      <4>2. Expected(StatusReply(st))'
        BY <4>1 DEF Expected
      <4>. QED  BY <3>3, <4>1, <4>2 DEF Channel
    <3>. QED
      BY <1>3, <2>2, <3>3, <3>4 DEF IInv, CInv, Lockstep
  <2>3. CASE pc = "curve"
    <3>1. Pending = Msg("block", calls, transReq, blockN)
      BY <2>3 DEF Pending
    <3>2. ServeBlock(Pending) /\ Pending.idx = blockN
      BY <1>2, <3>1 DEF Serve, ServeStart, ServeCheck, Msg
    <3>3. UNCHANGED <<hw, acq>>
      BY <3>2 DEF ServeBlock
    <3>4. pc' = "curve" /\ waiting' /\ toServer' = << >>
      BY <1>1, <1>2, <1>3, <2>3
    <3>5. CASE hw = "DONE" /\ blockN <= LastIdx(acq.req)
      <4>0. PICK d : d = [acq |-> acq.call, idx |-> blockN,
                          valid |-> ValidBytes(acq.req, blockN)]
        OBVIOUS
      <4>1. toClient' = << DataReply(d) >>
        BY <1>1, <3>2, <3>5, <4>0, AppendEmpty DEF ServeBlock, Reply
      <4>2. DataReply(d) = DataReply([acq |-> acq.call, idx |-> blockN,
                                      valid |-> DataReply(d).payload.valid])
        BY <4>0, ReplyFacts
      <4>3. Expected(DataReply(d))'
        BY <1>3, <3>3, <3>4, <4>2 DEF Expected
      <4>4. Channel'
        BY <3>4, <4>1, <4>3 DEF Channel
      <4>. QED
        BY <1>3, <3>3, <3>5, <4>1, <4>4 DEF IInv, CInv, Lockstep
    <3>6. CASE ~(hw = "DONE" /\ blockN <= LastIdx(acq.req))
      <4>1. toClient' = << StatusReply("ERR_REMOTE") >>
        BY <1>1, <3>2, <3>6, AppendEmpty DEF ServeBlock, Reply
      <4>2. StatusReply("ERR_REMOTE").nframes # MsgFullSize
        BY ReplyFacts DEF MsgFullSize, MsgErrCodeSize
      <4>3. Expected(StatusReply("ERR_REMOTE"))'
        BY <3>4 DEF Expected
      <4>4. Channel'
        BY <3>4, <4>1, <4>3 DEF Channel
      <4>. QED
        BY <1>3, <3>3, <4>1, <4>2, <4>4 DEF IInv, CInv, Lockstep
    <3>. QED  BY <3>5, <3>6
  <2>. QED  BY <1>4, <2>1, <2>2, <2>3
<1>. QED  BY <1>6, <1>7 DEF CInv, Lockstep

-----------------------------------------------------------------------------
(* Steps of the client.                                                    *)

\* A call that sends its request when none is outstanding keeps CInv, if
\* the request is the one Pending names and, in get_curve, the block asked
\* for is one of the curve.
LEMMA SendFrame ==
    ASSUME IInv, ~waiting, waiting', toServer' = << Pending' >>,
           UNCHANGED <<hw, acq, toClient, pc, calls, transReq, blockN, buf,
                       totalBread, blkData, blkDataSize, blkBytesRead, cap,
                       result>>,
           pc \in {"start", "poll", "curve"},
           pc = "curve" => blockN <= LastIdx(transReq)
    PROVE  CInv'
<1>1. toClient = << >>
  BY DEF IInv, CInv, Lockstep, Channel
<1>2. Channel'
  BY <1>1 DEF Channel
<1>3. BytesCopied' = BytesCopied
  BY BytesCopiedIs, BytesCopiedPrime
<1>. QED  BY <1>1, <1>2, <1>3 DEF IInv, CInv, Lockstep

\* _halcs_acq_start, the check of _func_polling and the block request of
\* get_curve send the request Pending names.
LEMMA SendStep ==
    ASSUME IInv, StartSend \/ PollSend \/ CurveSend
    PROVE  CInv'
<1>1. toServer = << >>
  BY DEF StartSend, PollSend, CurveSend, IInv, CInv, Lockstep, Channel
<1>2. CASE StartSend
  <2>1. toServer' = << Msg("start", calls, transReq, 0) >>
    BY <1>1, <1>2, AppendEmpty DEF StartSend, Send
  <2>2. pc' = "start" /\ calls' = calls /\ transReq' = transReq
    BY <1>2 DEF StartSend, transVars
  <2>3. toServer' = << Pending' >>
    BY <2>1, <2>2 DEF Pending
  <2>. QED  BY <1>2, <2>3, SendFrame DEF StartSend, Send, transVars
<1>3. CASE PollSend
  <2>1. toServer' = << Msg("check", calls, NoReq, 0) >>
    BY <1>1, <1>3, AppendEmpty DEF PollSend, Send
  <2>2. pc' = "poll" /\ calls' = calls
    BY <1>3 DEF PollSend
  <2>3. toServer' = << Pending' >>
    BY <2>1, <2>2 DEF Pending
  <2>. QED  BY <1>3, <2>3, SendFrame DEF PollSend, Send, transVars
<1>4. CASE CurveSend
  <2>1. toServer' = << Msg("block", calls, transReq, blockN) >>
    BY <1>1, <1>4, AppendEmpty DEF CurveSend, Send
  <2>2. pc' = "curve" /\ calls' = calls /\ transReq' = transReq
        /\ blockN' = blockN
    BY <1>4 DEF CurveSend
  <2>3. toServer' = << Pending' >>
    BY <2>1, <2>2 DEF Pending
  <2>. QED  BY <1>4, <2>3, SendFrame DEF CurveSend, Send, MoreBlocks
<1>. QED  BY <1>2, <1>3, <1>4

\* A call that returns an error with no request outstanding keeps CInv.
LEMMA FailFrame ==
    ASSUME IInv, ~waiting, pc' = "idle", result' # "SUCCESS",
           UNCHANGED <<hw, acq, toServer, toClient, waiting, buf>>
    PROVE  CInv'
<1>1. toServer = << >> /\ toClient = << >>
  BY DEF IInv, CInv, Lockstep, Channel
<1>2. Channel'
  BY <1>1 DEF Channel
<1>. QED  BY <1>1, <1>2 DEF IInv, CInv, Lockstep

\* Polling that times out or sees SIGINT, and get_curve seeing SIGINT,
\* return an error.
LEMMA FailStep ==
    ASSUME IInv, PollTimeout \/ PollInterrupted \/ CurveInterrupted
    PROVE  CInv'
<1>1. CASE PollTimeout
  BY <1>1, FailFrame DEF PollTimeout, FinishCall, serverVars, transVars
<1>2. CASE PollInterrupted
  BY <1>2, FailFrame DEF PollInterrupted, FinishCall, serverVars, transVars
<1>3. CASE CurveInterrupted
  BY <1>3, FailFrame DEF CurveInterrupted, FinishCall, serverVars, transVars
<1>. QED  BY <1>1, <1>2, <1>3

\* get_curve leaves its loop after block LastIdx and returns success: the
\* buffer holds the whole curve, bytes_read is its size.
LEMMA DoneStep ==
    ASSUME IInv, CurveDone
    PROVE  CInv'
<1>1. pc = "curve" /\ ~waiting /\ ~(blockN <= LastIdx(transReq))
  BY DEF CurveDone, MoreBlocks
<1>2. transReq \in Requests /\ blockN \in Nat
  BY <1>1 DEF IInv, CInv, Lockstep, BufInv, TypeOK
<1>3. LastIdx(transReq) \in Nat
  BY <1>2, LastIdxNat
<1>4. Len(buf) = LastIdx(transReq) + 1 /\ totalBread = BytesCopied
  BY <1>1, <1>2, <1>3 DEF IInv, CInv
<1>5. /\ pc' = "idle" /\ result' = "SUCCESS"
      /\ blkBytesRead' = totalBread /\ blkData' = 0 /\ blkDataSize' = cap
      /\ UNCHANGED <<hw, acq, toServer, toClient, waiting, buf, transReq,
                     cap, calls>>
  BY DEF CurveDone, FinishCall, serverVars
<1>6. BytesCopied' = BytesCopied
  BY <1>5, BytesCopiedIs, BytesCopiedPrime
<1>7. toServer = << >> /\ toClient = << >>
  BY <1>1 DEF IInv, CInv, Lockstep, Channel
<1>8. Channel'
  BY <1>1, <1>5, <1>7 DEF Channel
<1>9. Lockstep'
  BY <1>1, <1>5, <1>8 DEF IInv, CInv, Lockstep
<1>10. ((pc = "idle" /\ result = "SUCCESS") =>
          /\ Len(buf) = LastIdx(transReq) + 1
          /\ blkBytesRead = BytesCopied
          /\ blkData = 0 /\ blkDataSize = cap)'
  BY <1>4, <1>5, <1>6
<1>. QED  BY <1>5, <1>9, <1>10 DEF IInv, CInv

\* A library call starts with an empty buffer and nothing outstanding.
LEMMA CallStep ==
    ASSUME IInv, Call
    PROVE  CInv'
<1>1. pc = "idle" /\ ~waiting /\ toServer = << >> /\ toClient = << >>
  BY DEF Call, IInv, CInv, Lockstep, Channel
<1>2. PICK n \in BOOLEAN, r \in Requests :
         /\ transReq' = r /\ blkData' = 0
         /\ pc' = IF n THEN "start" ELSE "curve"
  BY DEF Call
<1>3. /\ buf' = << >> /\ blockN' = 0 /\ totalBread' = 0
      /\ calls' = calls + 1 /\ calls \in Nat
      /\ UNCHANGED <<hw, acq, toServer, toClient, waiting>>
  BY DEF Call, IInv, BufInv, TypeOK, serverVars
<1>4. BytesCopied' = 0
  BY <1>3, BytesCopiedPrime, SumOfEmpty
<1>5. LastIdx(r) \in Nat
  BY LastIdxNat
<1>6. Channel'
  BY <1>1, <1>3 DEF Channel
<1>7. Lockstep'
  BY <1>1, <1>2, <1>3, <1>6 DEF IInv, CInv, Lockstep
<1>. QED  BY <1>2, <1>3, <1>4, <1>5, <1>7 DEF IInv, CInv

\* The receive of a start or of a check takes the status the server sent:
\* no payload is copied into NULL, and a successful check enters
\* get_curve with an empty buffer.
LEMMA StatusRecvStep ==
    ASSUME IInv, MaxLate = 0, StartRecv \/ PollRecv
    PROVE  CInv'
<1>1. pc \in {"start", "poll"} /\ waiting
  BY DEF StartRecv, PollRecv
<1>2. PICK rep \in Received :
         /\ Consume(rep)
         /\ pc' \in {"poll", "curve", "crashed"}
         /\ (pc' = "crashed" => ExecCrashes(rep, FALSE))
  BY DEF StartRecv, PollRecv
<1>3. toServer = << >> /\ Expected(rep) /\ toClient' = << >> /\ ~waiting'
  BY <1>1, <1>2, RecvFacts
<1>4. PICK st \in {"SUCCESS", "ERR_REMOTE"} : rep = StatusReply(st)
  BY <1>1, <1>3 DEF Expected
<1>5. pc' \in {"poll", "curve"}
  BY <1>2, <1>4, ReplyFacts DEF ExecCrashes
<1>6. /\ UNCHANGED <<hw, acq, toServer, transReq, calls, buf, blkData, result>>
      /\ (pc' = "curve" => blockN' = 0 /\ totalBread' = 0)
  BY <1>5 DEF StartRecv, PollRecv, serverVars, transVars
<1>7. buf = << >> /\ blkData = 0 /\ transReq \in Requests /\ calls # 0
  BY <1>1 DEF IInv, CInv, Lockstep
<1>8. BytesCopied' = 0
  BY <1>6, <1>7, BytesCopiedPrime, SumOfEmpty
<1>9. LastIdx(transReq) \in Nat
  BY <1>7, LastIdxNat
<1>10. Channel'
  BY <1>3, <1>6 DEF Channel
<1>11. Lockstep'
  BY <1>3, <1>5, <1>6, <1>7, <1>10 DEF IInv, CInv, Lockstep
<1>. QED  BY <1>5, <1>6, <1>7, <1>8, <1>9, <1>11 DEF IInv, CInv

\* The receive of a block: an error ends get_curve, a block is the next one
\* of the curve, from the last accepted acquisition, and is appended to the
\* buffer, total_bread and the write pointer advancing by the bytes copied.
LEMMA CurveRecvStep ==
    ASSUME IInv, BufInv', MaxLate = 0, CurveRecv
    PROVE  CInv'
<1>1. pc = "curve" /\ waiting
  BY DEF CurveRecv
<1>2. PICK rep \in Received :
         /\ Consume(rep)
         /\ \/ /\ ExecErr(rep) # "SUCCESS"
               /\ FinishCall("ERR_SERVER")
               /\ UNCHANGED <<blkData, blkDataSize, blkBytesRead, buf, blockN,
                              totalBread>>
            \/ /\ ExecErr(rep) = "SUCCESS"
               /\ \E v \in IF ExecCopies(rep) THEN {rep.payload} ELSE Garbage :
                    LET n == ReadSize(blkDataSize, v.valid)
                    IN  /\ buf' = Append(buf, [acq |-> v.acq, idx |-> v.idx,
                                               valid |-> n])
                        /\ blkBytesRead' = n
                        /\ totalBread' = (totalBread + n) % Word
                        /\ blkData' = blkData + n
                        /\ blkDataSize' = (blkDataSize - n) % Word
                        /\ blockN' = blockN + 1
               /\ UNCHANGED <<pc, innerErr, result>>
  BY DEF CurveRecv
<1>3. /\ toServer = << >> /\ toClient # << >> /\ rep = Head(toClient)
      /\ Expected(rep) /\ toClient' = << >> /\ ~waiting'
  BY <1>1, <1>2, RecvFacts
<1>4. UNCHANGED <<hw, acq, toServer, transReq, cap, calls>>
  BY DEF CurveRecv, serverVars
<1>5. rep \in Replies
  <2>1. rep.present
    BY <1>1, <1>2, RecvFacts
  <2>. QED  BY <2>1, ReceivedFacts DEF IInv, BufInv
<1>6. transReq \in Requests /\ calls # 0
  BY <1>1 DEF IInv, CInv, Lockstep
<1>7. Channel'
  BY <1>3, <1>4 DEF Channel
<1>8. CASE ExecErr(rep) # "SUCCESS"
  <2>1. pc' = "idle" /\ result' # "SUCCESS" /\ buf' = buf
    BY <1>2, <1>8 DEF FinishCall
  <2>2. Lockstep'
    BY <1>3, <1>4, <1>7, <2>1 DEF IInv, CInv, Lockstep
  <2>. QED  BY <1>4, <2>1, <2>2 DEF IInv, CInv
<1>9. CASE ExecErr(rep) = "SUCCESS"
  <2>1. rep = DataReply([acq |-> acq.call, idx |-> blockN,
                         valid |-> rep.payload.valid])
    BY <1>1, <1>3, <1>9, ReplyFacts DEF Expected
  <2>2. ExecCopies(rep) /\ rep.nframes = MsgFullSize
    BY <2>1, ReplyFacts
  <2>3. PICK vb \in Nat : rep.payload = [acq |-> acq.call, idx |-> blockN,
                                         valid |-> vb]
    BY <1>5, <2>1, ReplyFacts DEF Replies, Chunk
  <2>4. hw = "DONE" /\ acq.call # 0
    BY <1>1, <1>3, <2>2 DEF IInv, CInv, Lockstep
  <2>5. (IF ExecCopies(rep) THEN {rep.payload} ELSE Garbage) = {rep.payload}
    BY <2>2
  <2>6. PICK n \in Nat : n = ReadSize(blkDataSize, vb)
    <3>1. blkDataSize \in Nat
      BY DEF IInv, BufInv, TypeOK
    <3>. QED  BY <2>3, <3>1 DEF ReadSize
  <2>7. PICK c : c = [acq |-> acq.call, idx |-> blockN, valid |-> n]
    OBVIOUS
  <2>8. /\ buf' = Append(buf, c)
        /\ totalBread' = (totalBread + n) % Word
        /\ blkData' = blkData + n
        /\ blockN' = blockN + 1
        /\ pc' = pc /\ result' = result
    <3>1. \E v \in {rep.payload} :
            /\ buf' = Append(buf, [acq |-> v.acq, idx |-> v.idx,
                                   valid |-> ReadSize(blkDataSize, v.valid)])
            /\ totalBread' = (totalBread + ReadSize(blkDataSize, v.valid)) % Word
            /\ blkData' = blkData + ReadSize(blkDataSize, v.valid)
            /\ blockN' = blockN + 1
      BY <1>2, <1>9, <2>5
    <3>2. pc' = pc /\ result' = result
      BY <1>2, <1>9
    <3>. QED  BY <2>3, <2>6, <2>7, <3>1, <3>2
  <2>9. c \in Chunk /\ buf \in Seq(Chunk) /\ blockN \in Nat
    BY <2>7 DEF Chunk, IInv, BufInv, TypeOK
  <2>10. BytesCopied' = BytesCopied + n
    BY <2>7, <2>8, <2>9, SumOfAppend, BytesCopiedIs, BytesCopiedPrime
  <2>11. Len(buf) = blockN /\ blockN <= LastIdx(transReq)
         /\ totalBread = BytesCopied /\ blkData = BytesCopied
    BY <1>1 DEF IInv, CInv
  <2>12. blkData' <= cap /\ cap \in Nat /\ cap < Word /\ blkData \in Nat
    <3>1. blkData' <= cap
      BY <1>4 DEF BufInv, NoBufferOverrun
    <3>2. cap \in Capacities \cup {0} /\ blkData \in Nat
      BY DEF IInv, BufInv, TypeOK
    <3>. QED  BY <3>1, <3>2
  <2>13. totalBread' = blkData' /\ blkData' = BytesCopied'
    <3>1. blkData' = BytesCopied'
      BY <2>8, <2>10, <2>11
    <3>2. PICK x \in Nat : x = blkData + n /\ x < Word
      <4>1. blkData + n <= cap
        BY <2>8, <2>12
      <4>. QED  BY <2>6, <2>12, <4>1
    <3>3. totalBread' = x % Word
      BY <2>8, <2>11, <3>2
    <3>4. x % Word = x
      BY <3>2
    <3>. QED  BY <2>8, <3>1, <3>2, <3>3, <3>4
  <2>14. /\ Len(buf') = blockN'
         /\ \A i \in 1..Len(buf') : buf'[i].idx = i - 1
                                    /\ buf'[i].acq = acq.call
    <3>1. Len(buf') = Len(buf) + 1 /\ buf'[Len(buf) + 1] = c
          /\ \A i \in 1..Len(buf) : buf'[i] = buf[i]
      BY <2>8, <2>9, AppendProperties
    <3>2. \A i \in 1..Len(buf) : buf[i].idx = i - 1 /\ buf[i].acq = acq.call
      BY DEF IInv, CInv
    <3>. QED  BY <2>7, <2>8, <2>11, <3>1, <3>2
  <2>15. Lockstep'
    BY <1>1, <1>3, <1>4, <1>6, <1>7, <2>8 DEF IInv, CInv, Lockstep
  <2>16. (pc = "curve" => /\ Len(buf) = blockN
                          /\ blockN <= LastIdx(transReq) + 1
                          /\ waiting => blockN <= LastIdx(transReq)
                          /\ totalBread = BytesCopied
                          /\ blkData = BytesCopied)'
    <3>1. LastIdx(transReq) \in Nat
      BY <1>6, LastIdxNat
    <3>. QED  BY <1>3, <1>4, <2>8, <2>9, <2>11, <2>13, <2>14, <3>1
  <2>17. /\ (\A i \in 1..Len(buf) : buf[i].idx = i - 1 /\ buf[i].acq = acq.call)'
         /\ (buf # << >> => acq.call # 0)'
    BY <1>4, <2>4, <2>14
  <2>. QED  BY <1>1, <2>8, <2>15, <2>16, <2>17 DEF CInv
<1>. QED  BY <1>8, <1>9

-----------------------------------------------------------------------------
(* The invariant and the theorem.                                          *)

LEMMA InitIInv == Init => IInv
<1>. SUFFICES ASSUME Init PROVE IInv
  OBVIOUS
<1>1. BufInv
  BY InitType DEF Init, BufInv, NoBufferOverrun
<1>2. Channel
  BY DEF Init, Channel
<1>3. CInv
  BY <1>2 DEF Init, CInv, Lockstep
<1>. QED  BY <1>1, <1>3 DEF IInv

\* With no reply ever late, every step keeps the inductive invariant.
LEMMA IInvStep ==
    ASSUME MaxLate = 0, IInv, [Next]_vars
    PROVE  IInv'
<1>1. BufInv'
  <2>1. TypeOK' BY TypeStep DEF IInv, BufInv
  <2>2. NoBufferOverrun' BY BufStep DEF IInv
  <2>. QED  BY <2>1, <2>2 DEF BufInv
<1>2. CInv'
  <2>1. CASE Call
    BY <2>1, CallStep
  <2>2. CASE StartSend \/ PollSend \/ CurveSend
    BY <2>2, SendStep
  <2>3. CASE StartRecv \/ PollRecv
    BY <2>3, StatusRecvStep
  <2>4. CASE PollTimeout \/ PollInterrupted \/ CurveInterrupted
    BY <2>4, FailStep
  <2>5. CASE CurveDone
    BY <2>5, DoneStep
  <2>6. CASE CurveRecv
    BY <1>1, <2>6, CurveRecvStep
  <2>7. CASE Serve
    BY <2>7, ServeStep
  <2>8. CASE HwComplete \/ Interrupt \/ Tick
    BY <2>8, EnvStep
  <2>9. CASE UNCHANGED vars
    BY <2>9, CFrame DEF IInv, vars, CVars, serverVars, transVars, clientVars
  <2>. QED  BY <2>1, <2>2, <2>3, <2>4, <2>5, <2>6, <2>7, <2>8, <2>9
             DEF Next, ClientStep
<1>. QED  BY <1>1, <1>2 DEF IInv

\* The invariant gives CurveAssembled.
LEMMA IInvAssembled == IInv => CurveAssembled
<1>. SUFFICES ASSUME IInv, pc = "idle", result = "SUCCESS"
              PROVE  CurveAssembled
  BY DEF CurveAssembled
<1>1. transReq \in Requests \cup {NoReq}
  BY DEF IInv, BufInv, TypeOK
<1>2. LastIdx(transReq) \in Nat
  BY <1>1, LastIdxNat
<1>3. Len(buf) = LastIdx(transReq) + 1 /\ buf \in Seq(Chunk)
  BY DEF IInv, CInv, BufInv, TypeOK
<1>4. buf # << >>
  BY <1>2, <1>3
<1>. QED  BY <1>3, <1>4 DEF IInv, CInv, CurveAssembled

\* get_curve's invariant (the spec, section 8): when every reply arrives
\* within the session timeout, a call of the acquisition workflow that
\* returns success has handed back blocks 0 .. LastIdx of its request, in
\* order, all of one acquisition, bytes_read their total and the caller's
\* buffer pointer and size restored, for every block size, sample size,
\* request, buffer size and number of calls.
THEOREM CurveSafe ==
    ASSUME MaxLate = 0
    PROVE  Spec => []CurveAssembled
<1>1. Init => IInv
  BY InitIInv
<1>2. IInv /\ [Next]_vars => IInv'
  BY IInvStep
<1>3. IInv => CurveAssembled
  BY IInvAssembled
<1>. QED  BY <1>1, <1>2, <1>3, PTL DEF Spec

=============================================================================
