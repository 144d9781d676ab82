-------------------------- MODULE HalcsParam_proofs --------------------------
(***************************************************************************)
(* Proofs about the scalar parameter protocol of module HalcsParam, for    *)
(* every value of its constants that satisfies ParamAssumption: any set of *)
(* fields, any arguments, any reset values, any number of calls and of     *)
(* late replies, either build.                                            *)
(***************************************************************************)
EXTENDS HalcsParam, TLAPS

-----------------------------------------------------------------------------
(* What the accessors send.                                                *)

\* The values an accessor writes are natural numbers.
LEMMA WriteArgsNat ==
    ASSUME NEW f \in Fields
    PROVE  WriteArgs(f) \subseteq Nat
<1>1. CASE f \in GainFields
  <2>1. GainArgs \subseteq 0..(GainHalf - 1) /\ GainHalf \in Nat
    BY ParamAssumption
  <2>2. \A d, i \in GainArgs : GainPack(d, i) \in Nat
    BY <2>1 DEF GainPack
  <2>3. QED
    BY <1>1, <2>2 DEF WriteArgs
<1>2. CASE f \notin GainFields
  <2>1. Args[f] \subseteq Nat
    BY <1>2, ParamAssumption
  <2>2. QED
    BY <1>2, <2>1 DEF WriteArgs
<1>3. QED
  BY <1>1, <1>2

-----------------------------------------------------------------------------
(* The reliable session.                                                   *)

\* Every reply comes within the session timeout, and the asserts are
\* compiled in (the instance of run param_reliable).
Reliable == MaxLate = 0 /\ Builds = {FALSE}

\* In a reliable session the pipes hold the call in progress: its request
\* until the server takes it, then the one reply to it.  A read's reply
\* carries the field's current value: nothing else writes the field while
\* the reply waits.
RInv ==
    /\ late = 0 /\ ndebug = FALSE
    /\ field \in Fields
    /\ pc \in {"idle", "write", "read"}
    /\ pc = "idle" => toServer = <<>> /\ toClient = <<>>
    /\ pc = "write" =>
          \/ toServer = <<Req(field, "WRITE", wval)>> /\ toClient = <<>>
          \/ /\ toServer = <<>>
             /\ \E st \in {"WRITE_OK", "PARAM_ERR"} : toClient = <<StatusReply(st)>>
    /\ pc = "read" =>
          \/ toServer = <<Req(field, "READ", 0)>> /\ toClient = <<>>
          \/ toServer = <<>> /\ toClient = <<ValueReply(reg[field])>>

\* In a reliable session no receive times out and no assert fails.
LEMMA NoFaultStep ==
    ASSUME Reliable, RInv, RecvNull \/ AssertAbort
    PROVE  FALSE
<1>1. CASE RecvNull
  <2>1. NullReply \in Received /\ pc \in {"write", "read"}
    BY <1>1 DEF RecvNull
  <2>2. toClient # <<>>
    BY <2>1 DEF Received, Reliable, RInv
  <2>3. Head(toClient).present
    BY <2>1, <2>2 DEF RInv, StatusReply, ValueReply
  <2>4. QED
    BY <2>1, <2>2, <2>3 DEF Received, NullReply
<1>2. CASE AssertAbort
  <2>1. PICK rep \in Received : rep.present /\ rep.nframes # Frames(pc)
    BY <1>2 DEF AssertAbort
  <2>2. pc \in {"write", "read"}
    BY <1>2 DEF AssertAbort
  <2>3. toClient # <<>>
    BY <2>1 DEF Received, Reliable, RInv, NullReply
  <2>4. rep = Head(toClient)
    BY <2>1, <2>3 DEF Received
  <2>5. CASE pc = "write"
    <3>1. PICK st \in {"WRITE_OK", "PARAM_ERR"} : toClient = <<StatusReply(st)>>
      BY <2>3, <2>5 DEF RInv
    <3>2. QED
      BY <2>1, <2>4, <2>5, <3>1 DEF StatusReply, Frames
  <2>6. CASE pc = "read"
    <3>1. toClient = <<ValueReply(reg[field])>>
      BY <2>3, <2>6 DEF RInv
    <3>2. QED
      BY <2>1, <2>4, <2>6, <3>1 DEF ValueReply, Frames
  <2>7. QED
    BY <2>2, <2>5, <2>6
<1>3. QED
  BY <1>1, <1>2

\* In a reliable session a receive takes the one reply in the pipe.
LEMMA ReceivedReliable ==
    ASSUME Reliable, RInv, NEW rep \in Received
    PROVE  toClient # <<>> /\ rep = Head(toClient)
BY DEF Received, Reliable, RInv

\* The client's steps keep the pipes in step with the call.
LEMMA RClientStep ==
    ASSUME Reliable, RInv, WriteCall \/ ReadCall \/ SendAllocFail \/ WriteDone \/ ReadDone
    PROVE  RInv'
<1>1. CASE WriteCall
  <2>1. PICK f \in Fields : \E v \in WriteArgs(f) :
            /\ field' = f /\ wval' = v
            /\ toServer' = Append(toServer, Req(f, "WRITE", v))
    BY <1>1 DEF WriteCall, SendRw
  <2>2. QED
    BY <1>1, <2>1 DEF WriteCall, RInv
<1>2. CASE ReadCall
  <2>1. PICK f \in Fields :
            /\ field' = f
            /\ toServer' = Append(toServer, Req(f, "READ", 0))
    BY <1>2 DEF ReadCall, SendRw
  <2>2. QED
    BY <1>2, <2>1 DEF ReadCall, RInv
<1>3. CASE SendAllocFail
  BY <1>3 DEF SendAllocFail, RInv
<1>4. CASE WriteDone
  <2>1. PICK rep \in Received : rep.present /\ Consume(rep)
    BY <1>4 DEF WriteDone
  <2>2. toClient # <<>> /\ rep = Head(toClient)
    BY <2>1, ReceivedReliable
  <2>3. pc = "write" /\ toServer = <<>> /\ \E x : toClient = <<x>>
    BY <1>4, <2>2 DEF WriteDone, RInv
  <2>4. toClient' = <<>> /\ late' = late
    <3>1. toClient' = Tail(toClient) /\ late' = late
      BY <2>1 DEF Consume
    <3>2. PICK x : toClient = <<x>>
      BY <2>3
    <3>3. Tail(<<x>>) = <<>>
      OBVIOUS
    <3>4. QED
      BY <3>1, <3>2, <3>3
  <2>5. QED
    BY <1>4, <2>3, <2>4 DEF WriteDone, RInv
<1>5. CASE ReadDone
  <2>1. PICK rep \in Received : rep.present /\ Consume(rep)
    BY <1>5 DEF ReadDone
  <2>2. toClient # <<>> /\ rep = Head(toClient)
    BY <2>1, ReceivedReliable
  <2>3. pc = "read" /\ toServer = <<>> /\ \E x : toClient = <<x>>
    BY <1>5, <2>2 DEF ReadDone, RInv
  <2>4. toClient' = <<>> /\ late' = late
    <3>1. toClient' = Tail(toClient) /\ late' = late
      BY <2>1 DEF Consume
    <3>2. PICK x : toClient = <<x>>
      BY <2>3
    <3>3. Tail(<<x>>) = <<>>
      OBVIOUS
    <3>4. QED
      BY <3>1, <3>2, <3>3
  <2>5. QED
    BY <1>5, <2>3, <2>4 DEF ReadDone, RInv
<1>6. QED
  BY <1>1, <1>2, <1>3, <1>4, <1>5

\* The server takes the request of the call in progress: a write's when
\* it handles a write, a read's when it handles a read.
LEMMA ServerTakes ==
    ASSUME RInv, toServer # <<>>
    PROVE  \/ pc = "write" /\ toServer = <<Req(field, "WRITE", wval)>> /\ toClient = <<>>
           \/ pc = "read" /\ toServer = <<Req(field, "READ", 0)>> /\ toClient = <<>>
BY DEF RInv

\* The server's steps answer the call in progress.
LEMMA RServerStep ==
    ASSUME RInv, Server
    PROVE  RInv'
<1>1. CASE ServeWrite
  <2>1. pc = "write" /\ toServer = <<Req(field, "WRITE", wval)>> /\ toClient = <<>>
    BY <1>1, ServerTakes DEF ServeWrite, Req
  <2>2. toServer' = <<>> /\ toClient' = <<StatusReply("WRITE_OK")>>
    BY <1>1, <2>1 DEF ServeWrite
  <2>3. QED
    BY <1>1, <2>1, <2>2 DEF ServeWrite, RInv
<1>2. CASE ServeReject
  <2>1. pc = "write" /\ toServer = <<Req(field, "WRITE", wval)>> /\ toClient = <<>>
    BY <1>2, ServerTakes DEF ServeReject, Req
  <2>2. toServer' = <<>> /\ toClient' = <<StatusReply("PARAM_ERR")>>
    BY <1>2, <2>1 DEF ServeReject
  <2>3. QED
    BY <1>2, <2>1, <2>2 DEF ServeReject, RInv
<1>3. CASE ServeRead
  <2>1. pc = "read" /\ toServer = <<Req(field, "READ", 0)>> /\ toClient = <<>>
    BY <1>3, ServerTakes DEF ServeRead, Req
  <2>2. toServer' = <<>> /\ toClient' = <<ValueReply(reg[field])>>
    BY <1>3, <2>1 DEF ServeRead, Req
  <2>3. QED
    BY <1>3, <2>1, <2>2 DEF ServeRead, RInv
<1>4. QED
  BY <1>1, <1>2, <1>3 DEF Server

\* RInv holds in every state of a reliable session.
LEMMA RInvariant ==
    ASSUME Reliable
    PROVE  Spec => []RInv
<1>1. Init => RInv
  BY DEF Init, RInv, Reliable
<1>2. RInv /\ [Next]_vars => RInv'
  <2> SUFFICES ASSUME RInv, [Next]_vars PROVE RInv'
    OBVIOUS
  <2>1. CASE Server
    BY <2>1, RServerStep
  <2>2. CASE WriteCall \/ ReadCall \/ SendAllocFail \/ WriteDone \/ ReadDone
    BY <2>2, RClientStep
  <2>3. CASE RecvNull \/ AssertAbort
    BY <2>3, NoFaultStep
  <2>4. CASE UNCHANGED vars
    BY <2>4 DEF vars, RInv
  <2>5. QED
    BY <2>1, <2>2, <2>3, <2>4 DEF Next, Client
<1>3. QED
  BY <1>1, <1>2, PTL DEF Spec

-----------------------------------------------------------------------------
(* Type correctness.                                                       *)

\* The replies the server sends: a status or a value, never the NULL of a
\* timed-out receive, which mdp_client_recv makes up on the client side.
LiveReplies == [present : {TRUE}, nframes : {1, 2},
                status : {"WRITE_OK", "PARAM_ERR", "READ_OK"}, val : Values]

\* TypeOK, strengthened: the pipe to the client holds only server replies.
\* Without it, a NULL at the head of the pipe would let a receive count a
\* timeout past MaxLate.
TInv == TypeOK /\ toClient \in Seq(LiveReplies)

\* What a receive takes is a server reply from the pipe, or the NULL of a
\* timeout while fewer than MaxLate receives have timed out.
LEMMA ReceivedType ==
    ASSUME TInv, NEW rep \in Received
    PROVE  \/ toClient # <<>> /\ rep = Head(toClient) /\ rep \in LiveReplies
           \/ toClient = <<>> /\ rep = NullReply /\ late < MaxLate
BY DEF Received, TInv

\* Consume keeps the pipe and the timeout count typed.
LEMMA ConsumeTInv ==
    ASSUME TInv, NEW rep \in Received, Consume(rep)
    PROVE  toClient' \in Seq(LiveReplies) /\ late' \in 0..MaxLate
<1>1. CASE toClient # <<>> /\ rep = Head(toClient) /\ rep \in LiveReplies
  <2>1. toClient' = Tail(toClient) /\ late' = late
    BY <1>1 DEF Consume, LiveReplies
  <2>2. QED
    BY <1>1, <2>1 DEF TInv, TypeOK
<1>2. CASE toClient = <<>> /\ rep = NullReply /\ late < MaxLate
  <2>1. toClient' = toClient /\ late' = late + 1
    BY <1>2 DEF Consume, NullReply
  <2>2. QED
    BY <1>2, <2>1, ParamAssumption DEF TInv, TypeOK
<1>3. QED
  BY <1>1, <1>2, ReceivedType

\* The accessor calls.
LEMMA CallTInv ==
    ASSUME TInv, WriteCall \/ ReadCall \/ SendAllocFail
    PROVE  TInv'
<1>1. CASE WriteCall
  <2>1. PICK f \in Fields : \E v \in WriteArgs(f) :
            /\ field' = f /\ wval' = v
            /\ toServer' = Append(toServer, Req(f, "WRITE", v))
    BY <1>1 DEF WriteCall, SendRw
  <2>2. PICK v \in Nat : field' = f /\ wval' = v
            /\ toServer' = Append(toServer, Req(f, "WRITE", v))
    BY <2>1, WriteArgsNat
  <2>3. QED
    BY <1>1, <2>2, ParamAssumption DEF WriteCall, TInv, TypeOK, Req, Values
<1>2. CASE ReadCall
  <2>1. PICK f \in Fields :
            /\ field' = f
            /\ toServer' = Append(toServer, Req(f, "READ", 0))
            /\ dest' \in Unstored(f)
    BY <1>2 DEF ReadCall, SendRw
  <2>2. dest' \in Nat
    <3>1. Uninit \subseteq Nat
      BY ParamAssumption
    <3>2. QED
      BY <2>1, <3>1 DEF TInv, TypeOK, Values, Unstored
  <2>3. QED
    BY <1>2, <2>1, <2>2, ParamAssumption DEF ReadCall, TInv, TypeOK, Req, Values
<1>3. CASE SendAllocFail
  <2>1. PICK f \in Fields : out' \in {out} \cup {[out EXCEPT ![f] = g] : g \in Unstored(f)}
    BY <1>3 DEF SendAllocFail
  <2>2. Unstored(f) \subseteq Values
    <3>1. Uninit \subseteq Nat
      BY ParamAssumption
    <3>2. out[f] \in Nat
      BY DEF TInv, TypeOK, Values
    <3>3. QED
      BY <3>1, <3>2 DEF Unstored, Values
  <2>3. out' \in [Fields -> Values]
    BY <2>1, <2>2 DEF TInv, TypeOK
  <2>4. QED
    BY <1>3, <2>3, ParamAssumption DEF SendAllocFail, TInv, TypeOK, Results
<1>4. QED
  BY <1>1, <1>2, <1>3

\* The head of a non-empty pipe is one of its elements' kind.
LEMMA HeadIn ==
    ASSUME NEW S, NEW s \in Seq(S), s # <<>>
    PROVE  Head(s) \in S
OBVIOUS

\* A pipe of live replies is a pipe of replies.
LEMMA LiveSeq ==
    Seq(LiveReplies) \subseteq Seq(Replies)
<1>1. LiveReplies \subseteq Replies
  BY DEF LiveReplies, Replies
<1>2. QED
  BY <1>1

\* What a receive takes carries a natural number.
LEMMA ReceivedVal ==
    ASSUME TInv, NEW rep \in Received
    PROVE  rep.val \in Nat
<1>1. CASE rep \in LiveReplies
  BY <1>1 DEF LiveReplies, Values
<1>2. CASE rep = NullReply
  BY <1>2 DEF NullReply
<1>3. QED
  BY <1>1, <1>2, ReceivedType

\* The receives: a timeout, a failed assert, a write's or a read's report.
LEMMA DoneTInv ==
    ASSUME TInv, RecvNull \/ AssertAbort \/ WriteDone \/ ReadDone
    PROVE  TInv'
<1>1. CASE RecvNull
  <2>1. NullReply \in Received /\ Consume(NullReply)
    BY <1>1 DEF RecvNull
  <2>2. toClient' \in Seq(LiveReplies) /\ late' \in 0..MaxLate
    BY <2>1, ConsumeTInv
  <2>3. out' \in [Fields -> Values]
    BY <1>1 DEF RecvNull, Deliver, TInv, TypeOK
  <2>4. QED
    BY <1>1, <2>2, <2>3, LiveSeq DEF RecvNull, TInv, TypeOK, Results
<1>2. CASE AssertAbort
  <2>1. PICK rep \in Received : Consume(rep)
    BY <1>2 DEF AssertAbort
  <2>2. toClient' \in Seq(LiveReplies) /\ late' \in 0..MaxLate
    BY <2>1, ConsumeTInv
  <2>3. QED
    BY <1>2, <2>2, LiveSeq DEF AssertAbort, TInv, TypeOK
<1>3. CASE WriteDone
  <2>1. PICK rep \in Received : Consume(rep) /\ result' = WriteStatus(rep)
    BY <1>3 DEF WriteDone
  <2>2. toClient' \in Seq(LiveReplies) /\ late' \in 0..MaxLate
    BY <2>1, ConsumeTInv
  <2>3. result' \in Results
    BY <2>1 DEF WriteStatus, Results
  <2>4. QED
    BY <1>3, <2>2, <2>3, LiveSeq DEF WriteDone, TInv, TypeOK
<1>4. CASE ReadDone
  <2>1. PICK rep \in Received :
            /\ Consume(rep)
            /\ LET ok == rep.nframes = 2 /\ rep.status = "READ_OK"
                   v  == IF ok THEN ReadValue(rep) ELSE dest
               IN  /\ dest' = v
                   /\ Deliver(v)
                   /\ result' = IF rep.nframes = 2 /\ ~ok THEN "ERR_AGAIN" ELSE "SUCCESS"
    BY <1>4 DEF ReadDone
  <2>2. toClient' \in Seq(LiveReplies) /\ late' \in 0..MaxLate
    BY <2>1, ConsumeTInv
  <2>3. rep.val \in Nat
    BY ReceivedVal
  <2>4. dest' \in Nat /\ out' \in [Fields -> Values] /\ result' \in Results
    BY <1>4, <2>1, <2>3 DEF ReadDone, ReadValue, Deliver, TInv, TypeOK, Values, Results
  <2>5. QED
    BY <1>4, <2>2, <2>4, LiveSeq DEF ReadDone, TInv, TypeOK, Values
<1>5. QED
  BY <1>1, <1>2, <1>3, <1>4

\* The server's steps take the head request and append one reply.
LEMMA ServerTInv ==
    ASSUME TInv, Server
    PROVE  TInv'
<1> DEFINE m == Head(toServer)
<1>1. toServer # <<>> /\ toServer' = Tail(toServer)
  BY DEF Server, ServeWrite, ServeReject, ServeRead
<1> DEFINE Reqs == [field : Fields, rw : {"WRITE", "READ"}, val : Values]
<1>2. m \in Reqs
  <2>1. toServer \in Seq(Reqs)
    BY DEF TInv, TypeOK
  <2>2. QED
    BY <1>1, <2>1, HeadIn
<1>3. toServer' \in Seq(Reqs)
  <2>1. toServer \in Seq(Reqs)
    BY DEF TInv, TypeOK
  <2>2. QED
    BY <1>1, <2>1
<1>4. CASE ServeWrite
  <2>1. reg' = [reg EXCEPT ![m.field] = m.val]
        /\ toClient' = Append(toClient, StatusReply("WRITE_OK"))
    BY <1>4 DEF ServeWrite
  <2>2. reg' \in [Fields -> Values]
    BY <1>2, <2>1 DEF TInv, TypeOK
  <2>3. toClient' \in Seq(LiveReplies)
    BY <2>1 DEF TInv, StatusReply, LiveReplies, Replies, Values
  <2>4. QED
    BY <1>3, <1>4, <2>2, <2>3, LiveSeq DEF ServeWrite, TInv, TypeOK
<1>5. CASE ServeReject
  <2>1. toClient' = Append(toClient, StatusReply("PARAM_ERR"))
    BY <1>5 DEF ServeReject
  <2>2. toClient' \in Seq(LiveReplies)
    BY <2>1 DEF TInv, StatusReply, LiveReplies, Replies, Values
  <2>3. QED
    BY <1>3, <1>5, <2>2, LiveSeq DEF ServeReject, TInv, TypeOK
<1>6. CASE ServeRead
  <2>1. toClient' = Append(toClient, ValueReply(reg[m.field]))
    BY <1>6 DEF ServeRead
  <2>2. reg[m.field] \in Values
    BY <1>2 DEF TInv, TypeOK
  <2>3. toClient' \in Seq(LiveReplies)
    BY <2>1, <2>2 DEF TInv, ValueReply, LiveReplies, Replies, Values
  <2>4. QED
    BY <1>3, <1>6, <2>3, LiveSeq DEF ServeRead, TInv, TypeOK
<1>7. QED
  BY <1>4, <1>5, <1>6 DEF Server

\* Every reachable state of the session is well-typed (the invariant run
\* param_reliable checks, whose instance has no late reply; the theorem
\* allows any number): the fields and the caller's
\* variables hold naturals, the pipes hold well-formed requests and
\* replies, calls and timeouts stay within their bounds, and a call
\* returns only the error codes of bpm_client.
THEOREM TypeCorrect == Spec => []TypeOK
<1>1. Init => TInv
  BY ParamAssumption DEF Init, TInv, TypeOK, Values, Results
<1>2. TInv /\ [Next]_vars => TInv'
  <2> SUFFICES ASSUME TInv, [Next]_vars PROVE TInv'
    OBVIOUS
  <2>1. CASE WriteCall \/ ReadCall \/ SendAllocFail
    BY <2>1, CallTInv
  <2>2. CASE RecvNull \/ AssertAbort \/ WriteDone \/ ReadDone
    BY <2>2, DoneTInv
  <2>3. CASE Server
    BY <2>3, ServerTInv
  <2>4. CASE UNCHANGED vars
    BY <2>4 DEF vars, TInv, TypeOK
  <2>5. QED
    BY <2>1, <2>2, <2>3, <2>4 DEF Next, Client
<1>3. TInv => TypeOK
  BY DEF TInv
<1>4. QED
  BY <1>1, <1>2, <1>3, PTL DEF Spec
-----------------------------------------------------------------------------
(* The refinement of HalcsRegister.                                        *)

\* The values the register ranges over hold every reset value, every
\* value an accessor writes, and 0.
LEMMA AbsValuesHold ==
    /\ \A f \in Fields : Reset[f] \in AbsValues
    /\ \A f \in Fields : WriteArgs(f) \subseteq AbsValues
    /\ 0 \in AbsValues
<1>1. \A f \in Fields : Reset[f] \in AbsValues
  BY Zenon DEF AbsValues
<1>2. \A f \in Fields : WriteArgs(f) \subseteq AbsValues
  BY Zenon DEF AbsValues
<1>3. 0 \in AbsValues
  BY Zenon DEF AbsValues
<1>4. QED
  BY <1>1, <1>2, <1>3

\* The initial session is an initial register state.
LEMMA InitRefines == Init => Abs!Init
<1> SUFFICES ASSUME Init PROVE Abs!Init
  OBVIOUS
<1>1. \A f \in Fields : Reset[f] \in AbsValues
  BY AbsValuesHold
<1>2. reg \in [Fields -> AbsValues]
  BY <1>1, ParamAssumption DEF Init
<1>3. out \in [Fields -> AbsValues]
  BY AbsValuesHold DEF Init
<1>4. QED
  BY <1>2, <1>3 DEF Init, Abs!Init, AbsCall, AbsAnswer, Abs!Idle, Abs!None

\* An accessor call invokes a register call; a failed allocation is a
\* refused one.
LEMMA CallRefines ==
    ASSUME RInv, TypeOK, WriteCall \/ ReadCall \/ SendAllocFail
    PROVE  Abs!Invoke \/ Abs!Refuse
<1>1. CASE WriteCall
  <2>1. PICK f \in Fields : \E v \in WriteArgs(f) :
            /\ field' = f /\ wval' = v
            /\ toServer' = Append(toServer, Req(f, "WRITE", v))
    BY <1>1 DEF WriteCall, SendRw
  <2>2. PICK v \in WriteArgs(f) : field' = f /\ wval' = v
    BY <2>1
  <2>3. v \in AbsValues
    BY AbsValuesHold
  <2>4. AbsCall' = [kind |-> "write", field |-> f,
                    val |-> IF "write" = "write" THEN v ELSE 0]
    BY <1>1, <2>2 DEF WriteCall, AbsCall
  <2>5. AbsCall = Abs!Idle /\ AbsAnswer = Abs!None /\ AbsAnswer' = Abs!None
    BY <1>1 DEF WriteCall, RInv, AbsCall, AbsAnswer, Abs!Idle, Abs!None
  <2>6. Abs!Invoke
    BY <1>1, <2>3, <2>4, <2>5 DEF WriteCall, Abs!Invoke
  <2>7. QED
    BY <2>6
<1>2. CASE ReadCall
  <2>1. PICK f \in Fields : field' = f
    BY <1>2 DEF ReadCall
  <2>2. 0 \in AbsValues
    BY AbsValuesHold
  <2>3. AbsCall' = [kind |-> "read", field |-> f,
                    val |-> IF "read" = "write" THEN 0 ELSE 0]
    BY <1>2, <2>1 DEF ReadCall, AbsCall
  <2>4. AbsCall = Abs!Idle /\ AbsAnswer = Abs!None /\ AbsAnswer' = Abs!None
    BY <1>2, <2>1 DEF ReadCall, SendRw, RInv, AbsCall, AbsAnswer, Abs!Idle, Abs!None
  <2>5. Abs!Invoke
    BY <1>2, <2>2, <2>3, <2>4 DEF ReadCall, Abs!Invoke
  <2>6. QED
    BY <2>5
<1>3. CASE SendAllocFail
  <2>1. AbsCall = Abs!Idle /\ AbsCall' = Abs!Idle
        /\ AbsAnswer = Abs!None /\ AbsAnswer' = Abs!None
    BY <1>3 DEF SendAllocFail, RInv, AbsCall, AbsAnswer, Abs!Idle, Abs!None
  <2>2. PICK f \in Fields : out' \in {out} \cup {[out EXCEPT ![f] = g] : g \in Unstored(f)}
    BY <1>3 DEF SendAllocFail
  <2>3. \E ff \in Fields : out' \in {out} \cup {[out EXCEPT ![ff] = v] : v \in AbsValues}
    <3>1. CASE f \in GainFields
      <4>1. Uninit \subseteq AbsValues
        BY Zenon DEF AbsValues
      <4>2. QED
        BY <2>2, <3>1, <4>1 DEF Unstored
    <3>2. CASE f \notin GainFields
      <4>1. [out EXCEPT ![f] = out[f]] = out
        BY DEF TypeOK
      <4>2. QED
        BY <2>2, <3>2, <4>1 DEF Unstored
    <3>3. QED
      BY <3>1, <3>2
  <2>5. Abs!Refuse
    BY <1>3, <2>1, <2>3 DEF SendAllocFail, Abs!Refuse
  <2>6. QED
    BY <2>5
<1>4. QED
  BY <1>1, <1>2, <1>3

\* The server's handling of the request is the point where the register
\* call takes effect.
LEMMA ServeRefines ==
    ASSUME RInv, Server
    PROVE  Abs!Store \/ Abs!Reject \/ Abs!Answer
<1>1. CASE ServeWrite
  <2>1. pc = "write" /\ toServer = <<Req(field, "WRITE", wval)>> /\ toClient = <<>>
    BY <1>1, ServerTakes DEF ServeWrite, Req
  <2>2. /\ reg' = [reg EXCEPT ![field] = wval]
        /\ toClient' = <<StatusReply("WRITE_OK")>>
    <3>1. Head(toServer).field = field /\ Head(toServer).val = wval
      BY <2>1 DEF Req
    <3>2. reg' = [reg EXCEPT ![Head(toServer).field] = Head(toServer).val]
      BY <1>1 DEF ServeWrite
    <3>3. toClient' = <<StatusReply("WRITE_OK")>>
      BY <1>1, <2>1 DEF ServeWrite
    <3>4. QED
      BY <3>1, <3>2, <3>3
  <2>3. /\ AbsCall = [kind |-> "write", field |-> field, val |-> wval]
        /\ AbsCall' = AbsCall
        /\ AbsAnswer = Abs!None
        /\ AbsAnswer' = [res |-> "SUCCESS", val |-> 0]
    BY <1>1, <2>1, <2>2 DEF ServeWrite, AbsCall, AbsAnswer, Abs!None, StatusReply
  <2>4. Abs!Store
    BY <1>1, <2>2, <2>3 DEF ServeWrite, Abs!Store
  <2>5. QED
    BY <2>4
<1>2. CASE ServeReject
  <2>1. pc = "write" /\ toServer = <<Req(field, "WRITE", wval)>> /\ toClient = <<>>
    BY <1>2, ServerTakes DEF ServeReject, Req
  <2>2. toClient' = <<StatusReply("PARAM_ERR")>>
    BY <1>2, <2>1 DEF ServeReject
  <2>3. /\ AbsCall = [kind |-> "write", field |-> field, val |-> wval]
        /\ AbsCall' = AbsCall
        /\ AbsAnswer = Abs!None
        /\ AbsAnswer' = [res |-> "ERR_AGAIN", val |-> 0]
    BY <1>2, <2>1, <2>2 DEF ServeReject, AbsCall, AbsAnswer, Abs!None, StatusReply
  <2>4. Abs!Reject
    BY <1>2, <2>3 DEF ServeReject, Abs!Reject
  <2>5. QED
    BY <2>4
<1>3. CASE ServeRead
  <2>1. pc = "read" /\ toServer = <<Req(field, "READ", 0)>> /\ toClient = <<>>
    BY <1>3, ServerTakes DEF ServeRead, Req
  <2>2. toClient' = <<ValueReply(reg[field])>>
    BY <1>3, <2>1 DEF ServeRead, Req
  <2>3. /\ AbsCall = [kind |-> "read", field |-> field, val |-> 0]
        /\ AbsCall' = AbsCall
        /\ AbsAnswer = Abs!None
        /\ AbsAnswer' = [res |-> "SUCCESS", val |-> reg[field]]
    BY <1>3, <2>1, <2>2 DEF ServeRead, AbsCall, AbsAnswer, Abs!None, ValueReply
  <2>4. Abs!Answer
    BY <1>3, <2>3 DEF ServeRead, Abs!Answer
  <2>5. QED
    BY <2>4
<1>4. QED
  BY <1>1, <1>2, <1>3 DEF Server

\* The accessor's return is the register call's return: the result is the
\* answer's, and a read stores the answer in the caller's variable.
LEMMA DoneRefines ==
    ASSUME Reliable, RInv, WriteDone \/ ReadDone
    PROVE  Abs!Return
<1>1. CASE WriteDone
  <2>1. PICK rep \in Received :
            /\ rep.present /\ Consume(rep) /\ result' = WriteStatus(rep)
    BY <1>1 DEF WriteDone
  <2>2. toClient # <<>> /\ rep = Head(toClient)
    BY <2>1, ReceivedReliable
  <2>3. PICK st \in {"WRITE_OK", "PARAM_ERR"} :
            pc = "write" /\ toClient = <<StatusReply(st)>>
    BY <1>1, <2>2 DEF WriteDone, RInv
  <2>4. toClient' = <<>>
    BY <2>1, <2>3 DEF Consume, StatusReply
  <2>5. /\ AbsCall = [kind |-> "write", field |-> field, val |-> wval]
        /\ AbsAnswer = [res |-> WriteStatus(rep), val |-> 0]
        /\ AbsCall' = Abs!Idle /\ AbsAnswer' = Abs!None
    BY <1>1, <2>2, <2>3, <2>4 DEF WriteDone, AbsCall, AbsAnswer, WriteStatus,
                                  Abs!Idle, Abs!None
  <2>6. AbsCall # Abs!Idle /\ AbsAnswer # Abs!None
    BY <2>5 DEF Abs!Idle, Abs!None, WriteStatus
  <2>7. result' = AbsAnswer.res
    BY <2>1, <2>5
  <2>8. out' = IF AbsCall.kind = "read"
               THEN [out EXCEPT ![AbsCall.field] = AbsAnswer.val] ELSE out
    BY <1>1, <2>5 DEF WriteDone
  <2>9. reg' = reg
    BY <1>1 DEF WriteDone
  <2>10. QED
    BY <2>5, <2>6, <2>7, <2>8, <2>9 DEF Abs!Return
<1>2. CASE ReadDone
  <2>1. PICK rep \in Received :
            /\ rep.present /\ Consume(rep)
            /\ LET ok == rep.nframes = 2 /\ rep.status = "READ_OK"
                   v  == IF ok THEN ReadValue(rep) ELSE dest
               IN  /\ Deliver(v)
                   /\ result' = IF rep.nframes = 2 /\ ~ok THEN "ERR_AGAIN" ELSE "SUCCESS"
    BY <1>2 DEF ReadDone
  <2>2. toClient # <<>> /\ rep = Head(toClient)
    BY <2>1, ReceivedReliable
  <2>3. pc = "read" /\ toClient = <<ValueReply(reg[field])>>
    BY <1>2, <2>2 DEF ReadDone, RInv
  <2>4. rep = ValueReply(reg[field])
    BY <2>2, <2>3
  <2>5. /\ out' = [out EXCEPT ![field] = reg[field]]
        /\ result' = "SUCCESS"
    BY <2>1, <2>4 DEF ValueReply, ReadValue, Deliver
  <2>6. toClient' = <<>>
    BY <2>1, <2>3, <2>4 DEF Consume, ValueReply
  <2>7. /\ AbsCall = [kind |-> "read", field |-> field, val |-> 0]
        /\ AbsAnswer = [res |-> "SUCCESS", val |-> reg[field]]
        /\ AbsCall' = Abs!Idle /\ AbsAnswer' = Abs!None
    BY <1>2, <2>3, <2>6 DEF ReadDone, AbsCall, AbsAnswer, ValueReply,
                           Abs!Idle, Abs!None
  <2>8. QED
    BY <1>2, <2>5, <2>7 DEF ReadDone, Abs!Return, Abs!Idle, Abs!None
<1>3. QED
  BY <1>1, <1>2

\* Every step of a reliable session is a step of the register or leaves
\* it as it was.
LEMMA StepRefines ==
    ASSUME Reliable, RInv, TypeOK, [Next]_vars
    PROVE  [Abs!Next]_Abs!vars
<1>1. CASE WriteCall \/ ReadCall \/ SendAllocFail
  BY <1>1, CallRefines DEF Abs!Next
<1>2. CASE Server
  BY <1>2, ServeRefines DEF Abs!Next
<1>3. CASE WriteDone \/ ReadDone
  BY <1>3, DoneRefines DEF Abs!Next
<1>4. CASE RecvNull \/ AssertAbort
  BY <1>4, NoFaultStep
<1>5. CASE UNCHANGED vars
  BY <1>5 DEF vars, Abs!vars, AbsCall, AbsAnswer
<1>6. QED
  BY <1>1, <1>2, <1>3, <1>4, <1>5 DEF Next, Client

\* When every reply comes within the session timeout and the asserts are
\* compiled in, the parameter protocol implements the register contract
\* (the property run param_reliable checks): each accessor call takes
\* effect once, when the server handles its request, and returns what
\* that effect answered, whatever fields, values and number of calls.
THEOREM RegisterRefined ==
    ASSUME Reliable
    PROVE  Spec => RegisterSpec
<1>1. Init => Abs!Init
  BY InitRefines
<1>2. RInv /\ TypeOK /\ [Next]_vars => [Abs!Next]_Abs!vars
  BY StepRefines
<1>3. Spec => []RInv
  BY RInvariant
<1>4. Spec => []TypeOK
  BY TypeCorrect
<1>5. QED
  BY <1>1, <1>2, <1>3, <1>4, PTL DEF Spec, RegisterSpec, Abs!Spec
====
