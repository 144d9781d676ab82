----------------------------- MODULE HalcsParam -----------------------------
(***************************************************************************)
(* The scalar parameter protocol (libclient/rw_param_client.c) between    *)
(* one client session and a module's register fields, through the        *)
(* per-parameter accessors of libhalcsclient (halcs_set_kx, halcs_get_sw, *)
(* halcs_set_gain_a, ...).  A write sends [opcode, WRITE_MODE, value] and *)
(* expects [status]; a read sends [opcode, READ_MODE] and expects         *)
(* [status, value].  The server side checks a written value against the   *)
(* field's [min, max] of the module's table (sm_io_dsp_exp.c,             *)
(* sm_io_swap_exp.c) and, for the swap gains, against the custom check of *)
(* both 16-bit halves; the SET_GET_PARAM handler itself is not in this    *)
(* repository and is modelled from the spec (section 4.3).                *)
(*                                                                         *)
(* As in HalcsAcq, the pipes are FIFO and a receive may time out before   *)
(* its reply arrives; the late reply is then taken by the next call.  The *)
(* frame-count asserts of lines 92 and 134 abort the client, unless the   *)
(* build defines NDEBUG, in which case the code after them runs.          *)
(***************************************************************************)
EXTENDS Integers, Sequences, TLC

CONSTANTS
    Fields,       \* the register fields the session uses
    Args,         \* Args[f]: the values the caller writes to scalar field f
    GainArgs,     \* the 16-bit dir/inv gains the caller passes to set_gain_*
    GainHalf,     \* 2^16: a swap gain is two halves of GainHalf values
    Reset,        \* Reset[f]: the field's value when the session starts
    Uninit,       \* the values the uninitialised local `gain` may hold
    MaxCalls,     \* bound: accessor calls the application makes
    MaxLate,      \* bound: receives that time out before their reply comes
    AllocFails,   \* whether zmsg_new may fail (line 42)
    Builds        \* the builds: NDEBUG defined (TRUE) or not (FALSE)

\* uint32_t: a gain is two 16-bit halves of one 32-bit word.
Word == GainHalf * GainHalf

\* The DSP fields and their inclusive [min, max] (sm_io_dsp_exp.c 48-88).
DspRange == [kx |-> <<1, 2^25 - 1>>, ky |-> <<1, 2^25 - 1>>,
             ksum |-> <<1, 2^25 - 1>>, ds_tbt_thres |-> <<0, 2^26 - 1>>,
             ds_fofb_thres |-> <<0, 2^26 - 1>>,
             ds_monit_thres |-> <<0, 2^26 - 1>>]

\* The SWAP fields and their [min, max] (sm_io_swap_exp.c 49-101).
SwapRange == [sw |-> <<0, 3>>, sw_en |-> <<0, 1>>, div_clk |-> <<1, 2^16 - 1>>,
              sw_dly |-> <<0, 2^16 - 1>>, wdw_en |-> <<0, 1>>,
              wdw_dly |-> <<0, 2^16 - 1>>]

\* The four gains take any uint32_t, then the custom check (128-165).
GainFields == {"gain_a", "gain_b", "gain_c", "gain_d"}
GainRange == [g \in GainFields |-> <<0, Word - 1>>]

Range == DspRange @@ SwapRange @@ GainRange

ASSUME ParamAssumption ==
    /\ Fields \subseteq DOMAIN Range
    /\ GainHalf \in Nat \ {0, 1}
    /\ GainArgs \subseteq 0..(GainHalf - 1)
    /\ Args \in [Fields \ GainFields -> SUBSET Nat]
    /\ Reset \in [Fields -> Nat]
    /\ Uninit \subseteq 0..(Word - 1)
    /\ MaxCalls \in Nat /\ MaxLate \in Nat
    /\ AllocFails \in BOOLEAN
    /\ Builds \subseteq BOOLEAN /\ Builds # {}

\* RW_SWAP_GAIN_LOWER_R and RW_SWAP_GAIN_UPPER_R: the two 16-bit halves.
GainLower(g) == g % GainHalf
GainUpper(g) == (g \div GainHalf) % GainHalf

\* _rw_bpm_swap_gain_chk (sm_io_swap_exp.c 114-124): both halves in
\* [RW_SWAP_GAIN_MIN, RW_SWAP_GAIN_MAX] = [1, 2^16-1].
SwapGainChk(g) ==
    IF \/ GainLower(g) < 1 \/ GainLower(g) > GainHalf - 1
       \/ GainUpper(g) < 1 \/ GainUpper(g) > GainHalf - 1
    THEN "PARAM_ERR" ELSE "PARAM_OK"

\* The check SET_GET_PARAM makes before it writes the field: the range of
\* the table, then the field's check function (NO_CHK_FUNC but for gains).
Accepts(f, v) ==
    /\ Range[f][1] <= v /\ v <= Range[f][2]
    /\ f \in GainFields => SwapGainChk(v) = "PARAM_OK"

\* halcs_set_gain_*: RW_SWAP_GAIN_UPPER_W(inv) | RW_SWAP_GAIN_LOWER_W(dir)
\* (halcs_client_core.c 1565-1569 and the three like it), for 16-bit gains.
GainPack(dir, inv) == inv * GainHalf + dir

\* The values an accessor call writes to f: its uint32_t argument, or the
\* packed pair of gains.
WriteArgs(f) ==
    IF f \in GainFields THEN {GainPack(d, i) : d, i \in GainArgs} ELSE Args[f]

Req(f, rw, v) == [field |-> f, rw |-> rw, val |-> v]

\* The replies: [status] to a write, [status, value] to a read; NULL is
\* what mdp_client_recv returns when the receive times out.
StatusReply(st) == [present |-> TRUE, nframes |-> 1, status |-> st, val |-> 0]
ValueReply(v) == [present |-> TRUE, nframes |-> 2, status |-> "READ_OK", val |-> v]
NullReply == [present |-> FALSE, nframes |-> 0, status |-> "NONE", val |-> 0]

VARIABLES
    reg,       \* server: the value of each field
    toServer,  \* requests sent, not yet handled by the server
    toClient,  \* replies in the session's pipe, not yet received
    pc,        \* client: "idle", "write", "read" or "aborted"
    field,     \* the field of the call in progress
    wval,      \* the value the call in progress writes
    dest,      \* where param_client_read stores the value: *param_out
    out,       \* the caller's variables, one per field (gains packed)
    result,    \* what the last accessor call returned
    calls,     \* accessor calls made so far
    late,      \* receives that timed out so far
    ndebug     \* the build: asserts compiled out

vars == <<reg, toServer, toClient, pc, field, wval, dest, out, result, calls,
          late, ndebug>>

Values == Nat
Replies == [present : BOOLEAN, nframes : {0, 1, 2},
            status : {"NONE", "WRITE_OK", "PARAM_ERR", "READ_OK"}, val : Values]
Results == {"NONE", "SUCCESS", "ERR_ALLOC", "ERR_SERVER", "ERR_AGAIN"}

TypeOK ==
    /\ reg \in [Fields -> Values]
    /\ toServer \in Seq([field : Fields, rw : {"WRITE", "READ"}, val : Values])
    /\ toClient \in Seq(Replies)
    /\ pc \in {"idle", "write", "read", "aborted"}
    /\ field \in Fields /\ wval \in Values /\ dest \in Values
    /\ out \in [Fields -> Values]
    /\ result \in Results
    /\ calls \in 0..MaxCalls /\ late \in 0..MaxLate
    /\ ndebug \in BOOLEAN

Init ==
    /\ reg = Reset
    /\ toServer = <<>> /\ toClient = <<>>
    /\ pc = "idle"
    /\ field \in Fields /\ wval = 0 /\ dest = 0
    /\ out = [f \in Fields |-> 0]
    /\ result = "NONE"
    /\ calls = 0 /\ late = 0
    /\ ndebug \in Builds
-----------------------------------------------------------------------------
(* The session.                                                            *)

\* What mdp_client_recv hands the waiting call (line 67): the oldest reply
\* in the pipe or, when the pipe is empty, NULL after the timeout.
Received ==
    IF toClient # <<>> THEN {Head(toClient)}
    ELSE IF late < MaxLate THEN {NullReply} ELSE {}

Consume(rep) ==
    IF rep.present THEN toClient' = Tail(toClient) /\ UNCHANGED late
    ELSE late' = late + 1 /\ UNCHANGED toClient

\* Mutant: param_client_send_rw builds the request and never sends it.
SendRwNoSend(f, rw, v) == UNCHANGED toServer

\* param_client_send_rw (lines 37-56): [operation, rw] and, in WRITE_MODE,
\* the value.
SendRw(f, rw, v) == toServer' = Append(toServer, Req(f, rw, IF rw = "WRITE" THEN v ELSE 0))

-----------------------------------------------------------------------------
(* The client: the accessors and param_client_write/read.                  *)

\* halcs_set_<f> -> param_client_write (lines 76-87): the request is sent.
WriteCall ==
    /\ pc = "idle" /\ calls < MaxCalls
    /\ \E f \in Fields : \E v \in WriteArgs(f) :
        /\ field' = f /\ wval' = v
        /\ SendRw(f, "WRITE", v)
    /\ pc' = "write"
    /\ calls' = calls + 1
    /\ UNCHANGED <<reg, toClient, dest, out, result, late, ndebug>>

\* What the caller's variable for f holds when param_client_read stores
\* nothing: halcs_get_gain_* reads into its local `gain`, which is not
\* initialised (core.c 1573), and copies it out whatever err is (1577-1578);
\* any other accessor passes the caller's variable itself.
Unstored(f) == IF f \in GainFields THEN Uninit ELSE {out[f]}

\* halcs_get_<f> -> param_client_read (lines 117-129): the value will go
\* to dest, the caller's variable or the local `gain`.
ReadCall ==
    /\ pc = "idle" /\ calls < MaxCalls
    /\ \E f \in Fields :
        /\ field' = f
        /\ SendRw(f, "READ", 0)
        /\ \E d \in Unstored(f) : dest' = d
    /\ pc' = "read"
    /\ calls' = calls + 1
    /\ UNCHANGED <<reg, toClient, wval, out, result, late, ndebug>>

\* zmsg_new fails (lines 42-44): BPM_CLIENT_ERR_ALLOC, nothing is sent.
\* A write leaves the caller's variables alone; a read stores nothing,
\* so a gain read copies the uninitialised `gain` out all the same.
SendAllocFail ==
    /\ AllocFails
    /\ pc = "idle" /\ calls < MaxCalls
    /\ \E f \in Fields :
        /\ field' = f
        /\ \/ UNCHANGED out
           \/ \E g \in Unstored(f) : out' = [out EXCEPT ![f] = g]
    /\ result' = "ERR_ALLOC"
    /\ calls' = calls + 1
    /\ UNCHANGED <<reg, toServer, toClient, pc, wval, dest, late, ndebug>>

\* The accessor returns: a read has stored the value at dest, and the gain
\* accessors copy `gain` into *dir_gain, *inv_gain whatever err is
\* (core.c 1577-1578); out keeps the pair packed.
Deliver(v) == out' = [out EXCEPT ![field] = v]

\* param_client_recv_rw returns BPM_CLIENT_ERR_SERVER on NULL (lines
\* 67-69), and the call returns it (lines 89, 131).
RecvNull ==
    /\ pc \in {"write", "read"}
    /\ NullReply \in Received
    /\ Consume(NullReply)
    /\ result' = "ERR_SERVER"
    /\ pc' = "idle"
    /\ Deliver(IF pc = "read" THEN dest ELSE out[field])
    /\ UNCHANGED <<reg, toServer, field, wval, dest, calls, ndebug>>

\* assert (zmsg_size (report) == 1) (line 92) and == 2 (line 134).
Frames(p) == IF p = "write" THEN 1 ELSE 2

\* The assert fails: the client process aborts.
AssertAbort ==
    /\ pc \in {"write", "read"} /\ ~ndebug
    /\ \E rep \in Received :
        /\ rep.present /\ rep.nframes # Frames(pc)
        /\ Consume(rep)
    /\ pc' = "aborted"
    /\ UNCHANGED <<reg, toServer, field, wval, dest, out, result, calls, ndebug>>

\* Mutant: the status frame is not tested, every report is a success.
WriteStatusIgnored(rep) == "SUCCESS"

\* Mutant: the RW_REPLY_TYPE code of the report returned as the client's
\* error code.
WriteStatusRaw(rep) == rep.status

\* Lines 96-105: frame 0 is the status; anything but RW_WRITE_OK is
\* BPM_CLIENT_ERR_AGAIN.
WriteStatus(rep) == IF rep.status = "WRITE_OK" THEN "SUCCESS" ELSE "ERR_AGAIN"

\* The write gets its report (lines 88-113).
WriteDone ==
    /\ pc = "write"
    /\ \E rep \in Received :
        /\ rep.present /\ (rep.nframes = 1 \/ ndebug)
        /\ Consume(rep)
        /\ result' = WriteStatus(rep)
    /\ pc' = "idle"
    /\ UNCHANGED <<reg, toServer, field, wval, dest, out, calls, ndebug>>

\* The value of the data frame (line 151).
ReadValue(rep) == rep.val

\* The read gets its report (lines 130-161).  With two frames, READ_OK
\* stores the data frame, anything else is BPM_CLIENT_ERR_AGAIN (144-149).
\* A one-frame report (NDEBUG only) has no data frame: line 142 jumps to
\* err_null_param with err still BPM_CLIENT_SUCCESS and nothing stored.
ReadDone ==
    /\ pc = "read"
    /\ \E rep \in Received :
        /\ rep.present /\ (rep.nframes = 2 \/ ndebug)
        /\ Consume(rep)
        /\ LET ok == rep.nframes = 2 /\ rep.status = "READ_OK"
               v  == IF ok THEN ReadValue(rep) ELSE dest
           IN  /\ dest' = v
               /\ Deliver(v)
               /\ result' = IF rep.nframes = 2 /\ ~ok THEN "ERR_AGAIN" ELSE "SUCCESS"
    /\ pc' = "idle"
    /\ UNCHANGED <<reg, toServer, field, wval, calls, ndebug>>

-----------------------------------------------------------------------------
(* The server: SET_GET_PARAM on one field (from the spec, section 4.3).   *)

ServeWrite ==
    /\ toServer # <<>>
    /\ LET m == Head(toServer) IN
        /\ m.rw = "WRITE" /\ Accepts(m.field, m.val)
        /\ reg' = [reg EXCEPT ![m.field] = m.val]
        /\ toClient' = Append(toClient, StatusReply("WRITE_OK"))
    /\ toServer' = Tail(toServer)
    /\ UNCHANGED <<pc, field, wval, dest, out, result, calls, late, ndebug>>

\* An out-of-range value is refused before the field is touched.
ServeReject ==
    /\ toServer # <<>>
    /\ LET m == Head(toServer) IN
        /\ m.rw = "WRITE" /\ ~Accepts(m.field, m.val)
        /\ toClient' = Append(toClient, StatusReply("PARAM_ERR"))
    /\ toServer' = Tail(toServer)
    /\ UNCHANGED <<reg, pc, field, wval, dest, out, result, calls, late, ndebug>>

ServeRead ==
    /\ toServer # <<>>
    /\ LET m == Head(toServer) IN
        /\ m.rw = "READ"
        /\ toClient' = Append(toClient, ValueReply(reg[m.field]))
    /\ toServer' = Tail(toServer)
    /\ UNCHANGED <<reg, pc, field, wval, dest, out, result, calls, late, ndebug>>

Client == WriteCall \/ ReadCall \/ SendAllocFail \/ RecvNull \/ AssertAbort
          \/ WriteDone \/ ReadDone
Server == ServeWrite \/ ServeReject \/ ServeRead

Next == Client \/ Server

\* The server's dispatch loop runs while a request waits, and a receive
\* with a reply in the pipe returns it.
Fairness == WF_vars(Server) /\ WF_vars(WriteDone) /\ WF_vars(ReadDone)
            /\ WF_vars(AssertAbort)

Spec == Init /\ [][Next]_vars /\ Fairness
-----------------------------------------------------------------------------
(* Properties.                                                             *)

\* A write that param_client_write reports as successful has stored its
\* value: when it returns BPM_CLIENT_SUCCESS the field holds it.
WriteSuccessStored ==
    [][(pc = "write" /\ pc' = "idle" /\ result' = "SUCCESS") => reg[field] = wval]_vars

\* A report with the wrong number of frames (spec, section 8 and Scenario
\* E) ends the call with an error: it neither aborts the client at the
\* asserts of lines 92 and 134 nor returns BPM_CLIENT_SUCCESS.
MalformedReplyIsError ==
    [][(/\ pc \in {"write", "read"} /\ toClient # <<>>
        /\ Head(toClient).nframes # Frames(pc)
        /\ toClient' = Tail(toClient))
       => (pc' = "idle" /\ result' # "SUCCESS")]_vars

\* A read that fails leaves the caller's output untouched (Scenario E),
\* including the dir/inv outputs of halcs_get_gain_*.
GainOutputsKept ==
    [][(pc = "read" /\ pc' = "idle" /\ result' # "SUCCESS") => out' = out]_vars

\* Every accessor call returns: under the fairness of the server loop and
\* of the blocking receive, param_client_write/read never hang.
CallReturns == pc \in {"write", "read"} ~> pc \in {"idle", "aborted"}

\* The refinement mapping to HalcsRegister: the call in progress is the
\* client's; it has taken effect once its report waits in the pipe, and its
\* answer is read off the report.
AbsCall ==
    IF pc \in {"write", "read"}
    THEN [kind |-> pc, field |-> field, val |-> IF pc = "write" THEN wval ELSE 0]
    ELSE [kind |-> "idle", field |-> "none", val |-> 0]

AbsAnswer ==
    IF pc \in {"write", "read"} /\ toClient # <<>>
    THEN LET rep == Head(toClient) IN
         IF pc = "write"
         THEN [res |-> IF rep.status = "WRITE_OK" THEN "SUCCESS" ELSE "ERR_AGAIN", val |-> 0]
         ELSE [res |-> "SUCCESS", val |-> rep.val]
    ELSE [res |-> "NONE", val |-> 0]

AbsValues == (UNION {WriteArgs(f) : f \in Fields}) \cup {Reset[f] : f \in Fields}
             \cup Uninit \cup {0}

Abs == INSTANCE HalcsRegister WITH Values <- AbsValues, Errors <- {"ERR_ALLOC"},
         call <- AbsCall, answer <- AbsAnswer

\* The protocol implements the register: every behaviour of the session,
\* seen through the mapping, is one HalcsRegister allows.
RegisterSpec == Abs!Spec
====
