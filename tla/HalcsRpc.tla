------------------------------ MODULE HalcsRpc ------------------------------
(***************************************************************************)
(* The reply handling of the RPC engine of libhalcsclient                  *)
(* (halcs_func_exec, src/src/libs/libhalcsclient/src/halcs_client_core.c). *)
(*                                                                         *)
(* A call sends [opcode, args...] and blocks on the session poller.  What  *)
(* comes back is a "report": either nothing (the poller timed out) or a    *)
(* message of some number of frames.  The operators below say what the     *)
(* call returns for a report, and whether it copies the payload into the   *)
(* caller's output buffer.  Data are abstract: a payload is a value the    *)
(* caller may see, the frame sizes are reduced to the two tests the code   *)
(* makes on them.                                                          *)
(***************************************************************************)

\* Frame counts the reply parser accepts (MSG_ERR_CODE_SIZE, MSG_FULL_SIZE).
MsgErrCodeSize == 1
MsgFullSize    == 3

\* Error codes of the client library.  "ERR_REMOTE" stands for any non-zero
\* status a server writes in frame 0.
ClientErrors == {"SUCCESS", "ERR_REMOTE", "ERR_SERVER", "ERR_TIMEOUT",
                 "ERR_INV_FUNCTION", "ERR_INV_PARAM", "INT", "AGAIN"}

\* A report.  present = FALSE is the NULL returned by the receive when the
\* poller times out.  sizeFrameOk is zframe_size(data_size_frm) ==
\* RW_REPLY_SIZE, sizeMatches is data_size == zframe_size(data_frm).
Report(present, nframes, status, sizeFrameOk, sizeMatches, payload) ==
    [present |-> present, nframes |-> nframes, status |-> status,
     sizeFrameOk |-> sizeFrameOk, sizeMatches |-> sizeMatches,
     payload |-> payload]

\* The value of the receive when no reply arrived within the session timeout.
NoReport(nopayload) == Report(FALSE, 0, "SUCCESS", TRUE, TRUE, nopayload)

\* The report is thrown away before frame 0 is read: the receive returned
\* NULL (line 266) or the frame count is neither 1 nor 3 (line 275).  Both
\* jump to err_msg without giving err an error code.
Discarded(rep) ==
    ~rep.present \/ rep.nframes \notin {MsgErrCodeSize, MsgFullSize}

(***************************************************************************)
(* The value halcs_func_exec returns for a report.  err starts as          *)
(* HALCS_CLIENT_SUCCESS (line 231) and is only ever assigned the status of *)
(* frame 0 (line 281): the format checks of lines 288-299 jump out after   *)
(* that assignment, keeping the server's status.                           *)
(***************************************************************************)
ExecErr(rep) ==
    IF Discarded(rep) THEN "SUCCESS" ELSE rep.status

\* The payload is copied into the caller's output (line 303) only for a
\* three-frame reply whose two size checks pass.
ExecCopies(rep) ==
    /\ ~Discarded(rep)
    /\ rep.nframes = MsgFullSize
    /\ rep.sizeFrameOk
    /\ rep.sizeMatches

\* A call made with output == NULL (an operation without return value) that
\* gets a full reply copies into NULL: memcpy (NULL, data, n) with n > 0,
\* since every data payload of the protocol is a non-empty structure.
ExecCrashes(rep, hasOutput) == ExecCopies(rep) /\ ~hasOutput

=============================================================================
