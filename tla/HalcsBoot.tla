------------------------------ MODULE HalcsBoot ------------------------------
(***************************************************************************)
(* The defaults of the FMC250M_4CH module (fmc250m_4ch_config_defaults,   *)
(* sm_io_fmc250m_4ch_defaults.c 45-78), run by the module's config thread *)
(* after the bootstrap has exported the module's operations to the        *)
(* broker (spec 4.5; the bootstrap is not in this repository).  The       *)
(* thread opens a client session of its own (10 s timeout) and writes    *)
(* three defaults through it, each with one halcs_set_* call: rst_adcs,   *)
(* rst_div_adcs, sleep_adcs.  An external client may read the same        *)
(* fields at any time after the export.                                    *)
(*                                                                         *)
(* The server module handles one request at a time, in arrival order; it *)
(* may reject a write.  A halcs_set_* call is one param_client_write      *)
(* (libclient/rw_param_client.c): its receive may time out (at most       *)
(* MaxLate times), which returns BPM_CLIENT_ERR_SERVER and ends the sets; *)
(* the request stays queued at the server, which may still apply it.     *)
(***************************************************************************)
EXTENDS Naturals, Sequences

CONSTANTS
    AllocFails,  \* whether halcs_client_new_log_mode_time may fail
    Rejects,     \* whether the server may reject a default write
    MaxLate,     \* bound: receives of the config session that time out
    MaxReads     \* bound: reads of the external client

ASSUME BootAssumption ==
    /\ AllocFails \in BOOLEAN /\ Rejects \in BOOLEAN
    /\ MaxLate \in Nat /\ MaxReads \in Nat

\* The three defaults, in the order config_defaults writes them.
Defaults == <<"rst_adcs", "rst_div_adcs", "sleep_adcs">>
Fields == {Defaults[k] : k \in 1..3}

VARIABLES
    hw,        \* server: each field is "reset" or holds its "dflt" value
    exported,  \* the module's operations are reachable through the broker
    toServer,  \* requests not yet handled: [from, field]
    cfgPipe,   \* replies to the config session: statuses
    extPipe,   \* replies to the external client: field values
    cpc,       \* config thread: "wait", "alloc", "send", "recv", "destroy"
               \* or "returned"
    k,         \* the default being written
    err,       \* the smio_err_e config_defaults returns
    late,      \* receives of the config session that timed out
    reads,     \* reads of the external client so far
    extBusy,   \* the external client waits for a reply
    seen       \* the values the external client has read

vars == <<hw, exported, toServer, cfgPipe, extPipe, cpc, k, err, late, reads,
          extBusy, seen>>

Init ==
    /\ hw = [f \in Fields |-> "reset"]
    /\ exported = FALSE
    /\ toServer = <<>> /\ cfgPipe = <<>> /\ extPipe = <<>>
    /\ cpc = "wait" /\ k = 1 /\ err = "SUCCESS"
    /\ late = 0 /\ reads = 0 /\ extBusy = FALSE /\ seen = {}

-----------------------------------------------------------------------------
(* The bootstrap and the server (spec 4.5, not in this repository).        *)

\* The module's operations are exported; then the config thread runs.
Export ==
    /\ ~exported
    /\ exported' = TRUE /\ cpc' = "alloc"
    /\ UNCHANGED <<hw, toServer, cfgPipe, extPipe, k, err, late, reads, extBusy, seen>>

\* The server handles the oldest request: a write of a default, which it
\* stores and acknowledges with RW_WRITE_OK or rejects; a read, answered
\* with the field.
ServeWrite ==
    /\ toServer # <<>> /\ Head(toServer).from = "cfg"
    /\ \/ /\ hw' = [hw EXCEPT ![Head(toServer).field] = "dflt"]
          /\ cfgPipe' = Append(cfgPipe, "WRITE_OK")
       \/ /\ Rejects
          /\ cfgPipe' = Append(cfgPipe, "PARAM_ERR")
          /\ UNCHANGED hw
    /\ toServer' = Tail(toServer)
    /\ UNCHANGED <<exported, extPipe, cpc, k, err, late, reads, extBusy, seen>>

ServeRead ==
    /\ toServer # <<>> /\ Head(toServer).from = "ext"
    /\ extPipe' = Append(extPipe, hw[Head(toServer).field])
    /\ toServer' = Tail(toServer)
    /\ UNCHANGED <<hw, exported, cfgPipe, cpc, k, err, late, reads, extBusy, seen>>

-----------------------------------------------------------------------------
(* The config thread: fmc250m_4ch_config_defaults.                         *)

\* halcs_client_new_log_mode_time (56-57).  When it fails, ASSERT_ALLOC
\* (58) jumps to err_alloc_client without an error code: err stays
\* SMIO_SUCCESS and that is what returns (77).
Alloc ==
    /\ cpc = "alloc"
    /\ \/ cpc' = "send"
       \/ AllocFails /\ cpc' = "returned"
    /\ UNCHANGED <<hw, exported, toServer, cfgPipe, extPipe, k, err, late, reads, extBusy, seen>>

\* halcs_set_<Defaults[k]> (60, 64, 68): the request is sent.
SetSend ==
    /\ cpc = "send"
    /\ toServer' = Append(toServer, [from |-> "cfg", field |-> Defaults[k]])
    /\ cpc' = "recv"
    /\ UNCHANGED <<hw, exported, cfgPipe, extPipe, k, err, late, reads, extBusy, seen>>

\* Mutant: the ASSERT_TESTs after the sets are left out; every set is
\* followed by the next whatever it returned.
NextStepNoCheck(st) == IF k = 3 THEN cpc' = "destroy" /\ UNCHANGED k
                       ELSE cpc' = "send" /\ k' = k + 1

\* The ASSERT_TESTs (61-62, 65-66, 69-70): an error ends the sets, and
\* config_defaults returns SMIO_ERR_CONFIG_DFLT; otherwise the next set,
\* or the destroy after the third.
NextStep(st) == IF st # "SUCCESS" \/ k = 3 THEN cpc' = "destroy" /\ UNCHANGED k
                ELSE cpc' = "send" /\ k' = k + 1

\* ... with SMIO_ERR_CONFIG_DFLT.
SetErr(st) == IF st # "SUCCESS" THEN "ERR_CONFIG_DFLT" ELSE err

\* param_client_write's result for the report it receives (rw_param_client.c
\* 96-105): RW_WRITE_OK is success, any other status BPM_CLIENT_ERR_AGAIN.
WriteStatus(rep) == IF rep = "WRITE_OK" THEN "SUCCESS" ELSE "ERR_AGAIN"

\* The set receives the reply at the head of the session's pipe.
SetRecv ==
    /\ cpc = "recv" /\ cfgPipe # <<>>
    /\ NextStep(WriteStatus(Head(cfgPipe)))
    /\ err' = SetErr(WriteStatus(Head(cfgPipe)))
    /\ cfgPipe' = Tail(cfgPipe)
    /\ UNCHANGED <<hw, exported, toServer, extPipe, late, reads, extBusy, seen>>

\* param_client_recv_rw: a NULL report is BPM_CLIENT_ERR_SERVER (67-69).
RecvNullStatus == "ERR_SERVER"

\* The receive times out (10000 ms): param_client_write returns the error
\* (88-89), and the set's ASSERT_TEST ends the sets.  The request is still
\* queued at the server.
SetTimeout ==
    /\ cpc = "recv" /\ cfgPipe = <<>> /\ late < MaxLate
    /\ NextStep(RecvNullStatus)
    /\ err' = SetErr(RecvNullStatus)
    /\ late' = late + 1
    /\ UNCHANGED <<hw, exported, toServer, cfgPipe, extPipe, reads, extBusy, seen>>

\* halcs_client_destroy (73): the session and its pending replies go.
Destroy ==
    /\ cpc = "destroy"
    /\ cpc' = "returned" /\ cfgPipe' = <<>>
    /\ UNCHANGED <<hw, exported, toServer, extPipe, k, err, late, reads, extBusy, seen>>

-----------------------------------------------------------------------------
(* The external client: halcs_get_* of a default field.                   *)

ExtRead ==
    /\ exported /\ ~extBusy /\ reads < MaxReads
    /\ \E f \in Fields : toServer' = Append(toServer, [from |-> "ext", field |-> f])
    /\ extBusy' = TRUE /\ reads' = reads + 1
    /\ UNCHANGED <<hw, exported, cfgPipe, extPipe, cpc, k, err, late, seen>>

ExtRecv ==
    /\ extBusy /\ extPipe # <<>>
    /\ seen' = seen \cup {Head(extPipe)}
    /\ extPipe' = Tail(extPipe) /\ extBusy' = FALSE
    /\ UNCHANGED <<hw, exported, toServer, cfgPipe, cpc, k, err, late, reads>>

Config == Alloc \/ SetSend \/ SetRecv \/ SetTimeout \/ Destroy
Server == ServeWrite \/ ServeRead

Next == Export \/ Config \/ Server \/ ExtRead \/ ExtRecv

Spec == Init /\ [][Next]_vars

-----------------------------------------------------------------------------
(* Properties.                                                             *)

\* A config_defaults that returns SMIO_SUCCESS has written every default:
\* when the thread has returned success, the three fields hold their
\* default values.
SuccessMeansDefaulted ==
    (cpc = "returned" /\ err = "SUCCESS") => \A f \in Fields : hw[f] = "dflt"

\* No client ever reads a field before its default is written: what the
\* external client has read since the export is a default value.
ReadsSeeDefaults == seen \subseteq {"dflt"}

\* The defaults take effect in the order config_defaults sends them: the
\* ADCs' dividers are never reset (rst_div_adcs), nor the ADCs woken
\* (sleep_adcs), unless every default before it is in place, whichever
\* set is rejected or times out and whatever the server does with a
\* request left queued after the thread has given up.
DefaultsInOrder ==
    \A a, b \in 1..3 : (a < b /\ hw[Defaults[b]] = "dflt") => hw[Defaults[a]] = "dflt"
====
