---------------------------- MODULE MC_HalcsRpc ----------------------------
(***************************************************************************)
(* halcs_func_exec's reply handling over every report of up to four       *)
(* frames: a state is one report, and the invariant is checked on each.   *)
(***************************************************************************)
EXTENDS Naturals, HalcsRpc

VARIABLE rep

\* Every report: NULL, or 0..4 frames with any status and size tests.
AllReports ==
    {NoReport("data")} \cup
    {Report(TRUE, n, st, a, b, "data") :
        n \in 0..4, st \in {"SUCCESS", "ERR_REMOTE"}, a \in BOOLEAN, b \in BOOLEAN}

Init == rep \in AllReports
Next == UNCHANGED rep
Spec == Init /\ [][Next]_rep

\* The spec (sections 4.2 and 8): a receive that never completed, or a reply
\* whose frame count is neither 1 nor 3, makes halcs_func_exec return an
\* error, never success.
ReceiveFailureIsError == Discarded(rep) => ExecErr(rep) # "SUCCESS"
=============================================================================
