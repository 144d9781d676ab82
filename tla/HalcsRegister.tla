---------------------------- MODULE HalcsRegister ----------------------------
(***************************************************************************)
(* What the scalar parameter protocol promises a caller (spec, sections   *)
(* 4.3 and 8): the fields behave as registers that one caller reads and   *)
(* writes one call at a time.  A call is invoked, takes effect at one     *)
(* point (a write either stores its value and succeeds, or is rejected,   *)
(* leaves the field as it was and reports "transient rejection"; a read  *)
(* answers the field's current value), and then returns; a read stores   *)
(* its answer in the caller's variable for that field.  A call may also   *)
(* fail before anything is sent, which leaves that variable undefined.    *)
(***************************************************************************)
EXTENDS Naturals

CONSTANTS Fields, Values, Errors

VARIABLES
    reg,     \* the value of each field
    call,    \* the call in progress: [kind, field, val], or Idle
    answer,  \* its answer once it has taken effect, or None
    result,  \* what the last call returned
    out      \* the caller's variable for each field

vars == <<reg, call, answer, result, out>>

Idle == [kind |-> "idle", field |-> "none", val |-> 0]
None == [res |-> "NONE", val |-> 0]

Init ==
    /\ reg \in [Fields -> Values]
    /\ call = Idle /\ answer = None
    /\ result = "NONE"
    /\ out \in [Fields -> Values]

Invoke ==
    /\ call = Idle
    /\ \E k \in {"write", "read"}, f \in Fields, v \in Values :
        call' = [kind |-> k, field |-> f, val |-> IF k = "write" THEN v ELSE 0]
    /\ UNCHANGED <<reg, answer, result, out>>

\* A call that fails before it is sent: the result is its error and the
\* registers are as they were.  The spec defines the caller's variable
\* only after a read that succeeds (section 4.3) or that gets a malformed
\* reply (section 8, Scenario E); after this failure the variable of the
\* field called may hold anything, and no other variable changes.
Refuse ==
    /\ call = Idle
    /\ result' \in Errors
    /\ \E f \in Fields : out' \in {out} \cup {[out EXCEPT ![f] = v] : v \in Values}
    /\ UNCHANGED <<reg, call, answer>>

Store ==
    /\ call.kind = "write" /\ answer = None
    /\ reg' = [reg EXCEPT ![call.field] = call.val]
    /\ answer' = [res |-> "SUCCESS", val |-> 0]
    /\ UNCHANGED <<call, result, out>>

Reject ==
    /\ call.kind = "write" /\ answer = None
    /\ answer' = [res |-> "ERR_AGAIN", val |-> 0]
    /\ UNCHANGED <<reg, call, result, out>>

Answer ==
    /\ call.kind = "read" /\ answer = None
    /\ answer' = [res |-> "SUCCESS", val |-> reg[call.field]]
    /\ UNCHANGED <<reg, call, result, out>>

Return ==
    /\ call # Idle /\ answer # None
    /\ result' = answer.res
    /\ out' = IF call.kind = "read" THEN [out EXCEPT ![call.field] = answer.val]
                                    ELSE out
    /\ call' = Idle /\ answer' = None
    /\ UNCHANGED reg

Next == Invoke \/ Refuse \/ Store \/ Reject \/ Answer \/ Return

Spec == Init /\ [][Next]_vars
====
