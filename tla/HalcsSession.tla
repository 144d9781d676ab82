----------------------------- MODULE HalcsSession -----------------------------
(***************************************************************************)
(* The client session's constructor and destructor (halcs_client_core.c): *)
(* _halcs_client_new (160-224) allocates the session, its UUID, its        *)
(* Malamute client and its poller, and on the first failure undoes what   *)
(* it did through its chain of labels; halcs_client_destroy (124-138)     *)
(* releases the four and NULLs the caller's pointer.  The session is a    *)
(* function from its four heap objects to "NULL" (never allocated),       *)
(* "alloc" or "freed", as in HalcsSmio; these operators are used by the  *)
(* modules whose programs open and close sessions (AcqTrigger).           *)
(***************************************************************************)
EXTENDS Naturals

\* The steps of _halcs_client_new that can fail, in program order.
NewSteps == <<"self_alloc", "uuid_alloc", "mlm_new", "connect", "msgpipe",
              "poller_new">>
\* The object each allocating step creates.
Creates == [self_alloc |-> "self", uuid_alloc |-> "uuid", mlm_new |-> "mlm",
            poller_new |-> "poller"]
Parts == {"self", "uuid", "mlm", "poller"}

NoSession == [p \in Parts |-> "NULL"]

StepPos(s) == CHOOSE i \in 1..6 : NewSteps[i] = s

\* The objects created before init stops at fail ("none": it runs to the end).
Created(fail) == {Creates[s] : s \in {t \in DOMAIN Creates :
                     fail = "none" \/ StepPos(t) < StepPos(fail)}}

\* Mutant: a failed msgpipe lookup jumps to err_mlm_client, past the
\* mlm_client_destroy of the Malamute client.
NewLandingMsgpipe == [self_alloc |-> 4, uuid_alloc |-> 3, mlm_new |-> 2,
                      connect |-> 1, msgpipe |-> 2, poller_new |-> 1]

\* The label each failure jumps to (209-223): err_init_poller,
\* err_mlm_inv_client_socket and err_mlm_connect (1) destroy the Malamute
\* client and fall through to err_mlm_client (2), which destroys the
\* UUID, and to err_uuid_alloc (3), which frees the session; err_self_alloc
\* (4) frees nothing.
NewLanding == [self_alloc |-> 4, uuid_alloc |-> 3, mlm_new |-> 2,
               connect |-> 1, msgpipe |-> 1, poller_new |-> 1]

\* The unwind frees the objects whose cleanup line its label reaches.
Unwound(fail) == {p \in {"mlm", "uuid", "self"} :
                     NewLanding[fail] <= [mlm |-> 1, uuid |-> 2, self |-> 3][p]}

\* _halcs_client_new: the session's objects after a run that stops at
\* fail, and the pointer it returns (self, or NULL on any failure).
ClientNew(fail) ==
    [p \in Parts |-> IF p \notin Created(fail) THEN "NULL"
                     ELSE IF fail # "none" /\ p \in Unwound(fail) THEN "freed"
                     ELSE "alloc"]
NewReturns(fail) == fail = "none"

\* halcs_client_destroy: with a non-NULL pointer, the poller, the
\* Malamute client, the UUID and the session are freed, and the pointer
\* NULLed; with NULL, nothing.
ClientDestroy(obj, ptr) ==
    IF ptr THEN [p \in Parts |-> IF obj[p] = "alloc" THEN "freed" ELSE obj[p]]
    ELSE obj
DestroyFreesTwice(obj, ptr) == ptr /\ \E p \in Parts : obj[p] = "freed"
====
