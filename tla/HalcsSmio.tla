------------------------------ MODULE HalcsSmio ------------------------------
(***************************************************************************)
(* The lifecycle of an SMIO instance (smio_t) of the DSP and SWAP modules: *)
(* the bootstrap operations init and shutdown (sm_io_dsp_exp.c 205-246,    *)
(* sm_io_swap_exp.c 245-321) and the module operations attach, deattach,  *)
(* export_ops, unexport_ops and do_op, which both modules leave            *)
(* unimplemented.  Each allocation and each smio_set_* call of init may    *)
(* fail; init is one action that runs to the first failure and then its   *)
(* error unwind.  The caller (the SMIO bootstrap, not in this repository)  *)
(* follows the spec's lifecycle contract (section 4.5): it runs init; an   *)
(* instance whose init returned SMIO_SUCCESS is live, takes operations and *)
(* is shut down once; one whose init failed is dropped.                    *)
(*                                                                         *)
(* Memory is modelled by what happens to the two heap objects an instance  *)
(* owns, its name string and its handler (smio_dsp_t, smio_swap_t):        *)
(* "NULL" (never allocated), "alloc" or "freed"; the pointer fields of the *)
(* instance are Booleans (non-NULL or NULL).                              *)
(***************************************************************************)
EXTENDS Naturals, Sequences

CONSTANTS
    Modules,    \* the SMIO instances (a device has one DSP and one SWAP per FMC)
    Kind,       \* Kind[m]: "dsp" or "swap"
    Failures    \* the steps of init that may fail in this run

\* The steps of swap_init that can fail, in program order (lines 251-283).
SwapSteps == <<"set_id", "set_name", "set_ops", "set_thsafe", "init_exp",
               "set_exp", "handler_alloc", "set_handler">>
\* The allocations of dsp_init that can fail (lines 212-213 and 221-222).
DspSteps == <<"dsp_name_alloc", "dsp_handler_alloc">>

Steps(m) == IF Kind[m] = "dsp" THEN DspSteps ELSE SwapSteps

ASSUME SmioAssumption ==
    /\ Kind \in [Modules -> {"dsp", "swap"}]
    /\ Failures \subseteq {SwapSteps[i] : i \in 1..8} \cup {DspSteps[1], DspSteps[2]}

Ops == {"attach", "deattach", "export_ops", "unexport_ops", "do_op"}

VARIABLES
    phase,     \* the caller's view of each instance
    id,        \* self->id is set
    name,      \* the name string self->name points to
    ops,       \* self->ops is non-NULL
    thsafe,    \* self->thsafe_client_ops is non-NULL
    expOps,    \* self->exp_ops is non-NULL
    hptr,      \* self->smio_handler is non-NULL
    handler,   \* the handler object
    ret,       \* what the last operation on the instance returned
    freedTwice \* ghost: an object was freed a second time

vars == <<phase, id, name, ops, thsafe, expOps, hptr, handler, ret, freedTwice>>

Init ==
    /\ phase = [m \in Modules |-> "new"]
    /\ id = [m \in Modules |-> FALSE]
    /\ name = [m \in Modules |-> "NULL"]
    /\ ops = [m \in Modules |-> FALSE]
    /\ thsafe = [m \in Modules |-> FALSE]
    /\ expOps = [m \in Modules |-> FALSE]
    /\ hptr = [m \in Modules |-> FALSE]
    /\ handler = [m \in Modules |-> "NULL"]
    /\ ret = [m \in Modules |-> "NONE"]
    /\ freedTwice = FALSE

\* free() of an object: freeing a freed one is a double free; free(NULL)
\* does nothing.
Free(obj) == IF obj = "alloc" THEN "freed" ELSE obj
FreesTwice(obj) == obj = "freed"

\* The position of step s in init, and whether s ran and succeeded when
\* init stops at fail ("none": init runs to its end).
Pos(m, s) == CHOOSE i \in 1..Len(Steps(m)) : Steps(m)[i] = s
Passed(m, fail, s) == fail = "none" \/ Pos(m, s) < Pos(m, fail)

Caller(m, r) == phase' = [phase EXCEPT ![m] = IF r = "SUCCESS" THEN "live" ELSE "failed"]

-----------------------------------------------------------------------------
(* DSP                                                                     *)

\* dsp_init (lines 205-232).  Both ASSERT_ALLOCs pass SMIO_SUCCESS as the
\* error code, so init returns SMIO_SUCCESS whichever fails; a failed
\* handler allocation frees the name and leaves self->name pointing at it.
DspInit(m) ==
    /\ Kind[m] = "dsp" /\ phase[m] = "new"
    /\ \E fail \in ({DspSteps[1], DspSteps[2]} \cap Failures) \cup {"none"} :
        LET named == Passed(m, fail, "dsp_name_alloc")
        IN  /\ id' = [id EXCEPT ![m] = TRUE]
            /\ name' = [name EXCEPT ![m] = IF ~named THEN "NULL"
                                           ELSE IF fail = "none" THEN "alloc"
                                           ELSE "freed"]
            /\ ops' = [ops EXCEPT ![m] = named]
            /\ thsafe' = [thsafe EXCEPT ![m] = named]
            /\ expOps' = [expOps EXCEPT ![m] = named]
            /\ hptr' = [hptr EXCEPT ![m] = fail = "none"]
            /\ handler' = [handler EXCEPT ![m] = IF fail = "none" THEN "alloc" ELSE "NULL"]
    /\ ret' = [ret EXCEPT ![m] = "SUCCESS"]
    /\ Caller(m, "SUCCESS")
    /\ UNCHANGED freedTwice

\* dsp_shutdown (lines 235-246): smio_dsp_destroy frees the handler and
\* NULLs self->smio_handler, the op pointers are NULLed, the name freed.
DspShutdown(m) ==
    /\ Kind[m] = "dsp" /\ phase[m] = "live"
    /\ handler' = [handler EXCEPT ![m] = Free(handler[m])]
    /\ hptr' = [hptr EXCEPT ![m] = FALSE]
    /\ expOps' = [expOps EXCEPT ![m] = FALSE]
    /\ thsafe' = [thsafe EXCEPT ![m] = FALSE]
    /\ ops' = [ops EXCEPT ![m] = FALSE]
    /\ name' = [name EXCEPT ![m] = Free(name[m])]
    /\ freedTwice' = (freedTwice \/ FreesTwice(name[m]) \/ FreesTwice(handler[m]))
    /\ ret' = [ret EXCEPT ![m] = "SUCCESS"]
    /\ phase' = [phase EXCEPT ![m] = "down"]
    /\ UNCHANGED id
-----------------------------------------------------------------------------
(* SWAP                                                                    *)

\* Where a failure of swap_init lands in its unwind chain (lines 287-298):
\* a later label runs every cleanup line below it.
SwapLanding == [set_handler |-> 1, handler_alloc |-> 2, set_exp |-> 3,
                init_exp |-> 3, set_thsafe |-> 4, set_ops |-> 5, set_name |-> 5,
                set_id |-> 5, none |-> 6]

\* Mutant: the unwind forgets smio_set_exp_ops (self, NULL) of line 290.
SwapUnwindNoExp(fail) ==
    {c \in {"handler", "thsafe", "ops"} :
        SwapLanding[fail] <= [handler |-> 1, thsafe |-> 3, ops |-> 4][c]}

\* What the unwind undoes: smio_swap_destroy of the new handler (288),
\* then exp_ops (290), thsafe_client_ops (293) and ops (295) set to NULL.
SwapUnwind(fail) ==
    {c \in {"handler", "exp", "thsafe", "ops"} :
        SwapLanding[fail] <= [handler |-> 1, exp |-> 2, thsafe |-> 3, ops |-> 4][c]}

\* swap_init (lines 245-300): the steps up to the first failure, then the
\* unwind.  self->smio_handler is set by the last step only; the id and
\* the name are not undone.
SwapInit(m) ==
    /\ Kind[m] = "swap" /\ phase[m] = "new"
    /\ \E fail \in ({SwapSteps[i] : i \in 1..8} \cap Failures) \cup {"none"} :
        LET ok(s) == Passed(m, fail, s)
            undo == SwapUnwind(fail)
            r == IF fail = "none" THEN "SUCCESS"
                 ELSE IF fail = "handler_alloc" THEN "ERR_ALLOC" ELSE "ERR"
        IN  /\ id' = [id EXCEPT ![m] = ok("set_id")]
            /\ name' = [name EXCEPT ![m] = IF ok("set_name") THEN "alloc" ELSE "NULL"]
            /\ ops' = [ops EXCEPT ![m] = ok("set_ops") /\ "ops" \notin undo]
            /\ thsafe' = [thsafe EXCEPT ![m] = ok("set_thsafe") /\ "thsafe" \notin undo]
            /\ expOps' = [expOps EXCEPT ![m] = ok("set_exp") /\ "exp" \notin undo]
            /\ handler' = [handler EXCEPT ![m] =
                              IF ~ok("handler_alloc") THEN "NULL"
                              ELSE IF "handler" \in undo THEN "freed" ELSE "alloc"]
            /\ hptr' = [hptr EXCEPT ![m] = fail = "none"]
            /\ ret' = [ret EXCEPT ![m] = r]
            /\ Caller(m, r)
    /\ UNCHANGED freedTwice

\* swap_shutdown (lines 303-321).  Without a handler it returns
\* SMIO_ERR_ALLOC and changes nothing; else smio_swap_destroy frees the
\* handler through the local `swap` (self->smio_handler still points at
\* it) and the op pointers are NULLed.
SwapShutdown(m) ==
    /\ Kind[m] = "swap" /\ phase[m] = "live"
    /\ IF hptr[m]
       THEN /\ handler' = [handler EXCEPT ![m] = Free(handler[m])]
            /\ freedTwice' = (freedTwice \/ FreesTwice(handler[m]))
            /\ expOps' = [expOps EXCEPT ![m] = FALSE]
            /\ thsafe' = [thsafe EXCEPT ![m] = FALSE]
            /\ ops' = [ops EXCEPT ![m] = FALSE]
            /\ ret' = [ret EXCEPT ![m] = "SUCCESS"]
       ELSE /\ ret' = [ret EXCEPT ![m] = "ERR_ALLOC"]
            /\ UNCHANGED <<handler, freedTwice, expOps, thsafe, ops>>
    /\ phase' = [phase EXCEPT ![m] = "down"]
    /\ UNCHANGED <<id, name, hptr>>

-----------------------------------------------------------------------------
(* The module operations.                                                  *)

\* dsp_attach, dsp_deattach, dsp_export_ops, dsp_unexport_ops and
\* dsp_do_op (sm_io_dsp_exp.c 149-191) return SMIO_ERR_FUNC_NOT_IMPL.
DspOp(m) ==
    /\ Kind[m] = "dsp" /\ phase[m] = "live"
    /\ \E op \in Ops : ret' = [ret EXCEPT ![m] = "FUNC_NOT_IMPL"]
    /\ UNCHANGED <<phase, id, name, ops, thsafe, expOps, hptr, handler, freedTwice>>

\* The same five of SWAP (sm_io_swap_exp.c 189-231).
SwapOp(m) ==
    /\ Kind[m] = "swap" /\ phase[m] = "live"
    /\ \E op \in Ops : ret' = [ret EXCEPT ![m] = "FUNC_NOT_IMPL"]
    /\ UNCHANGED <<phase, id, name, ops, thsafe, expOps, hptr, handler, freedTwice>>

Next == \E m \in Modules :
            \/ DspInit(m) \/ DspShutdown(m) \/ DspOp(m)
            \/ SwapInit(m) \/ SwapShutdown(m) \/ SwapOp(m)

Spec == Init /\ [][Next]_vars

-----------------------------------------------------------------------------
(* Properties.                                                             *)

\* No heap object of an instance is freed twice over the lifecycle init,
\* operations, shutdown (the double free of dsp_shutdown's free of a name
\* that dsp_init already freed).
NoDoubleFree == ~freedTwice

\* What init's result tells the caller is true of the instance: a live
\* instance has its operation pointers and its handler; an instance whose
\* init failed, or that was shut down, holds no operation pointer and no
\* handler object (swap_init's unwind and swap_shutdown undo what init did).
LifecycleConsistent ==
    \A m \in Modules :
        /\ phase[m] = "live" =>
              ops[m] /\ thsafe[m] /\ expOps[m] /\ hptr[m] /\ handler[m] = "alloc"
        /\ phase[m] \in {"failed", "down"} =>
              ~ops[m] /\ ~thsafe[m] /\ ~expOps[m] /\ handler[m] # "alloc"
====
