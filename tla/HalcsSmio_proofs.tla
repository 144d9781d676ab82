--------------------------- MODULE HalcsSmio_proofs ---------------------------
(***************************************************************************)
(* Proofs about the SMIO lifecycle of module HalcsSmio, for any set of     *)
(* DSP and SWAP instances and any set of failing swap_init steps.  The     *)
(* DSP allocations are assumed to succeed: when one fails, dsp_init still  *)
(* returns SMIO_SUCCESS, which is the double free run smio_dsp_double_free *)
(* shows.                                                                  *)
(***************************************************************************)
EXTENDS HalcsSmio, TLAPS

USE SmioAssumption

\* The DSP allocations never fail.
DspReliable == Failures \cap {DspSteps[1], DspSteps[2]} = {}

Objects == {"NULL", "alloc", "freed"}

\* The shape of the state LifecycleConsistent talks about.
SmioType ==
    /\ phase \in [Modules -> {"new", "live", "failed", "down"}]
    /\ ops \in [Modules -> BOOLEAN] /\ thsafe \in [Modules -> BOOLEAN]
    /\ expOps \in [Modules -> BOOLEAN] /\ hptr \in [Modules -> BOOLEAN]
    /\ handler \in [Modules -> Objects]

\* LifecycleConsistent, for one instance.
LcAt(n) ==
    /\ phase[n] = "live" =>
          ops[n] /\ thsafe[n] /\ expOps[n] /\ hptr[n] /\ handler[n] = "alloc"
    /\ phase[n] \in {"failed", "down"} =>
          ~ops[n] /\ ~thsafe[n] /\ ~expOps[n] /\ handler[n] # "alloc"

\* The inductive invariant.
IInv == SmioType /\ \A n \in Modules : LcAt(n)

-----------------------------------------------------------------------------
(* The step positions of swap_init.                                        *)

\* Pos finds each step of swap_init at its place in program order.
LEMMA SwapPos ==
    ASSUME NEW m \in Modules, Kind[m] = "swap"
    PROVE  /\ Pos(m, "set_id") = 1 /\ Pos(m, "set_name") = 2
           /\ Pos(m, "set_ops") = 3 /\ Pos(m, "set_thsafe") = 4
           /\ Pos(m, "init_exp") = 5 /\ Pos(m, "set_exp") = 6
           /\ Pos(m, "handler_alloc") = 7 /\ Pos(m, "set_handler") = 8
<1>1. Steps(m) = SwapSteps
  BY DEF Steps
<1>2. Len(SwapSteps) = 8
  BY DEF SwapSteps
<1>3. \A s \in {SwapSteps[i] : i \in 1..8} :
         Pos(m, s) = CHOOSE i \in 1..8 : SwapSteps[i] = s
  BY <1>1, <1>2 DEF Pos
<1>4. \A i, j \in 1..8 : SwapSteps[i] = SwapSteps[j] => i = j
  BY DEF SwapSteps
<1>5. \A k \in 1..8 : (CHOOSE i \in 1..8 : SwapSteps[i] = SwapSteps[k]) = k
  BY <1>4
<1>6. QED
  BY <1>3, <1>5 DEF SwapSteps

-----------------------------------------------------------------------------
(* One step of one instance.                                               *)

\* What swap_init leaves in instance m satisfies LcAt(m): a success has
\* every pointer and the handler; after any failure the unwind has left
\* no operation pointer and no live handler.
LEMMA SwapInitLc ==
    ASSUME NEW m \in Modules, Kind[m] = "swap",
           NEW fail \in {SwapSteps[i] : i \in 1..8} \cup {"none"},
           NEW ph, NEW o, NEW t, NEW e, NEW hp, NEW h,
           ph = IF fail = "none" THEN "live" ELSE "failed",
           o = (Passed(m, fail, "set_ops") /\ "ops" \notin SwapUnwind(fail)),
           t = (Passed(m, fail, "set_thsafe") /\ "thsafe" \notin SwapUnwind(fail)),
           e = (Passed(m, fail, "set_exp") /\ "exp" \notin SwapUnwind(fail)),
           hp = (fail = "none"),
           h = IF ~Passed(m, fail, "handler_alloc") THEN "NULL"
               ELSE IF "handler" \in SwapUnwind(fail) THEN "freed" ELSE "alloc"
    PROVE  /\ ph = "live" => o /\ t /\ e /\ hp /\ h = "alloc"
           /\ ph \in {"failed", "down"} => ~o /\ ~t /\ ~e /\ h # "alloc"
<1>0. /\ Pos(m, "set_id") = 1 /\ Pos(m, "set_name") = 2
      /\ Pos(m, "set_ops") = 3 /\ Pos(m, "set_thsafe") = 4
      /\ Pos(m, "init_exp") = 5 /\ Pos(m, "set_exp") = 6
      /\ Pos(m, "handler_alloc") = 7 /\ Pos(m, "set_handler") = 8
  BY SwapPos
<1>1. CASE fail = "none"
  <2>1. SwapUnwind(fail) = {}
    BY <1>1 DEF SwapUnwind, SwapLanding
  <2>2. /\ Passed(m, fail, "set_ops") /\ Passed(m, fail, "set_thsafe")
        /\ Passed(m, fail, "set_exp") /\ Passed(m, fail, "handler_alloc")
    BY <1>1 DEF Passed
  <2>3. QED
    BY <1>1, <2>1, <2>2, Zenon
<1>2. CASE fail # "none"
  <2>1. fail \in {"set_id", "set_name", "set_ops", "set_thsafe", "init_exp",
                  "set_exp", "handler_alloc", "set_handler"}
    BY <1>2 DEF SwapSteps
  <2>2. ph = "failed"
    BY <1>2
  <2>3. ~o /\ ~t /\ ~e /\ h # "alloc"
    <3>1. CASE fail = "set_id"
      <4>1. SwapUnwind(fail) = {}
        BY <3>1 DEF SwapUnwind, SwapLanding
      <4>2. /\ ~Passed(m, fail, "set_ops") /\ ~Passed(m, fail, "set_thsafe")
            /\ ~Passed(m, fail, "set_exp") /\ ~Passed(m, fail, "handler_alloc")
        BY <3>1, <1>0 DEF Passed
      <4>3. QED
        BY <4>1, <4>2, Zenon
    <3>2. CASE fail = "set_name"
      <4>1. SwapUnwind(fail) = {}
        BY <3>2 DEF SwapUnwind, SwapLanding
      <4>2. /\ ~Passed(m, fail, "set_ops") /\ ~Passed(m, fail, "set_thsafe")
            /\ ~Passed(m, fail, "set_exp") /\ ~Passed(m, fail, "handler_alloc")
        BY <3>2, <1>0 DEF Passed
      <4>3. QED
        BY <4>1, <4>2, Zenon
    <3>3. CASE fail = "set_ops"
      <4>1. SwapUnwind(fail) = {}
        BY <3>3 DEF SwapUnwind, SwapLanding
      <4>2. /\ ~Passed(m, fail, "set_ops") /\ ~Passed(m, fail, "set_thsafe")
            /\ ~Passed(m, fail, "set_exp") /\ ~Passed(m, fail, "handler_alloc")
        BY <3>3, <1>0 DEF Passed
      <4>3. QED
        BY <4>1, <4>2, Zenon
    <3>4. CASE fail = "set_thsafe"
      <4>1. SwapUnwind(fail) = {"ops"}
        BY <3>4 DEF SwapUnwind, SwapLanding
      <4>2. /\ Passed(m, fail, "set_ops") /\ ~Passed(m, fail, "set_thsafe")
            /\ ~Passed(m, fail, "set_exp") /\ ~Passed(m, fail, "handler_alloc")
        BY <3>4, <1>0 DEF Passed
      <4>3. QED
        BY <4>1, <4>2, Zenon
    <3>5. CASE fail = "init_exp"
      <4>1. SwapUnwind(fail) = {"ops", "thsafe"}
        BY <3>5 DEF SwapUnwind, SwapLanding
      <4>2. /\ Passed(m, fail, "set_ops") /\ Passed(m, fail, "set_thsafe")
            /\ ~Passed(m, fail, "set_exp") /\ ~Passed(m, fail, "handler_alloc")
        BY <3>5, <1>0 DEF Passed
      <4>3. QED
        BY <4>1, <4>2, Zenon
    <3>6. CASE fail = "set_exp"
      <4>1. SwapUnwind(fail) = {"ops", "thsafe"}
        BY <3>6 DEF SwapUnwind, SwapLanding
      <4>2. /\ Passed(m, fail, "set_ops") /\ Passed(m, fail, "set_thsafe")
            /\ ~Passed(m, fail, "set_exp") /\ ~Passed(m, fail, "handler_alloc")
        BY <3>6, <1>0 DEF Passed
      <4>3. QED
        BY <4>1, <4>2, Zenon
    <3>7. CASE fail = "handler_alloc"
      <4>1. SwapUnwind(fail) = {"exp", "ops", "thsafe"}
        BY <3>7 DEF SwapUnwind, SwapLanding
      <4>2. /\ Passed(m, fail, "set_ops") /\ Passed(m, fail, "set_thsafe")
            /\ Passed(m, fail, "set_exp") /\ ~Passed(m, fail, "handler_alloc")
        BY <3>7, <1>0 DEF Passed
      <4>3. QED
        BY <4>1, <4>2, Zenon
    <3>8. CASE fail = "set_handler"
      <4>1. SwapUnwind(fail) = {"exp", "handler", "ops", "thsafe"}
        BY <3>8 DEF SwapUnwind, SwapLanding
      <4>2. /\ Passed(m, fail, "set_ops") /\ Passed(m, fail, "set_thsafe")
            /\ Passed(m, fail, "set_exp") /\ Passed(m, fail, "handler_alloc")
        BY <3>8, <1>0 DEF Passed
      <4>3. QED
        BY <4>1, <4>2, Zenon
    <3>9. QED
      BY <2>1, <3>1, <3>2, <3>3, <3>4, <3>5, <3>6, <3>7, <3>8
  <2>4. QED
    BY <2>2, <2>3
<1>3. QED
  BY <1>1, <1>2

\* The instances an action does not touch keep LcAt.
LEMMA OthersKept ==
    ASSUME IInv, NEW m \in Modules, SmioType',
           \A n \in Modules \ {m} :
              /\ phase'[n] = phase[n] /\ ops'[n] = ops[n]
              /\ thsafe'[n] = thsafe[n] /\ expOps'[n] = expOps[n]
              /\ hptr'[n] = hptr[n] /\ handler'[n] = handler[n],
           LcAt(m)'
    PROVE  IInv'
<1>1. \A n \in Modules \ {m} : LcAt(n)'
  BY DEF IInv, LcAt
<1>2. QED
  BY <1>1 DEF IInv

\* dsp_init, when both allocations succeed, makes a live instance with
\* every pointer and the handler.
LEMMA DspInitStep ==
    ASSUME DspReliable, IInv, NEW m \in Modules, DspInit(m)
    PROVE  IInv'
<1>1. PICK fail \in ({DspSteps[1], DspSteps[2]} \cap Failures) \cup {"none"} :
        LET named == Passed(m, fail, "dsp_name_alloc")
        IN  /\ ops' = [ops EXCEPT ![m] = named]
            /\ thsafe' = [thsafe EXCEPT ![m] = named]
            /\ expOps' = [expOps EXCEPT ![m] = named]
            /\ hptr' = [hptr EXCEPT ![m] = fail = "none"]
            /\ handler' = [handler EXCEPT ![m] = IF fail = "none" THEN "alloc" ELSE "NULL"]
  BY DEF DspInit
<1>2. fail = "none"
  BY <1>1 DEF DspReliable
<1>3. /\ ops' = [ops EXCEPT ![m] = TRUE] /\ thsafe' = [thsafe EXCEPT ![m] = TRUE]
      /\ expOps' = [expOps EXCEPT ![m] = TRUE] /\ hptr' = [hptr EXCEPT ![m] = TRUE]
      /\ handler' = [handler EXCEPT ![m] = "alloc"]
  BY <1>1, <1>2 DEF Passed
<1>4. phase' = [phase EXCEPT ![m] = "live"]
  BY DEF DspInit, Caller
<1>5. QED
  BY <1>3, <1>4, OthersKept DEF IInv, SmioType, LcAt, Objects

\* dsp_shutdown frees the handler a live instance holds and NULLs the
\* operation pointers.
LEMMA DspShutdownStep ==
    ASSUME IInv, NEW m \in Modules, DspShutdown(m)
    PROVE  IInv'
<1>1. handler[m] = "alloc"
  BY DEF DspShutdown, IInv, LcAt
<1>2. /\ handler' = [handler EXCEPT ![m] = "freed"]
      /\ ops' = [ops EXCEPT ![m] = FALSE] /\ thsafe' = [thsafe EXCEPT ![m] = FALSE]
      /\ expOps' = [expOps EXCEPT ![m] = FALSE] /\ hptr' = [hptr EXCEPT ![m] = FALSE]
      /\ phase' = [phase EXCEPT ![m] = "down"]
  BY <1>1 DEF DspShutdown, Free
<1>3. QED
  BY <1>2, OthersKept DEF IInv, SmioType, LcAt, Objects

\* swap_init leaves instance m as SwapInitLc says, whichever step fails.
LEMMA SwapInitStep ==
    ASSUME IInv, NEW m \in Modules, SwapInit(m)
    PROVE  IInv'
<1>1. Kind[m] = "swap"
  BY DEF SwapInit
<1>2. PICK fail \in ({SwapSteps[i] : i \in 1..8} \cap Failures) \cup {"none"} :
        LET ok(s) == Passed(m, fail, s)
            undo == SwapUnwind(fail)
            r == IF fail = "none" THEN "SUCCESS"
                 ELSE IF fail = "handler_alloc" THEN "ERR_ALLOC" ELSE "ERR"
        IN  /\ ops' = [ops EXCEPT ![m] = ok("set_ops") /\ "ops" \notin undo]
            /\ thsafe' = [thsafe EXCEPT ![m] = ok("set_thsafe") /\ "thsafe" \notin undo]
            /\ expOps' = [expOps EXCEPT ![m] = ok("set_exp") /\ "exp" \notin undo]
            /\ handler' = [handler EXCEPT ![m] =
                              IF ~ok("handler_alloc") THEN "NULL"
                              ELSE IF "handler" \in undo THEN "freed" ELSE "alloc"]
            /\ hptr' = [hptr EXCEPT ![m] = fail = "none"]
            /\ Caller(m, r)
  BY DEF SwapInit
<1>3. phase' = [phase EXCEPT ![m] = IF fail = "none" THEN "live" ELSE "failed"]
  BY <1>2 DEF Caller
<1>4. LcAt(m)'
  <2>1. fail \in {SwapSteps[i] : i \in 1..8} \cup {"none"}
    BY <1>2
  <2>2. QED
    BY <1>1, <1>2, <1>3, <2>1, SwapInitLc DEF IInv, SmioType, LcAt
<1>5. SmioType'
  BY <1>2, <1>3 DEF IInv, SmioType, Objects
<1>6. QED
  BY <1>2, <1>3, <1>4, <1>5, OthersKept

\* swap_shutdown of a live instance finds its handler and frees it.
LEMMA SwapShutdownStep ==
    ASSUME IInv, NEW m \in Modules, SwapShutdown(m)
    PROVE  IInv'
<1>1. hptr[m] /\ handler[m] = "alloc"
  BY DEF SwapShutdown, IInv, LcAt
<1>2. /\ handler' = [handler EXCEPT ![m] = "freed"]
      /\ ops' = [ops EXCEPT ![m] = FALSE] /\ thsafe' = [thsafe EXCEPT ![m] = FALSE]
      /\ expOps' = [expOps EXCEPT ![m] = FALSE] /\ hptr' = hptr
      /\ phase' = [phase EXCEPT ![m] = "down"]
  BY <1>1 DEF SwapShutdown, Free
<1>3. QED
  BY <1>2, OthersKept DEF IInv, SmioType, LcAt, Objects

\* The unimplemented operations change no pointer and no object.
LEMMA OpStep ==
    ASSUME IInv, NEW m \in Modules, DspOp(m) \/ SwapOp(m)
    PROVE  IInv'
BY DEF DspOp, SwapOp, IInv, SmioType, LcAt

-----------------------------------------------------------------------------
(* LifecycleConsistent.                                                    *)

\* When the DSP allocations succeed, what init returns is always true of
\* the instance (the property run smio_lifecycle checks): a live instance
\* has its operation pointers and its handler, a failed or shut-down one
\* has none left, for any number of DSP and SWAP instances and whichever
\* steps of swap_init fail (its unwind undoes exactly what ran).
THEOREM LifecycleSafe ==
    ASSUME DspReliable
    PROVE  Spec => []LifecycleConsistent
<1>1. Init => IInv
  BY DEF Init, IInv, SmioType, LcAt, Objects
<1>2. IInv /\ [Next]_vars => IInv'
  <2> SUFFICES ASSUME IInv, [Next]_vars PROVE IInv'
    OBVIOUS
  <2>1. CASE UNCHANGED vars
    BY <2>1 DEF vars, IInv, SmioType, LcAt
  <2>2. CASE Next
    <3>1. PICK m \in Modules :
              \/ DspInit(m) \/ DspShutdown(m) \/ DspOp(m)
              \/ SwapInit(m) \/ SwapShutdown(m) \/ SwapOp(m)
      BY <2>2 DEF Next
    <3>2. QED
      BY <3>1, DspInitStep, DspShutdownStep, SwapInitStep, SwapShutdownStep,
         OpStep
  <2>3. QED
    BY <2>1, <2>2
<1>3. IInv => LifecycleConsistent
  BY DEF IInv, LcAt, LifecycleConsistent
<1>4. QED
  BY <1>1, <1>2, <1>3, PTL DEF Spec
====
