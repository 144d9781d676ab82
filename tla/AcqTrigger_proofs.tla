--------------------------- MODULE AcqTrigger_proofs ---------------------------
(***************************************************************************)
(* Proof that acq_trigger releases what it holds when main returns 0      *)
(* (CleanupReleases, checked by trigger_released on up to three         *)
(* arguments), for any arguments, word size and channel table, whichever  *)
(* step of _halcs_client_new, whichever halcs_set_acq_* call and whether  *)
(* halcs_get_curve fails.                                                  *)
(***************************************************************************)
EXTENDS AcqTrigger, TLAPS

Pcs == {"start", "args", "client", "set", "curve", "cleanup", "exit1",
        "exit0", "segv"}

\* A heap string is still reachable through a string variable, or was
\* overwritten by the argument loop.
Held(k) == k \in lost \/ \E s \in Strings : str[s] = k

\* The inductive invariant.  Before main returns, every string strdup made
\* is allocated and held, nothing was freed twice, and the session pointer
\* owns all four objects when it is non-NULL and none when it is NULL (a
\* failed _halcs_client_new has undone its steps).
IInv ==
    /\ pc \in Pcs
    /\ heap \in Seq({"alloc", "freed"})
    /\ str \in [Strings -> 0..Len(heap)]
    /\ strP \in Strings \cup {"NULL"}
    /\ session \in [Parts -> {"NULL", "alloc", "freed"}]
    /\ client \in BOOLEAN /\ freedTwice \in BOOLEAN
    /\ pc # "exit0" =>
          /\ \A k \in DOMAIN heap : heap[k] = "alloc" /\ Held(k)
          /\ ~freedTwice
          /\ client => \A p \in Parts : session[p] = "alloc"
          /\ ~client => \A p \in Parts : session[p] # "alloc"
    /\ pc = "exit0" => CleanupReleases

-----------------------------------------------------------------------------
(* _halcs_client_new.                                                      *)

\* Each step of _halcs_client_new is found at its place in program order.
LEMMA StepPosIs ==
    ASSUME NEW k \in 1..6
    PROVE  StepPos(NewSteps[k]) = k
BY DEF StepPos, NewSteps

\* The label a failure at step k jumps to.
LEMMA LandingIs ==
    ASSUME NEW k \in 1..6
    PROVE  NewLanding[NewSteps[k]] = IF k <= 3 THEN 5 - k ELSE 1
BY DEF NewLanding, NewSteps

\* The objects created before step k fails are exactly those whose
\* creating step comes earlier.
LEMMA CreatedBefore ==
    ASSUME NEW k \in 1..6, NEW p \in Created(NewSteps[k])
    PROVE  \E t \in DOMAIN Creates : Creates[t] = p /\ StepPos(t) < k
<1>1. NewSteps[k] # "none"
  BY DEF NewSteps
<1>2. QED
  BY <1>1, StepPosIs DEF Created

\* Whichever step fails, the unwind of _halcs_client_new frees every
\* object it had created: none is left allocated.
LEMMA FailedNewReleases ==
    ASSUME NEW k \in 1..6, NEW p \in Parts
    PROVE  ClientNew(NewSteps[k])[p] # "alloc"
<1> DEFINE fail == NewSteps[k]
<1>1. fail # "none"
  BY DEF NewSteps
<1>2. SUFFICES ASSUME p \in Created(fail) PROVE p \in Unwound(fail)
  BY <1>1 DEF ClientNew
<1>3. PICK t \in DOMAIN Creates : Creates[t] = p /\ StepPos(t) < k
  BY <1>2, CreatedBefore
<1>4. /\ t = "self_alloc" => StepPos(t) = 1 /\ p = "self"
      /\ t = "uuid_alloc" => StepPos(t) = 2 /\ p = "uuid"
      /\ t = "mlm_new" => StepPos(t) = 3 /\ p = "mlm"
      /\ t = "poller_new" => StepPos(t) = 6
  <2>1. /\ NewSteps[1] = "self_alloc" /\ NewSteps[2] = "uuid_alloc"
        /\ NewSteps[3] = "mlm_new" /\ NewSteps[6] = "poller_new"
    BY DEF NewSteps
  <2>2. QED
    BY <1>3, <2>1, StepPosIs DEF Creates
<1>5. t \in {"self_alloc", "uuid_alloc", "mlm_new", "poller_new"}
  BY DEF Creates
<1>6. NewLanding[fail] = IF k <= 3 THEN 5 - k ELSE 1
  BY LandingIs
<1>7. QED
  BY <1>3, <1>4, <1>5, <1>6 DEF Unwound

\* A _halcs_client_new that runs to the end owns all four objects.
LEMMA NewOwnsAll ==
    ASSUME NEW p \in Parts
    PROVE  ClientNew("none")[p] = "alloc"
BY DEF ClientNew, Created, Creates, Parts

\* Whatever step fails, the session's objects are NULL, allocated or freed.
LEMMA NewType ==
    ASSUME NEW fail
    PROVE  ClientNew(fail) \in [Parts -> {"NULL", "alloc", "freed"}]
BY DEF ClientNew

-----------------------------------------------------------------------------
(* The steps.                                                              *)

\* The steps that touch neither the heap, the strings nor the session.
LEMMA QuietStep ==
    ASSUME IInv,
           TooFew \/ Start \/ Option \/ Help \/ SetAcq \/ SetsDone \/ GetCurve
    PROVE  IInv'
<1> USE DEF IInv, Held
<1>1. CASE TooFew
  BY <1>1 DEF TooFew, Pcs
<1>2. CASE Start
  BY <1>2 DEF Start, Pcs
<1>3. CASE Option
  <2>1. strP' \in Strings \cup {"NULL"}
    BY <1>3 DEF Option, Target, Strings, ValueOptions
  <2>2. QED
    BY <1>3, <2>1 DEF Option, Parsing
<1>4. CASE Help
  BY <1>4 DEF Help, Parsing, Pcs
<1>5. CASE SetAcq
  BY <1>5 DEF SetAcq, Pcs
<1>6. CASE SetsDone
  BY <1>6 DEF SetsDone, Pcs
<1>7. CASE GetCurve
  BY <1>7 DEF GetCurve, Pcs
<1>8. QED
  BY <1>1, <1>2, <1>3, <1>4, <1>5, <1>6, <1>7

\* *str_p = strdup (argv[i]): the new string is held by str_p, and the one
\* it replaces, if any, is counted as lost.
LEMMA ValueStep ==
    ASSUME IInv, Value
    PROVE  IInv'
<1>1. pc = "args"
  BY DEF Value, Parsing
<1>2. CASE strP = "NULL"
  BY <1>1, <1>2 DEF Value, IInv, Held, Pcs
<1>3. CASE strP # "NULL"
  <2>1. /\ strP \in Strings
        /\ heap' = Append(heap, "alloc")
        /\ str' = [str EXCEPT ![strP] = Len(heap) + 1]
        /\ lost' = IF str[strP] # 0 THEN lost \cup {str[strP]} ELSE lost
        /\ UNCHANGED <<pc, strP, session, client, freedTwice>>
    BY <1>3 DEF Value, IInv
  <2>2. /\ heap' \in Seq({"alloc", "freed"})
        /\ Len(heap') = Len(heap) + 1
        /\ str' \in [Strings -> 0..Len(heap')]
    BY <2>1 DEF IInv
  <2>3. ASSUME NEW k \in DOMAIN heap'
        PROVE  heap'[k] = "alloc" /\ Held(k)'
    <3>1. CASE k = Len(heap) + 1
      BY <2>1, <3>1 DEF IInv, Held
    <3>2. CASE k \in DOMAIN heap
      <4>1. heap'[k] = "alloc" /\ Held(k)
        BY <1>1, <2>1, <3>2 DEF IInv
      <4>2. ASSUME k = str[strP] PROVE Held(k)'
        <5>1. k # 0
          BY <3>2 DEF IInv
        <5>2. QED
          BY <2>1, <4>2, <5>1 DEF Held
      <4>3. ASSUME k # str[strP], k \in lost PROVE Held(k)'
        BY <2>1, <4>3 DEF Held
      <4>4. ASSUME k # str[strP], \E s \in Strings : str[s] = k PROVE Held(k)'
        <5>1. PICK s \in Strings : str[s] = k
          BY <4>4
        <5>2. s # strP /\ str'[s] = k
          BY <2>1, <2>2, <4>4, <5>1 DEF IInv
        <5>3. QED
          BY <5>2 DEF Held
      <4>5. QED
        BY <4>1, <4>2, <4>3, <4>4 DEF Held
    <3>3. QED
      BY <2>1, <2>2, <3>1, <3>2 DEF IInv
  <2>4. QED
    BY <1>1, <2>1, <2>2, <2>3 DEF IInv
<1>4. QED
  BY <1>2, <1>3

\* The loop ends: the default broker string, held by str["broker"], and
\* _halcs_client_new, which returns its session owning all four objects,
\* or NULL having released what it created.
LEMMA ArgsDoneStep ==
    ASSUME IInv, ArgsDone
    PROVE  IInv'
<1>1. pc = "args" /\ pc' \in {"set", "cleanup"}
      /\ UNCHANGED <<strP, lost, freedTwice>>
  BY DEF ArgsDone, NewReturns
<1>2. /\ heap' \in Seq({"alloc", "freed"})
      /\ str' \in [Strings -> 0..Len(heap')]
      /\ \A k \in DOMAIN heap' : heap'[k] = "alloc" /\ Held(k)'
  <2>1. CASE str["broker"] = 0
    <3>1. heap' = Append(heap, "alloc") /\ str' = [str EXCEPT !["broker"] = Len(heap) + 1]
      BY <2>1 DEF ArgsDone
    <3>2. heap' \in Seq({"alloc", "freed"}) /\ Len(heap') = Len(heap) + 1
      BY <3>1 DEF IInv
    <3>3. str' \in [Strings -> 0..Len(heap')]
      BY <3>1, <3>2 DEF IInv, Strings
    <3>4. ASSUME NEW k \in DOMAIN heap' PROVE heap'[k] = "alloc" /\ Held(k)'
      <4>1. CASE k = Len(heap) + 1
        BY <3>1, <4>1 DEF IInv, Held, Strings
      <4>2. CASE k \in DOMAIN heap
        <5>1. heap'[k] = "alloc" /\ Held(k) /\ k # 0
          BY <1>1, <3>1, <4>2 DEF IInv
        <5>2. Held(k)'
          BY <1>1, <2>1, <3>1, <5>1 DEF Held, IInv
        <5>3. QED
          BY <5>1, <5>2
      <4>3. QED
        BY <3>1, <3>2, <4>1, <4>2 DEF IInv
    <3>5. QED
      BY <3>2, <3>3, <3>4
  <2>2. CASE str["broker"] # 0
    BY <1>1, <2>2 DEF ArgsDone, IInv, Held
  <2>3. QED
    BY <2>1, <2>2
<1>3. PICK fail \in {NewSteps[k] : k \in 1..6} \cup {"none"} :
          session' = ClientNew(fail) /\ client' = NewReturns(fail)
  <2>1. (IF Failures THEN {NewSteps[k] : k \in 1..6} ELSE {}) \cup {"none"}
          \subseteq {NewSteps[k] : k \in 1..6} \cup {"none"}
    OBVIOUS
  <2>2. QED
    BY <2>1 DEF ArgsDone
<1>4. /\ client' => \A p \in Parts : session'[p] = "alloc"
      /\ ~client' => \A p \in Parts : session'[p] # "alloc"
  <2>1. CASE fail = "none"
    BY <1>3, <2>1, NewOwnsAll DEF NewReturns
  <2>2. CASE fail # "none"
    <3>1. PICK k \in 1..6 : fail = NewSteps[k]
      BY <1>3, <2>2
    <3>2. QED
      BY <1>3, <2>2, <3>1, FailedNewReleases DEF NewReturns
  <2>3. QED
    BY <2>1, <2>2
<1>5. session' \in [Parts -> {"NULL", "alloc", "freed"}] /\ client' \in BOOLEAN
  BY <1>3, NewType DEF NewReturns
<1>6. QED
  BY <1>1, <1>2, <1>4, <1>5 DEF IInv, Pcs

\* The cleanup: every string still held is freed once, and
\* halcs_client_destroy frees the session's objects exactly when the
\* pointer is non-NULL; what stays allocated was lost by the argument loop.
LEMMA CleanupStep ==
    ASSUME IInv, Cleanup
    PROVE  IInv'
<1> DEFINE freed == {str[s] : s \in {t \in FreedStrings : str[t] # 0}}
<1>1. /\ pc = "cleanup" /\ pc' = "exit0"
      /\ heap' = [k \in DOMAIN heap |-> IF k \in freed THEN "freed" ELSE heap[k]]
      /\ freedTwice' = \/ freedTwice
                       \/ \E k \in freed : heap[k] = "freed"
                       \/ DestroyFreesTwice(session, client)
      /\ str' = [s \in Strings |-> IF s \in FreedStrings THEN 0 ELSE str[s]]
      /\ session' = ClientDestroy(session, client) /\ client' = FALSE
      /\ lost' = lost /\ strP' = strP
  BY DEF Cleanup
<1>2. freed \subseteq DOMAIN heap
  BY DEF IInv, FreedStrings, Strings
<1>3. heap' \in Seq({"alloc", "freed"}) /\ DOMAIN heap' = DOMAIN heap
  <2>1. Len(heap) \in Nat /\ DOMAIN heap = 1..Len(heap)
    BY DEF IInv
  <2>2. heap' \in [1..Len(heap) -> {"alloc", "freed"}]
    BY <1>1, <2>1 DEF IInv
  <2>3. QED
    BY <1>1, <2>1, <2>2
<1>4. str' \in [Strings -> 0..Len(heap')]
  BY <1>1, <1>3 DEF FreedStrings, Strings
<1>5. \A k \in DOMAIN heap' : heap'[k] = "alloc" => k \in lost'
  <2> SUFFICES ASSUME NEW k \in DOMAIN heap', heap'[k] = "alloc", k \notin lost
               PROVE  FALSE
    BY <1>1
  <2>1. k \notin freed /\ k \in DOMAIN heap
    BY <1>1, <1>3
  <2>2. PICK s \in Strings : str[s] = k
    BY <1>1, <2>1 DEF IInv, Held
  <2>3. k # 0
    BY <2>1 DEF IInv
  <2>4. QED
    BY <2>1, <2>2, <2>3 DEF FreedStrings, Strings
<1>6. \A p \in Parts : session'[p] # "alloc"
  <2>1. CASE client
    BY <1>1, <2>1 DEF ClientDestroy, IInv
  <2>2. CASE ~client
    BY <1>1, <2>2 DEF ClientDestroy, IInv
  <2>3. QED
    BY <2>1, <2>2 DEF IInv
<1>7. ~freedTwice'
  <2>1. ~freedTwice /\ \A k \in freed : heap[k] = "alloc"
    BY <1>1, <1>2 DEF IInv
  <2>2. ~DestroyFreesTwice(session, client)
    BY <1>1 DEF DestroyFreesTwice, IInv
  <2>3. QED
    BY <1>1, <2>1, <2>2
<1>8. session' \in [Parts -> {"NULL", "alloc", "freed"}]
  BY <1>1 DEF ClientDestroy, IInv
<1>10. freedTwice' \in BOOLEAN /\ client' \in BOOLEAN /\ pc' \in Pcs
  BY <1>1 DEF Pcs
<1>9. QED
  BY <1>1, <1>3, <1>4, <1>5, <1>6, <1>7, <1>8, <1>10 DEF IInv, CleanupReleases

LEMMA InitIInv ==
    Init => IInv
<1> SUFFICES ASSUME Init PROVE IInv
  OBVIOUS
<1>1. heap = <<>> /\ str = [s \in Strings |-> 0] /\ pc = "start" /\ strP = "NULL"
      /\ session = NoSession /\ client = FALSE /\ freedTwice = FALSE
  BY DEF Init
<1>2. heap \in Seq({"alloc", "freed"}) /\ Len(heap) = 0 /\ DOMAIN heap = {}
  BY <1>1
<1>3. str \in [Strings -> 0..Len(heap)]
  BY <1>1, <1>2
<1>4. session \in [Parts -> {"NULL", "alloc", "freed"}]
      /\ \A p \in Parts : session[p] # "alloc"
  BY <1>1 DEF NoSession
<1>5. QED
  BY <1>1, <1>2, <1>3, <1>4 DEF IInv, Pcs

\* When main returns 0, every string it still held has been freed, and so
\* has every object of the session, whichever call failed; nothing was
\* freed twice (CleanupReleases, for any arguments and channel table).
THEOREM CleanupSafe == Spec => []CleanupReleases
<1>1. IInv /\ [Next]_vars => IInv'
  <2> SUFFICES ASSUME IInv, [Next]_vars PROVE IInv'
    OBVIOUS
  <2>1. CASE TooFew \/ Start \/ Option \/ Help \/ SetAcq \/ SetsDone \/ GetCurve
    BY <2>1, QuietStep
  <2>2. CASE Value
    BY <2>2, ValueStep
  <2>3. CASE ArgsDone
    BY <2>3, ArgsDoneStep
  <2>4. CASE Cleanup
    BY <2>4, CleanupStep
  <2>5. CASE UNCHANGED vars
    <3>1. /\ pc' = pc /\ heap' = heap /\ str' = str /\ strP' = strP
          /\ session' = session /\ client' = client /\ freedTwice' = freedTwice
          /\ lost' = lost
      BY <2>5 DEF vars
    <3>2. QED
      BY <3>1 DEF IInv, Held, CleanupReleases
  <2>6. QED
    BY <2>1, <2>2, <2>3, <2>4, <2>5 DEF Next
<1>2. IInv => CleanupReleases
  BY DEF IInv, CleanupReleases
<1>3. QED
  BY InitIInv, <1>1, <1>2, PTL DEF Spec

====
