------------------------------ MODULE AcqTrigger ------------------------------
(***************************************************************************)
(* The example application examples/acq_trigger.c: main parses its        *)
(* arguments, derives the acquisition parameters, opens a session         *)
(* (HalcsSession), sets the seven trigger parameters, sizes a buffer and  *)
(* runs one halcs_get_curve, then frees what it holds and returns 0.      *)
(*                                                                         *)
(* An argument is a token: an option, or a value; a value is a natural   *)
(* number standing for its decimal string, which strtoul reads back.      *)
(* The heap is the sequence of the strings strdup made ("alloc" or        *)
(* "freed").  Each library call is one step with the outcomes the        *)
(* library's models give it (HalcsAcq, HalcsParam); halcs_get_curve       *)
(* copies min(curve, data_size) bytes (its clamp, proved in              *)
(* HalcsAcq_proofs).  Printing is left out.                               *)
(***************************************************************************)
EXTENDS Naturals, Sequences, HalcsSession

CONSTANTS
    Values,         \* the numbers given as option values
    MaxArgs,        \* bound: the length of argv after the program name
    Word,           \* 2^32: the range of uint32_t
    MaxNumSamples,  \* MAX_NUM_SAMPLES, 1 << 28
    SampleSize,     \* acq_chan[c].sample_size, for the channels 0..END_CHAN_ID-1
    Failures        \* whether the session, the sets and get_curve may fail

\* MIN_NUM_SAMPLES, DFLT_NUM_SAMPLES, MAX_HALCS_NUMBER (lines 14-24).
MinNumSamples == 4
DfltNumSamples == 4096
MaxHalcsNumber == 1
EndChanId == Len(SampleSize)

ASSUME TriggerAssumption ==
    /\ Values \subseteq Nat /\ MaxArgs \in Nat
    /\ Word \in Nat \ {0} /\ MaxNumSamples \in Nat
    /\ SampleSize \in Seq(Nat \ {0}) /\ SampleSize # <<>>
    /\ Failures \in BOOLEAN

\* The options that take a value, and the pointer each sets str_p to.
ValueOptions == {"-b", "-s", "-ch", "-board", "-halcs"}
Target(o) == CASE o = "-b" -> "broker" [] o = "-s" -> "samples"
               [] o = "-ch" -> "chan" [] o = "-board" -> "board"
               [] o = "-halcs" -> "halcs"
Strings == {"broker", "samples", "chan", "board", "halcs"}
\* A value argument: the string of the number v.
ValueTokens == {[num |-> v] : v \in Values}
Tokens == {[opt |-> o] : o \in {"-v", "-h"} \cup ValueOptions} \cup ValueTokens

VARIABLES
    argv,      \* the arguments after the program name
    pc,        \* "start", "args", "client", "set", "curve", "cleanup",
               \* "exit1" (exit (1)), "exit0" (return 0) or "segv"
    i,         \* the argument being parsed
    strP,      \* what str_p points to: a member of Strings, or "NULL"
    str,       \* each string variable: 0 (NULL) or its index in heap
    val,       \* the value each string holds
    heap,      \* the strings strdup made
    lost,      \* the indices of strings overwritten while parsing
    samples, chan, halcs, \* num_samples, chan, halcs_number
    session,   \* the session's objects (HalcsSession)
    client,    \* halcs_client is non-NULL
    sets,      \* halcs_set_acq_* calls that succeeded
    dataSize,  \* data_size
    bytesRead, \* acq_trans.block.bytes_read after get_curve
    data,      \* the curve buffer zmalloc made: "none" or "alloc"
    freedTwice \* ghost: an object was freed a second time

vars == <<argv, pc, i, strP, str, val, heap, lost, samples, chan, halcs,
          session, client, sets, dataSize, bytesRead, data, freedTwice>>

Init ==
    /\ argv \in UNION {[1..n -> Tokens] : n \in 0..MaxArgs}
    /\ pc = "start" /\ i = 1 /\ strP = "NULL"
    /\ str = [s \in Strings |-> 0] /\ val = [s \in Strings |-> 0]
    /\ heap = <<>> /\ lost = {}
    /\ samples = 0 /\ chan = 0 /\ halcs = 0
    /\ session = NoSession /\ client = FALSE
    /\ sets = 0 /\ dataSize = 0 /\ bytesRead = 0
    /\ data = "none" /\ freedTwice = FALSE

-----------------------------------------------------------------------------
(* Arguments (lines 83-122).                                               *)

\* argc < 3: the help, and exit (1).
TooFew ==
    /\ pc = "start" /\ Len(argv) < 2
    /\ pc' = "exit1"
    /\ UNCHANGED <<argv, i, strP, str, val, heap, lost, samples, chan, halcs,
                   session, client, sets, dataSize, data, bytesRead, freedTwice>>

Start ==
    /\ pc = "start" /\ Len(argv) >= 2
    /\ pc' = "args"
    /\ UNCHANGED <<argv, i, strP, str, val, heap, lost, samples, chan, halcs,
                   session, client, sets, dataSize, data, bytesRead, freedTwice>>

Parsing == pc = "args" /\ i <= Len(argv)

\* "-v" sets verbose (not kept: it only selects logging); an option with
\* a value points str_p at its string.
Option ==
    /\ Parsing /\ argv[i] \in {[opt |-> o] : o \in {"-v"} \cup ValueOptions}
    /\ strP' = IF argv[i].opt = "-v" THEN strP ELSE Target(argv[i].opt)
    /\ i' = i + 1
    /\ UNCHANGED <<argv, pc, str, val, heap, lost, samples, chan, halcs,
                   session, client, sets, dataSize, data, bytesRead, freedTwice>>

\* "-h": the help, and exit (1).
Help ==
    /\ Parsing /\ argv[i] = [opt |-> "-h"]
    /\ pc' = "exit1"
    /\ UNCHANGED <<argv, i, strP, str, val, heap, lost, samples, chan, halcs,
                   session, client, sets, dataSize, data, bytesRead, freedTwice>>

\* Any other argument: *str_p = strdup (argv[i]).  With str_p still NULL
\* that is a write through NULL; a string already set is overwritten and
\* its copy is lost.
Value ==
    /\ Parsing /\ argv[i] \in ValueTokens
    /\ IF strP = "NULL"
       THEN pc' = "segv" /\ UNCHANGED <<i, str, val, heap, lost>>
       ELSE /\ heap' = Append(heap, "alloc")
            /\ str' = [str EXCEPT ![strP] = Len(heap) + 1]
            /\ val' = [val EXCEPT ![strP] = argv[i].num]
            /\ lost' = IF str[strP] # 0 THEN lost \cup {str[strP]} ELSE lost
            /\ i' = i + 1
            /\ UNCHANGED pc
    /\ UNCHANGED <<argv, strP, samples, chan, halcs, session, client, sets,
                   dataSize, data, bytesRead, freedTwice>>

\* strtoul, stored in a uint32_t.
Strtoul(v) == v % Word

\* Lines 131-149: the default, or the value clamped to [MIN, MAX].
NumSamples ==
    IF str["samples"] = 0 THEN DfltNumSamples
    ELSE IF Strtoul(val["samples"]) < MinNumSamples THEN MinNumSamples
    ELSE IF Strtoul(val["samples"]) > MaxNumSamples THEN MaxNumSamples
    ELSE Strtoul(val["samples"])

\* Lines 154-166: the default 0, or the value clamped to END_CHAN_ID-1.
Chan ==
    IF str["chan"] = 0 THEN 0
    ELSE IF Strtoul(val["chan"]) > EndChanId - 1 THEN EndChanId - 1
    ELSE Strtoul(val["chan"])

\* Lines 182-195: the default 0, or the value clamped to MAX_HALCS_NUMBER.
HalcsNumber ==
    IF str["halcs"] = 0 THEN 0
    ELSE IF Strtoul(val["halcs"]) > MaxHalcsNumber THEN MaxHalcsNumber
    ELSE Strtoul(val["halcs"])

\* The loop ends (line 92); the default broker is strdup'ed (125-127), the
\* parameters derived (129-195; the board number only names the service,
\* 169-178 and 198), and halcs_client_new runs (200-204).
ArgsDone ==
    /\ pc = "args" /\ i > Len(argv)
    /\ IF str["broker"] = 0
       THEN /\ heap' = Append(heap, "alloc")
            /\ str' = [str EXCEPT !["broker"] = Len(heap) + 1]
       ELSE UNCHANGED <<heap, str>>
    /\ samples' = NumSamples /\ chan' = Chan /\ halcs' = HalcsNumber
    /\ \E fail \in (IF Failures THEN {NewSteps[k] : k \in 1..6} ELSE {}) \cup {"none"} :
          /\ session' = ClientNew(fail)
          /\ client' = NewReturns(fail)
          /\ pc' = IF NewReturns(fail) THEN "set" ELSE "cleanup"
    /\ UNCHANGED <<argv, i, strP, val, lost, sets, dataSize, data, bytesRead, freedTwice>>
-----------------------------------------------------------------------------
(* The calls (lines 207-281).                                              *)

\* One of the seven halcs_set_acq_* calls (210-256): on an error main goes
\* to the cleanup.
SetAcq ==
    /\ pc = "set" /\ sets < 7
    /\ \/ sets' = sets + 1 /\ UNCHANGED pc
       \/ Failures /\ pc' = "cleanup" /\ UNCHANGED sets
    /\ UNCHANGED <<argv, i, strP, str, val, heap, lost, samples, chan, halcs,
                   session, client, dataSize, data, bytesRead, freedTwice>>

\* data_size = (pre + post + 100) * num_shots * sample_size, in uint32_t
\* arithmetic (258-263), with pre = post = num_samples and one shot.
DataSize == ((samples + samples + 100) * 1 * SampleSize[chan + 1]) % Word

\* The bytes of the curve get_curve asks the server for.
CurveBytes == (samples + samples) * 1 * SampleSize[chan + 1]

\* The buffer: data = zmalloc (data_size) (263).  czmq's zmalloc does not
\* return NULL (it aborts the process when memory is exhausted).
SetsDone ==
    /\ pc = "set" /\ sets = 7
    /\ dataSize' = DataSize /\ data' = "alloc" /\ pc' = "curve"
    /\ UNCHANGED <<argv, i, strP, str, val, heap, lost, samples, chan, halcs,
                   session, client, sets, bytesRead, freedTwice>>

\* halcs_get_curve (276-281) into the data_size bytes of data: it copies
\* at most data_size bytes (HalcsAcq's clamp), or fails.
GetCurve ==
    /\ pc = "curve"
    /\ \/ bytesRead' = IF CurveBytes < dataSize THEN CurveBytes ELSE dataSize
       \/ Failures /\ UNCHANGED bytesRead
    /\ pc' = "cleanup"
    /\ UNCHANGED <<argv, i, strP, str, val, heap, lost, samples, chan, halcs,
                   session, client, sets, dataSize, data, freedTwice>>

-----------------------------------------------------------------------------
(* The cleanup (287-307).                                                  *)

\* Mutant: the broker endpoint is not freed.
FreedStringsNoBroker == {"chan", "board", "halcs", "samples"}

\* The strings freed through str_p (290-304), each then set to NULL.
FreedStrings == {"chan", "board", "halcs", "samples", "broker"}

\* free of each string (free (NULL) does nothing), then
\* halcs_client_destroy (305), and return 0.  data is not freed.
Cleanup ==
    /\ pc = "cleanup"
    /\ LET freed == {str[s] : s \in {t \in FreedStrings : str[t] # 0}}
       IN  /\ heap' = [k \in DOMAIN heap |-> IF k \in freed THEN "freed" ELSE heap[k]]
           /\ freedTwice' = \/ freedTwice
                            \/ \E k \in freed : heap[k] = "freed"
                            \/ DestroyFreesTwice(session, client)
    /\ str' = [s \in Strings |-> IF s \in FreedStrings THEN 0 ELSE str[s]]
    /\ session' = ClientDestroy(session, client) /\ client' = FALSE
    /\ pc' = "exit0"
    /\ UNCHANGED <<argv, i, strP, val, lost, samples, chan, halcs, sets,
                   dataSize, data, bytesRead>>

Next == TooFew \/ Start \/ Option \/ Help \/ Value \/ ArgsDone
        \/ SetAcq \/ SetsDone \/ GetCurve \/ Cleanup

Spec == Init /\ [][Next]_vars

-----------------------------------------------------------------------------
(* Properties.                                                             *)

\* The cleanup of main (287-305) releases what it is written to release:
\* when main returns 0, every string it still holds in its five string
\* variables and every object of the session has been freed, whichever
\* call failed, and nothing was freed twice.  What this leaves out, the
\* strings an option given twice overwrote and the curve buffer, is what
\* NothingLeaked is about.
CleanupReleases ==
    pc = "exit0" =>
        /\ \A k \in DOMAIN heap : heap[k] = "alloc" => k \in lost
        /\ \A p \in Parts : session[p] # "alloc"
        /\ ~freedTwice

\* Local resources are released on every exit path (spec, section 7): when
\* main returns 0, nothing it allocated is still allocated.
NothingLeaked ==
    pc = "exit0" =>
        /\ \A k \in DOMAIN heap : heap[k] # "alloc"
        /\ data # "alloc"
        /\ \A p \in Parts : session[p] # "alloc"

\* The argument loop never writes through a NULL str_p.
NoNullWrite == pc # "segv"

\* The buffer main passes to halcs_get_curve holds the curve it asks for
\* (data_size counts 100 samples of margin on top of it).
BufferHoldsCurve == pc = "curve" => dataSize >= CurveBytes

\* The number of samples is the one given, clamped to
\* [MIN_NUM_SAMPLES, MAX_NUM_SAMPLES] as the messages of lines 140-147 say.
SamplesAsRequested ==
    (pc \in {"set", "curve"} /\ str["samples"] # 0) =>
        samples = IF val["samples"] < MinNumSamples THEN MinNumSamples
                  ELSE IF val["samples"] > MaxNumSamples THEN MaxNumSamples
                  ELSE val["samples"]
====
