----------------------------- MODULE MC_AcqTrigger -----------------------------
(***************************************************************************)
(* acq_trigger with up to three arguments.  uint32_t and MAX_NUM_SAMPLES   *)
(* are scaled down by 2^4 (2^28 and 2^24 for 2^32 and 2^28), keeping     *)
(* their ratio, so that TLC's integers hold every product.  The channels   *)
(* are those print_data knows: 0 and 1 (ADC, four 16-bit samples) and a   *)
(* decimated one (four 32-bit samples).                                   *)
(***************************************************************************)
EXTENDS AcqTrigger

MCWord == 2^28
MCMaxNumSamples == 2^24
MCSampleSize == <<8, 8, 16>>
\* A value below MIN_NUM_SAMPLES, and one above END_CHAN_ID - 1.
MCValues == {3, 5}
\* MAX_NUM_SAMPLES, the largest accepted count.
MCMaxValues == {2^24}
\* A count of 2^32 + 8 (scaled): strtoul reads it into a uint32_t.
MCHugeValues == {2^28 + 8}
=============================================================================
