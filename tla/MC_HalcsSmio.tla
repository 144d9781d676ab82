---------------------------- MODULE MC_HalcsSmio ----------------------------
(***************************************************************************)
(* Instances of HalcsSmio: the DSP and SWAP instances of a device with two *)
(* FMC slots.                                                             *)
(***************************************************************************)
EXTENDS HalcsSmio

MCModules == {"dsp0", "dsp1", "swap0", "swap1"}
MCKind == [m \in MCModules |-> IF m \in {"dsp0", "dsp1"} THEN "dsp" ELSE "swap"]
\* Every step of swap_init may fail; DSP allocations succeed.
MCSwapFailures == {SwapSteps[i] : i \in 1..8}
\* Every step may fail.
MCAllFailures == MCSwapFailures \cup {DspSteps[1], DspSteps[2]}
=============================================================================
