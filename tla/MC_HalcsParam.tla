--------------------------- MODULE MC_HalcsParam ---------------------------
(***************************************************************************)
(* Instances of HalcsParam for TLC: one DSP field of each kind (kx, with   *)
(* minimum 1, and ds_tbt_thres, with minimum 0), the swap mode sw and the  *)
(* gain A.  Each is written at its boundaries (spec, section 8): min - 1,  *)
(* min, max, max + 1 for kx; 5000 (Scenario D) and max + 1 for            *)
(* ds_tbt_thres; max and max + 1 for sw.  A gain half takes 0 (refused),  *)
(* 1 and the largest half.  A gain half here has 16 values instead of     *)
(* 2^16 so that a packed gain stays within TLC's integers; the check of   *)
(* both halves is the same.                                               *)
(***************************************************************************)
EXTENDS HalcsParam

MCFields == {"kx", "ds_tbt_thres", "sw", "gain_a"}
MCArgs == [kx |-> {0, 1, 2^25 - 1, 2^25}, ds_tbt_thres |-> {5000, 2^26},
           sw |-> {3, 4}]
MCGainHalf == 16
MCGainArgs == {0, 1, 15}
\* The fields' power-on values: kx and the gain at their minimum.
MCReset == [kx |-> 1, ds_tbt_thres |-> 0, sw |-> 0, gain_a |-> 17]
\* Two values the uninitialised local of halcs_get_gain_* may hold.
MCUninit == {0, 200}
=============================================================================
