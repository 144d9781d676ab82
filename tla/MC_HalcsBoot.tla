----------------------------- MODULE MC_HalcsBoot -----------------------------
(***************************************************************************)
(* The FMC250M_4CH defaults with one external reader.                      *)
(***************************************************************************)
EXTENDS HalcsBoot
=============================================================================
