--------------------------- MODULE MC_HalcsRegistry ---------------------------
(***************************************************************************)
(* Registries of up to three tables of up to two operations over three     *)
(* names: enough for a name in no table, in one, and in two tables, at    *)
(* every position of either.                                              *)
(***************************************************************************)
EXTENDS HalcsRegistry

MCNames == {"kx", "sw", "gain_a"}
=============================================================================
