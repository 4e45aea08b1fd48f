-------------------------- MODULE MCAttributeLists --------------------------
(***************************************************************************)
(* An instance of AttributeLists in which the names of lists do not        *)
(* matter.                                                                 *)
(***************************************************************************)
EXTENDS AttributeLists, TLC

MCTypes == {"int32", "Float"}
ListSymmetry == Permutations(Lists)
=============================================================================
