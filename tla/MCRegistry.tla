----------------------------- MODULE MCRegistry ------------------------------
(***************************************************************************)
(* Instances of Registry for TLC: a kind of definition with keys and one   *)
(* without share an id space of a few references.                          *)
(***************************************************************************)
EXTENDS Registry, TLC

CONSTANTS comm, inter, k1, k2

MCHolders == {comm, inter}
MCKeyed == {comm}
MCKeys == {k1, k2}
MCSymmetry == Permutations(MCKeys)
=============================================================================
