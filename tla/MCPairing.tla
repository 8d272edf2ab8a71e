----------------------------- MODULE MCPairing -----------------------------
(***************************************************************************)
(* Instances of Pairing for TLC.                                           *)
(***************************************************************************)
EXTENDS Pairing, TLC

\* Pairing ids are random and only ever compared for equality.
Symmetry == Permutations(Pairings)
=============================================================================
