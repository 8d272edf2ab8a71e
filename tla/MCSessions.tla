----------------------------- MODULE MCSessions -----------------------------
(***************************************************************************)
(* Instances of Sessions for TLC.                                          *)
(***************************************************************************)
EXTENDS Sessions, TLC

\* Device ids are random and only ever compared for equality.
Symmetry == Permutations(Devices)
=============================================================================
