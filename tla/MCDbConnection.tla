--------------------------- MODULE MCDbConnection ---------------------------
(***************************************************************************)
(* DbConnection for TLC.                                                   *)
(***************************************************************************)
EXTENDS DbConnection, TLC

\* Run ids are only ever compared for equality.
Symmetry == Permutations(Runs)
=============================================================================
