--------------------------- MODULE MCStreamAudit ---------------------------
(***************************************************************************)
(* StreamAudit for TLC: every stream belongs to one device.                *)
(***************************************************************************)
EXTENDS StreamAudit, TLC

OneDevice == [k \in Streams |-> "d1"]

Symmetry == Permutations(Streams)
=============================================================================
