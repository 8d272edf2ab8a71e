--------------------------- MODULE MCWriteBridge ---------------------------
(***************************************************************************)
(* Instances of WriteBridge for TLC.                                       *)
(***************************************************************************)
EXTENDS WriteBridge, TLC

\* All connections belong to one device.
OneDevice == [p \in Peers |-> CHOOSE d \in Devices : TRUE]

\* Connections of one device are interchangeable.
Symmetry == Permutations(Peers)
=============================================================================
