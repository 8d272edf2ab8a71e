---------------------------- MODULE MCDeviceSync ----------------------------
(***************************************************************************)
(* Instances of DeviceSync for TLC.                                        *)
(***************************************************************************)
EXTENDS DeviceSync, TLC

\* Device ids are random and only ever compared for equality.
Symmetry == Permutations(Devices)
=============================================================================
