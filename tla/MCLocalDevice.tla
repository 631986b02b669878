--------------------------- MODULE MCLocalDevice ---------------------------
(* Values of the constants of LocalDevice for TLC.                         *)
EXTENDS LocalDevice, TLC

MCSymmetry == Permutations(Processes) \cup Permutations(DeviceIds)
=============================================================================
