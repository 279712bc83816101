----------------------------- MODULE MCCollabSync -----------------------------
(* Small instances of CollabSync. *)
EXTENDS CollabSyncInvariants, TLC

DeviceSymmetry == Permutations(Device)
================================================================================
