---------------------------- MODULE MCDriveSync ----------------------------
(* Values for the constants of DriveSync. *)
EXTENDS DriveSync, TLC

CONSTANTS f1, c1, c2

Included == [f \in Files |-> "include"]

Interchangeable == Permutations(Calls)
=============================================================================
