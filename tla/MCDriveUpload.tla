--------------------------- MODULE MCDriveUpload ---------------------------
(* Instances of the Drive upload page small enough for TLC.                *)
EXTENDS DriveUpload, TLC

Symmetry == Permutations(Files)
=============================================================================
