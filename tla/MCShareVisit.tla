---------------------------- MODULE MCShareVisit ----------------------------
(* File sharing: an upload request behind a password and a folder.  Photos:  *)
(* an album and an upload request.  Drive: a folder behind a password.       *)
EXTENDS ShareVisit, TLC

CONSTANTS request, folder, album, photoRequest, drive

MCShares  == {request, folder, album, photoRequest, drive}
MCService == (request :> "sharing") @@ (folder :> "sharing")
             @@ (album :> "photo") @@ (photoRequest :> "photo")
             @@ (drive :> "drive")
MCKind    == (request :> "upload") @@ (folder :> "folder")
             @@ (album :> "gallery") @@ (photoRequest :> "upload")
             @@ (drive :> "folder")
MCLocked  == (request :> TRUE) @@ (folder :> FALSE)
             @@ (album :> FALSE) @@ (photoRequest :> FALSE)
             @@ (drive :> TRUE)

Symmetry == Permutations(Tabs)
=============================================================================
