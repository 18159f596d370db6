---------------------------- MODULE BrowsePages ----------------------------
(***************************************************************************)
(* A visitor with one page open, a folder page or a gallery, or with one   *)
(* download running.  The three share no state; what they have in common   *)
(* is that answers arrive late, in another order, or not at all.           *)
(***************************************************************************)
EXTENDS FolderPage, GalleryPage, Download

VARIABLE open   \* "folder", "gallery" or "download"

vars == <<open, folderVars, galleryVars, downloadVars>>

TypeOK ==
    /\ open \in {"folder", "gallery", "download"}
    /\ FolderTypeOK /\ GalleryTypeOK /\ DownloadTypeOK

NoFolderPage == ~started /\ kind = "sharing"
NoGallery    == ~shown /\ album = <<>>
NoDownload   == route = "file"

\* What is not open stays as it is.
Init ==
    /\ FolderInit /\ GalleryInit /\ DownloadInit
    /\ \/ open = "folder" /\ NoGallery /\ NoDownload
       \/ open = "gallery" /\ NoFolderPage /\ NoDownload
       \/ open = "download" /\ NoFolderPage /\ NoGallery

Next ==
    /\ \/ open = "folder" /\ FolderNext /\ UNCHANGED <<galleryVars, downloadVars>>
       \/ open = "gallery" /\ GalleryNext /\ UNCHANGED <<folderVars, downloadVars>>
       \/ open = "download" /\ DownloadNext /\ UNCHANGED <<folderVars, galleryVars>>
    /\ UNCHANGED open

Spec == Init /\ [][Next]_vars

Downloading(A) ==
    open = "download" /\ A /\ UNCHANGED <<folderVars, galleryVars, open>>

\* The pages: every fetch settles and its continuation runs.  A download: the
\* handler goes on whenever it can, timers fire and net/http notices a lost
\* connection.  Nothing is assumed of the NAS there: it may never answer, its
\* jobs may never end, its bodies may stall (so nothing is asked of Copy).
Fairness ==
    /\ WF_vars(open = "folder" /\ Arrival
                  /\ UNCHANGED <<galleryVars, downloadVars, open>>)
    /\ WF_vars(open = "gallery" /\ (\E i \in 1 .. 2 : Served(i))
                  /\ UNCHANGED <<folderVars, downloadVars, open>>)
    /\ WF_vars(Downloading(Refused \/ NextCall \/ Pause \/ PollAgain \/ StartCopy))
    /\ WF_vars(Downloading(Deadline))
    /\ WF_vars(Downloading(HandlerTimeout))
    /\ WF_vars(Downloading(Cancelled))

FairSpec == Spec /\ Fairness

\* No page says "Loading" for ever.
LoadingEnds ==
    /\ (started /\ table = "loading") ~> (table # "loading")
    /\ loading ~> ~loading

\* Whatever the NAS does, a download either comes to its fetch or is over,
\* and a thumbnail's is over: no chain of short calls, and no archive job,
\* holds it for ever.
PrepareEnds ==
    open = "download" ~> (at = "over" \/ (Call = "fetch" /\ route # "thumb"))
=============================================================================
