---------------------------- MODULE FileTransfer ----------------------------
(***************************************************************************)
(* What one attempt to upload a file promises to the page that started it. *)
(*                                                                         *)
(* The verdict is what the page is told: "ok", "fail" (do not try again)   *)
(* or "retry".  The file is stored once at most, and never in part; after  *)
(* "ok" it is there, after "fail" it is not and never will be; after       *)
(* "retry" nothing is known, and the NAS may still store it.               *)
(***************************************************************************)
VARIABLES
    copy,     \* "none", "whole" or "part": what the NAS has of this attempt
    verdict   \* "open" until the handler's answer is decided

transfer == <<copy, verdict>>

Init == copy = "none" /\ verdict = "open"

\* The NAS puts the file in its place.
Store ==
    /\ copy = "none"
    /\ verdict \in {"open", "retry"}
    /\ copy' = "whole"
    /\ UNCHANGED verdict

\* The handler decides what to tell the page.
Tell ==
    /\ verdict = "open"
    /\ \/ verdict' = "ok" /\ copy = "whole"
       \/ verdict' = "fail" /\ copy = "none"
       \/ verdict' = "retry"
    /\ UNCHANGED copy

Next == Store \/ Tell

Spec == Init /\ [][Next]_transfer
=============================================================================
