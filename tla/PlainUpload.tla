---------------------------- MODULE PlainUpload ----------------------------
(***************************************************************************)
(* The upload pages of a File Station share (sharing/templates/            *)
(* upload.html) and of a Photos request (photo/templates/upload.html),     *)
(* which run the same uploader, and the APIUpload handlers behind them     *)
(* (sharing/handler.go, photo/handler.go).                                 *)
(*                                                                         *)
(* Each click on Upload starts a batch, which sends its entries one by     *)
(* one.  The i-th entry of batch b is attempt <<b, i>>: copy[b][i] is what *)
(* the NAS has of it, shown[b][i] what the page has made of the answer.    *)
(* How one attempt moves the bytes: module UploadPipe.                     *)
(***************************************************************************)
EXTENDS EntryList

CONSTANTS
    Files,       \* the entries a user may add to the list, each once
    MaxBatches   \* bound: clicks on Upload

ASSUME BatchesPositive == MaxBatches \in Nat \ {0}
ASSUME FilesFinite == IsFiniteSet(Files)

Batches == 1 .. MaxBatches

VARIABLES
    service,     \* "sharing" or "photo"
    unlocked,    \* the upload section is shown
    files,       \* the files array, in the order the user added them
    status,      \* status[f]: the class of the entry's status element
    enabled,     \* ~uploadBtn.disabled
    banner,      \* the done banner is shown
    stage,       \* stage[b]: "new", "sending" or "over"
    items,       \* items[b]: the entries the batch was started with
    shown,       \* shown[b]: the classes given to the entries sent so far
    call,        \* call[b]: where the outstanding request of b is
    copy,        \* copy[b][i]: "none", "stored", or "late": the NAS has the
                 \* bytes of an abandoned attempt and may yet store them
    parallel     \* history: a batch was started while another was running

page == <<service, unlocked, files, status, enabled, banner, stage, items,
          shown, parallel>>
vars == <<page, call, copy>>

Replies == {"ok", "retry", "fail", "refused", "lost"}
Classes == {"done", "retryable", "error"}

TypeOK ==
    /\ service \in {"sharing", "photo"}
    /\ unlocked \in BOOLEAN /\ enabled \in BOOLEAN /\ banner \in BOOLEAN
    /\ files \in Seq(Files)
    /\ status \in [Files -> Classes \cup {"absent", "pending", "uploading"}]
    /\ stage \in [Batches -> {"new", "sending", "over"}]
    /\ items \in [Batches -> Seq(Files)]
    /\ shown \in [Batches -> Seq(Classes)]
    /\ call \in [Batches -> {"idle", "sent", "checking", "transfer"} \cup Replies]
    /\ copy \in [Batches -> Seq({"none", "late", "stored"})]
    /\ parallel \in BOOLEAN

\* Browse and RequestPage: only a File Station share can be locked.
Init ==
    /\ service \in {"sharing", "photo"}
    /\ unlocked \in {TRUE, service = "photo"}
    /\ files = <<>> /\ status = [f \in Files |-> "absent"]
    /\ enabled = FALSE /\ banner = FALSE
    /\ stage = [b \in Batches |-> "new"]
    /\ items = [b \in Batches |-> <<>>]
    /\ shown = [b \in Batches |-> <<>>]
    /\ call = [b \in Batches |-> "idle"]
    /\ copy = [b \in Batches |-> <<>>]
    /\ parallel = FALSE

Index(b) == Len(shown[b]) + 1
Current(b) == items[b][Index(b)]

-----------------------------------------------------------------------------
(* The user                                                                *)

\* doUnlock: success shows the upload section, anything else changes nothing.
Unlock ==
    /\ ~unlocked
    /\ unlocked' = TRUE
    /\ UNCHANGED <<service, files, status, enabled, banner, stage, items,
                   shown, parallel, call, copy>>

\* addFiles ends in updateUploadBtn, whatever batch is running.
AddFile(f) ==
    /\ unlocked
    /\ status[f] = "absent"
    /\ files' = Append(files, f)
    /\ status' = [status EXCEPT ![f] = "pending"]
    /\ enabled' = TRUE
    /\ UNCHANGED <<service, unlocked, banner, stage, items, shown, parallel,
                   call, copy>>

\* The remove button: the entry leaves the array, not the batches.
RemoveFile(f) ==
    /\ \E i \in DOMAIN files :
          files[i] = f /\ files' = EntriesAt(files, DOMAIN files \ {i})
    /\ enabled' = (files' # <<>>)
    /\ UNCHANGED <<service, unlocked, status, banner, stage, items, shown,
                   parallel, call, copy>>

\* Mutated form: every entry that did not fail for good, the done ones too.
PendingEntries_WithDone ==
    EntriesAt(files, {i \in DOMAIN files : status[files[i]] # "error"})

\* The entries a click sends.
PendingEntries ==
    EntriesAt(files,
        {i \in DOMAIN files : status[files[i]] \in {"pending", "retryable"}})

\* Mutated form: an entry for another try does not count as failed.
NoneFailed_ErrorsOnly(st) == ~\E f \in Elements(files) : st[f] = "error"

\* ~hasError: what the list shows, also of entries of other batches.
NoneFailed(st) ==
    ~\E f \in Elements(files) : st[f] \in {"error", "retryable"}

\* uploadSequential(its, name, i), with the statuses st and the banner ban:
\* send entry i, or finish the batch.
UploadSequential(b, its, i, st, ban) ==
    \/ /\ i <= Len(its)
       /\ status' = [st EXCEPT ![its[i]] = "uploading"]
       /\ stage' = [stage EXCEPT ![b] = "sending"]
       /\ call' = [call EXCEPT ![b] = "sent"]
       /\ copy' = [copy EXCEPT ![b] = Append(@, "none")]
       /\ banner' = ban
       /\ enabled' = IF i = 1 THEN FALSE ELSE enabled
    \/ /\ i > Len(its)
       /\ status' = st
       /\ stage' = [stage EXCEPT ![b] = "over"]
       /\ call' = [call EXCEPT ![b] = "idle"]
       /\ banner' = (ban \/ NoneFailed(st))
       /\ enabled' = TRUE
       /\ UNCHANGED copy

\* The click handler: lock the button, hide the banner, send what is pending.
ClickUpload(b) ==
    /\ unlocked /\ enabled
    /\ stage[b] = "new"
    /\ \A c \in Batches : c < b => stage[c] # "new"
    /\ items' = [items EXCEPT ![b] = PendingEntries]
    /\ parallel' = (parallel \/ \E c \in Batches : stage[c] = "sending")
    /\ UploadSequential(b, PendingEntries, 1, status, FALSE)
    /\ UNCHANGED <<service, unlocked, files, shown>>

-----------------------------------------------------------------------------
(* The proxy and the NAS                                                   *)

Becomes(b, where) ==
    /\ call' = [call EXCEPT ![b] = where]
    /\ UNCHANGED page

\* The current attempt of b has not landed; its bytes may be under way.
MayBeLate(b) ==
    copy' \in {copy, [copy EXCEPT ![b][Index(b)] = "late"]}

\* The rate limiter or the concurrency limit answers 429 or 503.
Refuse(b) == call[b] = "sent" /\ Becomes(b, "refused") /\ UNCHANGED copy

\* APIUpload up to its first NAS call: cookie, size limit, form fields.  A
\* File Station share is asked for permission first.
ReadSharingForm(b) ==
    /\ service = "sharing" /\ call[b] = "sent"
    /\ Becomes(b, "checking") \/ Becomes(b, "fail")
    /\ UNCHANGED copy

ReadPhotoForm(b) ==
    /\ service = "photo" /\ call[b] = "sent"
    /\ Becomes(b, "transfer") \/ Becomes(b, "fail")
    /\ UNCHANGED copy

\* CheckUploadPermission: not allowed, or no answer in 15 s.
CheckPermission(b) ==
    /\ call[b] = "checking"
    /\ Becomes(b, "transfer") \/ Becomes(b, "fail") \/ Becomes(b, "retry")
    /\ UNCHANGED copy

\* The NAS has all bytes of the running attempt and stores the file.
Land(b) ==
    /\ call[b] = "transfer"
    /\ copy[b][Index(b)] = "none"
    /\ copy' = [copy EXCEPT ![b][Index(b)] = "stored"]
    /\ UNCHANGED <<page, call>>

\* UploadFile or UploadPhotoRequestItem returns (see UploadPipe).
Tell(b) ==
    /\ call[b] = "transfer"
    /\ \/ copy[b][Index(b)] = "stored" /\ UNCHANGED copy
             /\ (Becomes(b, "ok") \/ Becomes(b, "retry"))
       \/ copy[b][Index(b)] = "none" /\ UNCHANGED copy /\ Becomes(b, "fail")
       \/ copy[b][Index(b)] = "none" /\ MayBeLate(b) /\ Becomes(b, "retry")

\* The NAS stores a file nobody waits for any more.
LateStore(b) ==
    /\ \E i \in DOMAIN copy[b] :
          copy[b][i] = "late" /\ copy' = [copy EXCEPT ![b][i] = "stored"]
    /\ UNCHANGED <<page, call>>

\* The connection breaks or the proxy restarts: the fetch rejects.  The
\* handler may go on with a body it has already got.
Disconnect(b) ==
    /\ call[b] \notin {"idle", "lost"}
    /\ Becomes(b, "lost")
    /\ \/ /\ call[b] \in {"sent", "checking", "transfer"}
          /\ copy[b][Index(b)] = "none"
          /\ MayBeLate(b)
       \/ UNCHANGED copy

ServerStep(b) ==
    ReadSharingForm(b) \/ ReadPhotoForm(b) \/ CheckPermission(b) \/ Tell(b)

-----------------------------------------------------------------------------
(* The page's continuation                                                 *)

\* Mutated form: a broken connection is an error like any other.
NewStatus_LostIsError(reply) ==
    CASE reply = "ok" -> "done"
      [] reply = "retry" -> "retryable"
      [] OTHER -> "error"

\* What the page makes of the answer; a refusal has no "retryable".
NewStatus(reply) ==
    CASE reply = "ok" -> "done"
      [] reply \in {"retry", "lost"} -> "retryable"
      [] OTHER -> "error"

\* Mutated form: no catch, a rejected fetch is ignored.
Answered_NoCatch(b) == call[b] \in Replies \ {"lost"}

\* The fetch has settled: then or catch runs.
Answered(b) == call[b] \in Replies

FileAnswered(b) ==
    /\ Answered(b)
    /\ LET class == NewStatus(call[b]) IN
          /\ shown' = [shown EXCEPT ![b] = Append(@, class)]
          /\ UploadSequential(b, items[b], Index(b) + 1,
                [status EXCEPT ![Current(b)] = class], banner)
    /\ UNCHANGED <<service, unlocked, files, items, parallel>>

Next ==
    \/ Unlock
    \/ \E f \in Files : AddFile(f) \/ RemoveFile(f)
    \/ \E b \in Batches :
          \/ ClickUpload(b) \/ Refuse(b) \/ ServerStep(b)
          \/ Land(b) \/ LateStore(b)
          \/ Disconnect(b) \/ FileAnswered(b)

Spec == Init /\ [][Next]_vars

\* Handlers end or their connection breaks, and the browser runs the
\* continuations of its fetches.  Nothing is assumed of the user.
Fairness ==
    \A b \in Batches : WF_vars(ServerStep(b)) /\ WF_vars(FileAnswered(b))

FairSpec == Spec /\ Fairness

-----------------------------------------------------------------------------
(* Properties                                                              *)

\* Attempt <<b, i>> as the promise sees it; what counts as the verdict is
\* what the page shows.
Copy(b, i) ==
    IF i \in DOMAIN copy[b] /\ copy[b][i] = "stored" THEN "whole" ELSE "none"
Means(class) ==
    CASE class = "done" -> "ok"
      [] class = "error" -> "fail"
      [] class = "retryable" -> "retry"
Verdict(b, i) ==
    IF i \in DOMAIN shown[b] THEN Means(shown[b][i]) ELSE "open"

Attempts == Batches \X (1 .. Cardinality(Files))

Seen(a) == <<Copy(a[1], a[2]), Verdict(a[1], a[2])>>

Promise(b, i) ==
    INSTANCE FileTransfer WITH copy <- Copy(b, i), verdict <- Verdict(b, i)

\* The class shown for each attempt keeps the promise of FileTransfer: a tick
\* is a stored file; a cross, which is not offered for another try, is a file
\* that is not there and that no late answer will put there.
ShownIsTrue ==
    /\ \A a \in Attempts : Promise(a[1], a[2])!Init
    /\ [][\A a \in Attempts : [Promise(a[1], a[2])!Next]_(Seen(a))]_vars

\* Unless two batches ran at once, an entry that was ticked is never sent
\* again: on a Photos request that would be a second item in the album.
DoneIsNotResent ==
    [][\A b \in Batches : (~parallel' /\ Len(copy'[b]) > Len(copy[b])) =>
          status[items'[b][Len(copy'[b])]] # "done"]_vars

\* With one batch at a time "All files uploaded successfully" is shown only
\* when every entry of the list is stored, or was added in the meantime.
BannerIsTrue ==
    [][(~banner /\ banner' /\ ~parallel') =>
          \A f \in Elements(files) :
             \/ status'[f] = "pending"
             \/ \E a \in Attempts :
                   /\ a[2] \in DOMAIN copy[a[1]]
                   /\ items[a[1]][a[2]] = f
                   /\ copy[a[1]][a[2]] = "stored"]_vars

\* Every batch comes to its end, and the button comes back.
BatchEnds ==
    \A b \in Batches :
        stage[b] = "sending" ~> (stage[b] = "over" /\ (enabled \/ files = <<>>))
=============================================================================
