---------------------------- MODULE DriveUpload ----------------------------
(***************************************************************************)
(* Uploading to a Drive file request: the page (drive/templates/upload.    *)
(* html), the three proxy handlers behind it (drive/handler.go) and what   *)
(* they do to the NAS (drive/syno.go).                                     *)
(*                                                                         *)
(* One page is open.  Each click on Upload starts a batch: init creates    *)
(* the uploader's folder and returns a token for it signed with a key the  *)
(* process made at start, then the batch's files are sent one by one, then *)
(* the owner is notified.  A batch has at most one request outstanding, so *)
(* call[b] says where that request is: at the proxy ("sent" to "reserved") *)
(* or answered (Replies) and not yet seen by the page.                     *)
(*                                                                         *)
(* The user may click, add and remove whenever the page lets them; NAS     *)
(* calls fail before or after taking effect; connections break; the proxy  *)
(* restarts.                                                               *)
(***************************************************************************)
EXTENDS EntryList

CONSTANTS
    Files,        \* the entries a user may add to the list, each once
    MaxBatches,   \* bound: clicks on Upload
    MaxRestarts,  \* bound: restarts of the proxy
    Protected     \* the share has a password

ASSUME BoundsNatural == MaxBatches \in Nat \ {0} /\ MaxRestarts \in Nat
ASSUME ProtectedBoolean == Protected \in BOOLEAN

Batches == 1 .. MaxBatches

\* What a fetch resolves to: success, {"retryable": true}, another error of
\* the handler, the folder-token 403, a refusal of the middleware, whose body
\* has no "retryable", or a broken connection (the promise rejects).
Replies == {"ok", "retry", "fail", "forbidden", "refused", "lost"}

VARIABLES
    (* the page *)
    unlocked,     \* the upload section is shown
    files,        \* the files array, in the order the user added them
    status,       \* status[f]: the class of the entry's status element
    enabled,      \* ~uploadBtn.disabled
    banner,       \* the done banner is shown
    stage,        \* stage[b]: "new", "init", "file", "notify" or "over"
    items,        \* items[b]: the entries the batch was started with
    idx,          \* idx[b]: index of the entry being sent
    uploaded,     \* uploaded[b]: names it will report to the owner
    allDone,      \* allDone[b]: no entry had failed when the batch ended
    (* requests in flight *)
    call,         \* call[b]: where the outstanding request of b is
    token,        \* token[b]: [folder, epoch] of the reply to init
    (* the proxy *)
    epoch,        \* which folderTokenKey the running process has
    (* the browser's cookie and the NAS *)
    cookie,       \* the browser holds the upload session cookie
    session,      \* the NAS still honours the token in it
    folders,      \* number of folders created
    stored,       \* stored[f]: the folders copies of f were put in
    notices,      \* owner notifications: [batch, folder, names]
    (* history *)
    unsure,       \* files stored by an attempt the page was not told about
    parallel      \* a batch was started while another was running

page == <<unlocked, files, status, enabled, banner, stage, items, idx,
          uploaded, allDone>>
nas  == <<folders, stored, notices, unsure>>
vars == <<page, call, token, epoch, cookie, session, nas, parallel>>

Statuses == {"absent", "pending", "uploading", "done", "retryable", "error"}
NoToken == [folder |-> 0, epoch |-> 0]

TypeOK ==
    /\ unlocked \in BOOLEAN /\ enabled \in BOOLEAN /\ banner \in BOOLEAN
    /\ files \in Seq(Files)
    /\ status \in [Files -> Statuses]
    /\ stage \in [Batches -> {"new", "init", "file", "notify", "over"}]
    /\ items \in [Batches -> Seq(Files)]
    /\ idx \in [Batches -> Nat]
    /\ uploaded \in [Batches -> Seq(Files)]
    /\ allDone \in [Batches -> BOOLEAN]
    /\ call \in [Batches -> {"idle", "sent", "landed", "verified", "reserved"}
                              \cup Replies]
    /\ token \in [Batches -> [folder : Nat, epoch : Nat]]
    /\ epoch \in Nat
    /\ cookie \in BOOLEAN /\ session \in BOOLEAN
    /\ folders \in Nat
    /\ stored \in [Files -> Seq(Nat)]
    /\ notices \subseteq [batch : Batches, folder : Nat, names : Seq(Files)]
    /\ unsure \subseteq Files /\ parallel \in BOOLEAN

\* The page as RequestPage renders it: a locked share gets no cookie and
\* hides the upload section.
Init ==
    /\ unlocked = ~Protected
    /\ cookie = ~Protected
    /\ session = TRUE
    /\ files = <<>> /\ status = [f \in Files |-> "absent"]
    /\ enabled = FALSE /\ banner = FALSE
    /\ stage = [b \in Batches |-> "new"]
    /\ items = [b \in Batches |-> <<>>]
    /\ idx = [b \in Batches |-> 0]
    /\ uploaded = [b \in Batches |-> <<>>]
    /\ allDone = [b \in Batches |-> FALSE]
    /\ call = [b \in Batches |-> "idle"]
    /\ token = [b \in Batches |-> NoToken]
    /\ epoch = 0
    /\ folders = 0 /\ stored = [f \in Files |-> <<>>]
    /\ notices = {} /\ unsure = {} /\ parallel = FALSE

Current(b) == items[b][idx[b]]

-----------------------------------------------------------------------------
(* The user                                                                *)

\* doUnlock: a wrong password or a failure leaves the page as it is; success
\* sets the cookie and shows the upload section.
Unlock ==
    /\ ~unlocked
    /\ unlocked' = TRUE
    /\ cookie' = TRUE
    /\ UNCHANGED <<files, status, enabled, banner, stage, items, idx,
                   uploaded, allDone, call, token, epoch, session, nas, parallel>>

\* addFiles ends in updateUploadBtn, whatever batch is running.
AddFile(f) ==
    /\ unlocked
    /\ status[f] = "absent"
    /\ files' = Append(files, f)
    /\ status' = [status EXCEPT ![f] = "pending"]
    /\ enabled' = TRUE
    /\ UNCHANGED <<unlocked, banner, stage, items, idx, uploaded, allDone,
                   call, token, epoch, cookie, session, nas, parallel>>

\* The entry's remove button: the entry leaves the array, not the batches.
RemoveFile(f) ==
    /\ \E i \in DOMAIN files :
          files[i] = f /\ files' = EntriesAt(files, DOMAIN files \ {i})
    /\ enabled' = (files' # <<>>)
    /\ UNCHANGED <<unlocked, status, banner, stage, items, idx, uploaded,
                   allDone, call, token, epoch, cookie, session, nas, parallel>>

\* Mutated form: every entry that did not fail for good, the done ones too.
PendingEntries_WithDone ==
    EntriesAt(files, {i \in DOMAIN files : status[files[i]] # "error"})

\* The entries a click sends.
PendingEntries ==
    EntriesAt(files,
        {i \in DOMAIN files : status[files[i]] \in {"pending", "retryable"}})

\* The click handler: lock the button, take the entries to send, post init.
ClickUpload(b) ==
    /\ unlocked /\ enabled
    /\ stage[b] = "new"
    /\ \A c \in Batches : c < b => stage[c] # "new"
    /\ enabled' = FALSE
    /\ banner' = FALSE
    /\ items' = [items EXCEPT ![b] = PendingEntries]
    /\ stage' = [stage EXCEPT ![b] = "init"]
    /\ call' = [call EXCEPT ![b] = "sent"]
    /\ parallel' = (parallel \/ \E c \in Batches : stage[c] \notin {"new", "over"})
    /\ UNCHANGED <<unlocked, files, status, idx, uploaded, allDone,
                   token, epoch, cookie, session, nas>>

-----------------------------------------------------------------------------
(* The proxy's handlers                                                    *)

At(b, s, where) == stage[b] = s /\ call[b] = where

Becomes(b, where) ==
    /\ call' = [call EXCEPT ![b] = where]
    /\ UNCHANGED <<page, epoch, cookie, session, parallel>>

\* A step of the handler for b that leaves the NAS and the token alone.
Goes(b, where) == Becomes(b, where) /\ UNCHANGED <<token, nas>>

\* The rate limiter or the concurrency limit answers 429 or 503.
Refuse(b) == call[b] = "sent" /\ Goes(b, "refused")

\* APIUploadInit up to FetchRequestLanding, which reads the target folder.
InitLanding(b) ==
    /\ At(b, "init", "sent")
    /\ \/ cookie /\ Goes(b, "landed")
       \/ Goes(b, "fail")

\* The NAS makes a new folder whatever the name; init's reply carries the id.
CreateFolder(b) ==
    /\ folders' = folders + 1
    /\ token' = [token EXCEPT ![b] = [folder |-> folders', epoch |-> epoch]]
    /\ UNCHANGED <<stored, notices, unsure>>

\* CreateUploadFolder, then signFolderToken with the key of this process.
\* A failure may come before or after the NAS created the folder.
InitCreate(b) ==
    /\ At(b, "init", "landed")
    /\ \/ session /\ CreateFolder(b) /\ Becomes(b, "ok")
       \/ session /\ CreateFolder(b) /\ Becomes(b, "fail")
       \/ Goes(b, "fail")

\* APIUploadFile and APIUploadNotify up to verifyFolderToken: without a
\* cookie, or with a body over its cap (64 KB of names), they fail.
VerifyToken(b) ==
    /\ stage[b] \in {"file", "notify"} /\ call[b] = "sent"
    /\ \/ Goes(b, "fail")
       \/ cookie /\ token[b].epoch # epoch /\ Goes(b, "forbidden")
       \/ cookie /\ token[b].epoch = epoch /\ Goes(b, "verified")

\* The empty first request of the slice protocol.
FileReserve(b) ==
    /\ At(b, "file", "verified")
    /\ \/ session /\ Goes(b, "reserved")
       \/ Goes(b, "retry") \/ Goes(b, "fail")

StoreCopy(b) ==
    /\ stored' = [stored EXCEPT ![Current(b)] = Append(@, token[b].folder)]
    /\ UNCHANGED <<folders, notices, token>>

\* The second request carries the bytes; autorename makes every one that is
\* accepted a new copy.  isRetryableUploadError: only an error the NAS
\* reported itself, or a file over the size limit, is final.
FileFinalize(b) ==
    /\ At(b, "file", "reserved")
    /\ \/ session /\ StoreCopy(b) /\ Becomes(b, "ok") /\ UNCHANGED unsure
       \/ session /\ StoreCopy(b) /\ Becomes(b, "retry")
             /\ unsure' = unsure \cup {Current(b)}
       \/ Goes(b, "retry") \/ Goes(b, "fail")

SendNotice(b) ==
    /\ notices' = notices \cup
          {[batch |-> b, folder |-> token[b].folder, names |-> uploaded[b]]}
    /\ UNCHANGED <<folders, stored, unsure, token>>

\* NotifyUploadRequest.
Notify(b) ==
    /\ At(b, "notify", "verified")
    /\ \/ session /\ SendNotice(b) /\ (Becomes(b, "ok") \/ Becomes(b, "fail"))
       \/ Goes(b, "fail")

ServerStep(b) ==
    InitLanding(b) \/ InitCreate(b) \/ VerifyToken(b) \/ FileReserve(b)
        \/ FileFinalize(b) \/ Notify(b)

-----------------------------------------------------------------------------
(* The environment                                                         *)

\* The connection breaks: the fetch rejects.  The NAS call in progress, if
\* any, has or has not taken effect; an answer on its way is lost.
Disconnect(b) ==
    /\ call[b] \notin {"idle", "lost"}
    /\ Becomes(b, "lost")
    /\ \/ /\ At(b, "init", "landed") /\ session
          /\ CreateFolder(b)
       \/ /\ At(b, "file", "reserved") /\ session
          /\ StoreCopy(b)
          /\ unsure' = unsure \cup {Current(b)}
       \/ /\ At(b, "notify", "verified") /\ session
          /\ SendNotice(b)
       \/ /\ unsure' = IF At(b, "file", "ok") THEN unsure \cup {Current(b)}
                                              ELSE unsure
          /\ UNCHANGED <<token, folders, stored, notices>>

\* http.TimeoutHandler, on the init and notify routes: 45 s are over, the
\* page gets a 503; the handler's NAS call has or has not taken effect.
HandlerTimeout(b) ==
    /\ stage[b] \in {"init", "notify"}
    /\ call[b] \in {"sent", "landed", "verified"}
    /\ Becomes(b, "fail")
    /\ \/ At(b, "init", "landed") /\ session /\ CreateFolder(b)
       \/ At(b, "notify", "verified") /\ session /\ SendNotice(b)
       \/ UNCHANGED <<token, nas>>

\* The process restarts: a new signing key; requests still being handled
\* break (a NAS call that took effect first: Disconnect, then this), answers
\* already given arrive.
Restart ==
    /\ epoch < MaxRestarts
    /\ epoch' = epoch + 1
    /\ call' = [b \in Batches |-> IF call[b] \in Replies \cup {"idle"}
                                  THEN call[b] ELSE "lost"]
    /\ UNCHANGED <<page, token, cookie, session, nas, parallel>>

\* The NAS expires the session; the cookie, which was given the lifetime of
\* the NAS's own, may be gone too.
SessionExpires ==
    /\ session
    /\ session' = FALSE
    /\ cookie' \in {cookie, FALSE}
    /\ UNCHANGED <<page, call, token, epoch, nas, parallel>>

-----------------------------------------------------------------------------
(* The page's continuations                                                *)

\* Mutated form: retryable entries do not count as failed.
NoneFailed_ErrorsOnly(st) == ~\E f \in Elements(files) : st[f] = "error"

\* ~hasError: what the list shows, also of entries of other batches.
NoneFailed(st) ==
    ~\E f \in Elements(files) : st[f] \in {"error", "retryable"}

\* uploadSequential(items, name, folderId, uploaded, i), entered with the
\* statuses st: send entry i, or finish the batch.
UploadSequential(b, i, st, up) ==
    /\ idx' = [idx EXCEPT ![b] = i]
    /\ uploaded' = [uploaded EXCEPT ![b] = up]
    /\ \/ /\ i <= Len(items[b])
          /\ status' = [st EXCEPT ![items[b][i]] = "uploading"]
          /\ stage' = [stage EXCEPT ![b] = "file"]
          /\ call' = [call EXCEPT ![b] = "sent"]
          /\ UNCHANGED <<enabled, allDone>>
       \/ /\ i > Len(items[b])
          /\ status' = st
          /\ enabled' = TRUE
          /\ allDone' = [allDone EXCEPT ![b] = NoneFailed(st)]
          /\ stage' = [stage EXCEPT ![b] = IF up = <<>> THEN "over" ELSE "notify"]
          /\ call' = [call EXCEPT ![b] = IF up = <<>> THEN "idle" ELSE "sent"]
    /\ UNCHANGED <<unlocked, files, banner, items, token, epoch, cookie,
                   session, nas, parallel>>

\* Mutated form: no catch, a rejected fetch is ignored.
Answered_NoCatch(b, s) == stage[b] = s /\ call[b] \in Replies \ {"lost"}

\* The fetch of b has settled: then or catch runs.
Answered(b, s) == stage[b] = s /\ call[b] \in Replies

\* init answered: start sending, or show the error and give up the batch.
InitAnswered(b) ==
    /\ Answered(b, "init")
    /\ \/ /\ call[b] = "ok"
          /\ UploadSequential(b, 1, status, <<>>)
       \/ /\ call[b] # "ok"
          /\ enabled' = TRUE
          /\ stage' = [stage EXCEPT ![b] = "over"]
          /\ call' = [call EXCEPT ![b] = "idle"]
          /\ UNCHANGED <<unlocked, files, status, banner, items, idx,
                         uploaded, allDone, token, epoch, cookie, session, nas,
                         parallel>>

\* Mutated form: a broken connection taken for success.
NewStatus_Optimistic(reply) ==
    CASE reply \in {"ok", "lost"} -> "done"
      [] reply = "retry" -> "retryable"
      [] OTHER -> "error"

\* What the page makes of the reply to a file.
NewStatus(reply) ==
    CASE reply = "ok" -> "done"
      [] reply \in {"retry", "lost"} -> "retryable"
      [] OTHER -> "error"

\* Mutated forms: every entry counts; a failure forgets the ones before it.
NewUploaded_All(b) == Append(uploaded[b], Current(b))
NewUploaded_Reset(b) ==
    IF call[b] = "ok" THEN Append(uploaded[b], Current(b)) ELSE <<>>

\* The names to report once the reply to the current entry is in.
NewUploaded(b) ==
    IF call[b] = "ok" THEN Append(uploaded[b], Current(b)) ELSE uploaded[b]

\* Mutated form: a retryable entry is sent again at once.
FileAnswered_InPlace(b) ==
    /\ Answered(b, "file")
    /\ UploadSequential(b,
          IF NewStatus(call[b]) = "retryable" THEN idx[b] ELSE idx[b] + 1,
          [status EXCEPT ![Current(b)] = NewStatus(call[b])], NewUploaded(b))

FileAnswered(b) ==
    /\ Answered(b, "file")
    /\ UploadSequential(b, idx[b] + 1,
          [status EXCEPT ![Current(b)] = NewStatus(call[b])], NewUploaded(b))

\* notify answered: whatever the answer, the banner goes up if all succeeded.
NotifyAnswered(b) ==
    /\ Answered(b, "notify")
    /\ banner' = (banner \/ allDone[b])
    /\ stage' = [stage EXCEPT ![b] = "over"]
    /\ call' = [call EXCEPT ![b] = "idle"]
    /\ UNCHANGED <<unlocked, files, status, enabled, items, idx, uploaded,
                   allDone, token, epoch, cookie, session, nas, parallel>>

PageStep(b) == InitAnswered(b) \/ FileAnswered(b) \/ NotifyAnswered(b)

Next ==
    \/ Unlock
    \/ \E f \in Files : AddFile(f) \/ RemoveFile(f)
    \/ \E b \in Batches :
          \/ ClickUpload(b) \/ Refuse(b) \/ ServerStep(b) \/ PageStep(b)
          \/ Disconnect(b) \/ HandlerTimeout(b)
    \/ Restart \/ SessionExpires

Spec == Init /\ [][Next]_vars

\* Handlers run, the NAS answers or its connection breaks, and the browser
\* runs the continuations of its fetches.  Nothing is assumed of the user.
Fairness == \A b \in Batches : WF_vars(ServerStep(b)) /\ WF_vars(PageStep(b))

FairSpec == Spec /\ Fairness

-----------------------------------------------------------------------------
(* Properties                                                              *)

Running(b) == stage[b] \notin {"new", "over"}

\* An entry shown as done is on the NAS: no order of replies, retries,
\* restarts and overlapping batches marks an entry whose bytes did not arrive.
DoneIsStored == \A f \in Files : status[f] = "done" => stored[f] # <<>>

\* Autorename makes every accepted finalize request a new file.  A second
\* copy appears only when the answer to the first was lost, or when two
\* batches ran at once.
NoNeedlessCopy ==
    \A f \in Files : Len(stored[f]) > 1 => f \in unsure \/ parallel

\* The owner is told only of files that are in the folder named to the owner,
\* also when the proxy was restarted between the files and the notification.
NoticeIsTrue ==
    \A n \in notices : \A f \in Elements(n.names) :
        n.folder \in Elements(stored[f])

\* "any one-time setup step (like creating a per-uploader destination) must
\* happen exactly once per batch, not once per file" (doc/spec.md:211-213).
\* A batch, that is a click, makes one folder at most and shares it with no
\* other batch.  Every copy on the NAS lies in the folder of a batch that was
\* started with the file; what a batch counts as uploaded is in its folder;
\* and no folder gets a file twice, whatever answers were lost.
OneFolderPerBatch ==
    /\ folders <= Cardinality({b \in Batches : stage[b] # "new"})
    /\ \A b, c \in Batches :
          (b # c /\ token[b] # NoToken) => token[b].folder # token[c].folder
    /\ \A f \in Files : \A d \in Elements(stored[f]) : \E b \in Batches :
          token[b].folder = d /\ f \in Elements(items[b])
    /\ \A b \in Batches : \A f \in Elements(uploaded[b]) :
          token[b].folder \in Elements(stored[f])
    /\ \A f \in Files : Distinct(stored[f])

\* "re-running init on retry would create "name (1)", "name (2)" siblings
\* instead of reusing it" (upload.html:436-437): when a later click sends an
\* entry again, it goes to the folder of the batch that sent it first.  The
\* user of the model does not edit the name between the two clicks.
RetryReusesFolder ==
    \A b, c \in Batches :
        /\ ~parallel /\ idx[b] > 0 /\ idx[c] > 0
        /\ Elements(items[b]) \cap Elements(items[c]) # {}
        => token[b].folder = token[c].folder

\* With one batch at a time the done banner goes up only when no entry of the
\* list has failed or is being sent.
BannerIsEarned ==
    [][(~banner /\ banner' /\ ~parallel) =>
          \A f \in Elements(files) : status[f] \in {"done", "pending"}]_vars

\* Every batch comes to its end.
BatchEnds == \A b \in Batches : stage[b] = "init" ~> stage[b] = "over"

\* If every notification the page asks for succeeds, the owner is told of each
\* file that was shown as done, whatever happens to the others of its batch,
\* to the list and to the proxy.  Nothing more: NotifyAnswered does not look
\* at the answer, so a notification that fails is neither shown nor repeated.
DoneIsReported ==
    [](\A b \in Batches : Answered(b, "notify") => call[b] = "ok") =>
        \A f \in Files :
            status[f] = "done" ~> \E n \in notices : f \in Elements(n.names)
=============================================================================
