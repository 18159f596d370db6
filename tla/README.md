# SynologyShareGate in TLA+

Specifications of SynologyShareGate, the Go proxy that stands between anonymous
visitors and the share links of a Synology NAS. The modules are translated from
the source, checked with TLC on small instances, and the core results are proved
with TLAPS for every value of the constants.

    tlc -workers 2 -config RateLimiter.cfg MCRateLimiter.tla
    tlapm RateLimiter_proofs.tla

## 1. The system

A request passes the middleware chain (log, security headers, rate limit,
concurrency cap) and reaches a handler of one of three services. A handler asks
the NAS over one shared HTTP client and answers with a page, JSON or a stream.
The proxy keeps no sessions: the token the NAS issued lives in the browser's
`sid` cookie, one per path prefix. Most of the protocol logic of an upload is in
the JavaScript of the upload pages.

| component | state | operations | what makes it hard | what makes it correct |
|---|---|---|---|---|
| rate limiter (`middleware/ratelimit.go`) | map address → timestamps, mutex, ticker | `allow`, `cleanup` | time read before the lock; full table; cleanup against active clients | bounded memory; at most `limit` per window; idle addresses forgotten |
| pipeline (`main.go`, `ratelimit.go`, `logging.go`) | semaphore channel; goroutines; contexts | chain, `TimeoutHandler`, `Shutdown` | handlers that outlive their request; clients that go; a NAS that hangs; draining | slots accounted for; every wrapped request ends; no work after the answer; shutdown ends |
| configuration (`main.go`) | environment, read once | `loadConfig`, `envInt` | – | positive settings |
| client address (`ratelimit.go`) | – | `RealIP`, `isTrustedIP` | walk over a list the client may have begun | the nearest untrusted address is the client's |
| NAS client (`proxy/proxy.go`) | connection pool | `Do` | no timeout of its own | – |
| Drive file request (`drive/`, `upload.html`) | page: list, statuses, button, banner; cookie; folder token and its per-process key; NAS folders and files | unlock, init, file (reserve, finalize), notify | three calls per batch, each may fail before or after taking effect; the user edits the list meanwhile; restart; expiry; refusals by the middleware | what the page shows and the owner is told is true; nothing stuck |
| Drive browse (`drive/`, `browse.html`) | cookie; page: path stack, listing | unlock, list, download, archive job | listings out of order; check then use; polling | listing belongs to the folder shown; capability checked; job bounded |
| file sharing (`sharing/`) | cookie; page: path, listing | unlock, list, download, upload | locked shares; sessions fetched per request; cookies shared by tabs; overwrite on upload | no session before the password; path stays inside the root |
| photo shares and requests (`photo/`) | cookie; gallery page: offset, selection | unlock, list, thumbnail, download, upload | pagination driven by visibility; fail-open capability check | every item shown once; nothing stuck |
| multipart writer (`*/syno.go`) | `io.Pipe`, writer goroutine | upload | errors on both ends | no truncated body taken for whole; goroutine ends |
| downloads (all services) | one request; NAS archive job | short calls, poll, stream | NAS that never answers, bodies that break off, jobs that never end, clients that go | a truncated body is seen; only finished archives are fetched; nothing hangs |
| parsing (`*/context.go`) | – | brace and marker scanning | hand-written, on scripts that may be cut off | the value comes back whole or not at all |

## 2. Modules

| module | models |
|---|---|
| `SlidingWindow` | what the limiter promises: abstract specification, no table, no lock |
| `RateLimiter` | `allow` and `cleanup`, split where the code reads the clock |
| `RequestPipeline` | concurrency cap, `TimeoutHandler`, handlers, downloads, disconnects, shutdown |
| `DriveUpload` | the upload page of a Drive file request, its handlers and their effect on the NAS |
| `FileTransfer` | what one attempt to upload a file promises to the page: abstract specification |
| `UploadPipe` | one streamed upload: browser, writer goroutine, `io.Pipe`, transport, NAS |
| `PlainUpload` | the upload pages of file sharing and photo requests and their handlers |
| `ShareVisit` | landing page, unlock, list and download of the three services, the tabs that make these calls and the cookie jar they share |
| `FolderPage` | the folder listing pages of file sharing and Drive |
| `GalleryPage` | the gallery of an album, with pagination and an owner who changes the album |
| `Download` | one download on any of the seven streaming routes, archive job included |
| `BrowsePages` | a visitor with one page open or one download running: the three modules above with their fairness |
| `ClientAddress` | `RealIP` behind a chain of reverse proxies |
| `ScriptScan` | `extractReturnValue` and `extractBraceBlock` on scripts the NAS writes |
| `Inputs` | the two modules above in one specification |
| `EntryList` | the array of entries both upload pages keep: what `filter` and `splice` leave of it |
| `*_proofs` | theorems about `RateLimiter`, `RequestPipeline`, `ShareVisit`, `DriveUpload`, `BrowsePages` (with `Download`), `Inputs`, and (`FileTransfer_proofs`) `UploadPipe` and `PlainUpload` |
| `MCRateLimiter`, `MCDriveUpload`, `MCShareVisit`, `MCBrowsePages` | symmetry sets and the shares of the instance for TLC |

The modules meet at the request: `RequestPipeline` says what may happen to any
handler (refused, abandoned, disconnected), and the others contain these outcomes
as actions of their own (`Refuse`, `HandlerTimeout`, `Disconnect`, `Cancelled`,
`Lost`). The modules of an upload meet at `FileTransfer`: `UploadPipe` shows that
moving the bytes implements it, and `PlainUpload` shows it again of each attempt
as seen from the page, where the answer may be refused or lost on the way.

### RateLimiter

`ReadClock(q)` is line 62, `time.Now()` before `rl.mu.Lock()`; the critical
section is one of `RejectTableFull`, `RejectOverLimit` and `Admit`.
`CleanupReadClock` and `Cleanup` split the ticker goroutine the same way. A list
of timestamps is the set of the requests that appended to it: request `q`
contributes `reading[q]`, so equal timestamps stay distinct, and the order of the
slice, which the code never uses, is left out. `lockedAt` is history. `MaxDelay`
bounds the wait for the lock; the assumption `DelayIsShort` says that it is short
against the window and the cleanup period. `Tick` is the clock: it is monotonic,
which the wall clock of the code is not quite.

### RequestPipeline

`stage[r]` is the connection goroutine, `handler[r]` the handler, which on
wrapped routes is a goroutine of its own. `Acquire`/`Busy` are the two cases of
the `select` in `GlobalConcurrency`, `Release` its `defer`. `Timeout` and
`GiveUp` are `http.TimeoutHandler` returning without the handler. `net/http` is
external: the model takes from it that ServeHTTP's return and the client's going
cancel the request's context, that a cancelled context fails a NAS call, and that
a body shorter than its `Content-Length` breaks the connection. Deadlines have
no duration: each may pass at any time. Bound: `MaxCalls` NAS calls per handler.

### DriveUpload

The variables are those of the page (`files`, the CSS class of each entry, the
button, the banner, and per batch the arguments of `uploadSequential`), the
outstanding request of each batch, the process's signing key (`epoch`), the
cookie and the NAS's session, and what is on the NAS (folders, copies,
notifications). `call[b]` walks through the handler: `sent`, `landed` (landing
page read), `verified` (folder token good), `reserved` (empty slice request
done), then a reply. `InitAnswered`, `FileAnswered` and `NotifyAnswered` are the
`then`/`catch` continuations; `UploadSequential` sends the next entry or ends the
batch, as the code does in the same callback. A NAS call may take effect and
still fail. The environment breaks connections (`Disconnect`), passes the 45 s
(`HandlerTimeout`), restarts the proxy (`Restart`) and ends the session
(`SessionExpires`). Bounds: `MaxBatches` clicks, `MaxRestarts` restarts, every
file added at most once. The uploader's name, which stays the same, and the
validation of ids, which the page always passes, are left out. `OneFolderPerBatch`
counts every click as a batch, as the code does: that a retry gets a folder of its
own is the subject of the run `DriveUploadRetry`. `DoneIsReported` looks at the
notifications the NAS sent, and assumes that those the page asks for succeed; a
restart, an expired session, a refusal or a failure between the files and the
notification leaves the owner untold, and nothing in the code would notice.

### ShareVisit

`call[t]` walks through the handler that tab `t` waits for, one step per NAS
call: `page` and `landed` (`Browse`, `BrowsePage`, `RequestPage` of
photos, `browsePage`), `unlock` and
`logged` (`APIUnlock`, `APIUnlockBrowse`), `list`, `download` and `checked`. The
handlers of the three services have the same shape and are one action each, with
the differences in them: a photo page learns from its landing page that an album
is locked and sets its cookie before it asks for the album's name; the session
call of file sharing may fail to tell an upload share before the unlock; file
sharing checks a download by the share's context, photos by a landing page that
needs no session, Drive by the capabilities of the root. `LandingTokens` is what
the NAS may issue; for a locked share that includes a token no handler should
pass on. `reply[t]` is the answer on its way: the cookie it sets, the part of the
page it replaces, what it puts in the table. `StartBrowsing` is the page's
continuation that asks for the listing in the same callback.

A token is the share it was issued for and what it was issued upon. The password
itself, ids, file paths and names are left out. `accepted`, `sawPermit`, `blind`
and `reloaded` are history. A tab has one request outstanding; a second Enter in
the password field or a second folder clicked while one loads is not modelled
here. Upload pages end at `upload`: what they do is `DriveUpload`'s business.

### FileTransfer and UploadPipe

`FileTransfer` has two variables: what the NAS has of the file, and the verdict
the page gets. `UploadPipe` has the five actors of one upload. `writer` is the
goroutine: blocked in a write to the pipe (`head`, `write`, `boundary`), reading
the browser's part, or about to call `pw.CloseWithError(closeErr)`. `Take` is the
rendezvous of `io.Pipe`: the transport reads what the writer offers and sends it
on. `ReadFails` is the error of `io.Copy`, after which the closing boundary is
written all the same: that is why the stored file depends on the HTTP body being
ended (`EndBody`) and not on the boundary. `SourceErrors` tells the size limit
from a browser that went away or a body the server closed after the handler
returned. `Cancelled` says when the context is done: `net/http` watches the
connection only once the request's body has been read to its end, so a browser
that leaves in the middle is noticed by the read. `timed` is the empty slice
request of Drive, the one with a deadline. The NAS stores a body that was ended,
also after the proxy has given up; it answers success, an error or something
unreadable, perhaps before it has read everything. External: `io.Pipe`, the
transport, `net/http`, the NAS. Bytes are chunks, counted up to `MaxSize`.

### PlainUpload

The page of `DriveUpload` without init and notify: one call per file. Both upload
templates run the same uploader, and `service` selects the handler
(`ReadSharingForm` with a permission call, `ReadPhotoForm` without). `shown[b]`
and `copy[b]` are sequences with one entry per attempt of batch `b`; `late` is a
body that the NAS has and may store after the answer was given up. `parallel` is
history: a file added or removed while a batch runs enables the button again, and
two batches then send the same entries. The properties about what is sent hold of
batches that follow one another. Bounds: `MaxBatches`, each file added once.

### FolderPage, GalleryPage, BrowsePages

`listings` holds the folders asked for and not yet answered; `ListingArrives(i)`
takes any of them, so answers are reordered freely, and fails at will. `trail` is
the breadcrumb: the File Station page computes it from the folder's path, the
Drive page pushes and cuts a stack. `overlapped` is history: a listing was asked
for while another was under way. The gallery's `requests` are the list calls;
`MayLoad` is the guard of `loadNextPage`, which three callers reach
(`GalleryUnlocked`, `ScrollToEnd`, `ViewerNext`). The observer calls only when
the sentinel comes into view, hence `inView`. The owner adds and removes photos
anywhere; `shifted` is history: a change happened before the end of what had been
read, where paging by offset cannot be right. The visitor has one page open
or one download running, so `BrowsePages` is a disjunction, in which what is not
open stays as it is. Left out: the view of a single file, icons,
search and sort order, checkboxes of the gallery.

### Download

A route is the sequence of its NAS calls (`FileCalls` to `ZipCalls`). `Answer` is
the NAS, `NextCall`, `Refused`, `Pause`, `PollAgain`, `StartCopy`, `Copy` and
`CopyEnds` the handler; the last one returns whether or not `io.Copy` failed,
because the code ignores its error. `outcome` is what the browser makes of the
reply: a body shorter than the declared length is `cut`, one without a length is
always `complete`. Deadlines may pass at any time while they run (`HasDeadline`);
the one of the zip polling covers all polls. Ranges and status codes are part of
`Denied` and `BodyBegins`.

### ClientAddress, ScriptScan, Inputs

`Hop` builds the header the way proxies do: any header of the client's, then
each proxy appends the address it was connected from. `RealIP` is the function
under test. In `ScriptScan` the NAS writes a value by the grammar of JavaScript
literals, and the scanners read back what it wrote, whole or cut off at any byte.
`After` is one turn of the loop both scanners share, `Scan` its recursive
function. The two brackets of `extractReturnValue` count in one depth in the
code, hence one kind of bracket here.

## 3. Runs

| run | bounds | shows |
|---|---|---|
| `RateLimiter` | 4 requests, 2 addresses, limit 2, table of 1, window 2, period 3, delay 1, clock to 8 | `TableBounded`, `WindowBound`, `IdleIsForgotten`; it implements `SlidingWindow` |
| `RequestPipeline` | 2 ordinary requests and a download, 1 slot, 2 calls | `SlotsMatch`, `OrphanIsCancelled`, `NoCallAfterReply`; `WrappedEnds`, `OrphansEnd`, `GoneIsReleased`, `ShutdownEnds` |
| `DriveUpload` | 2 files, 2 batches, 1 restart | `DoneIsStored`, `NoNeedlessCopy`, `NoticeIsTrue`, `OneFolderPerBatch`, `BannerIsEarned` |
| `DriveUploadLive` | 2 files, 1 batch, 1 restart, password | `BatchEnds`, `DoneIsReported` |
| `ShareVisit` | 2 tabs; 5 shares: locked upload request and open folder of file sharing, open album and upload request of photos, locked Drive folder | `JarIsEarned`, `ContentNeedsPassword`, `CollisionNeedsSibling`, `DownloadRechecked`, `LayoutIsKnown` |
| `UploadPipe` | files of 0 to 3 chunks, limit 2 | it implements `FileTransfer`; `WriterEnds`, `GoneEndsCall` |
| `PlainUpload` | 2 files, 2 batches, both services | `ShownIsTrue` (each attempt implements `FileTransfer`), `DoneIsNotResent`, `BannerIsTrue`, `BatchEnds` |
| `BrowsePages` | 3 folders in a row and 2 files, 6 listings, 2 unlocks; albums of up to 5, pages of 2, 2 changes; 7 streaming routes, bodies of up to 2 chunks | `FolderIsConsistent`, `GridIsAlbum`, `WholeOrBroken`, `ArchiveIsFinished`; `LoadingEnds`, `PrepareEnds`, `GoneEndsRequest` |
| `Inputs` | 4 addresses, 2 of them trusted, 1 part that is no address, client headers of 2 parts, headers of 5; scripts of 7 bytes | `ClientIsFound`; `ValueComesBack`, `CutIsNoValue` |

Every module states its types as `TypeOK` (`PipeTypeOK` for `UploadPipe`,
`AddressTypeOK` and `ScriptTypeOK` for `Inputs`). They are proved, as theorems of
their own or as a conjunct of the inductive invariant, and therefore not repeated
in the runs; nor are the inductive invariants.

Why these bounds are enough. Limiter: a table smaller than the number of
addresses, a list that fills up, and a clock that goes on for a window and two
cleanups after the first admission. Pipeline: more requests than slots, so that a
slot is given to a new request while an abandoned handler runs. Upload pages: two
batches that overlap or follow one another, so that entries are retried or sent
twice; one entry that fails beside one that does not; for Drive a restart
anywhere. Pipe: a file within the limit, at it and above it, and an error before,
between and after chunks. Visits: two tabs, because a cookie replaced under a tab
needs exactly one other; two shares of one service, so that they do collide, and
shares of the other services, so that they must not; locked and open ones, and
every page layout but the single file, which differs from the folder only in not
being listed. Folder pages: a folder in a folder, so that a breadcrumb can be
cut in two ways, and enough listings for two late answers in either order.
Gallery: a last page that is full, one that is not, an album that is empty, and
changes before and behind the pages read. Downloads: bodies that break before,
between and after chunks. Addresses: a trusted and an untrusted forged part
before two proxies. Scripts: long enough for a string with an escaped quote
inside an object.

Three runs are refutations. Each checks one statement of a comment against the
code and ends in a counterexample:

| run | statement | what the code does |
|---|---|---|
| `ShareVisitReload` | "the reload-after-unlock path in browse.html handles the upload case" | no cookie reaches the reloaded page: the password prompt again |
| `DownloadThumb` | "Thumbnails are keyed by an immutable cache_key -- safe to cache aggressively" | the error of `io.Copy` is ignored, `TimeoutHandler` sends what it has buffered as a complete response, and a broken-off image is kept for a week as a whole one |
| `DriveUploadRetry` | "re-running init on retry would create "name (1)", "name (2)" siblings instead of reusing it" (`upload.html:436-437`) | a retry is another click, every click runs init, and the retried file goes to a sibling folder |

More that the models show, without a run of their own.

- Limits: a goroutine with an older clock reading is judged on a list that a later
  one has pruned, so more than `limit` pass in a window (`WindowBound` states the
  bound that does hold). The slot of a timed-out request is free while its
  handler runs, so more handlers run than the cap says.
- Downloads: one without `Content-Length` that breaks off looks complete; that is
  why `WholeOrBroken` asks for a known length.
- Upload pages: adding or removing a file during a batch re-enables the button and
  a second batch runs in parallel. A click with nothing pending puts the success
  banner up while another batch runs. An entry answered with "please restart the
  upload" (`drive/handler.go:638`) is in class `error` and is not sent by a
  further click; so is an entry refused by the rate limit or the concurrency cap,
  whose answers carry no "retryable" although `doc/spec.md:219-221` says that
  errors of uploads do. A Drive notification that fails is dropped without a word: the
  page ignores the answer, and the done banner goes up all the same. A restart
  invalidates the folder tokens of Drive batches. On file sharing a second file of
  the same name overwrites the first.
- Listings: answers of folders left behind are shown when they come; a click on a
  row of such a listing pushes it on the Drive page's wrong trail for good. An
  error answer to a page of the gallery ends the pagination. Listings are capped
  at 1000 entries without a word.
- Visits: an unlock whose answer lacks the share's properties shows a folder as a
  single file; a photo page that ends in the error page has already replaced the
  session of another album's tab.
- Addresses: `Header.Get` reads the first `X-Forwarded-For` line only, which the
  model takes to be the only one; clients inside a trusted network are charged to
  the proxy's address, hence the premise of `ClientIsFound`.

`CHECK_DEADLOCK FALSE` is set throughout because every system here may stop: the
clock reaches its bound, the process exits, the request is over, the user walks
away.

Definitions called `<Name>_<Word>` are mutated forms: `<Name>` with a plausible
bug. They are used by no specification; substituted for `<Name>` they make a
property of the run fail, which shows that the property depends on that code.

### Fairness

`RateLimiter`, `ShareVisit` and `Inputs` state safety only.

- `RequestPipeline`: goroutines that can run do run, and the 45 s and 10 s timers
  fire; a NAS call or a copy is *not* assumed to return before its context is
  done, so the liveness properties hold with a NAS that hangs. Nothing is assumed
  of clients.
- `DriveUpload`: the handlers' steps and the page's continuations happen. For the
  init and notify handlers and for the reservation the code guarantees it by
  deadlines (15 s, 30 s, 45 s). For the finalize request (`drive/syno.go:473`) no
  deadline exists: that the NAS answers it, or the connection breaks, is an
  assumption about the environment. Nothing is assumed of the user, nor that
  connections break or the proxy restarts.
- `UploadPipe`: goroutines run; the browser sends on or goes; what the transport
  sends is taken, or the connection breaks; a context that is done ends the call.
  The NAS need not answer, and indeed an upload with a patient browser and a
  silent NAS does not end: only `WriterEnds` is unconditional.
- `PlainUpload`: as `DriveUpload`, with the same assumption about the upload call.
- `BrowsePages`: every fetch settles and its continuation runs. The list handlers
  are wrapped in `TimeoutHandler`, whose 45 s `RequestPipeline` covers. The handler
  of a download goes on when it can, its deadlines and the 45 s fire, and
  `net/http` notices a lost connection. Nothing is assumed of the NAS there;
  copying a body may stall for ever while the browser stays.

## 4. Proofs

`RateLimiter_proofs` (any finite sets of requests and addresses, any positive
limits, any window and cleanup period under `DelayIsShort`). `TypeCorrect` is an
invariant on its own; the rest goes through `IInv`:

- `ListsInv`: lists hold admitted requests of their own address and are bounded;
- `ReadingInv`: a reading is at most `MaxDelay` older than its critical section;
- `CleanerInv`: the cleanup goroutine is at most `MaxDelay` behind its ticker;
- `HistoryInv`: an admitted request younger than the window is still listed, the
  heart of the matter: it says that neither prunings with stale readings nor
  cleanups drop a timestamp that counts;
- `FreshInv`: every key owes its place to an admission since the last cleanup.

`WindowBound` alone is not inductive, because it speaks of `lockedAt`, which the
code does not store; `HistoryInv` ties it to the list, whose length the code
bounds. `BudgetRespected`: the recently admitted are a subset of the list
(`SubsetOfRequests`, then cardinalities). `IdleForgotten` follows from `FreshInv`
and `CleanerInv`. `RefinesSlidingWindow` maps each of the three outcomes of
`allow` to a verdict of the abstract limiter (`RefinesTableFull`,
`RefinesOverLimit`, `RefinesAdmit`) and everything else to its `Tick` or a
stutter.

`RequestPipeline_proofs` (any finite set of requests, any positive capacity).
`SlotsMatch` is inductive with the types and `StageInv`, how the two goroutines
of a request stand to each other; `SlotTaken` and `SlotReturned` do the counting.
`OrphansCancelled` and the action property `SilentAfterReply` follow from
`StageInv`.

`ShareVisit_proofs` (any sets of tabs and shares, any choice of services, kinds
and locks). `JarIsEarned` speaks of the jar only and is not inductive: what
reaches the jar is in an answer, and what is in an answer was in a handler's
hands. `IInv` follows the token back: `TokenInHand` (what each step of a handler
holds), `ReplyIsEarned` (what an answer may carry), `PromptMeansLocked` (a
password can only be submitted for a locked share, so that a token issued upon a
password is one of a locked share), `TokensHaveTabs` (every token names the share
of a tab, and lies under the path of its service), `PermitWasSeen` (the history
variable is TRUE whenever a pending download is permitted), and `HasShare`.
`MayAnswer` names the condition on an answer; `AnsweringStep`, `FailingStep` and
`ContinuingStep` prove once what every handler step comes down to, and each
handler only has to show its condition. `JarEarned`, `ContentGuarded`,
`CollisionsExplained` and `DownloadsRechecked` follow. `LayoutsKnown` has an
invariant of its own on top of `IInv`, `LayoutInv`: the layout in an answer on its
way is right too, the upload prompt belongs to an upload share, and an unlock
runs only behind a prompt, so that `blind` is never cleared behind a layout the
page had guessed.

`FileTransfer_proofs` shows that both levels of an upload keep the promise of
`FileTransfer`. The lower level is `UploadPipe` (any limit, any largest file),
whose definitions begin with `Pipe` where `PlainUpload` has one of the same name.
The refinement needs to know why a body that was ended is whole. `PipeInv` adds
to the types `BodyInv`, which counts the chunks along the pipe (what the NAS has
received is what the writer has read, less the one in its hands) and says that
`closeErr` is set whenever the writer stops before the end of the part; and
`VerdictInv`, which ties the answer and the verdict to what is stored.
`RefinesFileTransfer` then maps `Store` to the abstract `Store`, the steps that
return to `Tell`, and the rest to stutters.

The upper level is `PlainUpload` (any finite set of files, any number of clicks,
both services, batches that overlap or not). `PageInv` says: no entry stands
twice in the list or in a batch (`ListInv`); a batch that sends has exactly one
attempt more than it has classes, and where its request is limits what the NAS
can have of it (`SendInv`, `Told`); a tick is a stored copy, a cross is no copy,
and an entry whose class is done was stored by an attempt that was answered
(`ShownInv`). `Alone` is what one batch at a time adds: only the current entry is
being sent, and those behind it still wait. All steps are of three kinds
(`StepsAreKinds`): the user edits the list; the request of one batch moves and
the NAS does something to its copies (`NASMoves`); or `uploadSequential` is
called (`Sends`), from the click or from the continuation of a fetch, which is
proved once for both. `ShownTrue` maps each attempt to `FileTransfer`: a late
store is its `Store` after "retry", a class is its `Tell`. `NotResent` and
`BannerTrue` follow from `Alone`.

`Download_proofs` (any bound on bodies) has the lemmas about `Download` that
`BrowsePages_proofs` uses. Of its invariant `DownloadInv`, `JobInv` follows the
archive job through the calls of the zip route: past the poll, the job is
finished. `ReplyInv` says that a complete reply with a declared length was copied
to the end, and that the length the NAS gave is declared on every route but the
thumbnail's.

`Inputs_proofs` (any addresses, any trusted set, headers of any length up to the
bound, which may be any number). `ChainInv` describes the header behind the
client's own part: the first address a proxy appended is the client's, the later
ones are trusted; from the right the client is thus the first untrusted one.
`ClientFound` follows, whatever the client forged. For the scanners, `Scan(s)` is
the recursive function of the loop. `SetInduction`, induction stated of a set of
numbers rather than of a predicate, gives that `Scan(s)` exists and obeys its
recursion (`ScanStates`) and that it does not depend on what follows a prefix
(`ScanOfPrefix`). `ScriptInv` then goes over the bytes as the NAS writes them:
after each byte of the value the loop has the same depth and the same open quote
as the writer, no byte of the value ends the scan, and of an object literal only
the last bracket closes it. `ValuesComeBack` and `CutsAreErrors` follow for
scripts of any length: with a bound of any size, `MaxText` bounds nothing.

`DriveUpload_proofs` (any files, any numbers of clicks and restarts). `IInv` adds
to the types `OkIsStored`, that a finalize request is answered "ok" only after a
copy was stored, which makes `DoneIsStored` inductive; and two facts about
folders: `FoldersCounted` bounds them by `Made`, the batches whose init is past
its landing page, because a folder may be made by an init whose answer is lost,
and `TokensApart` says that a token names a folder no other token names. The many
actions come down to five effects, a lemma each (`RequestMoves`, `FolderIsMade`,
`CopyIsStored`, `PageGoesOn`, `BatchIsOver`). `DoneStored` follows.

What a batch sends needs a second invariant, `PageInv`. `EntriesKept` and
`PartOfList` say of `EntriesAt`, by which the page picks entries and drops one,
that the result has entries of the array from distinct places: hence no entry
stands twice in the list or in a batch. `ReportInv` says that what a batch will
report is in its folder, which makes `NoticeIsTrue` inductive across restarts:
the page reports by a token that names the folder its copies went to. `Alone`,
for batches one after the other, says that an entry still to be sent was not
stored, but for an answer that was lost (`Clean`), and that a batch that is about
to finish without an error has only done and pending entries in the list. Hence
`NoticesTrue`, `CopiesNeeded` and `BannerEarned`.

`OneFolderPerBatch` needs both and a third, `FolderInv`: every copy is in the
folder of a batch that was started with its file, no folder has a file twice, and
what a batch has still to send (`Unsent`) is not in its folder yet. The last part
makes it inductive: a folder is empty when it is made (`FolderIsEmpty`), and a
finalize request is the first of its file in that folder (`CopyIsFirst`), because
the page goes on with the next entry whatever the answer was. Hence
`FoldersApart`.

`BrowsePages_proofs` (any share that is a tree, any page size, albums and changes
without bound). For folders: while listings do not overlap there is at most one
on its way, for the folder the trail ends in, and the table is empty meanwhile;
`Tree` and `PrefixesOfPaths` give what clicks do to the trail. For the gallery,
`GalleryInv` says that there is one request at most, that it continues the grid
(`RequestInv`), and that the grid and the page on its way `Matches` the album;
`ChangeKeeps` is the step of an owner who changes what comes later. Then
`FolderConsistent` and `GridMatchesAlbum`; `TypeCorrect` adds the variables these
two do not need. With `DownloadInv` as a third conjunct of `IInv`,
`TruncationIsSeen` and `ArchiveFinished` are theorems of the same specification.

Every safety property of the runs, invariant or step property, and every
refinement is thus a theorem. Only model-checked are the liveness properties
(`WrappedEnds`, `OrphansEnd`, `GoneIsReleased`, `ShutdownEnds`, both `BatchEnds`,
`DoneIsReported`, `WriterEnds`, `GoneEndsCall`, `LoadingEnds`, `PrepareEnds`,
`GoneEndsRequest`), since neither fairness nor ENABLED is within the prover's
reach, and the three refutations, which are counterexamples. The library's
induction theorems, which take a predicate as a parameter, cannot be used either;
the one induction here goes through `NatLessThanWellFounded`.

The assumptions the proofs use are those named in the modules: sizes, bounds and
waits are natural numbers, sets of files, requests and addresses are finite, a
share is a tree, and `DelayIsShort`.

## 5. Not modelled, and the plan

Left out for good: configuration (its results are the constants), logging,
security headers, HTML rendering and wording, the HTTP client to the NAS, whose
connection pool has no protocol of its own here, the regular expressions and JSON
decoding of the parsers, the string functions that keep a path inside the share's
root, and the lengths of deadlines.

Left to do:

1. `DriveUpload` over `RequestPipeline`: the reply to an upload call refined to
   the pipeline's outcomes.
2. A clock that is set back or forward in `RateLimiter`.
