------------------------------ MODULE Download ------------------------------
(***************************************************************************)
(* One download, on any of the seven routes that stream a NAS response to  *)
(* the browser: APIDownload and APIDownloadFolder (sharing/handler.go),    *)
(* APIThumbnail, APIDownload and APIDownloadAlbum (photo/handler.go),      *)
(* APIDownload and APIDownloadZip (drive/handler.go).  All make a few      *)
(* short NAS calls, then one call whose body they copy to the browser.     *)
(*                                                                         *)
(* The NAS answers late, with an error or never; its archive jobs take any *)
(* time; its connection breaks while a body is copied; the browser goes    *)
(* away at any point.  Deadlines are the code's, their lengths are left    *)
(* out: each may pass at any time while it runs.                           *)
(***************************************************************************)
EXTENDS Integers, Sequences

CONSTANT MaxBody   \* bound: the longest body, in chunks

ASSUME MaxBodyNatural == MaxBody \in Nat

Routes == {"file", "folder", "thumb", "items", "album", "driveFile", "zip"}

\* The NAS calls each handler makes, in order.  GetContext, of up to two
\* requests under one deadline, is one call here.
FileCalls == <<"context", "fetch">>
FolderCalls == <<"context", "fetch">>
ThumbCalls == <<"fetch">>
ItemsCalls == <<"permission", "fetch">>
AlbumCalls == <<"permission", "info", "fetch">>
DriveFileCalls == <<"permission", "fetch">>
ZipCalls == <<"permission", "dryrun", "start", "poll", "fetch">>

Calls ==
    [r \in Routes |->
        CASE r = "file" -> FileCalls
          [] r = "folder" -> FolderCalls
          [] r = "thumb" -> ThumbCalls
          [] r = "items" -> ItemsCalls
          [] r = "album" -> AlbumCalls
          [] r = "driveFile" -> DriveFileCalls
          [] r = "zip" -> ZipCalls]

VARIABLES
    route,      \* the handler
    step,       \* index of the current NAS call
    at,         \* "asking" the NAS, "pausing" between polls, "copying" the
                \* body, "over"
    answer,     \* the NAS's answer to the current call, or "none"
    job,        \* the NAS's archive job: "none", "running", "finished" or
                \* "failed"
    body,       \* [size, sized]: the fetched body and whether the NAS gave
                \* its Content-Length
    declared,   \* the reply has a Content-Length
    copied,     \* chunks copied so far
    here,       \* the browser is still connected
    outcome     \* what the browser makes of the reply: "open", "refused"
                \* (an error page), "complete" or "cut"

downloadVars == <<route, step, at, answer, job, body, declared, copied, here,
                  outcome>>

NoBody == [size |-> 0, sized |-> FALSE]
Bodies == [size : 0 .. MaxBody, sized : BOOLEAN]
Call == Calls[route][step]

DownloadTypeOK ==
    /\ route \in Routes /\ step \in 1 .. Len(Calls[route])
    /\ at \in {"asking", "pausing", "copying", "over"}
    /\ answer \in {"none", "yes", "no", "busy"}
    /\ job \in {"none", "running", "finished", "failed"}
    /\ body \in Bodies /\ copied \in 0 .. body.size
    /\ declared \in BOOLEAN /\ here \in BOOLEAN
    /\ outcome \in {"open", "refused", "complete", "cut"}

DownloadInit ==
    /\ route \in Routes
    /\ step = 1 /\ at = "asking" /\ answer = "none"
    /\ job = "none"
    /\ body = NoBody /\ declared = FALSE /\ copied = 0
    /\ here = TRUE /\ outcome = "open"

-----------------------------------------------------------------------------
(* The NAS                                                                 *)

\* "no" stands for every answer the code turns into an error: a transport
\* error, a body that does not parse, success = false, a refused permission,
\* a status outside 2xx (for items, outside 200, 206 and 416).
Denied == answer' = "no" /\ UNCHANGED <<job, body>>

\* A context, a permission, an album's name, a dry run.
Granted ==
    /\ Call \notin {"start", "poll", "fetch"}
    /\ answer' = "yes" /\ UNCHANGED <<job, body>>

JobStarted ==
    /\ Call = "start"
    /\ answer' = "yes" /\ job' = "running" /\ UNCHANGED body

\* One poll: any status but "finished", "failed" and "error" is "busy".
JobPolled ==
    /\ Call = "poll"
    /\ answer' = CASE job = "finished" -> "yes"
                   [] job = "failed" -> "no"
                   [] OTHER -> "busy"
    /\ UNCHANGED <<job, body>>

\* The fetch is answered with the head of its response.
BodyBegins ==
    /\ Call = "fetch"
    /\ answer' = "yes" /\ body' \in Bodies /\ UNCHANGED job

Answer ==
    /\ at = "asking" /\ answer = "none"
    /\ Denied \/ Granted \/ JobStarted \/ JobPolled \/ BodyBegins
    /\ UNCHANGED <<route, step, at, declared, copied, here, outcome>>

\* The job of an archive ends some time, or never.
JobEnds ==
    /\ job = "running"
    /\ job' \in {"finished", "failed"}
    /\ UNCHANGED <<route, step, at, answer, body, declared, copied, here,
                   outcome>>

-----------------------------------------------------------------------------
(* The handler                                                             *)

\* The handler returns.  A reply shorter than its Content-Length makes
\* net/http close the connection; without one the chunked reply is ended as
\* if it were whole.
Returns(seen) ==
    /\ at' = "over" /\ answer' = "none"
    /\ outcome' = seen

Refuse ==
    /\ Returns(IF here THEN "refused" ELSE outcome)
    /\ UNCHANGED <<route, step, job, body, declared, copied, here>>

\* Any error on the way: http.Error with a 4xx or 502.
Refused ==
    /\ at = "asking" /\ answer = "no"
    /\ Refuse

\* Mutated form: what is not a failure counts as finished.
Done_NotFailed(a) == a \in {"yes", "busy"}

\* The call has what the handler needs to go on.
Done(a) == a = "yes"

NextCall ==
    /\ at = "asking" /\ Call # "fetch"
    /\ Done(answer)
    /\ step' = step + 1 /\ answer' = "none"
    /\ UNCHANGED <<route, at, job, body, declared, copied, here, outcome>>

\* pollZipTask waits 700 ms after any other status ...
Pause ==
    /\ at = "asking" /\ answer = "busy" /\ ~Done(answer)
    /\ at' = "pausing" /\ answer' = "none"
    /\ UNCHANGED <<route, step, job, body, declared, copied, here, outcome>>

\* ... and asks again.
PollAgain ==
    /\ at = "pausing"
    /\ at' = "asking"
    /\ UNCHANGED <<route, step, answer, job, body, declared, copied, here,
                   outcome>>

\* Mutated form: Content-Length is not in the list of headers to copy.
Forwarded_TypeOnly(b) == FALSE

\* The length goes to the browser with every download; a thumbnail's reply
\* has only Content-Type and Cache-Control.
Forwarded(b) == b.sized /\ route # "thumb"

StartCopy ==
    /\ at = "asking" /\ Call = "fetch" /\ answer = "yes"
    /\ at' = "copying" /\ answer' = "none"
    /\ declared' = Forwarded(body)
    /\ UNCHANGED <<route, step, job, body, copied, here, outcome>>

Copy ==
    /\ at = "copying" /\ copied < body.size
    /\ copied' = copied + 1
    /\ UNCHANGED <<route, step, at, answer, job, body, declared, here, outcome>>

\* io.Copy ends with the body or because the NAS connection broke: its error
\* is ignored, so the handler returns either way.
CopyEnds(broken) ==
    /\ at = "copying"
    /\ broken <=> copied < body.size
    /\ Returns(CASE ~here -> outcome
                 [] here /\ declared /\ broken -> "cut"
                 [] OTHER -> "complete")
    /\ UNCHANGED <<route, step, job, body, declared, copied, here>>

-----------------------------------------------------------------------------
(* Deadlines and disconnects                                               *)

\* Mutated form: the 10 minutes start anew with each poll, so they do not
\* pass while polls are answered.
HasDeadline_PerPoll(c) == c \notin {"fetch", "poll"}

\* context.WithTimeout around every short call and around the whole polling;
\* none around the fetch.
HasDeadline(c) == c # "fetch"

Deadline ==
    /\ at \in {"asking", "pausing"} /\ HasDeadline(Call)
    /\ Refuse

\* http.TimeoutHandler answers 503 for a thumbnail that takes more than
\* 45 s, copied or not: its reply is held back until the handler returns.
\* (What the abandoned handler still does is RequestPipeline's.)
HandlerTimeout ==
    /\ route = "thumb" /\ at \in {"asking", "copying"}
    /\ Refuse

Leave ==
    /\ here /\ outcome = "open"
    /\ here' = FALSE
    /\ UNCHANGED <<route, step, at, answer, job, body, declared, copied,
                   outcome>>

\* Mutated form: the archive calls run on context.Background().
Cancellable_NotZip == route # "zip"

\* Every NAS call is made with the request's context.
Cancellable == TRUE

\* net/http notices the lost connection and cancels the request: the call or
\* the copy under way fails and the handler returns.
Cancelled ==
    /\ ~here /\ at # "over"
    /\ Cancellable
    /\ Returns(outcome)
    /\ UNCHANGED <<route, step, job, body, declared, copied, here>>

Handler ==
    \/ Refused \/ NextCall \/ Pause \/ PollAgain
    \/ StartCopy \/ Copy
    \/ \E broken \in BOOLEAN : CopyEnds(broken)

DownloadNext ==
    \/ Answer \/ JobEnds
    \/ Handler
    \/ Deadline \/ HandlerTimeout
    \/ Leave \/ Cancelled

DownloadSpec == DownloadInit /\ [][DownloadNext]_downloadVars

-----------------------------------------------------------------------------
(* Properties                                                              *)

\* A browser that was told the length never takes part of a download for the
\* whole, wherever the NAS connection breaks: the handlers copy the
\* Content-Length and let net/http do the rest.
WholeOrBroken ==
    (outcome = "complete" /\ body.sized /\ route # "thumb")
        => copied = body.size

\* An archive is fetched only once the NAS has finished the job started for
\* it: DownloadZip never streams a zip that is still being written.
ArchiveIsFinished ==
    (route = "zip" /\ Call = "fetch") => job = "finished"

\* A browser that goes away ends the request, whatever call, pause or copy
\* is under way.
GoneEndsRequest == ~here ~> at = "over"

\* APIThumbnail says of its Cache-Control "Thumbnails are keyed by an
\* immutable cache_key -- safe to cache aggressively": what a browser keeps
\* for a week is the whole image.
CacheIsWhole == (route = "thumb" /\ outcome = "complete") => copied = body.size
=============================================================================
