----------------------------- MODULE UploadPipe -----------------------------
(***************************************************************************)
(* One streamed upload: UploadFile (sharing/syno.go), UploadPhotoRequest-  *)
(* Item (photo/syno.go) and sliceUploadRequest (drive/syno.go) have the    *)
(* same body.                                                              *)
(*                                                                         *)
(* A writer goroutine turns the file part of the browser's request into a  *)
(* new multipart body and writes it to an io.Pipe; the HTTP transport      *)
(* reads the pipe and sends the body to the NAS chunk by chunk.  A write   *)
(* to the pipe returns when it is read or when the pipe is closed.  The    *)
(* two meet with a browser that sends slowly or goes away, a size limit, a *)
(* deadline, a NAS connection that breaks, and a NAS that answers before   *)
(* it has read everything.                                                 *)
(*                                                                         *)
(* The NAS is taken to store a body only when it was ended (HTTP's last    *)
(* chunk), not as soon as it sees the closing boundary.                    *)
(***************************************************************************)
EXTENDS Integers

CONSTANTS
    Limit,    \* maxUploadBytes, in chunks
    MaxSize   \* bound: the largest file, in chunks

ASSUME SizesNatural == Limit \in Nat /\ MaxSize \in Nat

VARIABLES
    size,       \* chunks in the file
    timed,      \* the request has a deadline (drive's reservation)
    sent,       \* chunks the browser has sent
    gone,       \* the browser has closed its connection
    writer,     \* the writer goroutine; in "head", "write" and "boundary" it
                \* is in a write to the pipe, in "read" in a read of the part
    got,        \* chunks it has read
    cause,      \* closeErr
    readEnd,    \* the pipe's read end is closed
    transport,  \* "build" and "failed" (NewRequest), "sending", "waiting",
                \* "returned" (Do)
    body,       \* [data, ended]: what the NAS has received
    stored,     \* chunks of the stored file, or Nothing
    answer,     \* the NAS's answer
    verdict     \* what the handler makes of UploadFile's result

pipeVars == <<size, timed, sent, gone, writer, got, cause, readEnd, transport,
              body, stored, answer, verdict>>

Nothing == -1
Blocked == {"head", "write", "boundary"}
Verdicts == {"ok", "fail", "retry"}

PipeTypeOK ==
    /\ size \in 0 .. MaxSize /\ timed \in BOOLEAN
    /\ sent \in 0 .. size /\ gone \in BOOLEAN
    /\ writer \in Blocked \cup {"read", "closing", "done"}
    /\ got \in 0 .. sent
    /\ cause \in {"none", "limit", "source", "pipe"}
    /\ readEnd \in BOOLEAN
    /\ transport \in {"build", "failed", "sending", "waiting", "returned"}
    /\ body \in [data : Nat, ended : BOOLEAN]
    /\ stored \in Nat \cup {Nothing}
    /\ answer \in {"none", "success", "error", "garbled"}
    /\ verdict \in Verdicts \cup {"open"}

\* The reservation carries no file; the others have no deadline.
PipeInit ==
    /\ timed \in BOOLEAN
    /\ size \in IF timed THEN {0} ELSE 0 .. MaxSize
    /\ sent = 0 /\ gone = FALSE
    /\ writer = "head" /\ got = 0 /\ cause = "none"
    /\ readEnd = FALSE
    /\ transport = "build"
    /\ body = [data |-> 0, ended |-> FALSE]
    /\ stored = Nothing /\ answer = "none" /\ verdict = "open"

-----------------------------------------------------------------------------
(* The browser                                                             *)

Send ==
    /\ ~gone /\ sent < size
    /\ sent' = sent + 1
    /\ UNCHANGED <<size, timed, gone, writer, got, cause, readEnd, transport,
                   body, stored, answer, verdict>>

\* The tab is closed or the network fails.
Go ==
    /\ ~gone
    /\ gone' = TRUE
    /\ UNCHANGED <<size, timed, sent, writer, got, cause, readEnd, transport,
                   body, stored, answer, verdict>>

-----------------------------------------------------------------------------
(* The writer goroutine                                                    *)

Writes(to) ==
    /\ writer' = to
    /\ UNCHANGED <<size, timed, sent, gone, readEnd, transport, body, stored,
                   answer, verdict>>

\* io.Copy reads the next chunk of the part.
ReadChunk ==
    /\ writer = "read"
    /\ got < sent /\ got < Limit
    /\ got' = got + 1
    /\ UNCHANGED cause
    /\ Writes("write")

\* io.Copy ends with the part; mw.Close writes the closing boundary.
ReadEnd ==
    /\ writer = "read"
    /\ got = size
    /\ UNCHANGED <<got, cause>>
    /\ Writes("boundary")

\* The error the part's Read returns: over MaxBytesReader's limit, or the
\* browser is gone, or the handler has returned and the body is closed.
SourceErrors ==
    {e \in {"limit", "source"} :
        \/ e = "limit" /\ got = Limit /\ sent > Limit
        \/ e = "source" /\ (gone \/ verdict # "open") /\ got < size}

\* Mutated form: the error of io.Copy is dropped.
ReadFails_Dropped ==
    /\ writer = "read"
    /\ SourceErrors # {}
    /\ UNCHANGED <<got, cause>>
    /\ Writes("boundary")

\* io.Copy fails: closeErr is set, and the closing boundary is written all
\* the same, as the part itself has no write error.
ReadFails ==
    /\ writer = "read"
    /\ \E e \in SourceErrors : cause' = e
    /\ UNCHANGED got
    /\ Writes("boundary")

\* A write returns ErrClosedPipe.  After a failed field or chunk mw.Close
\* writes nothing; its own error is ignored.
WriteFails ==
    /\ writer \in Blocked
    /\ readEnd
    /\ cause' = IF writer = "boundary" THEN cause ELSE "pipe"
    /\ UNCHANGED got
    /\ Writes("closing")

\* pw.CloseWithError(closeErr): the reader sees EOF, or the error.
CloseWrite ==
    /\ writer = "closing"
    /\ UNCHANGED <<got, cause>>
    /\ Writes("done")

Writer == ReadChunk \/ ReadEnd \/ ReadFails \/ WriteFails \/ CloseWrite

-----------------------------------------------------------------------------
(* The transport: client.Do, and the handler after it                      *)

\* http.NewRequestWithContext.
Build ==
    /\ transport = "build"
    /\ transport' = "sending"
    /\ UNCHANGED <<size, timed, sent, gone, writer, got, cause, readEnd, body,
                   stored, answer, verdict>>

\* UploadFile returns, and the handler turns the result into its answer.
Return(to, v) ==
    /\ transport' = to
    /\ verdict' = v
    /\ UNCHANGED <<size, timed, sent, gone, writer, got, cause, body, stored,
                   answer>>

\* Mutated form: the pipe is left open.
BuildFails_Open ==
    /\ transport = "build"
    /\ Return("failed", "retry")
    /\ UNCHANGED readEnd

\* It fails: pr.CloseWithError.
BuildFails ==
    /\ transport = "build"
    /\ Return("failed", "retry")
    /\ readEnd' = TRUE

AfterTake(w) == IF w = "boundary" THEN "closing" ELSE "read"

\* The transport reads what the writer is offering and sends it on; both
\* wait until the NAS takes it.
Take ==
    /\ transport = "sending" /\ ~readEnd
    /\ writer \in Blocked
    /\ writer' = AfterTake(writer)
    /\ body' = [body EXCEPT !.data = IF writer = "write" THEN @ + 1 ELSE @]
    /\ UNCHANGED <<size, timed, sent, gone, got, cause, readEnd, transport,
                   stored, answer, verdict>>

\* The transport reads EOF.
EndBody ==
    /\ transport = "sending" /\ ~readEnd
    /\ writer = "done" /\ cause = "none"
    /\ transport' = "waiting"
    /\ body' = [body EXCEPT !.ended = TRUE]
    /\ UNCHANGED <<size, timed, sent, gone, writer, got, cause, readEnd,
                   stored, answer, verdict>>

\* The transport reads the writer's error: it breaks the NAS connection off
\* without the last chunk, and Do returns that error.  The handler answers
\* 413 for the limit, and isRetryableUploadError holds of the others.
BodyError ==
    /\ transport = "sending" /\ ~readEnd
    /\ writer = "done" /\ cause # "none"
    /\ readEnd' = TRUE
    /\ Return("returned", IF cause = "limit" THEN "fail" ELSE "retry")

\* The NAS connection breaks.
Break ==
    /\ transport \in {"sending", "waiting"}
    /\ readEnd' = TRUE
    /\ Return("returned", "retry")

\* Mutated form: the request is not built with the browser's context.
Cancelled_Timed == timed

\* The context is done: the deadline has passed, or the browser is gone and
\* the server, which watches the connection only once the handler has read
\* the body to its end, has noticed.
Cancelled == timed \/ (gone /\ got = size /\ writer # "write")

Cancel == Cancelled /\ Break

\* isRetryableUploadError: only an error the NAS itself reported is final.
VerdictOf(a) ==
    CASE a = "success" -> "ok"
      [] a = "error" -> "fail"
      [] a = "garbled" -> "retry"

\* Do returns the NAS's answer, perhaps with the body half sent.
NASAnswered ==
    /\ transport \in {"sending", "waiting"}
    /\ answer # "none"
    /\ Return("returned", VerdictOf(answer))
    /\ UNCHANGED readEnd

\* The transport closes a body it no longer sends.
CloseRead ==
    /\ transport = "returned" /\ ~readEnd
    /\ readEnd' = TRUE
    /\ UNCHANGED <<size, timed, sent, gone, writer, got, cause, transport,
                   body, stored, answer, verdict>>

-----------------------------------------------------------------------------
(* The NAS                                                                 *)

\* It has the whole body and puts the file in its place, also when the proxy
\* has stopped waiting.
Store ==
    /\ body.ended /\ stored = Nothing /\ answer = "none"
    /\ stored' = body.data
    /\ UNCHANGED <<size, timed, sent, gone, writer, got, cause, readEnd,
                   transport, body, answer, verdict>>

\* It answers: success once the file is stored, an error only if it is not,
\* or something that is not the expected JSON (a gateway's page).
Reply(a) ==
    /\ transport \in {"sending", "waiting"}
    /\ answer = "none"
    /\ a = "success" => stored # Nothing
    /\ a = "error" => stored = Nothing
    /\ answer' = a
    /\ UNCHANGED <<size, timed, sent, gone, writer, got, cause, readEnd,
                   transport, body, stored, verdict>>

PipeNext ==
    \/ Send \/ Go
    \/ Writer
    \/ Build \/ BuildFails \/ Take \/ EndBody \/ BodyError \/ Break \/ Cancel
    \/ NASAnswered \/ CloseRead
    \/ Store
    \/ \E a \in {"success", "error", "garbled"} : Reply(a)

PipeSpec == PipeInit /\ [][PipeNext]_pipeVars

\* Goroutines run; the browser sends on or goes; what is sent to the NAS is
\* taken, or the connection breaks.  The NAS need not answer.
PipeFairness ==
    /\ WF_pipeVars(Send \/ Go)
    /\ WF_pipeVars(Writer)
    /\ WF_pipeVars(Build \/ BuildFails)
    /\ WF_pipeVars(Take \/ EndBody \/ BodyError)
    /\ WF_pipeVars(NASAnswered) /\ WF_pipeVars(Cancel) /\ WF_pipeVars(CloseRead)

PipeFairSpec == PipeSpec /\ PipeFairness

-----------------------------------------------------------------------------
(* Properties                                                              *)

\* The stored copy as the abstract promise sees it.
StoredCopy == IF stored = Nothing THEN "none"
              ELSE IF stored = size THEN "whole" ELSE "part"

Transfer == INSTANCE FileTransfer WITH copy <- StoredCopy

\* Each upload keeps the promise of FileTransfer: whatever fails in whatever
\* order, half a file is never stored, "ok" means stored, and a final error
\* (413 or the NAS's own) means that the file is not there and never will be.
ImplementsFileTransfer == Transfer!Spec

\* "no unbounded goroutines, no unclosed io.Pipe" (doc/spec.md:287-291): the
\* writer goroutine ends, wherever the reader of its pipe gave up.
WriterEnds == <>(writer = "done")

\* An upload whose browser has gone comes to an end, and its slot is given
\* back, although the NAS may never answer.
GoneEndsCall == gone ~> verdict # "open"
=============================================================================
