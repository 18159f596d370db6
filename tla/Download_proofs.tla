--------------------------- MODULE Download_proofs ---------------------------
(***************************************************************************)
(* The lemmas about downloads that BrowsePages_proofs builds on, for       *)
(* bodies of any length: a browser that was told the length never takes a  *)
(* part for the whole, and an archive is fetched only when it is finished. *)
(***************************************************************************)
EXTENDS Download, TLAPS

USE MaxBodyNatural DEF MaxBodyNatural

\* The calls of a route end in its fetch, and only a zip starts a job.
LEMMA CallsOfRoutes ==
    ASSUME NEW r \in Routes
    PROVE  /\ Len(Calls[r]) \in 1 .. 5
           /\ \A i \in 1 .. Len(Calls[r]) :
                 Calls[r][i] = "fetch" <=> i = Len(Calls[r])
           /\ \A i \in 1 .. Len(Calls[r]) :
                 Calls[r][i] \in {"start", "poll"} => r = "zip"
  BY DEF Calls, Routes, FileCalls, FolderCalls, ThumbCalls, ItemsCalls,
         AlbumCalls, DriveFileCalls, ZipCalls

LEMMA CallsOfZip == Calls["zip"] = <<"permission", "dryrun", "start", "poll", "fetch">>
  BY DEF Calls, Routes, ZipCalls

\* The polling is over only when the job is.
JobInv ==
    route = "zip" =>
        /\ Call = "poll" /\ answer = "yes" => job = "finished"
        /\ Call = "fetch" => job = "finished"

\* Nothing is copied or told before the fetch was answered, and a reply says
\* its length when the NAS did.
ReplyInv ==
    /\ at \in {"asking", "pausing"} => copied = 0 /\ outcome = "open"
    /\ at = "copying" => outcome = "open" /\ Call = "fetch"
    /\ (at = "copying" /\ body.sized /\ route # "thumb") => declared
    /\ WholeOrBroken

DownloadInv == DownloadTypeOK /\ JobInv /\ ReplyInv

LEMMA DownloadInitially == DownloadInit => DownloadInv
  <1> SUFFICES ASSUME DownloadInit PROVE DownloadInv
    OBVIOUS
  <1>1. route \in Routes
    BY DEF DownloadInit
  <1>2. 1 \in 1 .. Len(Calls[route])
    BY <1>1, CallsOfRoutes
  <1>3. body \in Bodies
    BY DEF DownloadInit, NoBody, Bodies
  <1>4. DownloadTypeOK
    <2>1. step \in 1 .. Len(Calls[route])
      BY <1>2 DEF DownloadInit
    <2>2. copied \in 0 .. body.size
      BY DEF DownloadInit, NoBody
    <2> QED
      BY <1>1, <1>3, <2>1, <2>2 DEF DownloadInit, DownloadTypeOK
  <1>5. JobInv
    BY CallsOfZip DEF DownloadInit, JobInv, Call
  <1>6. ReplyInv
    BY DEF DownloadInit, ReplyInv, WholeOrBroken
  <1> QED
    BY <1>4, <1>5, <1>6 DEF DownloadInv

\* A call that is not the fetch has one after it.
LEMMA NextCallExists ==
    ASSUME DownloadTypeOK, Call # "fetch"
    PROVE  step + 1 \in 1 .. Len(Calls[route])
  <1>1. step # Len(Calls[route])
    BY CallsOfRoutes DEF DownloadTypeOK, Call
  <1> QED
    BY <1>1, CallsOfRoutes DEF DownloadTypeOK

LEMMA NASStep ==
    ASSUME DownloadInv, Answer \/ JobEnds
    PROVE  DownloadInv'
  <1> USE DEF DownloadInv
  <1>1. Call' = Call /\ step' = step /\ route' = route
    BY DEF Answer, JobEnds, Call
  <1>2. CASE Answer
    <2> USE DEF Denied, Granted, JobStarted, JobPolled, BodyBegins
    <2>1. body' \in Bodies /\ copied' \in 0 .. body'.size
      <3>1. CASE body' = body
        BY <1>2, <3>1 DEF DownloadTypeOK, Answer
      <3>2. CASE body' \in Bodies
        BY <1>2, <3>2 DEF DownloadTypeOK, ReplyInv, Answer, Bodies
      <3> QED
        BY <1>2, <3>1, <3>2 DEF Answer
    <2>2. /\ answer' \in {"yes", "no", "busy"}
          /\ job' \in {job, "running"}
          /\ Call # "start" => job' = job
          /\ Call = "poll" /\ answer' = "yes" => job = "finished"
      BY <1>2 DEF Answer
    <2>3. DownloadTypeOK'
      BY <1>2, <2>1, <2>2, <1>1 DEF DownloadTypeOK, Answer
    <2>4. JobInv'
      BY <1>1, <1>2, <2>2 DEF JobInv
    <2>5. ReplyInv'
      BY <1>1, <1>2 DEF ReplyInv, WholeOrBroken, Answer
    <2> QED
      BY <2>3, <2>4, <2>5
  <1>3. CASE JobEnds
    <2>1. DownloadTypeOK'
      BY <1>1, <1>3 DEF DownloadTypeOK, JobEnds
    <2>2. JobInv' /\ ReplyInv'
      BY <1>1, <1>3 DEF JobInv, ReplyInv, WholeOrBroken, JobEnds
    <2> QED
      BY <2>1, <2>2
  <1> QED
    BY <1>2, <1>3

\* A return that says "complete" only for a whole body or an undeclared one.
LEMMA ReturningStep ==
    ASSUME DownloadInv, NEW seen \in {"open", "refused", "complete", "cut"},
           Returns(seen),
           seen = "complete" /\ body.sized /\ route # "thumb" =>
               copied = body.size,
           UNCHANGED <<route, step, job, body, declared, copied, here>>
    PROVE  DownloadInv'
  <1> USE DEF DownloadInv, Returns
  <1>1. Call' = Call
    BY DEF Call
  <1>2. DownloadTypeOK'
    BY DEF DownloadTypeOK
  <1>3. JobInv'
    BY <1>1 DEF JobInv
  <1>4. ReplyInv'
    BY <1>1 DEF ReplyInv, WholeOrBroken
  <1> QED
    BY <1>2, <1>3, <1>4

LEMMA EndingStep ==
    ASSUME DownloadInv,
           \/ Refused \/ Deadline \/ HandlerTimeout \/ Cancelled
           \/ \E broken \in BOOLEAN : CopyEnds(broken)
    PROVE  DownloadInv'
  <1> USE DEF DownloadInv
  <1>1. at # "over" /\ outcome \in {"open", "refused", "complete", "cut"}
    BY DEF DownloadTypeOK, Refused, Deadline, HandlerTimeout, Cancelled, CopyEnds
  <1>2. outcome = "open"
    BY <1>1 DEF DownloadTypeOK, ReplyInv
  <1>3. CASE Refused \/ Deadline \/ HandlerTimeout
    BY <1>2, <1>3, ReturningStep DEF Refused, Deadline, HandlerTimeout, Refuse
  <1>4. CASE Cancelled
    BY <1>2, <1>4, ReturningStep DEF Cancelled
  <1>5. CASE \E broken \in BOOLEAN : CopyEnds(broken)
    <2>1. PICK broken \in BOOLEAN : CopyEnds(broken)
      BY <1>5
    <2> DEFINE seen == CASE ~here -> outcome
                         [] here /\ declared /\ broken -> "cut"
                         [] OTHER -> "complete"
    <2>2. seen \in {"open", "refused", "complete", "cut"}
      BY <1>2
    <2>3. seen = "complete" => ~(declared /\ broken)
      BY <1>2
    <2>4. seen = "complete" /\ body.sized /\ route # "thumb" =>
              copied = body.size
      BY <2>1, <2>3 DEF ReplyInv, DownloadTypeOK, CopyEnds, Bodies
    <2>5. /\ Returns(seen)
          /\ UNCHANGED <<route, step, job, body, declared, copied, here>>
      BY <2>1 DEF CopyEnds
    <2> HIDE DEF seen
    <2> QED
      BY <2>2, <2>4, <2>5, ReturningStep
  <1> QED
    BY <1>3, <1>4, <1>5

LEMMA WorkingStep ==
    ASSUME DownloadInv, NextCall \/ Pause \/ PollAgain \/ StartCopy \/ Copy \/ Leave
    PROVE  DownloadInv'
  <1> USE DEF DownloadInv
  <1>1. CASE NextCall
    <2>1. step' \in 1 .. Len(Calls[route]) /\ route' = route
      BY <1>1, NextCallExists DEF NextCall
    <2>2. DownloadTypeOK'
      BY <1>1, <2>1 DEF DownloadTypeOK, NextCall
    <2>3. JobInv'
      <3>1. route = "zip" /\ Call' = "fetch" => Call = "poll"
        BY <1>1, <2>1, CallsOfZip DEF DownloadTypeOK, NextCall, Call
      <3> QED
        BY <1>1, <3>1 DEF JobInv, NextCall, Done
    <2>4. ReplyInv'
      BY <1>1 DEF ReplyInv, WholeOrBroken, NextCall
    <2> QED
      BY <2>2, <2>3, <2>4
  <1>2. CASE Pause \/ PollAgain \/ Leave
    <2>1. Call' = Call
      BY <1>2 DEF Pause, PollAgain, Leave, Call
    <2>2. DownloadTypeOK'
      BY <1>2 DEF DownloadTypeOK, Pause, PollAgain, Leave
    <2>3. JobInv' /\ ReplyInv'
      BY <1>2, <2>1 DEF JobInv, ReplyInv, WholeOrBroken, Pause, PollAgain,
                        Leave
    <2> QED
      BY <2>2, <2>3
  <1>3. CASE StartCopy \/ Copy
    <2>1. Call' = Call
      BY <1>3 DEF StartCopy, Copy, Call
    <2>2. DownloadTypeOK'
      <3>1. body.sized \in BOOLEAN /\ body.size \in Nat
        BY DEF DownloadTypeOK, Bodies
      <3>2. declared' \in BOOLEAN
        BY <1>3, <3>1 DEF DownloadTypeOK, StartCopy, Copy, Forwarded
      <3> QED
        BY <1>3, <3>1, <3>2 DEF DownloadTypeOK, StartCopy, Copy
    <2>3. JobInv' /\ ReplyInv'
      BY <1>3, <2>1 DEF JobInv, ReplyInv, WholeOrBroken, StartCopy, Copy,
                        Forwarded
    <2> QED
      BY <2>2, <2>3
  <1> QED
    BY <1>1, <1>2, <1>3

LEMMA DownloadStep == DownloadInv /\ [DownloadNext]_downloadVars => DownloadInv'
  <1> SUFFICES ASSUME DownloadInv, [DownloadNext]_downloadVars PROVE DownloadInv'
    OBVIOUS
  <1>1. CASE UNCHANGED downloadVars
    BY <1>1 DEF DownloadInv, DownloadTypeOK, JobInv, ReplyInv, WholeOrBroken,
                Call, downloadVars
  <1>2. CASE DownloadNext
    BY <1>2, NASStep, EndingStep, WorkingStep DEF DownloadNext, Handler
  <1> QED
    BY <1>1, <1>2

\* What the invariant is for.
LEMMA DownloadInvGives ==
    DownloadInv => DownloadTypeOK /\ WholeOrBroken /\ ArchiveIsFinished
  BY DEF DownloadInv, JobInv, ReplyInv, ArchiveIsFinished
=============================================================================
