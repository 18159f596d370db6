-------------------------- MODULE FileTransfer_proofs --------------------------
(***************************************************************************)
(* Proofs that both levels of an upload keep the promise of FileTransfer.  *)
(*                                                                         *)
(* Below, the streamed body (UploadPipe), for any limit and any size of    *)
(* file: half a file is never stored and a final verdict is true for ever. *)
(* Above, the upload pages of file sharing and photo requests              *)
(* (PlainUpload), for any finite set of files and any number of clicks:    *)
(* what they show of an attempt is what the NAS has of it.                 *)
(***************************************************************************)
EXTENDS UploadPipe, PlainUpload, FiniteSetTheorems, SequenceTheorems, TLAPS

USE SizesNatural DEF SizesNatural

\* What the NAS has received, read off where the writer stands: a write that
\* was not read yet is one chunk behind, and a body that is closed without an
\* error is the whole file.
BodyInv ==
    /\ writer = "head" => got = 0 /\ body.data = 0
    /\ writer = "read" => body.data = got
    /\ writer = "write" => body.data + 1 = got
    /\ (writer \in {"boundary", "closing", "done"} /\ cause = "none") =>
          body.data = size
    /\ body.ended => writer = "done" /\ body.data = size

\* Where the transport stands, what the handler has said and what the NAS may
\* still do.
VerdictInv ==
    /\ verdict = "open" <=> transport \in {"build", "sending", "waiting"}
    /\ body.ended => transport \in {"waiting", "returned"}
    /\ transport \in {"build", "failed"} => answer = "none"
    /\ stored # Nothing => body.ended /\ stored = size
    /\ answer = "success" => stored # Nothing
    /\ answer = "error" => stored = Nothing
    /\ verdict = "ok" => stored # Nothing
    /\ verdict = "fail" => /\ stored = Nothing
                           /\ ~body.ended \/ answer = "error"

PipeInv == PipeTypeOK /\ BodyInv /\ VerdictInv

LEMMA PipeInitially == PipeInit => PipeInv
  <1> SUFFICES ASSUME PipeInit PROVE PipeInv
    OBVIOUS
  <1>1. PipeTypeOK
    <2>1. size \in 0 .. MaxSize
      BY DEF PipeInit
    <2>2. body \in [data : Nat, ended : BOOLEAN]
      BY DEF PipeInit
    <2>3. sent \in 0 .. size /\ got \in 0 .. sent
      BY <2>1 DEF PipeInit
    <2> QED
      BY <2>1, <2>2, <2>3 DEF PipeInit, PipeTypeOK, Blocked, Verdicts
  <1>2. BodyInv /\ VerdictInv
    BY DEF PipeInit, BodyInv, VerdictInv, Nothing
  <1> QED
    BY <1>1, <1>2 DEF PipeInv

-----------------------------------------------------------------------------
(* Each process preserves the invariant *)

LEMMA BrowserStep ==
    ASSUME PipeInv, Send \/ Go
    PROVE  PipeInv'
  <1>1. PipeTypeOK'
    <2>1. CASE Send
      BY <2>1 DEF PipeInv, PipeTypeOK, Send
    <2>2. CASE Go
      BY <2>2 DEF PipeInv, PipeTypeOK, Go
    <2> QED
      BY <2>1, <2>2
  <1>2. BodyInv' /\ VerdictInv'
    BY DEF PipeInv, BodyInv, VerdictInv, Send, Go
  <1> QED
    BY <1>1, <1>2 DEF PipeInv

LEMMA WriterStep ==
    ASSUME PipeInv, Writer
    PROVE  PipeInv'
  <1> USE DEF PipeInv, Writes
  <1>1. VerdictInv'
    BY DEF VerdictInv, Writer, ReadChunk, ReadEnd, ReadFails, WriteFails,
           CloseWrite
  <1>2. CASE ReadChunk
    <2>1. PipeTypeOK'
      BY <1>2 DEF PipeTypeOK, ReadChunk, Blocked, Verdicts
    <2>2. BodyInv'
      BY <1>2 DEF PipeTypeOK, BodyInv, ReadChunk
    <2> QED
      BY <1>1, <2>1, <2>2
  <1>3. CASE ReadEnd
    <2>1. PipeTypeOK'
      BY <1>3 DEF PipeTypeOK, ReadEnd, Blocked, Verdicts
    <2>2. BodyInv'
      BY <1>3 DEF PipeTypeOK, BodyInv, ReadEnd
    <2> QED
      BY <1>1, <2>1, <2>2
  <1>4. CASE ReadFails
    <2>1. PipeTypeOK' /\ cause' # "none"
      BY <1>4 DEF PipeTypeOK, ReadFails, SourceErrors, Blocked, Verdicts
    <2>2. BodyInv'
      BY <1>4, <2>1 DEF BodyInv, ReadFails
    <2> QED
      BY <1>1, <2>1, <2>2
  <1>5. CASE WriteFails
    <2>1. PipeTypeOK'
      BY <1>5 DEF PipeTypeOK, WriteFails, Blocked, Verdicts
    <2>2. BodyInv'
      BY <1>5 DEF BodyInv, WriteFails, Blocked
    <2> QED
      BY <1>1, <2>1, <2>2
  <1>6. CASE CloseWrite
    <2>1. PipeTypeOK'
      BY <1>6 DEF PipeTypeOK, CloseWrite, Blocked, Verdicts
    <2>2. BodyInv'
      BY <1>6 DEF BodyInv, CloseWrite
    <2> QED
      BY <1>1, <2>1, <2>2
  <1> QED
    BY <1>2, <1>3, <1>4, <1>5, <1>6 DEF Writer

LEMMA SendingStep ==
    ASSUME PipeInv, Build \/ Take \/ EndBody \/ CloseRead
    PROVE  PipeInv'
  <1> USE DEF PipeInv
  <1>1. CASE Build \/ CloseRead
    <2>1. PipeTypeOK'
      BY <1>1 DEF PipeTypeOK, Build, CloseRead, Verdicts
    <2>2. BodyInv' /\ VerdictInv'
      BY <1>1 DEF BodyInv, VerdictInv, Build, CloseRead
    <2> QED
      BY <2>1, <2>2
  <1>2. CASE Take
    <2>1. /\ body' \in [data : Nat, ended : BOOLEAN]
          /\ body'.ended = body.ended
          /\ writer = "write" => body'.data = body.data + 1
          /\ writer # "write" => body'.data = body.data
      BY <1>2 DEF PipeTypeOK, Take
    <2>2. PipeTypeOK'
      BY <1>2, <2>1 DEF PipeTypeOK, Take, AfterTake, Blocked, Verdicts
    <2>3. ~body.ended
      BY <1>2 DEF BodyInv, Take, Blocked
    <2>4. BodyInv'
      BY <1>2, <2>1, <2>3 DEF BodyInv, PipeTypeOK, Take, AfterTake, Blocked
    <2>5. VerdictInv'
      BY <1>2, <2>1 DEF VerdictInv, Take
    <2> QED
      BY <2>2, <2>4, <2>5
  <1>3. CASE EndBody
    <2>1. /\ body' \in [data : Nat, ended : BOOLEAN]
          /\ body'.ended = TRUE /\ body'.data = body.data
      BY <1>3 DEF PipeTypeOK, EndBody
    <2>2. PipeTypeOK'
      BY <1>3, <2>1 DEF PipeTypeOK, EndBody, Verdicts
    <2>3. BodyInv'
      BY <1>3, <2>1 DEF BodyInv, EndBody
    <2>4. VerdictInv'
      BY <1>3, <2>1 DEF VerdictInv, EndBody
    <2> QED
      BY <2>2, <2>3, <2>4
  <1> QED
    BY <1>1, <1>2, <1>3

LEMMA VerdictStep ==
    ASSUME PipeInv, BuildFails \/ BodyError \/ Break \/ Cancel \/ NASAnswered
    PROVE  PipeInv'
  <1> USE DEF PipeInv, Return
  <1>1. PipeTypeOK'
    BY DEF PipeTypeOK, BuildFails, BodyError, Break, Cancel, NASAnswered, VerdictOf,
           Verdicts
  <1>2. BodyInv'
    BY DEF BodyInv, BuildFails, BodyError, Break, Cancel, NASAnswered
  <1>3. CASE BuildFails \/ Break \/ Cancel
    BY <1>1, <1>2, <1>3 DEF VerdictInv, BuildFails, Break, Cancel
  <1>4. CASE BodyError
    <2>1. ~body.ended /\ stored = Nothing
      BY <1>4 DEF VerdictInv, BodyError
    <2> QED
      BY <1>1, <1>2, <1>4, <2>1 DEF VerdictInv, BodyError
  <1>5. CASE NASAnswered
    <2>1. /\ verdict' = "ok" => answer = "success"
          /\ verdict' = "fail" => answer = "error"
          /\ verdict' # "open"
      BY <1>5 DEF NASAnswered, VerdictOf, PipeTypeOK
    <2> QED
      BY <1>1, <1>2, <1>5, <2>1 DEF VerdictInv, NASAnswered
  <1> QED
    BY <1>3, <1>4, <1>5

LEMMA PipeNASStep ==
    ASSUME PipeInv,
           \/ Store
           \/ \E a \in {"success", "error", "garbled"} : Reply(a)
    PROVE  PipeInv'
  <1> USE DEF PipeInv
  <1>1. BodyInv'
    BY DEF BodyInv, Store, Reply
  <1>2. CASE Store
    <2>1. PipeTypeOK'
      BY <1>2 DEF PipeTypeOK, Store, Verdicts
    <2>2. VerdictInv'
      BY <1>2 DEF VerdictInv, BodyInv, PipeTypeOK, Store, Nothing
    <2> QED
      BY <1>1, <2>1, <2>2
  <1>3. CASE \E a \in {"success", "error", "garbled"} : Reply(a)
    <2>1. PipeTypeOK'
      BY <1>3 DEF PipeTypeOK, Reply, Verdicts
    <2>2. VerdictInv'
      BY <1>3 DEF VerdictInv, Reply
    <2> QED
      BY <1>1, <2>1, <2>2
  <1> QED
    BY <1>2, <1>3

LEMMA PipeStep == PipeInv /\ [PipeNext]_pipeVars => PipeInv'
  <1> SUFFICES ASSUME PipeInv, [PipeNext]_pipeVars PROVE PipeInv'
    OBVIOUS
  <1>1. CASE UNCHANGED pipeVars
    BY <1>1 DEF PipeInv, PipeTypeOK, BodyInv, VerdictInv, pipeVars, Verdicts
  <1>2. CASE PipeNext
    BY <1>2, BrowserStep, WriterStep, SendingStep, VerdictStep, PipeNASStep DEF PipeNext
  <1> QED
    BY <1>1, <1>2

\* The invariant holds in every reachable state.
THEOREM PipeInvHolds == PipeSpec => []PipeInv
  BY PipeInitially, PipeStep, PTL DEF PipeSpec

\* Every variable keeps its type: in particular the writer never reads more
\* than the browser has sent.
THEOREM PipeTypeCorrect == PipeSpec => []PipeTypeOK
  <1>1. PipeInv => PipeTypeOK
    BY DEF PipeInv
  <1> QED
    BY <1>1, PipeInvHolds, PTL

-----------------------------------------------------------------------------
(* The refinement *)

LEMMA PipeInitRefines == PipeInit => Transfer!Init
  BY DEF PipeInit, Transfer!Init, StoredCopy, Nothing

LEMMA StepRefines ==
    ASSUME PipeInv, PipeInv', [PipeNext]_pipeVars
    PROVE  [Transfer!Next]_(Transfer!transfer)
  <1> USE DEF Transfer!transfer
  <1>1. CASE UNCHANGED pipeVars
    BY <1>1 DEF pipeVars, StoredCopy
  <1>2. CASE Store
    <2>1. StoredCopy = "none" /\ StoredCopy' = "whole"
      <3>1. stored = Nothing /\ stored' # Nothing /\ stored' = size'
        BY <1>2 DEF PipeInv, PipeTypeOK, VerdictInv, BodyInv, Store, Nothing
      <3> QED
        BY <3>1 DEF StoredCopy
    <2>2. verdict \in {"open", "retry"} /\ verdict' = verdict
      BY <1>2 DEF PipeInv, PipeTypeOK, VerdictInv, Store, Verdicts
    <2> QED
      BY <2>1, <2>2 DEF Transfer!Next, Transfer!Store
  <1>3. CASE BuildFails \/ BodyError \/ Break \/ Cancel \/ NASAnswered
    <2>1. StoredCopy' = StoredCopy
      BY <1>3 DEF BuildFails, BodyError, Break, Cancel, NASAnswered, Return, StoredCopy
    <2>2. verdict = "open"
      BY <1>3 DEF PipeInv, VerdictInv, BuildFails, BodyError, Break, Cancel,
                  NASAnswered
    <2>3. verdict' # "open" /\ verdict' \in Verdicts
      BY <1>3 DEF PipeInv, PipeTypeOK, BuildFails, BodyError, Break, Cancel,
                  NASAnswered, Return, VerdictOf, Verdicts
    <2>4. /\ verdict' = "ok" => StoredCopy' = "whole"
          /\ verdict' = "fail" => StoredCopy' = "none"
      <3>1. /\ verdict' = "ok" => stored' # Nothing
            /\ verdict' = "fail" => stored' = Nothing
        BY DEF PipeInv, VerdictInv
      <3>2. stored' # Nothing => stored' = size'
        BY DEF PipeInv, VerdictInv
      <3> QED
        BY <3>1, <3>2 DEF StoredCopy
    <2> QED
      BY <2>1, <2>2, <2>3, <2>4 DEF Transfer!Next, Transfer!Tell, Verdicts
  <1>4. CASE Send \/ Go \/ Writer \/ Build \/ Take \/ EndBody \/ CloseRead
    <2>1. UNCHANGED <<size, stored, verdict>>
      BY <1>4 DEF Send, Go, Writer, ReadChunk, ReadEnd, ReadFails, WriteFails,
                  CloseWrite, Writes, Build, Take, EndBody, CloseRead
    <2> QED
      BY <2>1 DEF StoredCopy
  <1>5. CASE \E a \in {"success", "error", "garbled"} : Reply(a)
    BY <1>5 DEF Reply, StoredCopy
  <1> QED
    BY <1>1, <1>2, <1>3, <1>4, <1>5 DEF PipeNext

\* The upload implements FileTransfer, for any limit, any file and whatever
\* fails: "ok" is said only of a stored file, a final error only of a file
\* that will never be stored, and no part of a file is ever stored.
THEOREM RefinesFileTransfer == PipeSpec => ImplementsFileTransfer
  <1>1. PipeSpec => []PipeInv
    BY PipeInvHolds
  <1>2. PipeInv /\ PipeInv' /\ [PipeNext]_pipeVars => [Transfer!Next]_(Transfer!transfer)
    BY StepRefines
  <1> QED
    BY <1>1, <1>2, PipeInitRefines, PTL DEF PipeSpec, ImplementsFileTransfer, Transfer!Spec

-----------------------------------------------------------------------------
(* The list and the sequences of the page                                  *)

\* Every place of the new array is that of a kept entry.
LEMMA RanksAreTaken ==
  ASSUME NEW n \in Nat, NEW places \in SUBSET (1 .. n)
  PROVE  /\ Cardinality(places) \in Nat
         /\ \A k \in 1 .. Cardinality(places) :
               \E i \in places : Rank(i, places) = k
  <1> DEFINE upto(i) == {j \in places : j <= i}
             m == Cardinality(places)
             rank == [i \in places |-> Rank(i, places)]
  <1>1. IsFiniteSet(places) /\ m \in Nat
    <2>1. IsFiniteSet(1 .. n)
      BY FS_Interval
    <2> QED
      BY <2>1, FS_Subset, FS_CardinalityType
  <1>2. \A i \in places : /\ IsFiniteSet(upto(i)) /\ Cardinality(upto(i)) \in Nat
                          /\ Cardinality(upto(i)) <= m
                          /\ Rank(i, places) = Cardinality(upto(i))
    BY <1>1, FS_Subset, FS_CardinalityType DEF Rank
  <1>3. \A i \in places : Rank(i, places) \in 1 .. m
    <2> TAKE i \in places
    <2>1. Cardinality(upto(i)) # 0
      <3>1. i \in upto(i)
        OBVIOUS
      <3> QED
        BY <1>2, <3>1, FS_EmptySet
    <2> QED
      BY <1>1, <1>2, <2>1
  <1>4. \A i, j \in places : i < j => Rank(i, places) # Rank(j, places)
    <2> SUFFICES ASSUME NEW i \in places, NEW j \in places, i < j
                 PROVE  Rank(i, places) # Rank(j, places)
      OBVIOUS
    <2>1. i \in Int /\ j \in Int /\ \A l \in places : l \in Int
      OBVIOUS
    <2>2. ASSUME NEW l \in upto(i) PROVE l \in upto(j)
      <3>1. l \in places /\ l <= i
        OBVIOUS
      <3>2. l <= j
        BY <2>1, <3>1
      <3> QED
        BY <3>1, <3>2
    <2>3. j \in upto(j) /\ j \notin upto(i)
      BY <2>1
    <2> HIDE DEF upto
    <2> QED
      BY <1>2, <2>2, <2>3, FS_Subset
  <1>5. rank \in Injection(places, 1 .. m)
    BY <1>3, <1>4 DEF Injection, IsInjective
  <1>6. IsFiniteSet(1 .. m) /\ Cardinality(1 .. m) = m
    BY <1>1, FS_Interval
  <1>7. rank \in Surjection(places, 1 .. m)
    <2> HIDE DEF rank
    <2> QED
      BY <1>5, <1>6, FS_Injection
  <1> QED
    BY <1>1, <1>7 DEF Surjection

\* A part of an array has its entries, from distinct places.
LEMMA EntriesKept ==
  ASSUME NEW S, NEW s \in Seq(S), NEW places \in SUBSET (1 .. Len(s))
  PROVE  /\ EntriesAt(s, places) \in Seq(S)
         /\ \E at \in [1 .. Len(EntriesAt(s, places)) -> places] :
               \A k \in 1 .. Len(EntriesAt(s, places)) :
                  /\ EntriesAt(s, places)[k] = s[at[k]]
                  /\ \A l \in 1 .. Len(EntriesAt(s, places)) : at[k] = at[l] => k = l
  <1> DEFINE m == Cardinality(places)
             at == [k \in 1 .. m |-> CHOOSE i \in places : Rank(i, places) = k]
             e == EntriesAt(s, places)
  <1>1. /\ m \in Nat
        /\ \A k \in 1 .. m : \E i \in places : Rank(i, places) = k
    BY RanksAreTaken, LenProperties
  <1>2. \A k \in 1 .. m : at[k] \in places /\ Rank(at[k], places) = k
    BY <1>1
  <1>3. e = [k \in 1 .. m |-> s[at[k]]]
    BY DEF EntriesAt
  <1>4. at \in [1 .. m -> places]
    BY <1>2
  <1> HIDE DEF at, e
  <1>5. \A k \in 1 .. m : s[at[k]] \in S
    <2>1. \A i \in 1 .. Len(s) : s[i] \in S
      BY ElementOfSeq
    <2> QED
      BY <1>2, <2>1
  <1>6. e \in [1 .. m -> S]
    BY <1>3, <1>5
  <1>7. e \in Seq(S) /\ Len(e) = m
    BY <1>1, <1>6, SeqDef, LenProperties
  <1>8. \A k \in 1 .. m : /\ e[k] = s[at[k]]
                          /\ \A l \in 1 .. m : at[k] = at[l] => k = l
    BY <1>1, <1>2, <1>3
  <1>9. at \in [1 .. Len(e) -> places]
    BY <1>4, <1>7
  <1> QED
    BY <1>7, <1>8, <1>9 DEF e

\* A part of a list has entries of the list only, and each once.
LEMMA PartOfList ==
  ASSUME NEW S, NEW s \in Seq(S), Distinct(s), NEW places \in SUBSET (1 .. Len(s)),
         NEW e, e = EntriesAt(s, places)
  PROVE  /\ e \in Seq(S)
         /\ Distinct(e)
         /\ \A k \in 1 .. Len(e) : \E i \in places : e[k] = s[i]
  <1>1. PICK at \in [1 .. Len(e) -> places] :
           \A k \in 1 .. Len(e) :
              /\ e[k] = s[at[k]]
              /\ \A l \in 1 .. Len(e) : at[k] = at[l] => k = l
    BY EntriesKept
  <1>2. ASSUME NEW k \in 1 .. Len(e), NEW l \in 1 .. Len(e), e[k] = e[l]
        PROVE  k = l
    <2>1. at[k] \in 1 .. Len(s) /\ at[l] \in 1 .. Len(s)
      OBVIOUS
    <2>2. s[at[k]] = s[at[l]]
      BY <1>1, <1>2
    <2>3. at[k] = at[l]
      BY <2>1, <2>2 DEF Distinct
    <2> QED
      BY <1>1, <2>3
  <1> QED
    BY <1>1, <1>2, EntriesKept DEF Distinct

LEMMA ElementsOf ==
  ASSUME NEW S, NEW s \in Seq(S)
  PROVE  /\ Elements(s) \subseteq S
         /\ Len(s) \in Nat /\ DOMAIN s = 1 .. Len(s)
         /\ \A i \in 1 .. Len(s) : s[i] \in S /\ s[i] \in Elements(s)
         /\ \A f \in Elements(s) : \E i \in 1 .. Len(s) : s[i] = f
  BY LenProperties, ElementOfSeq DEF Elements

-----------------------------------------------------------------------------
(* The invariant of the pages                                              *)

\* The list, and the batches taken from it.
ListInv ==
    /\ Distinct(files)
    /\ \A i \in 1 .. Len(files) : status[files[i]] # "absent"
    /\ \A b \in Batches : Distinct(items[b])

\* What the NAS has of an attempt when its request is at w.
Told(w, c) ==
    /\ w \in {"sent", "checking", "fail", "refused"} => c = "none"
    /\ w = "transfer" => c \in {"none", "stored"}
    /\ w = "ok" => c = "stored"

\* A batch that sends has one attempt more than the page has classes for.
SendInv ==
    \A b \in Batches :
       /\ stage[b] = "new" => shown[b] = <<>>
       /\ stage[b] = "sending" =>
             /\ call[b] # "idle"
             /\ Index(b) <= Len(items[b])
             /\ Len(copy[b]) = Index(b)
             /\ Told(call[b], copy[b][Index(b)])
       /\ stage[b] # "sending" => call[b] = "idle" /\ Len(copy[b]) = Len(shown[b])

\* A class that is final is true of the copy.
Honest(class, c) ==
    /\ class = "done" => c = "stored"
    /\ class = "error" => c = "none"

\* f is stored by an attempt the page has seen the answer of.
StoredAttempt(f) ==
    \E b \in Batches : \E i \in 1 .. Len(shown[b]) :
        i <= Len(items[b]) /\ items[b][i] = f /\ copy[b][i] = "stored"

ShownInv ==
    /\ \A b \in Batches : \A i \in 1 .. Len(shown[b]) : Honest(shown[b][i], copy[b][i])
    /\ \A f \in Files : status[f] = "done" => StoredAttempt(f)

Sending(b) == stage[b] = "sending"

\* What one batch at a time adds: only the current entry is being sent, and
\* those that follow it were not sent by another batch.
Alone ==
    /\ \A b, c \in Batches : Sending(b) /\ Sending(c) => b = c
    /\ \A f \in Files : status[f] = "uploading" =>
          \E b \in Batches : Sending(b) /\ f = Current(b)
    /\ \A b \in Batches : Sending(b) =>
          \A j \in 1 .. Len(items[b]) :
             j > Index(b) => status[items[b][j]] \in {"pending", "retryable"}

PageInv == TypeOK /\ ListInv /\ SendInv /\ ShownInv /\ (~parallel => Alone)

Copies == {"none", "late", "stored"}
CallStates == {"idle", "sent", "checking", "transfer"} \cup Replies
Statuses == Classes \cup {"absent", "pending", "uploading"}

LEMMA ListFacts ==
  ASSUME TypeOK, NEW b \in Batches
  PROVE  /\ items[b] \in Seq(Files) /\ Len(items[b]) \in Nat
         /\ shown[b] \in Seq(Classes) /\ Len(shown[b]) \in Nat
         /\ copy[b] \in Seq(Copies) /\ Len(copy[b]) \in Nat
         /\ DOMAIN copy[b] = 1 .. Len(copy[b])
         /\ DOMAIN shown[b] = 1 .. Len(shown[b])
         /\ DOMAIN items[b] = 1 .. Len(items[b])
         /\ \A i \in 1 .. Len(copy[b]) : copy[b][i] \in Copies
         /\ \A i \in 1 .. Len(shown[b]) : shown[b][i] \in Classes
         /\ \A i \in 1 .. Len(items[b]) : items[b][i] \in Files
  <1>1. items[b] \in Seq(Files) /\ shown[b] \in Seq(Classes) /\ copy[b] \in Seq(Copies)
    BY DEF TypeOK, Copies
  <1> QED
    BY <1>1, LenProperties, ElementOfSeq

-----------------------------------------------------------------------------
(* Steps of the proxy and the NAS                                          *)

\* The page stays; the request of b is at w; x is what the NAS has of the
\* attempts of b.
NASMoves(b, w, x) ==
    /\ UNCHANGED page
    /\ call' = [call EXCEPT ![b] = w] /\ w \in CallStates
    /\ copy' = [copy EXCEPT ![b] = x] /\ x \in Seq(Copies)
    /\ Len(x) = Len(copy[b])
    /\ \A i \in 1 .. Len(x) :
          \/ x[i] = copy[b][i]
          \/ i > Len(shown[b]) /\ copy[b][i] = "none"
          \/ copy[b][i] = "late" /\ x[i] = "stored"
    /\ stage[b] = "sending" => w # "idle" /\ Told(w, x[Index(b)])
    /\ stage[b] # "sending" => w = call[b]

LEMMA NASKeepsPage ==
  ASSUME PageInv, NEW b \in Batches, NEW w, NEW x, NASMoves(b, w, x)
  PROVE  PageInv'
  <1> USE DEF NASMoves, page
  <1>1. TypeOK /\ ListInv /\ SendInv /\ ShownInv /\ (~parallel => Alone)
    BY DEF PageInv
  <1>2. \A c \in Batches : /\ copy'[c] = IF c = b THEN x ELSE copy[c]
                           /\ call'[c] = IF c = b THEN w ELSE call[c]
    BY <1>1 DEF TypeOK
  <1>3. \A c \in Batches : Index(c)' = Index(c)
    BY DEF Index
  <1>4. \A c \in Batches : \A i \in 1 .. Len(shown[c]) :
           i \in 1 .. Len(copy[c]) /\ Len(copy[c]) \in Nat /\ Len(shown[c]) \in Nat
    BY <1>1, ListFacts DEF SendInv, Index
  <1>5. TypeOK'
    <2>1. copy' \in [Batches -> Seq({"none", "late", "stored"})]
      BY <1>1 DEF TypeOK, Copies
    <2>2. call' \in [Batches -> {"idle", "sent", "checking", "transfer"} \cup Replies]
      BY <1>1 DEF TypeOK, CallStates
    <2> QED
      BY <1>1, <2>1, <2>2 DEF TypeOK
  <1>6. ListInv'
    BY <1>1 DEF ListInv, Distinct
  <1>7. SendInv'
    <2> SUFFICES ASSUME NEW c \in Batches
                 PROVE  /\ stage[c] = "new" => shown[c] = <<>>
                        /\ stage[c] = "sending" =>
                             /\ call'[c] # "idle"
                             /\ Index(c) <= Len(items[c])
                             /\ Len(copy'[c]) = Index(c)
                             /\ Told(call'[c], copy'[c][Index(c)])
                        /\ stage[c] # "sending" =>
                             call'[c] = "idle" /\ Len(copy'[c]) = Len(shown[c])
      BY <1>3 DEF SendInv
    <2>1. CASE c = b
      BY <1>1, <1>2, <2>1 DEF SendInv
    <2>2. CASE c # b
      BY <1>1, <1>2, <2>2 DEF SendInv
    <2> QED
      BY <2>1, <2>2
  <1>8. ShownInv'
    <2>1. ASSUME NEW c \in Batches, NEW i \in 1 .. Len(shown[c])
          PROVE  /\ Honest(shown[c][i], copy'[c][i])
                 /\ copy[c][i] = "stored" => copy'[c][i] = "stored"
      <3>1. Honest(shown[c][i], copy[c][i])
        BY <1>1 DEF ShownInv
      <3>2. CASE c # b
        BY <1>2, <3>1, <3>2
      <3>3. CASE c = b
        <4>1. i \in 1 .. Len(x) /\ ~(i > Len(shown[b]))
          BY <1>4, <3>3
        <4>2. x[i] = copy[b][i] \/ (copy[b][i] = "late" /\ x[i] = "stored")
          BY <4>1
        <4> QED
          BY <1>2, <3>1, <3>3, <4>2 DEF Honest
      <3> QED
        BY <3>2, <3>3
    <2>2. \A f \in Files : StoredAttempt(f) => StoredAttempt(f)'
      BY <2>1 DEF StoredAttempt
    <2>3. \A f \in Files : status'[f] = "done" => StoredAttempt(f)'
      BY <1>1, <2>2 DEF ShownInv
    <2>4. \A c \in Batches : \A i \in 1 .. Len(shown'[c]) :
             Honest(shown'[c][i], copy'[c][i])
      BY <2>1
    <2> QED
      BY <2>3, <2>4 DEF ShownInv
  <1>9. (~parallel => Alone)'
    BY <1>1, <1>3 DEF Alone, Sending, Current
  <1> QED
    BY <1>5, <1>6, <1>7, <1>8, <1>9 DEF PageInv

\* The request moves on and the NAS does nothing.
LEMMA RequestMoves ==
  ASSUME PageInv, NEW b \in Batches, NEW w \in CallStates \ {"idle"},
         Becomes(b, w), call[b] # "idle", Told(w, copy[b][Index(b)]), copy' = copy
  PROVE  NASMoves(b, w, copy[b])
  <1>1. copy[b] \in Seq(Copies) /\ copy' = [copy EXCEPT ![b] = copy[b]]
    BY ListFacts DEF PageInv, TypeOK
  <1>2. stage[b] = "sending"
    BY DEF PageInv, SendInv
  <1> QED
    BY <1>1, <1>2 DEF NASMoves, Becomes

\* The k-th attempt of b changes at the NAS, and the request is at w.
LEMMA CopyMoves ==
  ASSUME PageInv, NEW b \in Batches, NEW w \in CallStates,
         UNCHANGED page, call' = [call EXCEPT ![b] = w],
         NEW k \in 1 .. Len(copy[b]), NEW v \in {"late", "stored"},
         copy' = [copy EXCEPT ![b][k] = v],
         \/ stage[b] = "sending" /\ k = Index(b) /\ copy[b][k] = "none"
         \/ copy[b][k] = "late" /\ v = "stored",
         stage[b] = "sending" =>
            w # "idle" /\ Told(w, IF k = Index(b) THEN v ELSE copy[b][Index(b)]),
         stage[b] # "sending" => w = call[b]
  PROVE  NASMoves(b, w, [copy[b] EXCEPT ![k] = v])
  <1> DEFINE x == [copy[b] EXCEPT ![k] = v]
  <1>1. copy[b] \in Seq(Copies) /\ Len(copy[b]) \in Nat /\ Len(shown[b]) \in Nat
    BY ListFacts DEF PageInv
  <1>2. /\ x \in Seq(Copies) /\ Len(x) = Len(copy[b])
        /\ \A i \in 1 .. Len(copy[b]) : x[i] = IF i = k THEN v ELSE copy[b][i]
    <2>1. v \in Copies
      BY DEF Copies
    <2> QED
      BY <1>1, <2>1, ExceptSeq
  <1>3. copy' = [copy EXCEPT ![b] = x]
    OBVIOUS
  <1>4. stage[b] = "sending" => Index(b) \in 1 .. Len(copy[b])
    BY <1>1 DEF PageInv, SendInv, Index
  <1> HIDE DEF x
  <1>5. stage[b] = "sending" => w # "idle" /\ Told(w, x[Index(b)])
    BY <1>2, <1>4
  <1>6. \A i \in 1 .. Len(x) :
          \/ x[i] = copy[b][i]
          \/ i > Len(shown[b]) /\ copy[b][i] = "none"
          \/ copy[b][i] = "late" /\ x[i] = "stored"
    BY <1>1, <1>2 DEF Index
  <1>7. NASMoves(b, w, x)
    BY <1>2, <1>3, <1>5, <1>6 DEF NASMoves
  <1> QED
    BY <1>7 DEF x

\* Every step of the proxy and the NAS is such a move.
NASStep(b) ==
    Refuse(b) \/ ServerStep(b) \/ Land(b) \/ LateStore(b) \/ Disconnect(b)

LEMMA NASStepMoves ==
  ASSUME PageInv, NEW b \in Batches, NASStep(b)
  PROVE  \E w, x : NASMoves(b, w, x)
  <1> USE DEF CallStates, Replies
  <1>1. /\ copy[b] \in Seq(Copies) /\ Len(copy[b]) \in Nat /\ Len(shown[b]) \in Nat
        /\ DOMAIN copy[b] = 1 .. Len(copy[b])
        /\ call[b] \in CallStates
    BY ListFacts DEF PageInv, TypeOK
  <1>2. call[b] # "idle" =>
           /\ stage[b] = "sending" /\ Index(b) \in 1 .. Len(copy[b])
           /\ Told(call[b], copy[b][Index(b)])
    BY <1>1 DEF PageInv, SendInv, Index
  <1>3. ASSUME NEW w \in CallStates \ {"idle"}, Becomes(b, w), call[b] # "idle",
               Told(w, copy[b][Index(b)]), copy' = copy
        PROVE  \E u, x : NASMoves(b, u, x)
    BY <1>3, RequestMoves
  <1>4. ASSUME NEW w \in {"retry", "lost"}, Becomes(b, w), call[b] # "idle",
               copy[b][Index(b)] = "none", MayBeLate(b)
        PROVE  \E u, x : NASMoves(b, u, x)
    <2>1. CASE copy' = copy
      BY <1>3, <1>4, <2>1 DEF Told
    <2>2. CASE copy' = [copy EXCEPT ![b][Index(b)] = "late"]
      <3> DEFINE k == Index(b)
      <3>1. /\ k \in 1 .. Len(copy[b]) /\ stage[b] = "sending" /\ k = Index(b)
            /\ copy[b][k] = "none" /\ copy' = [copy EXCEPT ![b][k] = "late"]
        BY <1>2, <1>4, <2>2
      <3>2. UNCHANGED page /\ call' = [call EXCEPT ![b] = w]
        BY <1>4 DEF Becomes
      <3>3. w # "idle" /\ Told(w, "late")
        BY <1>4 DEF Told
      <3> HIDE DEF k
      <3>4. Told(w, IF k = Index(b) THEN "late" ELSE copy[b][Index(b)])
        BY <3>1, <3>3
      <3>5. NASMoves(b, w, [copy[b] EXCEPT ![k] = "late"])
        BY <1>4, <3>1, <3>2, <3>3, <3>4, CopyMoves
      <3> QED
        BY <3>5
    <2> QED
      BY <1>4, <2>1, <2>2 DEF MayBeLate
  <1>5. CASE Refuse(b)
    BY <1>2, <1>3, <1>5 DEF Refuse, Told
  <1>6. CASE ReadSharingForm(b)
    BY <1>2, <1>3, <1>6 DEF ReadSharingForm, Told
  <1>7. CASE ReadPhotoForm(b)
    BY <1>2, <1>3, <1>7 DEF ReadPhotoForm, Told
  <1>8. CASE CheckPermission(b)
    BY <1>2, <1>3, <1>8 DEF CheckPermission, Told
  <1>9. CASE Tell(b)
    <2>1. CASE /\ copy[b][Index(b)] = "stored" /\ UNCHANGED copy
               /\ (Becomes(b, "ok") \/ Becomes(b, "retry"))
      BY <1>3, <1>9, <2>1 DEF Tell, Told
    <2>2. CASE /\ copy[b][Index(b)] = "none" /\ UNCHANGED copy
               /\ Becomes(b, "fail")
      BY <1>3, <1>9, <2>2 DEF Tell, Told
    <2>3. CASE /\ copy[b][Index(b)] = "none" /\ MayBeLate(b)
               /\ Becomes(b, "retry")
      BY <1>4, <1>9, <2>3 DEF Tell
    <2> QED
      BY <1>9, <2>1, <2>2, <2>3 DEF Tell
  <1>10. CASE Land(b)
    <2> DEFINE k == Index(b)
    <2>1. /\ call[b] = "transfer" /\ copy[b][k] = "none"
          /\ copy' = [copy EXCEPT ![b][k] = "stored"]
          /\ UNCHANGED page /\ call' = call
      BY <1>10 DEF Land
    <2>2. call' = [call EXCEPT ![b] = "transfer"]
      BY <2>1 DEF PageInv, TypeOK
    <2>3. k \in 1 .. Len(copy[b]) /\ stage[b] = "sending" /\ k = Index(b)
      BY <1>2, <2>1
    <2> HIDE DEF k
    <2>4. Told("transfer", IF k = Index(b) THEN "stored" ELSE copy[b][Index(b)])
      BY <2>3 DEF Told
    <2>5. NASMoves(b, "transfer", [copy[b] EXCEPT ![k] = "stored"])
      BY <2>1, <2>2, <2>3, <2>4, CopyMoves
    <2> QED
      BY <2>5
  <1>11. CASE LateStore(b)
    <2>1. PICK k \in 1 .. Len(copy[b]) :
             copy[b][k] = "late" /\ copy' = [copy EXCEPT ![b][k] = "stored"]
      BY <1>1, <1>11 DEF LateStore
    <2>2. UNCHANGED page /\ call' = [call EXCEPT ![b] = call[b]]
      BY <1>11 DEF LateStore, PageInv, TypeOK
    <2>3. stage[b] = "sending" =>
            /\ call[b] # "idle"
            /\ Told(call[b], IF k = Index(b) THEN "stored" ELSE copy[b][Index(b)])
      BY <1>2, <2>1 DEF PageInv, SendInv, Told
    <2>4. NASMoves(b, call[b], [copy[b] EXCEPT ![k] = "stored"])
      BY <1>1, <2>1, <2>2, <2>3, CopyMoves
    <2> QED
      BY <2>4
  <1>12. CASE Disconnect(b)
    <2>1. call[b] # "idle" /\ Becomes(b, "lost")
      BY <1>12 DEF Disconnect
    <2>2. CASE copy[b][Index(b)] = "none" /\ MayBeLate(b)
      BY <1>4, <2>1, <2>2
    <2>3. CASE UNCHANGED copy
      BY <1>3, <2>1, <2>3 DEF Told
    <2> QED
      BY <1>12, <2>2, <2>3 DEF Disconnect
  <1> QED
    BY <1>5, <1>6, <1>7, <1>8, <1>9, <1>10, <1>11, <1>12 DEF NASStep, ServerStep

-----------------------------------------------------------------------------
(* Steps of the page                                                       *)

\* f is stored by an attempt of another batch than b, or by one of the first
\* attempts of b, whose entries are its and whose classes are sh.
StoredFor(f, b, its, sh) ==
    \/ \E c \in Batches \ {b} : \E i \in 1 .. Len(shown[c]) :
          i <= Len(items[c]) /\ items[c][i] = f /\ copy[c][i] = "stored"
    \/ \E i \in 1 .. Len(sh) :
          i <= Len(its) /\ its[i] = f /\ copy[b][i] = "stored"

\* uploadSequential is called for batch b: its are the entries of b and sh the
\* classes of those that were answered, st the classes of the list.
Sends(b, its, sh, st, ban) ==
    /\ its \in Seq(Files) /\ Distinct(its)
    /\ sh \in Seq(Classes) /\ Len(sh) <= Len(its) /\ Len(copy[b]) = Len(sh)
    /\ st \in [Files -> Statuses] /\ ban \in BOOLEAN
    /\ UploadSequential(b, its, Len(sh) + 1, st, ban)
    /\ items' = [items EXCEPT ![b] = its]
    /\ shown' = [shown EXCEPT ![b] = sh]
    /\ Len(shown[b]) <= Len(sh)
    /\ \A i \in 1 .. Len(shown[b]) : sh[i] = shown[b][i]
    /\ its = items[b] \/ Len(sh) = 0
    /\ ban => banner
    /\ UNCHANGED <<service, unlocked, files>>
    /\ parallel' \in BOOLEAN /\ (parallel => parallel')
    /\ \A i \in 1 .. Len(sh) : Honest(sh[i], copy[b][i])
    /\ \A f \in Files : st[f] = "done" => StoredFor(f, b, its, sh)
    /\ \A i \in 1 .. Len(files) : st[files[i]] # "absent"
    /\ \A i \in 1 .. Len(its) : i > Len(sh) => st[its[i]] = status[its[i]]
    /\ ~parallel' =>
          /\ \A c \in Batches : Sending(c) => c = b
          /\ \A f \in Files : st[f] # "uploading"
          /\ \A i \in 1 .. Len(its) :
                i > Len(sh) => st[its[i]] \in {"pending", "retryable"}

\* What the call does, in the terms of the invariant.
LEMMA SendsNext ==
  ASSUME PageInv, NEW b \in Batches, NEW its, NEW sh, NEW st, NEW ban,
         Sends(b, its, sh, st, ban), Len(sh) < Len(its)
  PROVE  /\ status' = [st EXCEPT ![its[Len(sh) + 1]] = "uploading"]
         /\ its[Len(sh) + 1] \in Files
         /\ stage' = [stage EXCEPT ![b] = "sending"]
         /\ call' = [call EXCEPT ![b] = "sent"]
         /\ copy' = [copy EXCEPT ![b] = Append(copy[b], "none")]
         /\ banner' = ban /\ banner' \in BOOLEAN /\ enabled' \in BOOLEAN
  <1>1. Len(sh) \in Nat /\ Len(its) \in Nat /\ its \in Seq(Files)
    BY LenProperties DEF Sends
  <1>2. UploadSequential(b, its, Len(sh) + 1, st, ban) /\ ban \in BOOLEAN
    BY DEF Sends
  <1>3. Len(sh) + 1 <= Len(its) /\ ~(Len(sh) + 1 > Len(its))
    BY <1>1
  <1>4. its[Len(sh) + 1] \in Files
    <2>1. Len(sh) + 1 \in 1 .. Len(its)
      BY <1>1, <1>3
    <2> QED
      BY <1>1, <2>1, ElementOfSeq
  <1> DEFINE i == Len(sh) + 1
  <1> HIDE DEF i
  <1>5. /\ status' = [st EXCEPT ![its[i]] = "uploading"]
        /\ stage' = [stage EXCEPT ![b] = "sending"]
        /\ call' = [call EXCEPT ![b] = "sent"]
        /\ copy' = [copy EXCEPT ![b] = Append(@, "none")]
        /\ banner' = ban
        /\ enabled' = IF i = 1 THEN FALSE ELSE enabled
    BY <1>2, <1>3 DEF UploadSequential, i
  <1>6. enabled' \in BOOLEAN
    BY <1>5 DEF PageInv, TypeOK
  <1>7. banner' \in BOOLEAN
    BY <1>2, <1>5
  <1> QED
    BY <1>4, <1>5, <1>6, <1>7 DEF i

LEMMA SendsNoMore ==
  ASSUME PageInv, NEW b \in Batches, NEW its, NEW sh, NEW st, NEW ban,
         Sends(b, its, sh, st, ban), ~(Len(sh) < Len(its))
  PROVE  /\ status' = st
         /\ stage' = [stage EXCEPT ![b] = "over"]
         /\ call' = [call EXCEPT ![b] = "idle"]
         /\ copy' = copy
         /\ banner' /\ ~banner => NoneFailed(st)
         /\ banner' \in BOOLEAN
         /\ enabled' = TRUE
  <1>1. Len(sh) \in Nat /\ Len(its) \in Nat
    BY LenProperties DEF Sends
  <1>2. ~(Len(sh) + 1 <= Len(its))
    BY <1>1
  <1>3. /\ status' = st
        /\ stage' = [stage EXCEPT ![b] = "over"]
        /\ call' = [call EXCEPT ![b] = "idle"]
        /\ copy' = copy
        /\ banner' = (ban \/ NoneFailed(st))
        /\ enabled' = TRUE
    <2>1. UploadSequential(b, its, Len(sh) + 1, st, ban)
      BY DEF Sends
    <2> QED
      BY <1>2, <2>1, Zenon DEF UploadSequential
  <1>4. banner' \in BOOLEAN
    BY <1>3, Zenon DEF NoneFailed
  <1>5. banner' /\ ~banner => NoneFailed(st)
    <2>1. ban => banner
      BY DEF Sends
    <2> QED
      BY <1>3, <2>1, Zenon
  <1> QED
    BY <1>3, <1>4, <1>5, Zenon

LEMMA SendsKeepsPage ==
  ASSUME PageInv, NEW b \in Batches, NEW its, NEW sh, NEW st, NEW ban,
         Sends(b, its, sh, st, ban)
  PROVE  PageInv'
  <1> DEFINE more == Len(sh) < Len(its)
             next == its[Len(sh) + 1]
  <1>1. /\ TypeOK /\ ListInv /\ SendInv /\ ShownInv /\ (~parallel => Alone)
        /\ \A c \in Batches : /\ Len(copy[c]) \in Nat /\ copy[c] \in Seq(Copies)
                              /\ Len(shown[c]) \in Nat /\ shown[c] \in Seq(Classes)
    BY ListFacts DEF PageInv
  <1>2. /\ its \in Seq(Files) /\ Len(its) \in Nat /\ Distinct(its)
        /\ sh \in Seq(Classes) /\ Len(sh) \in Nat /\ Len(sh) <= Len(its)
        /\ Len(copy[b]) = Len(sh) /\ st \in [Files -> Statuses]
    BY LenProperties DEF Sends
  <1>3. /\ items' = [items EXCEPT ![b] = its] /\ shown' = [shown EXCEPT ![b] = sh]
        /\ UNCHANGED <<service, unlocked, files>>
        /\ parallel' \in BOOLEAN /\ (parallel => parallel')
    BY DEF Sends
  <1>4. /\ \A i \in 1 .. Len(sh) : Honest(sh[i], copy[b][i])
        /\ \A f \in Files : st[f] = "done" => StoredFor(f, b, its, sh)
        /\ \A i \in 1 .. Len(files) : st[files[i]] # "absent"
    BY DEF Sends
  <1>5. ~parallel' => /\ \A c \in Batches : Sending(c) => c = b
                      /\ \A f \in Files : st[f] # "uploading"
                      /\ \A i \in 1 .. Len(its) :
                            i > Len(sh) => st[its[i]] \in {"pending", "retryable"}
    BY DEF Sends
  <1>6. more => /\ status' = [st EXCEPT ![next] = "uploading"] /\ next \in Files
                /\ stage' = [stage EXCEPT ![b] = "sending"]
                /\ call' = [call EXCEPT ![b] = "sent"]
                /\ copy' = [copy EXCEPT ![b] = Append(copy[b], "none")]
    BY SendsNext
  <1>7. ~more => /\ status' = st
                 /\ stage' = [stage EXCEPT ![b] = "over"]
                 /\ call' = [call EXCEPT ![b] = "idle"]
                 /\ copy' = copy
    BY SendsNoMore
  <1>8. enabled' \in BOOLEAN /\ banner' \in BOOLEAN
    BY SendsNext, SendsNoMore
  <1>9. /\ Append(copy[b], "none") \in Seq(Copies)
        /\ Len(Append(copy[b], "none")) = Len(sh) + 1
        /\ \A i \in 1 .. Len(sh) : Append(copy[b], "none")[i] = copy[b][i]
        /\ Append(copy[b], "none")[Len(sh) + 1] = "none"
    <2>1. copy[b] \in Seq(Copies) /\ "none" \in Copies
      BY <1>1 DEF Copies
    <2> QED
      BY <1>2, <2>1, AppendProperties
  <1> DEFINE longer == Append(copy[b], "none")
  <1>0. Len(sh) + 1 \in 1 .. Len(its) \/ ~more
    BY <1>2
  <1> HIDE DEF more, next, longer
  <1>10. \A c \in Batches :
           /\ items'[c] = IF c = b THEN its ELSE items[c]
           /\ shown'[c] = IF c = b THEN sh ELSE shown[c]
           /\ stage'[c] = IF c # b THEN stage[c]
                          ELSE IF more THEN "sending" ELSE "over"
           /\ call'[c] = IF c # b THEN call[c]
                         ELSE IF more THEN "sent" ELSE "idle"
           /\ copy'[c] = IF c = b /\ more THEN longer ELSE copy[c]
    BY <1>1, <1>3, <1>6, <1>7 DEF TypeOK, longer
  <1>11. \A f \in Files :
           status'[f] = IF more /\ f = next THEN "uploading" ELSE st[f]
    BY <1>2, <1>6, <1>7
  <1>12. /\ longer \in Seq(Copies) /\ Len(longer) = Len(sh) + 1
         /\ \A i \in 1 .. Len(sh) : longer[i] = copy[b][i]
         /\ longer[Len(sh) + 1] = "none"
    BY <1>9 DEF longer
  <1>13. \A c \in Batches : Index(c)' = Len(shown'[c]) + 1
    BY DEF Index
  <1>14. TypeOK'
    <2>1. copy' \in [Batches -> Seq({"none", "late", "stored"})]
      <3>1. copy \in [Batches -> Seq(Copies)]
        BY <1>1 DEF TypeOK, Copies
      <3>2. copy' \in [Batches -> Seq(Copies)]
        BY <1>6, <1>7, <1>12, <3>1 DEF longer
      <3> QED
        BY <3>2 DEF Copies
    <2>2. status' \in [Files -> Classes \cup {"absent", "pending", "uploading"}]
      BY <1>2, <1>6, <1>7 DEF Statuses
    <2>3. /\ stage' \in [Batches -> {"new", "sending", "over"}]
          /\ call' \in [Batches -> {"idle", "sent", "checking", "transfer"}
                                     \cup Replies]
      BY <1>1, <1>6, <1>7 DEF TypeOK
    <2>4. /\ items' \in [Batches -> Seq(Files)]
          /\ shown' \in [Batches -> Seq(Classes)]
      BY <1>1, <1>2, <1>3 DEF TypeOK
    <2>5. /\ service' \in {"sharing", "photo"} /\ files' \in Seq(Files)
          /\ parallel' \in BOOLEAN
      BY <1>1, <1>3 DEF TypeOK
    <2>6. unlocked' \in BOOLEAN
      BY <1>1, <1>3 DEF TypeOK
    <2> QED
      BY <1>8, <2>1, <2>2, <2>3, <2>4, <2>5, <2>6 DEF TypeOK
  <1>15. ListInv'
    <2>1. Distinct(files)'
      BY <1>1, <1>3 DEF ListInv, Distinct
    <2>2. ASSUME NEW i \in 1 .. Len(files)
          PROVE  status'[files[i]] # "absent"
      <3>1. files[i] \in Files
        BY <1>1, ElementOfSeq DEF TypeOK
      <3> QED
        BY <1>4, <1>11, <3>1
    <2>3. \A c \in Batches : Distinct(items'[c])
      BY <1>1, <1>2, <1>10 DEF ListInv
    <2>4. files' = files
      BY <1>3
    <2>5. \A c \in Batches : Distinct(items[c])'
      BY <2>3 DEF Distinct
    <2> QED
      BY <2>1, <2>2, <2>4, <2>5 DEF ListInv
  <1>16. SendInv'
    <2> SUFFICES ASSUME NEW c \in Batches
                 PROVE  /\ stage'[c] = "new" => shown'[c] = <<>>
                        /\ stage'[c] = "sending" =>
                             /\ call'[c] # "idle"
                             /\ Index(c)' <= Len(items'[c])
                             /\ Len(copy'[c]) = Index(c)'
                             /\ Told(call'[c], copy'[c][Index(c)'])
                        /\ stage'[c] # "sending" =>
                             call'[c] = "idle" /\ Len(copy'[c]) = Len(shown'[c])
      BY DEF SendInv, Told
    <2>1. CASE c = b /\ more
      <3>1. Len(sh) + 1 <= Len(its)
        BY <1>2, <1>0, <2>1
      <3>2. Index(c)' = Len(sh) + 1
        BY <1>10, <1>13, <2>1
      <3> QED
        BY <1>10, <1>12, <2>1, <3>1, <3>2 DEF Told
    <2>2. CASE c = b /\ ~more
      BY <1>2, <1>10, <2>2
    <2>3. CASE c # b
      <3>1. Index(c)' = Index(c)
        BY <1>10, <1>13, <2>3 DEF Index
      <3> QED
        BY <1>1, <1>10, <2>3, <3>1 DEF SendInv
    <2> QED
      BY <2>1, <2>2, <2>3
  <1>17. ShownInv'
    <2>1. \A c \in Batches : \A i \in 1 .. Len(shown'[c]) :
             Honest(shown'[c][i], copy'[c][i])
      <3> TAKE c \in Batches
      <3>1. CASE c = b
        BY <1>4, <1>10, <1>12, <3>1
      <3>2. CASE c # b
        BY <1>1, <1>10, <3>2 DEF ShownInv
      <3> QED
        BY <3>1, <3>2
    <2>2. ASSUME NEW f \in Files, StoredFor(f, b, its, sh)
          PROVE  StoredAttempt(f)'
      <3>1. CASE \E c \in Batches \ {b} : \E i \in 1 .. Len(shown[c]) :
                    /\ i <= Len(items[c]) /\ items[c][i] = f
                    /\ copy[c][i] = "stored"
        <4>0. PICK c \in Batches \ {b} : \E i \in 1 .. Len(shown[c]) :
                    /\ i <= Len(items[c]) /\ items[c][i] = f
                    /\ copy[c][i] = "stored"
          BY <3>1
        <4>1. PICK i \in 1 .. Len(shown[c]) :
                    /\ i <= Len(items[c]) /\ items[c][i] = f
                    /\ copy[c][i] = "stored"
          BY <4>0
        <4>2. /\ i \in 1 .. Len(shown'[c]) /\ i <= Len(items'[c])
              /\ items'[c][i] = f /\ copy'[c][i] = "stored"
          BY <1>10, <4>1
        <4> QED
          BY <4>2 DEF StoredAttempt
      <3>2. CASE \E i \in 1 .. Len(sh) :
                    i <= Len(its) /\ its[i] = f /\ copy[b][i] = "stored"
        <4>1. PICK i \in 1 .. Len(sh) :
                    i <= Len(its) /\ its[i] = f /\ copy[b][i] = "stored"
          BY <3>2
        <4>2. /\ i \in 1 .. Len(shown'[b]) /\ i <= Len(items'[b])
              /\ items'[b][i] = f /\ copy'[b][i] = "stored"
          BY <1>10, <1>12, <4>1
        <4> QED
          BY <4>2 DEF StoredAttempt
      <3> QED
        BY <2>2, <3>1, <3>2 DEF StoredFor
    <2>3. \A f \in Files : status'[f] = "done" => StoredAttempt(f)'
      BY <1>4, <1>11, <2>2
    <2> QED
      BY <2>1, <2>3 DEF ShownInv, Honest
  <1>18. (~parallel => Alone)'
    <2> SUFFICES ASSUME ~parallel' PROVE Alone'
      OBVIOUS
    <2>1. \A c \in Batches : stage'[c] = "sending" <=> c = b /\ more
      BY <1>5, <1>10 DEF Sending
    <2>2. \A c, d \in Batches : Sending(c)' /\ Sending(d)' => c = d
      BY <2>1 DEF Sending
    <2>3. ASSUME NEW f \in Files, status'[f] = "uploading"
          PROVE  \E c \in Batches : Sending(c)' /\ f = Current(c)'
      <3>1. more /\ f = next
        BY <1>5, <1>11, <2>3
      <3>2. Current(b)' = next
        <4>1. Current(b)' = items'[b][Len(shown'[b]) + 1]
          BY DEF Current, Index
        <4> QED
          BY <1>10, <4>1 DEF next
      <3> QED
        BY <2>1, <3>1, <3>2 DEF Sending
    <2>4. ASSUME NEW c \in Batches, Sending(c)', NEW j \in 1 .. Len(items'[c]),
                 j > Index(c)'
          PROVE  status'[items'[c][j]] \in {"pending", "retryable"}
      <3>1. c = b /\ more
        BY <2>1, <2>4 DEF Sending
      <3>2. items'[c] = its /\ Index(c)' = Len(sh) + 1 /\ j \in 1 .. Len(its)
        BY <1>10, <1>13, <3>1
      <3>3. j > Len(sh) + 1 /\ j \in Int
        BY <2>4, <3>2
      <3>4. its[j] # next /\ its[j] \in Files
        <4>1. Len(sh) + 1 \in 1 .. Len(its)
          BY <1>0, <3>1
        <4>2. its[j] # its[Len(sh) + 1]
          BY <1>2, <3>2, <3>3, <4>1 DEF Distinct
        <4> QED
          BY <1>2, <3>2, <4>2, ElementOfSeq DEF next
      <3>5. st[its[j]] \in {"pending", "retryable"}
        BY <1>2, <1>5, <3>2, <3>3
      <3> QED
        BY <1>11, <3>2, <3>4, <3>5
    <2> QED
      BY <2>2, <2>3, <2>4 DEF Alone
  <1> QED
    BY <1>14, <1>15, <1>16, <1>17, <1>18 DEF PageInv

\* What stays when the user edits the list.
Kept == <<service, banner, stage, items, shown, parallel, call, copy>>

LEMMA AddFileKeepsPage ==
  ASSUME PageInv, NEW f \in Files, AddFile(f)
  PROVE  PageInv'
  <1>1. /\ TypeOK /\ ListInv /\ SendInv /\ ShownInv /\ (~parallel => Alone)
        /\ files \in Seq(Files) /\ Len(files) \in Nat
    BY LenProperties DEF PageInv, TypeOK
  <1>2. /\ status[f] = "absent" /\ files' = Append(files, f) /\ enabled' = TRUE
        /\ \A g \in Files : status'[g] = IF g = f THEN "pending" ELSE status[g]
        /\ status' \in [Files -> Classes \cup {"absent", "pending", "uploading"}]
        /\ UNCHANGED Kept /\ unlocked' = unlocked
    BY <1>1 DEF AddFile, Kept, TypeOK
  <1> DEFINE fs == Append(files, f)
  <1>3. /\ fs \in Seq(Files) /\ Len(fs) = Len(files) + 1
        /\ \A i \in 1 .. Len(files) : fs[i] = files[i]
        /\ fs[Len(files) + 1] = f
    BY <1>1, AppendProperties
  <1>4. files' = fs
    BY <1>2
  <1>5. \A i \in 1 .. Len(files) : files[i] \in Files /\ files[i] # f
    BY <1>1, <1>2, ElementOfSeq DEF ListInv
  <1> HIDE DEF fs
  <1>6. TypeOK'
    <2>1. unlocked' \in BOOLEAN /\ enabled' \in BOOLEAN /\ banner' \in BOOLEAN
      BY <1>1, <1>2 DEF TypeOK, Kept
    <2>2. service' \in {"sharing", "photo"} /\ files' \in Seq(Files)
      BY <1>1, <1>2, <1>3, <1>4 DEF TypeOK, Kept
    <2>3. /\ stage' \in [Batches -> {"new", "sending", "over"}]
          /\ items' \in [Batches -> Seq(Files)]
          /\ shown' \in [Batches -> Seq(Classes)]
          /\ copy' \in [Batches -> Seq({"none", "late", "stored"})]
      BY <1>1, <1>2 DEF TypeOK, Kept
    <2>4. call' \in [Batches -> {"idle", "sent", "checking", "transfer"}
                                  \cup Replies]
      BY <1>1, <1>2 DEF TypeOK, Kept
    <2>5. parallel' \in BOOLEAN
      BY <1>1, <1>2 DEF TypeOK, Kept
    <2> QED
      BY <1>2, <2>1, <2>2, <2>3, <2>4, <2>5 DEF TypeOK
  <1>7. ListInv'
    <2>1. Distinct(fs)
      BY <1>1, <1>3, <1>5 DEF ListInv, Distinct
    <2>2. \A i \in 1 .. Len(fs) : fs[i] \in Files /\ status'[fs[i]] # "absent"
      BY <1>1, <1>2, <1>3, <1>5 DEF ListInv
    <2>3. Distinct(files)'
      BY <1>4, <2>1 DEF Distinct
    <2>4. \A b \in Batches : Distinct(items[b])'
      BY <1>1, <1>2 DEF ListInv, Distinct, Kept
    <2>5. \A i \in 1 .. Len(files') : status'[files'[i]] # "absent"
      BY <1>4, <2>2
    <2> QED
      BY <2>3, <2>4, <2>5 DEF ListInv
  <1>8. \A b \in Batches : Index(b)' = Index(b)
    BY <1>2 DEF Index, Kept
  <1>9. SendInv'
    BY <1>1, <1>2, <1>8 DEF SendInv, Told, Kept
  <1>10. ShownInv'
    <2>1. \A g \in Files : StoredAttempt(g)' <=> StoredAttempt(g)
      BY <1>2 DEF StoredAttempt, Kept
    <2>2. \A g \in Files : status'[g] = "done" => status[g] = "done"
      BY <1>2
    <2> QED
      BY <1>1, <1>2, <2>1, <2>2 DEF ShownInv, Honest, Kept
  <1>11. (~parallel => Alone)'
    <2> SUFFICES ASSUME ~parallel PROVE Alone'
      BY <1>2 DEF Kept
    <2>1. \A b, c \in Batches : Sending(b)' /\ Sending(c)' => b = c
      BY <1>1, <1>2 DEF Alone, Sending, Kept
    <2>2. \A g \in Files : status'[g] = "uploading" =>
            \E b \in Batches : Sending(b)' /\ g = Current(b)'
      BY <1>1, <1>2, <1>8 DEF Alone, Sending, Current, Kept
    <2>3. ASSUME NEW b \in Batches, Sending(b)', NEW j \in 1 .. Len(items'[b]),
                 j > Index(b)'
          PROVE  status'[items'[b][j]] \in {"pending", "retryable"}
      <3>1. Sending(b) /\ items' = items /\ Index(b)' = Index(b)
        BY <1>2, <1>8, <2>3 DEF Sending, Kept
      <3>2. items[b][j] \in Files
        BY <1>1, <2>3, <3>1, ListFacts
      <3>3. status[items[b][j]] \in {"pending", "retryable"}
        BY <1>1, <2>3, <3>1 DEF Alone
      <3> QED
        BY <1>2, <3>1, <3>2, <3>3
    <2> QED
      BY <2>1, <2>2, <2>3 DEF Alone
  <1> QED
    BY <1>6, <1>7, <1>9, <1>10, <1>11 DEF PageInv

\* Steps that leave the classes, and of the list a part of it.
LEMMA ListShrinks ==
  ASSUME PageInv, UNCHANGED <<Kept, status>>,
         unlocked' \in BOOLEAN, enabled' \in BOOLEAN,
         files' \in Seq(Files), Distinct(files'),
         \A k \in 1 .. Len(files') : \E i \in 1 .. Len(files) : files'[k] = files[i]
  PROVE  PageInv'
  <1>1. TypeOK /\ ListInv /\ SendInv /\ ShownInv /\ (~parallel => Alone)
    BY DEF PageInv
  <1>2. TypeOK'
    <2>1. service' \in {"sharing", "photo"}
      BY <1>1 DEF TypeOK, Kept
    <2>2. banner' \in BOOLEAN
      BY <1>1 DEF TypeOK, Kept
    <2>3. /\ status' \in [Files -> Classes \cup {"absent", "pending", "uploading"}]
          /\ stage' \in [Batches -> {"new", "sending", "over"}]
          /\ items' \in [Batches -> Seq(Files)]
          /\ shown' \in [Batches -> Seq(Classes)]
          /\ copy' \in [Batches -> Seq({"none", "late", "stored"})]
      BY <1>1 DEF TypeOK, Kept
    <2>4. call' \in [Batches -> {"idle", "sent", "checking", "transfer"}
                                  \cup Replies]
      BY <1>1 DEF TypeOK, Kept
    <2>5. parallel' \in BOOLEAN
      BY <1>1 DEF TypeOK, Kept
    <2> QED
      BY <2>1, <2>2, <2>3, <2>4, <2>5 DEF TypeOK
  <1>3. ListInv'
    <2>1. \A k \in 1 .. Len(files') : status'[files'[k]] # "absent"
      BY <1>1 DEF ListInv
    <2>2. Distinct(files)'
      BY DEF Distinct
    <2>3. \A b \in Batches : Distinct(items[b])'
      BY <1>1 DEF ListInv, Distinct, Kept
    <2> QED
      BY <2>1, <2>2, <2>3 DEF ListInv
  <1>4. \A b \in Batches : Index(b)' = Index(b)
    BY DEF Index, Kept
  <1>5. SendInv'
    BY <1>1, <1>4 DEF SendInv, Told, Kept
  <1>6. ShownInv'
    BY <1>1 DEF ShownInv, StoredAttempt, Honest, Kept
  <1>7. (~parallel => Alone)'
    BY <1>1, <1>4 DEF Alone, Sending, Current, Kept
  <1> QED
    BY <1>2, <1>3, <1>5, <1>6, <1>7 DEF PageInv

LEMMA RemoveFileKeepsPage ==
  ASSUME PageInv, NEW f \in Files, RemoveFile(f)
  PROVE  PageInv'
  <1>1. files \in Seq(Files) /\ Distinct(files) /\ DOMAIN files = 1 .. Len(files)
    BY LenProperties DEF PageInv, TypeOK, ListInv
  <1>2. PICK i \in DOMAIN files : files' = EntriesAt(files, DOMAIN files \ {i})
    BY DEF RemoveFile
  <1>3. /\ files' \in Seq(Files) /\ Distinct(files')
        /\ \A k \in 1 .. Len(files') : \E j \in 1 .. Len(files) : files'[k] = files[j]
    <2> DEFINE places == DOMAIN files \ {i}
               fs == files'
    <2>1. places \in SUBSET (1 .. Len(files)) /\ fs = EntriesAt(files, places)
      BY <1>1, <1>2
    <2> HIDE DEF places, fs
    <2>2. /\ fs \in Seq(Files) /\ Distinct(fs)
          /\ \A k \in 1 .. Len(fs) : \E j \in places : fs[k] = files[j]
      BY <1>1, <2>1, PartOfList
    <2> QED
      BY <1>1, <2>1, <2>2 DEF fs
  <1>4. UNCHANGED <<Kept, status>> /\ unlocked' = unlocked
    BY DEF RemoveFile, Kept
  <1>5. enabled' \in BOOLEAN
    BY DEF RemoveFile
  <1>6. unlocked' \in BOOLEAN
    BY <1>4 DEF PageInv, TypeOK
  <1> QED
    BY <1>3, <1>4, <1>5, <1>6, ListShrinks

LEMMA UnlockKeepsPage ==
  ASSUME PageInv, Unlock \/ UNCHANGED vars
  PROVE  PageInv'
  <1>1. UNCHANGED <<Kept, status>> /\ files' = files
    BY DEF Unlock, vars, page, Kept
  <1>2. enabled' = enabled /\ unlocked' \in {unlocked, TRUE}
    BY DEF Unlock, vars, page
  <1>3. enabled' \in BOOLEAN
    BY <1>2 DEF PageInv, TypeOK
  <1>4. unlocked' \in BOOLEAN
    BY <1>2 DEF PageInv, TypeOK
  <1>5. files' \in Seq(Files) /\ Distinct(files')
    BY <1>1 DEF PageInv, TypeOK, ListInv
  <1> QED
    BY <1>1, <1>3, <1>4, <1>5, ListShrinks

\* A click calls it with the entries of the list that wait.
LEMMA ClickSends ==
  ASSUME PageInv, NEW b \in Batches, ClickUpload(b)
  PROVE  Sends(b, PendingEntries, <<>>, status, FALSE)
  <1> DEFINE its == PendingEntries
             places == {i \in DOMAIN files : status[files[i]] \in {"pending", "retryable"}}
             none == <<>>
  <1>1. /\ TypeOK /\ ListInv /\ SendInv /\ ShownInv
        /\ files \in Seq(Files) /\ DOMAIN files = 1 .. Len(files)
        /\ stage[b] = "new" /\ shown[b] = <<>> /\ Len(copy[b]) = 0
    <2>1. TypeOK /\ SendInv /\ stage[b] = "new"
      BY DEF PageInv, ClickUpload
    <2>2. shown[b] = <<>> /\ Len(copy[b]) = Len(shown[b])
      BY <2>1 DEF SendInv
    <2>3. files \in Seq(Files) /\ DOMAIN files = 1 .. Len(files)
      BY <2>1, LenProperties DEF TypeOK
    <2> QED
      BY <2>1, <2>2, <2>3 DEF PageInv
  <1>2. its = EntriesAt(files, places) /\ places \in SUBSET (1 .. Len(files))
    BY <1>1 DEF PendingEntries
  <1>3. none \in Seq(Classes) /\ Len(none) = 0 /\ shown[b] = none
    BY <1>1
  <1>4. /\ items' = [items EXCEPT ![b] = its]
        /\ UNCHANGED <<service, unlocked, files, shown>>
        /\ UploadSequential(b, its, 1, status, FALSE)
    BY DEF ClickUpload
  <1>5. /\ parallel' = (parallel \/ \E c \in Batches : Sending(c))
        /\ parallel' \in BOOLEAN
    BY Zenon DEF ClickUpload, Sending
  <1>6. (parallel => parallel') /\ (~parallel' => ~parallel)
    BY <1>5, Zenon
  <1>7. ~parallel' => \A c \in Batches : ~Sending(c)
    BY <1>5, Zenon
  <1>8. \A i \in places : status[files[i]] \in {"pending", "retryable"}
    OBVIOUS
  <1>9. shown' = [shown EXCEPT ![b] = none]
    BY <1>1, <1>3, <1>4 DEF TypeOK
  <1> HIDE DEF its, places, none
  <1>10. /\ its \in Seq(Files) /\ Distinct(its) /\ Len(its) \in Nat
         /\ \A k \in 1 .. Len(its) : \E i \in places : its[k] = files[i]
    BY <1>1, <1>2, PartOfList, LenProperties DEF ListInv
  <1>11. \A k \in 1 .. Len(its) : status[its[k]] \in {"pending", "retryable"}
    BY <1>8, <1>10
  <1>12. \A f \in Files : status[f] = "done" => StoredFor(f, b, its, none)
    <2>1. ASSUME NEW f \in Files, status[f] = "done"
          PROVE  StoredFor(f, b, its, none)
      <3>1. PICK c \in Batches : \E i \in 1 .. Len(shown[c]) :
               i <= Len(items[c]) /\ items[c][i] = f /\ copy[c][i] = "stored"
        BY <1>1, <2>1 DEF ShownInv, StoredAttempt
      <3>2. c # b
        BY <1>3, <3>1
      <3> QED
        BY <3>1, <3>2 DEF StoredFor
    <2> QED
      BY <2>1
  <1>13. ~parallel' => \A f \in Files : status[f] # "uploading"
    BY <1>6, <1>7 DEF PageInv, Alone
  <1>14. \A i \in 1 .. Len(files) : status[files[i]] # "absent"
    BY <1>1 DEF ListInv
  <1>15. status \in [Files -> Statuses]
    BY <1>1 DEF TypeOK, Statuses
  <1>16. UploadSequential(b, its, Len(none) + 1, status, FALSE)
    <2>1. Len(none) + 1 = 1
      BY <1>3
    <2> QED
      BY <1>4, <2>1, Zenon
  <1>17. Len(none) <= Len(its) /\ Len(copy[b]) = Len(none)
    BY <1>1, <1>3, <1>10
  <1>18. \A i \in 1 .. Len(none) : Honest(none[i], copy[b][i])
    BY <1>3
  <1>19. ~parallel' =>
         /\ \A c \in Batches : Sending(c) => c = b
         /\ \A f \in Files : status[f] # "uploading"
         /\ \A i \in 1 .. Len(its) :
               i > Len(none) => status[its[i]] \in {"pending", "retryable"}
    BY <1>7, <1>11, <1>13
  <1>20. /\ Len(shown[b]) <= Len(none)
         /\ \A i \in 1 .. Len(shown[b]) : none[i] = shown[b][i]
    BY <1>3
  <1>21. Sends(b, its, none, status, FALSE)
    BY <1>3, <1>4, <1>5, <1>6, <1>9, <1>10, <1>12, <1>14, <1>15, <1>16, <1>17,
       <1>18, <1>19, <1>20, Zenon DEF Sends
  <1> QED
    BY <1>21 DEF its, none

\* The class of an answer is honest about the copy.
LEMMA ClassIsHonest ==
  ASSUME NEW w \in Replies, NEW c, Told(w, c)
  PROVE  NewStatus(w) \in Classes /\ Honest(NewStatus(w), c)
  BY DEF Replies, NewStatus, Classes, Told, Honest

\* An answer calls it with one class more.
LEMMA AnswerSends ==
  ASSUME PageInv, NEW b \in Batches, FileAnswered(b)
  PROVE  Sends(b, items[b], Append(shown[b], NewStatus(call[b])),
               [status EXCEPT ![Current(b)] = NewStatus(call[b])], banner)
  <1> DEFINE class == NewStatus(call[b])
             sh == Append(shown[b], class)
             its == items[b]
             st == [status EXCEPT ![Current(b)] = class]
             last == Index(b)
  <1>1. /\ TypeOK /\ ListInv /\ SendInv /\ ShownInv /\ (~parallel => Alone)
        /\ call[b] \in Replies
        /\ its \in Seq(Files) /\ Len(its) \in Nat /\ Distinct(its)
        /\ shown[b] \in Seq(Classes) /\ Len(shown[b]) \in Nat
    BY ListFacts DEF PageInv, ListInv, FileAnswered, Answered
  <1>2. /\ stage[b] = "sending" /\ last <= Len(its)
        /\ Len(copy[b]) = last /\ Told(call[b], copy[b][last])
    <2>1. call[b] # "idle"
      BY <1>1 DEF Replies
    <2> QED
      BY <1>1, <2>1 DEF SendInv
  <1>3. class \in Classes /\ Honest(class, copy[b][last])
    BY <1>1, <1>2, ClassIsHonest
  <1>4. /\ sh \in Seq(Classes) /\ Len(sh) = last
        /\ \A i \in 1 .. Len(shown[b]) : sh[i] = shown[b][i]
        /\ sh[last] = class
    BY <1>1, <1>3, AppendProperties DEF Index
  <1>5. last \in 1 .. Len(its) /\ last = Len(shown[b]) + 1
    BY <1>1, <1>2 DEF Index
  <1>6. Current(b) = its[last] /\ its[last] \in Files
    BY <1>1, <1>5, ElementOfSeq DEF Current
  <1>7. /\ shown' = [shown EXCEPT ![b] = sh]
        /\ UploadSequential(b, its, last + 1, st, banner)
        /\ UNCHANGED <<service, unlocked, files, items, parallel>>
    <2>1. shown' = [shown EXCEPT ![b] = Append(@, class)]
      BY Zenon DEF FileAnswered
    <2>2. UploadSequential(b, its, last + 1, st, banner)
      BY Zenon DEF FileAnswered
    <2>3. UNCHANGED <<service, unlocked, files, items, parallel>>
      BY DEF FileAnswered
    <2> QED
      BY <2>1, <2>2, <2>3
  <1>8. /\ st \in [Files -> Statuses]
        /\ \A f \in Files : st[f] = IF f = its[last] THEN class ELSE status[f]
    BY <1>1, <1>3, <1>6 DEF TypeOK, Statuses
  <1>9. class \notin {"absent", "uploading"}
    BY <1>3 DEF Classes
  <1> HIDE DEF class, sh, its, st, last
  <1>10. items' = [items EXCEPT ![b] = its]
    BY <1>1, <1>7 DEF TypeOK, its
  <1>11. \A i \in 1 .. Len(sh) : Honest(sh[i], copy[b][i])
    BY <1>1, <1>3, <1>4, <1>5 DEF ShownInv
  <1>12. ASSUME NEW f \in Files, st[f] = "done"
         PROVE  StoredFor(f, b, its, sh)
    <2>1. CASE f = its[last]
      <3>1. copy[b][last] = "stored"
        BY <1>3, <1>8, <1>12, <2>1 DEF Honest
      <3> QED
        BY <1>4, <1>5, <2>1, <3>1 DEF StoredFor
    <2>2. CASE f # its[last]
      <3>1. status[f] = "done"
        BY <1>8, <1>12, <2>2
      <3>2. PICK c \in Batches : \E i \in 1 .. Len(shown[c]) :
               i <= Len(items[c]) /\ items[c][i] = f /\ copy[c][i] = "stored"
        BY <1>1, <3>1 DEF ShownInv, StoredAttempt
      <3>3. CASE c # b
        BY <3>2, <3>3 DEF StoredFor
      <3>4. CASE c = b
        BY <1>1, <1>4, <1>5, <3>2, <3>4 DEF StoredFor, its
      <3> QED
        BY <3>3, <3>4
    <2> QED
      BY <2>1, <2>2
  <1>13. \A i \in 1 .. Len(files) : st[files[i]] # "absent"
    <2>1. \A i \in 1 .. Len(files) : files[i] \in Files
      BY <1>1, ElementOfSeq DEF TypeOK
    <2> QED
      BY <1>1, <1>8, <1>9, <2>1 DEF ListInv
  <1>14. ASSUME ~parallel
         PROVE  /\ \A c \in Batches : Sending(c) => c = b
                /\ \A f \in Files : st[f] # "uploading"
                /\ \A i \in 1 .. Len(its) :
                      i > Len(sh) => st[its[i]] \in {"pending", "retryable"}
    <2>1. Alone /\ Sending(b)
      BY <1>1, <1>2, <1>14 DEF Sending
    <2>2. \A c \in Batches : Sending(c) => c = b
      BY <2>1 DEF Alone
    <2>3. \A f \in Files : status[f] = "uploading" => f = its[last]
      BY <1>6, <2>1, <2>2 DEF Alone
    <2>4. \A f \in Files : st[f] # "uploading"
      BY <1>8, <1>9, <2>3
    <2>5. ASSUME NEW i \in 1 .. Len(its), i > last
          PROVE  st[its[i]] \in {"pending", "retryable"}
      <3>1. status[its[i]] \in {"pending", "retryable"}
        BY <2>1, <2>5 DEF Alone, its, last
      <3>2. its[i] # its[last]
        BY <1>1, <1>5, <2>5 DEF Distinct
      <3>3. its[i] \in Files
        BY <1>1, ElementOfSeq
      <3> QED
        BY <1>8, <3>1, <3>2, <3>3
    <2> QED
      BY <1>4, <2>2, <2>4, <2>5
  <1>15. /\ Len(sh) <= Len(its) /\ Len(copy[b]) = Len(sh)
         /\ UploadSequential(b, its, Len(sh) + 1, st, banner)
    BY <1>2, <1>4, <1>7, Zenon
  <1>16. banner \in BOOLEAN /\ parallel \in BOOLEAN
    BY <1>1, Zenon DEF TypeOK
  <1>17. parallel' = parallel
    BY <1>7
  <1>18. UNCHANGED <<service, unlocked, files>>
    BY <1>7
  <1>19. parallel' \in BOOLEAN /\ (parallel => parallel')
    BY <1>16, <1>17, Zenon
  <1>20. ~parallel' =>
         /\ \A c \in Batches : Sending(c) => c = b
         /\ \A f \in Files : st[f] # "uploading"
         /\ \A i \in 1 .. Len(its) :
               i > Len(sh) => st[its[i]] \in {"pending", "retryable"}
    BY <1>14, <1>17, Zenon
  <1>21. /\ Len(shown[b]) <= Len(sh)
         /\ \A i \in 1 .. Len(shown[b]) : sh[i] = shown[b][i]
    BY <1>1, <1>4, <1>5
  <1>22. \A i \in 1 .. Len(its) : i > Len(sh) => st[its[i]] = status[its[i]]
    <2>1. ASSUME NEW i \in 1 .. Len(its), i > last
          PROVE  its[i] # its[last] /\ its[i] \in Files
      <3>1. its[i] # its[last]
        BY <1>1, <1>5, <2>1 DEF Distinct
      <3> QED
        BY <1>1, <3>1, ElementOfSeq
    <2> QED
      BY <1>4, <1>8, <2>1
  <1>23. its = items[b]
    BY DEF its
  <1>24. Sends(b, its, sh, st, banner)
    BY <1>1, <1>4, <1>7, <1>8, <1>10, <1>11, <1>12, <1>13, <1>15, <1>16, <1>18,
       <1>19, <1>20, <1>21, <1>22, <1>23, Zenon DEF Sends
  <1> QED
    BY <1>24 DEF its, sh, st, class

-----------------------------------------------------------------------------
(* The invariant                                                           *)

LEMMA PageInitially == Init => PageInv
  <1> SUFFICES ASSUME Init PROVE PageInv
    OBVIOUS
  <1> USE DEF Init
  <1>1. \A S : <<>> \in Seq(S) /\ Len(<<>>) = 0
    BY EmptySeq
  <1>2. TypeOK
    <2>1. /\ stage \in [Batches -> {"new", "sending", "over"}]
          /\ call \in [Batches -> {"idle", "sent", "checking", "transfer"}
                                    \cup Replies]
          /\ status \in [Files -> Classes \cup {"absent", "pending", "uploading"}]
          /\ items \in [Batches -> Seq(Files)]
          /\ shown \in [Batches -> Seq(Classes)]
          /\ copy \in [Batches -> Seq({"none", "late", "stored"})]
          /\ files \in Seq(Files)
      BY <1>1
    <2>2. unlocked \in BOOLEAN
      BY Zenon
    <2>3. enabled \in BOOLEAN /\ banner \in BOOLEAN /\ parallel \in BOOLEAN
      OBVIOUS
    <2> QED
      BY <2>1, <2>2, <2>3 DEF TypeOK
  <1>3. ListInv
    <2>1. Len(files) = 0 /\ \A b \in Batches : Len(items[b]) = 0
      BY <1>1
    <2> QED
      BY <2>1 DEF ListInv, Distinct
  <1>4. SendInv
    BY DEF SendInv
  <1>5. ShownInv
    <2>1. \A b \in Batches : Len(shown[b]) = 0
      BY <1>1
    <2> QED
      BY <2>1 DEF ShownInv
  <1>6. Alone
    BY DEF Alone, Sending
  <1> QED
    BY <1>2, <1>3, <1>4, <1>5, <1>6 DEF PageInv

\* What a step of the uploader is: of the user's list, of the proxy and the NAS
\* for one batch, or a call of uploadSequential for one batch.
StepKinds ==
    \/ Unlock
    \/ \E f \in Files : AddFile(f) \/ RemoveFile(f)
    \/ \E b \in Batches : \E w, x : NASMoves(b, w, x)
    \/ \E b \in Batches : \E its, sh, st, ban : Sends(b, its, sh, st, ban)

LEMMA StepsAreKinds ==
  ASSUME PageInv, Next
  PROVE  StepKinds
  <1>1. CASE Unlock
    BY <1>1 DEF StepKinds
  <1>2. CASE \E f \in Files : AddFile(f) \/ RemoveFile(f)
    BY <1>2 DEF StepKinds
  <1>3. ASSUME NEW b \in Batches, NASStep(b)
        PROVE  StepKinds
    BY <1>3, NASStepMoves DEF StepKinds
  <1>4. ASSUME NEW b \in Batches, ClickUpload(b)
        PROVE  StepKinds
    BY <1>4, ClickSends DEF StepKinds
  <1>5. ASSUME NEW b \in Batches, FileAnswered(b)
        PROVE  StepKinds
    BY <1>5, AnswerSends DEF StepKinds
  <1>6. \/ Unlock
        \/ \E f \in Files : AddFile(f) \/ RemoveFile(f)
        \/ \E b \in Batches : NASStep(b) \/ ClickUpload(b) \/ FileAnswered(b)
    BY DEF Next, NASStep
  <1> QED
    BY <1>1, <1>2, <1>3, <1>4, <1>5, <1>6

LEMMA PageInvKept == PageInv /\ [Next]_vars => PageInv'
  <1> SUFFICES ASSUME PageInv, [Next]_vars PROVE PageInv'
    OBVIOUS
  <1>1. CASE Unlock \/ UNCHANGED vars
    BY <1>1, UnlockKeepsPage
  <1>2. ASSUME NEW f \in Files, AddFile(f) \/ RemoveFile(f)
        PROVE  PageInv'
    BY <1>2, AddFileKeepsPage, RemoveFileKeepsPage
  <1>3. ASSUME NEW b \in Batches, NEW w, NEW x, NASMoves(b, w, x)
        PROVE  PageInv'
    BY <1>3, NASKeepsPage
  <1>4. ASSUME NEW b \in Batches, NEW its, NEW sh, NEW st, NEW ban,
               Sends(b, its, sh, st, ban)
        PROVE  PageInv'
    BY <1>4, SendsKeepsPage
  <1>5. CASE Next
    <2>1. StepKinds
      BY <1>5, StepsAreKinds
    <2> QED
      BY <1>1, <1>2, <1>3, <1>4, <2>1 DEF StepKinds
  <1> QED
    BY <1>1, <1>5

\* The inductive invariant of both upload pages: the request of a batch, the
\* copy at the NAS and the classes of the list always agree.
THEOREM PlainPageInv == Spec => []PageInv
  BY PageInitially, PageInvKept, PTL DEF Spec

-----------------------------------------------------------------------------
(* What the page shows is true                                             *)

\* A step of the promise from copy c and verdict v to cn and vn, or none.
PromiseStep(c, v, cn, vn) ==
    \/ c = "none" /\ v \in {"open", "retry"} /\ cn = "whole" /\ vn = v
    \/ /\ v = "open" /\ cn = c
       /\ \/ vn = "ok" /\ c = "whole"
          \/ vn = "fail" /\ c = "none"
          \/ vn = "retry"
    \/ cn = c /\ vn = v

LEMMA PromiseSteps ==
  ASSUME NEW a \in Attempts,
         PromiseStep(Copy(a[1], a[2]), Verdict(a[1], a[2]),
                     Copy(a[1], a[2])', Verdict(a[1], a[2])')
  PROVE  [Promise(a[1], a[2])!Next]_(Seen(a))
  BY DEF PromiseStep, Promise!Next, Promise!Store, Promise!Tell, Seen

LEMMA NASKeepsPromise ==
  ASSUME PageInv, PageInv', NEW b \in Batches, NEW w, NEW x, NASMoves(b, w, x),
         NEW c \in Batches, NEW i \in Nat \ {0}
  PROVE  PromiseStep(Copy(c, i), Verdict(c, i), Copy(c, i)', Verdict(c, i)')
  <1>1. Verdict(c, i)' = Verdict(c, i)
    BY DEF Verdict, NASMoves, page
  <1>2. copy'[c] = IF c = b THEN x ELSE copy[c]
    BY DEF NASMoves, PageInv, TypeOK
  <1>3. CASE c # b
    BY <1>1, <1>2, <1>3 DEF PromiseStep, Copy
  <1>4. CASE c = b
    <2>1. /\ Len(x) = Len(copy[b]) /\ Len(x) \in Nat /\ Len(shown[b]) \in Nat
          /\ DOMAIN x = 1 .. Len(x) /\ DOMAIN copy[b] = 1 .. Len(x)
          /\ DOMAIN shown[b] = 1 .. Len(shown[b])
      BY ListFacts, LenProperties DEF NASMoves, PageInv
    <2>2. CASE i \notin 1 .. Len(x)
      BY <1>1, <1>2, <1>4, <2>1, <2>2 DEF PromiseStep, Copy
    <2>3. CASE i \in 1 .. Len(x) /\ x[i] = copy[b][i]
      BY <1>1, <1>2, <1>4, <2>1, <2>3 DEF PromiseStep, Copy
    <2>4. CASE i \in 1 .. Len(x) /\ i > Len(shown[b]) /\ copy[b][i] = "none"
      <3>1. Verdict(b, i) = "open"
        BY <2>1, <2>4 DEF Verdict
      <3> QED
        BY <1>1, <1>2, <1>4, <2>1, <2>4, <3>1 DEF PromiseStep, Copy
    <2>5. CASE i \in 1 .. Len(x) /\ copy[b][i] = "late" /\ x[i] = "stored"
      <3>1. Verdict(b, i) \in {"open", "retry"}
        <4>1. CASE i \notin 1 .. Len(shown[b])
          BY <2>1, <4>1 DEF Verdict
        <4>2. CASE i \in 1 .. Len(shown[b])
          <5>1. shown[b][i] \in Classes /\ Honest(shown[b][i], copy[b][i])
            BY <4>2, ListFacts DEF PageInv, ShownInv
          <5>2. shown[b][i] = "retryable"
            BY <2>5, <5>1 DEF Honest, Classes
          <5> QED
            BY <2>1, <4>2, <5>2 DEF Verdict, Means
        <4> QED
          BY <4>1, <4>2
      <3> QED
        BY <1>1, <1>2, <1>4, <2>1, <2>5, <3>1 DEF PromiseStep, Copy
    <2> QED
      BY <2>1, <2>2, <2>3, <2>4, <2>5 DEF NASMoves
  <1> QED
    BY <1>3, <1>4

\* The copies after a call are those before it, and the classes are sh.
LEMMA SendsShows ==
  ASSUME PageInv, NEW b \in Batches, NEW its, NEW sh, NEW st, NEW ban,
         Sends(b, its, sh, st, ban), NEW c \in Batches
  PROVE  /\ shown'[c] = IF c = b THEN sh ELSE shown[c]
         /\ c # b => copy'[c] = copy[c]
         /\ copy'[b] = IF Len(sh) < Len(its) THEN Append(copy[b], "none") ELSE copy[b]
         /\ items'[c] = IF c = b THEN its ELSE items[c]
  <1>1. CASE Len(sh) < Len(its)
    <2>1. copy' = [copy EXCEPT ![b] = Append(copy[b], "none")]
      BY <1>1, SendsNext
    <2> QED
      BY <1>1, <2>1 DEF Sends, PageInv, TypeOK
  <1>2. CASE ~(Len(sh) < Len(its))
    <2>1. copy' = copy
      BY <1>2, SendsNoMore
    <2> QED
      BY <1>2, <2>1 DEF Sends, PageInv, TypeOK
  <1> QED
    BY <1>1, <1>2

LEMMA SendsKeepsPromise ==
  ASSUME PageInv, PageInv',
         NEW b \in Batches, NEW its, NEW sh, NEW st, NEW ban,
         Sends(b, its, sh, st, ban),
         NEW c \in Batches, NEW i \in Nat \ {0}
  PROVE  PromiseStep(Copy(c, i), Verdict(c, i), Copy(c, i)', Verdict(c, i)')
  <1> DEFINE longer == Append(copy[b], "none")
  <1>1. /\ copy[b] \in Seq(Copies) /\ Len(copy[b]) \in Nat
        /\ Len(shown[b]) \in Nat /\ sh \in Seq(Classes) /\ Len(sh) \in Nat
        /\ Len(copy[b]) = Len(sh) /\ Len(shown[b]) <= Len(sh)
        /\ DOMAIN copy[b] = 1 .. Len(sh) /\ DOMAIN sh = 1 .. Len(sh)
        /\ DOMAIN shown[b] = 1 .. Len(shown[b])
        /\ \A k \in 1 .. Len(sh) : sh[k] \in Classes
    BY ListFacts, LenProperties, ElementOfSeq DEF PageInv, Sends
  <1>2. /\ \A k \in 1 .. Len(shown[b]) : sh[k] = shown[b][k]
        /\ \A k \in 1 .. Len(sh) : Honest(sh[k], copy[b][k])
    BY DEF Sends
  <1>3. /\ DOMAIN longer = 1 .. Len(sh) + 1
        /\ \A k \in 1 .. Len(sh) : longer[k] = copy[b][k]
        /\ longer[Len(sh) + 1] = "none"
    <2>1. "none" \in Copies
      BY DEF Copies
    <2>2. longer \in Seq(Copies) /\ Len(longer) = Len(sh) + 1
      BY <1>1, <2>1, AppendProperties
    <2> QED
      BY <1>1, <2>1, <2>2, AppendProperties, LenProperties
  <1>4. /\ shown'[c] = IF c = b THEN sh ELSE shown[c]
        /\ c # b => copy'[c] = copy[c]
        /\ copy'[b] = longer \/ copy'[b] = copy[b]
    BY SendsShows
  <1> HIDE DEF longer
  <1>5. Copy(c, i)' = Copy(c, i)
    <2>1. CASE c # b \/ copy'[b] = copy[b]
      BY <1>4, <2>1 DEF Copy
    <2>2. CASE c = b /\ copy'[b] = longer
      BY <1>1, <1>3, <2>2 DEF Copy
    <2> QED
      BY <1>4, <2>1, <2>2
  <1>6. CASE c # b
    BY <1>4, <1>5, <1>6 DEF PromiseStep, Verdict
  <1>7. CASE c = b /\ i \in 1 .. Len(shown[b])
    <2>1. i \in 1 .. Len(sh)
      BY <1>1, <1>7
    <2>2. Verdict(c, i)' = Verdict(c, i)
      BY <1>1, <1>2, <1>4, <1>7, <2>1 DEF Verdict
    <2> QED
      BY <1>5, <2>2 DEF PromiseStep
  <1>8. CASE c = b /\ i \notin 1 .. Len(sh)
    <2>1. Verdict(c, i)' = Verdict(c, i)
      BY <1>1, <1>4, <1>8 DEF Verdict
    <2> QED
      BY <1>5, <2>1 DEF PromiseStep
  <1>9. CASE c = b /\ i \in 1 .. Len(sh) /\ i \notin 1 .. Len(shown[b])
    <2>1. Verdict(c, i) = "open"
      BY <1>1, <1>9 DEF Verdict
    <2>2. Honest(sh[i], copy[b][i]) /\ sh[i] \in Classes
      BY <1>1, <1>2, <1>9
    <2>3. Copy(c, i) = IF copy[b][i] = "stored" THEN "whole" ELSE "none"
      BY <1>1, <1>9 DEF Copy
    <2>4. Verdict(c, i)' = Means(sh[i])
      <3>1. i \in DOMAIN shown'[c] /\ shown'[c][i] = sh[i]
        BY <1>1, <1>4, <1>9
      <3> QED
        BY <3>1 DEF Verdict
    <2> QED
      BY <1>5, <2>1, <2>2, <2>3, <2>4 DEF PromiseStep, Honest, Classes, Means
  <1> QED
    BY <1>6, <1>7, <1>8, <1>9

\* The steps of the user touch no attempt.
LEMMA UserStep ==
  ASSUME Unlock \/ (\E f \in Files : AddFile(f) \/ RemoveFile(f)) \/ UNCHANGED vars
  PROVE  UNCHANGED <<items, shown, copy, banner>>
  BY DEF Unlock, AddFile, RemoveFile, vars, page

LEMMA PromiseKept ==
  ASSUME PageInv, PageInv', [Next]_vars, NEW a \in Attempts
  PROVE  [Promise(a[1], a[2])!Next]_(Seen(a))
  <1>1. a[1] \in Batches /\ a[2] \in Nat \ {0}
    <2>1. IsFiniteSet(Files) => Cardinality(Files) \in Nat
      BY FS_CardinalityType
    <2> QED
      BY <2>1, FilesFinite DEF Attempts
  <1>2. PromiseStep(Copy(a[1], a[2]), Verdict(a[1], a[2]),
                    Copy(a[1], a[2])', Verdict(a[1], a[2])')
    <2>1. CASE Unlock \/ (\E f \in Files : AddFile(f) \/ RemoveFile(f))
               \/ UNCHANGED vars
      <3>1. shown' = shown /\ copy' = copy
        BY <2>1, UserStep
      <3>2. Copy(a[1], a[2])' = Copy(a[1], a[2])
        BY <3>1 DEF Copy
      <3>3. Verdict(a[1], a[2])' = Verdict(a[1], a[2])
        BY <3>1 DEF Verdict
      <3> QED
        BY <3>2, <3>3 DEF PromiseStep
    <2>2. ASSUME NEW b \in Batches, NEW w, NEW x, NASMoves(b, w, x)
          PROVE  PromiseStep(Copy(a[1], a[2]), Verdict(a[1], a[2]),
                             Copy(a[1], a[2])', Verdict(a[1], a[2])')
      BY <1>1, <2>2, NASKeepsPromise
    <2>3. ASSUME NEW b \in Batches, NEW its, NEW sh, NEW st, NEW ban,
                 Sends(b, its, sh, st, ban)
          PROVE  PromiseStep(Copy(a[1], a[2]), Verdict(a[1], a[2]),
                             Copy(a[1], a[2])', Verdict(a[1], a[2])')
      BY <1>1, <2>3, SendsKeepsPromise
    <2>4. CASE Next
      <3>1. StepKinds
        BY <2>4, StepsAreKinds
      <3> QED
        BY <2>1, <2>2, <2>3, <3>1 DEF StepKinds
    <2> QED
      BY <2>1, <2>4
  <1> QED
    BY <1>2, PromiseSteps

LEMMA PromiseAtFirst ==
  ASSUME Init, NEW a \in Attempts
  PROVE  Promise(a[1], a[2])!Init
  <1>1. a[1] \in Batches
    BY DEF Attempts
  <1>2. Len(shown[a[1]]) = 0 /\ Len(copy[a[1]]) = 0 /\ shown[a[1]] = <<>>
        /\ copy[a[1]] = <<>>
    BY <1>1, EmptySeq DEF Init
  <1>3. DOMAIN shown[a[1]] = {} /\ DOMAIN copy[a[1]] = {}
    BY <1>2
  <1> QED
    BY <1>3 DEF Promise!Init, Copy, Verdict

\* The upload pages keep the promise of FileTransfer for every attempt: a tick
\* is a stored file, a cross is a file that is not there and never will be.
THEOREM ShownTrue == Spec => ShownIsTrue
  <1>1. Init => \A a \in Attempts : Promise(a[1], a[2])!Init
    BY PromiseAtFirst
  <1>2. PageInv /\ PageInv' /\ [Next]_vars =>
           [\A a \in Attempts : [Promise(a[1], a[2])!Next]_(Seen(a))]_vars
    BY PromiseKept
  <1> QED
    BY <1>1, <1>2, PageInitially, PageInvKept, PTL DEF Spec, ShownIsTrue

-----------------------------------------------------------------------------
(* What is not sent again, and the banner                                  *)

LEMMA NextIsNotDone ==
  ASSUME PageInv, [Next]_vars, ~parallel',
         NEW b \in Batches, Len(copy'[b]) > Len(copy[b])
  PROVE  status[items'[b][Len(copy'[b])]] # "done"
  <1>1. \A c \in Batches : Len(copy[c]) \in Nat /\ copy[c] \in Seq(Copies)
    BY ListFacts DEF PageInv
  <1>2. CASE Unlock \/ (\E f \in Files : AddFile(f) \/ RemoveFile(f)) \/ UNCHANGED vars
    BY <1>1, <1>2, UserStep
  <1>3. ASSUME NEW c \in Batches, NEW w, NEW x, NASMoves(c, w, x)
        PROVE  FALSE
    <2>1. copy'[b] = IF b = c THEN x ELSE copy[b]
      BY <1>3 DEF NASMoves, PageInv, TypeOK
    <2>2. Len(x) = Len(copy[c])
      BY <1>3 DEF NASMoves
    <2> QED
      BY <1>1, <2>1, <2>2
  <1>4. ASSUME NEW c \in Batches, NEW its, NEW sh, NEW st, NEW ban,
               Sends(c, its, sh, st, ban)
        PROVE  status[items'[b][Len(copy'[b])]] # "done"
    <2> DEFINE more == Len(sh) < Len(its)
               longer == Append(copy[c], "none")
    <2>1. /\ c # b => copy'[b] = copy[b]
          /\ copy'[c] = IF more THEN longer ELSE copy[c]
          /\ items'[c] = its
      BY <1>4, SendsShows
    <2>2. Len(longer) = Len(copy[c]) + 1
      <3>1. "none" \in Copies
        BY DEF Copies
      <3> QED
        BY <1>1, <3>1, AppendProperties
    <2>3. /\ Len(copy[c]) = Len(sh)
          /\ \A i \in 1 .. Len(its) :
                i > Len(sh) => st[its[i]] = status[its[i]]
          /\ \A i \in 1 .. Len(its) :
                i > Len(sh) => st[its[i]] \in {"pending", "retryable"}
      BY <1>4 DEF Sends
    <2>4. Len(its) \in Nat /\ Len(sh) \in Nat
      BY <1>4, LenProperties DEF Sends
    <2> HIDE DEF longer, more
    <2>5. c = b /\ more
      BY <1>1, <2>1
    <2>6. Len(copy'[b]) = Len(sh) + 1 /\ items'[b] = its
      BY <2>1, <2>2, <2>3, <2>5
    <2>7. Len(sh) + 1 \in 1 .. Len(its) /\ Len(sh) + 1 > Len(sh)
      BY <2>4, <2>5 DEF more
    <2>8. status[its[Len(sh) + 1]] \in {"pending", "retryable"}
      BY <2>3, <2>7
    <2> QED
      BY <2>6, <2>8
  <1>5. CASE Next
    <2>1. StepKinds
      BY <1>5, StepsAreKinds
    <2> QED
      BY <1>2, <1>3, <1>4, <2>1 DEF StepKinds
  <1> QED
    BY <1>2, <1>5

\* With one batch at a time, an entry that was ticked is never sent again.
THEOREM NotResent == Spec => DoneIsNotResent
  <1>1. PageInv /\ [Next]_vars =>
          [\A b \in Batches : (~parallel' /\ Len(copy'[b]) > Len(copy[b])) =>
              status[items'[b][Len(copy'[b])]] # "done"]_vars
    BY NextIsNotDone
  <1> QED
    BY <1>1, PageInitially, PageInvKept, PTL DEF Spec, DoneIsNotResent

\* A batch has no more entries than there are files to add.
LEMMA BatchesAreSmall ==
  ASSUME NEW s \in Seq(Files), Distinct(s)
  PROVE  /\ Cardinality(Files) \in Nat
         /\ \A i \in 1 .. Len(s) : i \in 1 .. Cardinality(Files)
  <1>1. Len(s) \in Nat /\ DOMAIN s = 1 .. Len(s) /\ s \in [1 .. Len(s) -> Files]
    BY LenProperties, SeqDef
  <1>2. s \in Injection(1 .. Len(s), Files)
    BY <1>1 DEF Injection, IsInjective, Distinct
  <1>3. IsFiniteSet(Files) /\ Cardinality(Files) \in Nat
    BY FilesFinite, FS_CardinalityType
  <1>4. Cardinality(1 .. Len(s)) <= Cardinality(Files)
    BY <1>2, <1>3, FS_Injection
  <1>5. Cardinality(1 .. Len(s)) = Len(s)
    BY <1>1, FS_Interval
  <1> QED
    BY <1>1, <1>3, <1>4, <1>5

\* The entry f is stored by one of the attempts.
StoredByNow(f) ==
    \E a \in Attempts :
       a[2] \in DOMAIN copy[a[1]] /\ items[a[1]][a[2]] = f
       /\ copy[a[1]][a[2]] = "stored"

LEMMA AttemptCounts ==
  ASSUME PageInv, NEW f, NEW b \in Batches, NEW i \in 1 .. Len(items[b]),
         i \in 1 .. Len(copy[b]), items[b][i] = f, copy[b][i] = "stored"
  PROVE  StoredByNow(f)
  <1>1. /\ items[b] \in Seq(Files) /\ DOMAIN copy[b] = 1 .. Len(copy[b])
        /\ Distinct(items[b])
    BY ListFacts DEF PageInv, ListInv
  <1> DEFINE s == items[b]
  <1> HIDE DEF s
  <1>2. i \in 1 .. Cardinality(Files)
    <2>1. s \in Seq(Files) /\ Distinct(s) /\ i \in 1 .. Len(s)
      BY <1>1 DEF s
    <2> QED
      BY <2>1, BatchesAreSmall
  <1> DEFINE a == <<b, i>>
  <1>3. a \in Attempts /\ a[1] = b /\ a[2] = i
    BY <1>2 DEF Attempts
  <1> HIDE DEF a
  <1> QED
    BY <1>1, <1>3 DEF StoredByNow

LEMMA BannerStep ==
  ASSUME PageInv, [Next]_vars, ~banner, banner', ~parallel',
         NEW f \in Elements(files)
  PROVE  status'[f] = "pending" \/ StoredByNow(f)
  <1>1. CASE Unlock \/ (\E g \in Files : AddFile(g) \/ RemoveFile(g)) \/ UNCHANGED vars
    BY <1>1, UserStep
  <1>2. ASSUME NEW c \in Batches, NEW w, NEW x, NASMoves(c, w, x)
        PROVE  FALSE
    BY <1>2 DEF NASMoves, page
  <1>3. ASSUME NEW b \in Batches, NEW its, NEW sh, NEW st, NEW ban,
               Sends(b, its, sh, st, ban)
        PROVE  status'[f] = "pending" \/ StoredByNow(f)
    <2>1. ~ban
      BY <1>3 DEF Sends
    <2>2. ~(Len(sh) < Len(its))
      <3>1. CASE Len(sh) < Len(its)
        <4>1. banner' = ban
          BY <1>3, <3>1, SendsNext
        <4> QED
          BY <2>1, <4>1
      <3> QED
        BY <3>1
    <2>3. status' = st /\ NoneFailed(st)
      <3>1. status' = st
        BY <1>3, <2>2, SendsNoMore
      <3>2. banner' /\ ~banner => NoneFailed(st)
        BY <1>3, <2>2, SendsNoMore
      <3> QED
        BY <3>1, <3>2
    <2>4. f \in Files /\ \E i \in 1 .. Len(files) : files[i] = f
      BY ElementsOf DEF PageInv, TypeOK
    <2>5. st[f] \in {"pending", "done"}
      <3>1. st[f] \in Statuses /\ st[f] # "absent" /\ st[f] # "uploading"
        BY <1>3, <2>4 DEF Sends
      <3>2. st[f] \notin {"error", "retryable"}
        BY <2>3 DEF NoneFailed
      <3> QED
        BY <3>1, <3>2 DEF Statuses, Classes
    <2>6. ASSUME st[f] = "done" PROVE StoredByNow(f)
      <3>1. StoredFor(f, b, its, sh)
        BY <1>3, <2>4, <2>6 DEF Sends
      <3>2. ASSUME NEW c \in Batches, NEW i \in 1 .. Len(shown[c]),
                   i <= Len(items[c]), items[c][i] = f, copy[c][i] = "stored"
            PROVE  StoredByNow(f)
        <4>1. /\ Len(items[c]) \in Nat /\ Len(copy[c]) \in Nat
              /\ Len(shown[c]) \in Nat /\ Len(shown[c]) <= Len(copy[c])
          BY ListFacts DEF PageInv, SendInv, Index
        <4>2. i \in 1 .. Len(items[c]) /\ i \in 1 .. Len(copy[c])
          BY <3>2, <4>1
        <4> QED
          BY <3>2, <4>2, AttemptCounts
      <3>3. ASSUME NEW i \in 1 .. Len(sh),
                   i <= Len(its), its[i] = f, copy[b][i] = "stored"
            PROVE  StoredByNow(f)
        <4>1. /\ Len(copy[b]) = Len(sh) /\ Len(sh) \in Nat /\ Len(its) \in Nat
              /\ its = items[b] \/ Len(sh) = 0
          BY <1>3, LenProperties DEF Sends
        <4>2. its = items[b] /\ i \in 1 .. Len(items[b]) /\ i \in 1 .. Len(copy[b])
          BY <3>3, <4>1
        <4> QED
          BY <3>3, <4>2, AttemptCounts
      <3> QED
        BY <3>1, <3>2, <3>3 DEF StoredFor
    <2> QED
      BY <2>3, <2>5, <2>6
  <1>4. CASE Next
    <2>1. StepKinds
      BY <1>4, StepsAreKinds
    <2> QED
      BY <1>1, <1>2, <1>3, <2>1 DEF StepKinds
  <1> QED
    BY <1>1, <1>4

\* With one batch at a time the done banner means that every entry of the list
\* is stored, or was added while the batch ran.
THEOREM BannerTrue == Spec => BannerIsTrue
  <1>1. PageInv /\ [Next]_vars =>
          [(~banner /\ banner' /\ ~parallel') =>
              \A f \in Elements(files) :
                 \/ status'[f] = "pending"
                 \/ \E a \in Attempts :
                       /\ a[2] \in DOMAIN copy[a[1]]
                       /\ items[a[1]][a[2]] = f
                       /\ copy[a[1]][a[2]] = "stored"]_vars
    BY BannerStep DEF StoredByNow
  <1> QED
    BY <1>1, PageInitially, PageInvKept, PTL DEF Spec, BannerIsTrue
=============================================================================
