------------------------- MODULE DriveUpload_proofs -------------------------
(***************************************************************************)
(* Theorems about DriveUpload, for any set of files and any number of      *)
(* clicks and restarts.  First what does not depend on which entries a     *)
(* batch was started with: what the page ticks is on the NAS, and no batch *)
(* makes two folders or shares one (IInv).  Then what does: the owner is   *)
(* told the truth, nothing is stored twice without need, the banner is     *)
(* earned (PageInv); and which copies are in which folder (FolderInv).     *)
(***************************************************************************)
EXTENDS DriveUpload, FiniteSetTheorems, SequenceTheorems, TLAPS

CallStates == {"idle", "sent", "landed", "verified", "reserved"} \cup Replies
Stages == {"new", "init", "file", "notify", "over"}

\* The types of the variables the theorems speak of.
TypeInv ==
    /\ status \in [Files -> Statuses]
    /\ stage \in [Batches -> Stages]
    /\ call \in [Batches -> CallStates]
    /\ token \in [Batches -> [folder : Nat, epoch : Nat]]
    /\ epoch \in Nat
    /\ folders \in Nat
    /\ stored \in [Files -> Seq(Nat)]

\* A finalize request is answered "ok" only after the file was stored.
OkIsStored ==
    \A b \in Batches :
        (stage[b] = "file" /\ call[b] = "ok" /\ Current(b) \in Files) =>
            stored[Current(b)] # <<>>

\* The batches whose folder may have been made: init is past its landing
\* page.
Made ==
    {b \in Batches :
        stage[b] # "new" /\ ~(stage[b] = "init" /\ call[b] \in {"sent", "landed"})}

\* Each of them made one folder at most.
FoldersCounted == folders <= Cardinality(Made)

\* A token names a folder that exists, and no other token names it.
TokensApart ==
    /\ \A b \in Batches : token[b] = NoToken \/ token[b].folder \in 1 .. folders
    /\ \A b, c \in Batches :
          (b # c /\ token[b] # NoToken) => token[b].folder # token[c].folder

IInv == TypeInv /\ DoneIsStored /\ OkIsStored /\ FoldersCounted /\ TokensApart

-----------------------------------------------------------------------------
(* Counting folders                                                        *)

LEMMA BatchesFinite == IsFiniteSet(Batches)
  BY FS_Interval, BoundsNatural DEF Batches, BoundsNatural

LEMMA MadeFinite == IsFiniteSet(Made) /\ Cardinality(Made) \in Nat
  BY BatchesFinite, FS_Subset, FS_CardinalityType DEF Made

\* No folder is made, and no batch leaves Made.
LEMMA CountKept ==
  ASSUME FoldersCounted, folders \in Nat, folders' = folders,
         Made \subseteq Made'
  PROVE  FoldersCounted'
  <1>1. IsFiniteSet(Made')
    BY BatchesFinite, FS_Subset DEF Made
  <1>2. Cardinality(Made) <= Cardinality(Made') /\ Cardinality(Made') \in Nat
    BY <1>1, FS_Subset, FS_CardinalityType
  <1> QED
    BY <1>2, MadeFinite DEF FoldersCounted

\* One folder is made, and its batch enters Made.
LEMMA CountGrows ==
  ASSUME FoldersCounted, folders \in Nat, folders' = folders + 1,
         Made \subseteq Made', NEW b, b \in Made', b \notin Made
  PROVE  FoldersCounted'
  <1>1. IsFiniteSet(Made')
    BY BatchesFinite, FS_Subset DEF Made
  <1>2. Cardinality(Made \cup {b}) = Cardinality(Made) + 1
    BY MadeFinite, FS_AddElement
  <1>3. Made \cup {b} \subseteq Made'
    OBVIOUS
  <1>4. /\ Cardinality(Made \cup {b}) <= Cardinality(Made')
        /\ Cardinality(Made') \in Nat
    BY <1>1, <1>3, FS_Subset, FS_CardinalityType
  <1> QED
    BY <1>2, <1>4, MadeFinite DEF FoldersCounted

-----------------------------------------------------------------------------
(* What the steps come down to                                             *)

\* The request of b moves on, or is answered; the NAS's copies and folders
\* stay.
LEMMA RequestMoves ==
  ASSUME IInv, NEW b \in Batches, NEW w \in CallStates,
         call' = [call EXCEPT ![b] = w],
         w = "ok" => stage[b] # "file",
         w \in {"sent", "landed"} => call[b] \in {"sent", "landed"},
         UNCHANGED <<status, stage, items, idx, token, epoch, folders, stored>>
  PROVE  IInv'
  <1>1. TypeInv'
    BY DEF IInv, TypeInv
  <1>2. DoneIsStored'
    BY DEF IInv, DoneIsStored
  <1>3. OkIsStored'
    BY DEF IInv, TypeInv, OkIsStored, Current
  <1>4. Made \subseteq Made'
    BY DEF IInv, TypeInv, Made
  <1>5. FoldersCounted'
    BY <1>4, CountKept DEF IInv, TypeInv
  <1>6. TokensApart'
    BY DEF IInv, TokensApart
  <1> QED
    BY <1>1, <1>2, <1>3, <1>5, <1>6 DEF IInv

\* init makes a folder, whether or not its answer says so.
LEMMA FolderIsMade ==
  ASSUME IInv, NEW b \in Batches, NEW w \in {"ok", "fail", "lost"},
         stage[b] = "init", call[b] = "landed",
         call' = [call EXCEPT ![b] = w],
         CreateFolder(b),
         UNCHANGED <<status, stage, items, idx, epoch>>
  PROVE  IInv'
  <1> USE DEF CreateFolder
  <1>1. TypeInv'
    <2>1. call' \in [Batches -> CallStates]
      BY DEF IInv, TypeInv, CallStates, Replies
    <2>2. token' \in [Batches -> [folder : Nat, epoch : Nat]]
      BY DEF IInv, TypeInv
    <2> QED
      BY <2>1, <2>2 DEF IInv, TypeInv
  <1>2. DoneIsStored'
    BY DEF IInv, DoneIsStored
  <1>3. OkIsStored'
    BY DEF IInv, TypeInv, OkIsStored, Current
  <1>4. Made \subseteq Made' /\ b \in Made' /\ b \notin Made
    BY DEF IInv, TypeInv, Made
  <1>5. FoldersCounted'
    BY <1>4, CountGrows DEF IInv, TypeInv
  <1>6. TokensApart'
    <2>1. token' = [token EXCEPT ![b] = [folder |-> folders + 1, epoch |-> epoch]]
      OBVIOUS
    <2>2. \A c \in Batches : token[c].folder \in 0 .. folders
      BY DEF IInv, TypeInv, TokensApart, NoToken
    <2>3. token'[b].folder = folders + 1 /\ folders' = folders + 1
      BY <2>1 DEF IInv, TypeInv
    <2>4. \A c \in Batches : c # b => token'[c] = token[c]
      BY <2>1 DEF IInv, TypeInv
    <2>5. folders \in Nat
      BY DEF IInv, TypeInv
    <2>6. \A c \in Batches : token'[c] = NoToken \/ token'[c].folder \in 1 .. folders'
      BY <2>3, <2>4, <2>5 DEF IInv, TokensApart
    <2>7. \A c, d \in Batches :
             (c # d /\ token'[c] # NoToken) => token'[c].folder # token'[d].folder
      BY <2>2, <2>3, <2>4, <2>5 DEF IInv, TokensApart
    <2> QED
      BY <2>6, <2>7 DEF TokensApart
  <1> QED
    BY <1>1, <1>2, <1>3, <1>5, <1>6 DEF IInv

\* finalize stores a copy, whether or not its answer says so.
LEMMA CopyIsStored ==
  ASSUME IInv, NEW b \in Batches, NEW w \in {"ok", "retry", "lost"},
         stage[b] = "file",
         call' = [call EXCEPT ![b] = w],
         StoreCopy(b),
         UNCHANGED <<status, stage, items, idx, epoch>>
  PROVE  IInv'
  <1>1. token[b].folder \in Nat /\ stored \in [Files -> Seq(Nat)]
    BY DEF IInv, TypeInv
  <1>2. stored' = [stored EXCEPT ![Current(b)] = Append(@, token[b].folder)]
    BY DEF StoreCopy
  <1>3. \A f \in Files :
           stored'[f] = IF f = Current(b) THEN Append(stored[f], token[b].folder)
                                          ELSE stored[f]
    BY <1>1, <1>2
  <1>4. \A f \in Files :
           /\ stored'[f] \in Seq(Nat)
           /\ stored[f] # <<>> => stored'[f] # <<>>
           /\ f = Current(b) => stored'[f] # <<>>
    <2> TAKE f \in Files
    <2>1. stored[f] \in Seq(Nat)
      BY <1>1
    <2>2. /\ Append(stored[f], token[b].folder) \in Seq(Nat)
          /\ Append(stored[f], token[b].folder) # <<>>
      <3>1. token[b].folder \in Nat
        BY <1>1
      <3> QED
        BY <2>1, <3>1, AppendProperties, Zenon
    <2> QED
      BY <1>3, <2>1, <2>2
  <1>5. stored' \in [Files -> Seq(Nat)]
    <2>1. stored' = [f \in Files |-> stored'[f]]
      BY <1>1, <1>2
    <2> QED
      BY <1>4, <2>1
  <1>6. TypeInv'
    <2>1. call' \in [Batches -> CallStates]
      BY DEF IInv, TypeInv, CallStates, Replies
    <2> QED
      BY <2>1, <1>5 DEF IInv, TypeInv, StoreCopy
  <1>7. DoneIsStored'
    BY <1>4 DEF IInv, DoneIsStored
  <1>8. OkIsStored'
    BY <1>4 DEF IInv, TypeInv, OkIsStored, Current
  <1>9. Made \subseteq Made'
    BY DEF IInv, TypeInv, Made
  <1>10. FoldersCounted'
    BY <1>9, CountKept DEF IInv, TypeInv, StoreCopy
  <1>11. TokensApart'
    BY DEF IInv, TokensApart, StoreCopy
  <1> QED
    BY <1>6, <1>7, <1>8, <1>10, <1>11 DEF IInv

\* The page goes on with entry i or ends the batch, with statuses that are
\* true.
LEMMA PageGoesOn ==
  ASSUME IInv, NEW b \in Batches, NEW i, NEW st \in [Files -> Statuses], NEW up,
         \A f \in Files : st[f] = "done" => stored[f] # <<>>,
         b \in Made,
         UploadSequential(b, i, st, up)
  PROVE  IInv'
  <1>1. /\ UNCHANGED <<items, token, epoch, folders, stored>>
        /\ idx' = [idx EXCEPT ![b] = i]
    BY DEF UploadSequential, nas
  <1>2. \E s \in {"file", "over", "notify"} : stage' = [stage EXCEPT ![b] = s]
    BY DEF UploadSequential
  <1>3. \E w \in {"sent", "idle"} : call' = [call EXCEPT ![b] = w]
    BY DEF UploadSequential
  <1>4. /\ status' \in [Files -> Statuses]
        /\ \A f \in Files : status'[f] = "done" => st[f] = "done"
    BY DEF UploadSequential, Statuses
  <1>5. TypeInv'
    BY <1>1, <1>2, <1>3, <1>4 DEF IInv, TypeInv, Stages, CallStates
  <1>6. DoneIsStored'
    BY <1>1, <1>4 DEF DoneIsStored
  <1>7. OkIsStored'
    <2> SUFFICES ASSUME NEW c \in Batches,
                        stage'[c] = "file", call'[c] = "ok", Current(c)' \in Files
                 PROVE  stored'[Current(c)'] # <<>>
      BY DEF OkIsStored
    <2>1. c # b
      BY <1>3 DEF IInv, TypeInv
    <2>2. stage[c] = "file" /\ call[c] = "ok"
      BY <1>2, <1>3, <2>1 DEF IInv, TypeInv
    <2>3. Current(c)' = Current(c)
      BY <1>1, <2>1 DEF Current
    <2> QED
      BY <1>1, <2>2, <2>3 DEF IInv, OkIsStored
  <1>8. Made \subseteq Made'
    BY <1>2, <1>3 DEF IInv, TypeInv, Made
  <1>9. FoldersCounted'
    BY <1>1, <1>8, CountKept DEF IInv, TypeInv
  <1>10. TokensApart'
    BY <1>1 DEF IInv, TokensApart
  <1> QED
    BY <1>5, <1>6, <1>7, <1>9, <1>10 DEF IInv

\* Steps of the user or of the page that touch neither requests nor the NAS,
\* and tick nothing.
LEMMA NothingTicked ==
  ASSUME IInv, status' \in [Files -> Statuses],
         \A f \in Files : status'[f] = "done" => status[f] = "done",
         UNCHANGED <<stage, items, idx, call, token, epoch, folders, stored>>
  PROVE  IInv'
  <1>1. TypeInv'
    BY DEF IInv, TypeInv
  <1>2. DoneIsStored' /\ OkIsStored'
    BY DEF IInv, DoneIsStored, OkIsStored, Current
  <1>3. Made \subseteq Made'
    BY DEF Made
  <1>4. FoldersCounted'
    BY <1>3, CountKept DEF IInv, TypeInv
  <1>5. TokensApart'
    BY DEF IInv, TokensApart
  <1> QED
    BY <1>1, <1>2, <1>4, <1>5 DEF IInv

\* A batch ends without another request.
LEMMA BatchIsOver ==
  ASSUME IInv, NEW b \in Batches,
         stage' = [stage EXCEPT ![b] = "over"],
         call' = [call EXCEPT ![b] = "idle"],
         UNCHANGED <<status, items, idx, token, epoch, folders, stored>>
  PROVE  IInv'
  <1>1. TypeInv'
    BY DEF IInv, TypeInv, Stages, CallStates
  <1>2. DoneIsStored'
    BY DEF IInv, DoneIsStored
  <1>3. OkIsStored'
    BY DEF IInv, TypeInv, OkIsStored, Current
  <1>4. Made \subseteq Made'
    BY DEF IInv, TypeInv, Made
  <1>5. FoldersCounted'
    BY <1>4, CountKept DEF IInv, TypeInv
  <1>6. TokensApart'
    BY DEF IInv, TokensApart
  <1> QED
    BY <1>1, <1>2, <1>3, <1>5, <1>6 DEF IInv

-----------------------------------------------------------------------------
(* The inductive invariant                                                 *)

LEMMA Initially == Init => IInv
  <1> SUFFICES ASSUME Init PROVE IInv
    OBVIOUS
  <1> USE DEF Init
  <1>1. TypeInv
    BY DEF TypeInv, Statuses, Stages, CallStates, NoToken
  <1>2. DoneIsStored /\ OkIsStored
    BY DEF DoneIsStored, OkIsStored
  <1>3. FoldersCounted
    BY MadeFinite DEF FoldersCounted
  <1>4. TokensApart
    BY DEF TokensApart
  <1> QED
    BY <1>1, <1>2, <1>3, <1>4 DEF IInv

\* A step of the handler of b that leaves the NAS alone.
LEMMA HandlerGoes ==
  ASSUME IInv, NEW b \in Batches, NEW w \in CallStates, Goes(b, w),
         w = "ok" => stage[b] # "file",
         w \in {"sent", "landed"} => call[b] \in {"sent", "landed"}
  PROVE  IInv'
  BY RequestMoves DEF Goes, Becomes, page, nas

LEMMA ServerKeeps ==
  ASSUME IInv, NEW b \in Batches, ServerStep(b) \/ Refuse(b)
  PROVE  IInv'
  <1> USE DEF At, CallStates, Replies
  <1>1. CASE Refuse(b)
    BY <1>1, HandlerGoes DEF Refuse
  <1>2. CASE InitLanding(b)
    BY <1>2, HandlerGoes DEF InitLanding
  <1>3. CASE InitCreate(b)
    <2>1. CASE Goes(b, "fail")
      BY <2>1, HandlerGoes
    <2>2. ASSUME NEW w \in {"ok", "fail"}, CreateFolder(b), Becomes(b, w)
          PROVE  IInv'
      BY <1>3, <2>2, FolderIsMade DEF InitCreate, Becomes, page
    <2> QED
      BY <1>3, <2>1, <2>2 DEF InitCreate
  <1>4. CASE VerifyToken(b)
    BY <1>4, HandlerGoes DEF VerifyToken
  <1>5. CASE FileReserve(b)
    BY <1>5, HandlerGoes DEF FileReserve
  <1>6. CASE FileFinalize(b)
    <2>1. CASE Goes(b, "retry") \/ Goes(b, "fail")
      BY <2>1, HandlerGoes
    <2>2. ASSUME NEW w \in {"ok", "retry"}, StoreCopy(b), Becomes(b, w)
          PROVE  IInv'
      BY <1>6, <2>2, CopyIsStored DEF FileFinalize, Becomes, page
    <2> QED
      BY <1>6, <2>1, <2>2 DEF FileFinalize
  <1>7. CASE Notify(b)
    <2>1. CASE Goes(b, "fail")
      BY <2>1, HandlerGoes
    <2>2. ASSUME NEW w \in {"ok", "fail"}, SendNotice(b), Becomes(b, w)
          PROVE  IInv'
      BY <1>7, <2>2, RequestMoves DEF Notify, SendNotice, Becomes, page
    <2> QED
      BY <1>7, <2>1, <2>2 DEF Notify
  <1> QED
    BY <1>1, <1>2, <1>3, <1>4, <1>5, <1>6, <1>7 DEF ServerStep

LEMMA EnvironmentKeeps ==
  ASSUME IInv, NEW b \in Batches, Disconnect(b) \/ HandlerTimeout(b)
  PROVE  IInv'
  <1> USE DEF At, CallStates, Replies
  <1>1. PICK w \in {"lost", "fail"} : /\ Becomes(b, w)
                                      /\ w = "fail" => HandlerTimeout(b)
                                      /\ w = "lost" => Disconnect(b)
    BY DEF Disconnect, HandlerTimeout
  <1>2. CASE At(b, "init", "landed") /\ CreateFolder(b)
    BY <1>1, <1>2, FolderIsMade DEF Becomes, page
  <1>3. CASE At(b, "file", "reserved") /\ StoreCopy(b) /\ w = "lost"
    BY <1>1, <1>3, CopyIsStored DEF Becomes, page
  <1>4. CASE UNCHANGED <<token, folders, stored>>
    BY <1>1, <1>4, RequestMoves DEF Becomes, page
  <1> QED
    BY <1>1, <1>2, <1>3, <1>4 DEF Disconnect, HandlerTimeout, SendNotice, nas

LEMMA PageKeeps ==
  ASSUME IInv, NEW b \in Batches, PageStep(b)
  PROVE  IInv'
  <1>1. CASE InitAnswered(b) /\ call[b] = "ok"
    <2>1. b \in Made
      BY <1>1 DEF InitAnswered, Answered, Made
    <2>2. UploadSequential(b, 1, status, <<>>)
      BY <1>1 DEF InitAnswered
    <2> QED
      BY <2>1, <2>2, PageGoesOn DEF IInv, TypeInv, DoneIsStored
  <1>2. CASE InitAnswered(b) /\ call[b] # "ok"
    BY <1>2, BatchIsOver DEF InitAnswered, nas
  <1>3. CASE FileAnswered(b)
    <2> DEFINE st == [status EXCEPT ![Current(b)] = NewStatus(call[b])]
    <2>1. stage[b] = "file" /\ call[b] \in Replies
      BY <1>3 DEF FileAnswered, Answered
    <2>2. b \in Made
      BY <2>1 DEF Made
    <2>3. /\ NewStatus(call[b]) \in Statuses
          /\ NewStatus(call[b]) = "done" => call[b] = "ok"
      BY <2>1 DEF NewStatus, Statuses, Replies
    <2>4. st \in [Files -> Statuses]
      BY <2>3 DEF IInv, TypeInv
    <2>5. \A f \in Files : st[f] = "done" => stored[f] # <<>>
      <3> TAKE f \in Files
      <3>1. CASE f = Current(b)
        BY <2>1, <2>3, <3>1 DEF IInv, TypeInv, OkIsStored
      <3>2. CASE f # Current(b)
        BY <3>2 DEF IInv, TypeInv, DoneIsStored
      <3> QED
        BY <3>1, <3>2
    <2>6. UploadSequential(b, idx[b] + 1, st, NewUploaded(b))
      BY <1>3 DEF FileAnswered
    <2> HIDE DEF st
    <2> QED
      BY <2>2, <2>4, <2>5, <2>6, PageGoesOn
  <1>4. CASE NotifyAnswered(b)
    BY <1>4, BatchIsOver DEF NotifyAnswered, nas
  <1> QED
    BY <1>1, <1>2, <1>3, <1>4 DEF PageStep

LEMMA ClickKeeps ==
  ASSUME IInv, NEW b \in Batches, ClickUpload(b)
  PROVE  IInv'
  <1> USE DEF ClickUpload, nas
  <1>1. TypeInv'
    BY DEF IInv, TypeInv, Stages, CallStates
  <1>2. DoneIsStored'
    BY DEF IInv, DoneIsStored
  <1>3. OkIsStored'
    <2> SUFFICES ASSUME NEW c \in Batches,
                        stage'[c] = "file", call'[c] = "ok", Current(c)' \in Files
                 PROVE  stored'[Current(c)'] # <<>>
      BY DEF OkIsStored
    <2>1. c # b
      BY DEF IInv, TypeInv
    <2>2. stage[c] = "file" /\ call[c] = "ok"
      BY <2>1 DEF IInv, TypeInv
    <2>3. Current(c)' = Current(c)
      BY <2>1 DEF Current
    <2> QED
      BY <2>2, <2>3 DEF IInv, OkIsStored
  <1>4. Made \subseteq Made'
    BY DEF IInv, TypeInv, Made
  <1>5. FoldersCounted'
    BY <1>4, CountKept DEF IInv, TypeInv
  <1>6. TokensApart'
    BY DEF IInv, TokensApart
  <1> QED
    BY <1>1, <1>2, <1>3, <1>5, <1>6 DEF IInv

LEMMA RestartKeeps == IInv /\ Restart => IInv'
  <1> SUFFICES ASSUME IInv, Restart PROVE IInv'
    OBVIOUS
  <1> USE DEF Restart, page, nas
  <1>1. TypeInv'
    BY DEF IInv, TypeInv, CallStates, Replies
  <1>2. DoneIsStored'
    BY DEF IInv, DoneIsStored
  <1>3. OkIsStored'
    BY DEF IInv, TypeInv, OkIsStored, Current
  <1>4. Made \subseteq Made'
    BY DEF IInv, TypeInv, Made
  <1>5. FoldersCounted'
    BY <1>4, CountKept DEF IInv, TypeInv
  <1>6. TokensApart'
    BY DEF IInv, TokensApart
  <1> QED
    BY <1>1, <1>2, <1>3, <1>5, <1>6 DEF IInv

LEMMA Step == IInv /\ [Next]_vars => IInv'
  <1> SUFFICES ASSUME IInv, [Next]_vars PROVE IInv'
    OBVIOUS
  <1>1. CASE Unlock
    BY <1>1, NothingTicked DEF Unlock, nas, IInv, TypeInv
  <1>2. ASSUME NEW f \in Files, AddFile(f) PROVE IInv'
    <2>1. status' = [status EXCEPT ![f] = "pending"]
      BY <1>2 DEF AddFile
    <2>2. /\ status' \in [Files -> Statuses]
          /\ \A g \in Files : status'[g] = "done" => status[g] = "done"
      BY <2>1 DEF IInv, TypeInv, Statuses
    <2> QED
      BY <1>2, <2>2, NothingTicked DEF AddFile, nas
  <1>3. ASSUME NEW f \in Files, RemoveFile(f) PROVE IInv'
    BY <1>3, NothingTicked DEF RemoveFile, nas, IInv, TypeInv
  <1>4. CASE Restart
    BY <1>4, RestartKeeps
  <1>5. CASE SessionExpires
    BY <1>5, NothingTicked DEF SessionExpires, page, nas, IInv, TypeInv
  <1>6. CASE UNCHANGED vars
    BY <1>6, NothingTicked DEF vars, page, nas, IInv, TypeInv
  <1> QED
    BY <1>1, <1>2, <1>3, <1>4, <1>5, <1>6, ClickKeeps, ServerKeeps, PageKeeps,
       EnvironmentKeeps DEF Next

\* The invariant holds throughout, whatever breaks, restarts or overlaps.
THEOREM InvariantHolds == Spec => []IInv
  <1> QED
    BY Initially, Step, PTL DEF Spec

\* An entry the page shows as done is on the NAS.
THEOREM DoneStored == Spec => []DoneIsStored
  <1>1. IInv => DoneIsStored
    BY DEF IInv
  <1> QED
    BY <1>1, InvariantHolds, PTL

-----------------------------------------------------------------------------
(* The list and the sequences of the page                                  *)

\* Every place of the new array is that of a kept entry.
LEMMA RanksAreTaken ==
  ASSUME NEW n \in Nat, NEW places \in SUBSET (1 .. n)
  PROVE  /\ Cardinality(places) \in Nat
         /\ \A k \in 1 .. Cardinality(places) :
               \E i \in places : Rank(i, places) = k
  <1> DEFINE upto(i) == {j \in places : j <= i}
             m == Cardinality(places)
             rank == [i \in places |-> Rank(i, places)]
  <1>1. IsFiniteSet(places) /\ m \in Nat
    <2>1. IsFiniteSet(1 .. n)
      BY FS_Interval
    <2> QED
      BY <2>1, FS_Subset, FS_CardinalityType
  <1>2. \A i \in places : /\ IsFiniteSet(upto(i)) /\ Cardinality(upto(i)) \in Nat
                          /\ Cardinality(upto(i)) <= m
                          /\ Rank(i, places) = Cardinality(upto(i))
    BY <1>1, FS_Subset, FS_CardinalityType DEF Rank
  <1>3. \A i \in places : Rank(i, places) \in 1 .. m
    <2> TAKE i \in places
    <2>1. Cardinality(upto(i)) # 0
      <3>1. i \in upto(i)
        OBVIOUS
      <3> QED
        BY <1>2, <3>1, FS_EmptySet
    <2> QED
      BY <1>1, <1>2, <2>1
  <1>4. \A i, j \in places : i < j => Rank(i, places) # Rank(j, places)
    <2> SUFFICES ASSUME NEW i \in places, NEW j \in places, i < j
                 PROVE  Rank(i, places) # Rank(j, places)
      OBVIOUS
    <2>1. i \in Int /\ j \in Int /\ \A l \in places : l \in Int
      OBVIOUS
    <2>2. ASSUME NEW l \in upto(i) PROVE l \in upto(j)
      <3>1. l \in places /\ l <= i
        OBVIOUS
      <3>2. l <= j
        BY <2>1, <3>1
      <3> QED
        BY <3>1, <3>2
    <2>3. j \in upto(j) /\ j \notin upto(i)
      BY <2>1
    <2> HIDE DEF upto
    <2> QED
      BY <1>2, <2>2, <2>3, FS_Subset
  <1>5. rank \in Injection(places, 1 .. m)
    BY <1>3, <1>4 DEF Injection, IsInjective
  <1>6. IsFiniteSet(1 .. m) /\ Cardinality(1 .. m) = m
    BY <1>1, FS_Interval
  <1>7. rank \in Surjection(places, 1 .. m)
    <2> HIDE DEF rank
    <2> QED
      BY <1>5, <1>6, FS_Injection
  <1> QED
    BY <1>1, <1>7 DEF Surjection
\* entries of the array at distinct places
LEMMA EntriesKept ==
  ASSUME NEW S, NEW s \in Seq(S), NEW places \in SUBSET (1 .. Len(s))
  PROVE  /\ EntriesAt(s, places) \in Seq(S)
         /\ \E at \in [1 .. Len(EntriesAt(s, places)) -> places] :
               \A k \in 1 .. Len(EntriesAt(s, places)) :
                  /\ EntriesAt(s, places)[k] = s[at[k]]
                  /\ \A l \in 1 .. Len(EntriesAt(s, places)) : at[k] = at[l] => k = l
  <1> DEFINE m == Cardinality(places)
             at == [k \in 1 .. m |-> CHOOSE i \in places : Rank(i, places) = k]
             e == EntriesAt(s, places)
  <1>1. /\ m \in Nat
        /\ \A k \in 1 .. m : \E i \in places : Rank(i, places) = k
    BY RanksAreTaken, LenProperties
  <1>2. \A k \in 1 .. m : at[k] \in places /\ Rank(at[k], places) = k
    BY <1>1
  <1>3. e = [k \in 1 .. m |-> s[at[k]]]
    BY DEF EntriesAt
  <1>4. at \in [1 .. m -> places]
    BY <1>2
  <1> HIDE DEF at, e
  <1>5. \A k \in 1 .. m : s[at[k]] \in S
    <2>1. \A i \in 1 .. Len(s) : s[i] \in S
      BY ElementOfSeq
    <2> QED
      BY <1>2, <2>1
  <1>6. e \in [1 .. m -> S]
    BY <1>3, <1>5
  <1>7. e \in Seq(S) /\ Len(e) = m
    BY <1>1, <1>6, SeqDef, LenProperties
  <1>8. \A k \in 1 .. m : /\ e[k] = s[at[k]]
                          /\ \A l \in 1 .. m : at[k] = at[l] => k = l
    BY <1>1, <1>2, <1>3
  <1>9. at \in [1 .. Len(e) -> places]
    BY <1>4, <1>7
  <1> QED
    BY <1>7, <1>8, <1>9 DEF e

\* A part of a list has entries of the list only, and each once.
LEMMA PartOfList ==
  ASSUME NEW S, NEW s \in Seq(S), Distinct(s), NEW places \in SUBSET (1 .. Len(s)),
         NEW e, e = EntriesAt(s, places)
  PROVE  /\ e \in Seq(S)
         /\ Distinct(e)
         /\ \A k \in 1 .. Len(e) : \E i \in places : e[k] = s[i]
  <1>1. PICK at \in [1 .. Len(e) -> places] :
           \A k \in 1 .. Len(e) :
              /\ e[k] = s[at[k]]
              /\ \A l \in 1 .. Len(e) : at[k] = at[l] => k = l
    BY EntriesKept
  <1>2. ASSUME NEW k \in 1 .. Len(e), NEW l \in 1 .. Len(e), e[k] = e[l]
        PROVE  k = l
    <2>1. at[k] \in 1 .. Len(s) /\ at[l] \in 1 .. Len(s)
      OBVIOUS
    <2>2. s[at[k]] = s[at[l]]
      BY <1>1, <1>2
    <2>3. at[k] = at[l]
      BY <2>1, <2>2 DEF Distinct
    <2> QED
      BY <1>1, <2>3
  <1> QED
    BY <1>1, <1>2, EntriesKept DEF Distinct

LEMMA ElementsOf ==
  ASSUME NEW S, NEW s \in Seq(S)
  PROVE  /\ Elements(s) \subseteq S
         /\ Len(s) \in Nat /\ DOMAIN s = 1 .. Len(s)
         /\ \A i \in 1 .. Len(s) : s[i] \in S /\ s[i] \in Elements(s)
         /\ \A f \in Elements(s) : \E i \in 1 .. Len(s) : s[i] = f
  BY LenProperties, ElementOfSeq DEF Elements

LEMMA AppendElements ==
  ASSUME NEW S, NEW s \in Seq(S), NEW x \in S
  PROVE  /\ Append(s, x) \in Seq(S)
         /\ Len(Append(s, x)) = Len(s) + 1
         /\ Elements(Append(s, x)) = Elements(s) \cup {x}
  <1> DEFINE t == Append(s, x)
  <1>1. /\ t \in Seq(S)
        /\ Len(t) = Len(s) + 1
        /\ \A i \in 1 .. Len(s) : t[i] = s[i]
        /\ t[Len(s) + 1] = x
    BY AppendProperties
  <1>2. Len(s) \in Nat
    BY LenProperties
  <1> HIDE DEF t
  <1>3. DOMAIN t = 1 .. Len(s) + 1 /\ DOMAIN s = 1 .. Len(s)
    BY <1>1, LenProperties
  <1>4. Elements(s) \cup {x} \subseteq Elements(t)
    BY <1>1, <1>2, <1>3 DEF Elements
  <1>5. Elements(t) \subseteq Elements(s) \cup {x}
    BY <1>1, <1>2, <1>3 DEF Elements
  <1> QED
    BY <1>1, <1>4, <1>5 DEF t

-----------------------------------------------------------------------------
(* The invariant of the page                                               *)

\* The list and the batches taken from it.
ListInv ==
    /\ Distinct(files)
    /\ \A i \in 1 .. Len(files) : status[files[i]] # "absent"
    /\ \A b \in Batches :
          /\ Distinct(items[b])
          /\ stage[b] \in {"new", "init"} => idx[b] = 0 /\ uploaded[b] = <<>>
          /\ stage[b] = "file" => idx[b] \in 1 .. Len(items[b])

\* What a batch will report is in its folder.
ReportInv ==
    /\ \A b \in Batches :
          /\ \A f \in Elements(uploaded[b]) :
                token[b].folder \in Elements(stored[f])
          /\ stage[b] = "file" /\ call[b] = "ok" =>
                token[b].folder \in Elements(stored[Current(b)])
    /\ NoticeIsTrue

\* Nothing of f is stored but what an attempt left that was not answered.
Clean(f) == stored[f] = <<>> \/ f \in unsure

\* The entry at place j of batch b is not stored yet, as far as the page knows.
ToSend(b, j) ==
    \/ j > idx[b]
    \/ j = idx[b] /\ call[b] # "ok"

Alone ==
    /\ \A b, c \in Batches : Running(b) /\ Running(c) => b = c
    /\ \A f \in Files :
          /\ status[f] \in {"absent", "pending", "retryable"} => Clean(f)
          /\ status[f] = "uploading" =>
                \E b \in Batches : stage[b] = "file" /\ f = Current(b)
          /\ Len(stored[f]) > 1 => f \in unsure
    /\ \A b \in Batches :
          /\ stage[b] \in {"init", "file"} =>
                \A j \in 1 .. Len(items[b]) : ToSend(b, j) => Clean(items[b][j])
          /\ stage[b] = "file" => status[Current(b)] = "uploading"
          /\ stage[b] = "notify" /\ allDone[b] =>
                \A i \in 1 .. Len(files) : status[files[i]] \in {"done", "pending"}

PageInv == TypeOK /\ ListInv /\ ReportInv /\ (~parallel => Alone)

LEMMA CurrentIsEntry ==
  ASSUME PageInv, NEW b \in Batches, stage[b] = "file"
  PROVE  Current(b) \in Files /\ idx[b] \in 1 .. Len(items[b])
  <1>1. items[b] \in Seq(Files) /\ idx[b] \in 1 .. Len(items[b])
    BY DEF PageInv, TypeOK, ListInv
  <1> QED
    BY <1>1, ElementsOf DEF Current

\* Requests move on, answers come or are lost, a folder is made or a notice
\* sent; no copy is stored.
LEMMA NothingStored ==
  ASSUME PageInv, UNCHANGED <<page, stored, parallel>>,
         call' \in [Batches -> {"idle", "sent", "landed", "verified", "reserved"}
                                  \cup Replies],
         token' \in [Batches -> [folder : Nat, epoch : Nat]],
         epoch' \in Nat, cookie' \in BOOLEAN, session' \in BOOLEAN,
         folders' \in Nat,
         notices' \subseteq [batch : Batches, folder : Nat, names : Seq(Files)],
         unsure \subseteq unsure', unsure' \subseteq Files,
         \A b \in Batches : stage[b] # "init" => token'[b] = token[b],
         \A n \in notices' : n \in notices \/ \A f \in Elements(n.names) :
                                                n.folder \in Elements(stored[f]),
         \A b \in Batches : stage[b] = "file" /\ call'[b] = "ok" => call[b] = "ok",
         \A b \in Batches : stage[b] = "file" /\ call[b] = "ok" =>
                               call'[b] = "ok" \/ Current(b) \in unsure'
  PROVE  PageInv'
  <1> USE DEF page
  <1>1. TypeOK'
    BY DEF PageInv, TypeOK
  <1>2. ListInv'
    BY DEF PageInv, ListInv, Distinct
  <1>3. ReportInv'
    <2>1. \A b \in Batches : \A f \in Elements(uploaded[b]) :
             token'[b].folder \in Elements(stored[f])
      <3> SUFFICES ASSUME NEW b \in Batches, NEW f \in Elements(uploaded[b])
                   PROVE  token'[b].folder \in Elements(stored[f])
        OBVIOUS
      <3>1. uploaded[b] # <<>>
        BY DEF Elements
      <3>2. token'[b] = token[b]
        BY <3>1 DEF PageInv, ListInv
      <3> QED
        BY <3>2 DEF PageInv, ReportInv
    <2>2. \A b \in Batches : stage[b] = "file" /\ call'[b] = "ok" =>
             token'[b].folder \in Elements(stored[Current(b)])
      BY DEF PageInv, ReportInv
    <2>3. NoticeIsTrue'
      BY DEF PageInv, ReportInv, NoticeIsTrue
    <2> QED
      BY <2>1, <2>2, <2>3 DEF ReportInv, Current
  <1>4. ASSUME Alone PROVE Alone'
    <2>1. \A f \in Files : Clean(f) => Clean(f)'
      BY DEF Clean
    <2>2. \A b \in Batches : stage[b] \in {"init", "file"} =>
             \A j \in 1 .. Len(items[b]) : ToSend(b, j)' => Clean(items[b][j])'
      <3> SUFFICES ASSUME NEW b \in Batches, stage[b] \in {"init", "file"},
                          NEW j \in 1 .. Len(items[b]), ToSend(b, j)'
                   PROVE  Clean(items[b][j])'
        OBVIOUS
      <3>1. items[b][j] \in Files
        BY ElementOfSeq DEF PageInv, TypeOK
      <3>2. CASE ToSend(b, j)
        BY <1>4, <2>1, <3>1, <3>2 DEF Alone
      <3>3. CASE ~ToSend(b, j)
        <4>1. idx[b] \in Nat /\ j = idx[b] /\ call[b] = "ok" /\ call'[b] # "ok"
          BY <3>3 DEF ToSend, PageInv, TypeOK
        <4>2. stage[b] = "file"
          BY <4>1 DEF PageInv, ListInv
        <4>3. Current(b) \in unsure'
          BY <4>1, <4>2
        <4> QED
          BY <4>1, <4>3 DEF Clean, Current
      <3> QED
        BY <3>2, <3>3
    <2> QED
      BY <1>4, <2>1, <2>2 DEF Alone, Running, Current
  <1> QED
    BY <1>1, <1>2, <1>3, <1>4 DEF PageInv

\* finalize stores a copy; unless its answer says so, the file is unsure.
LEMMA CopyStored ==
  ASSUME PageInv, NEW b \in Batches, NEW w \in {"ok", "retry", "lost"},
         stage[b] = "file", call[b] = "reserved",
         StoreCopy(b), Becomes(b, w),
         unsure' = IF w = "ok" THEN unsure ELSE unsure \cup {Current(b)}
  PROVE  PageInv'
  <1> USE DEF page, StoreCopy, Becomes
  <1>1. Current(b) \in Files /\ token[b].folder \in Nat
    BY CurrentIsEntry DEF PageInv, TypeOK
  <1>2. \A f \in Files : stored[f] \in Seq(Nat)
    BY DEF PageInv, TypeOK
  <1>3. /\ stored'[Current(b)] \in Seq(Nat)
        /\ Len(stored'[Current(b)]) = Len(stored[Current(b)]) + 1
        /\ Elements(stored'[Current(b)]) =
              Elements(stored[Current(b)]) \cup {token[b].folder}
    <2>1. stored'[Current(b)] = Append(stored[Current(b)], token[b].folder)
      BY <1>1 DEF PageInv, TypeOK
    <2> QED
      BY <1>1, <1>2, <2>1, AppendElements
  <1>4. \A f \in Files : f # Current(b) => stored'[f] = stored[f]
    BY DEF PageInv, TypeOK
  <1>5. stored' \in [Files -> Seq(Nat)]
    <2>1. stored' = [f \in Files |-> stored'[f]]
      BY DEF PageInv, TypeOK
    <2> QED
      BY <1>2, <1>3, <1>4, <2>1
  <1>6. \A f \in Files : Elements(stored[f]) \subseteq Elements(stored'[f])
    BY <1>3, <1>4
  <1>7. TypeOK'
    <2>1. call' \in [Batches -> {"idle", "sent", "landed", "verified", "reserved"}
                                  \cup Replies]
      BY DEF PageInv, TypeOK, Replies
    <2>2. unsure' \subseteq Files
      BY <1>1 DEF PageInv, TypeOK
    <2> QED
      BY <1>5, <2>1, <2>2 DEF PageInv, TypeOK
  <1>8. ListInv'
    BY DEF PageInv, ListInv, Distinct
  <1>9. ReportInv'
    <2>1. \A c \in Batches : Elements(uploaded[c]) \subseteq Files
      BY ElementsOf DEF PageInv, TypeOK
    <2>2. \A c \in Batches : \A f \in Elements(uploaded[c]) :
             token[c].folder \in Elements(stored'[f])
      BY <1>6, <2>1 DEF PageInv, ReportInv
    <2>3. \A c \in Batches : stage[c] = "file" /\ call'[c] = "ok" =>
             token[c].folder \in Elements(stored'[Current(c)])
      <3> SUFFICES ASSUME NEW c \in Batches, stage[c] = "file", call'[c] = "ok"
                   PROVE  token[c].folder \in Elements(stored'[Current(c)])
        OBVIOUS
      <3>1. CASE c = b
        BY <1>3, <3>1
      <3>2. CASE c # b
        <4>1. call[c] = "ok"
          BY <3>2 DEF PageInv, TypeOK
        <4> QED
          BY <1>6, <4>1, CurrentIsEntry DEF PageInv, ReportInv
      <3> QED
        BY <3>1, <3>2
    <2>4. NoticeIsTrue'
      <3> SUFFICES ASSUME NEW n \in notices, NEW f \in Elements(n.names)
                   PROVE  n.folder \in Elements(stored'[f])
        BY DEF NoticeIsTrue
      <3>1. f \in Files
        BY ElementsOf DEF PageInv, TypeOK
      <3> QED
        BY <1>6, <3>1 DEF PageInv, ReportInv, NoticeIsTrue
    <2> QED
      BY <2>2, <2>3, <2>4 DEF ReportInv, Current
  <1>10. ASSUME Alone PROVE Alone'
    <2>1. Clean(Current(b)) /\ status[Current(b)] = "uploading"
      BY <1>10, CurrentIsEntry DEF Alone, ToSend, Current
    <2>2. \A f \in Files : f # Current(b) => (Clean(f) => Clean(f)')
      BY <1>4 DEF Clean
    <2>3. \A f \in Files : Len(stored'[f]) > 1 => f \in unsure'
      <3> SUFFICES ASSUME Len(stored'[Current(b)]) > 1
                   PROVE  Current(b) \in unsure'
        BY <1>4, <1>10 DEF Alone
      <3>1. stored[Current(b)] # <<>>
        BY <1>3
      <3> QED
        BY <2>1, <3>1 DEF Clean
    <2>4. \A c \in Batches : stage[c] \in {"init", "file"} =>
             \A j \in 1 .. Len(items[c]) : ToSend(c, j)' => Clean(items[c][j])'
      <3> SUFFICES ASSUME NEW c \in Batches, stage[c] \in {"init", "file"},
                          NEW j \in 1 .. Len(items[c]), ToSend(c, j)'
                   PROVE  Clean(items[c][j])'
        OBVIOUS
      <3>1. c = b
        BY <1>10 DEF Alone, Running
      <3>2. items[b] \in Seq(Files) /\ idx[b] \in 1 .. Len(items[b])
        BY CurrentIsEntry DEF PageInv, TypeOK
      <3>3. items[b][j] \in Files
        BY <3>1, <3>2, ElementOfSeq
      <3>4. CASE j = idx[b]
        <4>1. w # "ok"
          BY <3>1, <3>4 DEF ToSend, PageInv, TypeOK
        <4> QED
          BY <3>1, <3>4, <4>1 DEF Clean, Current
      <3>5. CASE j # idx[b]
        <4>1. items[b][j] # Current(b)
          BY <3>1, <3>2, <3>5 DEF PageInv, ListInv, Distinct, Current
        <4>2. ToSend(b, j)
          BY <3>1, <3>5 DEF ToSend
        <4>3. Clean(items[b][j])
          BY <1>10, <3>1, <4>2 DEF Alone
        <4> QED
          BY <2>2, <3>1, <3>3, <4>1, <4>3
      <3> QED
        BY <3>4, <3>5
    <2>5. \A f \in Files :
             status[f] \in {"absent", "pending", "retryable"} => Clean(f)'
      BY <1>10, <2>1, <2>2 DEF Alone
    <2> QED
      BY <1>10, <2>3, <2>4, <2>5 DEF Alone, Running, Current
  <1> QED
    BY <1>7, <1>8, <1>9, <1>10 DEF PageInv

\* The page sends the next entry or ends the batch, with the class of the
\* current entry known.
LEMMA PageSendsNext ==
  ASSUME PageInv, NEW b \in Batches, stage[b] \in {"init", "file"},
         NEW st \in [Files -> Statuses], NEW up \in Seq(Files),
         \A f \in Files :
            \/ st[f] = status[f]
            \/ /\ stage[b] = "file" /\ f = Current(b)
               /\ st[f] \in {"done", "retryable", "error"}
               /\ st[f] = "retryable" => call[b] # "ok",
         stage[b] = "file" => st[Current(b)] # "uploading",
         \A f \in Elements(up) : token[b].folder \in Elements(stored[f]),
         UploadSequential(b, idx[b] + 1, st, up)
  PROVE  PageInv'
  <1> DEFINE i == idx[b] + 1
             go == i <= Len(items[b])
  <1>1. /\ UNCHANGED <<unlocked, files, banner, items, token, epoch, cookie,
                       session, folders, stored, notices, unsure, parallel>>
        /\ idx' = [idx EXCEPT ![b] = i]
        /\ uploaded' = [uploaded EXCEPT ![b] = up]
    BY DEF UploadSequential, nas
  <1>2. /\ idx[b] \in Nat /\ i \in Nat /\ Len(items[b]) \in Nat
        /\ \A j \in 1 .. Len(items[b]) : items[b][j] \in Files
    BY ElementsOf DEF PageInv, TypeOK
  <1>3. \/ /\ go
           /\ status' = [st EXCEPT ![items[b][i]] = "uploading"]
           /\ stage' = [stage EXCEPT ![b] = "file"]
           /\ call' = [call EXCEPT ![b] = "sent"]
           /\ UNCHANGED <<enabled, allDone>>
        \/ /\ ~go
           /\ status' = st
           /\ enabled' = TRUE
           /\ allDone' = [allDone EXCEPT ![b] = NoneFailed(st)]
           /\ \E s \in {"over", "notify"}, w \in {"idle", "sent"} :
                 stage' = [stage EXCEPT ![b] = s] /\ call' = [call EXCEPT ![b] = w]
    BY <1>2 DEF UploadSequential
  <1>4. go => items[b][i] \in Files
    BY <1>2
  <1>5. NoneFailed(st) \in BOOLEAN
    BY DEF NoneFailed
  <1>6. \A f \in Files : \/ status'[f] = st[f]
                         \/ go /\ f = items[b][i] /\ status'[f] = "uploading"
    BY <1>3, <1>4
  <1>7. Current(b)' = items[b][i] /\ idx'[b] = i
    BY <1>1 DEF Current, PageInv, TypeOK
  <1>8. \A c \in Batches :
           c # b => /\ stage'[c] = stage[c] /\ call'[c] = call[c]
                    /\ idx'[c] = idx[c] /\ uploaded'[c] = uploaded[c]
                    /\ allDone'[c] = allDone[c]
                    /\ Current(c)' = Current(c)
    BY <1>1, <1>3 DEF PageInv, TypeOK, Current
  <1>9. \/ go /\ stage'[b] = "file" /\ call'[b] = "sent"
        \/ ~go /\ stage'[b] \in {"over", "notify"} /\ allDone'[b] = NoneFailed(st)
    BY <1>3 DEF PageInv, TypeOK
  <1> HIDE DEF i, go
  <1>10. TypeOK'
    <2>1. status' \in [Files -> Statuses]
      BY <1>3 DEF Statuses
    <2>2. stage' \in [Batches -> {"new", "init", "file", "notify", "over"}]
      BY <1>3 DEF PageInv, TypeOK
    <2>3. call' \in [Batches -> {"idle", "sent", "landed", "verified", "reserved"}
                                  \cup Replies]
      BY <1>3 DEF PageInv, TypeOK
    <2>4. allDone' \in [Batches -> BOOLEAN] /\ enabled' \in BOOLEAN
      BY <1>3, <1>5 DEF PageInv, TypeOK
    <2>5. idx' \in [Batches -> Nat] /\ uploaded' \in [Batches -> Seq(Files)]
      BY <1>1, <1>2 DEF PageInv, TypeOK
    <2> QED
      BY <1>1, <2>1, <2>2, <2>3, <2>4, <2>5 DEF PageInv, TypeOK
  <1>11. ListInv'
    <2>1. \A k \in 1 .. Len(files) : status'[files[k]] # "absent"
      <3> TAKE k \in 1 .. Len(files)
      <3>1. files[k] \in Files /\ status[files[k]] # "absent"
        BY ElementOfSeq DEF PageInv, TypeOK, ListInv
      <3> QED
        BY <1>6, <3>1
    <2>2. \A c \in Batches :
             /\ stage'[c] \in {"new", "init"} => idx'[c] = 0 /\ uploaded'[c] = <<>>
             /\ stage'[c] = "file" => idx'[c] \in 1 .. Len(items[c])
      <3> TAKE c \in Batches
      <3>1. CASE c = b
        BY <1>2, <1>7, <1>9, <3>1 DEF i, go
      <3>2. CASE c # b
        BY <1>8, <3>2 DEF PageInv, ListInv
      <3> QED
        BY <3>1, <3>2
    <2> QED
      BY <1>1, <2>1, <2>2 DEF PageInv, ListInv, Distinct
  <1>12. ReportInv'
    <2>1. \A c \in Batches : \A f \in Elements(uploaded'[c]) :
             token[c].folder \in Elements(stored[f])
      <3> TAKE c \in Batches
      <3>1. CASE c = b
        BY <1>1, <3>1 DEF PageInv, TypeOK
      <3>2. CASE c # b
        BY <1>8, <3>2 DEF PageInv, ReportInv
      <3> QED
        BY <3>1, <3>2
    <2>2. \A c \in Batches : stage'[c] = "file" /\ call'[c] = "ok" =>
             token[c].folder \in Elements(stored[Current(c)'])
      BY <1>8, <1>9 DEF PageInv, ReportInv
    <2>3. NoticeIsTrue'
      BY <1>1 DEF PageInv, ReportInv, NoticeIsTrue
    <2> QED
      BY <1>1, <2>1, <2>2, <2>3 DEF ReportInv
  <1>13. ASSUME Alone PROVE Alone'
    <2>1. \A c \in Batches : Running(c) => c = b
      BY <1>13 DEF Alone, Running
    <2>2. \A c \in Batches : Running(c)' => c = b
      BY <1>8, <2>1 DEF Running
    <2>3. \A f \in Files : st[f] # "uploading"
      <3> SUFFICES ASSUME NEW f \in Files, st[f] = "uploading" PROVE FALSE
        OBVIOUS
      <3>1. status[f] = "uploading"
        OBVIOUS
      <3>2. PICK c \in Batches : stage[c] = "file" /\ f = Current(c)
        BY <1>13, <3>1 DEF Alone
      <3>3. c = b
        BY <2>1, <3>2 DEF Running
      <3> QED
        BY <3>2, <3>3
    <2>4. \A f \in Files : Clean(f)' <=> Clean(f)
      BY <1>1 DEF Clean
    <2>5. \A f \in Files :
             status'[f] \in {"absent", "pending", "retryable"} => Clean(f)'
      <3> SUFFICES ASSUME NEW f \in Files,
                          status'[f] \in {"absent", "pending", "retryable"}
                   PROVE  Clean(f)
        BY <2>4
      <3>1. status'[f] = st[f]
        BY <1>6
      <3>2. CASE st[f] = status[f]
        BY <1>13, <3>1, <3>2 DEF Alone
      <3>3. CASE st[f] # status[f]
        <4>1. /\ stage[b] = "file" /\ f = Current(b)
              /\ call[b] # "ok"
          BY <3>1, <3>3
        <4>2. idx[b] \in 1 .. Len(items[b]) /\ ToSend(b, idx[b])
          BY <4>1, CurrentIsEntry DEF ToSend
        <4> QED
          BY <1>13, <4>1, <4>2 DEF Alone, Current
      <3> QED
        BY <3>2, <3>3
    <2>6. \A f \in Files : status'[f] = "uploading" =>
             \E c \in Batches : stage'[c] = "file" /\ f = Current(c)'
      BY <1>6, <1>7, <1>9, <2>3
    <2>7. \A c \in Batches : stage'[c] \in {"init", "file"} =>
             \A j \in 1 .. Len(items[c]) : ToSend(c, j)' => Clean(items[c][j])'
      <3> SUFFICES ASSUME NEW c \in Batches, stage'[c] \in {"init", "file"},
                          NEW j \in 1 .. Len(items[c]), ToSend(c, j)'
                   PROVE  Clean(items[c][j])'
        OBVIOUS
      <3>1. c = b
        BY <2>2 DEF Running
      <3>2. j > idx[b]
        BY <1>2, <1>7, <3>1 DEF ToSend, i
      <3>3. Clean(items[b][j])
        BY <1>13, <3>1, <3>2 DEF Alone, ToSend
      <3> QED
        BY <1>1, <3>1, <3>3 DEF Clean
    <2>8. \A c \in Batches : stage'[c] = "file" => status'[Current(c)'] = "uploading"
      <3> SUFFICES ASSUME NEW c \in Batches, stage'[c] = "file"
                   PROVE  status'[Current(c)'] = "uploading"
        OBVIOUS
      <3>1. c = b
        BY <2>2 DEF Running
      <3>2. go
        BY <1>9, <3>1
      <3> QED
        BY <1>3, <1>4, <1>7, <3>1, <3>2
    <2>9. \A c \in Batches : stage'[c] = "notify" /\ allDone'[c] =>
             \A k \in 1 .. Len(files) : status'[files[k]] \in {"done", "pending"}
      <3> SUFFICES ASSUME NEW c \in Batches, stage'[c] = "notify", allDone'[c],
                          NEW k \in 1 .. Len(files)
                   PROVE  status'[files[k]] \in {"done", "pending"}
        OBVIOUS
      <3>1. c = b
        BY <2>2 DEF Running
      <3>2. NoneFailed(st) /\ status' = st
        BY <1>3, <1>9, <3>1
      <3>3. files[k] \in Files /\ files[k] \in Elements(files)
        BY ElementsOf DEF PageInv, TypeOK
      <3>4. st[files[k]] \notin {"error", "retryable", "uploading"}
        BY <2>3, <3>2, <3>3 DEF NoneFailed
      <3>5. st[files[k]] # "absent"
        BY <3>3 DEF PageInv, ListInv
      <3>6. st[files[k]] \in Statuses
        BY <3>3
      <3> QED
        BY <3>2, <3>4, <3>5, <3>6 DEF Statuses
    <2>10. \A f \in Files : Len(stored'[f]) > 1 => f \in unsure'
      BY <1>1, <1>13 DEF Alone
    <2>11. \A c, d \in Batches : Running(c)' /\ Running(d)' => c = d
      BY <2>2
    <2> QED
      BY <1>1, <2>5, <2>6, <2>7, <2>8, <2>9, <2>10, <2>11 DEF Alone
  <1> QED
    BY <1>1, <1>10, <1>11, <1>12, <1>13 DEF PageInv

\* A batch ends without another request.
LEMMA PageGivesUp ==
  ASSUME PageInv, NEW b \in Batches, stage[b] \in {"init", "notify"},
         stage' = [stage EXCEPT ![b] = "over"],
         call' = [call EXCEPT ![b] = "idle"],
         enabled' \in BOOLEAN, banner' \in BOOLEAN,
         UNCHANGED <<unlocked, files, status, items, idx, uploaded, allDone,
                     token, epoch, cookie, session, nas, parallel>>
  PROVE  PageInv'
  <1> USE DEF nas
  <1>1. /\ stage'[b] = "over"
        /\ \A c \in Batches : c # b => stage'[c] = stage[c] /\ call'[c] = call[c]
    BY DEF PageInv, TypeOK
  <1>2. TypeOK'
    BY DEF PageInv, TypeOK
  <1>3. ListInv'
    BY <1>1 DEF PageInv, ListInv, Distinct
  <1>4. ReportInv'
    <2>1. NoticeIsTrue'
      BY DEF PageInv, ReportInv, NoticeIsTrue
    <2>2. \A c \in Batches : Current(c)' = Current(c)
      BY DEF Current
    <2> QED
      BY <1>1, <2>1, <2>2 DEF PageInv, ReportInv
  <1>5. ASSUME Alone PROVE Alone'
    <2>1. \A c \in Batches : /\ Running(c)' => Running(c)
                             /\ Current(c)' = Current(c)
      BY <1>1 DEF Running, Current
    <2>2. \A f \in Files : Clean(f)' <=> Clean(f)
      BY DEF Clean
    <2>3. \A c \in Batches : stage'[c] \in {"init", "file"} =>
             \A j \in 1 .. Len(items[c]) : ToSend(c, j)' => Clean(items[c][j])'
      BY <1>1, <1>5, <2>2 DEF Alone, ToSend, Clean
    <2> QED
      BY <1>1, <1>5, <2>1, <2>2, <2>3 DEF Alone
  <1> QED
    BY <1>2, <1>3, <1>4, <1>5 DEF PageInv

\* An entry is added to the list.
LEMMA EntryIsAdded ==
  ASSUME PageInv, NEW f \in Files, AddFile(f)
  PROVE  PageInv'
  <1> USE DEF AddFile, nas
  <1>1. files \in Seq(Files)
    BY DEF PageInv, TypeOK
  <1>2. /\ files' \in Seq(Files)
        /\ Len(files') = Len(files) + 1
        /\ \A i \in 1 .. Len(files) : files'[i] = files[i]
        /\ files'[Len(files) + 1] = f
    BY <1>1, AppendProperties
  <1>3. Len(files) \in Nat
    BY <1>1, LenProperties
  <1>4. /\ status'[f] = "pending"
        /\ \A g \in Files : g # f => status'[g] = status[g]
    BY DEF PageInv, TypeOK
  <1>5. \A i \in 1 .. Len(files) : files[i] # f /\ files[i] \in Files
    BY <1>1, ElementOfSeq DEF PageInv, ListInv
  <1>6. TypeOK'
    <2>1. status' \in [Files -> Statuses]
      BY DEF PageInv, TypeOK, Statuses
    <2> QED
      BY <1>2, <2>1 DEF PageInv, TypeOK
  <1>7. ListInv'
    <2>1. Distinct(files)'
      <3> SUFFICES ASSUME NEW i \in 1 .. Len(files'), NEW j \in 1 .. Len(files'),
                          files'[i] = files'[j]
                   PROVE  i = j
        BY DEF Distinct
      <3>1. CASE i \in 1 .. Len(files) /\ j \in 1 .. Len(files)
        BY <1>2, <3>1 DEF PageInv, ListInv, Distinct
      <3>2. CASE i = Len(files) + 1 /\ j \in 1 .. Len(files)
        BY <1>2, <1>5, <3>2
      <3>3. CASE j = Len(files) + 1 /\ i \in 1 .. Len(files)
        BY <1>2, <1>5, <3>3
      <3> QED
        BY <1>2, <1>3, <3>1, <3>2, <3>3
    <2>2. \A i \in 1 .. Len(files') : status'[files'[i]] # "absent"
      <3> TAKE i \in 1 .. Len(files')
      <3>1. CASE i \in 1 .. Len(files)
        BY <1>2, <1>4, <1>5, <3>1 DEF PageInv, ListInv
      <3>2. CASE i = Len(files) + 1
        BY <1>2, <1>4, <3>2
      <3> QED
        BY <1>2, <1>3, <3>1, <3>2
    <2> QED
      BY <2>1, <2>2 DEF PageInv, ListInv, Distinct
  <1>8. ReportInv'
    <2>1. NoticeIsTrue'
      BY DEF PageInv, ReportInv, NoticeIsTrue
    <2>2. \A c \in Batches : Current(c)' = Current(c)
      BY DEF Current
    <2> QED
      BY <2>1, <2>2 DEF PageInv, ReportInv
  <1>9. ASSUME Alone PROVE Alone'
    <2>1. \A c \in Batches : /\ Running(c)' <=> Running(c)
                             /\ Current(c)' = Current(c)
      BY DEF Running, Current
    <2>2. \A g \in Files : Clean(g)' <=> Clean(g)
      BY DEF Clean
    <2>3. \A g \in Files :
             /\ status'[g] \in {"absent", "pending", "retryable"} => Clean(g)'
             /\ status'[g] = "uploading" =>
                   \E b \in Batches : stage'[b] = "file" /\ g = Current(b)'
             /\ Len(stored'[g]) > 1 => g \in unsure'
      <3> TAKE g \in Files
      <3>1. CASE g = f
        BY <1>4, <1>9, <2>2, <3>1 DEF Alone
      <3>2. CASE g # f
        BY <1>4, <1>9, <2>1, <2>2, <3>2 DEF Alone
      <3> QED
        BY <3>1, <3>2
    <2>4. \A c \in Batches :
             /\ stage[c] \in {"init", "file"} =>
                   \A j \in 1 .. Len(items[c]) : ToSend(c, j)' => Clean(items[c][j])'
             /\ stage[c] = "file" => status'[Current(c)] = "uploading"
      <3> TAKE c \in Batches
      <3>1. stage[c] = "file" => Current(c) \in Files /\ Current(c) # f
        BY <1>9, CurrentIsEntry DEF Alone
      <3> QED
        BY <1>4, <1>9, <3>1 DEF Alone, ToSend, Clean
    <2>5. \A c \in Batches : stage[c] = "notify" /\ allDone[c] =>
             \A i \in 1 .. Len(files') : status'[files'[i]] \in {"done", "pending"}
      <3> SUFFICES ASSUME NEW c \in Batches, stage[c] = "notify", allDone[c],
                          NEW i \in 1 .. Len(files')
                   PROVE  status'[files'[i]] \in {"done", "pending"}
        OBVIOUS
      <3>1. CASE i \in 1 .. Len(files)
        BY <1>2, <1>4, <1>5, <1>9, <3>1 DEF Alone
      <3>2. CASE i = Len(files) + 1
        BY <1>2, <1>4, <3>2
      <3> QED
        BY <1>2, <1>3, <3>1, <3>2
    <2> QED
      BY <1>9, <2>1, <2>3, <2>4, <2>5 DEF Alone
  <1> QED
    BY <1>6, <1>7, <1>8, <1>9 DEF PageInv

\* An entry is removed from the list, not from the batches.
LEMMA EntryIsRemoved ==
  ASSUME PageInv, NEW f \in Files, RemoveFile(f)
  PROVE  PageInv'
  <1> USE DEF RemoveFile, nas
  <1>1. files \in Seq(Files) /\ Distinct(files) /\ DOMAIN files = 1 .. Len(files)
    BY LenProperties DEF PageInv, TypeOK, ListInv
  <1>2. PICK r \in DOMAIN files : files' = EntriesAt(files, DOMAIN files \ {r})
    OBVIOUS
  <1>3. /\ files' \in Seq(Files)
        /\ Distinct(files')
        /\ \A k \in 1 .. Len(files') : \E i \in 1 .. Len(files) : files'[k] = files[i]
    <2> HIDE DEF RemoveFile, nas
    <2> DEFINE places == DOMAIN files \ {r}
    <2>1. places \in SUBSET (1 .. Len(files)) /\ files' = EntriesAt(files, places)
      BY <1>1, <1>2
    <2> HIDE DEF places
    <2>2. /\ files' \in Seq(Files)
          /\ Distinct(files')
          /\ \A k \in 1 .. Len(files') : \E i \in places : files'[k] = files[i]
      BY <1>1, <2>1, PartOfList
    <2> QED
      BY <2>1, <2>2
  <1>4. enabled' \in BOOLEAN
    OBVIOUS
  <1>5. UNCHANGED <<unlocked, status, banner, stage, items, idx, uploaded, allDone,
                    call, token, epoch, cookie, session, stored, unsure, notices,
                    folders, parallel>>
    OBVIOUS
  <1> HIDE DEF RemoveFile, nas
  <1>6. TypeOK'
    BY <1>3, <1>4, <1>5 DEF PageInv, TypeOK
  <1>7. ListInv'
    <2>1. \A k \in 1 .. Len(files') : status[files'[k]] # "absent"
      BY <1>3 DEF PageInv, ListInv
    <2> QED
      BY <1>3, <1>5, <2>1 DEF PageInv, ListInv, Distinct
  <1>8. ReportInv'
    <2>1. NoticeIsTrue'
      BY <1>5 DEF PageInv, ReportInv, NoticeIsTrue
    <2>2. \A c \in Batches : Current(c)' = Current(c)
      BY <1>5 DEF Current
    <2> QED
      BY <1>5, <2>1, <2>2 DEF PageInv, ReportInv
  <1>9. ASSUME Alone PROVE Alone'
    <2>1. \A c \in Batches : /\ Running(c)' <=> Running(c)
                             /\ Current(c)' = Current(c)
      BY <1>5 DEF Running, Current
    <2>2. \A g \in Files : Clean(g)' <=> Clean(g)
      BY <1>5 DEF Clean
    <2>3. \A c \in Batches : stage[c] \in {"init", "file"} =>
             \A j \in 1 .. Len(items[c]) : ToSend(c, j)' => Clean(items[c][j])'
      BY <1>5, <1>9 DEF Alone, ToSend, Clean
    <2>4. \A c \in Batches : stage[c] = "notify" /\ allDone[c] =>
             \A k \in 1 .. Len(files') : status[files'[k]] \in {"done", "pending"}
      BY <1>3, <1>9 DEF Alone
    <2>5. \A g \in Files :
             /\ status[g] \in {"absent", "pending", "retryable"} => Clean(g)'
             /\ status[g] = "uploading" =>
                   \E b \in Batches : stage[b] = "file" /\ g = Current(b)'
             /\ Len(stored[g]) > 1 => g \in unsure
      BY <1>9, <2>1, <2>2 DEF Alone
    <2>6. \A c \in Batches : stage[c] = "file" => status[Current(c)'] = "uploading"
      BY <1>9, <2>1 DEF Alone
    <2>7. \A c, d \in Batches : Running(c)' /\ Running(d)' => c = d
      BY <1>9, <2>1 DEF Alone
    <2> QED
      BY <1>5, <2>3, <2>4, <2>5, <2>6, <2>7 DEF Alone
  <1> QED
    BY <1>6, <1>7, <1>5, <1>8, <1>9 DEF PageInv

\* A click takes the entries that are pending or may be tried again.
LEMMA BatchIsStarted ==
  ASSUME PageInv, NEW b \in Batches, ClickUpload(b)
  PROVE  PageInv'
  <1> USE DEF ClickUpload, nas
  <1>1. files \in Seq(Files) /\ Distinct(files) /\ DOMAIN files = 1 .. Len(files)
    BY LenProperties DEF PageInv, TypeOK, ListInv
  <1>2. /\ items'[b] \in Seq(Files) /\ Distinct(items'[b])
        /\ \A k \in 1 .. Len(items'[b]) :
              status[items'[b][k]] \in {"pending", "retryable"}
    <2> DEFINE places == {i \in DOMAIN files :
                             status[files[i]] \in {"pending", "retryable"}}
    <2>1. places \in SUBSET (1 .. Len(files))
      BY <1>1
    <2>2. items'[b] = EntriesAt(files, places)
      BY DEF PendingEntries, PageInv, TypeOK
    <2>3. \A i \in places : status[files[i]] \in {"pending", "retryable"}
      OBVIOUS
    <2> HIDE DEF places
    <2> QED
      BY <1>1, <2>1, <2>2, <2>3, PartOfList
  <1>3. /\ stage'[b] = "init" /\ call'[b] = "sent" /\ stage[b] = "new"
        /\ \A c \in Batches :
              c # b => /\ stage'[c] = stage[c] /\ call'[c] = call[c]
                       /\ items'[c] = items[c]
                       /\ Current(c)' = Current(c)
    BY DEF PageInv, TypeOK, Current
  <1>4. TypeOK'
    <2>1. items' \in [Batches -> Seq(Files)]
      <3>1. items' = [c \in Batches |-> items'[c]]
        BY DEF PageInv, TypeOK
      <3>2. \A c \in Batches : items'[c] \in Seq(Files)
        BY <1>2, <1>3 DEF PageInv, TypeOK
      <3> QED
        BY <3>1, <3>2
    <2>2. stage' \in [Batches -> {"new", "init", "file", "notify", "over"}]
      BY DEF PageInv, TypeOK
    <2>3. call' \in [Batches -> {"idle", "sent", "landed", "verified", "reserved"}
                                  \cup Replies]
      BY DEF PageInv, TypeOK
    <2>4. parallel' \in BOOLEAN
      BY Zenon DEF PageInv, TypeOK
    <2> QED
      BY <2>1, <2>2, <2>3, <2>4 DEF PageInv, TypeOK
  <1>5. ListInv'
    <2>1. \A c \in Batches :
             /\ Distinct(items'[c])
             /\ stage'[c] \in {"new", "init"} => idx[c] = 0 /\ uploaded[c] = <<>>
             /\ stage'[c] = "file" => idx[c] \in 1 .. Len(items'[c])
      <3> TAKE c \in Batches
      <3>1. CASE c = b
        BY <1>2, <1>3, <3>1 DEF PageInv, ListInv
      <3>2. CASE c # b
        BY <1>3, <3>2 DEF PageInv, ListInv
      <3> QED
        BY <3>1, <3>2
    <2> QED
      BY <2>1 DEF PageInv, ListInv, Distinct
  <1>6. ReportInv'
    <2>1. NoticeIsTrue'
      BY DEF PageInv, ReportInv, NoticeIsTrue
    <2> QED
      BY <1>3, <2>1 DEF PageInv, ReportInv
  <1>7. ASSUME ~parallel' PROVE Alone'
    <2>1. \A c \in Batches : ~Running(c)
      BY <1>7 DEF Running
    <2>2. Alone
      BY <1>7 DEF PageInv, TypeOK
    <2>3. \A g \in Files : Clean(g)' <=> Clean(g)
      BY DEF Clean
    <2>4. \A c \in Batches : c # b => stage'[c] \in {"new", "over"}
      BY <1>3, <2>1 DEF Running
    <2>5. \A g \in Files : status[g] # "uploading"
      BY <2>1, <2>2 DEF Alone, Running
    <2>6. \A c \in Batches : stage'[c] \in {"init", "file"} =>
             \A j \in 1 .. Len(items'[c]) : ToSend(c, j)' => Clean(items[c][j])'
      <3> SUFFICES ASSUME NEW c \in Batches, stage'[c] \in {"init", "file"},
                          NEW j \in 1 .. Len(items'[c])
                   PROVE  Clean(items[c][j])'
        OBVIOUS
      <3>1. c = b
        BY <2>4
      <3>2. items'[b][j] \in Files
        BY <1>2, <3>1, ElementOfSeq
      <3>3. Clean(items'[b][j])
        BY <1>2, <2>2, <3>1, <3>2 DEF Alone
      <3> QED
        BY <3>1, <3>3 DEF Clean, nas
    <2> QED
      BY <1>3, <2>2, <2>3, <2>4, <2>5, <2>6 DEF Alone, Running
  <1> QED
    BY <1>4, <1>5, <1>6, <1>7 DEF PageInv

\* A notice is sent, whether or not its answer says so.
LEMMA NoticeIsSent ==
  ASSUME PageInv, NEW b \in Batches, stage[b] = "notify",
         NEW w \in {"ok", "fail", "lost"}, SendNotice(b), Becomes(b, w)
  PROVE  PageInv'
  <1> DEFINE note == [batch |-> b, folder |-> token[b].folder, names |-> uploaded[b]]
  <1>1. TypeOK
    BY DEF PageInv
  <1>2. call' \in [Batches -> {"idle", "sent", "landed", "verified",
                               "reserved"} \cup Replies]
    BY <1>1 DEF Becomes, TypeOK, Replies
  <1>3. \A c \in Batches : stage[c] = "file" => call'[c] = call[c]
    BY <1>1 DEF Becomes, TypeOK
  <1>4. notices' = notices \cup {note}
    BY DEF SendNotice
  <1>5. note \in [batch : Batches, folder : Nat, names : Seq(Files)]
    BY <1>1 DEF TypeOK
  <1>6. \A f \in Elements(note.names) : note.folder \in Elements(stored[f])
    BY DEF PageInv, ReportInv
  <1> HIDE DEF note
  <1>7. /\ notices' \subseteq [batch : Batches, folder : Nat, names : Seq(Files)]
        /\ \A n \in notices' : n \in notices \/ \A f \in Elements(n.names) :
                                                  n.folder \in Elements(stored[f])
    BY <1>1, <1>4, <1>5, <1>6 DEF TypeOK
  <1>8. UNCHANGED <<page, stored, parallel, token, epoch, cookie, session,
                    folders, unsure>>
    BY DEF SendNotice, Becomes
  <1> QED
    BY <1>1, <1>2, <1>3, <1>7, <1>8, NothingStored DEF TypeOK

\* The page as it is served.
LEMMA PageInitially == Init => PageInv
  <1> SUFFICES ASSUME Init PROVE PageInv
    OBVIOUS
  <1> USE DEF Init
  <1>1. Len(<<>>) = 0 /\ Elements(<<>>) = {}
    BY DEF Elements
  <1>2. TypeOK
    <2>1. /\ status \in [Files -> Statuses]
          /\ stage \in [Batches -> {"new", "init", "file", "notify", "over"}]
          /\ call \in [Batches -> {"idle", "sent", "landed", "verified", "reserved"}
                                     \cup Replies]
      BY DEF Statuses
    <2>2. /\ files \in Seq(Files)
          /\ items \in [Batches -> Seq(Files)] /\ uploaded \in [Batches -> Seq(Files)]
          /\ stored \in [Files -> Seq(Nat)]
      OBVIOUS
    <2>3. token \in [Batches -> [folder : Nat, epoch : Nat]]
      BY DEF NoToken
    <2>4. unlocked \in BOOLEAN /\ cookie \in BOOLEAN
      OBVIOUS
    <2> QED
      BY <2>1, <2>2, <2>3, <2>4 DEF TypeOK
  <1>3. ListInv
    BY <1>1 DEF ListInv, Distinct
  <1>4. ReportInv
    BY <1>1 DEF ReportInv, NoticeIsTrue
  <1>5. Alone
    BY <1>1 DEF Alone, Running, Clean
  <1> QED
    BY <1>2, <1>3, <1>4, <1>5 DEF PageInv

LEMMA ServerKeepsPage ==
  ASSUME PageInv, NEW b \in Batches, ServerStep(b) \/ Refuse(b)
  PROVE  PageInv'
  <1>1. TypeOK /\ ListInv
    BY DEF PageInv
  <1> USE DEF At, Replies, Becomes
  <1>2. ASSUME NEW w \in {"landed", "verified", "reserved", "retry", "fail",
                          "forbidden", "refused"},
               call[b] # "ok", Goes(b, w)
        PROVE  PageInv'
    BY <1>1, <1>2, NothingStored DEF Goes, TypeOK, nas
  <1>3. CASE Refuse(b)
    BY <1>2, <1>3 DEF Refuse
  <1>4. CASE InitLanding(b)
    BY <1>2, <1>4 DEF InitLanding
  <1>5. CASE InitCreate(b)
    <2>1. CASE Goes(b, "fail")
      BY <1>2, <1>5, <2>1 DEF InitCreate
    <2>2. ASSUME NEW w \in {"ok", "fail"}, CreateFolder(b), Becomes(b, w)
          PROVE  PageInv'
      <3>1. /\ folders' \in Nat
            /\ token' \in [Batches -> [folder : Nat, epoch : Nat]]
            /\ call' \in [Batches -> {"idle", "sent", "landed", "verified",
                                      "reserved"} \cup Replies]
        BY <1>1, <2>2 DEF CreateFolder, TypeOK
      <3>2. \A c \in Batches : stage[c] # "init" => token'[c] = token[c]
        BY <1>1, <1>5, <2>2 DEF InitCreate, CreateFolder, TypeOK
      <3>3. \A c \in Batches : stage[c] = "file" => call'[c] = call[c]
        BY <1>1, <1>5, <2>2 DEF InitCreate, TypeOK
      <3> QED
        BY <1>1, <2>2, <3>1, <3>2, <3>3, NothingStored DEF CreateFolder, TypeOK
    <2> QED
      BY <1>5, <2>1, <2>2 DEF InitCreate
  <1>6. CASE VerifyToken(b)
    BY <1>2, <1>6 DEF VerifyToken
  <1>7. CASE FileReserve(b)
    BY <1>2, <1>7 DEF FileReserve
  <1>8. CASE FileFinalize(b)
    <2>1. CASE Goes(b, "retry") \/ Goes(b, "fail")
      BY <1>2, <1>8, <2>1 DEF FileFinalize
    <2>2. ASSUME NEW w \in {"ok", "retry"}, StoreCopy(b), Becomes(b, w),
                 unsure' = IF w = "ok" THEN unsure ELSE unsure \cup {Current(b)}
          PROVE  PageInv'
      <3> HIDE DEF Becomes
      <3> QED
        BY <1>8, <2>2, CopyStored DEF FileFinalize
    <2> QED
      BY <1>8, <2>1, <2>2 DEF FileFinalize
  <1>9. CASE Notify(b)
    <2>1. CASE Goes(b, "fail")
      BY <1>2, <1>9, <2>1 DEF Notify
    <2>2. ASSUME NEW w \in {"ok", "fail"}, SendNotice(b), Becomes(b, w)
          PROVE  PageInv'
      <3>1. stage[b] = "notify"
        BY <1>9 DEF Notify
      <3> QED
        BY <2>2, <3>1, NoticeIsSent
    <2> QED
      BY <1>9, <2>1, <2>2 DEF Notify
  <1> QED
    BY <1>3, <1>4, <1>5, <1>6, <1>7, <1>8, <1>9 DEF ServerStep

LEMMA EnvironmentKeepsPage ==
  ASSUME PageInv, NEW b \in Batches, Disconnect(b) \/ HandlerTimeout(b)
  PROVE  PageInv'
  <1>1. TypeOK /\ ListInv
    BY DEF PageInv
  <1> USE DEF At, Replies
  <1>2. PICK w \in {"lost", "fail"} : /\ Becomes(b, w)
                                      /\ w = "fail" => HandlerTimeout(b)
                                      /\ w = "lost" => Disconnect(b)
    BY DEF Disconnect, HandlerTimeout
  <1>3. CASE At(b, "init", "landed") /\ CreateFolder(b)
    <2>1. /\ folders' \in Nat
          /\ token' \in [Batches -> [folder : Nat, epoch : Nat]]
          /\ call' \in [Batches -> {"idle", "sent", "landed", "verified",
                                    "reserved"} \cup Replies]
      BY <1>1, <1>2, <1>3 DEF CreateFolder, TypeOK, Becomes
    <2>2. \A c \in Batches : stage[c] # "init" => token'[c] = token[c]
      BY <1>1, <1>3 DEF CreateFolder, TypeOK
    <2>3. \A c \in Batches : stage[c] = "file" => call'[c] = call[c]
      BY <1>1, <1>2, <1>3 DEF Becomes, TypeOK
    <2> QED
      BY <1>1, <1>2, <1>3, <2>1, <2>2, <2>3, NothingStored
         DEF CreateFolder, TypeOK, Becomes
  <1>4. CASE /\ At(b, "file", "reserved") /\ StoreCopy(b) /\ w = "lost"
             /\ unsure' = unsure \cup {Current(b)}
    BY <1>2, <1>4, CopyStored
  <1>5. CASE At(b, "notify", "verified") /\ SendNotice(b)
    BY <1>2, <1>5, NoticeIsSent
  <1>6. CASE /\ UNCHANGED <<token, folders, stored, notices>>
             /\ unsure' = IF At(b, "file", "ok") THEN unsure \cup {Current(b)}
                                                 ELSE unsure
    <2>1. call' \in [Batches -> {"idle", "sent", "landed", "verified",
                                 "reserved"} \cup Replies]
      BY <1>1, <1>2 DEF Becomes, TypeOK
    <2>2. \A c \in Batches : c # b => call'[c] = call[c]
      BY <1>1, <1>2 DEF Becomes, TypeOK
    <2>3. call'[b] = w
      BY <1>1, <1>2 DEF Becomes, TypeOK
    <2>4. unsure \subseteq unsure' /\ unsure' \subseteq Files
      BY <1>1, <1>6, CurrentIsEntry DEF TypeOK
    <2> QED
      BY <1>1, <1>2, <1>6, <2>1, <2>2, <2>3, <2>4, NothingStored DEF TypeOK, Becomes
  <1> QED
    BY <1>2, <1>3, <1>4, <1>5, <1>6 DEF Disconnect, HandlerTimeout, nas

LEMMA PageKeepsPage ==
  ASSUME PageInv, NEW b \in Batches, PageStep(b)
  PROVE  PageInv'
  <1>1. TypeOK /\ ListInv
    BY DEF PageInv
  <1>2. CASE InitAnswered(b) /\ call[b] = "ok"
    <2>1. /\ stage[b] = "init" /\ idx[b] = 0
          /\ UploadSequential(b, 1, status, <<>>)
      BY <1>1, <1>2 DEF InitAnswered, Answered, ListInv
    <2> DEFINE none == <<>>
    <2>2. status \in [Files -> Statuses] /\ none \in Seq(Files) /\ Elements(none) = {}
      BY <1>1 DEF TypeOK, Elements
    <2>3. UploadSequential(b, idx[b] + 1, status, none)
      BY <2>1
    <2> HIDE DEF none
    <2> QED
      BY <2>1, <2>2, <2>3, PageSendsNext
  <1>3. CASE InitAnswered(b) /\ call[b] # "ok"
    BY <1>1, <1>3, PageGivesUp DEF InitAnswered, Answered, TypeOK
  <1>4. CASE FileAnswered(b)
    <2> DEFINE st == [status EXCEPT ![Current(b)] = NewStatus(call[b])]
               up == NewUploaded(b)
    <2>1. stage[b] = "file" /\ call[b] \in Replies
      BY <1>4 DEF FileAnswered, Answered
    <2>2. Current(b) \in Files
      BY <2>1, CurrentIsEntry
    <2>3. /\ NewStatus(call[b]) \in {"done", "retryable", "error"}
          /\ NewStatus(call[b]) = "retryable" => call[b] # "ok"
      BY <2>1 DEF NewStatus, Replies
    <2>4. /\ st \in [Files -> Statuses]
          /\ st[Current(b)] = NewStatus(call[b])
          /\ \A f \in Files : f # Current(b) => st[f] = status[f]
      BY <1>1, <2>2, <2>3 DEF TypeOK, Statuses
    <2>5. /\ up \in Seq(Files)
          /\ \A f \in Elements(up) : token[b].folder \in Elements(stored[f])
      <3>1. uploaded[b] \in Seq(Files)
        BY <1>1 DEF TypeOK
      <3>2. \A f \in Elements(uploaded[b]) : token[b].folder \in Elements(stored[f])
        BY DEF PageInv, ReportInv
      <3>3. CASE call[b] = "ok"
        <4>1. /\ Append(uploaded[b], Current(b)) \in Seq(Files)
              /\ Elements(Append(uploaded[b], Current(b))) =
                    Elements(uploaded[b]) \cup {Current(b)}
          BY <2>2, <3>1, AppendElements
        <4>2. token[b].folder \in Elements(stored[Current(b)])
          BY <2>1, <3>3 DEF PageInv, ReportInv
        <4>3. up = Append(uploaded[b], Current(b))
          BY <3>3 DEF NewUploaded
        <4> QED
          BY <3>2, <4>1, <4>2, <4>3
      <3>4. CASE call[b] # "ok"
        BY <3>1, <3>2, <3>4 DEF NewUploaded
      <3> QED
        BY <3>3, <3>4
    <2>6. UploadSequential(b, idx[b] + 1, st, up)
      BY <1>4 DEF FileAnswered
    <2> HIDE DEF st, up
    <2> QED
      BY <2>1, <2>3, <2>4, <2>5, <2>6, PageSendsNext
  <1>5. CASE NotifyAnswered(b)
    <2>1. banner' \in BOOLEAN
      BY <1>1, <1>5, Zenon DEF NotifyAnswered, TypeOK
    <2> QED
      BY <1>1, <1>5, <2>1, PageGivesUp DEF NotifyAnswered, Answered, TypeOK
  <1> QED
    BY <1>2, <1>3, <1>4, <1>5 DEF PageStep

LEMMA RestartKeepsPage == PageInv /\ Restart => PageInv'
  <1> SUFFICES ASSUME PageInv, Restart PROVE PageInv'
    OBVIOUS
  <1>1. TypeOK
    BY DEF PageInv
  <1>2. call' \in [Batches -> {"idle", "sent", "landed", "verified",
                               "reserved"} \cup Replies]
    BY <1>1 DEF Restart, TypeOK, Replies
  <1>3. \A b \in Batches : /\ call'[b] = "ok" => call[b] = "ok"
                           /\ call[b] = "ok" => call'[b] = "ok"
    BY <1>1 DEF Restart, TypeOK, Replies
  <1>4. epoch' \in Nat
    BY <1>1 DEF Restart, TypeOK
  <1> QED
    BY <1>1, <1>2, <1>3, <1>4, NothingStored DEF Restart, nas, TypeOK

\* A step that changes neither the page nor the requests nor the NAS.
LEMMA NothingHappens ==
  ASSUME PageInv, unlocked' \in BOOLEAN, cookie' \in BOOLEAN, session' \in BOOLEAN,
         UNCHANGED <<files, status, enabled, banner, stage, items, idx, uploaded,
                     allDone, call, token, epoch, nas, parallel>>
  PROVE  PageInv'
  <1> USE DEF nas
  <1>1. TypeOK'
    BY DEF PageInv, TypeOK
  <1>2. ListInv'
    BY DEF PageInv, ListInv, Distinct
  <1>3. NoticeIsTrue' /\ \A c \in Batches : Current(c)' = Current(c)
    BY DEF PageInv, ReportInv, NoticeIsTrue, Current
  <1>4. ReportInv'
    BY <1>3 DEF PageInv, ReportInv
  <1>5. Alone => Alone'
    BY <1>3 DEF Alone, Running, Clean, ToSend
  <1> QED
    BY <1>1, <1>2, <1>4, <1>5 DEF PageInv

LEMMA PageInvKept == PageInv /\ [Next]_vars => PageInv'
  <1> SUFFICES ASSUME PageInv, [Next]_vars PROVE PageInv'
    OBVIOUS
  <1>1. TypeOK
    BY DEF PageInv
  <1>2. CASE Unlock
    BY <1>1, <1>2, NothingHappens DEF Unlock, TypeOK
  <1>3. CASE SessionExpires
    BY <1>1, <1>3, NothingHappens DEF SessionExpires, page, TypeOK
  <1>4. CASE UNCHANGED vars
    BY <1>1, <1>4, NothingHappens DEF vars, page, TypeOK
  <1> QED
    BY <1>2, <1>3, <1>4, EntryIsAdded, EntryIsRemoved, BatchIsStarted,
       ServerKeepsPage, EnvironmentKeepsPage, PageKeepsPage, RestartKeepsPage
       DEF Next

\* The page's invariant holds throughout.
THEOREM PageInvHolds == Spec => []PageInv
  <1> QED
    BY PageInitially, PageInvKept, PTL DEF Spec

\* The owner is told only of files that are in the folder named to the owner.
THEOREM NoticesTrue == Spec => []NoticeIsTrue
  <1>1. PageInv => NoticeIsTrue
    BY DEF PageInv, ReportInv
  <1> QED
    BY <1>1, PageInvHolds, PTL

\* A second copy of a file needs an answer that was lost or a second batch.
THEOREM CopiesNeeded == Spec => []NoNeedlessCopy
  <1>1. PageInv => NoNeedlessCopy
    BY DEF PageInv, Alone, NoNeedlessCopy
  <1> QED
    BY <1>1, PageInvHolds, PTL

\* With one batch at a time the banner goes up only over a list without a
\* failure.
THEOREM BannerEarned == Spec => BannerIsEarned
  <1> DEFINE Earned ==
        (~banner /\ banner' /\ ~parallel) =>
           \A f \in Elements(files) : status[f] \in {"done", "pending"}
  <1>1. PageInv /\ [Next]_vars => [Earned]_vars
    <2> SUFFICES ASSUME PageInv, Next, ~banner, banner', ~parallel,
                        NEW f \in Elements(files)
                 PROVE  status[f] \in {"done", "pending"}
      OBVIOUS
    <2>1. PICK b \in Batches : NotifyAnswered(b)
      <3> USE DEF Becomes, Goes, page
      <3>1. ASSUME NEW b \in Batches, ServerStep(b) \/ Refuse(b)
            PROVE  FALSE
        BY <3>1 DEF ServerStep, Refuse, InitLanding, InitCreate, VerifyToken,
                    FileReserve, FileFinalize, Notify
      <3>2. ASSUME NEW b \in Batches, Disconnect(b) \/ HandlerTimeout(b)
            PROVE  FALSE
        BY <3>2 DEF Disconnect, HandlerTimeout
      <3>3. ASSUME NEW b \in Batches, InitAnswered(b) \/ FileAnswered(b)
            PROVE  FALSE
        BY <3>3 DEF InitAnswered, FileAnswered, UploadSequential
      <3> QED
        BY <3>1, <3>2, <3>3 DEF Next, Unlock, AddFile, RemoveFile, ClickUpload,
           PageStep, Restart, SessionExpires
    <2>2. stage[b] = "notify" /\ allDone[b]
      BY <2>1, Zenon DEF NotifyAnswered, Answered
    <2>3. PICK i \in 1 .. Len(files) : f = files[i]
      BY ElementsOf DEF PageInv, TypeOK
    <2> QED
      BY <2>2, <2>3 DEF PageInv, Alone
  <1> QED
    BY <1>1, PageInvHolds, PTL DEF Spec, BannerIsEarned

-----------------------------------------------------------------------------
(* Which copies are in which folder                                        *)

Missing(b, f) == token[b].folder \notin Elements(stored[f])

\* No finalize request for the entry at place j has taken effect.
Unsent(b, j) ==
    \/ j > idx[b]
    \/ j = idx[b] /\ call[b] \in {"sent", "verified", "reserved"}

\* A copy is in the folder of a batch that was started with its file, and no
\* other copy of the file is; what a batch has still to send is not.
FolderInv ==
    /\ \A f \in Files :
          /\ Distinct(stored[f])
          /\ \A d \in Elements(stored[f]) : \E b \in Batches :
                token[b] # NoToken /\ token[b].folder = d /\ f \in Elements(items[b])
    /\ \A b \in Batches :
          /\ stage[b] \in {"new", "init"} => \A f \in Files : Missing(b, f)
          /\ stage[b] = "init" /\ call[b] = "ok" => token[b] # NoToken
          /\ stage[b] = "file" =>
                /\ token[b] # NoToken
                /\ \A j \in 1 .. Len(items[b]) :
                      Unsent(b, j) => Missing(b, items[b][j])

\* Requests move on; what was sent stays sent.
LEMMA FoldersStay ==
  ASSUME FolderInv, UNCHANGED <<stage, items, idx, token, stored>>,
         \A b \in Batches : stage[b] = "init" /\ call'[b] = "ok" => call[b] = "ok",
         \A b \in Batches :
            stage[b] = "file" /\ call'[b] \in {"sent", "verified", "reserved"} =>
               call[b] \in {"sent", "verified", "reserved"}
  PROVE  FolderInv'
  BY DEF FolderInv, Missing, Unsent, Distinct

\* init makes a folder, which is empty.
LEMMA FolderIsEmpty ==
  ASSUME IInv, FolderInv, NEW b \in Batches, stage[b] = "init",
         NEW w \in {"ok", "fail", "lost"}, call' = [call EXCEPT ![b] = w],
         CreateFolder(b), UNCHANGED <<stage, items, idx>>
  PROVE  FolderInv'
  <1>1. /\ token'[b].folder = folders + 1
        /\ \A c \in Batches : c # b => token'[c] = token[c] /\ call'[c] = call[c]
        /\ stored' = stored
        /\ folders \in Nat
    BY DEF CreateFolder, IInv, TypeInv
  <1>2. token'[b] # NoToken
    BY <1>1 DEF NoToken
  <1>3. ASSUME NEW f \in Files, NEW d \in Elements(stored[f])
        PROVE  /\ d # folders + 1
               /\ \E c \in Batches : /\ token'[c] # NoToken /\ token'[c].folder = d
                                     /\ f \in Elements(items[c])
    <2>1. PICK c \in Batches : /\ token[c] # NoToken /\ token[c].folder = d
                               /\ f \in Elements(items[c])
      BY DEF FolderInv
    <2>2. c # b
      BY <2>1 DEF FolderInv, Missing
    <2>3. d \in 1 .. folders
      BY <2>1 DEF IInv, TokensApart
    <2> QED
      BY <1>1, <2>1, <2>2, <2>3
  <1>4. \A f \in Files : Missing(b, f)'
    BY <1>1, <1>3 DEF Missing
  <1>5. \A f \in Files : Distinct(stored'[f])
    BY <1>1 DEF FolderInv
  <1>6. \A c \in Batches :
           /\ stage[c] \in {"new", "init"} => \A f \in Files : Missing(c, f)'
           /\ stage[c] = "init" /\ call'[c] = "ok" => token'[c] # NoToken
           /\ stage[c] = "file" =>
                 /\ token'[c] # NoToken
                 /\ \A j \in 1 .. Len(items[c]) :
                       Unsent(c, j)' => Missing(c, items[c][j])'
    <2> TAKE c \in Batches
    <2>1. CASE c = b
      BY <1>2, <1>4, <2>1
    <2>2. CASE c # b
      BY <1>1, <2>2 DEF FolderInv, Missing, Unsent
    <2> QED
      BY <2>1, <2>2
  <1> QED
    BY <1>1, <1>3, <1>5, <1>6 DEF FolderInv

LEMMA DistinctAppend ==
  ASSUME NEW S, NEW s \in Seq(S), NEW x \in S, Distinct(s), x \notin Elements(s)
  PROVE  Distinct(Append(s, x))
  <1> DEFINE t == Append(s, x)
  <1>1. /\ Len(s) \in Nat /\ Len(t) = Len(s) + 1
        /\ \A i \in 1 .. Len(s) : t[i] = s[i]
        /\ t[Len(s) + 1] = x
    BY AppendProperties, LenProperties
  <1>2. \A i \in 1 .. Len(s) : s[i] # x
    BY ElementsOf
  <1> HIDE DEF t
  <1>3. \A i \in 1 .. Len(t) : i \in 1 .. Len(s) \/ i = Len(s) + 1
    BY <1>1
  <1>4. Distinct(t)
    BY <1>1, <1>2, <1>3 DEF Distinct
  <1> QED
    BY <1>4 DEF t

\* finalize puts a copy of the current entry into the batch's folder, the
\* first there.
LEMMA CopyIsFirst ==
  ASSUME IInv, PageInv, FolderInv, NEW b \in Batches,
         stage[b] = "file", call[b] = "reserved",
         NEW w \in {"ok", "retry", "lost"}, call' = [call EXCEPT ![b] = w],
         StoreCopy(b), UNCHANGED <<stage, items, idx>>
  PROVE  FolderInv'
  <1> DEFINE e == Current(b)
             d0 == token[b].folder
  <1>1. /\ e \in Files /\ idx[b] \in 1 .. Len(items[b]) /\ e = items[b][idx[b]]
        /\ items[b] \in Seq(Files)
        /\ d0 \in Nat
        /\ \A f \in Files : stored[f] \in Seq(Nat)
    BY CurrentIsEntry DEF PageInv, TypeOK, Current
  <1>2. /\ stored'[e] = Append(stored[e], d0)
        /\ \A f \in Files : f # e => stored'[f] = stored[f]
        /\ token' = token
    BY <1>1 DEF StoreCopy, PageInv, TypeOK
  <1>3. /\ call'[b] = w
        /\ \A c \in Batches : c # b => call'[c] = call[c]
    BY DEF PageInv, TypeOK
  <1>4. token[b] # NoToken /\ d0 \notin Elements(stored[e])
    BY <1>1 DEF FolderInv, Missing, Unsent
  <1>5. e \in Elements(items[b])
    BY <1>1, ElementsOf
  <1> HIDE DEF e, d0
  <1>6. /\ Elements(stored'[e]) = Elements(stored[e]) \cup {d0}
        /\ Distinct(stored'[e])
    BY <1>1, <1>2, <1>4, AppendElements, DistinctAppend DEF FolderInv
  <1>7. \A f \in Files :
           /\ Distinct(stored'[f])
           /\ \A d \in Elements(stored'[f]) : \E c \in Batches :
                 token[c] # NoToken /\ token[c].folder = d /\ f \in Elements(items[c])
    <2> TAKE f \in Files
    <2>1. CASE f = e
      BY <1>4, <1>5, <1>6, <2>1 DEF FolderInv, d0
    <2>2. CASE f # e
      BY <1>2, <2>2 DEF FolderInv
    <2> QED
      BY <2>1, <2>2
  <1>8. ASSUME NEW c \in Batches, c # b, NEW f \in Files, Missing(c, f)
        PROVE  Missing(c, f)'
    <2>1. token[c].folder # d0
      BY <1>4, <1>8 DEF IInv, TokensApart, d0
    <2> QED
      BY <1>2, <1>6, <1>8, <2>1 DEF Missing
  <1>9. ASSUME NEW j \in 1 .. Len(items[b]), Unsent(b, j)'
        PROVE  Missing(b, items[b][j])'
    <2>1. j > idx[b]
      BY <1>3, <1>9 DEF Unsent
    <2>2. items[b][j] \in Files /\ items[b][j] # e
      BY <1>1, <2>1, ElementsOf DEF PageInv, ListInv, Distinct
    <2>3. Missing(b, items[b][j])
      BY <2>1 DEF FolderInv, Unsent
    <2> QED
      BY <1>2, <2>2, <2>3 DEF Missing
  <1>10. \A c \in Batches :
            /\ stage[c] \in {"new", "init"} => \A f \in Files : Missing(c, f)'
            /\ stage[c] = "init" /\ call'[c] = "ok" => token[c] # NoToken
            /\ stage[c] = "file" =>
                  /\ token[c] # NoToken
                  /\ \A j \in 1 .. Len(items[c]) :
                        Unsent(c, j)' => Missing(c, items[c][j])'
    <2> TAKE c \in Batches
    <2>1. CASE c = b
      BY <1>4, <1>9, <2>1
    <2>2. CASE c # b
      <3>1. \A j \in 1 .. Len(items[c]) : items[c][j] \in Files
        BY ElementOfSeq DEF PageInv, TypeOK
      <3>2. \A j \in 1 .. Len(items[c]) : Unsent(c, j)' => Unsent(c, j)
        BY <1>3, <2>2 DEF Unsent
      <3> QED
        BY <1>3, <1>8, <2>2, <3>1, <3>2 DEF FolderInv
    <2> QED
      BY <2>1, <2>2
  <1> QED
    BY <1>2, <1>7, <1>10 DEF FolderInv

\* The page goes on with the next entry or ends the batch.
LEMMA NextIsUnsent ==
  ASSUME PageInv, FolderInv, NEW b \in Batches, stage[b] \in {"init", "file"},
         token[b] # NoToken, NEW st, NEW up,
         UploadSequential(b, idx[b] + 1, st, up)
  PROVE  FolderInv'
  <1>1. /\ UNCHANGED <<items, token, stored>>
        /\ idx'[b] = idx[b] + 1 /\ idx[b] \in Nat
        /\ stage'[b] \in {"file", "over", "notify"}
        /\ \A c \in Batches : c # b => /\ idx'[c] = idx[c] /\ stage'[c] = stage[c]
                                       /\ call'[c] = call[c]
    BY DEF UploadSequential, nas, PageInv, TypeOK
  <1>2. \A j \in 1 .. Len(items[b]) : Unsent(b, j)' => Missing(b, items[b][j])
    <2> SUFFICES ASSUME NEW j \in 1 .. Len(items[b]), Unsent(b, j)'
                 PROVE  Missing(b, items[b][j])
      OBVIOUS
    <2>1. j > idx[b]
      BY <1>1 DEF Unsent
    <2>2. items[b][j] \in Files
      BY ElementOfSeq DEF PageInv, TypeOK
    <2> QED
      BY <2>1, <2>2 DEF FolderInv, Unsent
  <1>3. \A c \in Batches :
           /\ stage'[c] \in {"new", "init"} => \A f \in Files : Missing(c, f)
           /\ stage'[c] = "init" /\ call'[c] = "ok" => token[c] # NoToken
           /\ stage'[c] = "file" =>
                 /\ token[c] # NoToken
                 /\ \A j \in 1 .. Len(items[c]) :
                       Unsent(c, j)' => Missing(c, items[c][j])
    <2> TAKE c \in Batches
    <2>1. CASE c = b
      BY <1>1, <1>2, <2>1
    <2>2. CASE c # b
      BY <1>1, <2>2 DEF FolderInv, Unsent
    <2> QED
      BY <2>1, <2>2
  <1> QED
    BY <1>1, <1>3 DEF FolderInv, Missing, Distinct

\* A batch ends without another request.
LEMMA FoldersStayAtEnd ==
  ASSUME PageInv, FolderInv, NEW b \in Batches,
         stage' = [stage EXCEPT ![b] = "over"],
         call' = [call EXCEPT ![b] = "idle"],
         UNCHANGED <<items, idx, token, stored>>
  PROVE  FolderInv'
  <1>1. /\ stage'[b] = "over"
        /\ \A c \in Batches : c # b => stage'[c] = stage[c] /\ call'[c] = call[c]
    BY DEF PageInv, TypeOK
  <1> QED
    BY <1>1 DEF FolderInv, Missing, Unsent, Distinct

\* A click starts a batch that has no folder yet.
LEMMA ClickHasNoFolder ==
  ASSUME PageInv, FolderInv, NEW b \in Batches, ClickUpload(b)
  PROVE  FolderInv'
  <1>1. /\ stage[b] = "new" /\ stage'[b] = "init" /\ call'[b] = "sent"
        /\ UNCHANGED <<idx, token, stored>>
        /\ \A c \in Batches :
              c # b => /\ stage'[c] = stage[c] /\ call'[c] = call[c]
                       /\ items'[c] = items[c]
    BY DEF ClickUpload, nas, PageInv, TypeOK
  <1>2. ASSUME NEW f \in Files, NEW d \in Elements(stored[f])
        PROVE  \E c \in Batches : /\ token[c] # NoToken /\ token[c].folder = d
                                  /\ f \in Elements(items'[c])
    <2>1. PICK c \in Batches : /\ token[c] # NoToken /\ token[c].folder = d
                               /\ f \in Elements(items[c])
      BY DEF FolderInv
    <2>2. c # b
      BY <1>1, <2>1 DEF FolderInv, Missing
    <2> QED
      BY <1>1, <2>1, <2>2
  <1>3. \A c \in Batches :
           /\ stage'[c] \in {"new", "init"} => \A f \in Files : Missing(c, f)
           /\ stage'[c] = "init" /\ call'[c] = "ok" => token[c] # NoToken
           /\ stage'[c] = "file" =>
                 /\ token[c] # NoToken
                 /\ \A j \in 1 .. Len(items'[c]) :
                       Unsent(c, j)' => Missing(c, items'[c][j])
    <2> TAKE c \in Batches
    <2>1. CASE c = b
      BY <1>1, <2>1 DEF FolderInv
    <2>2. CASE c # b
      BY <1>1, <2>2 DEF FolderInv, Unsent
    <2> QED
      BY <2>1, <2>2
  <1> QED
    BY <1>1, <1>2, <1>3 DEF FolderInv, Missing, Distinct

\* The request of b gets as far as w, and nothing is made or stored.
LEMMA OneRequestMoves ==
  ASSUME PageInv, FolderInv, NEW b \in Batches, NEW w, Becomes(b, w),
         UNCHANGED <<token, stored>>,
         w = "ok" => stage[b] # "init",
         w \in {"sent", "verified", "reserved"} =>
            call[b] \in {"sent", "verified", "reserved"}
  PROVE  FolderInv'
  <1>1. /\ call'[b] = w
        /\ \A c \in Batches : c # b => call'[c] = call[c]
    BY DEF Becomes, PageInv, TypeOK
  <1>2. \A c \in Batches :
           /\ stage[c] = "init" /\ call'[c] = "ok" => call[c] = "ok"
           /\ stage[c] = "file" /\ call'[c] \in {"sent", "verified", "reserved"} =>
                 call[c] \in {"sent", "verified", "reserved"}
    BY <1>1
  <1> QED
    BY <1>2, FoldersStay DEF Becomes, page

LEMMA FolderInvKept ==
  ASSUME IInv, PageInv, FolderInv, [Next]_vars
  PROVE  FolderInv'
  <1>1. ASSUME NEW b \in Batches, ServerStep(b) \/ Refuse(b)
        PROVE  FolderInv'
    <2> USE DEF At
    <2>1. ASSUME NEW w \in {"landed", "verified", "reserved", "retry", "fail",
                            "forbidden", "refused"}, Goes(b, w),
                 w \in {"verified", "reserved"} => call[b] \in {"sent", "verified"}
          PROVE  FolderInv'
      BY <2>1, OneRequestMoves DEF Goes, nas
    <2>2. ASSUME NEW w \in {"ok", "fail"}, stage[b] = "init", CreateFolder(b),
                 Becomes(b, w)
          PROVE  FolderInv'
      BY <2>2, FolderIsEmpty DEF Becomes, page
    <2>3. ASSUME NEW w \in {"ok", "retry"}, stage[b] = "file",
                 call[b] = "reserved", StoreCopy(b), Becomes(b, w)
          PROVE  FolderInv'
      BY <2>3, CopyIsFirst DEF Becomes, page
    <2>4. ASSUME NEW w \in {"ok", "fail"}, stage[b] = "notify", SendNotice(b),
                 Becomes(b, w)
          PROVE  FolderInv'
      BY <2>4, OneRequestMoves DEF SendNotice
    <2> QED
      BY <1>1, <2>1, <2>2, <2>3, <2>4 DEF ServerStep, Refuse, InitLanding,
         InitCreate, VerifyToken, FileReserve, FileFinalize, Notify
  <1>2. ASSUME NEW b \in Batches, Disconnect(b) \/ HandlerTimeout(b)
        PROVE  FolderInv'
    <2> USE DEF At
    <2>1. PICK w \in {"lost", "fail"} : /\ Becomes(b, w)
                                        /\ w = "fail" => HandlerTimeout(b)
                                        /\ w = "lost" => Disconnect(b)
      BY <1>2 DEF Disconnect, HandlerTimeout
    <2>2. CASE At(b, "init", "landed") /\ CreateFolder(b)
      BY <2>1, <2>2, FolderIsEmpty DEF Becomes, page
    <2>3. CASE At(b, "file", "reserved") /\ StoreCopy(b) /\ w = "lost"
      BY <2>1, <2>3, CopyIsFirst DEF Becomes, page
    <2>4. CASE UNCHANGED <<token, stored>>
      BY <2>1, <2>4, OneRequestMoves
    <2> QED
      BY <2>1, <2>2, <2>3, <2>4 DEF Disconnect, HandlerTimeout, SendNotice, nas
  <1>3. ASSUME NEW b \in Batches, PageStep(b)
        PROVE  FolderInv'
    <2>1. CASE InitAnswered(b) /\ call[b] = "ok"
      <3>1. /\ stage[b] = "init" /\ token[b] # NoToken /\ idx[b] = 0
            /\ UploadSequential(b, 1, status, <<>>)
        BY <2>1 DEF InitAnswered, Answered, FolderInv, PageInv, ListInv
      <3>2. UploadSequential(b, idx[b] + 1, status, <<>>)
        BY <3>1
      <3> QED
        BY <3>1, <3>2, NextIsUnsent
    <2>2. CASE InitAnswered(b) /\ call[b] # "ok"
      BY <2>2, FoldersStayAtEnd DEF InitAnswered, nas
    <2>3. CASE FileAnswered(b)
      <3> DEFINE st == [status EXCEPT ![Current(b)] = NewStatus(call[b])]
                 up == NewUploaded(b)
      <3>1. /\ stage[b] = "file" /\ token[b] # NoToken
            /\ UploadSequential(b, idx[b] + 1, st, up)
        BY <2>3 DEF FileAnswered, Answered, FolderInv
      <3> HIDE DEF st, up
      <3> QED
        BY <3>1, NextIsUnsent
    <2>4. CASE NotifyAnswered(b)
      BY <2>4, FoldersStayAtEnd DEF NotifyAnswered, nas
    <2> QED
      BY <1>3, <2>1, <2>2, <2>3, <2>4 DEF PageStep
  <1>4. CASE Restart
    <2>1. \A b \in Batches : call'[b] = call[b] \/ call'[b] = "lost"
      BY <1>4 DEF Restart, PageInv, TypeOK
    <2> QED
      BY <1>4, <2>1, FoldersStay DEF Restart, page, nas
  <1>5. ASSUME UNCHANGED <<stage, items, idx, call, token, stored>>
        PROVE  FolderInv'
    BY <1>5, FoldersStay
  <1>6. ASSUME NEW f \in Files, AddFile(f) \/ RemoveFile(f)
        PROVE  FolderInv'
    BY <1>5, <1>6 DEF AddFile, RemoveFile, nas
  <1>7. CASE Unlock \/ SessionExpires \/ UNCHANGED vars
    BY <1>5, <1>7 DEF Unlock, SessionExpires, vars, page, nas
  <1> QED
    BY <1>1, <1>2, <1>3, <1>4, <1>6, <1>7, ClickHasNoFolder DEF Next

\* Each batch makes one folder at most and shares it with none; every copy is
\* in the folder of a batch that was started with it, what a batch counts as
\* uploaded is in its own, and no folder has a file twice.
THEOREM FoldersApart == Spec => []OneFolderPerBatch
  <1>1. Init => FolderInv
    <2> SUFFICES ASSUME Init PROVE FolderInv
      OBVIOUS
    <2>1. Elements(<<>>) = {} /\ Distinct(<<>>)
      BY DEF Elements, Distinct
    <2> QED
      BY <2>1 DEF Init, FolderInv, Missing
  <1>2. IInv /\ PageInv /\ FolderInv /\ [Next]_vars => FolderInv'
    BY FolderInvKept
  <1>3. Spec => []FolderInv
    BY <1>1, <1>2, InvariantHolds, PageInvHolds, PTL DEF Spec
  <1>4. IInv /\ PageInv /\ FolderInv => OneFolderPerBatch
    <2> SUFFICES ASSUME IInv, PageInv, FolderInv PROVE OneFolderPerBatch
      OBVIOUS
    <2> DEFINE Begun == {b \in Batches : stage[b] # "new"}
    <2>1. Made \subseteq Begun /\ IsFiniteSet(Begun)
      BY BatchesFinite, FS_Subset DEF Made
    <2>2. Cardinality(Made) <= Cardinality(Begun) /\ Cardinality(Begun) \in Nat
      BY <2>1, FS_Subset, FS_CardinalityType
    <2>3. folders <= Cardinality(Begun)
      BY <2>2, MadeFinite DEF IInv, TypeInv, FoldersCounted
    <2>4. \A b, c \in Batches :
             (b # c /\ token[b] # NoToken) => token[b].folder # token[c].folder
      BY DEF IInv, TokensApart
    <2>5. \A b \in Batches : \A f \in Elements(uploaded[b]) :
             token[b].folder \in Elements(stored[f])
      BY DEF PageInv, ReportInv
    <2>6. \A f \in Files :
             /\ Distinct(stored[f])
             /\ \A d \in Elements(stored[f]) : \E b \in Batches :
                   token[b].folder = d /\ f \in Elements(items[b])
      BY DEF FolderInv
    <2> QED
      BY <2>3, <2>4, <2>5, <2>6 DEF OneFolderPerBatch
  <1> QED
    BY <1>3, <1>4, InvariantHolds, PageInvHolds, PTL
=============================================================================
