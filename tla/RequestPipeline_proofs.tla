---------------------- MODULE RequestPipeline_proofs ----------------------
(***************************************************************************)
(* Proofs about the request pipeline, for any set of requests and any      *)
(* capacity: the slots in the semaphore are those of the requests being    *)
(* served, a handler that outlives its request is cancelled, and no NAS    *)
(* call starts for a request that was answered.                            *)
(***************************************************************************)
EXTENDS RequestPipeline, FiniteSetTheorems, TLAPS

\* What leaves the semaphore as it is: a step that keeps the set of requests
\* being served.
LEMMA SlotsStay ==
    ASSUME SlotsMatch, sem' = sem, Serving' = Serving
    PROVE  SlotsMatch'
  BY DEF SlotsMatch

\* Entering GlobalConcurrency: one more request, one more token.
LEMMA SlotTaken ==
    ASSUME TypeOK, SlotsMatch, NEW r \in Requests,
           stage[r] # "serving", HasSlot, sem' = sem + 1,
           stage' = [stage EXCEPT ![r] = "serving"]
    PROVE  SlotsMatch' /\ sem' \in 0 .. MaxConcurrent
  <1>1. IsFiniteSet(Serving) /\ r \notin Serving
    BY RequestsFinite, FS_Subset DEF Serving
  <1>2. Serving' = Serving \cup {r}
    BY DEF Serving, TypeOK
  <1>3. Cardinality(Serving') = Cardinality(Serving) + 1
    BY <1>1, <1>2, FS_AddElement
  <1> QED
    BY <1>3, CapacityPositive DEF SlotsMatch, HasSlot, TypeOK

\* Leaving it: one request less, one token less.
LEMMA SlotReturned ==
    ASSUME TypeOK, SlotsMatch, NEW r \in Requests,
           stage[r] = "serving", sem' = sem - 1,
           stage' = [stage EXCEPT ![r] = "over"]
    PROVE  SlotsMatch' /\ sem' \in 0 .. MaxConcurrent
  <1>1. IsFiniteSet(Serving) /\ r \in Serving
    BY RequestsFinite, FS_Subset DEF Serving
  <1>2. Serving' = Serving \ {r}
    BY DEF Serving, TypeOK
  <1>3. Cardinality(Serving') = Cardinality(Serving) - 1
    BY <1>1, <1>2, FS_RemoveElement
  <1>4. Cardinality(Serving) # 0
    BY <1>1, FS_EmptySet
  <1>5. Cardinality(Serving) \in Nat
    BY <1>1, FS_CardinalityType
  <1> QED
    BY <1>3, <1>4, <1>5, CapacityPositive DEF SlotsMatch, TypeOK

LEMMA Initially == Init => IInv
  <1> SUFFICES ASSUME Init PROVE IInv
    OBVIOUS
  <1>1. TypeOK
    BY CapacityPositive, CallsNatural DEF Init, TypeOK, Replies
  <1>2. SlotsMatch
    <2>1. Serving = {}
      BY DEF Init, Serving
    <2> QED
      BY <2>1, FS_EmptySet, CapacityPositive DEF Init, SlotsMatch
  <1>3. StageInv
    BY DEF Init, StageInv, Running
  <1> QED
    BY <1>1, <1>2, <1>3 DEF IInv

\* The steps that end a request which holds a slot.
LEMMA ReleasingStep ==
    ASSUME IInv, NEW r \in Requests, Answer(r) \/ Timeout(r) \/ GiveUp(r)
    PROVE  IInv'
  <1> USE DEF IInv
  <1>1. /\ stage[r] = "serving" /\ sem' = sem - 1
        /\ stage' = [stage EXCEPT ![r] = "over"]
        /\ UNCHANGED <<handler, calls, length, body, server>>
    BY DEF Answer, Timeout, GiveUp, Abandons, Leave, Release
  <1>2. /\ cancelled' = [cancelled EXCEPT ![r] = TRUE]
        /\ \E rep \in Replies : reply' = [reply EXCEPT ![r] = rep]
    BY DEF Answer, Timeout, GiveUp, Leave, Outcome, Replies
  <1>3. SlotsMatch' /\ sem' \in 0 .. MaxConcurrent
    BY <1>1, SlotReturned
  <1>4. TypeOK'
    BY <1>1, <1>2, <1>3 DEF TypeOK
  <1>5. handler[r] = "ended" \/ r \notin Streams
    BY DEF Answer, Timeout, GiveUp, Abandons
  <1>6. StageInv'
    BY <1>1, <1>2, <1>5 DEF StageInv, Running, TypeOK
  <1> QED
    BY <1>3, <1>4, <1>6

\* The steps of a handler leave the connection goroutine and the slots alone.
LEMMA HandlerStep ==
    ASSUME IInv, NEW r \in Requests, Handle(r)
    PROVE  IInv'
  <1> USE DEF IInv
  <1>1. /\ handler[r] \in {"working", "calling", "copying"}
        /\ \E to \in {"working", "calling", "copying", "ended"} :
              handler' = [handler EXCEPT ![r] = to]
        /\ UNCHANGED <<stage, cancelled, reply, sem, server>>
    BY DEF Handle, Work, CallNAS, CallReturns, StartCopy, EndCopy, Abort, Return, HandlerMoves
  <1>2. calls' \in [Requests -> 0 .. MaxCalls]
    <2>1. CASE CallNAS(r)
      BY <2>1, CallsNatural DEF CallNAS, TypeOK
    <2>2. CASE ~CallNAS(r)
      BY <2>2 DEF Handle, Work, CallReturns, StartCopy, EndCopy, Abort, Return, HandlerMoves, TypeOK
    <2> QED
      BY <2>1, <2>2
  <1>3. /\ length' \in [Requests -> BOOLEAN]
        /\ body' \in [Requests -> {"none", "whole", "cut"}]
    BY DEF Handle, Work, CallNAS, CallReturns, StartCopy, EndCopy, Abort, Return, TypeOK
  <1>4. TypeOK'
    <2>1. handler' \in [Requests -> {"none", "working", "calling", "copying", "ended"}]
      BY <1>1 DEF TypeOK
    <2>2. /\ stage' = stage /\ cancelled' = cancelled
          /\ reply' = reply /\ sem' = sem /\ server' = server
      BY <1>1
    <2> QED
      BY <1>2, <1>3, <2>1, <2>2 DEF TypeOK
  <1>5. SlotsMatch'
    BY <1>1, SlotsStay DEF Serving
  <1>6. StageInv'
    BY <1>1 DEF StageInv, Running, TypeOK
  <1> QED
    BY <1>4, <1>5, <1>6

LEMMA ExitStep ==
    ASSUME IInv, Exit
    PROVE  IInv'
  <1> USE DEF IInv
  <1>1. TypeOK'
    BY CapacityPositive DEF TypeOK, Exit, Replies
  <1>2. SlotsMatch'
    <2>1. Serving' = {}
      BY DEF Serving, Exit, Active, TypeOK
    <2> QED
      BY <2>1, FS_EmptySet, CapacityPositive DEF SlotsMatch, Exit
  <1>3. StageInv'
    BY DEF StageInv, Running, Exit, Active, TypeOK
  <1> QED
    BY <1>1, <1>2, <1>3

\* Every step of the pipeline preserves the invariant.
LEMMA Inductive == IInv /\ [Next]_vars => IInv'
  <1> SUFFICES ASSUME IInv, [Next]_vars PROVE IInv'
    OBVIOUS
  <1> USE DEF IInv
  <1>1. ASSUME NEW r \in Requests, Arrive(r) PROVE IInv'
    <2>1. TypeOK'
      BY <1>1 DEF Arrive, TypeOK
    <2>2. Serving' = Serving
      BY <1>1 DEF Arrive, Serving, TypeOK
    <2>3. SlotsMatch'
      BY <1>1, <2>2, SlotsStay DEF Arrive
    <2>4. StageInv'
      BY <1>1 DEF Arrive, StageInv, Running, TypeOK
    <2> QED
      BY <2>1, <2>3, <2>4
  <1>2. ASSUME NEW r \in Requests, RateLimited(r) \/ Busy(r) PROVE IInv'
    <2>1. stage[r] = "chain" /\ Leave(r, "refused") /\ UNCHANGED <<handler, sem>>
      BY <1>2 DEF RateLimited, Busy
    <2>2. TypeOK'
      BY <2>1 DEF Leave, TypeOK, Replies
    <2>3. Serving' = Serving
      BY <2>1 DEF Leave, Serving, TypeOK
    <2>4. SlotsMatch'
      BY <2>1, <2>3, SlotsStay
    <2>5. StageInv'
      BY <2>1 DEF Leave, StageInv, Running, TypeOK
    <2> QED
      BY <2>2, <2>4, <2>5
  <1>3. ASSUME NEW r \in Requests, Acquire(r) PROVE IInv'
    <2>1. SlotsMatch' /\ sem' \in 0 .. MaxConcurrent
      BY <1>3, SlotTaken DEF Acquire
    <2>2. TypeOK'
      BY <1>3, <2>1 DEF Acquire, TypeOK
    <2>3. StageInv'
      BY <1>3 DEF Acquire, StageInv, Running, TypeOK
    <2> QED
      BY <2>1, <2>2, <2>3
  <1>4. ASSUME NEW r \in Requests, ClientGone(r) PROVE IInv'
    <2>1. TypeOK'
      BY <1>4 DEF ClientGone, TypeOK
    <2>2. SlotsMatch'
      BY <1>4, SlotsStay DEF ClientGone, Serving
    <2>3. StageInv'
      BY <1>4 DEF ClientGone, StageInv, Running, TypeOK
    <2> QED
      BY <2>1, <2>2, <2>3
  <1>5. CASE Signal
    <2>1. TypeOK'
      BY <1>5 DEF Signal, TypeOK
    <2>2. SlotsMatch'
      BY <1>5, SlotsStay DEF Signal, Serving
    <2>3. StageInv'
      BY <1>5 DEF Signal, StageInv, Running
    <2> QED
      BY <2>1, <2>2, <2>3
  <1>6. CASE Drained \/ DrainTimeout
    BY <1>6, ExitStep DEF Drained, DrainTimeout
  <1>7. CASE UNCHANGED vars
    <2>1. TypeOK' /\ StageInv'
      BY <1>7 DEF vars, TypeOK, StageInv, Running
    <2>2. SlotsMatch'
      BY <1>7, SlotsStay DEF vars, Serving
    <2> QED
      BY <2>1, <2>2
  <1> QED
    BY <1>1, <1>2, <1>3, <1>4, <1>5, <1>6, <1>7, ReleasingStep, HandlerStep
       DEF Next, Serve

\* The invariant holds in every reachable state.
THEOREM InvariantHolds == Spec => []IInv
  BY Initially, Inductive, PTL DEF Spec

\* Every variable keeps its type; the semaphore channel never overflows.
THEOREM TypeCorrect == Spec => []TypeOK
  <1>1. IInv => TypeOK
    BY DEF IInv
  <1> QED
    BY <1>1, InvariantHolds, PTL

\* GlobalConcurrency loses no slot and gives none out twice.
THEOREM SlotsAccounted == Spec => []SlotsMatch
  <1>1. IInv => SlotsMatch
    BY DEF IInv
  <1> QED
    BY <1>1, InvariantHolds, PTL

\* Only a handler under TimeoutHandler outlives its request, and cancelled.
THEOREM OrphansCancelled == Spec => []OrphanIsCancelled
  <1>1. IInv => OrphanIsCancelled
    BY DEF IInv, StageInv, OrphanIsCancelled
  <1> QED
    BY <1>1, InvariantHolds, PTL

\* No NAS call starts for a request that has been answered.
THEOREM SilentAfterReply == Spec => NoCallAfterReply
  <1> DEFINE Silent == \A r \in Requests : calls'[r] # calls[r] => reply[r] = "none"
  <1>1. ASSUME IInv, Next, NEW r \in Requests, calls'[r] # calls[r]
        PROVE  reply[r] = "none"
    <2>1. PICK q \in Requests : CallNAS(q)
      BY <1>1 DEF Next, Arrive, Serve, RateLimited, Acquire, Busy, Answer, Timeout,
         GiveUp, Leave, Handle, Work, CallReturns, StartCopy, EndCopy, Abort, Return,
         ClientGone, Signal, Drained, DrainTimeout, Exit
    <2>2. q = r
      BY <1>1, <2>1 DEF CallNAS, IInv, TypeOK
    <2>3. handler[r] = "working" /\ ~cancelled[r]
      BY <2>1, <2>2 DEF CallNAS
    <2> QED
      BY <1>1, <2>3 DEF IInv, StageInv
  <1>2. IInv /\ [Next]_vars => [Silent]_vars
    BY <1>1
  <1> QED
    BY <1>2, InvariantHolds, PTL DEF Spec, NoCallAfterReply
=============================================================================
