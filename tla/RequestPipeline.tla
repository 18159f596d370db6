-------------------------- MODULE RequestPipeline --------------------------
(***************************************************************************)
(* The life of a request in the proxy: the middleware chain (middleware/   *)
(* ratelimit.go), the two kinds of routes and the shutdown (main.go).      *)
(*                                                                         *)
(* A connection goroutine carries the request through the chain to the     *)
(* router.  On a streaming route it runs the handler itself; on any other  *)
(* route http.TimeoutHandler runs the handler on a goroutine of its own    *)
(* and waits for it, for 45 s or for the client to go, whichever is first. *)
(* So a handler can outlive its request: stage[r] is where the connection  *)
(* goroutine is, handler[r] where the handler is.                          *)
(*                                                                         *)
(* A handler makes a few NAS calls one after the other.  The calls of the  *)
(* wrapped routes have deadlines; the last call of a streaming route has   *)
(* none.  Deadlines pass at any time here: there is no clock.              *)
(***************************************************************************)
EXTENDS Integers, FiniteSets

CONSTANTS
    Requests,       \* the requests of a run
    Streams,        \* those of them on streaming routes
    MaxConcurrent,  \* MAX_CONCURRENT: capacity of the semaphore channel
    MaxCalls        \* bound: NAS calls of one handler

ASSUME RequestsFinite == IsFiniteSet(Requests) /\ Streams \subseteq Requests
\* envInt refuses zero and negative settings.
ASSUME CapacityPositive == MaxConcurrent \in Nat \ {0}
ASSUME CallsNatural == MaxCalls \in Nat

VARIABLES
    stage,      \* stage[r]: "new", "chain" (middlewares), "serving" (has a slot), "over"
    handler,    \* "none", "working", "calling" (a NAS call), "copying", "ended"
    calls,      \* NAS calls the handler has made
    cancelled,  \* the request's context is done
    length,     \* the NAS gave the Content-Length of what is being copied
    body,       \* "none", "whole" or "cut": what a download handler copied
    reply,      \* what the client got (Replies)
    sem,        \* tokens in the semaphore channel
    server      \* "up", "draining" (Shutdown called) or "exited"

vars == <<stage, handler, calls, cancelled, length, body, reply, sem,
          server>>

\* Nothing yet; 429 or 503 of a middleware; the handler's answer; the 503 of
\* TimeoutHandler; a broken connection.
Replies == {"none", "refused", "answer", "timeout", "lost"}

TypeOK ==
    /\ stage \in [Requests -> {"new", "chain", "serving", "over"}]
    /\ handler \in [Requests -> {"none", "working", "calling", "copying", "ended"}]
    /\ calls \in [Requests -> 0 .. MaxCalls]
    /\ cancelled \in [Requests -> BOOLEAN]
    /\ length \in [Requests -> BOOLEAN]
    /\ body \in [Requests -> {"none", "whole", "cut"}]
    /\ reply \in [Requests -> Replies]
    /\ sem \in 0 .. MaxConcurrent
    /\ server \in {"up", "draining", "exited"}

Init ==
    /\ stage = [r \in Requests |-> "new"]
    /\ handler = [r \in Requests |-> "none"]
    /\ calls = [r \in Requests |-> 0]
    /\ cancelled = [r \in Requests |-> FALSE]
    /\ length = [r \in Requests |-> FALSE]
    /\ body = [r \in Requests |-> "none"]
    /\ reply = [r \in Requests |-> "none"]
    /\ sem = 0
    /\ server = "up"

-----------------------------------------------------------------------------
(* The connection goroutine                                                *)

Arrive(r) ==
    /\ server = "up"
    /\ stage[r] = "new"
    /\ stage' = [stage EXCEPT ![r] = "chain"]
    /\ UNCHANGED <<handler, calls, cancelled, length, body, reply, sem,
                   server>>

\* The connection goroutine is done with r.  ServeHTTP's return cancels the
\* request's context.
Leave(r, rep) ==
    /\ stage' = [stage EXCEPT ![r] = "over"]
    /\ reply' = [reply EXCEPT ![r] = rep]
    /\ cancelled' = [cancelled EXCEPT ![r] = TRUE]
    /\ UNCHANGED <<calls, length, body, server>>

\* The rate limiter's 429 (which of them it gives: module RateLimiter).
RateLimited(r) ==
    /\ stage[r] = "chain"
    /\ Leave(r, "refused")
    /\ UNCHANGED <<handler, sem>>

HasSlot == sem < MaxConcurrent

\* GlobalConcurrency: case sem <- struct{}{}.
Acquire(r) ==
    /\ stage[r] = "chain"
    /\ HasSlot
    /\ sem' = sem + 1
    /\ stage' = [stage EXCEPT ![r] = "serving"]
    /\ handler' = [handler EXCEPT ![r] = "working"]
    /\ UNCHANGED <<calls, cancelled, length, body, reply, server>>

\* GlobalConcurrency: default, 503.
Busy(r) ==
    /\ stage[r] = "chain"
    /\ ~HasSlot
    /\ Leave(r, "refused")
    /\ UNCHANGED <<handler, sem>>

\* Mutated form: only a handler that answered gives its slot back.
Release_OnAnswer(r) == sem' = IF handler[r] = "ended" THEN sem - 1 ELSE sem

\* defer func() { <-sem }()
Release(r) == sem' = sem - 1

\* What the client makes of the handler's answer.  A copy that broke off is
\* not reported by the handler; the server notices that the body is shorter
\* than the Content-Length and breaks the connection, if there was one.
Outcome(r) ==
    IF cancelled[r] \/ (body[r] = "cut" /\ length[r]) THEN "lost" ELSE "answer"

\* Mutated form: nothing is done for a client that is gone.
Answer_Connected(r) ==
    /\ stage[r] = "serving"
    /\ handler[r] = "ended"
    /\ ~cancelled[r]
    /\ Leave(r, Outcome(r))
    /\ Release(r)
    /\ UNCHANGED handler

\* The handler has returned: its answer goes out, unless the client is gone.
Answer(r) ==
    /\ stage[r] = "serving"
    /\ handler[r] = "ended"
    /\ Leave(r, Outcome(r))
    /\ Release(r)
    /\ UNCHANGED handler

\* Mutated forms: streaming routes are wrapped too; no route is.
Abandons_Any(r) == stage[r] = "serving"
Abandons_Never(r) == FALSE

\* TimeoutHandler stops waiting for the handler, which goes on alone.
Abandons(r) == stage[r] = "serving" /\ r \notin Streams

Timeout(r) ==
    /\ Abandons(r)
    /\ ~cancelled[r]
    /\ Leave(r, "timeout")
    /\ Release(r)
    /\ UNCHANGED handler

\* The same on <-ctx.Done(): the client is gone.
GiveUp(r) ==
    /\ Abandons(r)
    /\ cancelled[r]
    /\ Leave(r, "lost")
    /\ Release(r)
    /\ UNCHANGED handler

Serve(r) ==
    RateLimited(r) \/ Acquire(r) \/ Busy(r) \/ Answer(r) \/ Timeout(r) \/ GiveUp(r)

-----------------------------------------------------------------------------
(* The handler                                                             *)

HandlerMoves(r, to) ==
    /\ handler' = [handler EXCEPT ![r] = to]
    /\ UNCHANGED <<stage, cancelled, reply, sem, server>>

\* Mutated form: the call is not made with the request's context.
CallNAS_Background(r) ==
    /\ handler[r] = "working"
    /\ calls[r] < MaxCalls
    /\ HandlerMoves(r, "calling")
    /\ calls' = [calls EXCEPT ![r] = @ + 1]
    /\ UNCHANGED <<length, body>>

\* client.Do with the request's context; a dead one fails the call at once.
CallNAS(r) ==
    /\ handler[r] = "working"
    /\ calls[r] < MaxCalls
    /\ ~cancelled[r]
    /\ HandlerMoves(r, "calling")
    /\ calls' = [calls EXCEPT ![r] = @ + 1]
    /\ UNCHANGED <<length, body>>

\* The NAS answered or failed, or the call's own deadline passed.
CallReturns(r) ==
    /\ handler[r] = "calling"
    /\ HandlerMoves(r, "working")
    /\ UNCHANGED <<calls, length, body>>

\* A download: headers are sent, with or without Content-Length.
StartCopy(r) ==
    /\ r \in Streams
    /\ handler[r] = "working" /\ calls[r] > 0
    /\ ~cancelled[r]
    /\ HandlerMoves(r, "copying")
    /\ length' \in {length, [length EXCEPT ![r] = TRUE]}
    /\ UNCHANGED <<calls, body>>

\* io.Copy(w, resp.Body) returns; its error is not looked at.
EndCopy(r) ==
    /\ handler[r] = "copying"
    /\ HandlerMoves(r, "ended")
    /\ \E b \in {"whole", "cut"} : body' = [body EXCEPT ![r] = b]
    /\ UNCHANGED <<calls, length>>

\* Mutated form: nothing ties a NAS call to the request it is made for.
Abort_Never(r) == FALSE

\* Every NAS request is built with the request's context: when that is done,
\* the call fails, and so does the copy of a body.
Abort(r) ==
    /\ cancelled[r]
    /\ \/ /\ handler[r] = "calling"
          /\ HandlerMoves(r, "working")
          /\ UNCHANGED body
       \/ /\ handler[r] = "copying"
          /\ HandlerMoves(r, "ended")
          /\ body' = [body EXCEPT ![r] = "cut"]
    /\ UNCHANGED <<calls, length>>

\* The handler writes its answer (or an error) and returns.
Return(r) ==
    /\ handler[r] = "working"
    /\ HandlerMoves(r, "ended")
    /\ UNCHANGED <<calls, length, body>>

\* What a handler does without waiting for anybody.
Work(r) == CallNAS(r) \/ StartCopy(r) \/ Return(r) \/ Abort(r)

Handle(r) == Work(r) \/ CallReturns(r) \/ EndCopy(r)

-----------------------------------------------------------------------------
(* Clients and the process                                                 *)

\* The client closes the connection; the server cancels the context.
ClientGone(r) ==
    /\ stage[r] = "serving"
    /\ ~cancelled[r]
    /\ cancelled' = [cancelled EXCEPT ![r] = TRUE]
    /\ UNCHANGED <<stage, handler, calls, length, body, reply, sem, server>>

\* SIGINT or SIGTERM: srv.Shutdown closes the listener and the idle
\* connections, and waits.  Requests in progress are not cancelled.
Signal ==
    /\ server = "up"
    /\ server' = "draining"
    /\ UNCHANGED <<stage, handler, calls, cancelled, length, body, reply, sem>>

Active == {r \in Requests : stage[r] \in {"chain", "serving"}}

\* The process ends, and every goroutine with it.
Exit ==
    /\ server' = "exited"
    /\ stage' = [r \in Requests |-> IF r \in Active THEN "over" ELSE stage[r]]
    /\ reply' = [r \in Requests |-> IF r \in Active THEN "lost" ELSE reply[r]]
    /\ cancelled' = [r \in Requests |-> cancelled[r] \/ r \in Active]
    /\ handler' = [r \in Requests |-> IF handler[r] = "none" THEN "none" ELSE "ended"]
    /\ sem' = 0
    /\ UNCHANGED <<calls, length, body>>

\* Shutdown returned because no request is active.  Handlers whose request
\* was abandoned are not waited for.
Drained == server = "draining" /\ Active = {} /\ Exit

\* Mutated form: Shutdown without a deadline.
DrainTimeout_Never == server = "draining" /\ Active = {} /\ Exit

\* Shutdown returned because its 10 s are over.
DrainTimeout == server = "draining" /\ Active # {} /\ Exit

-----------------------------------------------------------------------------
Next ==
    \/ \E r \in Requests :
          Arrive(r) \/ Serve(r) \/ Handle(r) \/ ClientGone(r)
    \/ Signal \/ Drained \/ DrainTimeout

Spec == Init /\ [][Next]_vars

\* Goroutines run, and the 45 s of TimeoutHandler and the 10 s of Shutdown
\* pass.  A NAS call or a copy may wait for the NAS, or for the client, for
\* ever, until its context is done.
Fairness ==
    /\ \A r \in Requests : WF_vars(Serve(r)) /\ WF_vars(Work(r))
    /\ WF_vars(Drained \/ DrainTimeout)

FairSpec == Spec /\ Fairness

-----------------------------------------------------------------------------
(* Properties                                                              *)

Running(r) == handler[r] \in {"working", "calling", "copying"}
Serving == {r \in Requests : stage[r] = "serving"}

\* However requests end -- answered, timed out, client gone, before or after
\* their handler -- the tokens in the channel are those of the requests being
\* served, so no slot is lost and none is given out twice.
SlotsMatch == sem = Cardinality(Serving) /\ sem <= MaxConcurrent

\* A handler outlives its request only on a route with TimeoutHandler, and
\* then its context is done; a streaming handler never writes to a connection
\* that was given up.
OrphanIsCancelled ==
    \A r \in Requests :
        (Running(r) /\ stage[r] = "over") => (r \notin Streams /\ cancelled[r])

\* Once the client has its answer, also when that is TimeoutHandler's, nothing
\* more is asked of the NAS on its behalf.
NoCallAfterReply ==
    [][\A r \in Requests : calls'[r] # calls[r] => reply[r] = "none"]_vars

\* A request of a wrapped route is answered, even when the NAS never answers.
WrappedEnds ==
    \A r \in Requests \ Streams : stage[r] = "chain" ~> stage[r] = "over"

\* No goroutine is left behind by a request that is over.
OrphansEnd == \A r \in Requests : stage[r] = "over" ~> ~Running(r)

\* A client that net/http knows to be gone gives its slot back, also in the
\* middle of a download that would never end.
GoneIsReleased == \A r \in Requests : cancelled[r] ~> stage[r] = "over"

\* After the signal the process ends, whatever the NAS and the clients do.
ShutdownEnds == server = "draining" ~> server = "exited"

-----------------------------------------------------------------------------
(* The inductive invariant behind the safety properties above              *)

\* How the two goroutines of a request stand to each other.
StageInv ==
    \A r \in Requests :
        /\ stage[r] \in {"new", "chain"} => handler[r] = "none"
        /\ stage[r] = "over" => cancelled[r]
        /\ reply[r] # "none" => stage[r] = "over"
        /\ (Running(r) /\ stage[r] = "over") => r \notin Streams

IInv == TypeOK /\ SlotsMatch /\ StageInv
=============================================================================
