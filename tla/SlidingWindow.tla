--------------------------- MODULE SlidingWindow ---------------------------
(***************************************************************************)
(* What the rate limiter of middleware/ratelimit.go promises, with no      *)
(* table, no mutex and no cleanup: every request is admitted or refused    *)
(* once, and both verdicts are justified by the requests admitted before.  *)
(*                                                                         *)
(* Two windows appear instead of one, because the code reads the clock     *)
(* before it takes the lock.  An admission is justified by the shorter one *)
(* (SureWindow) and a refusal by the longer one (MaybeWindow); the two are *)
(* equal when the lock is never waited for.                                *)
(***************************************************************************)
EXTENDS Integers, FiniteSets

CONSTANTS
    Requests,     \* the requests of the run, each handled once
    IPs,          \* client addresses
    Limit,        \* admissions per window and address
    MaxTracked,   \* addresses the limiter can track at a time
    SureWindow,   \* admissions this recent are certainly counted
    MaybeWindow,  \* admissions older than this are certainly not counted
    TrackWindow   \* an address idle for this long is certainly forgotten

VARIABLES
    clock,        \* the time
    addr,         \* address each request comes from
    verdict,      \* "none", "admitted" or "rejected"
    decidedAt     \* when the verdict was given

vars == <<clock, addr, verdict, decidedAt>>

\* The requests of ip admitted during the last w time units.
Recent(ip, w) ==
    {q \in Requests : /\ verdict[q] = "admitted"
                      /\ addr[q] = ip
                      /\ decidedAt[q] + w > clock}

Init ==
    /\ clock = 0
    /\ addr \in [Requests -> IPs]
    /\ verdict = [q \in Requests |-> "none"]
    /\ decidedAt = [q \in Requests |-> 0]

Decide(q, v) ==
    /\ verdict[q] = "none"
    /\ verdict' = [verdict EXCEPT ![q] = v]
    /\ decidedAt' = [decidedAt EXCEPT ![q] = clock]
    /\ UNCHANGED <<clock, addr>>

\* Admitted: fewer than Limit of this client's requests are recent.
Admit(q) ==
    /\ Cardinality(Recent(addr[q], SureWindow)) < Limit
    /\ Decide(q, "admitted")

\* Refused because the client used its budget up.
RefuseBusy(q) ==
    /\ Cardinality(Recent(addr[q], MaybeWindow)) >= Limit
    /\ Decide(q, "rejected")

\* Refused because MaxTracked other clients are being tracked; a client
\* that is being tracked itself is never refused for that reason.
RefuseCrowded(q) ==
    /\ Recent(addr[q], SureWindow) = {}
    /\ \E others \in SUBSET (IPs \ {addr[q]}) :
          /\ Cardinality(others) >= MaxTracked
          /\ \A ip \in others : Recent(ip, TrackWindow) # {}
    /\ Decide(q, "rejected")

Tick ==
    /\ clock' = clock + 1
    /\ UNCHANGED <<addr, verdict, decidedAt>>

Next ==
    \/ \E q \in Requests : Admit(q) \/ RefuseBusy(q) \/ RefuseCrowded(q)
    \/ Tick

Spec == Init /\ [][Next]_vars
=============================================================================
