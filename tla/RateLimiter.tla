---------------------------- MODULE RateLimiter ----------------------------
(***************************************************************************)
(* The sliding-window rate limiter (src/middleware/ratelimit.go).          *)
(*                                                                         *)
(* Request goroutines run allow(ip): each reads the clock, THEN waits for  *)
(* the mutex, then prunes and extends its address's list of timestamps in  *)
(* one critical section.  A ticker goroutine runs cleanup, which also      *)
(* reads the clock before it locks.  The two steps are separate actions    *)
(* here, so a goroutine can hold a stale `now` while others move on.       *)
(*                                                                         *)
(* A timestamp list is the set of requests that appended to it: request q  *)
(* contributes the timestamp reading[q], so two equal timestamps stay two  *)
(* entries.  The order in the slice is never looked at by the code.        *)
(***************************************************************************)
EXTENDS Integers, FiniteSets

CONSTANTS
    Requests,       \* the requests of a run, each calling allow once
    IPs,            \* addresses RealIP returns for them
    Limit,          \* RATE_LIMIT_RPM
    MaxTracked,     \* MAX_TRACKED_IPS
    Window,         \* windowDuration (60 s)
    CleanupPeriod,  \* period of the cleanup ticker (5 min)
    MaxDelay,       \* longest wait between reading the clock and the lock
    MaxClock        \* bound: the clock stops here

ASSUME RequestsFinite == IsFiniteSet(Requests)
ASSUME AddressesFinite == IsFiniteSet(IPs)
\* envInt refuses zero and negative settings (src/main.go, 92-102).
ASSUME SettingsPositive == Limit \in Nat \ {0} /\ MaxTracked \in Nat \ {0}
ASSUME TimesNatural ==
    /\ Window \in Nat /\ CleanupPeriod \in Nat
    /\ MaxDelay \in Nat /\ MaxClock \in Nat
\* Waiting for a mutex held for microseconds, against a minute and 5 minutes.
ASSUME DelayIsShort == MaxDelay < Window /\ 2 * MaxDelay < CleanupPeriod

VARIABLES
    clock,       \* the wall clock
    addr,        \* addr[q]: the address request q comes from
    pc,          \* "idle", "locking" (clock read), "admitted", "rejected"
    reading,     \* reading[q]: the `now` q read before the lock
    lockedAt,    \* history: the time q ran its critical section
    known,       \* the keys of rl.timestamps
    timestamps,  \* timestamps[ip]: the requests whose reading is in the list
    cleaner,     \* the cleanup goroutine: "waiting" or "locking"
    cleanerNow,  \* the time cleanup read before the lock
    nextTick     \* when the ticker fires next

vars == <<clock, addr, pc, reading, lockedAt, known, timestamps,
          cleaner, cleanerNow, nextTick>>

TypeOK ==
    /\ clock \in Nat
    /\ addr \in [Requests -> IPs]
    /\ pc \in [Requests -> {"idle", "locking", "admitted", "rejected"}]
    /\ reading \in [Requests -> Nat]
    /\ lockedAt \in [Requests -> Nat]
    /\ known \in SUBSET IPs
    /\ timestamps \in [IPs -> SUBSET Requests]
    /\ cleaner \in {"waiting", "locking"}
    /\ cleanerNow \in Nat
    /\ nextTick \in Nat

Init ==
    /\ clock = 0
    /\ addr \in [Requests -> IPs]
    /\ pc = [q \in Requests |-> "idle"]
    /\ reading = [q \in Requests |-> 0]
    /\ lockedAt = [q \in Requests |-> 0]
    /\ known = {}
    /\ timestamps = [ip \in IPs |-> {}]
    /\ cleaner = "waiting"
    /\ cleanerNow = 0
    /\ nextTick = CleanupPeriod

-----------------------------------------------------------------------------
(* allow(ip)                                                               *)

\* now := time.Now().UnixNano(), before rl.mu.Lock().
ReadClock(q) ==
    /\ pc[q] = "idle"
    /\ pc' = [pc EXCEPT ![q] = "locking"]
    /\ reading' = [reading EXCEPT ![q] = clock]
    /\ UNCHANGED <<clock, addr, lockedAt, known, timestamps,
                   cleaner, cleanerNow, nextTick>>

\* Mutated form: the window is one unit short.
Valid_Early(ip, cutoff) == {p \in timestamps[ip] : reading[p] > cutoff + 1}

\* The timestamps of ip that allow keeps: those after the cutoff.
Valid(ip, cutoff) == {p \in timestamps[ip] : reading[p] > cutoff}

Answer(q, verdict) ==
    /\ pc[q] = "locking"
    /\ pc' = [pc EXCEPT ![q] = verdict]
    /\ lockedAt' = [lockedAt EXCEPT ![q] = clock]
    /\ UNCHANGED <<clock, addr, reading, cleaner, cleanerNow, nextTick>>

\* Mutated form: no capacity check.
HasRoom_Always(ip) == TRUE

HasRoom(ip) == ip \in known \/ Cardinality(known) < MaxTracked

\* Unknown address, table at capacity: refused, nothing is stored.
RejectTableFull(q) ==
    /\ ~HasRoom(addr[q])
    /\ Answer(q, "rejected")
    /\ UNCHANGED <<known, timestamps>>

\* Store the list for ip, creating the entry if there was none.
StoreList(ip, list) ==
    /\ known' = known \cup {ip}
    /\ timestamps' = [timestamps EXCEPT ![ip] = list]

\* Budget used up: the pruned list is stored, `now` is not appended.
RejectOverLimit(q) ==
    LET valid == Valid(addr[q], reading[q] - Window) IN
    /\ HasRoom(addr[q])
    /\ Cardinality(valid) >= Limit
    /\ Answer(q, "rejected")
    /\ StoreList(addr[q], valid)

\* Mutated form: one request over the limit.
Admit_OneMore(q) ==
    LET valid == Valid(addr[q], reading[q] - Window) IN
    /\ HasRoom(addr[q])
    /\ Cardinality(valid) <= Limit
    /\ Answer(q, "admitted")
    /\ StoreList(addr[q], valid \cup {q})

Admit(q) ==
    LET valid == Valid(addr[q], reading[q] - Window) IN
    /\ HasRoom(addr[q])
    /\ Cardinality(valid) < Limit
    /\ Answer(q, "admitted")
    /\ StoreList(addr[q], valid \cup {q})

-----------------------------------------------------------------------------
(* The cleanup goroutine                                                   *)

CleanupReadClock ==
    /\ cleaner = "waiting"
    /\ clock >= nextTick
    /\ cleaner' = "locking"
    /\ cleanerNow' = clock
    /\ UNCHANGED <<clock, addr, pc, reading, lockedAt, known, timestamps,
                   nextTick>>

\* Mutated form: only empty lists go.
AllOld_Empty(cutoff) == {ip \in known : timestamps[ip] = {}}

\* Addresses all of whose timestamps are at or before the cutoff.
AllOld(cutoff) ==
    {ip \in known : \A p \in timestamps[ip] : reading[p] <= cutoff}

Cleanup ==
    LET old == AllOld(cleanerNow - Window) IN
    /\ cleaner = "locking"
    /\ cleaner' = "waiting"
    /\ known' = known \ old
    /\ timestamps' = [ip \in IPs |-> IF ip \in old THEN {} ELSE timestamps[ip]]
    /\ nextTick' = nextTick + CleanupPeriod
    /\ UNCHANGED <<clock, addr, pc, reading, lockedAt, cleanerNow>>

-----------------------------------------------------------------------------
\* Time passes, but nobody waits longer than MaxDelay: not between reading
\* the clock and the lock, and not between a tick and cleanup's clock read.
Tick ==
    /\ clock < MaxClock
    /\ \A q \in Requests : pc[q] = "locking" => clock < reading[q] + MaxDelay
    /\ cleaner = "locking" => clock < cleanerNow + MaxDelay
    /\ cleaner = "waiting" => clock < nextTick + MaxDelay
    /\ clock' = clock + 1
    /\ UNCHANGED <<addr, pc, reading, lockedAt, known, timestamps,
                   cleaner, cleanerNow, nextTick>>

Next ==
    \/ \E q \in Requests :
          ReadClock(q) \/ RejectTableFull(q) \/ RejectOverLimit(q) \/ Admit(q)
    \/ CleanupReadClock \/ Cleanup
    \/ Tick

Spec == Init /\ [][Next]_vars

-----------------------------------------------------------------------------
(* Properties                                                              *)

\* The requests of ip admitted in the last w time units, by the time their
\* critical section ran.
AdmittedWithin(ip, w) ==
    {q \in Requests : /\ pc[q] = "admitted"
                      /\ addr[q] = ip
                      /\ lockedAt[q] + w > clock}

\* Memory stays bounded: at most MaxTracked lists of at most Limit entries,
\* and no list is kept for an address that is not tracked.
TableBounded ==
    /\ Cardinality(known) <= MaxTracked
    /\ \A ip \in IPs : /\ Cardinality(timestamps[ip]) <= Limit
                       /\ ip \notin known => timestamps[ip] = {}

\* Whatever the stale clock readings, prunings and cleanups in between, no
\* address gets more than Limit requests through in a window shortened by the
\* longest wait for the lock.
WindowBound ==
    \A ip \in IPs : Cardinality(AdmittedWithin(ip, Window - MaxDelay)) <= Limit

\* An address that stops being admitted is forgotten after a window, a
\* cleanup period and the waits for the lock: a full table cannot lock new
\* clients out for longer than its members stay active.
IdleIsForgotten ==
    \A ip \in known : \E q \in timestamps[ip] :
        reading[q] + Window + CleanupPeriod + 2 * MaxDelay > clock

-----------------------------------------------------------------------------
(* The inductive invariant behind the four properties above                *)

\* Lists hold admitted requests of their own address, and only for keys.
ListsInv ==
    /\ TableBounded
    /\ \A ip \in IPs : \A p \in timestamps[ip] :
          pc[p] = "admitted" /\ addr[p] = ip

\* A reading is at most MaxDelay older than the critical section it is for.
ReadingInv ==
    \A q \in Requests :
        /\ reading[q] <= clock
        /\ pc[q] = "locking" => clock <= reading[q] + MaxDelay
        /\ pc[q] \in {"admitted", "rejected"} =>
              /\ reading[q] <= lockedAt[q] /\ lockedAt[q] <= clock
              /\ lockedAt[q] <= reading[q] + MaxDelay

\* Cleanup keeps up with the ticker.
CleanerInv ==
    /\ nextTick <= clock + CleanupPeriod
    /\ cleaner = "waiting" => clock <= nextTick + MaxDelay
    /\ cleaner = "locking" => /\ nextTick <= cleanerNow
                              /\ cleanerNow <= nextTick + MaxDelay
                              /\ cleanerNow <= clock
                              /\ clock <= cleanerNow + MaxDelay

\* Nobody's pruning and no cleanup drops a timestamp that is in the window.
HistoryInv ==
    \A q \in Requests :
        (pc[q] = "admitted" /\ reading[q] + Window > clock)
            => q \in timestamps[addr[q]]

\* Every key owes its place to an admission since a window before the last
\* cleanup.
FreshInv ==
    \A ip \in known : \E q \in timestamps[ip] :
        reading[q] + Window + CleanupPeriod > nextTick

IInv == TypeOK /\ ListsInv /\ ReadingInv /\ CleanerInv /\ HistoryInv /\ FreshInv

-----------------------------------------------------------------------------
(* Refinement                                                              *)

Verdict == [q \in Requests |->
              IF pc[q] \in {"admitted", "rejected"} THEN pc[q] ELSE "none"]

Abstract == INSTANCE SlidingWindow WITH
    verdict <- Verdict,
    decidedAt <- lockedAt,
    SureWindow <- Window - MaxDelay,
    MaybeWindow <- Window + MaxDelay,
    TrackWindow <- Window + CleanupPeriod + 2 * MaxDelay

\* Every verdict the code gives is one the abstract limiter allows: admitted
\* only below the limit, refused only when the budget is used up or MaxTracked
\* other clients are tracked.
ImplementsSlidingWindow == Abstract!Spec
=============================================================================
