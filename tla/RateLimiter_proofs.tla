------------------------- MODULE RateLimiter_proofs -------------------------
(***************************************************************************)
(* Proofs about the rate limiter for every set of requests and addresses,  *)
(* every setting and every delay allowed by the assumptions of RateLimiter.*)
(***************************************************************************)
EXTENDS RateLimiter, FiniteSetTheorems, TLAPS

\* Every list and every set of requests is finite, and a set inside another
\* is no larger.
LEMMA SubsetOfRequests ==
    ASSUME NEW S \in SUBSET Requests, NEW T \in SUBSET S
    PROVE  /\ IsFiniteSet(S) /\ Cardinality(S) \in Nat
           /\ IsFiniteSet(T) /\ Cardinality(T) \in Nat
           /\ Cardinality(T) <= Cardinality(S)
<1>1. IsFiniteSet(S)
  BY FS_Subset, RequestsFinite
<1>2. IsFiniteSet(T) /\ Cardinality(T) <= Cardinality(S)
  BY <1>1, FS_Subset
<1>3. QED
  BY <1>1, <1>2, FS_CardinalityType

\* The same for sets of addresses.
LEMMA SubsetOfIPs ==
    ASSUME NEW S \in SUBSET IPs, NEW T \in SUBSET S
    PROVE  /\ IsFiniteSet(S) /\ Cardinality(S) \in Nat
           /\ Cardinality(T) <= Cardinality(S)
<1>1. IsFiniteSet(S)
  BY FS_Subset, AddressesFinite
<1>2. QED
  BY <1>1, FS_Subset, FS_CardinalityType

\* The variables always have values of their types.
THEOREM TypeCorrect == Spec => []TypeOK
<1>1. Init => TypeOK
  BY TimesNatural DEF Init, TypeOK
<1>2. TypeOK /\ [Next]_vars => TypeOK'
  <2> SUFFICES ASSUME TypeOK, [Next]_vars
               PROVE  TypeOK'
    OBVIOUS
  <2> USE DEF TypeOK
  <2>1. ASSUME NEW q \in Requests, ReadClock(q) PROVE TypeOK'
    BY <2>1 DEF ReadClock
  <2>2. ASSUME NEW q \in Requests, RejectTableFull(q) PROVE TypeOK'
    BY <2>2 DEF RejectTableFull, Answer
  <2>3. ASSUME NEW q \in Requests, RejectOverLimit(q) PROVE TypeOK'
    BY <2>3 DEF RejectOverLimit, Answer, StoreList, Valid
  <2>4. ASSUME NEW q \in Requests, Admit(q) PROVE TypeOK'
    BY <2>4 DEF Admit, Answer, StoreList, Valid
  <2>5. CASE CleanupReadClock
    BY <2>5 DEF CleanupReadClock
  <2>6. CASE Cleanup
    BY <2>6, TimesNatural DEF Cleanup, AllOld
  <2>7. CASE Tick
    BY <2>7 DEF Tick
  <2>8. CASE UNCHANGED vars
    BY <2>8 DEF vars
  <2>9. QED
    BY <2>1, <2>2, <2>3, <2>4, <2>5, <2>6, <2>7, <2>8 DEF Next
<1>3. QED
  BY <1>1, <1>2, PTL DEF Spec

-----------------------------------------------------------------------------
\* What one critical section of allow does to the invariant: the request gets
\* its verdict, its own address's list becomes `list`, and nothing else
\* changes.  ListOK says what the three branches must establish of `list`.
ListOK(q, list) ==
    LET ip == addr[q] IN
    /\ list \subseteq timestamps[ip] \cup {q}
    /\ Cardinality(list) <= Limit
    /\ q \in list => pc'[q] = "admitted"
    /\ pc'[q] = "admitted" => q \in list
    /\ Valid(ip, reading[q] - Window) \subseteq list
    /\ \E p \in list : reading[p] + Window + CleanupPeriod > nextTick

\* A critical section that stores such a list preserves the invariant.
LEMMA StoreListPreserves ==
    ASSUME IInv, NEW q \in Requests, NEW list,
           NEW v \in {"admitted", "rejected"},
           HasRoom(addr[q]), Answer(q, v), StoreList(addr[q], list),
           ListOK(q, list)
    PROVE  IInv'
<1> USE DEF IInv, TypeOK, Answer, StoreList
<1>1. TypeOK'
  BY DEF ListOK
<1>2. ListsInv'
  <2>1. Cardinality(known') <= MaxTracked
    <3>1. CASE addr[q] \in known
      <4>1. known' = known
        BY <3>1
      <4>2. QED
        BY <4>1 DEF ListsInv, TableBounded
    <3>2. CASE addr[q] \notin known
      <4>1. IsFiniteSet(known) /\ Cardinality(known) \in Nat
        BY SubsetOfIPs
      <4>2. Cardinality(known') = Cardinality(known) + 1
        BY <4>1, <3>2, FS_AddElement
      <4>3. QED
        BY <4>1, <4>2, <3>2, SettingsPositive DEF HasRoom
    <3>3. QED
      BY <3>1, <3>2
  <2>2. \A ip \in IPs : /\ Cardinality(timestamps'[ip]) <= Limit
                        /\ ip \notin known' => timestamps'[ip] = {}
    BY DEF ListsInv, TableBounded, ListOK
  <2>3. \A ip \in IPs : \A p \in timestamps'[ip] :
            pc'[p] = "admitted" /\ addr'[p] = ip
    BY DEF ListsInv, ListOK
  <2>4. QED
    BY <2>1, <2>2, <2>3 DEF ListsInv, TableBounded
<1>3. ReadingInv'
  BY TimesNatural DEF ReadingInv
<1>4. CleanerInv'
  BY DEF CleanerInv
<1>5. HistoryInv'
  <2> SUFFICES ASSUME NEW p \in Requests, pc'[p] = "admitted",
                      reading[p] + Window > clock
               PROVE  p \in timestamps'[addr[p]]
    BY DEF HistoryInv
  <2>1. CASE p = q
    BY <2>1 DEF ListOK
  <2>2. CASE p # q
    <3>1. p \in timestamps[addr[p]]
      BY <2>2 DEF HistoryInv
    <3>2. reading[p] > reading[q] - Window
      BY TimesNatural DEF ReadingInv
    <3>3. QED
      BY <3>1, <3>2 DEF ListOK, Valid
  <2>3. QED
    BY <2>1, <2>2
<1>6. FreshInv'
  BY DEF FreshInv, ListOK
<1>7. QED
  BY <1>1, <1>2, <1>3, <1>4, <1>5, <1>6

\* The invariant is inductive.
LEMMA Inductive == IInv /\ [Next]_vars => IInv'
<1> SUFFICES ASSUME IInv, [Next]_vars
             PROVE  IInv'
  OBVIOUS
<1> USE DEF IInv
<1>1. ASSUME NEW q \in Requests, ReadClock(q) PROVE IInv'
  BY <1>1, TimesNatural DEF ReadClock, TypeOK, ListsInv, TableBounded,
     ReadingInv, CleanerInv, HistoryInv, FreshInv
<1>2. ASSUME NEW q \in Requests, RejectTableFull(q) PROVE IInv'
  BY <1>2, TimesNatural DEF RejectTableFull, Answer, TypeOK, ListsInv,
     TableBounded, ReadingInv, CleanerInv, HistoryInv, FreshInv
<1>3. ASSUME NEW q \in Requests, RejectOverLimit(q) PROVE IInv'
  <2> DEFINE valid == Valid(addr[q], reading[q] - Window)
  <2>1. valid \subseteq timestamps[addr[q]] /\ valid \subseteq Requests
    BY DEF Valid, TypeOK
  <2>2. Cardinality(valid) \in Nat /\ Cardinality(valid) >= Limit
    BY <1>3, <2>1, SubsetOfRequests DEF RejectOverLimit
  <2>3. Cardinality(valid) <= Limit
    <3>1. /\ Cardinality(timestamps[addr[q]]) <= Limit
          /\ timestamps[addr[q]] \in SUBSET Requests
      BY DEF ListsInv, TableBounded, TypeOK
    <3>2. /\ Cardinality(valid) <= Cardinality(timestamps[addr[q]])
          /\ Cardinality(timestamps[addr[q]]) \in Nat
      BY <2>1, <3>1, SubsetOfRequests
    <3>3. QED
      BY <3>1, <3>2, <2>2, SettingsPositive
  <2>4. PICK x \in valid : TRUE
    BY <2>2, SettingsPositive, FS_EmptySet
  <2>5. \E p \in valid : reading[p] + Window + CleanupPeriod > nextTick
    <3>1. CASE reading[q] + CleanupPeriod >= nextTick
      BY <3>1, <2>1, <2>4, TimesNatural DEF Valid, TypeOK
    <3>2. CASE ~(reading[q] + CleanupPeriod >= nextTick)
      <4>1. addr[q] \in known
        BY <2>1, <2>4 DEF ListsInv, TableBounded, TypeOK
      <4>2. PICK w \in timestamps[addr[q]] :
                reading[w] + Window + CleanupPeriod > nextTick
        BY <4>1 DEF FreshInv
      <4>3. w \in valid
        BY <4>2, <3>2, TimesNatural DEF Valid, TypeOK
      <4>4. QED
        BY <4>2, <4>3
    <3>3. QED
      BY <3>1, <3>2
  <2>6. q \notin valid
    BY <1>3, <2>1 DEF RejectOverLimit, Answer, ListsInv, TypeOK
  <2>7. ListOK(q, valid)
    BY <1>3, <2>1, <2>3, <2>5, <2>6 DEF ListOK, RejectOverLimit, Answer, TypeOK
  <2>8. QED
    BY <1>3, <2>7, StoreListPreserves DEF RejectOverLimit
<1>4. ASSUME NEW q \in Requests, Admit(q) PROVE IInv'
  <2> DEFINE valid == Valid(addr[q], reading[q] - Window)
             list == valid \cup {q}
  <2>1. valid \subseteq timestamps[addr[q]] /\ valid \in SUBSET Requests
    BY DEF Valid, TypeOK
  <2>2. IsFiniteSet(valid) /\ Cardinality(valid) \in Nat
    BY <2>1, SubsetOfRequests
  <2>3. Cardinality(list) <= Limit
    <3> HIDE DEF valid
    <3>1. Cardinality(list) = IF q \in valid THEN Cardinality(valid)
                                             ELSE Cardinality(valid) + 1
      BY <2>2, FS_AddElement
    <3>2. Cardinality(valid) < Limit
      BY <1>4 DEF Admit, valid
    <3>3. QED
      BY <3>1, <3>2, <2>2, SettingsPositive
  <2>4. reading[q] + Window + CleanupPeriod > nextTick
    BY <1>4, TimesNatural, DelayIsShort
       DEF Admit, Answer, ReadingInv, CleanerInv, TypeOK
  <2>5. ListOK(q, list)
    BY <1>4, <2>1, <2>3, <2>4 DEF ListOK, Admit, Answer, TypeOK
  <2>6. QED
    BY <1>4, <2>5, StoreListPreserves DEF Admit
<1>5. CASE CleanupReadClock
  BY <1>5, TimesNatural DEF CleanupReadClock, TypeOK, ListsInv, TableBounded,
     ReadingInv, CleanerInv, HistoryInv, FreshInv
<1>6. CASE Cleanup
  <2> DEFINE old == AllOld(cleanerNow - Window)
  <2> USE <1>6 DEF Cleanup
  <2>1. TypeOK'
    BY TimesNatural DEF TypeOK
  <2>2. ListsInv'
    <3>1. /\ Cardinality(known') <= Cardinality(known)
          /\ Cardinality(known) \in Nat /\ Cardinality(known') \in Nat
      <4>1. known \in SUBSET IPs /\ known' \in SUBSET known
        BY DEF TypeOK
      <4>2. QED
        BY <4>1, SubsetOfIPs
    <3>2. Cardinality(known') <= MaxTracked
      BY <3>1, SettingsPositive DEF ListsInv, TableBounded
    <3>3. \A ip \in IPs : /\ Cardinality(timestamps'[ip]) <= Limit
                          /\ ip \notin known' => timestamps'[ip] = {}
      BY FS_EmptySet, SettingsPositive DEF ListsInv, TableBounded, TypeOK
    <3>4. QED
      BY <3>2, <3>3 DEF ListsInv, TableBounded, TypeOK
  <2>3. ReadingInv'
    BY DEF ReadingInv
  <2>4. CleanerInv'
    BY TimesNatural, DelayIsShort DEF CleanerInv, TypeOK
  <2>5. HistoryInv'
    <3> SUFFICES ASSUME NEW q \in Requests, pc[q] = "admitted",
                        reading[q] + Window > clock
                 PROVE  q \in timestamps'[addr[q]]
      BY DEF HistoryInv
    <3>1. q \in timestamps[addr[q]]
      BY DEF HistoryInv
    <3>2. reading[q] > cleanerNow - Window
      BY TimesNatural DEF CleanerInv, TypeOK
    <3>3. addr[q] \notin old
      BY <3>1, <3>2, TimesNatural DEF AllOld, TypeOK
    <3>4. QED
      BY <3>1, <3>3 DEF TypeOK
  <2>6. FreshInv'
    <3> SUFFICES ASSUME NEW ip \in known, ip \notin old
                 PROVE  \E q \in timestamps'[ip] :
                            reading[q] + Window + CleanupPeriod > nextTick'
      BY DEF FreshInv, TypeOK
    <3>1. PICK q \in timestamps[ip] : ~(reading[q] <= cleanerNow - Window)
      BY DEF AllOld
    <3>2. reading[q] + Window + CleanupPeriod > nextTick + CleanupPeriod
      BY <3>1, TimesNatural DEF CleanerInv, TypeOK
    <3>3. QED
      BY <3>1, <3>2 DEF TypeOK
  <2>7. QED
    BY <2>1, <2>2, <2>3, <2>4, <2>5, <2>6
<1>7. CASE Tick
  BY <1>7, TimesNatural DEF Tick, TypeOK, ListsInv, TableBounded,
     ReadingInv, CleanerInv, HistoryInv, FreshInv
<1>8. CASE UNCHANGED vars
  BY <1>8 DEF vars, TypeOK, ListsInv, TableBounded,
     ReadingInv, CleanerInv, HistoryInv, FreshInv
<1>9. QED
  BY <1>1, <1>2, <1>3, <1>4, <1>5, <1>6, <1>7, <1>8 DEF Next

\* The invariant holds in every reachable state.
THEOREM InvariantHolds == Spec => []IInv
<1>1. Init => IInv
  BY TimesNatural, SettingsPositive, FS_EmptySet
     DEF Init, IInv, TypeOK, ListsInv, TableBounded, ReadingInv, CleanerInv,
         HistoryInv, FreshInv
<1>2. QED
  BY <1>1, Inductive, PTL DEF Spec

\* rl.timestamps never holds more than MaxTracked lists of Limit entries.
THEOREM BoundedMemory == Spec => []TableBounded
<1>1. IInv => TableBounded
  BY DEF IInv, ListsInv
<1>2. QED
  BY <1>1, InvariantHolds, PTL

\* No client exceeds its budget in a window shortened by the longest wait.
THEOREM BudgetRespected == Spec => []WindowBound
<1>1. ASSUME IInv, NEW ip \in IPs
      PROVE  Cardinality(AdmittedWithin(ip, Window - MaxDelay)) <= Limit
  <2> DEFINE recent == AdmittedWithin(ip, Window - MaxDelay)
  <2>1. recent \subseteq timestamps[ip]
    BY <1>1, TimesNatural, DelayIsShort
       DEF AdmittedWithin, IInv, TypeOK, ReadingInv, HistoryInv
  <2>2. timestamps[ip] \in SUBSET Requests /\ Cardinality(timestamps[ip]) <= Limit
    BY <1>1 DEF IInv, TypeOK, ListsInv, TableBounded
  <2>3. /\ Cardinality(recent) <= Cardinality(timestamps[ip])
        /\ Cardinality(recent) \in Nat /\ Cardinality(timestamps[ip]) \in Nat
    <3> HIDE DEF recent
    <3>1. QED
      BY <2>1, <2>2, SubsetOfRequests
  <2>4. QED
    BY <2>2, <2>3, SettingsPositive
<1>2. IInv => WindowBound
  BY <1>1 DEF WindowBound
<1>3. QED
  BY <1>2, InvariantHolds, PTL

\* No idle client keeps its place in the table for longer than a window, a
\* cleanup period and two waits.
THEOREM IdleForgotten == Spec => []IdleIsForgotten
<1>1. IInv => IdleIsForgotten
  BY TimesNatural, DelayIsShort
     DEF IInv, TypeOK, CleanerInv, FreshInv, IdleIsForgotten
<1>2. QED
  BY <1>1, InvariantHolds, PTL

-----------------------------------------------------------------------------
(* The limiter implements the sliding window.                              *)

\* Both modules count with the same operator.
LEMMA SameCardinality == \A S : Abstract!Cardinality(S) = Cardinality(S)
BY DEF Abstract!Cardinality, Cardinality, Abstract!IsFiniteSet, IsFiniteSet

\* The verdict of a critical section, seen by the abstract specification.
LEMMA AnswerIsDecide ==
    ASSUME TypeOK, NEW q \in Requests, NEW v \in {"admitted", "rejected"},
           Answer(q, v)
    PROVE  Abstract!Decide(q, v)
BY DEF TypeOK, Answer, Abstract!Decide, Verdict

\* A full table is explained by MaxTracked other clients that were admitted
\* lately, and it never turns away a client that is being tracked.
LEMMA RefinesTableFull ==
    ASSUME IInv, NEW q \in Requests, RejectTableFull(q)
    PROVE  Abstract!RefuseCrowded(q)
<1> USE DEF IInv, TypeOK
<1>1. Abstract!Recent(addr[q], Window - MaxDelay) = {}
  <2> SUFFICES ASSUME NEW p \in Abstract!Recent(addr[q], Window - MaxDelay)
               PROVE  FALSE
    OBVIOUS
  <2>1. /\ p \in Requests /\ pc[p] = "admitted" /\ addr[p] = addr[q]
        /\ lockedAt[p] + (Window - MaxDelay) > clock
    BY DEF Abstract!Recent, Verdict
  <2>2. p \in timestamps[addr[q]]
    BY <2>1, TimesNatural DEF ReadingInv, HistoryInv
  <2>3. QED
    BY <2>2 DEF RejectTableFull, HasRoom, ListsInv, TableBounded
<1>2. known \in SUBSET (IPs \ {addr[q]}) /\ Cardinality(known) >= MaxTracked
  <2>1. Cardinality(known) \in Nat
    BY SubsetOfIPs
  <2>2. QED
    BY <2>1, SettingsPositive DEF RejectTableFull, HasRoom
<1>3. ASSUME NEW ip \in known
      PROVE  Abstract!Recent(ip, Window + CleanupPeriod + 2 * MaxDelay) # {}
  <2>1. PICK p \in timestamps[ip] : reading[p] + Window + CleanupPeriod > nextTick
    BY DEF FreshInv
  <2>2. p \in Requests /\ pc[p] = "admitted" /\ addr[p] = ip
    BY DEF ListsInv
  <2>3. lockedAt[p] + (Window + CleanupPeriod + 2 * MaxDelay) > clock
    BY <2>1, <2>2, TimesNatural DEF ReadingInv, CleanerInv
  <2>4. QED
    BY <2>2, <2>3 DEF Abstract!Recent, Verdict
<1>4. Abstract!Decide(q, "rejected")
  BY AnswerIsDecide DEF RejectTableFull
<1>5. QED
  BY <1>1, <1>2, <1>3, <1>4, SameCardinality DEF Abstract!RefuseCrowded

\* A refusal over the limit is explained by Limit requests admitted within
\* the window and the wait for the lock.
LEMMA RefinesOverLimit ==
    ASSUME IInv, NEW q \in Requests, RejectOverLimit(q)
    PROVE  Abstract!RefuseBusy(q)
<1> DEFINE valid == Valid(addr[q], reading[q] - Window)
           recent == Abstract!Recent(addr[q], Window + MaxDelay)
<1> USE DEF IInv, TypeOK
<1>1. valid \subseteq recent
  <2> SUFFICES ASSUME NEW p \in valid PROVE p \in recent
    OBVIOUS
  <2>1. /\ p \in Requests /\ pc[p] = "admitted" /\ addr[p] = addr[q]
        /\ reading[p] > reading[q] - Window
    BY DEF Valid, ListsInv
  <2>2. lockedAt[p] + (Window + MaxDelay) > clock
    BY <2>1, TimesNatural DEF ReadingInv, RejectOverLimit, Answer
  <2>3. QED
    BY <2>1, <2>2 DEF Abstract!Recent, Verdict
<1>2. recent \in SUBSET Requests
  BY DEF Abstract!Recent
<1>3. Cardinality(valid) >= Limit
  BY DEF RejectOverLimit
<1>4. Cardinality(recent) >= Limit
  <2> HIDE DEF valid, recent
  <2>1. /\ Cardinality(valid) <= Cardinality(recent)
        /\ Cardinality(valid) \in Nat /\ Cardinality(recent) \in Nat
    BY <1>1, <1>2, SubsetOfRequests
  <2>2. QED
    BY <1>3, <2>1, SettingsPositive
<1>5. Abstract!Decide(q, "rejected")
  BY AnswerIsDecide DEF RejectOverLimit
<1>6. QED
  BY <1>4, <1>5, SameCardinality DEF Abstract!RefuseBusy

\* An admission finds fewer than Limit requests in the shortened window.
LEMMA RefinesAdmit ==
    ASSUME IInv, NEW q \in Requests, Admit(q)
    PROVE  Abstract!Admit(q)
<1> DEFINE valid == Valid(addr[q], reading[q] - Window)
           recent == Abstract!Recent(addr[q], Window - MaxDelay)
<1> USE DEF IInv, TypeOK
<1>1. recent \subseteq valid
  <2> SUFFICES ASSUME NEW p \in recent PROVE p \in valid
    OBVIOUS
  <2>1. /\ p \in Requests /\ pc[p] = "admitted" /\ addr[p] = addr[q]
        /\ lockedAt[p] + (Window - MaxDelay) > clock
    BY DEF Abstract!Recent, Verdict
  <2>2. reading[p] + Window > clock /\ reading[q] <= clock
    BY <2>1, TimesNatural DEF ReadingInv
  <2>3. QED
    BY <2>1, <2>2, TimesNatural DEF HistoryInv, Valid
<1>2. valid \in SUBSET Requests
  BY DEF Valid
<1>3. Cardinality(valid) < Limit
  BY DEF Admit
<1>4. Cardinality(recent) < Limit
  <2> HIDE DEF valid, recent
  <2>1. /\ Cardinality(recent) <= Cardinality(valid)
        /\ Cardinality(valid) \in Nat /\ Cardinality(recent) \in Nat
    BY <1>1, <1>2, SubsetOfRequests
  <2>2. QED
    BY <1>3, <2>1, SettingsPositive
<1>5. Abstract!Decide(q, "admitted")
  BY AnswerIsDecide DEF Admit
<1>6. QED
  BY <1>4, <1>5, SameCardinality DEF Abstract!Admit

\* Every behaviour of the limiter is one of the sliding window: the steps of
\* the cleanup goroutine and the clock readings are invisible to it.
THEOREM RefinesSlidingWindow == Spec => ImplementsSlidingWindow
<1>1. Init => Abstract!Init
  BY DEF Init, Abstract!Init, Verdict
<1>2. IInv /\ [Next]_vars => [Abstract!Next]_Abstract!vars
  <2> SUFFICES ASSUME IInv, [Next]_vars
               PROVE  Abstract!Next \/ UNCHANGED Abstract!vars
    OBVIOUS
  <2>1. ASSUME NEW q \in Requests, ReadClock(q) PROVE UNCHANGED Abstract!vars
    BY <2>1 DEF ReadClock, IInv, TypeOK, Abstract!vars, Verdict
  <2>2. ASSUME NEW q \in Requests, RejectTableFull(q) PROVE Abstract!Next
    BY <2>2, RefinesTableFull DEF Abstract!Next
  <2>3. ASSUME NEW q \in Requests, RejectOverLimit(q) PROVE Abstract!Next
    BY <2>3, RefinesOverLimit DEF Abstract!Next
  <2>4. ASSUME NEW q \in Requests, Admit(q) PROVE Abstract!Next
    BY <2>4, RefinesAdmit DEF Abstract!Next
  <2>5. CASE CleanupReadClock \/ Cleanup \/ UNCHANGED vars
    BY <2>5 DEF CleanupReadClock, Cleanup, vars, Abstract!vars, Verdict
  <2>6. CASE Tick
    BY <2>6 DEF Tick, Abstract!Next, Abstract!Tick, Verdict
  <2>7. QED
    BY <2>1, <2>2, <2>3, <2>4, <2>5, <2>6 DEF Next
<1>3. QED
  BY <1>1, <1>2, InvariantHolds, PTL
     DEF Spec, ImplementsSlidingWindow, Abstract!Spec

=============================================================================
