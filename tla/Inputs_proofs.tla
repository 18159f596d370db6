---------------------------- MODULE Inputs_proofs ----------------------------
(***************************************************************************)
(* Proofs about what the gateway reads, of any length.  A client behind    *)
(* any number of trusted proxies is charged under its own address,         *)
(* whatever header it sent.  The scanners give back the value the NAS      *)
(* wrote and never a shorter one: the loop of a scanner and the NAS agree  *)
(* on nesting and quotes after every byte of the value (ScriptInv).        *)
(***************************************************************************)
EXTENDS Inputs, SequenceTheorems, WellFoundedInduction, TLAPS

\* Once a proxy has been passed, the client's address stands in the header
\* and only proxies stand to its right.
ChainInv ==
    \/ peer = client
    \/ /\ peer \in Trusted
       /\ \E k \in 1 .. Len(header) :
             /\ header[k] = client
             /\ \A j \in 1 .. Len(header) : j > k => header[j] \in Trusted

IInv == AddressTypeOK /\ ChainInv

LEMMA Initially == Init => IInv
  <1> SUFFICES ASSUME Init PROVE IInv
    OBVIOUS
  <1>1. header \in Seq(Parts)
    <2>1. PICK n \in 0 .. MaxForged : header \in [1 .. n -> Parts]
      BY DEF Init, AddressInit
    <2>2. n \in Nat
      BY HeaderNatural DEF HeaderNatural
    <2> QED
      BY <2>1, <2>2, SeqDef
  <1> QED
    BY <1>1 DEF Init, AddressInit, IInv, AddressTypeOK, ChainInv

LEMMA HopStep ==
    ASSUME IInv, Hop
    PROVE  IInv'
  <1>1. header \in Seq(Parts) /\ peer \in Parts
    BY DEF IInv, AddressTypeOK, Parts
  <1>2. header' = Append(header, peer)
    BY DEF Hop
  <1>3. /\ header' \in Seq(Parts)
        /\ Len(header') = Len(header) + 1
        /\ \A i \in 1 .. Len(header) : header'[i] = header[i]
        /\ header'[Len(header) + 1] = peer
    BY <1>1, <1>2, AppendProperties
  <1>4. AddressTypeOK'
    BY <1>3, TrustedAreAddresses DEF IInv, AddressTypeOK, Hop,
                                     TrustedAreAddresses
  <1>5. Len(header) \in Nat
    BY <1>1, LenProperties
  <1>6. client' = client /\ peer' \in Trusted
    BY DEF Hop
  <1>7. CASE peer = client
    <2>1. /\ Len(header) + 1 \in 1 .. Len(header')
          /\ header'[Len(header) + 1] = client'
          /\ \A j \in 1 .. Len(header') : ~(j > Len(header) + 1)
      BY <1>3, <1>5, <1>6, <1>7
    <2> QED
      BY <1>4, <1>6, <2>1 DEF IInv, ChainInv
  <1>8. CASE peer # client
    <2>1. PICK k \in 1 .. Len(header) :
             /\ header[k] = client
             /\ \A j \in 1 .. Len(header) : j > k => header[j] \in Trusted
      BY <1>8 DEF IInv, ChainInv
    <2>2. peer \in Trusted
      BY <1>8 DEF IInv, ChainInv
    <2>3. k \in 1 .. Len(header') /\ header'[k] = client'
      BY <1>3, <1>5, <1>6, <2>1
    <2>4. ASSUME NEW j \in 1 .. Len(header'), j > k
          PROVE  header'[j] \in Trusted
      <3>1. CASE j \in 1 .. Len(header)
        BY <1>3, <2>1, <2>4, <3>1
      <3>2. CASE j = Len(header) + 1
        BY <1>3, <2>2, <3>2
      <3> QED
        BY <1>3, <1>5, <3>1, <3>2
    <2> QED
      BY <1>4, <1>6, <2>3, <2>4 DEF IInv, ChainInv
  <1> QED
    BY <1>7, <1>8

LEMMA EachStep == IInv /\ [Next]_vars => IInv'
  <1> SUFFICES ASSUME IInv, [Next]_vars PROVE IInv'
    OBVIOUS
  <1>1. CASE UNCHANGED addressVars
    BY <1>1 DEF IInv, AddressTypeOK, ChainInv, addressVars
  <1>2. CASE Hop
    BY <1>2, HopStep
  <1> QED
    BY <1>1, <1>2 DEF Next, AddressNext, vars

\* The last untrusted part is what RealIP chooses.
LEMMA LastUntrustedIsChosen ==
    ASSUME NEW parts, Len(parts) \in Nat, NEW k \in 1 .. Len(parts),
           parts[k] \notin Trusted,
           \A j \in 1 .. Len(parts) : j > k => parts[j] \in Trusted,
           NEW remote \in Trusted
    PROVE  RealIP(remote, parts) = parts[k]
  <1> DEFINE untrusted == {i \in 1 .. Len(parts) : ~IsTrusted(parts[i])}
  <1>1. k \in untrusted /\ \A j \in untrusted : j <= k
    BY DEF IsTrusted
  <1>2. untrusted \subseteq Int
    OBVIOUS
  <1> HIDE DEF untrusted
  <1>3. Chosen(untrusted) = k
    <2>1. /\ Chosen(untrusted) \in untrusted
          /\ \A j \in untrusted : j <= Chosen(untrusted)
      BY <1>1, Zenon DEF Chosen
    <2>2. \A c \in Int : c <= k /\ k <= c => c = k
      OBVIOUS
    <2>3. Chosen(untrusted) <= k /\ k <= Chosen(untrusted)
      BY <1>1, <2>1
    <2> QED
      BY <1>2, <2>1, <2>2, <2>3
  <1>4. untrusted # {} /\ IsTrusted(remote)
    BY <1>1 DEF IsTrusted
  <1> QED
    BY <1>3, <1>4 DEF RealIP, untrusted

LEMMA InvFindsClient == IInv => ClientIsFound
  <1> SUFFICES ASSUME IInv, client \notin Trusted
               PROVE  RealIP(peer, header) = client
    BY DEF ClientIsFound
  <1>1. CASE peer = client
    BY <1>1 DEF RealIP, IsTrusted
  <1>2. CASE peer # client
    <2>1. PICK k \in 1 .. Len(header) :
             /\ header[k] = client
             /\ \A j \in 1 .. Len(header) : j > k => header[j] \in Trusted
      BY <1>2 DEF IInv, ChainInv
    <2>2. peer \in Trusted /\ Len(header) \in Nat
      BY <1>2, LenProperties DEF IInv, ChainInv, AddressTypeOK
    <2> QED
      BY <2>1, <2>2, LastUntrustedIsChosen
  <1> QED
    BY <1>1, <1>2

\* For any addresses, any trusted proxies and a header of any length: an
\* untrusted client is charged under its own address.
THEOREM ClientFound == Spec => []ClientIsFound
  BY Initially, EachStep, InvFindsClient, PTL DEF Spec

-----------------------------------------------------------------------------
(* What the scanners compute                                               *)

\* Induction, as a set of numbers.
LEMMA SetInduction ==
  ASSUME NEW S, 0 \in S, \A n \in Nat : n \in S => n + 1 \in S
  PROVE  Nat \subseteq S
  <1> DEFINE R == OpToRel(<, Nat)
  <1> SUFFICES ASSUME Nat \ S # {} PROVE FALSE
    OBVIOUS
  <1>1. IsWellFoundedOn(R, Nat)
    BY NatLessThanWellFounded, Zenon
  <1>2. \A x, y \in Nat : x < y => <<x, y>> \in R
    BY DEF OpToRel
  <1> HIDE DEF R
  <1>3. PICK m \in Nat \ S : \A y \in Nat \ S : ~(<<y, m>> \in R)
    <2>1. Nat \ S \subseteq Nat
      OBVIOUS
    <2> QED
      BY <1>1, <2>1, WFMin, Zenon
  <1>4. m # 0 /\ m - 1 \in Nat /\ m - 1 < m
    BY <1>3
  <1>5. m - 1 \in S
    BY <1>2, <1>3, <1>4
  <1> QED
    BY <1>3, <1>4, <1>5

\* The states of the loop: there is such a function, one byte after the other.
LEMMA ScanStates ==
  ASSUME NEW s, Len(s) \in Nat
  PROVE  /\ Scan(s)[0] = Fresh
         /\ \A i \in 1 .. Len(s) : Scan(s)[i] = After(Scan(s)[i - 1], s[i])
  <1> DEFINE IsScan(f, n) ==
               f = [i \in 0 .. n |->
                      IF i = 0 THEN Fresh ELSE After(f[i - 1], s[i])]
             K == {n \in Nat : \E f : IsScan(f, n)}
  <1>1. 0 \in K
    <2> DEFINE f == [i \in 0 .. 0 |-> Fresh]
    <2>1. IsScan(f, 0)
      OBVIOUS
    <2> QED
      BY <2>1
  <1>2. ASSUME NEW n \in Nat, n \in K
        PROVE  n + 1 \in K
    <2>1. PICK f : IsScan(f, n)
      BY <1>2
    <2> DEFINE g == [i \in 0 .. n + 1 |->
                       IF i = n + 1 THEN After(f[n], s[n + 1]) ELSE f[i]]
    <2>2. \A i \in 0 .. n : g[i] = f[i]
      OBVIOUS
    <2>3. \A i \in 0 .. n + 1 :
             g[i] = IF i = 0 THEN Fresh ELSE After(g[i - 1], s[i])
      <3> TAKE i \in 0 .. n + 1
      <3>1. CASE i = 0
        BY <2>1, <2>2, <3>1
      <3>2. CASE i # 0 /\ i <= n
        <4>1. i \in 0 .. n /\ i - 1 \in 0 .. n
          BY <3>2
        <4>2. f[i] = After(f[i - 1], s[i])
          BY <2>1, <3>2, <4>1
        <4> QED
          BY <2>2, <3>2, <4>1, <4>2
      <3>3. CASE i = n + 1
        <4>1. g[i] = After(f[n], s[n + 1]) /\ g[n] = f[n] /\ i - 1 = n /\ i # 0
          BY <3>3
        <4> HIDE DEF g
        <4> QED
          BY <3>3, <4>1
      <3> QED
        BY <3>1, <3>2, <3>3
    <2>4. IsScan(g, n + 1)
      <3>1. g = [i \in 0 .. n + 1 |-> g[i]]
        OBVIOUS
      <3> HIDE DEF g
      <3> QED
        BY <2>3, <3>1
    <2> HIDE DEF g, IsScan
    <2>5. \E h : IsScan(h, n + 1)
      BY <2>4, Zenon
    <2> QED
      BY <2>5
  <1>3. \E f : IsScan(f, Len(s))
    <2> HIDE DEF K
    <2>1. Len(s) \in K
      BY <1>1, <1>2, SetInduction
    <2> QED
      BY <2>1 DEF K
  <1>4. Scan(s) = CHOOSE f : IsScan(f, Len(s))
    BY DEF Scan
  <1> HIDE DEF IsScan
  <1>5. IsScan(Scan(s), Len(s))
    BY <1>3, <1>4, Zenon
  <1>6. \A i \in 0 .. Len(s) :
           Scan(s)[i] = IF i = 0 THEN Fresh ELSE After(Scan(s)[i - 1], s[i])
    BY <1>5 DEF IsScan
  <1> QED
    BY <1>6

\* What the loop has seen of a text does not depend on what follows.
LEMMA ScanOfPrefix ==
  ASSUME NEW s, Len(s) \in Nat, NEW u, Len(u) \in Nat, Len(s) <= Len(u),
         \A i \in 1 .. Len(s) : s[i] = u[i]
  PROVE  \A i \in 0 .. Len(s) : Scan(s)[i] = Scan(u)[i]
  <1> DEFINE K == {n \in Nat : n <= Len(s) => Scan(s)[n] = Scan(u)[n]}
  <1>1. 0 \in K
    BY ScanStates
  <1>2. ASSUME NEW n \in Nat, n \in K
        PROVE  n + 1 \in K
    <2> SUFFICES ASSUME n + 1 <= Len(s)
                 PROVE  Scan(s)[n + 1] = Scan(u)[n + 1]
      OBVIOUS
    <2>1. Scan(s)[n] = Scan(u)[n]
      BY <1>2
    <2>2. n + 1 \in 1 .. Len(s) /\ n + 1 \in 1 .. Len(u) /\ n + 1 - 1 = n
      OBVIOUS
    <2>3. Scan(s)[n + 1] = After(Scan(s)[n], s[n + 1])
      BY <2>2, ScanStates
    <2>4. Scan(u)[n + 1] = After(Scan(u)[n], u[n + 1])
      BY <2>2, ScanStates
    <2> QED
      BY <2>1, <2>2, <2>3, <2>4
  <1> HIDE DEF K
  <1>3. Nat \subseteq K
    BY <1>1, <1>2, SetInduction
  <1>4. \A i \in 0 .. Len(s) : i \in Nat /\ i <= Len(s)
    OBVIOUS
  <1> QED
    BY <1>3, <1>4 DEF K

\* What the NAS writes is added behind the text; the loop goes on from where it
\* was.
LEMMA TextGrows ==
  ASSUME NEW bytes \in Seq(Bytes), text \in Seq(Bytes), Writes(bytes)
  PROVE  /\ text' \in Seq(Bytes)
         /\ Len(text') = Len(text) + Len(bytes)
         /\ \A i \in 1 .. Len(text) : text'[i] = text[i]
         /\ \A i \in 0 .. Len(text) : Scan(text')[i] = Scan(text)[i]
         /\ \A i \in 1 .. Len(bytes) : text'[Len(text) + i] = bytes[i]
         /\ Len(text') <= MaxText
  <1>1. text' = text \o bytes
    BY DEF Writes
  <1>2. Len(text) \in Nat /\ Len(bytes) \in Nat
    BY LenProperties
  <1>3. /\ text' \in Seq(Bytes)
        /\ Len(text') = Len(text) + Len(bytes)
        /\ \A i \in 1 .. Len(text) + Len(bytes) :
              text'[i] = IF i <= Len(text) THEN text[i] ELSE bytes[i - Len(text)]
    BY <1>1, ConcatProperties
  <1>4. \A i \in 1 .. Len(text) : text[i] = text'[i]
    BY <1>2, <1>3
  <1>5. \A i \in 0 .. Len(text) : Scan(text)[i] = Scan(text')[i]
    <2>1. Len(text') \in Nat /\ Len(text) <= Len(text')
      BY <1>2, <1>3
    <2> DEFINE s == text
               u == text'
    <2>2. Len(s) \in Nat /\ Len(u) \in Nat /\ Len(s) <= Len(u)
          /\ \A i \in 1 .. Len(s) : s[i] = u[i]
      BY <1>2, <1>4, <2>1
    <2> HIDE DEF s, u
    <2>3. \A i \in 0 .. Len(s) : Scan(s)[i] = Scan(u)[i]
      BY <2>2, ScanOfPrefix
    <2> QED
      BY <2>3 DEF s, u
  <1>6. \A i \in 1 .. Len(bytes) : text'[Len(text) + i] = bytes[i]
    <2> TAKE i \in 1 .. Len(bytes)
    <2>1. /\ Len(text) + i \in 1 .. Len(text) + Len(bytes)
          /\ ~(Len(text) + i <= Len(text)) /\ Len(text) + i - Len(text) = i
      BY <1>2
    <2> QED
      BY <1>3, <2>1
  <1>7. Len(text') <= MaxText
    BY <1>3 DEF Writes
  <1> QED
    BY <1>3, <1>4, <1>5, <1>6, <1>7

\* One byte.
LEMMA ByteGrows ==
  ASSUME NEW b \in Bytes, text \in Seq(Bytes), Writes(<<b>>)
  PROVE  /\ text' \in Seq(Bytes)
         /\ Len(text') = Len(text) + 1
         /\ \A i \in 1 .. Len(text) : text'[i] = text[i]
         /\ \A i \in 0 .. Len(text) : Scan(text')[i] = Scan(text)[i]
         /\ text'[Len(text) + 1] = b
         /\ Scan(text')[Len(text) + 1] = After(Scan(text)[Len(text)], b)
         /\ Len(text') <= MaxText
  <1> DEFINE bytes == <<b>>
  <1>1. bytes \in Seq(Bytes) /\ Len(bytes) = 1 /\ bytes[1] = b
    OBVIOUS
  <1>2. Writes(bytes)
    OBVIOUS
  <1> HIDE DEF bytes
  <1>3. /\ text' \in Seq(Bytes)
        /\ Len(text') = Len(text) + 1
        /\ \A i \in 1 .. Len(text) : text'[i] = text[i]
        /\ \A i \in 0 .. Len(text) : Scan(text')[i] = Scan(text)[i]
        /\ text'[Len(text) + 1] = b
        /\ Len(text') <= MaxText
    <2>1. \A i \in 1 .. Len(bytes) : text'[Len(text) + i] = bytes[i]
      BY <1>1, <1>2, TextGrows
    <2>2. text'[Len(text) + 1] = b
      BY <1>1, <2>1
    <2>3. /\ text' \in Seq(Bytes)
          /\ Len(text') = Len(text) + Len(bytes)
          /\ \A i \in 1 .. Len(text) : text'[i] = text[i]
          /\ \A i \in 0 .. Len(text) : Scan(text')[i] = Scan(text)[i]
          /\ Len(text') <= MaxText
      BY <1>1, <1>2, TextGrows
    <2> QED
      BY <1>1, <2>2, <2>3
  <1>4. Len(text) \in Nat
    BY LenProperties
  <1>5. Scan(text')[Len(text) + 1] = After(Scan(text)[Len(text)], b)
    <2> DEFINE u == text'
    <2>1. Len(u) \in Nat /\ Len(text) + 1 \in 1 .. Len(u) /\ u[Len(text) + 1] = b
          /\ Len(text) + 1 - 1 = Len(text)
      BY <1>3, <1>4
    <2>2. Scan(u)[Len(text)] = Scan(text)[Len(text)]
      BY <1>3, <1>4
    <2> HIDE DEF u
    <2>3. Scan(u)[Len(text) + 1] = After(Scan(u)[Len(text)], b)
      BY <2>1, ScanStates
    <2> QED
      BY <2>2, <2>3 DEF u
  <1> QED
    BY <1>3, <1>5

-----------------------------------------------------------------------------
(* What the NAS has written and where the scanners are                     *)

\* Where the loop is after the value, as the NAS knows it.
At == [depth |-> nesting, quote |-> literal, skip |-> FALSE]

\* The i-th byte ends the value for extractReturnValue, or the block for
\* extractBraceBlock.
ReturnEnds(s, i) == Ends(Scan(s)[i - 1], s[i])
BlockEnds(s, i) ==
    /\ s[i] = "close" /\ Scan(s)[i - 1].quote = "none"
    /\ Scan(s)[i].depth = 0

\* An object literal: its last bracket closes it, and none before.
BlockInv ==
    (value > 0 /\ text[1] = "open") =>
        /\ nesting = 0 => literal = "none" /\ BlockEnds(text, value)
        /\ nesting > 0 => ~BlockEnds(text, value)
        /\ \A i \in 1 .. value : i < value => ~BlockEnds(text, i)

ScriptInv ==
    /\ ScriptTypeOK
    /\ Scan(text)[value] = At
    /\ ~closed => Len(text) = value
    /\ closed => /\ nesting = 0 /\ literal = "none"
                 /\ Len(text) > value /\ text[value + 1] = "semicolon"
    /\ \A i \in 1 .. value : ~ReturnEnds(text, i)
    /\ BlockInv

\* What the invariant says of the types.
LEMMA ScriptFacts ==
  ASSUME ScriptInv
  PROVE  /\ text \in Seq(Bytes) /\ Len(text) \in Nat /\ Len(text) <= MaxText
         /\ value \in Nat /\ value <= Len(text)
         /\ nesting \in Nat /\ literal \in Quotes \cup {"none"}
         /\ closed \in BOOLEAN
         /\ Scan(text)[value] = At
         /\ ~closed => Len(text) = value
  <1>1. Len(text) \in Nat
    BY LenProperties DEF ScriptInv, ScriptTypeOK
  <1>2. value \in Nat /\ value <= Len(text) /\ nesting \in Nat
    BY <1>1 DEF ScriptInv, ScriptTypeOK
  <1>3. /\ text \in Seq(Bytes) /\ literal \in Quotes \cup {"none"}
        /\ Len(text) <= MaxText
    BY DEF ScriptInv, ScriptTypeOK
  <1>4. closed \in BOOLEAN
    BY DEF ScriptInv, ScriptTypeOK
  <1>5. Scan(text)[value] = At /\ (~closed => Len(text) = value)
    BY DEF ScriptInv
  <1> QED
    BY <1>1, <1>2, <1>3, <1>4, <1>5

\* Whether the byte behind k ends something.
LEMMA EndsBehind ==
  ASSUME NEW s, NEW k \in Nat, NEW at, NEW c, Scan(s)[k] = at, s[k + 1] = c
  PROVE  /\ ReturnEnds(s, k + 1) <=> Ends(at, c)
         /\ BlockEnds(s, k + 1) <=>
               c = "close" /\ at.quote = "none" /\ Scan(s)[k + 1].depth = 0
  <1>1. k + 1 - 1 = k
    OBVIOUS
  <1>2. Scan(s)[k + 1 - 1] = at
    BY <1>1, Zenon
  <1>3. ReturnEnds(s, k + 1) <=> Ends(at, c)
    BY <1>2 DEF ReturnEnds, Ends
  <1>4. BlockEnds(s, k + 1) <=>
          c = "close" /\ at.quote = "none" /\ Scan(s)[k + 1].depth = 0
    BY <1>2 DEF BlockEnds
  <1> QED
    BY <1>3, <1>4

\* The text up to n decides what ends there.
LEMMA SameEnds ==
  ASSUME NEW s, NEW u, NEW n \in Nat,
         \A i \in 1 .. n : u[i] = s[i],
         \A i \in 0 .. n : Scan(u)[i] = Scan(s)[i]
  PROVE  \A i \in 1 .. n : /\ ReturnEnds(u, i) <=> ReturnEnds(s, i)
                           /\ BlockEnds(u, i) <=> BlockEnds(s, i)
  <1> TAKE i \in 1 .. n
  <1>1. i \in 0 .. n /\ i - 1 \in 0 .. n
    OBVIOUS
  <1> QED
    BY <1>1 DEF ReturnEnds, BlockEnds

\* One more byte of the value, that takes the loop where the NAS is.
LEMMA ByteWritten ==
  ASSUME ScriptInv, ~closed, closed' = closed, NEW b \in Bytes, Writes(<<b>>),
         value' = value + 1, nesting' \in Nat,
         literal' \in Quotes \cup {"none"},
         After(At, b) = At', ~Ends(At, b),
         value = 0 /\ b = "open" => nesting' > 0,
         value > 0 /\ text[1] = "open" =>
            /\ nesting > 0
            /\ nesting' = 0 => /\ literal = "none" /\ literal' = "none"
                               /\ b = "close"
  PROVE  ScriptInv'
  <1>1. /\ text \in Seq(Bytes) /\ value \in Nat /\ Len(text) = value
        /\ Scan(text)[value] = At /\ nesting \in Nat
    BY ScriptFacts
  <1>2. /\ text' \in Seq(Bytes)
        /\ Len(text') = value + 1
        /\ \A i \in 1 .. value : text'[i] = text[i]
        /\ \A i \in 0 .. value : Scan(text')[i] = Scan(text)[i]
        /\ text'[value + 1] = b
        /\ Scan(text')[value + 1] = After(Scan(text)[value], b)
        /\ Len(text') <= MaxText
    BY <1>1, ByteGrows
  <1>3. ScriptTypeOK'
    <2>1. closed' \in BOOLEAN
      BY ScriptFacts
    <2>2. value' \in 0 .. Len(text')
      BY <1>1, <1>2
    <2> QED
      BY <1>2, <2>1, <2>2 DEF ScriptTypeOK
  <1>4. Scan(text')[value'] = At'
    BY <1>1, <1>2
  <1>5. \A i \in 1 .. value : /\ ReturnEnds(text', i) <=> ReturnEnds(text, i)
                              /\ BlockEnds(text', i) <=> BlockEnds(text, i)
    <2> DEFINE u == text'
    <2>1. /\ \A i \in 1 .. value : u[i] = text[i]
          /\ \A i \in 0 .. value : Scan(u)[i] = Scan(text)[i]
      BY <1>2
    <2> HIDE DEF u
    <2>2. \A i \in 1 .. value : /\ ReturnEnds(u, i) <=> ReturnEnds(text, i)
                                /\ BlockEnds(u, i) <=> BlockEnds(text, i)
      BY <1>1, <2>1, SameEnds
    <2> QED
      BY <2>2 DEF u
  <1>6. /\ ReturnEnds(text', value + 1) <=> Ends(At, b)
        /\ BlockEnds(text', value + 1) <=>
              b = "close" /\ At.quote = "none" /\ Scan(text')[value + 1].depth = 0
    <2> DEFINE u == text'
               k == value
               at == At
    <2>1. Scan(u)[k] = at /\ u[k + 1] = b /\ k \in Nat
      BY <1>1, <1>2
    <2> HIDE DEF u, k, at
    <2>2. /\ ReturnEnds(u, k + 1) <=> Ends(at, b)
          /\ BlockEnds(u, k + 1) <=>
                b = "close" /\ at.quote = "none" /\ Scan(u)[k + 1].depth = 0
      BY <2>1, EndsBehind
    <2> QED
      BY <2>2 DEF u, k, at
  <1>7. \A i \in 1 .. value' : ~ReturnEnds(text', i)
    <2>1. ~ReturnEnds(text', value + 1)
      BY <1>6
    <2>2. \A i \in 1 .. value : ~ReturnEnds(text', i)
      BY <1>5 DEF ScriptInv
    <2> QED
      BY <1>1, <2>1, <2>2
  <1>8. BlockInv'
    <2> SUFFICES ASSUME text'[1] = "open"
                 PROVE  /\ nesting' = 0 => literal' = "none" /\ BlockEnds(text', value + 1)
                        /\ nesting' > 0 => ~BlockEnds(text', value + 1)
                        /\ \A i \in 1 .. value + 1 :
                              i < value + 1 => ~BlockEnds(text', i)
      BY DEF BlockInv
    <2>1. BlockEnds(text', value + 1) <=>
             b = "close" /\ literal = "none" /\ nesting' = 0
      <3>1. At.quote = literal /\ (At').depth = nesting'
        BY DEF At
      <3>2. Scan(text')[value + 1] = At'
        BY <1>2, <1>1
      <3> HIDE DEF At
      <3> QED
        BY <1>6, <3>1, <3>2
    <2>2. CASE value = 0
      <3>1. b = "open" /\ nesting' > 0
        BY <1>2, <2>2
      <3> QED
        BY <2>1, <2>2, <3>1
    <2>3. CASE value > 0
      <3>1. text[1] = "open"
        BY <1>1, <1>2, <2>3
      <3>2. nesting > 0
        BY <2>3, <3>1
      <3>3. \A i \in 1 .. value : ~BlockEnds(text, i)
        <4>1. ~BlockEnds(text, value) /\ \A i \in 1 .. value : i < value => ~BlockEnds(text, i)
          BY <2>3, <3>1, <3>2 DEF ScriptInv, BlockInv
        <4> QED
          BY <1>1, <4>1
      <3>4. \A i \in 1 .. value + 1 : i < value + 1 => ~BlockEnds(text', i)
        <4>1. \A i \in 1 .. value : ~BlockEnds(text', i)
          BY <1>5, <3>3
        <4> QED
          BY <1>1, <4>1
      <3>5. nesting' = 0 => literal' = "none" /\ literal = "none" /\ b = "close"
        BY <2>3, <3>1
      <3> QED
        BY <1>1, <2>1, <3>4, <3>5
    <2> QED
      BY <1>1, <2>2, <2>3
  <1>9. (~closed => Len(text) = value)' /\ ~closed'
    BY <1>2
  <1> QED
    BY <1>3, <1>4, <1>7, <1>8, <1>9 DEF ScriptInv

\* A byte behind the value: the loop is past the end it is to find.
LEMMA RestWritten ==
  ASSUME ScriptInv, NEW b \in Bytes, Writes(<<b>>), closed' = TRUE,
         ~closed => b = "semicolon" /\ nesting = 0 /\ literal = "none",
         UNCHANGED <<nesting, literal, value>>
  PROVE  ScriptInv'
  <1>1. /\ text \in Seq(Bytes) /\ value \in 0 .. Len(text) /\ Len(text) \in Nat
        /\ Scan(text)[value] = At /\ nesting \in Nat
        /\ literal \in Quotes \cup {"none"}
    BY ScriptFacts
  <1>2. /\ text' \in Seq(Bytes)
        /\ Len(text') = Len(text) + 1
        /\ \A i \in 1 .. Len(text) : text'[i] = text[i]
        /\ \A i \in 0 .. Len(text) : Scan(text')[i] = Scan(text)[i]
        /\ text'[Len(text) + 1] = b
        /\ Len(text') <= MaxText
    BY <1>1, ByteGrows
  <1>3. ScriptTypeOK'
    <2>1. value' \in 0 .. Len(text')
      BY <1>1, <1>2
    <2> QED
      BY <1>1, <1>2, <2>1 DEF ScriptTypeOK
  <1>4. Scan(text')[value'] = At'
    BY <1>1, <1>2 DEF At
  <1>5. \A i \in 1 .. Len(text) : /\ ReturnEnds(text', i) <=> ReturnEnds(text, i)
                                  /\ BlockEnds(text', i) <=> BlockEnds(text, i)
    <2> DEFINE u == text'
    <2>1. /\ \A i \in 1 .. Len(text) : u[i] = text[i]
          /\ \A i \in 0 .. Len(text) : Scan(u)[i] = Scan(text)[i]
      BY <1>2
    <2> HIDE DEF u
    <2>2. \A i \in 1 .. Len(text) : /\ ReturnEnds(u, i) <=> ReturnEnds(text, i)
                                    /\ BlockEnds(u, i) <=> BlockEnds(text, i)
      BY <1>1, <2>1, SameEnds
    <2> QED
      BY <2>2 DEF u
  <1>6. \A i \in 1 .. value' : ~ReturnEnds(text', i)
    BY <1>1, <1>5 DEF ScriptInv
  <1>7. BlockInv'
    <2> SUFFICES ASSUME value > 0, text'[1] = "open"
                 PROVE  /\ nesting = 0 => literal = "none" /\ BlockEnds(text', value)
                        /\ nesting > 0 => ~BlockEnds(text', value)
                        /\ \A i \in 1 .. value :
                              i < value => ~BlockEnds(text', i)
      BY DEF BlockInv
    <2>1. text[1] = "open" /\ value \in 1 .. Len(text)
      BY <1>1, <1>2
    <2>2. /\ nesting = 0 => literal = "none" /\ BlockEnds(text, value)
          /\ nesting > 0 => ~BlockEnds(text, value)
          /\ \A i \in 1 .. value : i < value => ~BlockEnds(text, i)
      BY <2>1 DEF ScriptInv, BlockInv
    <2> QED
      BY <1>1, <1>5, <2>1, <2>2
  <1>8. /\ nesting' = 0 /\ literal' = "none"
        /\ Len(text') > value' /\ text'[value' + 1] = "semicolon"
    <2>1. CASE closed
      <3>1. nesting = 0 /\ literal = "none" /\ Len(text) > value /\ text[value + 1] = "semicolon"
        BY <2>1 DEF ScriptInv
      <3> QED
        BY <1>1, <1>2, <3>1
    <2>2. CASE ~closed
      BY <1>1, <1>2, <2>2 DEF ScriptInv
    <2> QED
      BY <2>1, <2>2
  <1> QED
    BY <1>3, <1>4, <1>6, <1>7, <1>8 DEF ScriptInv

\* A byte takes the loop where it takes the NAS.
LEMMA AfterByte ==
  ASSUME nesting \in Nat, literal \in Quotes \cup {"none"}, NEW c \in Bytes,
         literal # "none" => /\ c # "backslash" /\ nesting' = nesting
                             /\ literal' = IF c = literal THEN "none" ELSE literal,
         literal = "none" =>
            /\ literal' = IF c \in Quotes THEN c ELSE "none"
            /\ nesting' = IF c = "open" THEN nesting + 1
                          ELSE IF c = "close" THEN nesting - 1 ELSE nesting
  PROVE  After(At, c) = At'
  <1>1. CASE literal # "none"
    <2>1. CASE c = literal
      BY <1>1, <2>1 DEF After, At, Quotes
    <2>2. CASE c # literal
      BY <1>1, <2>2 DEF After, At, Quotes
    <2> QED
      BY <2>1, <2>2
  <1>2. CASE literal = "none"
    <2>1. CASE c \in Quotes
      BY <1>2, <2>1 DEF After, At, Quotes
    <2>2. CASE c = "open"
      BY <1>2, <2>2 DEF After, At, Quotes
    <2>3. CASE c = "close"
      BY <1>2, <2>3 DEF After, At, Quotes
    <2>4. CASE c \notin Quotes \cup {"open", "close"}
      BY <1>2, <2>4 DEF After, At, Quotes
    <2> QED
      BY <2>1, <2>2, <2>3, <2>4
  <1> QED
    BY <1>1, <1>2

\* A backslash in a string and the byte after it leave the loop where it was.
LEMMA AfterEscape ==
  ASSUME NEW d, NEW q \in Quotes, NEW c
  PROVE  LET at == [depth |-> d, quote |-> q, skip |-> FALSE]
             skipping == [depth |-> d, quote |-> q, skip |-> TRUE]
         IN  After(at, "backslash") = skipping /\ After(skipping, c) = at
  BY DEF After, Quotes

\* The loop at the byte behind k.
LEMMA ScanMoves ==
  ASSUME NEW s, Len(s) \in Nat, NEW k \in Nat, k + 1 <= Len(s)
  PROVE  Scan(s)[k + 1] = After(Scan(s)[k], s[k + 1])
  <1>1. k + 1 \in 1 .. Len(s) /\ k + 1 - 1 = k
    OBVIOUS
  <1>2. Scan(s)[k + 1] = After(Scan(s)[k + 1 - 1], s[k + 1])
    BY <1>1, ScanStates
  <1> QED
    BY <1>1, <1>2

\* Two bytes, an escape.
LEMMA EscapeGrows ==
  ASSUME NEW b \in Bytes, text \in Seq(Bytes), Writes(<<"backslash", b>>)
  PROVE  /\ text' \in Seq(Bytes)
         /\ Len(text') = Len(text) + 2
         /\ \A i \in 1 .. Len(text) : text'[i] = text[i]
         /\ \A i \in 0 .. Len(text) : Scan(text')[i] = Scan(text)[i]
         /\ text'[Len(text) + 1] = "backslash" /\ text'[Len(text) + 2] = b
         /\ Scan(text')[Len(text) + 1] = After(Scan(text)[Len(text)], "backslash")
         /\ Scan(text')[Len(text) + 2] = After(Scan(text')[Len(text) + 1], b)
         /\ Len(text') <= MaxText
  <1> DEFINE bytes == <<"backslash", b>>
             u == text'
             n == Len(text)
  <1>1. /\ bytes \in Seq(Bytes) /\ Len(bytes) = 2
        /\ bytes[1] = "backslash" /\ bytes[2] = b
    BY DEF Bytes
  <1>2. Writes(bytes)
    OBVIOUS
  <1> HIDE DEF bytes
  <1>3. \A i \in 1 .. Len(bytes) : text'[Len(text) + i] = bytes[i]
    BY <1>1, <1>2, TextGrows
  <1>4. /\ text' \in Seq(Bytes)
        /\ Len(text') = Len(text) + Len(bytes)
        /\ \A i \in 1 .. Len(text) : text'[i] = text[i]
        /\ \A i \in 0 .. Len(text) : Scan(text')[i] = Scan(text)[i]
        /\ Len(text') <= MaxText
    BY <1>1, <1>2, TextGrows
  <1>5. text'[Len(text) + 1] = "backslash" /\ text'[Len(text) + 2] = b
    BY <1>1, <1>3
  <1>6. n \in Nat
    BY LenProperties
  <1>7. /\ Len(u) \in Nat /\ n + 1 \in 1 .. Len(u) /\ n + 2 \in 1 .. Len(u)
        /\ n + 1 - 1 = n /\ n + 2 - 1 = n + 1
        /\ Scan(u)[n] = Scan(text)[n]
        /\ u[n + 1] = "backslash" /\ u[n + 2] = b
    BY <1>1, <1>4, <1>5, <1>6
  <1> HIDE DEF u, n
  <1>8. /\ Scan(u)[n + 1] = After(Scan(u)[n], "backslash")
        /\ Scan(u)[n + 2] = After(Scan(u)[n + 1], b)
    <2>1. Scan(u)[n + 1] = After(Scan(u)[n], u[n + 1])
      BY <1>6, <1>7, ScanMoves
    <2> DEFINE k == n + 1
    <2>2. k \in Nat /\ k + 1 <= Len(u) /\ Len(u) \in Nat /\ k + 1 = n + 2
      BY <1>6, <1>7
    <2> HIDE DEF k
    <2>3. Scan(u)[k + 1] = After(Scan(u)[k], u[k + 1])
      BY <2>2, ScanMoves
    <2>4. Scan(u)[n + 2] = After(Scan(u)[n + 1], u[n + 2])
      BY <2>2, <2>3 DEF k
    <2> QED
      BY <1>7, <2>1, <2>4
  <1>9. /\ Scan(text')[Len(text) + 1] = After(Scan(text)[Len(text)], "backslash")
        /\ Scan(text')[Len(text) + 2] = After(Scan(text')[Len(text) + 1], b)
    BY <1>7, <1>8 DEF u, n
  <1> QED
    BY <1>1, <1>4, <1>5, <1>9

LEMMA EscapeWritten ==
  ASSUME ScriptInv, ~closed, closed' = closed, literal \in Quotes,
         NEW b \in Bytes, Writes(<<"backslash", b>>), value' = value + 2,
         UNCHANGED <<nesting, literal>>
  PROVE  ScriptInv'
  <1> DEFINE skipping == [depth |-> nesting, quote |-> literal, skip |-> TRUE]
  <1>1. /\ text \in Seq(Bytes) /\ value \in Nat /\ Len(text) = value
        /\ Scan(text)[value] = At /\ nesting \in Nat
    BY ScriptFacts
  <1>2. /\ text' \in Seq(Bytes)
        /\ Len(text') = value + 2
        /\ \A i \in 1 .. value : text'[i] = text[i]
        /\ \A i \in 0 .. value : Scan(text')[i] = Scan(text)[i]
        /\ text'[value + 1] = "backslash" /\ text'[value + 2] = b
        /\ Scan(text')[value + 1] = After(Scan(text)[value], "backslash")
        /\ Scan(text')[value + 2] = After(Scan(text')[value + 1], b)
        /\ Len(text') <= MaxText
    BY <1>1, EscapeGrows
  <1>3. After(At, "backslash") = skipping /\ After(skipping, b) = At
    BY AfterEscape DEF At
  <1>4. /\ Scan(text')[value] = At
        /\ Scan(text')[value + 1] = skipping
        /\ Scan(text')[value + 2] = At
    <2> HIDE DEF skipping
    <2>1. Scan(text')[value] = At
      BY <1>1, <1>2
    <2>2. Scan(text')[value + 1] = skipping
      BY <1>1, <1>2, <1>3
    <2>3. Scan(text')[value + 2] = At
      BY <1>2, <1>3, <2>2
    <2> QED
      BY <2>1, <2>2, <2>3
  <1>5. ScriptTypeOK'
    <2>1. closed' \in BOOLEAN
      BY ScriptFacts
    <2>2. value' \in 0 .. Len(text')
      BY <1>1, <1>2
    <2> QED
      BY <1>1, <1>2, <2>1, <2>2 DEF ScriptTypeOK
  <1>6. Scan(text')[value'] = At'
    BY <1>4 DEF At
  <1>7. \A i \in 1 .. value : /\ ReturnEnds(text', i) <=> ReturnEnds(text, i)
                              /\ BlockEnds(text', i) <=> BlockEnds(text, i)
    <2> DEFINE u == text'
    <2>1. /\ \A i \in 1 .. value : u[i] = text[i]
          /\ \A i \in 0 .. value : Scan(u)[i] = Scan(text)[i]
      BY <1>2
    <2> HIDE DEF u
    <2>2. \A i \in 1 .. value : /\ ReturnEnds(u, i) <=> ReturnEnds(text, i)
                                /\ BlockEnds(u, i) <=> BlockEnds(text, i)
      BY <1>1, <2>1, SameEnds
    <2> QED
      BY <2>2 DEF u
  <1>8. /\ ~ReturnEnds(text', value + 1) /\ ~BlockEnds(text', value + 1)
        /\ ~ReturnEnds(text', value + 2) /\ ~BlockEnds(text', value + 2)
    <2> DEFINE u == text'
               k == value
               l == value + 1
               at == At
    <2>1. /\ Scan(u)[k] = at /\ u[k + 1] = "backslash" /\ k \in Nat
          /\ Scan(u)[l] = skipping /\ u[l + 1] = b /\ l \in Nat
      BY <1>1, <1>2, <1>4
    <2>2. at.quote # "none" /\ skipping.quote # "none"
      BY DEF At, Quotes
    <2> HIDE DEF u, k, l, at, skipping
    <2>3. ~ReturnEnds(u, k + 1) /\ ~BlockEnds(u, k + 1)
      BY <2>1, <2>2, EndsBehind DEF Ends
    <2>4. ~ReturnEnds(u, l + 1) /\ ~BlockEnds(u, l + 1)
      BY <2>1, <2>2, EndsBehind DEF Ends
    <2>5. l + 1 = value + 2
      BY <1>1 DEF l
    <2> QED
      BY <2>3, <2>4, <2>5 DEF u, k
  <1>9. \A i \in 1 .. value' : ~ReturnEnds(text', i)
    <2>1. \A i \in 1 .. value : ~ReturnEnds(text', i)
      BY <1>7 DEF ScriptInv
    <2>2. \A i \in 1 .. value + 2 : i \in 1 .. value \/ i = value + 1 \/ i = value + 2
      BY <1>1
    <2> QED
      BY <1>8, <2>1, <2>2
  <1>10. BlockInv'
    <2> SUFFICES ASSUME text'[1] = "open"
                 PROVE  nesting > 0 /\ \A i \in 1 .. value + 2 : ~BlockEnds(text', i)
      BY <1>1 DEF BlockInv
    <2>1. CASE value = 0
      BY <1>2, <2>1
    <2>2. CASE value > 0
      <3>1. text[1] = "open"
        BY <1>1, <1>2, <2>2
      <3>2. nesting > 0 /\ \A i \in 1 .. value : ~BlockEnds(text, i)
        <4>1. /\ nesting = 0 => literal = "none"
              /\ nesting > 0 => ~BlockEnds(text, value)
              /\ \A i \in 1 .. value : i < value => ~BlockEnds(text, i)
          BY <2>2, <3>1 DEF ScriptInv, BlockInv
        <4> QED
          BY <1>1, <4>1 DEF Quotes
      <3>3. \A i \in 1 .. value : ~BlockEnds(text', i)
        BY <1>7, <3>2
      <3>4. \A i \in 1 .. value + 2 : i \in 1 .. value \/ i = value + 1 \/ i = value + 2
        BY <1>1
      <3> QED
        BY <1>8, <3>2, <3>3, <3>4
    <2> QED
      BY <1>1, <2>1, <2>2
  <1>11. (~closed => Len(text) = value)' /\ ~closed'
    BY <1>2
  <1> QED
    BY <1>5, <1>6, <1>9, <1>10, <1>11 DEF ScriptInv

-----------------------------------------------------------------------------
(* The steps of the NAS                                                    *)

LEMMA ScriptInitially == ScriptInit => ScriptInv
  <1> SUFFICES ASSUME ScriptInit PROVE ScriptInv
    OBVIOUS
  <1>1. /\ text = <<>> /\ nesting = 0 /\ literal = "none" /\ value = 0
        /\ closed = FALSE /\ Len(text) = 0
    BY DEF ScriptInit
  <1>2. ScriptTypeOK
    <2>1. text \in Seq(Bytes)
      BY <1>1
    <2>2. closed \in BOOLEAN
      BY <1>1
    <2> QED
      BY <1>1, <2>1, <2>2, MaxTextNatural DEF ScriptTypeOK, MaxTextNatural
  <1>3. Scan(text)[value] = At
    <2>1. Scan(text)[0] = Fresh
      BY <1>1, ScanStates
    <2> QED
      BY <1>1, <2>1 DEF Fresh, At
  <1>4. BlockInv
    BY <1>1 DEF BlockInv
  <1>5. \A i \in 1 .. value : ~ReturnEnds(text, i)
    BY <1>1
  <1>6. ~closed /\ (~closed => Len(text) = value)
    BY <1>1
  <1> QED
    BY <1>2, <1>3, <1>4, <1>5, <1>6 DEF ScriptInv

\* Outside strings, inside brackets or at the beginning.
LEMMA OutsideWritten ==
  ASSUME ScriptInv, Outside, closed' = closed, NEW b \in Bytes, Writes(<<b>>),
         value' = value + 1, nesting' \in Nat,
         literal' \in Quotes \cup {"none"},
         After(At, b) = At', ~Ends(At, b),
         b = "open" => nesting' > 0,
         nesting > 0 /\ nesting' = 0 => b = "close" /\ literal' = "none"
  PROVE  ScriptInv'
  <1>1. ~closed /\ literal = "none"
    BY DEF Outside
  <1>2. value > 0 /\ text[1] = "open" =>
            /\ nesting > 0
            /\ nesting' = 0 => /\ literal = "none" /\ literal' = "none"
                               /\ b = "close"
    BY ScriptFacts DEF Outside
  <1> QED
    BY <1>1, <1>2, ByteWritten

LEMMA ScriptStepKeeps ==
  ASSUME ScriptInv, ScriptNext
  PROVE  ScriptInv'
  <1>1. /\ nesting \in Nat /\ literal \in Quotes \cup {"none"} /\ value \in Nat
    BY ScriptFacts
  <1>2. /\ "x" \in Bytes /\ "semicolon" \in Bytes /\ "open" \in Bytes
        /\ "close" \in Bytes /\ Quotes \subseteq Bytes
    BY DEF Bytes
  <1>3. CASE Plain
    <2>1. PICK b \in {"x", "semicolon"} :
             Writes(<<b>>) /\ (b = "semicolon" => nesting > 0)
      BY <1>3 DEF Plain
    <2>2. /\ Outside /\ literal = "none"
          /\ value' = value + 1 /\ UNCHANGED <<nesting, literal, closed>>
      BY <1>3 DEF Plain, Outside
    <2>3. After(At, b) = At'
      BY <1>1, <1>2, <2>1, <2>2, AfterByte DEF Quotes
    <2>4. ~Ends(At, b)
      BY <1>1, <2>1 DEF Ends, At
    <2>5. b \in Bytes /\ b # "open" /\ nesting' = nesting
      BY <1>2, <2>1, <2>2
    <2> QED
      BY <1>1, <2>1, <2>2, <2>3, <2>4, <2>5, OutsideWritten
  <1>4. CASE Open
    <2>1. /\ Outside /\ literal = "none" /\ Writes(<<"open">>)
          /\ nesting' = nesting + 1 /\ value' = value + 1
          /\ UNCHANGED <<literal, closed>>
      BY <1>4 DEF Open, Outside
    <2>2. After(At, "open") = At'
      BY <1>1, <1>2, <2>1, AfterByte DEF Quotes
    <2>3. ~Ends(At, "open")
      BY DEF Ends
    <2>4. nesting' \in Nat /\ nesting' > 0 /\ literal' \in Quotes \cup {"none"}
      BY <1>1, <2>1
    <2> QED
      BY <1>2, <2>1, <2>2, <2>3, <2>4, OutsideWritten
  <1>5. CASE Close
    <2>1. /\ Outside /\ literal = "none" /\ Writes(<<"close">>) /\ nesting > 0
          /\ nesting' = nesting - 1 /\ value' = value + 1
          /\ UNCHANGED <<literal, closed>>
      BY <1>5 DEF Close, Outside
    <2>2. After(At, "close") = At'
      BY <1>1, <1>2, <2>1, AfterByte DEF Quotes
    <2>3. ~Ends(At, "close")
      BY DEF Ends
    <2>4. nesting' \in Nat /\ literal' \in Quotes \cup {"none"} /\ literal' = "none"
      BY <1>1, <2>1
    <2> QED
      BY <1>2, <2>1, <2>2, <2>3, <2>4, OutsideWritten
  <1>6. CASE OpenString
    <2>1. PICK q \in Quotes : Writes(<<q>>) /\ literal' = q
      BY <1>6 DEF OpenString
    <2>2. /\ Outside /\ literal = "none"
          /\ value' = value + 1 /\ UNCHANGED <<nesting, closed>>
      BY <1>6 DEF OpenString, Outside
    <2>3. After(At, q) = At'
      BY <1>1, <1>2, <2>1, <2>2, AfterByte DEF Quotes
    <2>4. q # "open" /\ q # "close" /\ q # "semicolon" /\ q # "none"
      BY DEF Quotes
    <2>5. ~Ends(At, q)
      BY <2>4 DEF Ends
    <2>6. q \in Bytes /\ nesting' \in Nat /\ literal' \in Quotes \cup {"none"}
      BY <1>1, <1>2, <2>1, <2>2
    <2> QED
      BY <2>1, <2>2, <2>3, <2>4, <2>5, <2>6, OutsideWritten
  <1>7. CASE InString
    <2>1. /\ ~closed /\ literal \in Quotes
          /\ UNCHANGED <<nesting, literal, closed>>
      BY <1>1, <1>7 DEF InString
    <2>2. ASSUME NEW b \in Bytes \ {literal, "backslash"}, Writes(<<b>>),
                 value' = value + 1
          PROVE  ScriptInv'
      <3>1. b # "backslash" /\ b # literal /\ literal # "none" /\ b \in Bytes
        BY <2>1 DEF Quotes
      <3>2. After(At, b) = At'
        BY <1>1, <2>1, <3>1, AfterByte
      <3>3. ~Ends(At, b)
        BY <2>1 DEF Ends, At, Quotes
      <3>4. value > 0 /\ text[1] = "open" => nesting > 0
        BY <1>1, <2>1 DEF ScriptInv, BlockInv, Quotes
      <3>5. value # 0
        <4> SUFFICES ASSUME value = 0 PROVE FALSE
          OBVIOUS
        <4>1. Len(text) \in Nat /\ Scan(text)[0] = At
          BY ScriptFacts
        <4>2. Scan(text)[0] = Fresh
          BY <4>1, ScanStates
        <4> QED
          BY <2>1, <4>1, <4>2 DEF Fresh, At, Quotes
      <3>6. /\ nesting' \in Nat /\ literal' \in Quotes \cup {"none"}
            /\ nesting' = nesting /\ closed' = closed /\ b \in Bytes
        BY <1>1, <2>1
      <3> QED
        BY <2>1, <2>2, <3>2, <3>3, <3>4, <3>5, <3>6, ByteWritten
    <2>3. ASSUME NEW b \in Quotes \cup {"backslash", "x"},
                 Writes(<<"backslash", b>>), value' = value + 2
          PROVE  ScriptInv'
      <3>1. b \in Bytes
        BY DEF Bytes
      <3> QED
        BY <2>1, <2>3, <3>1, EscapeWritten
    <2> QED
      BY <1>7, <2>2, <2>3 DEF InString
  <1>8. CASE CloseString
    <2>1. /\ ~closed /\ literal \in Quotes /\ Writes(<<literal>>)
          /\ literal' = "none" /\ value' = value + 1
          /\ UNCHANGED <<nesting, closed>>
      BY <1>1, <1>8 DEF CloseString
    <2>2. /\ literal # "none" /\ literal # "open" /\ literal \in Bytes
          /\ literal # "semicolon" /\ literal # "backslash"
      BY <1>2, <2>1 DEF Quotes
    <2>3. After(At, literal) = At'
      BY <1>1, <2>1, <2>2, AfterByte
    <2>4. ~Ends(At, literal)
      BY <2>2 DEF Ends, At
    <2>5. value > 0 /\ text[1] = "open" => nesting > 0
      BY <1>1, <2>2 DEF ScriptInv, BlockInv
    <2>6. nesting' = nesting /\ nesting' \in Nat /\ literal' \in Quotes \cup {"none"}
      BY <1>1, <2>1
    <2> QED
      BY <2>1, <2>2, <2>3, <2>4, <2>5, <2>6, ByteWritten
  <1>9. CASE EndValue
    <2>1. /\ Writes(<<"semicolon">>) /\ closed' = TRUE
          /\ nesting = 0 /\ literal = "none"
          /\ UNCHANGED <<nesting, literal, value>>
      BY <1>9 DEF EndValue
    <2> QED
      BY <1>2, <2>1, RestWritten
  <1>10. CASE Follow
    <2>1. PICK b \in Bytes : Writes(<<b>>)
      BY <1>10 DEF Follow
    <2>2. closed /\ closed' = TRUE /\ UNCHANGED <<nesting, literal, value>>
      BY <1>10 DEF Follow
    <2> QED
      BY <2>1, <2>2, RestWritten
  <1> QED
    BY <1>3, <1>4, <1>5, <1>6, <1>7, <1>8, <1>9, <1>10 DEF ScriptNext

-----------------------------------------------------------------------------
(* What the scanners give back                                             *)

\* The first of some places, if there is none before it.
LEMMA FirstIs ==
  ASSUME NEW places \in SUBSET Int, NEW k \in places,
         \A i \in places : k <= i
  PROVE  First(places) = k
  <1>1. /\ First(places) \in places
        /\ \A i \in places : First(places) <= i
    BY Zenon DEF First
  <1> DEFINE first == First(places)
  <1>2. first \in Int /\ k \in Int /\ first <= k /\ k <= first
    BY <1>1
  <1> HIDE DEF first
  <1>3. first = k
    BY <1>2
  <1> QED
    BY <1>3 DEF first

LEMMA InvGivesValue == ScriptInv => ValueComesBack
  <1> SUFFICES ASSUME ScriptInv, closed
               PROVE  /\ ExtractReturnValue(text) = Written
                      /\ (value > 0 /\ text[1] = "open") =>
                            ExtractBraceBlock(text) = Written
    BY DEF ValueComesBack
  <1>1. /\ value \in Nat /\ Len(text) \in Nat /\ Scan(text)[value] = At
        /\ nesting = 0 /\ literal = "none" /\ Len(text) > value
        /\ text[value + 1] = "semicolon"
        /\ \A i \in 1 .. value : ~ReturnEnds(text, i)
    BY ScriptFacts DEF ScriptInv
  <1>2. ExtractReturnValue(text) = Written
    <2> DEFINE ends == {i \in 1 .. Len(text) : Ends(Scan(text)[i - 1], text[i])}
    <2>1. value + 1 \in ends
      <3>1. Ends(At, "semicolon")
        BY <1>1 DEF Ends, At
      <3>2. ReturnEnds(text, value + 1)
        BY <1>1, <3>1, EndsBehind
      <3> QED
        BY <1>1, <3>2 DEF ReturnEnds
    <2>2. \A i \in ends : value + 1 <= i
      <3> TAKE i \in ends
      <3>1. i \in 1 .. Len(text) /\ ReturnEnds(text, i)
        BY DEF ReturnEnds
      <3> QED
        BY <1>1, <3>1
    <2>3. ExtractReturnValue(text) =
            IF ends = {} THEN Unterminated ELSE SubSeq(text, 1, First(ends) - 1)
      BY DEF ExtractReturnValue
    <2>4. ends \in SUBSET Int
      OBVIOUS
    <2> HIDE DEF ends
    <2>5. First(ends) = value + 1
      BY <2>1, <2>2, <2>4, FirstIs
    <2>6. First(ends) - 1 = value /\ ends # {}
      BY <1>1, <2>1, <2>5
    <2> QED
      BY <2>3, <2>6 DEF Written
  <1>3. ASSUME value > 0, text[1] = "open"
        PROVE  ExtractBraceBlock(text) = Written
    <2> DEFINE ends == {i \in 1 .. Len(text) :
                          /\ text[i] = "close" /\ Scan(text)[i - 1].quote = "none"
                          /\ Scan(text)[i].depth = 0}
    <2>1. ends = {i \in 1 .. Len(text) : BlockEnds(text, i)}
      BY DEF BlockEnds
    <2>2. /\ BlockEnds(text, value)
          /\ \A i \in 1 .. value : i < value => ~BlockEnds(text, i)
      BY <1>1, <1>3 DEF ScriptInv, BlockInv
    <2>3. ExtractBraceBlock(text) =
            IF text = <<>> \/ text[1] # "open" \/ ends = {} THEN Unterminated
            ELSE SubSeq(text, 1, First(ends))
      BY DEF ExtractBraceBlock
    <2>4. ends \in SUBSET Int
      OBVIOUS
    <2> HIDE DEF ends
    <2>5. value \in ends /\ \A i \in ends : value <= i
      BY <1>1, <1>3, <2>1, <2>2
    <2>6. First(ends) = value /\ ends # {}
      BY <2>4, <2>5, FirstIs
    <2>7. text # <<>>
      BY <1>1
    <2> QED
      BY <1>3, <2>3, <2>6, <2>7 DEF Written
  <1> QED
    BY <1>2, <1>3

LEMMA InvCutsNothing == ScriptInv => CutIsNoValue
  <1> SUFFICES ASSUME ScriptInv, NEW n \in 0 .. value
               PROVE  /\ ExtractReturnValue(SubSeq(text, 1, n)) = Unterminated
                      /\ n < value =>
                            ExtractBraceBlock(SubSeq(text, 1, n)) = Unterminated
    BY DEF CutIsNoValue
  <1> DEFINE cut == SubSeq(text, 1, n)
  <1>1. /\ value \in Nat /\ Len(text) \in Nat /\ value <= Len(text)
        /\ text \in Seq(Bytes)
        /\ \A i \in 1 .. value : ~ReturnEnds(text, i)
    BY ScriptFacts DEF ScriptInv
  <1>2. n \in Nat /\ n <= value
    BY <1>1
  <1>3. Len(cut) = n /\ \A i \in 1 .. n : cut[i] = text[i]
    <2>1. \A i \in 1 .. n : text[i] \in Bytes
      <3>1. \A i \in 1 .. Len(text) : text[i] \in Bytes
        BY <1>1, ElementOfSeq
      <3> QED
        BY <1>1, <1>2, <3>1
    <2> QED
      BY <1>1, <1>2, <2>1, SubSeqProperties
  <1> HIDE DEF cut
  <1>4. \A i \in 0 .. n : Scan(cut)[i] = Scan(text)[i]
    <2>1. /\ Len(cut) \in Nat /\ Len(cut) <= Len(text)
          /\ \A i \in 1 .. Len(cut) : cut[i] = text[i]
      BY <1>1, <1>2, <1>3
    <2>2. \A i \in 0 .. Len(cut) : Scan(cut)[i] = Scan(text)[i]
      BY <1>1, <2>1, ScanOfPrefix
    <2> QED
      BY <1>3, <2>2
  <1>5. \A i \in 1 .. n : /\ ReturnEnds(cut, i) <=> ReturnEnds(text, i)
                          /\ BlockEnds(cut, i) <=> BlockEnds(text, i)
    BY <1>2, <1>3, <1>4, SameEnds
  <1>6. ExtractReturnValue(cut) = Unterminated
    <2>1. \A i \in 1 .. n : ~ReturnEnds(cut, i)
      BY <1>1, <1>2, <1>5
    <2>2. {i \in 1 .. Len(cut) : Ends(Scan(cut)[i - 1], cut[i])} = {}
      BY <1>3, <2>1 DEF ReturnEnds
    <2> QED
      BY <2>2 DEF ExtractReturnValue
  <1>7. ASSUME n < value
        PROVE  ExtractBraceBlock(cut) = Unterminated
    <2>1. CASE cut = <<>> \/ cut[1] # "open"
      BY <2>1 DEF ExtractBraceBlock
    <2>2. CASE cut # <<>> /\ cut[1] = "open"
      <3>1. n > 0
        <4> SUFFICES ASSUME n = 0 PROVE FALSE
          BY <1>2
        <4>1. cut \in Seq(Bytes) /\ Len(cut) = 0
          <5>1. Len(cut) = 0
            BY <1>3
          <5>2. cut \in Seq(Bytes)
            BY <1>1, <1>2, SubSeqProperties DEF cut
          <5> QED
            BY <5>1, <5>2
        <4>2. cut = <<>>
          BY <4>1, EmptySeq
        <4> QED
          BY <2>2, <4>2
      <3>2. text[1] = "open" /\ value > 0
        BY <1>1, <1>2, <1>3, <2>2, <3>1
      <3>3. \A i \in 1 .. value : i < value => ~BlockEnds(text, i)
        BY <3>2 DEF ScriptInv, BlockInv
      <3>4. \A i \in 1 .. n : ~BlockEnds(cut, i)
        BY <1>1, <1>2, <1>5, <1>7, <3>3
      <3>5. {i \in 1 .. Len(cut) :
               /\ cut[i] = "close" /\ Scan(cut)[i - 1].quote = "none"
               /\ Scan(cut)[i].depth = 0} = {}
        BY <1>3, <3>4 DEF BlockEnds
      <3> QED
        BY <3>5 DEF ExtractBraceBlock
    <2> QED
      BY <2>1, <2>2
  <1> QED
    BY <1>6, <1>7 DEF cut

LEMMA ScriptInvKept == ScriptInv /\ [Next]_vars => ScriptInv'
  <1> SUFFICES ASSUME ScriptInv, [Next]_vars PROVE ScriptInv'
    OBVIOUS
  <1>1. CASE UNCHANGED scriptVars
    BY <1>1 DEF scriptVars, ScriptInv, ScriptTypeOK, At, BlockInv, BlockEnds,
                ReturnEnds
  <1>2. CASE ScriptNext
    BY <1>2, ScriptStepKeeps
  <1> QED
    BY <1>1, <1>2 DEF Next, vars

\* A script of any length: whatever the strings of a value hold and whatever
\* follows it, extractReturnValue and extractBraceBlock give back that value.
THEOREM ValuesComeBack == Spec => []ValueComesBack
  <1>1. Init => ScriptInv
    BY ScriptInitially DEF Init
  <1> QED
    BY <1>1, ScriptInvKept, InvGivesValue, PTL DEF Spec

\* A script of any length, cut at any byte before its value is complete: both
\* scanners answer an error, never a shorter value.
THEOREM CutsAreErrors == Spec => []CutIsNoValue
  <1>1. Init => ScriptInv
    BY ScriptInitially DEF Init
  <1> QED
    BY <1>1, ScriptInvKept, InvCutsNothing, PTL DEF Spec
=============================================================================
