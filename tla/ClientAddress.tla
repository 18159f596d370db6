--------------------------- MODULE ClientAddress ---------------------------
(***************************************************************************)
(* Which address a request is charged to (RealIP, middleware/ratelimit.go) *)
(* when it comes through reverse proxies.                                  *)
(*                                                                         *)
(* A client sends a request with any X-Forwarded-For header.  Each proxy   *)
(* it passes appends the address it got the request from and connects to   *)
(* the next one, or to the gateway, which sees that last connection.       *)
(***************************************************************************)
EXTENDS Integers, Sequences

CONSTANTS
    Addresses,    \* addresses of clients and proxies
    Trusted,      \* those in a CIDR of TRUSTED_PROXIES
    Junk,         \* header parts that are no address
    MaxForged,    \* bound: parts of the client's own header
    MaxHeader     \* bound: parts of the header that arrives

ASSUME TrustedAreAddresses == Trusted \subseteq Addresses
ASSUME JunkIsNoAddress == Junk \cap Addresses = {}
ASSUME HeaderNatural == MaxForged \in Nat /\ MaxHeader \in Nat

Parts == Addresses \cup Junk

VARIABLES
    client,   \* the address the request started from
    peer,     \* the address of the last connection (RemoteAddr)
    header    \* the parts of X-Forwarded-For

addressVars == <<client, peer, header>>

AddressTypeOK ==
    /\ client \in Addresses /\ peer \in Addresses
    /\ header \in Seq(Parts)

AddressInit ==
    /\ client \in Addresses
    /\ peer = client
    /\ header \in UNION {[1 .. n -> Parts] : n \in 0 .. MaxForged}

\* One trusted proxy more: it appends to the header it was sent.
Hop ==
    /\ Len(header) < MaxHeader
    /\ header' = Append(header, peer)
    /\ peer' \in Trusted
    /\ UNCHANGED client

AddressNext == Hop

-----------------------------------------------------------------------------
(* The gateway                                                             *)

\* isTrustedIP: a part that does not parse is not trusted.
IsTrusted(ip) == ip \in Trusted

\* Mutated form: the header is walked from left to right.
Chosen_Leftmost(places) ==
    CHOOSE i \in places : \A j \in places : i <= j

\* The walk goes from right to left.
Chosen(places) == CHOOSE i \in places : \A j \in places : j <= i

\* RealIP: the header counts only when the connection comes from a trusted
\* address; then its last untrusted part does, and without one the
\* connection's own address.
RealIP(remote, parts) ==
    LET untrusted == {i \in 1 .. Len(parts) : ~IsTrusted(parts[i])}
    IN  IF IsTrusted(remote) /\ untrusted # {}
        THEN parts[Chosen(untrusted)]
        ELSE remote

-----------------------------------------------------------------------------
\* A client outside the trusted networks is charged under its own address,
\* whatever header it sent and however many trusted proxies it came through:
\* RealIP neither believes the client nor stops at a proxy.
ClientIsFound == client \notin Trusted => RealIP(peer, header) = client
=============================================================================
