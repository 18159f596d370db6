--------------------------- MODULE MCRateLimiter ---------------------------
(* Instances of the rate limiter small enough for TLC.                     *)
EXTENDS RateLimiter, TLC

Symmetry == Permutations(Requests) \cup Permutations(IPs)
=============================================================================
