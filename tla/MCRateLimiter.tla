--------------------------- MODULE MCRateLimiter ---------------------------
(***************************************************************************)
(* Instances of RateLimiter for TLC.                                       *)
(***************************************************************************)
EXTENDS RateLimiter, TLC

\* Callers are interchangeable, and so are keys.
Symmetric == Permutations(Caller) \cup Permutations(Key)

=============================================================================
