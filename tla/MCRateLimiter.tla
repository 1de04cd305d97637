--------------------------- MODULE MCRateLimiter ---------------------------
(* Symmetry of the small instances of RateLimiter. *)
EXTENDS RateLimiter, TLC

Symmetry == Permutations(Callers) \cup Permutations(Buckets)

=============================================================================
