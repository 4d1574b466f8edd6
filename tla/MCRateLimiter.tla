---------------------------- MODULE MCRateLimiter ---------------------------
(* Instances of RateLimiter for TLC. *)
EXTENDS RateLimiter, TLC

Symmetry == Permutations(Tenants) \cup Permutations(Callers)
                \cup Permutations(Buckets)
=============================================================================
