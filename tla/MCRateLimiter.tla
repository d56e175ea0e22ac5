--------------------------- MODULE MCRateLimiter ---------------------------
(***************************************************************************)
(* Two threads that serve the same client.                                 *)
(***************************************************************************)
EXTENDS RateLimiter, TLC

Symmetry == Permutations(Threads)
=============================================================================
