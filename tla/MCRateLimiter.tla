---------------------------- MODULE MCRateLimiter ----------------------------
(***************************************************************************)
(* Model-checking instance of RateLimiterLog.                              *)
(***************************************************************************)
EXTENDS RateLimiterLog, TLC

Symmetry == Permutations(Tasks) \cup Permutations(Keys)
=============================================================================
