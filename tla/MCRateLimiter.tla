---------------------------- MODULE MCRateLimiter ----------------------------
(* Small instances of RateLimiter.  Clients and slots are interchangeable. *)
EXTENDS RateLimiter, TLC

LimiterSymmetry == Permutations(Clients) \cup Permutations(Slots)
=============================================================================
