--------------------------- MODULE MCRateLimiter ---------------------------
(* RateLimiter with its clients interchangeable. *)
EXTENDS RateLimiter, TLC

Clients == Permutations(Keys)
=============================================================================
