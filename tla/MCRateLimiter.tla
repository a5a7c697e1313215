---------------------------- MODULE MCRateLimiter ----------------------------
(* Instance of RateLimiter for TLC: two interchangeable processes over two *)
(* days, with a limit of two that is halved at times.                      *)
EXTENDS RateLimiter, TLC

CONSTANTS p1, p2

\* Nothing tells the processes apart.
MCSymmetry == Permutations(Proc)
=============================================================================
