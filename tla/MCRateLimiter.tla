---------------------------- MODULE MCRateLimiter ----------------------------
(***************************************************************************)
(* Model-checking instances of RateLimiter.  A token has three fractions,  *)
(* so that a refill rate of two does not divide it.                        *)
(***************************************************************************)
EXTENDS RateLimiter, TLC

SlowCap  == [g \in Groups |-> IF g = "execute" THEN 2 ELSE 1]
SlowRate == [g \in Groups |-> IF g = "execute" THEN 1 ELSE 2]

FiberSymmetry == Permutations(Fibers)
=============================================================================
