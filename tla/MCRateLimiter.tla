---------------------------- MODULE MCRateLimiter ----------------------------
(* Small instances of RateLimiter for TLC. *)
EXTENDS RateLimiter, TLC

CONSTANTS q1, q2, q3, w1, w2

\* One request under the old limit of 2 and two, after it is lowered, of 1.
MCLimits == q1 :> 2 @@ q2 :> 1 @@ q3 :> 1

\* q1 and q2 share a worker, and so a cleanup lock.
MCWorkers == q1 :> w1 @@ q2 :> w1 @@ q3 :> w2

=============================================================================
