------------------------------ MODULE TokenBucket ------------------------------
(***************************************************************************)
(* rateLimiter as pure operators on its two fields.  The code counts       *)
(* tokens in float64 and time in nanoseconds; here both are exact: Cost    *)
(* units make one token, and Rate units accrue per tick of the clock.      *)
(***************************************************************************)
EXTENDS Integers

CONSTANTS Rate,      \* units refilled per tick
          Capacity,  \* units of a full bucket (the burst)
          Cost       \* units of one token

ASSUME BucketAssumption ==
  /\ Rate \in Nat \ {0} /\ Cost \in Nat \ {0}
  /\ Capacity \in Nat /\ Capacity >= Cost

Buckets == [tokens : 0..Capacity, last : Nat]

newRateLimiter(now) == [tokens |-> Capacity, last |-> now]

\* Mutant: elapsed time is truncated to whole units before it is multiplied.
refillTruncates(b, now) ==
  IF now > b.last
  THEN [tokens |-> IF b.tokens + ((now - b.last) \div 2) * Rate > Capacity
                   THEN Capacity ELSE b.tokens + ((now - b.last) \div 2) * Rate,
        last |-> now]
  ELSE b

\* A clock reading that is not after the last one refills nothing.
refill(b, now) ==
  IF now > b.last
  THEN [tokens |-> IF b.tokens + (now - b.last) * Rate > Capacity
                   THEN Capacity ELSE b.tokens + (now - b.last) * Rate,
        last |-> now]
  ELSE b

peek(b, now) == refill(b, now).tokens >= Cost

\* The bucket after allow(now); the call returns peek(b, now).
allow(b, now) ==
  LET r == refill(b, now)
  IN [r EXCEPT !.tokens = IF r.tokens < Cost THEN r.tokens ELSE r.tokens - Cost]

===============================================================================
