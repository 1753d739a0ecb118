----------------------------- MODULE AuthThrottle -----------------------------
(***************************************************************************)
(* authAttemptThrottle: a token bucket of failed credentials for each key  *)
(* (subdomain and client address), in a map of bounded size.  blocked      *)
(* looks its entry up under the lock and peeks after unlocking; an entry   *)
(* evicted in between no longer changes, so the check is one step.         *)
(***************************************************************************)
EXTENDS Integers, FiniteSets

CONSTANTS AttemptRate, AttemptCapacity, AttemptCost,  \* of the keys' buckets
          Keys,      \* subdomain and client address pairs
          MaxKeys,   \* authAttemptMaxKeys
          None

\* newAttemptLimiter takes the limit as an int: the budget is a whole number of attempts.
ASSUME ThrottleAssumption ==
  /\ MaxKeys \in Nat \ {0} /\ None \notin Keys
  /\ AttemptRate \in Nat \ {0} /\ AttemptCost \in Nat \ {0}
  /\ AttemptCapacity \in Nat /\ AttemptCapacity >= AttemptCost
  /\ AttemptCapacity % AttemptCost = 0

VARIABLES entries,  \* the map, None where a key has no entry
          failed,   \* failures charged to a key since its entry exists
          since     \* the reading that entry was created with

throttle == <<entries, failed, since>>

Attempts == INSTANCE TokenBucket WITH
              Rate <- AttemptRate, Capacity <- AttemptCapacity, Cost <- AttemptCost

Present == {k \in Keys : entries[k] # None}

newAuthAttemptThrottle ==
  /\ entries = [k \in Keys |-> None]
  /\ failed = [k \in Keys |-> 0]
  /\ since = [k \in Keys |-> 0]

\* Mutant: the budget starts empty.
newAttemptLimiterEmpty(t) == [tokens |-> 0, last |-> t]

newAttemptLimiter(t) == Attempts!newRateLimiter(t)

blocked(k, t) == entries[k] # None /\ ~Attempts!peek(entries[k].limiter, t)

\* The keys whose eviction makes room: those seen longest ago, in a full map.
Oldest ==
  {k \in Present : \A j \in Present : entries[k].lastSeen <= entries[j].lastSeen}

evictOldest(k) ==
  IF entries[k] = None /\ Cardinality(Present) >= MaxKeys
  THEN {[entries EXCEPT ![old] = None] : old \in Oldest}
  ELSE {entries}

\* Mutant: every failure starts a fresh limiter.
recordFailureForgets(k, t) ==
  \E kept \in evictOldest(k) :
    /\ entries' = [kept EXCEPT ![k] = [limiter |-> Attempts!allow(newAttemptLimiter(t), t),
                                       lastSeen |-> t]]
    /\ failed' = [j \in Keys |-> IF j = k THEN failed[k] + 1
                                 ELSE IF kept[j] = None THEN 0 ELSE failed[j]]
    /\ since' = [j \in Keys |-> IF j = k /\ kept[k] = None THEN t ELSE since[j]]

recordFailure(k, t) ==
  \E kept \in evictOldest(k) :
    LET new   == kept[k] = None
        entry == IF new THEN newAttemptLimiter(t) ELSE kept[k].limiter
    IN /\ entries' = [kept EXCEPT ![k] = [limiter |-> Attempts!allow(entry, t), lastSeen |-> t]]
       /\ failed' = [j \in Keys |-> IF j = k THEN (IF new THEN 1 ELSE failed[k] + 1)
                                    ELSE IF kept[j] = None THEN 0 ELSE failed[j]]
       /\ since' = [j \in Keys |-> IF j = k /\ new THEN t
                                   ELSE IF kept[j] = None THEN 0 ELSE since[j]]

===============================================================================
