------------------------------ MODULE RateLimiter ------------------------------
(***************************************************************************)
(* A tunnel's request limiter under concurrent public requests.  Each      *)
(* request samples time.Now and then calls session.allowRequest, so the    *)
(* readings reach the limiter in any order.                                *)
(***************************************************************************)
EXTENDS TokenBucket

CONSTANTS Requests,  \* concurrent public requests
          MaxTime    \* bound on the clock

ASSUME MaxTimeAssumption == MaxTime \in Nat

VARIABLES now,       \* the clock
          reading,   \* the reading a request holds, or Unread
          bucket,    \* the limiter
          admitted,  \* how many requests allow let through
          mark       \* an observer's note: last and admitted at some moment

vars == <<now, reading, bucket, admitted, mark>>

Unread == -1

TypeOK ==
  /\ now \in Nat
  /\ reading \in [Requests -> Nat \cup {Unread}]
  /\ bucket \in Buckets
  /\ admitted \in Nat
  /\ mark \in [last : Nat, admitted : Nat]

Init ==
  /\ now = 0
  /\ reading = [r \in Requests |-> Unread]
  /\ bucket = newRateLimiter(0)
  /\ admitted = 0
  /\ mark = [last |-> 0, admitted |-> 0]

Tick ==
  /\ now < MaxTime /\ now' = now + 1
  /\ UNCHANGED <<reading, bucket, admitted, mark>>

ReadClock(r) ==
  /\ reading[r] = Unread
  /\ reading' = [reading EXCEPT ![r] = now]
  /\ UNCHANGED <<now, bucket, admitted, mark>>

\* Mutant: an older reading moves the limiter's clock back.
allowRequestRewinds(r) ==
  /\ reading[r] # Unread
  /\ bucket' = [allow(bucket, reading[r]) EXCEPT !.last = reading[r]]
  /\ admitted' = IF peek(bucket, reading[r]) THEN admitted + 1 ELSE admitted
  /\ reading' = [reading EXCEPT ![r] = Unread]
  /\ UNCHANGED <<now, mark>>

allowRequest(r) ==
  /\ reading[r] # Unread
  /\ bucket' = allow(bucket, reading[r])
  /\ admitted' = IF peek(bucket, reading[r]) THEN admitted + 1 ELSE admitted
  /\ reading' = [reading EXCEPT ![r] = Unread]
  /\ UNCHANGED <<now, mark>>

\* The observer starts counting afresh at any moment.
Mark ==
  /\ mark' = [last |-> bucket.last, admitted |-> admitted]
  /\ UNCHANGED <<now, reading, bucket, admitted>>

Next == Tick \/ Mark \/ \E r \in Requests : ReadClock(r) \/ allowRequest(r)

Spec == Init /\ [][Next]_vars

-------------------------------------------------------------------------------
\* From any moment on, allow admits at most a full burst plus what the rate
\* refills until now, counted from the limiter's clock at that moment, in
\* whatever order concurrent requests present their clock readings.
WindowBound ==
  (admitted - mark.admitted) * Cost <= Capacity + (now - mark.last) * Rate

\* The budget behind it: what is left in the bucket and what was spent since
\* the mark never exceed a burst and the refill, and no clock reading, the
\* limiter's included, is ahead of the clock.
Budget ==
  /\ mark.last <= bucket.last /\ bucket.last <= now
  /\ \A r \in Requests : reading[r] <= now
  /\ bucket.tokens + (admitted - mark.admitted) * Cost
       <= Capacity + (bucket.last - mark.last) * Rate

\* The inductive invariant, which implies WindowBound.
Inv == TypeOK /\ Budget

\* A refusal means the burst is really spent: what is left after the refill is
\* less than one request's worth, so a tunnel that has been quiet for one
\* token's refill is never refused, whoever raced for the limiter before.
RefusedOnlyWhenSpent ==
  [][\A r \in Requests :
       reading[r] # Unread /\ reading'[r] = Unread /\ admitted' = admitted
         => bucket'.tokens < Cost /\ (reading[r] - bucket.last) * Rate < Cost]_vars

===============================================================================
