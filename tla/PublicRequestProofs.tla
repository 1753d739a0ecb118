-------------------------- MODULE PublicRequestProofs --------------------------
(***************************************************************************)
(* The way of a public request, for every rate, burst, configuration and   *)
(* number of requests.  First the rate limiter by itself: WindowBound is   *)
(* not inductive, as it forgets the tokens left; Budget adds them, and the *)
(* order of the clocks that makes a refill count elapsed time once.  Then  *)
(* the pipeline: towards the limiter it behaves as RateLimiter says, and   *)
(* what is logged is what was sent.  Last the throttle of failed           *)
(* credentials: what a bucket still allows is not its tokens, as every     *)
(* request past the check may fail on the token all of them saw.  So the   *)
(* budget of ThrottleInv counts what the requests past the check may still *)
(* charge (Worth), and which of them are already too late to pass it       *)
(* (Late).                                                                 *)
(***************************************************************************)
EXTENDS PublicRequest, FiniteSetTheorems, TLAPS

\* A refill keeps the bucket well formed, never moves the limiter's clock back
\* or past the reading, and adds at most the rate times the time it advances.
LEMMA RefillBounds ==
  ASSUME NEW b \in Buckets, NEW t \in Nat
  PROVE  /\ refill(b, t) \in Buckets
         /\ refill(b, t).last >= b.last
         /\ refill(b, t).last = b.last \/ refill(b, t).last = t
         /\ refill(b, t).tokens <= b.tokens + (refill(b, t).last - b.last) * Rate
<1> USE BucketAssumption
<1>1. b.tokens \in Nat /\ b.tokens <= Capacity /\ b.last \in Nat
  BY DEF Buckets
<1>2. CASE t > b.last
  <2> DEFINE more == (t - b.last) * Rate
  <2>1. t - b.last \in Nat
    BY <1>1, <1>2
  <2>2. more \in Nat
    BY <2>1
  <2>3. refill(b, t) = [tokens |-> IF b.tokens + more > Capacity THEN Capacity
                                   ELSE b.tokens + more,
                        last |-> t]
    BY <1>2 DEF refill
  <2> HIDE DEF more
  <2>4. /\ refill(b, t).last = t
        /\ refill(b, t).tokens \in 0..Capacity
        /\ refill(b, t).tokens <= b.tokens + more
    BY <2>2, <2>3, <1>1
  <2>5. refill(b, t) \in Buckets
    BY <2>3, <2>4 DEF Buckets
  <2> QED
    BY <2>4, <2>5, <1>1, <1>2 DEF more
<1>3. CASE ~(t > b.last)
  <2>1. refill(b, t) = b
    BY <1>3 DEF refill
  <2>2. (b.last - b.last) * Rate = 0
    BY <1>1
  <2> QED
    BY <2>1, <2>2, <1>1
<1> QED
  BY <1>2, <1>3

\* allow takes one token exactly when peek finds one, and none otherwise.
LEMMA AllowTakesOne ==
  ASSUME NEW b \in Buckets, NEW t \in Nat
  PROVE  /\ allow(b, t) \in Buckets
         /\ allow(b, t).last = refill(b, t).last
         /\ peek(b, t) => allow(b, t).tokens = refill(b, t).tokens - Cost
         /\ ~peek(b, t) => allow(b, t).tokens = refill(b, t).tokens
<1> USE BucketAssumption
<1>1. PICK r \in Buckets : r = refill(b, t)
  BY RefillBounds
<1>2. r.tokens \in 0..Capacity /\ r.last \in Nat
  BY DEF Buckets
<1>3. allow(b, t) = [r EXCEPT !.tokens = IF r.tokens < Cost THEN r.tokens ELSE r.tokens - Cost]
  BY <1>1 DEF allow
<1>4. /\ allow(b, t).last = r.last
      /\ allow(b, t).tokens = IF r.tokens < Cost THEN r.tokens ELSE r.tokens - Cost
      /\ allow(b, t) = [tokens |-> allow(b, t).tokens, last |-> allow(b, t).last]
  BY <1>3 DEF Buckets
<1>5. peek(b, t) <=> r.tokens >= Cost
  BY <1>1 DEF peek
<1>6. allow(b, t).tokens \in 0..Capacity
  BY <1>2, <1>4
<1>7. allow(b, t) \in Buckets
  BY <1>2, <1>4, <1>6 DEF Buckets
<1> QED
  BY <1>1, <1>2, <1>4, <1>5, <1>7

\* Distributivity, in the form the step of the invariant needs it.
LEMMA SplitElapsed ==
  ASSUME NEW a \in Int, NEW b \in Int, NEW c \in Int, NEW r \in Int
  PROVE  (c - a) * r = (b - a) * r + (c - b) * r
OBVIOUS

\* One more admitted request costs one more token.
LEMMA OneMore ==
  ASSUME NEW a \in Int, NEW b \in Int, NEW c \in Int
  PROVE  (a + 1 - b) * c = (a - b) * c + c
OBVIOUS

\* newRateLimiter starts with a full burst, which is the whole budget.
LEMMA InitInv == Init => Inv
<1> SUFFICES ASSUME Init PROVE Inv
  OBVIOUS
<1> USE BucketAssumption
<1>1. TypeOK
  BY DEF Init, TypeOK, newRateLimiter, Buckets, Unread
<1>2. (0 - 0) * Cost = 0 /\ (0 - 0) * Rate = 0
  OBVIOUS
<1>3. Budget
  BY <1>2 DEF Init, Budget, newRateLimiter, Unread
<1> QED
  BY <1>1, <1>3 DEF Inv

\* An allowRequest step spends at most what the bucket holds after the refill.
LEMMA AllowKeepsInv ==
  ASSUME Inv, NEW r \in Requests, allowRequest(r)
  PROVE  Inv'
<1> USE BucketAssumption
<1>1. /\ bucket \in Buckets /\ reading \in [Requests -> Nat \cup {Unread}]
      /\ now \in Nat /\ admitted \in Nat /\ mark \in [last : Nat, admitted : Nat]
  BY DEF Inv, TypeOK
<1> DEFINE t == reading[r]
           f == refill(bucket, t)
<1>2. t \in Nat /\ t <= now
  BY <1>1 DEF allowRequest, Inv, Budget
<1>3. /\ f \in Buckets /\ f.last >= bucket.last
      /\ f.last = bucket.last \/ f.last = t
      /\ f.tokens <= bucket.tokens + (f.last - bucket.last) * Rate
  BY <1>1, <1>2, RefillBounds, Zenon
<1>4. /\ bucket' \in Buckets /\ bucket'.last = f.last
      /\ peek(bucket, t) => bucket'.tokens = f.tokens - Cost
      /\ ~peek(bucket, t) => bucket'.tokens = f.tokens
  BY <1>1, <1>2, AllowTakesOne, Zenon DEF allowRequest
<1>5. /\ peek(bucket, t) => admitted' = admitted + 1
      /\ ~peek(bucket, t) => admitted' = admitted
      /\ reading' = [reading EXCEPT ![r] = Unread]
      /\ now' = now /\ mark' = mark
  BY DEF allowRequest
<1>6. TypeOK'
  BY <1>1, <1>4, <1>5 DEF TypeOK
<1>7. /\ bucket.tokens \in Nat /\ bucket.last \in Nat /\ f.last \in Nat /\ f.tokens \in Nat
      /\ bucket'.tokens \in Nat /\ bucket'.last \in Nat
      /\ mark.last \in Nat /\ mark.admitted \in Nat
  BY <1>1, <1>3, <1>4 DEF Buckets
<1>8. mark.last <= bucket'.last /\ bucket'.last <= now
  BY <1>1, <1>2, <1>3, <1>4, <1>7 DEF Inv, Budget
<1>9. \A q \in Requests : reading'[q] <= now
  BY <1>1, <1>5 DEF Inv, Budget, Unread
<1>10. f.tokens + (admitted - mark.admitted) * Cost
         <= Capacity + (f.last - mark.last) * Rate
  <2> DEFINE spent == (admitted - mark.admitted) * Cost
             gained == (bucket.last - mark.last) * Rate
             more  == (f.last - bucket.last) * Rate
  <2>1. spent \in Int /\ gained \in Int /\ more \in Int
    BY <1>1, <1>7
  <2>2. bucket.tokens + spent <= Capacity + gained
    BY DEF Inv, Budget
  <2>3. (f.last - mark.last) * Rate = gained + more
    BY <1>7, SplitElapsed
  <2>4. f.tokens <= bucket.tokens + more
    BY <1>3
  <2> HIDE DEF spent, gained, more, f
  <2>5. f.tokens + spent <= Capacity + (gained + more)
    BY <1>7, <2>1, <2>2, <2>4
  <2> QED
    BY <2>3, <2>5 DEF spent
<1>11. bucket'.tokens + (admitted' - mark.admitted) * Cost
         <= Capacity + (bucket'.last - mark.last) * Rate
  <2> DEFINE spent == (admitted - mark.admitted) * Cost
             earned == (f.last - mark.last) * Rate
  <2>1. spent \in Int /\ earned \in Int
    BY <1>1, <1>7
  <2>2. f.tokens + spent <= Capacity + earned
    BY <1>10
  <2>3. (bucket'.last - mark.last) * Rate = earned
    BY <1>4
  <2>4. CASE peek(bucket, t)
    <3>1. (admitted' - mark.admitted) * Cost = spent + Cost
      BY <1>1, <1>5, <1>7, <2>4, OneMore
    <3> HIDE DEF spent, earned, f
    <3>2. bucket'.tokens + (spent + Cost) <= Capacity + earned
      BY <1>4, <1>7, <2>1, <2>2, <2>4
    <3> QED
      BY <2>3, <3>1, <3>2
  <2>5. CASE ~peek(bucket, t)
    BY <1>4, <1>5, <2>2, <2>3, <2>5
  <2> QED
    BY <2>4, <2>5
<1>12. Budget'
  BY <1>5, <1>8, <1>9, <1>11 DEF Budget
<1> QED
  BY <1>6, <1>12 DEF Inv

\* Every step keeps the budget: admitting spends it, time adds to it.
LEMMA NextKeepsInv == Inv /\ [Next]_vars => Inv'
<1> SUFFICES ASSUME Inv, [Next]_vars PROVE Inv'
  OBVIOUS
<1> USE BucketAssumption
<1>0. /\ bucket \in Buckets /\ reading \in [Requests -> Nat \cup {Unread}]
      /\ now \in Nat /\ admitted \in Nat /\ mark \in [last : Nat, admitted : Nat]
      /\ bucket.last \in Nat /\ bucket.tokens \in 0..Capacity
  BY DEF Inv, TypeOK, Buckets
<1>1. CASE Tick
  <2>1. TypeOK'
    BY <1>0, <1>1 DEF Tick, TypeOK
  <2>2. now' \in Nat /\ now <= now'
    BY <1>0, <1>1 DEF Tick
  <2>3. Budget'
    BY <1>0, <1>1, <2>2 DEF Tick, Inv, Budget, Unread
  <2> QED
    BY <2>1, <2>3 DEF Inv
<1>2. CASE Mark
  <2>1. mark' \in [last : Nat, admitted : Nat] /\ mark'.last = bucket.last
        /\ mark'.admitted = admitted
    BY <1>0, <1>2 DEF Mark
  <2>2. TypeOK'
    BY <1>0, <1>2, <2>1 DEF Mark, TypeOK
  <2>3. (admitted - admitted) * Cost = 0 /\ (bucket.last - bucket.last) * Rate = 0
    BY <1>0
  <2>4. UNCHANGED <<now, reading, bucket, admitted>>
    BY <1>2 DEF Mark
  <2>5. bucket'.tokens + (admitted' - mark'.admitted) * Cost
          <= Capacity + (bucket'.last - mark'.last) * Rate
    <3>1. bucket.tokens + 0 <= Capacity + 0
      BY <1>0
    <3> QED
      BY <2>1, <2>3, <2>4, <3>1
  <2>6. Budget'
    BY <1>0, <2>1, <2>4, <2>5 DEF Inv, Budget
  <2> QED
    BY <2>2, <2>6 DEF Inv
<1>3. ASSUME NEW r \in Requests, ReadClock(r) PROVE Inv'
  <2>1. TypeOK'
    BY <1>0, <1>3 DEF ReadClock, TypeOK
  <2>2. Budget'
    BY <1>0, <1>3 DEF ReadClock, Inv, Budget
  <2> QED
    BY <2>1, <2>2 DEF Inv
<1>4. ASSUME NEW r \in Requests, allowRequest(r) PROVE Inv'
  BY <1>4, AllowKeepsInv
<1>5. CASE UNCHANGED vars
  BY <1>5 DEF vars, Inv, TypeOK, Budget
<1> QED
  BY <1>1, <1>2, <1>3, <1>4, <1>5 DEF Next

\* For every rate, burst and number of requests the limiter's state stays
\* within its types and its budget.
THEOREM BudgetHolds == Spec => []Inv
BY InitInv, NextKeepsInv, PTL DEF Spec

\* allow's promise: from any moment on, no more requests are admitted than a
\* full burst and the refill pay for.
THEOREM WindowBoundHolds == Spec => []WindowBound
<1>1. Inv => WindowBound
  <2> SUFFICES ASSUME Inv PROVE WindowBound
    OBVIOUS
  <2> USE BucketAssumption
  <2> DEFINE spent == (admitted - mark.admitted) * Cost
             earned == (bucket.last - mark.last) * Rate
             rest == (now - bucket.last) * Rate
  <2>1. /\ bucket.tokens \in Nat /\ bucket.last \in Nat /\ now \in Nat
        /\ mark.last \in Nat /\ mark.admitted \in Nat /\ admitted \in Nat
    BY DEF Inv, TypeOK, Buckets
  <2>2. spent \in Int /\ earned \in Int
    BY <2>1
  <2>3. now - bucket.last \in Nat
    BY <2>1 DEF Inv, Budget
  <2>4. rest \in Nat
    BY <2>3
  <2>5. (now - mark.last) * Rate = earned + rest
    BY <2>1, SplitElapsed
  <2>6. bucket.tokens + spent <= Capacity + earned
    BY DEF Inv, Budget
  <2> HIDE DEF spent, earned, rest
  <2>7. spent <= Capacity + (earned + rest)
    BY <2>1, <2>2, <2>4, <2>6
  <2> QED
    BY <2>5, <2>7 DEF WindowBound, spent
<1> QED
  BY <1>1, InitInv, NextKeepsInv, PTL DEF Spec

-------------------------------------------------------------------------------
\* Every step of the pipeline is a step of the limiter or leaves it alone.
LEMMA StepRefines == [PublicNext]_publicVars => [Next]_vars
<1> SUFFICES ASSUME [PublicNext]_publicVars PROVE [Next]_vars
  OBVIOUS
<1>1. CASE Elapses \/ Observes
  BY <1>1 DEF Elapses, Observes, Next
<1>2. ASSUME NEW r \in Requests, ReadsClock(r) \/ PassesLimiter(r) PROVE [Next]_vars
  BY <1>2 DEF ReadsClock, PassesLimiter, Next
<1>3. ASSUME NEW r \in Requests, routeForHost(r) \/ PassesThrottle(r) \/ PassesPolicy(r)
      PROVE [Next]_vars
  BY <1>3 DEF routeForHost, PassesThrottle, PassesPolicy
<1>4. ASSUME NEW r \in Requests, writeResponseStart(r) \/ RoundTripFails(r) \/ Completes(r)
      PROVE [Next]_vars
  BY <1>4 DEF writeResponseStart, RoundTripFails, Completes
<1>5. CASE UNCHANGED publicVars
  BY <1>5 DEF publicVars
<1> QED
  BY <1>1, <1>2, <1>3, <1>4, <1>5 DEF PublicNext

\* handlePublicRequest uses the limiter of a tunnel only through allowRequest,
\* once per request: the pipeline implements RateLimiter.
THEOREM RefinesRateLimiter == PublicSpec => Spec
<1>1. PublicInit => Init
  BY DEF PublicInit
<1> QED
  BY <1>1, StepRefines, PTL DEF PublicSpec, Spec

\* Through the whole pipeline no more requests reach a tunnel, from any moment
\* on, than a full burst and the refill pay for.
THEOREM PipelineWindowBound == PublicSpec => []WindowBound
BY RefinesRateLimiter, WindowBoundHolds, PTL

\* allow refuses a request only when less than one token is left after the refill,
\* in whatever order the requests present their clock readings.
THEOREM RefusedOnlyWhenSpentHolds == PublicSpec => RefusedOnlyWhenSpent
<1> USE BucketAssumption
<1>1. ASSUME Inv, Next, NEW r \in Requests,
             reading[r] # Unread, reading'[r] = Unread, admitted' = admitted
      PROVE  bucket'.tokens < Cost /\ (reading[r] - bucket.last) * Rate < Cost
  <2>1. /\ bucket \in Buckets /\ reading \in [Requests -> Nat \cup {Unread}]
        /\ bucket.tokens \in 0..Capacity /\ bucket.last \in Nat /\ admitted \in Nat
    BY <1>1 DEF Inv, TypeOK, Buckets
  <2>2. allowRequest(r)
    <3>1. ~Tick /\ ~Mark
      BY <1>1 DEF Tick, Mark
    <3>2. ASSUME NEW x \in Requests, ReadClock(x) PROVE FALSE
      BY <1>1, <2>1, <3>2 DEF ReadClock
    <3>3. ASSUME NEW x \in Requests, x # r, allowRequest(x) PROVE FALSE
      BY <1>1, <2>1, <3>3 DEF allowRequest
    <3> QED
      BY <1>1, <3>1, <3>2, <3>3 DEF Next
  <2> DEFINE t == reading[r]
             f == refill(bucket, t)
             more == (t - bucket.last) * Rate
  <2>3. t \in Nat /\ ~peek(bucket, t)
    BY <1>1, <2>1, <2>2 DEF allowRequest
  <2>4. bucket'.tokens = f.tokens
    BY <2>1, <2>2, <2>3, AllowTakesOne, Zenon DEF allowRequest
  <2>5. f \in Buckets
    BY <2>1, <2>3, RefillBounds
  <2>6. f.tokens < Cost
    BY <2>3, <2>5 DEF peek, Buckets
  <2>7. more < Cost
    <3>1. CASE t > bucket.last
      <4>1. f.tokens = IF bucket.tokens + more > Capacity THEN Capacity ELSE bucket.tokens + more
        BY <3>1 DEF refill
      <4>2. more \in Int
        BY <2>1, <2>3
      <4> HIDE DEF f, more
      <4> QED
        BY <2>1, <2>6, <4>1, <4>2
    <3>2. CASE ~(t > bucket.last)
      <4>1. bucket.last - t \in Nat
        BY <2>1, <2>3, <3>2
      <4>2. (bucket.last - t) * Rate \in Nat
        BY <4>1
      <4>3. more = 0 - (bucket.last - t) * Rate
        BY <2>1, <2>3
      <4> HIDE DEF more
      <4> QED
        BY <4>2, <4>3
    <3> QED
      BY <3>1, <3>2
  <2> QED
    BY <2>4, <2>6, <2>7
<1> DEFINE Refusal == \A r \in Requests :
       reading[r] # Unread /\ reading'[r] = Unread /\ admitted' = admitted
         => bucket'.tokens < Cost /\ (reading[r] - bucket.last) * Rate < Cost
<1>2. Inv /\ [Next]_vars => [Refusal]_vars
  BY <1>1
<1> HIDE DEF Refusal
<1>3. PublicSpec => [][Refusal]_vars
  BY <1>2, RefinesRateLimiter, BudgetHolds, PTL DEF Spec
<1> QED
  BY <1>3 DEF Refusal, RefusedOnlyWhenSpent

-------------------------------------------------------------------------------
\* What is true of one request's record.
Told(q) == q # None => /\ "step" \in DOMAIN q
                       /\ q.step = "done" => \/ q.logged = q.sent
                                             \/ q.logged = 499 /\ q.sent \in {0, 200}
                                             \/ q.logged = 500 /\ q.sent = 403

\* What is true of all of them.
Truthful == req = [r \in Requests |-> req[r]] /\ \A r \in Requests : Told(req[r])

\* Replacing one truthful record by another keeps them all truthful.
LEMMA OneRecord ==
  ASSUME Truthful, NEW r \in Requests, NEW q, Told(q), req' = [req EXCEPT ![r] = q]
  PROVE  Truthful'
BY DEF Truthful

\* A request that ends with a status logs that status.
LEMMA EndsTruthfully ==
  ASSUME Truthful, NEW r \in Requests, NEW status, Ends(r, status)
  PROVE  Truthful'
<1>1. Told(Done(status, status))
  BY DEF Told, Done
<1> QED
  BY <1>1, OneRecord, Zenon DEF Ends

\* A request that goes on is not done.
LEMMA GoesTruthfully ==
  ASSUME Truthful, NEW r \in Requests, req[r] # None,
         NEW step, step # "done", Goes(r, step)
  PROVE  Truthful'
<1> DEFINE q == [req[r] EXCEPT !.step = step]
<1>1. req' = [req EXCEPT ![r] = q]
  BY DEF Goes
<1>2. "step" \in DOMAIN req[r]
  BY DEF Truthful, Told
<1>3. "step" \in DOMAIN q /\ q.step = step
  BY <1>2
<1> HIDE DEF q
<1>4. Told(q)
  BY <1>3 DEF Told
<1> QED
  BY <1>1, <1>4, OneRecord, Zenon

\* No step of a request logs what it did not send.
LEMMA StepTruthful ==
  ASSUME Truthful, [PublicNext]_publicVars
  PROVE  Truthful'
<1>1. CASE Elapses \/ Observes \/ UNCHANGED publicVars
  BY <1>1 DEF Elapses, Observes, publicVars, Truthful
<1>2. ASSUME NEW r \in Requests, routeForHost(r) PROVE Truthful'
  <2>1. ASSUME NEW k, NEW step \in {"routed", "admitted"},
               req' = [req EXCEPT ![r] = Held(step, k, now)]
        PROVE  Truthful'
    <3>1. Told(Held(step, k, now))
      BY <2>1 DEF Told, Held
    <3> QED
      BY <2>1, <3>1, OneRecord, Zenon
  <2>2. ASSUME NEW status, Ends(r, status) PROVE Truthful'
    BY <2>2, EndsTruthfully
  <2> QED
    BY <1>2, <2>1, <2>2 DEF routeForHost
<1>3. ASSUME NEW r \in Requests, ReadsClock(r) PROVE Truthful'
  BY <1>3 DEF ReadsClock, Truthful
<1>4. ASSUME NEW r \in Requests, PassesLimiter(r) PROVE Truthful'
  <2>1. req[r] # None /\ (Ends(r, 429) \/ Goes(r, "admitted"))
    BY <1>4 DEF PassesLimiter, At
  <2> QED
    BY <2>1, EndsTruthfully, GoesTruthfully
<1>5. ASSUME NEW r \in Requests, PassesThrottle(r) PROVE Truthful'
  <2>1. req[r] # None /\ (Ends(r, 429) \/ Goes(r, "asking"))
    BY <1>5 DEF PassesThrottle, At
  <2> QED
    BY <2>1, EndsTruthfully, GoesTruthfully
<1>6. ASSUME NEW r \in Requests, PassesPolicy(r) PROVE Truthful'
  <2>1. PICK result \in evaluatePublicAccess :
          req' = [req EXCEPT ![r] =
            CASE result = "allowed" -> [step |-> "forwarding"]
              [] result = "error" -> Done(503, 503)
              [] OTHER -> Done(accessDeniedStatus(result), accessDeniedStatus(result))]
    BY <1>6, Zenon DEF PassesPolicy
  <2>2. Told([step |-> "forwarding"])
    BY DEF Told
  <2>3. CASE result = "allowed"
    BY <2>1, <2>2, <2>3, OneRecord, ZenonT(60)
  <2>4. CASE result = "error"
    <3>1. Ends(r, 503)
      BY <2>1, <2>4 DEF Ends
    <3> QED
      BY <3>1, EndsTruthfully
  <2>5. CASE result \notin {"allowed", "error"}
    <3>1. Ends(r, accessDeniedStatus(result))
      BY <2>1, <2>5, Zenon DEF Ends
    <3> QED
      BY <3>1, EndsTruthfully
  <2> QED
    BY <2>3, <2>4, <2>5
<1>7. ASSUME NEW r \in Requests, writeResponseStart(r) PROVE Truthful'
  <2>1. PICK status : req' = [req EXCEPT ![r] = [step |-> "responding", sent |-> status]]
    BY <1>7, Zenon DEF writeResponseStart
  <2>2. Told([step |-> "responding", sent |-> status])
    BY DEF Told
  <2> QED
    BY <2>1, <2>2, OneRecord, Zenon
<1>8. ASSUME NEW r \in Requests, RoundTripFails(r) PROVE Truthful'
  <2>1. CASE req' = [req EXCEPT ![r] = Done(403, 500)]
    <3>1. Told(Done(403, 500))
      BY DEF Told, Done
    <3> QED
      BY <2>1, <3>1, OneRecord, ZenonT(60)
  <2>2. ASSUME NEW status, Ends(r, status) PROVE Truthful'
    BY <2>2, EndsTruthfully
  <2> QED
    <3>1. CASE \E status \in {500, 501, 503, 413, 504, 502} : Ends(r, status)
      <4>1. PICK status : Ends(r, status)
        BY <3>1
      <4> QED
        BY <2>2, <4>1
    <3>2. CASE \E sent \in {0, 200} : req' = [req EXCEPT ![r] = Done(sent, 499)]
      <4>1. PICK sent \in {0, 200} : req' = [req EXCEPT ![r] = Done(sent, 499)]
        BY <3>2, ZenonT(30)
      <4>2. Told(Done(sent, 499))
        BY DEF Told, Done
      <4> QED
        BY <4>1, <4>2, OneRecord, ZenonT(60)
    <3>3. CASE Ends(r, req[r].sent)
      BY <2>2, <3>3
    <3> QED
      BY <1>8, <2>1, <3>1, <3>2, <3>3 DEF RoundTripFails
<1>9. ASSUME NEW r \in Requests, Completes(r) PROVE Truthful'
  BY <1>9, EndsTruthfully DEF Completes
<1> QED
  BY <1>1, <1>2, <1>3, <1>4, <1>5, <1>6, <1>7, <1>8, <1>9 DEF PublicNext

\* The deferred function of handlePublicRequest logs the status that was sent, for
\* any number of requests and however each of them ends, but for cancelled contexts
\* and refused upgrades.
THEOREM LogTellsTheTruth == PublicSpec => []LoggedAsAnswered
<1>1. PublicInit => Truthful
  BY DEF PublicInit, Truthful, Told
<1>2. Truthful => LoggedAsAnswered
  BY DEF Truthful, Told, LoggedAsAnswered, At
<1> QED
  BY <1>1, <1>2, StepTruthful, PTL DEF PublicSpec

-------------------------------------------------------------------------------
(* The throttle of failed credentials *)

\* The requests that passed the check for a key and have not been judged yet, and
\* those of them that would not pass it any more.
Asking(k) == {r \in Requests : At(r, "asking") /\ req[r].key = k}
Late(k) == {r \in Asking(k) : ~Attempts!peek(entries[k].limiter, req[r].started)}

\* What n requests may still charge to a bucket with these tokens before it is
\* refilled, of which some are late: a whole token is taken once and may be missed
\* by the others, while the fraction below a token may be topped up by each.
Worth(n, tokens, late) ==
  IF tokens >= AttemptCost
  THEN tokens + (n - 1) * (tokens % AttemptCost) + (n - 1) * AttemptCost
  ELSE n * tokens + late * AttemptCost

\* The failures of a key and what may still be charged to it are within the bound.
GuessBudget(k) ==
  LET b == entries[k].limiter
      n == Cardinality(Requests)
  IN failed[k] * AttemptCost + Worth(n, b.tokens, Cardinality(Late(k)))
       <= AttemptCapacity + (n - 1) * AttemptCost + n * ((b.last - since[k]) * AttemptRate)

\* An entry of the throttle: its clock is between its creation and now, and it was
\* charged for nothing but the failures of its key.
EntryInv(k) ==
  LET b == entries[k].limiter IN
  /\ b \in Attempts!Buckets
  /\ since[k] <= b.last /\ b.last <= now
  /\ b.tokens >= AttemptCapacity - failed[k] * AttemptCost
  /\ GuessBudget(k)

\* A request that has not been judged yet has its key and an earlier clock reading.
HeldInv(q) ==
  q.step \in {"routed", "admitted", "asking"} =>
    /\ q = Held(q.step, q.key, q.started)
    /\ q.key \in Keys /\ q.started \in 0..now

ThrottleInv ==
  /\ now \in Nat /\ config \in Configurations
  /\ entries = [k \in Keys |-> entries[k]]
  /\ failed \in [Keys -> Nat] /\ since \in [Keys -> Nat]
  /\ req = [r \in Requests |-> req[r]]
  /\ \A r \in Requests : req[r] # None => HeldInv(req[r])
  /\ \A k \in Present : EntryInv(k)

\* Division with remainder, which is unique.
LEMMA DivMod ==
  ASSUME NEW a \in Nat, NEW c \in Nat \ {0}
  PROVE  \E q \in Nat, r \in 0..(c - 1) : a = q * c + r /\ a % c = r
<1>1. a \div c \in Nat /\ (a % c) \in 0..(c - 1)
  OBVIOUS
<1>2. a = (a \div c) * c + (a % c)
  OBVIOUS
<1> QED
  BY <1>1, <1>2

\* Taking a whole token leaves the fraction.
LEMMA ModMinus ==
  ASSUME NEW a \in Nat, NEW c \in Nat \ {0}, a >= c
  PROVE  (a - c) % c = a % c
<1>1. PICK q \in Nat, r \in 0..(c - 1) : a = q * c + r /\ a % c = r
  BY DivMod
<1>2. q # 0 /\ q - 1 \in Nat
  BY <1>1
<1>3. a - c = (q - 1) * c + r /\ a - c \in Nat
  BY <1>1
<1> QED
  BY <1>1, <1>2, <1>3

\* Adding to a bucket adds no more than that to the fraction.
LEMMA ModPlus ==
  ASSUME NEW a \in Nat, NEW d \in Nat, NEW c \in Nat \ {0}
  PROVE  ((a + d) % c) <= (a % c) + d
<1>1. PICK q \in Nat, r \in 0..(c - 1) : a = q * c + r /\ a % c = r
  BY DivMod
<1>2. a + d \in Nat
  OBVIOUS
<1>3. PICK p \in Nat, s \in 0..(c - 1) : a + d = p * c + s /\ (a + d) % c = s
  BY <1>2, DivMod, Zenon
<1>4. ASSUME s > r + d PROVE FALSE
  <2>1. p * c < q * c
    BY <1>1, <1>3, <1>4
  <2>2. p + 1 <= q
    BY <2>1
  <2>3. p * c + c <= q * c
    BY <2>2
  <2> QED
    BY <1>1, <1>3, <1>4, <2>3
<1> QED
  BY <1>1, <1>3, <1>4

\* At least a whole token: the fraction is what exceeds it, or less.
LEMMA ModBelow ==
  ASSUME NEW a \in Nat, NEW c \in Nat \ {0}, a >= c
  PROVE  (a % c) \in 0..(a - c)
<1>1. PICK q \in Nat, r \in 0..(c - 1) : a = q * c + r /\ a % c = r
  BY DivMod
<1>2. q >= 1
  BY <1>1
<1>3. q * c >= c
  BY <1>2
<1> QED
  BY <1>1, <1>3

\* More of one factor, more of the product.
LEMMA TimesMonotone ==
  ASSUME NEW n \in Nat, NEW a \in Int, NEW b \in Int, a <= b
  PROVE  n * a <= n * b
OBVIOUS

\* What may still be charged is not negative.
LEMMA WorthType ==
  ASSUME NEW n \in Nat \ {0}, NEW tokens \in Nat, NEW u \in Nat
  PROVE  Worth(n, tokens, u) \in Nat
<1> USE ThrottleAssumption
<1>1. (tokens % AttemptCost) \in Nat
  OBVIOUS
<1>2. (n - 1) * (tokens % AttemptCost) \in Nat /\ (n - 1) * AttemptCost \in Nat
  BY <1>1
<1>3. n * tokens \in Nat /\ u * AttemptCost \in Nat
  OBVIOUS
<1> QED
  BY <1>2, <1>3 DEF Worth

\* It grows with the late requests.
LEMMA WorthMonotone ==
  ASSUME NEW n \in Nat \ {0}, NEW tokens \in Nat, NEW u \in Nat, NEW v \in Nat, u <= v
  PROVE  Worth(n, tokens, u) <= Worth(n, tokens, v)
<1> USE ThrottleAssumption
<1>1. u * AttemptCost <= v * AttemptCost /\ u * AttemptCost \in Nat /\ v * AttemptCost \in Nat
  OBVIOUS
<1>2. n * tokens \in Nat
  OBVIOUS
<1>3. Worth(n, tokens, u) \in Nat
  BY WorthType
<1> QED
  BY <1>1, <1>2, <1>3 DEF Worth

\* A failure that still finds a token after the refill is paid for by it.
LEMMA WorthTaken ==
  ASSUME NEW n \in Nat \ {0}, NEW tokens \in 0..AttemptCapacity, NEW more \in Nat,
         NEW full \in AttemptCost..AttemptCapacity,
         full = tokens + more \/ (full = AttemptCapacity /\ tokens + more >= AttemptCapacity),
         NEW u \in Nat, NEW v \in 0..(n - 1)
  PROVE  AttemptCost + Worth(n, full - AttemptCost, v) <= Worth(n, tokens, u) + n * more
<1> USE ThrottleAssumption
<1> DEFINE c == AttemptCost
           m == n - 1
           fraction == full % c
<1>1. /\ c \in Nat \ {0} /\ m \in Nat /\ full \in Nat /\ full >= c /\ tokens \in Nat
      /\ full <= tokens + more
  OBVIOUS
<1>2. /\ fraction \in 0..(full - c) /\ fraction \in 0..(c - 1) /\ ((full - c) % c) = fraction
  <2>1. fraction \in 0..(full - c)
    BY <1>1, ModBelow, Zenon
  <2>2. ((full - c) % c) = fraction
    BY <1>1, ModMinus, Zenon
  <2>3. fraction \in 0..(c - 1)
    BY <1>1
  <2> QED
    BY <2>1, <2>2, <2>3
<1>3. v * c <= m * c
  BY <1>1
<1>4. m * fraction \in Nat /\ m * c \in Nat
  BY <1>1, <1>2
<1>5. AttemptCost + Worth(n, full - AttemptCost, v) <= full + m * fraction + m * c
  <2>1. CASE full - c >= c
    <3>1. Worth(n, full - AttemptCost, v) = (full - c) + m * fraction + m * c
      BY <1>2, <2>1 DEF Worth
    <3> HIDE DEF fraction, m, c
    <3> QED
      BY <1>1, <1>2, <1>4, <3>1 DEF c
  <2>2. CASE full - c < c
    <3>1. Worth(n, full - AttemptCost, v) = n * (full - c) + v * c
      BY <1>1, <2>2 DEF Worth
    <3>2. fraction = full - c
      <4>1. (full - c) \in Nat /\ full - c < c
        BY <1>1, <2>2
      <4>2. ((full - c) % c) = full - c
        BY <4>1
      <4> QED
        BY <1>2, <4>2
    <3>3. n * (full - c) = fraction + m * fraction
      BY <1>1, <3>2
    <3> HIDE DEF fraction, m, c
    <3> QED
      BY <1>1, <1>2, <1>3, <1>4, <3>1, <3>2, <3>3 DEF c
  <2> QED
    BY <1>1, <2>1, <2>2
<1>6. full + m * fraction + m * c <= Worth(n, tokens, u) + n * more
  <2>1. n * more = more + m * more /\ m * more \in Nat /\ n * more \in Nat
    BY <1>1
  <2>2. CASE tokens >= c
    <3> DEFINE was == tokens % c
    <3>1. was \in 0..(c - 1)
      BY <1>1
    <3>2. fraction <= was + more
      <4>1. CASE full = tokens + more
        BY <1>1, <4>1, ModPlus
      <4>2. CASE full = AttemptCapacity
        <5>1. fraction = 0
          BY <4>2
        <5> QED
          BY <3>1, <5>1
      <4> QED
        BY <4>1, <4>2
    <3>3. m * fraction <= m * (was + more)
      BY <1>1, <1>2, <3>1, <3>2, TimesMonotone
    <3>4. m * (was + more) = m * was + m * more /\ m * was \in Nat
      BY <1>1, <3>1
    <3>5. Worth(n, tokens, u) = tokens + m * was + m * c
      BY <2>2 DEF Worth
    <3> HIDE DEF fraction, m, c, was
    <3> QED
      BY <1>1, <1>4, <2>1, <3>3, <3>4, <3>5
  <2>3. CASE tokens < c
    <3>1. Worth(n, tokens, u) = n * tokens + u * c /\ u * c \in Nat
      BY <1>1, <2>3 DEF Worth
    <3>2. m * fraction <= m * (full - c)
      BY <1>1, <1>2, TimesMonotone
    <3>3. m * (full - c) = m * full - m * c /\ n * full = full + m * full
      BY <1>1
    <3>4. n * full <= n * (tokens + more)
      BY <1>1, TimesMonotone
    <3>5. n * (tokens + more) = n * tokens + n * more /\ n * tokens \in Nat
      BY <1>1
    <3>6. m * full \in Nat /\ n * full \in Nat
      BY <1>1
    <3> HIDE DEF fraction, m, c
    <3> QED
      BY <1>1, <1>4, <2>1, <3>1, <3>2, <3>3, <3>4, <3>5, <3>6
  <2> QED
    BY <1>1, <2>2, <2>3
<1>7. /\ Worth(n, full - AttemptCost, v) \in Nat /\ Worth(n, tokens, u) \in Nat
      /\ n * more \in Nat
  <2>1. full - AttemptCost \in Nat /\ v \in Nat /\ n * more \in Nat
    BY <1>1
  <2>2. Worth(n, full - AttemptCost, v) \in Nat
    BY <2>1, WorthType
  <2>3. Worth(n, tokens, u) \in Nat
    BY <1>1, WorthType
  <2> QED
    BY <2>1, <2>2, <2>3
<1> HIDE DEF fraction, m, c
<1> QED
  BY <1>1, <1>2, <1>4, <1>5, <1>6, <1>7

\* One that finds none is the failure of a late request, one of those counted.
LEMMA WorthMissed ==
  ASSUME NEW n \in Nat \ {0}, NEW tokens \in Nat, NEW more \in Nat, NEW u \in Nat \ {0},
         tokens + more < AttemptCost
  PROVE  AttemptCost + Worth(n, tokens + more, u - 1) = Worth(n, tokens, u) + n * more
<1> USE ThrottleAssumption
<1>1. /\ Worth(n, tokens + more, u - 1) = n * (tokens + more) + (u - 1) * AttemptCost
      /\ Worth(n, tokens, u) = n * tokens + u * AttemptCost
  BY DEF Worth
<1>2. n * (tokens + more) = n * tokens + n * more /\ n * tokens \in Nat /\ n * more \in Nat
  OBVIOUS
<1>3. (u - 1) * AttemptCost = u * AttemptCost - AttemptCost /\ u * AttemptCost \in Nat
  OBVIOUS
<1> QED
  BY <1>1, <1>2, <1>3

\* What elapsed time is worth never shrinks.
LEMMA ElapsedMonotone ==
  ASSUME NEW a \in Nat, NEW b \in Nat, NEW c \in Nat, a <= b, b <= c
  PROVE  /\ (b - a) * AttemptRate \in Nat
         /\ (b - a) * AttemptRate <= (c - a) * AttemptRate
         /\ (c - a) * AttemptRate = (b - a) * AttemptRate + (c - b) * AttemptRate
BY ThrottleAssumption, SplitElapsed

\* A refill of an attempt's bucket adds the elapsed time, up to a full bucket.
LEMMA AttemptRefill ==
  ASSUME NEW b \in Attempts!Buckets, NEW t \in Nat
  PROVE  LET f == Attempts!refill(b, t)
             more == (f.last - b.last) * AttemptRate
         IN /\ f \in Attempts!Buckets /\ more \in Nat
            /\ f.last = IF t > b.last THEN t ELSE b.last
            /\ \/ f.tokens = b.tokens + more
               \/ f.tokens = AttemptCapacity /\ b.tokens + more >= AttemptCapacity
            /\ f.tokens >= b.tokens
<1> USE ThrottleAssumption
<1>1. b.tokens \in 0..AttemptCapacity /\ b.last \in Nat
  BY DEF Attempts!Buckets
<1> DEFINE f == Attempts!refill(b, t)
           more == (f.last - b.last) * AttemptRate
<1>2. CASE t > b.last
  <2> DEFINE gained == (t - b.last) * AttemptRate
  <2>1. gained \in Nat
    BY <1>1, <1>2, ElapsedMonotone
  <2>2. f = [tokens |-> IF b.tokens + gained > AttemptCapacity THEN AttemptCapacity
                        ELSE b.tokens + gained,
             last |-> t]
    BY <1>2 DEF Attempts!refill
  <2> HIDE DEF f
  <2>3. f.last = t /\ more = gained
    BY <2>2
  <2>4. f.tokens = IF b.tokens + gained > AttemptCapacity THEN AttemptCapacity ELSE b.tokens + gained
    BY <2>2
  <2> HIDE DEF gained, more
  <2>5. f.tokens \in 0..AttemptCapacity /\ f.tokens >= b.tokens
    BY <1>1, <2>1, <2>4
  <2>6. f \in Attempts!Buckets
    BY <2>2, <2>4, <2>5 DEF Attempts!Buckets
  <2>7. \/ f.tokens = b.tokens + more
        \/ f.tokens = AttemptCapacity /\ b.tokens + more >= AttemptCapacity
    BY <1>1, <2>1, <2>3, <2>4
  <2> QED
    BY <1>2, <2>1, <2>3, <2>5, <2>6, <2>7 DEF f, more
<1>3. CASE ~(t > b.last)
  <2>1. f = b
    BY <1>3 DEF Attempts!refill
  <2>2. more = 0
    BY <1>1, <2>1
  <2> HIDE DEF f, more
  <2>3. f.tokens = b.tokens + more /\ more \in Nat /\ f.tokens >= b.tokens
    BY <1>1, <2>1, <2>2
  <2> QED
    BY <1>3, <2>1, <2>3 DEF f, more
<1> QED
  BY <1>2, <1>3

\* allow takes a token exactly when peek finds one.
LEMMA AttemptAllow ==
  ASSUME NEW b \in Attempts!Buckets, NEW t \in Nat
  PROVE  LET f == Attempts!refill(b, t)
             a == Attempts!allow(b, t)
         IN /\ a \in Attempts!Buckets /\ a.last = f.last
            /\ Attempts!peek(b, t) => a.tokens = f.tokens - AttemptCost /\ f.tokens >= AttemptCost
            /\ ~Attempts!peek(b, t) => a.tokens = f.tokens /\ f.tokens < AttemptCost
<1> USE ThrottleAssumption
<1>1. PICK f \in Attempts!Buckets : f = Attempts!refill(b, t)
  BY AttemptRefill
<1>2. f.tokens \in 0..AttemptCapacity /\ f.last \in Nat
  BY DEF Attempts!Buckets
<1> DEFINE a == Attempts!allow(b, t)
<1>3. a = [f EXCEPT !.tokens = IF f.tokens < AttemptCost THEN f.tokens ELSE f.tokens - AttemptCost]
  BY <1>1 DEF Attempts!allow
<1> HIDE DEF a
<1>4. /\ a.last = f.last
      /\ a.tokens = IF f.tokens < AttemptCost THEN f.tokens ELSE f.tokens - AttemptCost
      /\ a = [tokens |-> a.tokens, last |-> a.last]
  BY <1>3 DEF Attempts!Buckets
<1>5. Attempts!peek(b, t) <=> f.tokens >= AttemptCost
  BY <1>1 DEF Attempts!peek
<1>6. a.tokens \in 0..AttemptCapacity
  BY <1>2, <1>4
<1>7. a \in Attempts!Buckets
  BY <1>2, <1>4, <1>6 DEF Attempts!Buckets
<1> QED
  BY <1>1, <1>2, <1>4, <1>5, <1>7 DEF a

\* Whether a reading finds a token: it does when the bucket has one or the time
\* since the bucket's clock has added enough.
LEMMA PeekMeans ==
  ASSUME NEW b \in Attempts!Buckets, NEW t \in Nat
  PROVE  Attempts!peek(b, t) <=>
           \/ b.tokens >= AttemptCost
           \/ t > b.last /\ b.tokens + (t - b.last) * AttemptRate >= AttemptCost
<1> USE ThrottleAssumption
<1>1. b.tokens \in 0..AttemptCapacity /\ b.last \in Nat
  BY DEF Attempts!Buckets
<1> DEFINE f == Attempts!refill(b, t)
           more == (f.last - b.last) * AttemptRate
<1>2. /\ f \in Attempts!Buckets /\ more \in Nat
      /\ f.last = IF t > b.last THEN t ELSE b.last
      /\ \/ f.tokens = b.tokens + more
         \/ f.tokens = AttemptCapacity /\ b.tokens + more >= AttemptCapacity
      /\ f.tokens >= b.tokens
  BY AttemptRefill
<1>3. f.tokens \in 0..AttemptCapacity
  BY <1>2 DEF Attempts!Buckets
<1>4. Attempts!peek(b, t) <=> f.tokens >= AttemptCost
  BY DEF Attempts!peek
<1>5. CASE t > b.last
  <2>1. (t - b.last) * AttemptRate = more
    BY <1>2, <1>5
  <2> HIDE DEF f, more
  <2> QED
    BY <1>1, <1>2, <1>3, <1>4, <1>5, <2>1
<1>6. CASE ~(t > b.last)
  <2>1. more = 0
    BY <1>1, <1>2, <1>6
  <2> HIDE DEF f, more
  <2> QED
    BY <1>1, <1>2, <1>3, <1>4, <1>6, <2>1
<1> QED
  BY <1>5, <1>6

\* A late failure changes nothing for the other requests: those that would find a
\* token still do, and no other does.
LEMMA LateStays ==
  ASSUME NEW b \in Attempts!Buckets, NEW t \in Nat, ~Attempts!peek(b, t), NEW s \in Nat
  PROVE  Attempts!peek(Attempts!allow(b, t), s) <=> Attempts!peek(b, s)
<1> USE ThrottleAssumption
<1> DEFINE a == Attempts!allow(b, t)
           more == (a.last - b.last) * AttemptRate
<1>1. b.tokens \in 0..AttemptCapacity /\ b.last \in Nat
  BY DEF Attempts!Buckets
<1>2. /\ a \in Attempts!Buckets /\ more \in Nat /\ a.last \in Nat
      /\ a.last = IF t > b.last THEN t ELSE b.last
      /\ a.tokens = b.tokens + more /\ a.tokens < AttemptCost
  <2>1. LET f == Attempts!refill(b, t)
            gained == (f.last - b.last) * AttemptRate
        IN /\ f \in Attempts!Buckets /\ gained \in Nat
           /\ f.last = IF t > b.last THEN t ELSE b.last
           /\ \/ f.tokens = b.tokens + gained
              \/ f.tokens = AttemptCapacity /\ b.tokens + gained >= AttemptCapacity
    BY AttemptRefill
  <2>2. LET f == Attempts!refill(b, t)
        IN a \in Attempts!Buckets /\ a.last = f.last /\ a.tokens = f.tokens /\ f.tokens < AttemptCost
    BY AttemptAllow, Zenon
  <2> HIDE DEF a
  <2> QED
    BY <2>1, <2>2 DEF Attempts!Buckets
<1> HIDE DEF a
<1>3. Attempts!peek(a, s) <=>
        s > a.last /\ a.tokens + (s - a.last) * AttemptRate >= AttemptCost
  <2>1. a \in Attempts!Buckets
    BY <1>2
  <2>2. ~(a.tokens >= AttemptCost)
    BY <2>1, <1>2 DEF Attempts!Buckets
  <2> QED
    BY <2>1, <2>2, PeekMeans
<1>4. Attempts!peek(b, s) <=>
        s > b.last /\ b.tokens + (s - b.last) * AttemptRate >= AttemptCost
  <2>1. ~(b.tokens >= AttemptCost)
    BY <1>1, <1>2
  <2> QED
    BY <2>1, PeekMeans
<1>5. CASE s > a.last
  <2>1. (s - b.last) * AttemptRate = more + (s - a.last) * AttemptRate
    BY <1>1, <1>2, SplitElapsed
  <2>2. (s - a.last) * AttemptRate \in Int
    BY <1>2
  <2>3. s > b.last
    BY <1>1, <1>2, <1>5
  <2> HIDE DEF more
  <2> QED
    BY <1>1, <1>2, <1>3, <1>4, <1>5, <2>1, <2>2, <2>3, SMTT(30) DEF a
<1>6. CASE ~(s > a.last)
  <2>1. ~Attempts!peek(a, s)
    BY <1>3, <1>6
  <2>2. ASSUME s > b.last PROVE b.tokens + (s - b.last) * AttemptRate < AttemptCost
    <3>1. (s - b.last) * AttemptRate <= more /\ (s - b.last) * AttemptRate \in Nat
      BY <1>1, <1>2, <1>6, <2>2, ElapsedMonotone
    <3> HIDE DEF more
    <3> QED
      BY <1>1, <1>2, <3>1
  <2>3. ~Attempts!peek(b, s)
    <3>1. s > b.last => b.tokens + (s - b.last) * AttemptRate \in Int
      BY <1>1
    <3> QED
      BY <1>4, <2>2, <3>1
  <2> QED
    BY <2>1, <2>3 DEF a
<1> QED
  BY <1>5, <1>6

\* The late requests of a key are among the requests, and without one of them, or
\* with one request left out, there are that many fewer.
LEMMA CountLate ==
  ASSUME NEW late, late \subseteq Requests, NEW r \in Requests
  PROVE  /\ Cardinality(Requests) \in Nat \ {0}
         /\ Cardinality(late) \in Nat
         /\ r \notin late => Cardinality(late) <= Cardinality(Requests) - 1
         /\ r \in late => /\ Cardinality(late) \in Nat \ {0}
                          /\ Cardinality(late \ {r}) = Cardinality(late) - 1
<1>1. IsFiniteSet(Requests) /\ IsFiniteSet(late)
  BY PipelineAssumption, FS_Subset
<1>2. Cardinality(Requests) \in Nat /\ Cardinality(late) \in Nat
  BY <1>1, FS_CardinalityType
<1>3. IsFiniteSet(Requests \ {r}) /\ Cardinality(Requests \ {r}) = Cardinality(Requests) - 1
  BY <1>1, FS_RemoveElement
<1>4. Cardinality(Requests \ {r}) \in Nat
  BY <1>3, FS_CardinalityType
<1>5. r \notin late => Cardinality(late) <= Cardinality(Requests \ {r})
  BY <1>3, FS_Subset
<1>6. r \in late => /\ IsFiniteSet(late \ {r}) /\ Cardinality(late \ {r}) = Cardinality(late) - 1
                    /\ Cardinality(late \ {r}) \in Nat
  BY <1>1, FS_RemoveElement, FS_CardinalityType
<1> QED
  BY <1>2, <1>3, <1>4, <1>5, <1>6

\* Fewer late requests, fewer to count.
LEMMA FewerLate ==
  ASSUME NEW late, late \subseteq Requests, NEW still, still \subseteq late
  PROVE  Cardinality(still) \in Nat /\ Cardinality(late) \in Nat
         /\ Cardinality(still) <= Cardinality(late)
<1>1. IsFiniteSet(late)
  BY PipelineAssumption, FS_Subset
<1> QED
  BY <1>1, FS_Subset, FS_CardinalityType

\* A failure that is charged to an entry keeps the entry's promises, if the late
\* requests afterwards are late ones of before, and the charged one is not asking.
LEMMA ChargeKeeps ==
  ASSUME NEW n \in Nat \ {0}, NEW b \in Attempts!Buckets, NEW t \in Nat,
         NEW f \in Nat, NEW start \in Nat, start <= b.last,
         NEW u \in Nat, NEW v \in 0..(n - 1),
         ~Attempts!peek(b, t) => u # 0 /\ v = u - 1,
         f * AttemptCost + Worth(n, b.tokens, u)
           <= AttemptCapacity + (n - 1) * AttemptCost + n * ((b.last - start) * AttemptRate)
  PROVE  LET a == Attempts!allow(b, t)
         IN (f + 1) * AttemptCost + Worth(n, a.tokens, v)
              <= AttemptCapacity + (n - 1) * AttemptCost + n * ((a.last - start) * AttemptRate)
<1> USE ThrottleAssumption
<1> DEFINE g == Attempts!refill(b, t)
           a == Attempts!allow(b, t)
           more == (g.last - b.last) * AttemptRate
           was == Worth(n, b.tokens, u)
           is == Worth(n, a.tokens, v)
           rest == AttemptCapacity + (n - 1) * AttemptCost
           earned == (b.last - start) * AttemptRate
<1>1. b.tokens \in 0..AttemptCapacity /\ b.last \in Nat
  BY DEF Attempts!Buckets
<1>2. /\ g \in Attempts!Buckets /\ more \in Nat
      /\ g.last = IF t > b.last THEN t ELSE b.last
      /\ \/ g.tokens = b.tokens + more
         \/ g.tokens = AttemptCapacity /\ b.tokens + more >= AttemptCapacity
  BY AttemptRefill, Zenon
<1>3. g.tokens \in 0..AttemptCapacity /\ g.last \in Nat
  BY <1>2 DEF Attempts!Buckets
<1>4. /\ a.last = g.last /\ a \in Attempts!Buckets
      /\ Attempts!peek(b, t) => a.tokens = g.tokens - AttemptCost /\ g.tokens >= AttemptCost
      /\ ~Attempts!peek(b, t) => a.tokens = g.tokens /\ g.tokens < AttemptCost
  BY AttemptAllow, Zenon
<1>5. a.tokens \in Nat /\ a.last \in Nat
  BY <1>4 DEF Attempts!Buckets
<1> HIDE DEF g, a
<1>6. was \in Nat /\ is \in Nat
  <2>1. b.tokens \in Nat /\ a.tokens \in Nat /\ v \in Nat
    BY <1>1, <1>5
  <2>2. was \in Nat
    BY <2>1, WorthType, Zenon
  <2>3. is \in Nat
    BY <2>1, WorthType, Zenon
  <2> QED
    BY <2>2, <2>3
<1>7. n * more \in Nat /\ rest \in Nat /\ f * AttemptCost \in Nat
  <2> HIDE DEF more
  <2> QED
    BY <1>2
<1>8. AttemptCost + is <= was + n * more
  <2>1. CASE Attempts!peek(b, t)
    <3>1. g.tokens \in AttemptCost..AttemptCapacity
      BY <1>3, <1>4, <2>1
    <3>2. AttemptCost + Worth(n, g.tokens - AttemptCost, v) <= Worth(n, b.tokens, u) + n * more
      <4> HIDE DEF more
      <4> QED
        BY <1>1, <1>2, <3>1, WorthTaken, Zenon
    <3> QED
      BY <1>4, <2>1, <3>2
  <2>2. CASE ~Attempts!peek(b, t)
    <3>1. g.tokens = b.tokens + more /\ b.tokens + more < AttemptCost
      <4> HIDE DEF more
      <4> QED
        BY <1>1, <1>2, <1>3, <1>4, <2>2
    <3>2. AttemptCost + Worth(n, b.tokens + more, u - 1) = Worth(n, b.tokens, u) + n * more
      <4>1. b.tokens \in Nat /\ u \in Nat \ {0} /\ more \in Nat
        BY <1>1, <1>2, <2>2
      <4> HIDE DEF more
      <4> QED
        BY <3>1, <4>1, WorthMissed
    <3>3. is = Worth(n, b.tokens + more, u - 1)
      BY <1>4, <2>2, <3>1
    <3> HIDE DEF is, was, more
    <3> QED
      BY <1>6, <1>7, <3>2, <3>3 DEF was
  <2> QED
    BY <2>1, <2>2
<1>9. (a.last - start) * AttemptRate = earned + more /\ earned \in Int
  <2>1. (g.last - start) * AttemptRate = (b.last - start) * AttemptRate + (g.last - b.last) * AttemptRate
    BY <1>1, <1>3, SplitElapsed
  <2> QED
    BY <1>1, <1>4, <2>1
<1>10. n * ((a.last - start) * AttemptRate) = n * earned + n * more /\ n * earned \in Int
  <2>1. n * (earned + more) = n * earned + n * more /\ n * earned \in Int
    <3> HIDE DEF earned, more
    <3> QED
      BY <1>2, <1>9
  <2> HIDE DEF earned, more
  <2> QED
    BY <1>9, <2>1
<1>11. (f + 1) * AttemptCost = f * AttemptCost + AttemptCost
  OBVIOUS
<1>12. f * AttemptCost + was <= rest + n * earned
  OBVIOUS
<1>13. (f + 1) * AttemptCost + is <= rest + n * ((a.last - start) * AttemptRate)
  <2> HIDE DEF was, is, rest, earned, more
  <2> QED
    BY <1>6, <1>7, <1>8, <1>10, <1>11, <1>12
<1> QED
  BY <1>13 DEF a

\* The first failure of a key is paid for by its budget.
LEMMA NewEntryKeeps ==
  ASSUME NEW n \in Nat \ {0}, NEW t \in Nat, NEW v \in 0..(n - 1)
  PROVE  LET a == Attempts!allow(newAttemptLimiter(t), t)
         IN /\ a \in Attempts!Buckets /\ a.last = t
            /\ a.tokens = AttemptCapacity - AttemptCost
            /\ 1 * AttemptCost + Worth(n, a.tokens, v)
                 <= AttemptCapacity + (n - 1) * AttemptCost + n * ((t - t) * AttemptRate)
<1> USE ThrottleAssumption
<1> DEFINE b == newAttemptLimiter(t)
           a == Attempts!allow(b, t)
<1>1. b = [tokens |-> AttemptCapacity, last |-> t]
  BY DEF newAttemptLimiter, Attempts!newRateLimiter
<1>2. b \in Attempts!Buckets /\ b.tokens = AttemptCapacity /\ b.last = t
  BY <1>1 DEF Attempts!Buckets
<1>3. Attempts!refill(b, t) = b
  <2>1. ~(t > b.last)
    BY <1>2
  <2> HIDE DEF b
  <2> QED
    BY <2>1 DEF Attempts!refill
<1> HIDE DEF b
<1>4. Attempts!peek(b, t)
  BY <1>2, <1>3 DEF Attempts!peek
<1>5. a \in Attempts!Buckets /\ a.last = t /\ a.tokens = AttemptCapacity - AttemptCost
  <2>1. /\ a \in Attempts!Buckets /\ a.last = Attempts!refill(b, t).last
        /\ a.tokens = Attempts!refill(b, t).tokens - AttemptCost
    BY <1>2, <1>4, AttemptAllow
  <2> HIDE DEF a
  <2> QED
    BY <1>2, <1>3, <2>1
<1>6. AttemptCost + Worth(n, AttemptCapacity - AttemptCost, v)
        <= Worth(n, AttemptCapacity, 0) + n * 0
  <2>1. /\ AttemptCapacity \in 0..AttemptCapacity
        /\ AttemptCapacity \in AttemptCost..AttemptCapacity
        /\ AttemptCapacity = AttemptCapacity + 0 /\ 0 \in Nat
    OBVIOUS
  <2> QED
    BY <2>1, WorthTaken, Zenon
<1>7. Worth(n, AttemptCapacity, 0) + n * 0 = AttemptCapacity + (n - 1) * AttemptCost
  <2>1. (n - 1) * (AttemptCapacity % AttemptCost) = 0 /\ n * 0 = 0 /\ (n - 1) * AttemptCost \in Nat
    OBVIOUS
  <2>2. Worth(n, AttemptCapacity, 0)
          = AttemptCapacity + (n - 1) * (AttemptCapacity % AttemptCost) + (n - 1) * AttemptCost
    BY DEF Worth
  <2> QED
    BY <2>1, <2>2
<1>8. n * ((t - t) * AttemptRate) = 0 /\ 1 * AttemptCost = AttemptCost
  OBVIOUS
<1>9. (n - 1) * AttemptCost \in Nat
  OBVIOUS
<1> QED
  BY <1>5, <1>6, <1>7, <1>8, <1>9 DEF b

\* The requests that ask for a key, when one of them is judged.
LEMMA AskingFewer ==
  ASSUME NEW r \in Requests, req = [x \in Requests |-> req[x]],
         NEW q, q.step # "asking", req' = [req EXCEPT ![r] = q], NEW k
  PROVE  /\ Asking(k)' = Asking(k) \ {r}
         /\ \A x \in Requests \ {r} : req'[x] = req[x]
<1>1. req'[r] = q /\ \A x \in Requests \ {r} : req'[x] = req[x]
  OBVIOUS
<1> QED
  BY <1>1 DEF Asking, At

\* An entry that no step touched, with no more late requests than before.
LEMMA EntryUntouched ==
  ASSUME NEW k \in Keys, EntryInv(k), now \in Nat, now' \in Nat, now <= now',
         failed[k] \in Nat, since[k] \in Nat,
         entries'[k] = entries[k], failed'[k] = failed[k], since'[k] = since[k],
         Late(k)' \subseteq Late(k)
  PROVE  EntryInv(k)'
<1> USE ThrottleAssumption
<1> DEFINE b == entries[k].limiter
           n == Cardinality(Requests)
           u == Cardinality(Late(k))
           v == Cardinality(Late(k)')
<1>1. b \in Attempts!Buckets /\ b.tokens \in Nat /\ b.last \in Nat
  BY SMTT(30) DEF EntryInv, Attempts!Buckets
<1>2. Late(k) \subseteq Requests
  BY SMTT(30) DEF Late, Asking
<1>3. CASE Late(k)' = Late(k)
  <2>1. GuessBudget(k)'
    BY <1>3 DEF EntryInv, GuessBudget
  <2> QED
    BY <1>1, <2>1, SMTT(30) DEF EntryInv
<1> SUFFICES ASSUME Late(k)' # Late(k) PROVE EntryInv(k)'
  BY <1>3
<1>4. n \in Nat \ {0}
  BY <1>2, CountLate, Zenon
<1>5. u \in Nat /\ v \in Nat /\ v <= u
  BY <1>2, FewerLate
<1>6. Worth(n, b.tokens, v) <= Worth(n, b.tokens, u)
      /\ Worth(n, b.tokens, v) \in Nat /\ Worth(n, b.tokens, u) \in Nat
  <2> HIDE DEF b, n, u, v
  <2> QED
    BY <1>1, <1>4, <1>5, WorthMonotone, WorthType, Zenon
<1>7. failed[k] * AttemptCost + Worth(n, b.tokens, u)
        <= AttemptCapacity + (n - 1) * AttemptCost + n * ((b.last - since[k]) * AttemptRate)
  BY DEF EntryInv, GuessBudget
<1>8. failed[k] * AttemptCost + Worth(n, b.tokens, v)
        <= AttemptCapacity + (n - 1) * AttemptCost + n * ((b.last - since[k]) * AttemptRate)
  <2> DEFINE charged == failed[k] * AttemptCost
             bound == AttemptCapacity + (n - 1) * AttemptCost + n * ((b.last - since[k]) * AttemptRate)
  <2>1. charged \in Int
    OBVIOUS
  <2>2. bound \in Int
    <3> HIDE DEF n, b
    <3>1. (b.last - since[k]) * AttemptRate \in Int
      BY <1>1
    <3>2. n * ((b.last - since[k]) * AttemptRate) \in Int /\ (n - 1) * AttemptCost \in Int
      BY <1>4, <3>1
    <3> QED
      BY <3>2
  <2> HIDE DEF charged, bound, n, u, v, b
  <2>3. charged + Worth(n, b.tokens, v) <= bound
    BY <1>6, <1>7, <2>1, <2>2, SMTT(30) DEF charged, bound
  <2> QED
    BY <2>3 DEF charged, bound
<1>9. GuessBudget(k)'
  BY <1>8 DEF GuessBudget
<1>10. now' >= b.last
  BY <1>1, SMTT(30) DEF EntryInv
<1> QED
  BY <1>9, <1>10, SMTT(30) DEF EntryInv

\* recordFailure keeps every entry's promises: that of the key it charges, whose
\* failure was counted on, and those of the keys it leaves in the map.
LEMMA FailureKeeps ==
  ASSUME ThrottleInv, NEW r \in Requests, NEW k \in Keys, NEW t \in Nat, t <= now,
         r \in Asking(k), req[r].started = t,
         NEW q, q.step \notin {"routed", "admitted", "asking"}, req' = [req EXCEPT ![r] = q],
         recordFailure(k, t), UNCHANGED <<now, config>>
  PROVE  ThrottleInv'
<1> USE ThrottleAssumption
<1>1. PICK kept \in evictOldest(k) :
        LET new   == kept[k] = None
            entry == IF new THEN newAttemptLimiter(t) ELSE kept[k].limiter
        IN /\ entries' = [kept EXCEPT ![k] = [limiter |-> Attempts!allow(entry, t), lastSeen |-> t]]
           /\ failed' = [j \in Keys |-> IF j = k THEN (IF new THEN 1 ELSE failed[k] + 1)
                                        ELSE IF kept[j] = None THEN 0 ELSE failed[j]]
           /\ since' = [j \in Keys |-> IF j = k /\ new THEN t
                                       ELSE IF kept[j] = None THEN 0 ELSE since[j]]
  BY Zenon DEF recordFailure
<1>2. /\ entries = [j \in Keys |-> entries[j]] /\ DOMAIN entries = Keys
      /\ failed \in [Keys -> Nat] /\ since \in [Keys -> Nat]
      /\ req = [x \in Requests |-> req[x]] /\ now \in Nat
  BY DEF ThrottleInv
<1>3. /\ DOMAIN kept = Keys /\ kept = [j \in Keys |-> kept[j]]
      /\ kept[k] = entries[k] /\ \A j \in Keys : kept[j] # None => kept[j] = entries[j]
  <2>1. CASE kept = entries
    BY <1>2, <2>1
  <2>2. ASSUME entries[k] = None, NEW old \in Oldest, kept = [entries EXCEPT ![old] = None]
        PROVE  <1>3!:
    <3>1. old \in Keys /\ old # k
      BY <2>2 DEF Oldest, Present
    <3> QED
      BY <1>2, <2>2, <3>1
  <2> QED
    BY <2>1, <2>2 DEF evictOldest
<1> DEFINE new == kept[k] = None
           entry == IF new THEN newAttemptLimiter(t) ELSE kept[k].limiter
           a == Attempts!allow(entry, t)
           n == Cardinality(Requests)
<1>4. /\ entries' = [j \in Keys |-> entries'[j]] /\ DOMAIN entries' = Keys
      /\ entries'[k] = [limiter |-> a, lastSeen |-> t]
      /\ \A j \in Keys \ {k} : entries'[j] = kept[j]
  BY <1>1, <1>3
<1>5. /\ failed' \in [Keys -> Nat] /\ since' \in [Keys -> Nat]
      /\ failed'[k] = (IF new THEN 1 ELSE failed[k] + 1)
      /\ since'[k] = (IF new THEN t ELSE since[k])
      /\ \A j \in Keys \ {k} : kept[j] # None => failed'[j] = failed[j] /\ since'[j] = since[j]
  BY <1>1, <1>2
<1>6. /\ \A j : Asking(j)' = Asking(j) \ {r}
      /\ \A x \in Requests \ {r} : req'[x] = req[x]
      /\ req'[r] = q /\ req' = [x \in Requests |-> req'[x]]
  BY <1>2, AskingFewer
<1>7. \A x \in Requests : req'[x] # None => HeldInv(req[x])'
  <2>1. ASSUME NEW x \in Requests \ {r}, req'[x] # None PROVE HeldInv(req[x])'
    BY <1>6, <2>1 DEF ThrottleInv, HeldInv
  <2>2. HeldInv(req[r])'
    BY <1>6, Zenon DEF HeldInv
  <2> QED
    BY <2>1, <2>2
<1>8. ASSUME NEW j \in Keys \ {k}, j \in Present' PROVE EntryInv(j)'
  <2>1. entries'[j] = kept[j] /\ kept[j] # None /\ kept[j] = entries[j] /\ j \in Present
    BY <1>3, <1>4, <1>8 DEF Present
  <2>2. failed'[j] = failed[j] /\ since'[j] = since[j] /\ EntryInv(j)
    BY <1>5, <2>1, Zenon DEF ThrottleInv
  <2>3. Late(j)' \subseteq Late(j)
    <3>1. Late(j)' = {x \in Asking(j) \ {r} : ~Attempts!peek(entries'[j].limiter, req'[x].started)}
      BY <1>6 DEF Late
    <3>2. \A x \in Asking(j) \ {r} : req'[x] = req[x]
      BY <1>6 DEF Asking
    <3> QED
      BY <2>1, <3>1, <3>2 DEF Late
  <2>4. failed[j] \in Nat /\ since[j] \in Nat /\ now' \in Nat /\ now <= now'
    BY <1>2
  <2> QED
    BY <1>8, <2>1, <2>2, <2>3, <2>4, EntryUntouched, ZenonT(30)
<1> DEFINE late == Late(k)'
           v == Cardinality(late)
<1>9. late = {x \in Asking(k) \ {r} : ~Attempts!peek(a, req[x].started)}
  <2>1. Late(k)' = {x \in Asking(k) \ {r} : ~Attempts!peek(entries'[k].limiter, req'[x].started)}
    BY <1>6 DEF Late
  <2>2. \A x \in Asking(k) \ {r} : req'[x] = req[x]
    BY <1>6 DEF Asking
  <2>3. entries'[k].limiter = a
    BY <1>4, SMTT(30)
  <2> HIDE DEF a
  <2> QED
    BY <2>1, <2>2, <2>3, ZenonT(30)
<1>10. late \subseteq Requests /\ r \notin late
  BY <1>9 DEF Asking
<1>11. n \in Nat \ {0} /\ v \in 0..(n - 1)
  <2> HIDE DEF late
  <2>1. n \in Nat \ {0} /\ v \in Nat /\ v <= n - 1
    BY <1>10, CountLate, Zenon
  <2> QED
    BY <2>1
<1>12. EntryInv(k)'
  <2>1. CASE new
    <3>1. /\ a \in Attempts!Buckets /\ a.last = t /\ a.tokens = AttemptCapacity - AttemptCost
          /\ 1 * AttemptCost + Worth(n, a.tokens, v)
               <= AttemptCapacity + (n - 1) * AttemptCost + n * ((t - t) * AttemptRate)
      <4> HIDE DEF n, v
      <4> QED
        BY <1>11, <2>1, NewEntryKeeps, ZenonT(30)
    <3>2. entries'[k].limiter = a /\ failed'[k] = 1 /\ since'[k] = t
      <4>1. entries'[k].limiter = a
        BY <1>4
      <4> HIDE DEF entry, a, n
      <4> QED
        BY <1>5, <2>1, <4>1, Zenon
    <3> HIDE DEF a, n, v
    <3>3. GuessBudget(k)'
      BY <3>1, <3>2 DEF GuessBudget, n, v
    <3>4. a.tokens >= AttemptCapacity - 1 * AttemptCost
      BY <3>1, SMTT(30)
    <3> QED
      BY <3>1, <3>2, <3>3, <3>4 DEF EntryInv
  <2>2. CASE ~new
    <3> DEFINE b == entries[k].limiter
               f == failed[k]
               start == since[k]
               u == Cardinality(Late(k))
    <3>1. k \in Present /\ EntryInv(k)
      BY <1>3, <2>2, Zenon DEF ThrottleInv, Present
    <3>2. /\ b \in Attempts!Buckets /\ start <= b.last /\ b.last <= now
          /\ b.tokens >= AttemptCapacity - f * AttemptCost
          /\ f * AttemptCost + Worth(n, b.tokens, u)
               <= AttemptCapacity + (n - 1) * AttemptCost + n * ((b.last - start) * AttemptRate)
      BY <3>1 DEF EntryInv, GuessBudget
    <3>3. a = Attempts!allow(b, t) /\ f \in Nat /\ start \in Nat
      BY <1>2, <1>3, <2>2, ZenonT(30)
    <3>4. Late(k) \subseteq Requests
      BY DEF Late, Asking
    <3>5. ~Attempts!peek(b, t) => u # 0 /\ v = u - 1
      <4> SUFFICES ASSUME ~Attempts!peek(b, t) PROVE u # 0 /\ v = u - 1
        OBVIOUS
      <4>1. r \in Late(k)
        BY DEF Late
      <4>2. \A x \in Asking(k) : req[x].started \in Nat
        BY DEF Asking, At, ThrottleInv, HeldInv
      <4>3. \A x \in Asking(k) : Attempts!peek(a, req[x].started) <=> Attempts!peek(b, req[x].started)
        <5> HIDE DEF a, b
        <5> QED
          BY <3>2, <3>3, <4>2, LateStays, ZenonT(30)
      <4>4. late = Late(k) \ {r}
        <5> HIDE DEF a, b
        <5> QED
          BY <1>9, <4>3 DEF Late, b
      <4> HIDE DEF late
      <4> QED
        BY <3>4, <4>1, <4>4, CountLate
    <3>6. u \in Nat
      BY <3>4, CountLate, Zenon
    <3>7. (f + 1) * AttemptCost + Worth(n, a.tokens, v)
            <= AttemptCapacity + (n - 1) * AttemptCost + n * ((a.last - start) * AttemptRate)
      <4> HIDE DEF a, b, f, start, u, v, n
      <4> QED
        BY <1>11, <3>2, <3>3, <3>5, <3>6, ChargeKeeps, ZenonT(30)
    <3>8. /\ a \in Attempts!Buckets /\ a.last >= b.last /\ a.last <= now
          /\ a.tokens >= b.tokens - AttemptCost /\ a.tokens \in Nat /\ b.tokens \in Nat
          /\ a.last \in Nat /\ b.last \in Nat
      <4> HIDE DEF b, f, start
      <4> DEFINE g == Attempts!refill(b, t)
      <4>1. /\ g \in Attempts!Buckets /\ g.tokens >= b.tokens
            /\ g.last = IF t > b.last THEN t ELSE b.last
        BY <3>2, AttemptRefill, ZenonT(60)
      <4>2. /\ a \in Attempts!Buckets /\ a.last = g.last
            /\ a.tokens = g.tokens - AttemptCost \/ a.tokens = g.tokens
        BY <3>2, <3>3, AttemptAllow, SMTT(30)
      <4> HIDE DEF a, g
      <4>3. /\ g.tokens \in Nat /\ g.last \in Nat /\ a.tokens \in Nat /\ a.last \in Nat
            /\ b.tokens \in Nat /\ b.last \in Nat
        BY <3>2, <4>1, <4>2 DEF Attempts!Buckets
      <4> QED
        BY <1>2, <3>2, <4>1, <4>2, <4>3
    <3>9. entries'[k].limiter = a /\ failed'[k] = f + 1 /\ since'[k] = start
      BY <1>4, <1>5, <2>2
    <3>10. a.tokens >= AttemptCapacity - (f + 1) * AttemptCost
      <4>1. (f + 1) * AttemptCost = f * AttemptCost + AttemptCost /\ f * AttemptCost \in Nat
        BY <3>3
      <4> HIDE DEF a, b, f
      <4> QED
        BY <3>2, <3>8, <4>1
    <3>11. start <= a.last
      <4> HIDE DEF a, b, start
      <4> QED
        BY <3>2, <3>3, <3>8, SMTT(30)
    <3> HIDE DEF a, b, f, start, n, v
    <3>12. GuessBudget(k)'
      BY <3>7, <3>9 DEF GuessBudget, n, v
    <3> QED
      BY <3>8, <3>9, <3>10, <3>11, <3>12 DEF EntryInv
  <2> QED
    BY <2>1, <2>2, SMTT(30)
<1>13. \A j \in Present' : EntryInv(j)'
  <2>1. Present' \subseteq Keys
    BY DEF Present
  <2> QED
    BY <1>8, <1>12, <2>1
<1> QED
  BY <1>2, <1>4, <1>5, <1>6, <1>7, <1>13 DEF ThrottleInv

\* A step that does not touch the throttle, and after which no more requests are
\* late than before.
LEMMA ThrottleQuiet ==
  ASSUME ThrottleInv, UNCHANGED <<throttle, config>>, now' \in Nat, now <= now',
         req' = [x \in Requests |-> req'[x]],
         \A x \in Requests : req'[x] # None => HeldInv(req[x])',
         \A k \in Present : Late(k)' \subseteq Late(k)
  PROVE  ThrottleInv'
<1>1. UNCHANGED <<entries, failed, since>> /\ Present' = Present
  BY DEF throttle, Present
<1>2. failed \in [Keys -> Nat] /\ since \in [Keys -> Nat] /\ now \in Nat /\ Present \subseteq Keys
  BY DEF ThrottleInv, Present
<1>3. ASSUME NEW k \in Present PROVE EntryInv(k)'
  <2>1. /\ k \in Keys /\ EntryInv(k) /\ failed[k] \in Nat /\ since[k] \in Nat
        /\ entries'[k] = entries[k] /\ failed'[k] = failed[k] /\ since'[k] = since[k]
    BY <1>1, <1>2, <1>3 DEF ThrottleInv
  <2> QED
    BY <1>2, <2>1, EntryUntouched
<1> QED
  BY <1>1, <1>2, <1>3 DEF ThrottleInv

\* Nothing the throttle's promises are about changes, but for the clock.
LEMMA RequestsQuiet ==
  ASSUME ThrottleInv, UNCHANGED <<throttle, config, req>>, now' \in Nat, now <= now'
  PROVE  ThrottleInv'
<1>1. req' = [x \in Requests |-> req'[x]] /\ now \in Nat
  BY DEF ThrottleInv
<1>2. \A x \in Requests : req'[x] # None => HeldInv(req[x])'
  BY <1>1 DEF ThrottleInv, HeldInv
<1>3. \A k \in Present : Late(k)' \subseteq Late(k)
  BY DEF Late, Asking, At, throttle
<1> QED
  BY <1>1, <1>2, <1>3, ThrottleQuiet

\* A request moves on to anything but its judgement, and the throttle is not told.
LEMMA RequestMoves ==
  ASSUME ThrottleInv, NEW r \in Requests, NEW q, q.step # "asking", HeldInv(q),
         req' = [req EXCEPT ![r] = q], UNCHANGED <<throttle, config, now>>
  PROVE  ThrottleInv'
<1>1. req = [x \in Requests |-> req[x]] /\ now \in Nat
  BY DEF ThrottleInv
<1>2. /\ \A j : Asking(j)' = Asking(j) \ {r}
      /\ \A x \in Requests \ {r} : req'[x] = req[x]
      /\ req'[r] = q /\ req' = [x \in Requests |-> req'[x]]
  BY <1>1, AskingFewer
<1>3. \A x \in Requests : req'[x] # None => HeldInv(req[x])'
  BY <1>2 DEF ThrottleInv, HeldInv
<1>4. \A k \in Present : Late(k)' \subseteq Late(k)
  <2> SUFFICES ASSUME NEW k \in Present PROVE Late(k)' \subseteq Late(k)
    OBVIOUS
  <2>1. Late(k)' = {x \in Asking(k) \ {r} : ~Attempts!peek(entries'[k].limiter, req'[x].started)}
    BY <1>2 DEF Late
  <2>2. \A x \in Asking(k) \ {r} : req'[x] = req[x]
    BY <1>2 DEF Asking
  <2>3. entries' = entries
    BY DEF throttle
  <2> QED
    BY <2>1, <2>2, <2>3 DEF Late
<1> QED
  BY <1>1, <1>2, <1>3, <1>4, ThrottleQuiet

\* A request that passes the check is not late.
LEMMA RequestAsks ==
  ASSUME ThrottleInv, NEW r \in Requests, At(r, "admitted"),
         ~blocked(req[r].key, req[r].started), Goes(r, "asking"),
         UNCHANGED <<throttle, config, now>>
  PROVE  ThrottleInv'
<1>1. req = [x \in Requests |-> req[x]] /\ now \in Nat
  BY DEF ThrottleInv
<1>2. /\ req[r] = Held("admitted", req[r].key, req[r].started)
      /\ req[r].key \in Keys /\ req[r].started \in 0..now
  BY DEF At, ThrottleInv, HeldInv
<1>3. /\ req'[r] = Held("asking", req[r].key, req[r].started)
      /\ \A x \in Requests \ {r} : req'[x] = req[x]
      /\ req' = [x \in Requests |-> req'[x]]
  BY <1>1, <1>2 DEF Goes, Held
<1>4. req'[r].key = req[r].key /\ req'[r].started = req[r].started /\ req'[r].step = "asking"
  BY <1>3 DEF Held
<1>5. \A x \in Requests : req'[x] # None => HeldInv(req[x])'
  <2>1. HeldInv(req[r])'
    BY <1>2, <1>3, <1>4 DEF HeldInv
  <2>2. \A x \in Requests \ {r} : req'[x] # None => HeldInv(req[x])'
    BY <1>3, ZenonT(30) DEF ThrottleInv, HeldInv
  <2> QED
    BY <2>1, <2>2, ZenonT(30)
<1>6. \A k \in Present : Late(k)' \subseteq Late(k)
  <2> SUFFICES ASSUME NEW k \in Present, NEW x \in Late(k)' PROVE x \in Late(k)
    BY Zenon
  <2>1. /\ x \in Requests /\ req'[x] # None /\ req'[x].step = "asking" /\ req'[x].key = k
        /\ ~Attempts!peek(entries[k].limiter, req'[x].started)
    BY DEF Late, Asking, At, throttle
  <2>2. x # r
    <3>1. SUFFICES ASSUME x = r PROVE FALSE
      OBVIOUS
    <3>2. req[r].key = k /\ ~Attempts!peek(entries[k].limiter, req[r].started)
      BY <1>4, <2>1, <3>1
    <3> QED
      BY <3>2 DEF blocked, Present
  <2>3. req'[x] = req[x]
    BY <1>3, <2>1, <2>2
  <2> QED
    BY <2>1, <2>3 DEF Late, Asking, At
<1> QED
  BY <1>1, <1>3, <1>5, <1>6, ThrottleQuiet

\* A request that is done is neither judged nor late.
LEMMA RequestDone ==
  ASSUME ThrottleInv, NEW r \in Requests, NEW sent, NEW logged,
         req' = [req EXCEPT ![r] = Done(sent, logged)], UNCHANGED <<throttle, config, now>>
  PROVE  ThrottleInv'
<1>1. Done(sent, logged).step # "asking" /\ HeldInv(Done(sent, logged))
  BY DEF Done, HeldInv
<1> QED
  BY <1>1, RequestMoves, Zenon

\* So is one that ends with a status.
LEMMA RequestEnds ==
  ASSUME ThrottleInv, NEW r \in Requests, NEW status, Ends(r, status),
         UNCHANGED <<throttle, config, now>>
  PROVE  ThrottleInv'
BY RequestDone, Zenon DEF Ends

\* Every step of the pipeline keeps the throttle's promises.
LEMMA ThrottleStep ==
  ASSUME ThrottleInv, [PublicNext]_publicVars
  PROVE  ThrottleInv'
<1>0. now \in Nat /\ config \in Configurations
  BY DEF ThrottleInv
<1>2. CASE Elapses \/ Observes \/ UNCHANGED publicVars
  <2>1. UNCHANGED <<throttle, config, req>> /\ now' \in Nat /\ now <= now'
    BY <1>0, <1>2 DEF Elapses, Observes, publicVars, Tick, Mark, vars
  <2> QED
    BY <2>1, RequestsQuiet, Zenon
<1>3. ASSUME NEW r \in Requests, routeForHost(r) PROVE ThrottleInv'
  <2>1. UNCHANGED <<throttle, config, now>>
    BY <1>3 DEF routeForHost, vars
  <2>2. ASSUME NEW k \in config.keys, NEW step \in {"routed", "admitted"},
               req' = [req EXCEPT ![r] = Held(step, k, now)]
        PROVE  ThrottleInv'
    <3>1. k \in Keys
      BY <1>0, <2>2, PipelineAssumption
    <3>2. Held(step, k, now).step # "asking" /\ HeldInv(Held(step, k, now))
      BY <1>0, <3>1 DEF Held, HeldInv
    <3> QED
      BY <2>1, <2>2, <3>2, RequestMoves, Zenon
  <2> QED
    BY <1>3, <2>1, <2>2, RequestEnds DEF routeForHost
<1>4. ASSUME NEW r \in Requests, ReadsClock(r) PROVE ThrottleInv'
  <2>1. UNCHANGED <<throttle, config, req>> /\ now' = now
    BY <1>4 DEF ReadsClock, ReadClock
  <2> QED
    BY <1>0, <2>1, RequestsQuiet
<1>5. ASSUME NEW r \in Requests, PassesLimiter(r) PROVE ThrottleInv'
  <2>1. UNCHANGED <<throttle, config, now>> /\ At(r, "routed")
    BY <1>5 DEF PassesLimiter, allowRequest
  <2>2. CASE Ends(r, 429)
    BY <2>1, <2>2, RequestEnds
  <2>3. CASE Goes(r, "admitted")
    <3>1. /\ req[r] = Held("routed", req[r].key, req[r].started)
          /\ req[r].key \in Keys /\ req[r].started \in 0..now
          /\ req = [x \in Requests |-> req[x]]
      BY <2>1 DEF At, ThrottleInv, HeldInv
    <3> DEFINE q == Held("admitted", req[r].key, req[r].started)
    <3>2. req' = [req EXCEPT ![r] = q]
      <4>1. req' = [req EXCEPT ![r] = [req[r] EXCEPT !.step = "admitted"]]
        BY <2>3 DEF Goes
      <4>2. [req[r] EXCEPT !.step = "admitted"] = q
        BY <3>1 DEF Held
      <4> QED
        BY <4>1, <4>2, Zenon
    <3>3. q.step # "asking" /\ HeldInv(q)
      BY <3>1 DEF Held, HeldInv
    <3> HIDE DEF q
    <3> QED
      BY <2>1, <3>2, <3>3, RequestMoves, Zenon
  <2> QED
    BY <1>5, <2>2, <2>3, ZenonT(30) DEF PassesLimiter
<1>6. ASSUME NEW r \in Requests, PassesThrottle(r) PROVE ThrottleInv'
  <2>1. UNCHANGED <<throttle, config, now>> /\ At(r, "admitted")
    BY <1>6 DEF PassesThrottle, vars
  <2> QED
    BY <1>6, <2>1, RequestAsks, RequestEnds DEF PassesThrottle
<1>7. ASSUME NEW r \in Requests, PassesPolicy(r) PROVE ThrottleInv'
  <2>1. PICK result \in evaluatePublicAccess :
          /\ req' = [req EXCEPT ![r] =
               CASE result = "allowed" -> [step |-> "forwarding"]
                 [] result = "error" -> Done(503, 503)
                 [] OTHER -> Done(accessDeniedStatus(result), accessDeniedStatus(result))]
          /\ IF result = "basic_auth" THEN recordFailure(req[r].key, req[r].started)
                                      ELSE UNCHANGED throttle
    BY <1>7, Zenon DEF PassesPolicy
  <2>2. UNCHANGED <<config, now>> /\ At(r, "asking")
    BY <1>7 DEF PassesPolicy, vars
  <2>3. CASE result = "allowed"
    <3>1. req' = [req EXCEPT ![r] = [step |-> "forwarding"]] /\ UNCHANGED throttle
      BY <2>1, <2>3
    <3>2. [step |-> "forwarding"].step # "asking" /\ HeldInv([step |-> "forwarding"])
      BY DEF HeldInv
    <3> QED
      BY <2>2, <3>1, <3>2, RequestMoves, Zenon
  <2>4. CASE result = "error"
    <3>1. Ends(r, 503) /\ UNCHANGED throttle
      BY <2>1, <2>4 DEF Ends
    <3> QED
      BY <2>2, <3>1, RequestEnds
  <2>5. CASE result \notin {"allowed", "error"}
    <3> DEFINE q == Done(accessDeniedStatus(result), accessDeniedStatus(result))
    <3>1. req' = [req EXCEPT ![r] = q] /\ q.step = "done"
      BY <2>1, <2>5, Zenon DEF Done
    <3>2. CASE result = "basic_auth"
      <4>1. req[r].key \in Keys /\ req[r].started \in 0..now /\ r \in Asking(req[r].key)
        BY <2>2 DEF At, ThrottleInv, HeldInv, Asking
      <4>2. PICK k \in Keys, t \in Nat : k = req[r].key /\ t = req[r].started /\ t <= now
        BY <1>0, <4>1
      <4>3. recordFailure(k, t) /\ r \in Asking(k) /\ req[r].started = t
        BY <2>1, <3>2, <4>1, <4>2
      <4> HIDE DEF q
      <4> QED
        BY <2>2, <3>1, <4>2, <4>3, FailureKeeps, Zenon
    <3>3. CASE result # "basic_auth"
      <4>1. Ends(r, accessDeniedStatus(result)) /\ UNCHANGED throttle
        BY <2>1, <3>1, <3>3, Zenon DEF Ends
      <4> QED
        BY <2>2, <4>1, RequestEnds
    <3> QED
      BY <3>2, <3>3
  <2> QED
    BY <2>3, <2>4, <2>5
<1>8. ASSUME NEW r \in Requests, writeResponseStart(r) PROVE ThrottleInv'
  <2>1. PICK status : req' = [req EXCEPT ![r] = [step |-> "responding", sent |-> status]]
    BY <1>8, Zenon DEF writeResponseStart
  <2>2. UNCHANGED <<throttle, config, now>>
    BY <1>8 DEF writeResponseStart, vars
  <2>3. /\ [step |-> "responding", sent |-> status].step # "asking"
        /\ HeldInv([step |-> "responding", sent |-> status])
    BY DEF HeldInv
  <2> QED
    BY <2>1, <2>2, <2>3, RequestMoves, Zenon
<1>9. ASSUME NEW r \in Requests, RoundTripFails(r) \/ Completes(r) PROVE ThrottleInv'
  <2>1. UNCHANGED <<throttle, config, now>>
    BY <1>9 DEF RoundTripFails, Completes, vars
  <2>2. PICK sent, logged : req' = [req EXCEPT ![r] = Done(sent, logged)]
    BY <1>9 DEF RoundTripFails, Completes, Ends
  <2> QED
    BY <2>1, <2>2, RequestDone, Zenon
<1> QED
  BY <1>2, <1>3, <1>4, <1>5, <1>6, <1>7, <1>8, <1>9, ZenonT(30) DEF PublicNext

\* For every budget, number of requests and set of keys the throttle keeps count.
THEOREM ThrottleInvHolds == PublicSpec => []ThrottleInv
<1>1. PublicInit => ThrottleInv
  <2> SUFFICES ASSUME PublicInit PROVE ThrottleInv
    OBVIOUS
  <2>1. /\ now = 0 /\ config \in Configurations /\ req = [r \in Requests |-> None]
        /\ entries = [k \in Keys |-> None] /\ failed = [k \in Keys |-> 0]
        /\ since = [k \in Keys |-> 0]
    BY DEF PublicInit, Init, newAuthAttemptThrottle
  <2>2. Present = {}
    BY <2>1 DEF Present
  <2> QED
    BY <2>1, <2>2 DEF ThrottleInv
<1> QED
  BY <1>1, ThrottleStep, PTL DEF PublicSpec

\* recordFailure bounds the guessing: with any number of requests between the
\* check of a key and its charge, the failures of a key stay within its budget, one
\* more for each other request, and what the refill lets each of them try.
THEOREM GuessesBoundedHolds == PublicSpec => []GuessesBounded
<1>1. ThrottleInv => GuessesBounded
  <2> USE ThrottleAssumption
  <2> SUFFICES ASSUME ThrottleInv, NEW k \in Present
               PROVE  failed[k] * AttemptCost
                        <= AttemptCapacity + (Cardinality(Requests) - 1) * AttemptCost
                             + Cardinality(Requests) * (now - since[k]) * AttemptRate
    BY DEF GuessesBounded
  <2> DEFINE b == entries[k].limiter
             n == Cardinality(Requests)
             u == Cardinality(Late(k))
             earned == (b.last - since[k]) * AttemptRate
             all == (now - since[k]) * AttemptRate
             charged == failed[k] * AttemptCost
             rest == AttemptCapacity + (n - 1) * AttemptCost
  <2>1. EntryInv(k) /\ failed[k] \in Nat /\ since[k] \in Nat /\ now \in Nat
    BY ZenonT(30) DEF ThrottleInv, Present
  <2>2. /\ b \in Attempts!Buckets /\ since[k] <= b.last /\ b.last <= now
        /\ charged + Worth(n, b.tokens, u) <= rest + n * earned
    BY <2>1, ZenonT(30) DEF EntryInv, GuessBudget
  <2>3. b.tokens \in Nat /\ b.last \in Nat
    BY <2>2 DEF Attempts!Buckets
  <2>4. n \in Nat /\ u \in Nat
    <3>1. Late(k) \subseteq Requests
      BY DEF Late, Asking
    <3> QED
      BY <3>1, FewerLate, PipelineAssumption, FS_CardinalityType
  <2>5. earned \in Nat /\ all \in Nat /\ earned <= all
    <3> HIDE DEF b
    <3>1. /\ earned \in Nat /\ earned <= all
      BY <2>1, <2>2, <2>3, ElapsedMonotone, ZenonT(30)
    <3>2. all \in Int
      BY <2>1
    <3> HIDE DEF earned, all
    <3> QED
      BY <3>1, <3>2
  <2>6. n * earned <= n * all /\ n * earned \in Nat /\ n * all \in Nat
    <3> HIDE DEF earned, all, n
    <3> QED
      BY <2>4, <2>5, TimesMonotone
  <2>7. n * (now - since[k]) * AttemptRate = n * all
    <3> HIDE DEF n
    <3> QED
      BY <2>1, <2>4
  <2>8. Worth(n, b.tokens, u) \in Nat
    <3>1. CASE n # 0
      <4> HIDE DEF n, b, u
      <4> QED
        BY <2>3, <2>4, <3>1, WorthType
    <3>2. CASE n = 0
      <4> HIDE DEF b, u
      <4>1. CASE b.tokens >= AttemptCost
        <5>1. (b.tokens % AttemptCost) \in 0..(b.tokens - AttemptCost)
          BY <2>3, <4>1, ModBelow, Zenon
        <5>2. Worth(n, b.tokens, u) = b.tokens + (0 - 1) * (b.tokens % AttemptCost) + (0 - 1) * AttemptCost
          BY <3>2, <4>1 DEF Worth
        <5> QED
          BY <2>3, <5>1, <5>2
      <4>2. CASE ~(b.tokens >= AttemptCost)
        BY <2>3, <2>4, <3>2, <4>2 DEF Worth
      <4> QED
        BY <4>1, <4>2
    <3> QED
      BY <3>1, <3>2
  <2>9. charged \in Nat /\ rest \in Int
    <3> HIDE DEF n
    <3> QED
      BY <2>1, <2>4
  <2>10. charged <= rest + n * all
    <3> HIDE DEF charged, rest, earned, all, n, b, u
    <3> QED
      BY <2>2, <2>6, <2>8, <2>9
  <2> HIDE DEF all
  <2> QED
    BY <2>7, <2>10, ZenonT(30)
<1> QED
  BY <1>1, ThrottleInvHolds, PTL

\* PassesThrottle refuses a request only when its key's own failures have used up
\* the budget, whatever other keys and evictions do and whoever races for the map.
THEOREM BlockedOnlyAfterBudgetHolds == PublicSpec => BlockedOnlyAfterBudget
<1> DEFINE Refusal == \A r \in Requests :
       At(r, "admitted") /\ At(r, "done")'
         => failed[req[r].key] * AttemptCost > AttemptCapacity - AttemptCost
<1>1. ASSUME ThrottleInv, PublicNext, NEW r \in Requests, At(r, "admitted"), At(r, "done")'
      PROVE  failed[req[r].key] * AttemptCost > AttemptCapacity - AttemptCost
  <2>1. PassesThrottle(r)
    <3>1. req'[r] # req[r]
      BY <1>1 DEF At
    <3>2. ~Elapses /\ ~Observes
      BY <3>1 DEF Elapses, Observes
    <3>3. PICK x \in Requests :
            \/ routeForHost(x) \/ ReadsClock(x) \/ PassesLimiter(x) \/ PassesThrottle(x)
            \/ PassesPolicy(x)
            \/ writeResponseStart(x) \/ RoundTripFails(x) \/ Completes(x)
      BY <1>1, <3>2 DEF PublicNext
    <3>4. ~ReadsClock(x)
      BY <3>1 DEF ReadsClock
    <3>5. \E q : req' = [req EXCEPT ![x] = q]
      BY <3>3, <3>4 DEF routeForHost, PassesLimiter, PassesThrottle, PassesPolicy,
                        writeResponseStart, RoundTripFails, Completes, Ends, Goes
    <3>6. x = r
      BY <1>1, <3>1, <3>5 DEF ThrottleInv
    <3> QED
      BY <1>1, <3>3, <3>4, <3>6, ZenonT(60) DEF routeForHost, PassesLimiter, PassesPolicy,
                        writeResponseStart, RoundTripFails, Completes, Idle, At
  <2>2. /\ req[r].key \in Keys /\ req[r].started \in 0..now /\ now \in Nat
        /\ req = [x \in Requests |-> req[x]]
        /\ req[r] = Held("admitted", req[r].key, req[r].started)
    BY <1>1 DEF At, ThrottleInv, HeldInv
  <2>3. blocked(req[r].key, req[r].started)
    <3>1. ~Goes(r, "asking")
      BY <1>1, <2>2 DEF Goes, At, Held
    <3> QED
      BY <2>1, <3>1 DEF PassesThrottle
  <2> DEFINE k == req[r].key
             b == entries[k].limiter
             t == req[r].started
  <2>4. /\ k \in Present /\ ~Attempts!peek(b, t) /\ t \in Nat
    BY <2>2, <2>3 DEF blocked, Present
  <2>5. b \in Attempts!Buckets /\ b.tokens >= AttemptCapacity - failed[k] * AttemptCost
    BY <1>1, <2>4, Zenon DEF ThrottleInv, EntryInv
  <2>6. ~(b.tokens >= AttemptCost)
    BY <2>4, <2>5, PeekMeans, ZenonT(30)
  <2>7. b.tokens \in Nat /\ failed[k] \in Nat
    BY <1>1, <2>2, <2>5, SMTT(30) DEF Attempts!Buckets, ThrottleInv
  <2>8. failed[k] * AttemptCost \in Nat
    BY <2>7, ThrottleAssumption
  <2> HIDE DEF b, k
  <2> QED
    BY <2>5, <2>6, <2>7, <2>8, ThrottleAssumption DEF k
<1>2. ThrottleInv /\ [PublicNext]_publicVars => [Refusal]_publicVars
  BY <1>1
<1> HIDE DEF Refusal
<1>3. PublicSpec => [][Refusal]_publicVars
  BY <1>2, ThrottleInvHolds, PTL DEF PublicSpec
<1> QED
  BY <1>3, ZenonT(30) DEF Refusal, BlockedOnlyAfterBudget

===============================================================================
