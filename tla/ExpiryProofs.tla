----------------------------- MODULE ExpiryProofs ------------------------------
(***************************************************************************)
(* What expires at the gateway: the answers in the custom-domain cache and *)
(* the timers of a stream, which share nothing.                            *)
(*                                                                         *)
(* Bounded staleness of the cache holds for any number of overlapping      *)
(* lookups, any TTLs and any length of run.  The property says nothing of  *)
(* answers not yet returned; Dated follows each answer from the control    *)
(* plane through the cache to the lookup that returns it.  That a stream   *)
(* ends in time is not inductive either: DeadlineInv says that the timer   *)
(* that is to end it is armed, or has fired, as long as it goes on.        *)
(***************************************************************************)
EXTENDS DomainCache, StreamDeadline, TLAPS

-------------------------------------------------------------------------------
(* The custom-domain cache *)

\* What was once the answer stays on record as time passes and answers change.
LEMMA HeldStays ==
  ASSUME TypeOK, TypeOK', now <= now', NEW d, NEW from \in Int,
         \A t \in 0..now : past[t] \subseteq past'[t],
         HeldAfter(d, from)
  PROVE  HeldAfter(d, from)'
BY DEF HeldAfter, TypeOK

\* A later lower bound is a stronger claim.
LEMMA HeldWeaken ==
  ASSUME TypeOK, NEW d, NEW from \in Int, NEW less \in Int, less <= from, HeldAfter(d, from)
  PROVE  HeldAfter(d, less)
BY DEF HeldAfter, TypeOK

\* The cache starts empty and no lookup is under way.
LEMMA InitInv == Init => Inv
<1> SUFFICES ASSUME Init PROVE Inv
  OBVIOUS
<1> USE CacheAssumption
<1>1. TypeOK
  BY DEF Init, TypeOK
<1>2. Dated /\ BoundedStaleness
  BY DEF Init, Dated, BoundedStaleness, At
<1> QED
  BY <1>1, <1>2 DEF Inv

\* No step of a lookup, of the clock or of the control plane leaves the types.
LEMMA NextKeepsTypes == TypeOK /\ Dated /\ [Next]_vars => TypeOK'
<1> SUFFICES ASSUME TypeOK, Dated, [Next]_vars PROVE TypeOK'
  OBVIOUS
<1> USE CacheAssumption DEF TypeOK
<1>1. CASE Tick
  BY <1>1 DEF Tick, Answers
<1>2. ASSUME NEW d \in Answers, DomainChanges(d) PROVE TypeOK'
  BY <1>2 DEF DomainChanges
<1>3. ASSUME NEW r \in Requests, ResolveCustomDomain(r) PROVE TypeOK'
  <2>1. Holds("called", now, None) \in Held
    BY DEF Holds, Held
  <2> QED
    BY <1>3, <2>1 DEF ResolveCustomDomain
<1>4. ASSUME NEW r \in Requests, req[r] # None
      PROVE  req[r] \in Held /\ req[r].at \in 0..MaxTime /\ req[r].result \in Answers \cup {None}
  BY <1>4 DEF Held
<1>5. ASSUME NEW r \in Requests, readCache(r) PROVE TypeOK'
  <2>1. cache # None => Holds("returned", req[r].at, cache.result) \in Held
    BY <1>4, <1>5 DEF readCache, At, Holds, Held
  <2>2. Holds("asking", req[r].at, None) \in Held
    BY <1>4, <1>5 DEF readCache, At, Holds, Held
  <2> QED
    BY <1>5, <2>1, <2>2 DEF readCache
<1>6. ASSUME NEW r \in Requests, lookupAnswers(r) PROVE TypeOK'
  <2>1. Holds("answered", req[r].at, domain) \in Held
    BY <1>4, <1>6 DEF lookupAnswers, At, Holds, Held
  <2> QED
    BY <1>6, <2>1 DEF lookupAnswers
<1>7. ASSUME NEW r \in Requests, lookupFails(r) \/ Route(r) PROVE TypeOK'
  BY <1>7 DEF lookupFails, Route
<1>8. ASSUME NEW r \in Requests, storeCache(r) PROVE TypeOK'
  <2>1. req[r].result \in Answers
    BY <1>4, <1>8 DEF storeCache, At, Dated, HeldAfter
  <2>2. ttl(req[r].result) \in Nat
    BY DEF ttl
  <2>3. [result |-> req[r].result, expires |-> req[r].at + ttl(req[r].result)]
          \in [result : Answers, expires : Nat]
    BY <1>4, <1>8, <2>1, <2>2 DEF storeCache, At
  <2>4. Holds("returned", req[r].at, req[r].result) \in Held
    BY <1>4, <1>8 DEF storeCache, At, Holds, Held
  <2> QED
    BY <1>8, <2>3, <2>4 DEF storeCache
<1>9. CASE UNCHANGED vars
  BY <1>9 DEF vars
<1> QED
  BY <1>1, <1>2, <1>3, <1>5, <1>6, <1>7, <1>8, <1>9 DEF Next

\* Time passes, or the control plane's answer changes.
LEMMA WorldKeepsInv ==
  ASSUME Inv, TypeOK', Tick \/ \E d \in Answers : DomainChanges(d)
  PROVE  Dated' /\ BoundedStaleness'
<1> USE CacheAssumption
<1>1. TypeOK /\ Dated /\ BoundedStaleness
  BY DEF Inv
<1>2. /\ UNCHANGED <<cache, req>> /\ now <= now' /\ now \in Nat /\ now' \in Nat
      /\ \A t \in 0..now : past[t] \subseteq past'[t]
      /\ domain' \in past'[now']
  <2>1. CASE Tick
    BY <1>1, <2>1 DEF Tick, TypeOK, Dated
  <2>2. CASE \E d \in Answers : DomainChanges(d)
    BY <1>1, <2>2 DEF DomainChanges, TypeOK
  <2> QED
    BY <2>1, <2>2, Zenon
<1>3. \A d, from : from \in Int /\ HeldAfter(d, from) => HeldAfter(d, from)'
  <2> TAKE d, from
  <2> HAVE from \in Int /\ HeldAfter(d, from)
  <2> QED
    BY <1>1, <1>2, HeldStays
<1>4. \A r \in Requests : req[r] # None => req[r].at \in Int
  BY <1>1 DEF TypeOK, Held
<1>5. \A a : ttl(a) \in Int
  BY DEF ttl
<1>6. cache # None => cache.expires \in Int
  BY <1>1 DEF TypeOK
<1>7. \A r \in Requests : req[r] # None => req[r].at <= now'
  BY <1>1, <1>2, <1>4 DEF Dated
<1>8. \A r \in Requests : At(r, "answered") => HeldAfter(req[r].result, req[r].at - 1)'
  BY <1>1, <1>2, <1>3, <1>4 DEF Dated, At
<1>9. cache # None => HeldAfter(cache.result, cache.expires - ttl(cache.result) - 1)'
  <2> SUFFICES ASSUME cache # None
               PROVE  HeldAfter(cache.result, cache.expires - ttl(cache.result) - 1)'
    OBVIOUS
  <2>1. cache.expires - ttl(cache.result) - 1 \in Int
    BY <1>5, <1>6
  <2>2. HeldAfter(cache.result, cache.expires - ttl(cache.result) - 1)
    BY <1>1 DEF Dated
  <2>3. cache' = cache /\ ttl(cache.result)' = ttl(cache.result)
    BY <1>2 DEF ttl
  <2> QED
    BY <1>3, <2>1, <2>2, <2>3 DEF HeldAfter
<1>10. Dated'
  BY <1>2, <1>7, <1>8, <1>9 DEF Dated, At
<1>11. BoundedStaleness'
  <2> SUFFICES ASSUME NEW r \in Requests, At(r, "returned")
               PROVE  \/ HeldAfter(req[r].result, req[r].at - ttl(req[r].result))'
                      \/ HeldAfter(req[r].result, req[r].at - 1)'
    BY <1>2 DEF BoundedStaleness, At
  <2> DEFINE a == req[r].result
             k == req[r].at
  <2>1. k \in Int /\ k - ttl(a) \in Int /\ k - 1 \in Int
    BY <1>4, <1>5 DEF At
  <2>2. HeldAfter(a, k - ttl(a)) \/ HeldAfter(a, k - 1)
    BY <1>1 DEF BoundedStaleness
  <2>3. req' = req /\ ttl(a)' = ttl(a)
    BY <1>2 DEF ttl
  <2>4. CASE HeldAfter(a, k - ttl(a))
    BY <1>3, <2>1, <2>3, <2>4 DEF HeldAfter
  <2>5. CASE HeldAfter(a, k - 1)
    BY <1>3, <2>1, <2>3, <2>5 DEF HeldAfter
  <2> QED
    BY <2>2, <2>4, <2>5
<1> QED
  BY <1>10, <1>11

\* A step of one lookup: the clock, the answer and their record stand still, so
\* only that lookup's own claim and the cache's have to be shown.
LEMMA LookupKeepsInv ==
  ASSUME Inv, NEW r \in Requests,
         UNCHANGED <<now, domain, past>>,
         NEW h, req' = [req EXCEPT ![r] = h],
         h # None => h.at \in Int /\ h.at <= now,
         h # None /\ h.step = "answered" => HeldAfter(h.result, h.at - 1),
         h # None /\ h.step = "returned" =>
           HeldAfter(h.result, h.at - ttl(h.result)) \/ HeldAfter(h.result, h.at - 1),
         cache' # None => HeldAfter(cache'.result, cache'.expires - ttl(cache'.result) - 1)
  PROVE  Dated' /\ BoundedStaleness'
<1>1. TypeOK /\ Dated /\ BoundedStaleness
  BY DEF Inv
<1>2. req \in [Requests -> Held \cup {None}]
  BY <1>1 DEF TypeOK
<1>3. /\ req'[r] = h
      /\ \A q \in Requests : q # r => req'[q] = req[q]
  BY <1>2
<1>4. \A q \in Requests : req'[q] # None => req'[q].at <= now
  BY <1>1, <1>3 DEF Dated
<1>5. \A q \in Requests : req'[q] # None /\ req'[q].step = "answered"
        => HeldAfter(req'[q].result, req'[q].at - 1)
  BY <1>1, <1>3 DEF Dated, At
<1>6. \A q \in Requests : req'[q] # None /\ req'[q].step = "returned"
        => \/ HeldAfter(req'[q].result, req'[q].at - ttl(req'[q].result))
           \/ HeldAfter(req'[q].result, req'[q].at - 1)
  BY <1>1, <1>3 DEF BoundedStaleness, At
<1>7. Dated'
  BY <1>1, <1>4, <1>5 DEF Dated, At, HeldAfter, ttl
<1>8. BoundedStaleness'
  BY <1>6 DEF BoundedStaleness, At, HeldAfter, ttl
<1> QED
  BY <1>7, <1>8

\* Every step of the resolver and of its surroundings keeps answers dated.
LEMMA NextKeepsInv == Inv /\ [Next]_vars => Inv'
<1> SUFFICES ASSUME Inv, [Next]_vars PROVE Inv'
  OBVIOUS
<1> USE CacheAssumption
<1>1. TypeOK'
  BY NextKeepsTypes DEF Inv
<1>2. TypeOK /\ Dated /\ BoundedStaleness
  BY DEF Inv
<1>3. SUFFICES Dated' /\ BoundedStaleness'
  BY <1>1 DEF Inv
<1>4. CASE Tick \/ \E d \in Answers : DomainChanges(d)
  BY <1>1, <1>4, WorldKeepsInv
<1>5. CASE UNCHANGED vars
  BY <1>2, <1>5 DEF vars, Dated, BoundedStaleness, At, HeldAfter
<1>6. \A a : ttl(a) \in Nat
  BY DEF ttl
<1>7. \A r \in Requests : req[r] # None => req[r].at \in Int /\ req[r].at <= now
  BY <1>2 DEF TypeOK, Held, Dated
<1>8. cache # None => HeldAfter(cache.result, cache.expires - ttl(cache.result) - 1)
  BY <1>2 DEF Dated
<1>9. now \in Int
  BY <1>2 DEF TypeOK
<1>10. ASSUME NEW r \in Requests, ResolveCustomDomain(r) PROVE Dated' /\ BoundedStaleness'
  <2> DEFINE h == Holds("called", now, None)
  <2>1. req' = [req EXCEPT ![r] = h] /\ UNCHANGED <<now, domain, past, cache>>
    BY <1>10 DEF ResolveCustomDomain
  <2>2. h.at = now /\ h.step # "answered" /\ h.step # "returned"
    BY DEF Holds
  <2>3. h # None => h.at \in Int /\ h.at <= now
    BY <1>9, <2>2
  <2> HIDE DEF h
  <2> QED
    BY <1>8, <2>1, <2>2, <2>3, LookupKeepsInv, Zenon
<1>11. ASSUME NEW r \in Requests, readCache(r) PROVE Dated' /\ BoundedStaleness'
  <2>1. req[r].at \in Int /\ req[r].at <= now
    BY <1>7, <1>11 DEF readCache, At
  <2>2. CASE cache # None /\ req[r].at < cache.expires
    <3> DEFINE h == Holds("returned", req[r].at, cache.result)
    <3>1. req' = [req EXCEPT ![r] = h] /\ UNCHANGED <<now, domain, past, cache>>
      BY <1>11, <2>2 DEF readCache
    <3>2. h.at = req[r].at /\ h.step = "returned" /\ h.result = cache.result
      BY DEF Holds
    <3>3. cache.expires \in Int
      BY <1>2, <2>2 DEF TypeOK
    <3>4. /\ cache.expires - ttl(cache.result) - 1 \in Int
          /\ req[r].at - ttl(cache.result) \in Int
          /\ req[r].at - ttl(cache.result) <= cache.expires - ttl(cache.result) - 1
      BY <1>6, <2>1, <2>2, <3>3
    <3>5. HeldAfter(cache.result, req[r].at - ttl(cache.result))
      BY <1>2, <1>8, <2>2, <3>4, HeldWeaken
    <3> QED
      BY <1>8, <2>1, <3>1, <3>2, <3>5, LookupKeepsInv, Zenon
  <2>3. CASE ~(cache # None /\ req[r].at < cache.expires)
    <3> DEFINE h == Holds("asking", req[r].at, None)
    <3>1. req' = [req EXCEPT ![r] = h] /\ UNCHANGED <<now, domain, past, cache>>
      BY <1>11, <2>3, Zenon DEF readCache
    <3>2. h.at = req[r].at /\ h.step = "asking"
      BY DEF Holds
    <3> QED
      BY <1>8, <2>1, <3>1, <3>2, LookupKeepsInv, Zenon
  <2> QED
    BY <2>2, <2>3
<1>12. ASSUME NEW r \in Requests, lookupAnswers(r) PROVE Dated' /\ BoundedStaleness'
  <2> DEFINE h == Holds("answered", req[r].at, domain)
  <2>1. req[r].at \in Int /\ req[r].at <= now
    BY <1>7, <1>12 DEF lookupAnswers, At
  <2>2. req' = [req EXCEPT ![r] = h] /\ UNCHANGED <<now, domain, past, cache>>
    BY <1>12 DEF lookupAnswers
  <2>3. h.at = req[r].at /\ h.step = "answered" /\ h.result = domain
    BY DEF Holds
  <2>4. HeldAfter(domain, req[r].at - 1)
    <3>1. now \in 0..now /\ now > req[r].at - 1 /\ domain \in past[now]
      BY <1>2, <2>1 DEF TypeOK, Dated
    <3> QED
      BY <3>1 DEF HeldAfter
  <2> QED
    BY <1>8, <2>1, <2>2, <2>3, <2>4, LookupKeepsInv, Zenon
<1>13. ASSUME NEW r \in Requests, lookupFails(r) \/ Route(r)
       PROVE Dated' /\ BoundedStaleness'
  <2>1. req' = [req EXCEPT ![r] = None] /\ UNCHANGED <<now, domain, past, cache>>
    BY <1>13 DEF lookupFails, Route
  <2> QED
    BY <1>8, <2>1, LookupKeepsInv, Zenon
<1>14. ASSUME NEW r \in Requests, storeCache(r) PROVE Dated' /\ BoundedStaleness'
  <2> DEFINE a == req[r].result
             k == req[r].at
             h == Holds("returned", k, a)
  <2>1. k \in Int /\ k <= now
    BY <1>7, <1>14 DEF storeCache, At
  <2>2. HeldAfter(a, k - 1)
    BY <1>2, <1>14 DEF storeCache, Dated
  <2>3. req' = [req EXCEPT ![r] = h] /\ UNCHANGED <<now, domain, past>>
    BY <1>14 DEF storeCache
  <2>4. h.at = k /\ h.step = "returned" /\ h.result = a
    BY DEF Holds
  <2>5. cache' = cache \/ cache' = [result |-> a, expires |-> k + ttl(a)]
    BY <1>14 DEF storeCache
  <2>6. ASSUME cache' # None
        PROVE  HeldAfter(cache'.result, cache'.expires - ttl(cache'.result) - 1)
    <3>1. CASE cache' = cache
      BY <1>8, <2>6, <3>1
    <3>2. CASE cache' = [result |-> a, expires |-> k + ttl(a)]
      <4>1. cache'.result = a /\ cache'.expires = k + ttl(a)
        BY <3>2
      <4>2. (cache').expires - ttl((cache').result) - 1 = k - 1
        BY <2>1, <4>1 DEF ttl
      <4> HIDE DEF a, k
      <4> QED
        BY <2>2, <4>1, <4>2 DEF HeldAfter
    <3> QED
      BY <2>5, <3>1, <3>2
  <2> QED
    BY <2>1, <2>2, <2>3, <2>4, <2>6, LookupKeepsInv, Zenon
<1> QED
  BY <1>4, <1>5, <1>10, <1>11, <1>12, <1>13, <1>14 DEF Next

\* Every answer in flight and in the cache held after the reading it is dated
\* with, for all TTLs and any overlap of lookups.
THEOREM AnswersAreDated == Spec => []Inv
BY InitInv, NextKeepsInv, PTL DEF Spec

\* No lookup is answered with something the control plane stopped saying more
\* than the answer's TTL before the lookup began.
THEOREM StalenessIsBounded == Spec => []BoundedStaleness
<1>1. Inv => BoundedStaleness
  BY DEF Inv
<1> QED
  BY <1>1, InitInv, NextKeepsInv, PTL DEF Spec

-------------------------------------------------------------------------------
(* The deadline of a stream *)

\* A timer of the deadline: what its function reports, when it expires, is it armed.
Timers == [cause : Causes \cup {"nil"}, at : Int, armed : BOOLEAN]

\* Stop, and a timer that fires, disarm a timer and leave the rest of it alone.
LEMMA Disarmed ==
  ASSUME NEW t \in Timers, NEW u, u = [t EXCEPT !.armed = FALSE]
  PROVE  u \in Timers /\ u.cause = t.cause /\ u.at = t.at /\ u.armed = FALSE
BY Zenon DEF Timers

\* A timer that does not exist is not armed, and stays so.
LEMMA NilStays == [Nil EXCEPT !.armed = FALSE] = Nil
<1> DEFINE u == [Nil EXCEPT !.armed = FALSE]
<1>1. Nil \in Timers
  BY DEF Timers, Nil, Never, Causes
<1>2. u \in Timers /\ u.cause = Nil.cause /\ u.at = Nil.at /\ u.armed = FALSE
  BY <1>1, Disarmed, Zenon
<1> HIDE DEF u
<1>3. u = Nil
  BY <1>2 DEF Timers, Nil
<1> QED
  BY <1>3 DEF u

\* Reset arms the timer for another instant and keeps its function.
LEMMA Rearmed ==
  ASSUME NEW t \in Timers, NEW n \in Int, NEW u, u = [t EXCEPT !.at = n, !.armed = TRUE]
  PROVE  u \in Timers /\ u.cause = t.cause /\ u.at = n /\ u.armed
BY Zenon DEF Timers

\* newStreamDeadline arms the two timers, or none for a zero timeout.
LEMMA DeadlineInit ==
  ASSUME newStreamDeadline
  PROVE  DeadlineInv
<1> USE DeadlineAssumption DEF newStreamDeadline, Nil, Never, Causes, Calls
<1>1. DeadlineTypeOK
  <2>1. phase \in Timers
    BY DEF Timers
  <2>2. max \in Timers
    BY DEF Timers
  <2> QED
    BY <2>1, <2>2, Zenon DEF DeadlineTypeOK, Timers
<1>2. MaxLifetime > 0 => max # Nil /\ Pending(max)
  BY DEF Pending
<1>3. RequestTimeout > 0 => phase # Nil /\ Pending(phase)
  BY ZenonT(60) DEF Pending
<1> QED
  BY <1>1, <1>2, <1>3 DEF DeadlineInv

\* The calls of the handlers, the timers and the clock keep it: only Stop disarms
\* a timer without its function starting, and only a timer that fires takes the
\* place of one that is armed.
LEMMA DeadlineStep ==
  ASSUME DeadlineInv, [DeadlineNext]_deadlineVars
  PROVE  DeadlineInv'
<1> USE DeadlineAssumption DEF DeadlineTypeOK, DeadlineInv, Pending, Nil, Never, Causes, Calls
<1>0. phase \in Timers /\ max \in Timers
  BY DEF Timers
<1>1. CASE MarkResponseStarted
  BY <1>1 DEF MarkResponseStarted, AfterFunc
<1>2. CASE Touch
  <2>1. CASE phase = Nil
    BY <1>2, <2>1 DEF Touch
  <2>2. CASE phase # Nil
    <3>1. phase' = [phase EXCEPT !.at = elapsed + IdleTimeout, !.armed = TRUE]
      BY <1>2, <2>2 DEF Touch
    <3>0. elapsed + IdleTimeout \in Int
      OBVIOUS
    <3>2. /\ phase' \in Timers /\ phase'.cause = phase.cause
          /\ phase'.at = elapsed + IdleTimeout /\ phase'.armed
      BY <1>0, <3>0, <3>1, Rearmed, Zenon
    <3> QED
      BY <1>2, <2>2, <3>2 DEF Touch, Timers
  <2> QED
    BY <2>1, <2>2
<1>3. CASE FirePhase
  <2>1. phase' \in Timers /\ phase'.cause = phase.cause /\ phase'.at = phase.at
    BY <1>0, <1>3, Disarmed, Zenon DEF FirePhase
  <2>2. phase # Nil /\ phase' # Nil
    BY <1>3, <2>1 DEF FirePhase
  <2> QED
    BY <1>3, <2>1, <2>2 DEF FirePhase, Timers
<1>4. CASE FireMax
  <2>1. max' \in Timers /\ max'.cause = max.cause /\ max'.at = max.at
    BY <1>0, <1>4, Disarmed, Zenon DEF FireMax
  <2>2. max # Nil /\ max' # Nil
    BY <1>4, <2>1 DEF FireMax
  <2> QED
    BY <1>4, <2>1, <2>2 DEF FireMax, Timers
<1>5. ASSUME NEW c \in Causes, RunTimerFunc(c)
      PROVE  DeadlineInv'
  BY <1>5 DEF RunTimerFunc
<1>6. CASE ParentCanceled
  BY <1>6 DEF ParentCanceled
<1>7. CASE Stop
  <2>0. /\ phase' = [phase EXCEPT !.armed = FALSE]
        /\ max' = [max EXCEPT !.armed = FALSE]
    BY <1>7 DEF Stop
  <2>1. phase' \in Timers /\ phase'.cause = phase.cause /\ phase'.at = phase.at
    BY <1>0, <2>0, Disarmed, Zenon
  <2>2. max' \in Timers /\ max'.cause = max.cause /\ max'.at = max.at
    BY <1>0, <2>0, Disarmed, Zenon
  <2>3. phase = Nil => phase' = Nil
    BY <2>0, NilStays, Zenon
  <2>4. max = Nil => max' = Nil
    BY <2>0, NilStays, Zenon
  <2> QED
    BY <1>7, <2>1, <2>2, <2>3, <2>4 DEF Stop, Timers
<1>8. CASE TimePasses
  BY <1>8 DEF TimePasses
<1>10. ASSUME NEW next \in Calls, Goes(next)
       PROVE  DeadlineInv'
  BY <1>10 DEF Goes
<1>9. CASE UNCHANGED deadlineVars
  BY <1>9 DEF deadlineVars
<1> QED
  BY <1>1, <1>2, <1>3, <1>4, <1>5, <1>6, <1>7, <1>8, <1>9, <1>10, ZenonT(30)
     DEF DeadlineNext, RequestSent, WriteReturns, CallFails, HandlerReturns,
         HandlerLeaves, LocalEnds

\* Time passes only when no timer has expired, no function of one runs and no
\* handler that could see its context has it done: past a limit, only in a call.
LEMMA TimeIsBounded ==
  ASSUME DeadlineInv, TimePasses, ~stopped
  PROVE  \/ call = "client"
         \/ call \in {"send", "leave"} /\ elapsed < ReadTimeout
         \/ call = "leave" /\ elapsed < since + LeaveTimeout
         \/ /\ MaxLifetime > 0 => elapsed < MaxLifetime
            /\ started = Never /\ RequestTimeout > 0 => elapsed < RequestTimeout
<1> USE DeadlineAssumption DEF DeadlineInv, DeadlineTypeOK
<1>1. CASE cause = "none"
  BY <1>1 DEF TimePasses, Urgent, Pending, Nil
<1>2. CASE cause # "none"
  BY <1>2 DEF TimePasses, Urgent, Calls
<1> QED
  BY <1>1, <1>2

\* For any timeouts a stream goes past MaxLifetime, whatever Touch and
\* MarkResponseStarted do to the other timer, and past RequestTimeout without a
\* response, only while its handler is in a call the context does not end; a
\* timeout of zero is none (newStreamDeadline).
THEOREM EndsInTimeHolds == DeadlineSpec => EndsInTime
<1>1. newStreamDeadline => DeadlineInv
  BY DeadlineInit
<1>2. DeadlineInv /\ [DeadlineNext]_deadlineVars => DeadlineInv'
  BY DeadlineStep
<1>3. DeadlineInv /\ [DeadlineNext]_deadlineVars
        => [elapsed' > elapsed /\ ~stopped =>
              \/ call = "client"
              \/ call \in {"send", "leave"} /\ elapsed < ReadTimeout
              \/ call = "leave" /\ elapsed < since + LeaveTimeout
              \/ /\ MaxLifetime > 0 => elapsed < MaxLifetime
                 /\ started = Never /\ RequestTimeout > 0
                      => elapsed < RequestTimeout]_deadlineVars
  <2> SUFFICES ASSUME DeadlineInv, DeadlineNext, elapsed' > elapsed, ~stopped
               PROVE  TimePasses
    BY TimeIsBounded
  <2>1. elapsed \in Nat
    BY DEF DeadlineInv, DeadlineTypeOK
  <2>2. CASE elapsed' = elapsed
    BY <2>1, <2>2
  <2> QED
    BY <2>2 DEF DeadlineNext, MarkResponseStarted, Touch, FirePhase, FireMax,
       RunTimerFunc, ParentCanceled, Goes, Stop, RequestSent, WriteReturns, CallFails,
       HandlerReturns, HandlerLeaves, LocalEnds
<1> QED
  BY <1>1, <1>2, <1>3, PTL DEF DeadlineSpec, EndsInTime

\* A timer function starts only after the silence its cause reports.
LEMMA FiringJustified ==
  ASSUME DeadlineInv, [DeadlineNext]_deadlineVars
  PROVE  /\ "idle_timeout" \in firing' \ firing =>
              started # Never /\ elapsed - active >= IdleTimeout
         /\ "request_timeout" \in firing' \ firing =>
              started = Never /\ elapsed >= RequestTimeout
<1>1. CASE FirePhase
  BY <1>1, DeadlineAssumption DEF FirePhase, DeadlineInv, DeadlineTypeOK, Nil, Never
<1>2. CASE FireMax
  BY <1>2 DEF FireMax, DeadlineInv, Nil
<1>3. CASE firing' \subseteq firing
  BY <1>3
<1> QED
  BY <1>1, <1>2, <1>3 DEF DeadlineNext, deadlineVars, MarkResponseStarted,
     Touch, RunTimerFunc, ParentCanceled, Goes, Stop, RequestSent, WriteReturns,
     CallFails, HandlerReturns, HandlerLeaves, LocalEnds, TimePasses

\* A stream is never cut off early: idle_timeout starts only after IdleTimeout of
\* silence in a response that has started, request_timeout only when none has
\* started by RequestTimeout.
THEOREM TimersJustifiedHolds == DeadlineSpec => TimersJustified
<1>1. newStreamDeadline => DeadlineInv
  BY DeadlineInit
<1>2. DeadlineInv /\ [DeadlineNext]_deadlineVars => DeadlineInv'
  BY DeadlineStep
<1>3. DeadlineInv /\ [DeadlineNext]_deadlineVars
        => [/\ "idle_timeout" \in firing' \ firing =>
                 started # Never /\ elapsed - active >= IdleTimeout
            /\ "request_timeout" \in firing' \ firing =>
                 started = Never /\ elapsed >= RequestTimeout]_deadlineVars
  BY FiringJustified
<1> QED
  BY <1>1, <1>2, <1>3, PTL DEF DeadlineSpec, TimersJustified

===============================================================================
