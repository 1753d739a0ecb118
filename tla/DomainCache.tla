------------------------------ MODULE DomainCache ------------------------------
(***************************************************************************)
(* cachedCustomDomainResolver for one hostname.  A public request samples  *)
(* the clock, reads the cache under the read lock, and on a miss or an     *)
(* expired entry asks the control plane without holding a lock; the answer *)
(* is stored with an expiry counted from the first clock reading.  Lookups *)
(* overlap, so a slow one may store its answer over that of a later one.   *)
(***************************************************************************)
EXTENDS Integers

CONSTANTS Requests,  \* concurrent lookups
          Found,     \* answers with result.Found: the subdomains routed to
          Missing,   \* answers without: the reasons of a miss
          HitTTL, MissTTL,
          MaxTime,   \* bound on the clock
          None

ASSUME CacheAssumption ==
  /\ HitTTL \in Nat /\ MissTTL \in Nat /\ MaxTime \in Nat
  /\ Found \cap Missing = {} /\ None \notin Found \cup Missing

Answers == Found \cup Missing

VARIABLES now,    \* the clock
          domain, \* the control plane's answer at this moment
          past,   \* the answers it had during each tick
          cache,  \* the cache entry, or None
          req     \* what each lookup holds, None when it is not running

vars == <<now, domain, past, cache, req>>

Held == [step : {"called", "asking", "answered", "returned"}, at : 0..MaxTime,
         result : Answers \cup {None}]

TypeOK ==
  /\ now \in 0..MaxTime
  /\ domain \in Answers
  /\ past \in [0..MaxTime -> SUBSET Answers]
  /\ cache \in [result : Answers, expires : Nat] \cup {None}
  /\ req \in [Requests -> Held \cup {None}]

Init ==
  /\ now = 0
  /\ domain \in Answers
  /\ past = [t \in 0..MaxTime |-> IF t = 0 THEN {domain} ELSE {}]
  /\ cache = None
  /\ req = [r \in Requests |-> None]

Tick ==
  /\ now < MaxTime /\ now' = now + 1
  /\ past' = [past EXCEPT ![now + 1] = {domain}]
  /\ UNCHANGED <<domain, cache, req>>

\* The domain is created, verified, moved or deleted in the control plane.
DomainChanges(d) ==
  /\ domain' = d
  /\ past' = [past EXCEPT ![now] = @ \cup {d}]
  /\ UNCHANGED <<now, cache, req>>

At(r, step) == req[r] # None /\ req[r].step = step
Holds(step, at, result) == [step |-> step, at |-> at, result |-> result]

ResolveCustomDomain(r) ==
  /\ req[r] = None
  /\ req' = [req EXCEPT ![r] = Holds("called", now, None)]
  /\ UNCHANGED <<now, domain, past, cache>>

\* Mutant: an entry is still used at the moment it expires.
readCacheTooLong(r) ==
  /\ At(r, "called")
  /\ req' = [req EXCEPT ![r] =
               IF cache # None /\ req[r].at <= cache.expires
               THEN Holds("returned", req[r].at, cache.result)
               ELSE Holds("asking", req[r].at, None)]
  /\ UNCHANGED <<now, domain, past, cache>>

readCache(r) ==
  /\ At(r, "called")
  /\ req' = [req EXCEPT ![r] =
               IF cache # None /\ req[r].at < cache.expires
               THEN Holds("returned", req[r].at, cache.result)
               ELSE Holds("asking", req[r].at, None)]
  /\ UNCHANGED <<now, domain, past, cache>>

lookupAnswers(r) ==
  /\ At(r, "asking")
  /\ req' = [req EXCEPT ![r] = Holds("answered", req[r].at, domain)]
  /\ UNCHANGED <<now, domain, past, cache>>

\* The control plane cannot be asked: nothing is cached.
lookupFails(r) ==
  /\ At(r, "asking")
  /\ req' = [req EXCEPT ![r] = None]
  /\ UNCHANGED <<now, domain, past, cache>>

ttl(result) == IF result \in Found THEN HitTTL ELSE MissTTL

storeCache(r) ==
  /\ At(r, "answered")
  /\ cache' = IF ttl(req[r].result) <= 0 THEN cache
              ELSE [result |-> req[r].result, expires |-> req[r].at + ttl(req[r].result)]
  /\ req' = [req EXCEPT ![r] = Holds("returned", req[r].at, req[r].result)]
  /\ UNCHANGED <<now, domain, past>>

\* routeForHost uses the result.
Route(r) ==
  /\ At(r, "returned")
  /\ req' = [req EXCEPT ![r] = None]
  /\ UNCHANGED <<now, domain, past, cache>>

Next ==
  \/ Tick
  \/ \E d \in Answers : DomainChanges(d)
  \/ \E r \in Requests :
       \/ ResolveCustomDomain(r) \/ readCache(r) \/ lookupAnswers(r)
       \/ lookupFails(r) \/ storeCache(r) \/ Route(r)

Spec == Init /\ [][Next]_vars

-------------------------------------------------------------------------------
\* d was the control plane's answer at some moment in (from, now].
HeldAfter(d, from) == \E t \in 0..now : t > from /\ d \in past[t]

\* A lookup never returns an answer that had ceased to be true for its TTL
\* when the lookup began, however long the one that cached it took and
\* whatever other lookups stored in between.
BoundedStaleness ==
  \A r \in Requests :
    At(r, "returned") =>
      \/ HeldAfter(req[r].result, req[r].at - ttl(req[r].result))
      \/ HeldAfter(req[r].result, req[r].at - 1)

\* The strengthening that makes it inductive: the answers in flight and the one
\* in the cache carry the same guarantee from the reading they are dated with.
Dated ==
  /\ domain \in past[now]
  /\ \A r \in Requests : req[r] # None => req[r].at <= now
  /\ \A r \in Requests : At(r, "answered") => HeldAfter(req[r].result, req[r].at - 1)
  /\ cache # None => HeldAfter(cache.result, cache.expires - ttl(cache.result) - 1)

\* The inductive invariant.
Inv == TypeOK /\ Dated /\ BoundedStaleness

===============================================================================
