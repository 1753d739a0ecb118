----------------------------- MODULE PublicRequest -----------------------------
(***************************************************************************)
(* handlePublicRequest: the way of a public request through routing, the   *)
(* tunnel's rate limit, the throttle of failed credentials, the access     *)
(* policy and the round trip, to the entry in the request log.  A request  *)
(* samples the clock twice, on arrival for the throttle and later for the  *)
(* rate limit, and other requests run between any two of its steps.  The   *)
(* rate limit of a tunnel may be switched off.                             *)
(***************************************************************************)
EXTENDS RateLimiter, AuthThrottle

CONSTANT Configurations  \* [limited, keys]: the rate limit is on; who sends requests

ASSUME PipelineAssumption ==
  /\ IsFiniteSet(Requests)
  /\ \A c \in Configurations : c.keys \subseteq Keys

VARIABLES config, req  \* what each request holds, None before the first

publicVars == <<vars, throttle, config, req>>

\* A request on its way to the policy: its key and its first clock reading.  Once
\* done: the status that was sent (0: none) and the one that was logged.
Held(step, k, t) == [step |-> step, key |-> k, started |-> t]
Done(sent, logged) == [step |-> "done", sent |-> sent, logged |-> logged]

At(r, step) == req[r] # None /\ req[r].step = step
Idle(r) == req[r] = None \/ At(r, "done")
Goes(r, step) == req' = [req EXCEPT ![r].step = step]

\* The handler writes an error, unless nobody listens any more, and returns; the
\* deferred function logs its status.
Ends(r, status) == req' = [req EXCEPT ![r] = Done(status, status)]

PublicInit ==
  /\ Init
  /\ newAuthAttemptThrottle
  /\ config \in Configurations
  /\ req = [r \in Requests |-> None]

\* The host is looked up: the lookup fails, there is no tunnel, or the request
\* goes on with the tunnel's session.
routeForHost(r) ==
  /\ Idle(r)
  /\ \/ \E k \in config.keys :
          req' = [req EXCEPT ![r] = Held(IF config.limited THEN "routed" ELSE "admitted", k, now)]
     \/ \E status \in {503, 404} : Ends(r, status)
  /\ UNCHANGED <<vars, throttle, config>>

ReadsClock(r) ==
  /\ At(r, "routed")
  /\ ReadClock(r)
  /\ UNCHANGED <<throttle, config, req>>

PassesLimiter(r) ==
  /\ At(r, "routed")
  /\ allowRequest(r)
  /\ IF admitted' = admitted THEN Ends(r, 429) ELSE Goes(r, "admitted")
  /\ UNCHANGED <<throttle, config>>

PassesThrottle(r) ==
  /\ At(r, "admitted")
  /\ IF blocked(req[r].key, req[r].started) THEN Ends(r, 429) ELSE Goes(r, "asking")
  /\ UNCHANGED <<vars, throttle, config>>

accessDeniedStatus(mode) == IF mode \in {"basic_auth", "bearer_token"} THEN 401 ELSE 403

\* What the control plane may answer: the request is allowed, the mode of the
\* policy that refuses it, or an error, which refuses it too.
evaluatePublicAccess == {"allowed", "basic_auth", "ip_allowlist", "error"}

PassesPolicy(r) ==
  /\ At(r, "asking")
  /\ \E result \in evaluatePublicAccess :
       /\ req' = [req EXCEPT ![r] =
            CASE result = "allowed" -> [step |-> "forwarding"]
              [] result = "error" -> Done(503, 503)
              [] OTHER -> Done(accessDeniedStatus(result), accessDeniedStatus(result))]
       /\ IF result = "basic_auth" THEN recordFailure(req[r].key, req[r].started)
                                   ELSE UNCHANGED throttle
  /\ UNCHANGED <<vars, config>>

\* The round trip starts the response, with the status of the local service or,
\* where that is no status, 502; a WebSocket is accepted with 101.
writeResponseStart(r) ==
  /\ At(r, "forwarding")
  /\ \E status \in {101, 200, 502} :
       req' = [req EXCEPT ![r] = [step |-> "responding", sent |-> status]]
  /\ UNCHANGED <<vars, throttle, config>>

\* Mutant: a timeout is logged as such though the response has started.
RoundTripFailsAlways504(r) ==
  /\ \/ At(r, "forwarding") /\ \E status \in {500, 501, 503, 413, 504, 502} : Ends(r, status)
     \/ At(r, "forwarding") /\ \E sent \in {0, 200} : req' = [req EXCEPT ![r] = Done(sent, 499)]
     \/ At(r, "responding") /\ req' = [req EXCEPT ![r] = Done(@.sent, 504)]
  /\ UNCHANGED <<vars, throttle, config>>

\* The round trip fails: no stream id, no WebSockets, too many streams, a body too
\* large, a timeout, or the tunnel.  A context that is cancelled is taken for a
\* client that is gone, and nothing is written: to a client that is still there,
\* because a timer cancelled the context under a write to the agent, net/http sends
\* 200.  An upgrade that websocket.Accept refuses (403 stands for its statuses) is
\* left without a status, which is logged as 500.  Once the response has started
\* its status stands.
RoundTripFails(r) ==
  /\ \/ At(r, "forwarding") /\ \E status \in {500, 501, 503, 413, 504, 502} : Ends(r, status)
     \/ At(r, "forwarding") /\ \E sent \in {0, 200} : req' = [req EXCEPT ![r] = Done(sent, 499)]
     \/ At(r, "forwarding") /\ req' = [req EXCEPT ![r] = Done(403, 500)]
     \/ At(r, "responding") /\ Ends(r, req[r].sent)
  /\ UNCHANGED <<vars, throttle, config>>

Completes(r) ==
  /\ At(r, "responding")
  /\ Ends(r, req[r].sent)
  /\ UNCHANGED <<vars, throttle, config>>

Elapses == Tick /\ UNCHANGED <<throttle, config, req>>

\* The observer of RateLimiter looks again, once.
Observes ==
  /\ config.limited /\ mark = [last |-> 0, admitted |-> 0]
  /\ Mark
  /\ UNCHANGED <<throttle, config, req>>

PublicNext ==
  \/ Elapses \/ Observes
  \/ \E r \in Requests :
       \/ routeForHost(r) \/ ReadsClock(r) \/ PassesLimiter(r) \/ PassesThrottle(r)
       \/ PassesPolicy(r)
       \/ writeResponseStart(r) \/ RoundTripFails(r) \/ Completes(r)

PublicSpec == PublicInit /\ [][PublicNext]_publicVars

-------------------------------------------------------------------------------
\* Credential guessing is bounded: while a key keeps its entry, the failures
\* charged to it are at most its budget, plus one for every other request that
\* was already past the check, plus what the refill lets each of them try.
\* A request that passed the check holds no claim on the token it saw, so every
\* refilled token may be spent once by each concurrent request.
GuessesBounded ==
  LET n == Cardinality(Requests)
  IN \A k \in Present :
       failed[k] * AttemptCost <= AttemptCapacity + (n - 1) * AttemptCost
                                    + n * (now - since[k]) * AttemptRate

\* A request is refused for failed credentials only when its key has used up the
\* whole budget since its entry was created: neither other keys nor evictions
\* charge it, and neither does a tunnel's rate limit.
BlockedOnlyAfterBudget ==
  [][\A r \in Requests :
       At(r, "admitted") /\ At(r, "done")'
         => failed[req[r].key] * AttemptCost > AttemptCapacity - AttemptCost]_publicVars

\* The request log tells what the client was told, whatever ended the request and
\* wherever it was then.  Two entries do not: 499, logged for every cancelled context
\* and sent to no one, and 500 for a WebSocket upgrade that was refused.
LoggedAsAnswered ==
  \A r \in Requests :
    At(r, "done") => \/ req[r].logged = req[r].sent
                     \/ req[r].logged = 499 /\ req[r].sent \in {0, 200}
                     \/ req[r].logged = 500 /\ req[r].sent = 403

===============================================================================
