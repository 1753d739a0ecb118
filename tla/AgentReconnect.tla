---------------------------- MODULE AgentReconnect ----------------------------
(***************************************************************************)
(* The agent's Run loop against the gateway's connection handler: dialing, *)
(* the handshake, serving, losing the connection, backing off and trying   *)
(* again, with a network and a control plane that come and go.  Each side  *)
(* notices a lost connection in its own time, so the gateway may still     *)
(* hold the old tunnel when the agent is back.                             *)
(***************************************************************************)
EXTENDS Integers

CONSTANTS Conns,            \* connections, reused once both ends let go
          InitialDelay, MaxDelay, Jitter,
          AttemptCap,       \* attempts beyond it wait no longer
          None

\* reconnectDelay's doubling loop.
Backoff[n \in Nat] ==
  IF n = 0 THEN InitialDelay
  ELSE IF Backoff[n - 1] < MaxDelay
       THEN IF 2 * Backoff[n - 1] > MaxDelay THEN MaxDelay ELSE 2 * Backoff[n - 1]
       ELSE Backoff[n - 1]

AuthReplies == {"auth_ok", "auth_unavailable", "invalid_token", "unsupported_protocol"}
\* registration_failed stands for every refusal of the gateway's own: an invalid
\* or reserved name, no free random name, no id.
TunnelErrors == {"subdomain_unavailable", "subdomain_authorization_unavailable",
                 "registration_failed"}

\* The cap on the attempts is where the delay has reached its maximum, past the first.
ASSUME ReconnectAssumption ==
  /\ None \notin Conns \cup AuthReplies \cup TunnelErrors \cup {"registered", "agent", "gateway"}
  /\ InitialDelay \in Nat \ {0} /\ MaxDelay \in Nat /\ Jitter \in Nat
  /\ MaxDelay >= InitialDelay
  /\ AttemptCap \in Nat /\ AttemptCap >= 2 /\ Backoff[AttemptCap] = MaxDelay

VARIABLES pc,         \* the agent: where Run is
          conn,       \* its connection, or None
          attempt,    \* failed attempts in a row
          delay,      \* the delay it waits out
          exit,       \* why Run returned
          requested,  \* the agent asks for a fixed subdomain
          token,      \* whether the agent's token is valid
          protocol,   \* which side speaks a version, or lacks a capability, the other
                      \* refuses: "agent", "gateway" or None
          net,        \* the network carries traffic
          control,    \* the control plane answers
          link,       \* each connection
          gateway,    \* the gateway's handler of each connection
          reply       \* the gateway's answer in flight

vars == <<pc, conn, attempt, delay, exit, requested, token, protocol, net, control,
          link, gateway, reply>>
gwVars == <<gateway, reply>>
envVars == <<requested, token, protocol, net, control>>

Init ==
  /\ pc = "dial" /\ conn = None /\ attempt = 0 /\ delay = 0 /\ exit = None
  /\ requested \in BOOLEAN /\ token \in BOOLEAN /\ protocol \in {None, "agent", "gateway"}
  /\ net = TRUE /\ control = TRUE
  /\ link = [c \in Conns |-> "free"]
  /\ gateway = [c \in Conns |-> "free"]
  /\ reply = [c \in Conns |-> None]

-------------------------------------------------------------------------------
(* The agent *)

reconnectDelay(n, jitter) ==
  LET d == Backoff[n]
      j == IF jitter > d THEN d ELSE jitter
  IN IF d + j > MaxDelay THEN MaxDelay ELSE d + j

\* runOnce's deferred conn.Close: the gateway hears it if the network works.
Hangup ==
  /\ conn' = None
  /\ link' = IF conn = None THEN link
             ELSE [link EXCEPT ![conn] = IF @ = "up" THEN "closed" ELSE @]

\* Mutant: the attempts are reset after the delay has been computed.
RetryResetsLate(connected) ==
  /\ \E jitter \in 0..Jitter : delay' = reconnectDelay(attempt, jitter)
  /\ LET n == (IF connected THEN 0 ELSE attempt) + 1
     IN attempt' = IF n > AttemptCap THEN AttemptCap ELSE n
  /\ pc' = "wait"
  /\ UNCHANGED exit

\* Run's treatment of an error that is not permanent.
Retry(connected) ==
  /\ \E jitter \in 0..Jitter :
       delay' = reconnectDelay(IF connected THEN 0 ELSE attempt, jitter)
  /\ LET n == (IF connected THEN 0 ELSE attempt) + 1
     IN attempt' = IF n > AttemptCap THEN AttemptCap ELSE n
  /\ pc' = "wait"
  /\ UNCHANGED exit

Return(why) ==
  /\ pc' = "exited" /\ exit' = why
  /\ UNCHANGED <<attempt, delay>>

Dial(c) ==
  /\ pc = "dial" /\ net /\ link[c] = "free"
  /\ conn' = c /\ pc' = "auth"
  /\ link' = [link EXCEPT ![c] = "up"]
  /\ gateway' = [gateway EXCEPT ![c] = "auth"]
  /\ UNCHANGED <<attempt, delay, exit, reply, envVars>>

DialFails ==
  /\ pc = "dial" /\ ~net
  /\ Retry(FALSE)
  /\ UNCHANGED <<conn, link, gwVars, envVars>>

Receives(m) == reply[conn] = m /\ reply' = [reply EXCEPT ![conn] = None]

\* Mutant: every authentication error is permanent.
authenticateGivesUp ==
  /\ pc = "auth"
  /\ \/ /\ Receives("auth_ok") /\ pc' = "register"
        /\ UNCHANGED <<conn, link, attempt, delay, exit>>
     \/ \E m \in AuthReplies \ {"auth_ok"} : Receives(m) /\ Return("invalid_token") /\ Hangup
  /\ UNCHANGED <<gateway, envVars>>

authenticate ==
  /\ pc = "auth"
  /\ \/ /\ Receives("auth_ok") /\ protocol # "gateway" /\ pc' = "register"
        /\ UNCHANGED <<conn, link, attempt, delay, exit>>
     \/ /\ Receives("auth_ok") /\ protocol = "gateway"
        /\ Return("unsupported_protocol") /\ Hangup
     \/ Receives("auth_unavailable") /\ Retry(FALSE) /\ Hangup
     \/ \E m \in {"invalid_token", "unsupported_protocol"} :
          Receives(m) /\ Return(m) /\ Hangup
  /\ UNCHANGED <<gateway, envVars>>

registerTunnel ==
  /\ pc = "register"
  /\ \/ /\ Receives("registered") /\ pc' = "serve"
        /\ UNCHANGED <<conn, link, attempt, delay, exit>>
     \/ \E m \in TunnelErrors : Receives(m) /\ Return(m) /\ Hangup
  /\ UNCHANGED <<gateway, envVars>>

\* Mutant: the handshake has no deadline of its own.
HandshakeWaits ==
  /\ pc \in {"auth", "register"} /\ ~net
  /\ Retry(FALSE) /\ Hangup
  /\ UNCHANGED <<gwVars, envVars>>

\* The handshake times out or the connection breaks under it.
HandshakeFails ==
  /\ pc \in {"auth", "register"}
  /\ ~net \/ (link[conn] # "up" /\ reply[conn] = None)
  /\ Retry(FALSE) /\ Hangup
  /\ UNCHANGED <<gwVars, envVars>>

\* serve's read fails: the agent's own keepalive, or the gateway going away.  A
\* gateway that closed normally is not an error, and Run returns.
serve ==
  /\ pc = "serve"
  /\ \/ link[conn] = "normal" /\ Return("closed")
     \/ (~net \/ link[conn] \notin {"up", "normal"}) /\ Retry(TRUE)
  /\ Hangup
  /\ UNCHANGED <<gwVars, envVars>>

waitForReconnect ==
  /\ pc = "wait" /\ pc' = "dial" /\ delay' = 0
  /\ UNCHANGED <<conn, attempt, exit, link, gwVars, envVars>>

\* The agent's context is cancelled, wherever it is.
Cancel ==
  /\ pc # "exited"
  /\ Return("stopped") /\ Hangup
  /\ UNCHANGED <<gwVars, envVars>>

-------------------------------------------------------------------------------
(* The gateway *)

\* An answer reaches the agent only over a connection that still works.
Answers(c, m, next) ==
  /\ gateway' = [gateway EXCEPT ![c] = next]
  /\ reply' = [reply EXCEPT ![c] = IF link[c] = "up" THEN m ELSE None]
  /\ UNCHANGED <<pc, conn, attempt, delay, exit, link, envVars>>

authenticateAgent(c) ==
  /\ gateway[c] = "auth"
  /\ IF ~control THEN Answers(c, "auth_unavailable", "ended")
     ELSE IF ~token THEN Answers(c, "invalid_token", "ended")
     ELSE IF protocol = "agent" THEN Answers(c, "unsupported_protocol", "ended")
     ELSE Answers(c, "auth_ok", "register")

\* The agent has read auth_ok and sent its registration.
Asked(c) == gateway[c] = "register" /\ conn = c /\ pc = "register" /\ link[c] = "up"

registerRequestedSubdomain(c) ==
  /\ requested /\ Asked(c) /\ reply[c] = None
  /\ \/ Answers(c, "registration_failed", "ended")
     \/ IF ~control THEN Answers(c, "subdomain_authorization_unavailable", "ended")
        ELSE IF \E d \in Conns : gateway[d] = "serving"
        THEN Answers(c, "subdomain_unavailable", "ended")
        ELSE Answers(c, "registered", "serving")

registerRandomSubdomain(c) ==
  /\ ~requested /\ Asked(c) /\ reply[c] = None
  /\ \/ Answers(c, "registered", "serving")
     \/ Answers(c, "registration_failed", "ended")

Active(c) == gateway[c] \in {"auth", "register", "serving"}
Closed(l) == IF l = "up" THEN "closed" ELSE l

\* Mutant: the session is removed but its connection stays open.
handlerEndsSilently(c) ==
  /\ Active(c) /\ (~net \/ link[c] # "up")
  /\ gateway' = [gateway EXCEPT ![c] = "ended"]
  /\ UNCHANGED <<pc, conn, attempt, delay, exit, link, reply, envVars>>

\* Mutant: without a keepalive only a network that is down ends the handler.
handlerEndsUnprompted(c) ==
  /\ Active(c) /\ ~net
  /\ gateway' = [gateway EXCEPT ![c] = "ended"]
  /\ link' = [link EXCEPT ![c] = Closed(@)]
  /\ UNCHANGED <<pc, conn, attempt, delay, exit, reply, envVars>>

\* The handler ends: its keepalive or handshake deadline noticed the loss, or
\* the agent hung up.  removeSession frees the subdomain.
handlerEnds(c) ==
  /\ Active(c) /\ (~net \/ link[c] # "up")
  /\ gateway' = [gateway EXCEPT ![c] = "ended"]
  /\ link' = [link EXCEPT ![c] = Closed(@)]
  /\ UNCHANGED <<pc, conn, attempt, delay, exit, reply, envVars>>

\* readLoop returns although the connection is open: a message of the agent it
\* cannot decode, a pong it cannot write.  The handler's deferred Close is normal.
readLoopReturns(c) ==
  /\ gateway[c] = "serving" /\ net /\ link[c] = "up"
  /\ gateway' = [gateway EXCEPT ![c] = "ended"]
  /\ link' = [link EXCEPT ![c] = "normal"]
  /\ UNCHANGED <<pc, conn, attempt, delay, exit, reply, envVars>>

\* The gateway stops, closing its sessions, and comes up with an empty registry.
GatewayRestarts ==
  /\ gateway' = [c \in Conns |-> IF Active(c) THEN "ended" ELSE gateway[c]]
  /\ link' = [c \in Conns |-> Closed(link[c])]
  /\ UNCHANGED <<pc, conn, attempt, delay, exit, reply, envVars>>

\* A finished handler's connection closes; both ends are gone.
Recycle(c) ==
  /\ gateway[c] = "ended" /\ conn # c
  /\ gateway' = [gateway EXCEPT ![c] = "free"]
  /\ link' = [link EXCEPT ![c] = "free"]
  /\ reply' = [reply EXCEPT ![c] = None]
  /\ UNCHANGED <<pc, conn, attempt, delay, exit, envVars>>

-------------------------------------------------------------------------------
(* The environment *)

NetworkChanges ==
  /\ net' = ~net
  /\ UNCHANGED <<pc, conn, attempt, delay, exit, requested, token, protocol, control, link,
                 gwVars>>

\* While the network is down a connection may be lost; nobody is told.
LinkLost(c) ==
  /\ ~net /\ link[c] = "up"
  /\ link' = [link EXCEPT ![c] = "lost"]
  /\ reply' = [reply EXCEPT ![c] = None]
  /\ UNCHANGED <<pc, conn, attempt, delay, exit, gateway, envVars>>

ControlPlaneChanges ==
  /\ control' = ~control
  /\ UNCHANGED <<pc, conn, attempt, delay, exit, requested, token, protocol, net, link,
                 gwVars>>

Agent == \/ (\E c \in Conns : Dial(c)) \/ DialFails \/ authenticate \/ registerTunnel
         \/ HandshakeFails \/ serve \/ waitForReconnect
Handler(c) == \/ authenticateAgent(c) \/ registerRequestedSubdomain(c)
              \/ registerRandomSubdomain(c) \/ handlerEnds(c) \/ Recycle(c)

Next ==
  \/ Agent \/ Cancel
  \/ \E c \in Conns : Handler(c) \/ readLoopReturns(c) \/ LinkLost(c)
  \/ NetworkChanges \/ ControlPlaneChanges \/ GatewayRestarts

Spec == Init /\ [][Next]_vars

\* The agent's goroutine and timers run, and so do the gateway's handlers with
\* their keepalive.  Nothing is assumed of the network, of the control plane
\* or of restarts.
FairSpec == Spec /\ WF_vars(Agent) /\ \A c \in Conns : WF_vars(Handler(c))

-------------------------------------------------------------------------------
\* Every delay Run waits is at least the initial one and at most the maximum,
\* and after a connection that served it starts from the initial delay again.
BackoffBounded ==
  /\ pc = "wait" => delay >= InitialDelay /\ delay <= MaxDelay
  /\ pc = "wait" /\ attempt = 1 => delay <= InitialDelay + Jitter

\* When the agent believes its tunnel is up, the gateway either holds it on
\* this very connection or the connection is already gone.
ServesWhatIsRegistered ==
  pc = "serve" /\ link[conn] = "up" => gateway[conn] = "serving"

\* Run gives up for a reason that retrying would not remove: a token that is not
\* valid, versions that do not match, a requested name.  With a valid token, matching
\* versions and a random subdomain, neither network drops nor control-plane outages
\* nor gateway restarts make it return; only a stop, a refusal of the gateway's own
\* and the normal close of a connection that served do (runner.go 125-157, 199-257,
\* 313-323).
GivesUpOnlyForCause ==
  /\ exit = "invalid_token" => ~token
  /\ exit = "unsupported_protocol" => protocol # None
  /\ exit \in {"subdomain_unavailable", "subdomain_authorization_unavailable"} => requested
  /\ token /\ protocol = None /\ ~requested
       => exit \in {None, "stopped", "closed", "registration_failed"}

\* Once the network and the control plane stay up and the gateway restarts no
\* more, the agent ends up serving, unless Run returns: it does not dial forever.
SettlesWhenCalm ==
  <>[](net /\ control) /\ <>[][~GatewayRestarts]_vars
    => <>[](pc \in {"serve", "exited"})

\* The gateway lets go of every connection the agent lost or left.
StaleTunnelReleased ==
  \A c \in Conns : link[c] \in {"lost", "closed"} ~> gateway[c] \in {"ended", "free"}

\* "Reconnect when the network drops": no agent with a valid token gives up
\* because its own earlier tunnel still holds the subdomain.
SurvivesNetworkDrop == exit # "subdomain_unavailable"

===============================================================================
