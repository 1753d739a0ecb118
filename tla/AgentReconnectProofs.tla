------------------------- MODULE AgentReconnectProofs -------------------------
(***************************************************************************)
(* The agent and the gateway, for any number of connections, any delays    *)
(* and any order of drops, outages and restarts.  What the agent may take  *)
(* from a reply depends on what the gateway and the link have done since   *)
(* it was sent (Agreed, Caused).  The delays rest on reconnectDelay's loop *)
(* (Backoff), whose recursion is unfolded here first: TLA+ gives meaning   *)
(* to a recursive function only if there is one that satisfies it.         *)
(***************************************************************************)
EXTENDS AgentReconnect, FiniteSetTheorems, WellFoundedInduction, TLAPS

-------------------------------------------------------------------------------
(* The doubling loop *)

\* A non-empty set of natural numbers has a least element.
LEMMA LeastNat ==
  ASSUME NEW T, T \subseteq Nat, T # {}
  PROVE  \E x \in T : \A y \in T : x <= y
<1> DEFINE Below == {0..x : x \in T}
<1>1. Below \subseteq FiniteSubsetsOf(Nat)
  <2> SUFFICES ASSUME NEW x \in T PROVE 0..x \in FiniteSubsetsOf(Nat)
    OBVIOUS
  <2>1. IsFiniteSet(0..x)
    BY FS_Interval
  <2> QED
    BY <2>1 DEF FiniteSubsetsOf
<1>2. Below # {}
  BY Zenon
<1>3. PICK B \in Below : \A C \in Below : <<C, B>> \notin StrictSubsetOrdering(Nat)
  <2> HIDE DEF Below
  <2> QED
    BY <1>1, <1>2, WFMin, FS_StrictSubsetOrderingWellFounded
<1>4. PICK x \in T : B = 0..x
  BY <1>3
<1>5. ASSUME NEW y \in T, y < x PROVE FALSE
  <2>1. 0..y \in Below
    OBVIOUS
  <2>2. 0..y \subseteq 0..x /\ 0..y # 0..x
    <3>1. x \in 0..x /\ x \notin 0..y
      BY <1>5
    <3> QED
      BY <1>5, <3>1
  <2>3. <<0..y, 0..x>> \in StrictSubsetOrdering(Nat)
    <3>1. 0..y \in SUBSET Nat /\ 0..x \in SUBSET Nat
      OBVIOUS
    <3> QED
      BY <2>2, <3>1 DEF StrictSubsetOrdering
  <2> QED
    BY <1>3, <1>4, <2>1, <2>3, Zenon
<1> QED
  BY <1>5

\* One turn of the loop, and the delays of the first n turns.
Turn(d) == IF d < MaxDelay THEN IF 2 * d > MaxDelay THEN MaxDelay ELSE 2 * d ELSE d
Turns(n, g) ==
  /\ g \in [0..n -> InitialDelay..MaxDelay]
  /\ g[0] = InitialDelay
  /\ \A i \in 1..n : g[i] = Turn(g[i - 1])

\* A turn stays between the initial and the maximal delay.
LEMMA TurnBounded ==
  ASSUME NEW d \in InitialDelay..MaxDelay
  PROVE  Turn(d) \in InitialDelay..MaxDelay
BY ReconnectAssumption DEF Turn

\* The loop can run any number of turns.
LEMMA TurnsExist == \A n \in Nat : \E g : Turns(n, g)
<1> USE ReconnectAssumption
<1> DEFINE Bad == {n \in Nat : ~\E g : Turns(n, g)}
<1> SUFFICES ASSUME Bad # {} PROVE FALSE
  OBVIOUS
<1>1. PICK n \in Bad : \A y \in Bad : n <= y
  <2>1. Bad \subseteq Nat
    OBVIOUS
  <2> HIDE DEF Bad
  <2> QED
    BY <2>1, LeastNat, Zenon
<1>2. n # 0
  <2>1. Turns(0, [i \in 0..0 |-> InitialDelay])
    BY DEF Turns
  <2> QED
    BY <2>1
<1>3. n - 1 \in Nat /\ n \in Nat
  BY <1>2
<1>4. PICK g : Turns(n - 1, g)
  BY <1>1, <1>3
<1> DEFINE h == [i \in 0..n |-> IF i = n THEN Turn(g[n - 1]) ELSE g[i]]
<1>5. g \in [0..(n - 1) -> InitialDelay..MaxDelay] /\ g[0] = InitialDelay
      /\ \A i \in 1..(n - 1) : g[i] = Turn(g[i - 1])
  BY <1>4 DEF Turns
<1>6. g[n - 1] \in InitialDelay..MaxDelay
  BY <1>3, <1>5
<1>7. Turn(g[n - 1]) \in InitialDelay..MaxDelay
  BY <1>6, TurnBounded
<1>8. h \in [0..n -> InitialDelay..MaxDelay] /\ h[0] = InitialDelay
  <2>1. \A i \in 0..n : i # n => i \in 0..(n - 1)
    BY <1>3
  <2> QED
    BY <1>2, <1>3, <1>5, <1>7, <2>1
<1>9. \A i \in 1..n : h[i] = Turn(h[i - 1])
  <2> SUFFICES ASSUME NEW i \in 1..n PROVE h[i] = Turn(h[i - 1])
    BY Zenon
  <2>1. i - 1 \in 0..n /\ i - 1 # n /\ i \in 0..n
    BY <1>3
  <2>2. h[i - 1] = g[i - 1]
    BY <2>1
  <2>3. CASE i = n
    BY <2>1, <2>2, <2>3
  <2>4. CASE i # n
    <3>1. i \in 1..(n - 1) /\ h[i] = g[i]
      BY <1>3, <2>1, <2>4
    <3> QED
      BY <1>5, <2>2, <3>1
  <2> QED
    BY <2>3, <2>4
<1>10. Turns(n, h)
  BY <1>8, <1>9, Zenon DEF Turns
<1> HIDE DEF h
<1> QED
  BY <1>10

\* The number of turns alone decides the delay after each.
LEMMA TurnsAgree ==
  ASSUME NEW m \in Nat, NEW n \in Nat, NEW g, NEW h, Turns(m, g), Turns(n, h), m <= n
  PROVE  \A i \in 0..m : g[i] = h[i]
<1> DEFINE Bad == {i \in 0..m : g[i] # h[i]}
<1> SUFFICES ASSUME Bad # {} PROVE FALSE
  OBVIOUS
<1>1. PICK i \in Bad : \A y \in Bad : i <= y
  <2>1. Bad \subseteq Nat
    OBVIOUS
  <2> HIDE DEF Bad
  <2> QED
    BY <2>1, LeastNat, Zenon
<1>2. i # 0
  BY DEF Turns
<1>3. i \in 1..m /\ i \in 1..n /\ i - 1 \in 0..m
  BY <1>2
<1>4. g[i - 1] = h[i - 1]
  <2>1. i - 1 \notin Bad
    BY <1>1
  <2> QED
    BY <1>3, <2>1
<1>5. g[i] = Turn(g[i - 1]) /\ h[i] = Turn(h[i - 1])
  BY <1>3 DEF Turns
<1> QED
  BY <1>4, <1>5

\* Some function satisfies Backoff's recursive equation, so Backoff does.
LEMMA BackoffUnfolds ==
  Backoff = [n \in Nat |-> IF n = 0 THEN InitialDelay ELSE Turn(Backoff[n - 1])]
<1> DEFINE loop == [n \in Nat |-> (CHOOSE g : Turns(n, g))[n]]
           Satisfies(f) == f = [n \in Nat |-> IF n = 0 THEN InitialDelay ELSE Turn(f[n - 1])]
<1>1. \A n \in Nat : Turns(n, CHOOSE g : Turns(n, g))
  BY TurnsExist
<1>2. loop[0] = InitialDelay
  BY <1>1, Zenon DEF Turns
<1>3. ASSUME NEW n \in Nat, n # 0 PROVE loop[n] = Turn(loop[n - 1])
  <2>1. PICK g : g = (CHOOSE f : Turns(n, f)) /\ Turns(n, g)
    BY <1>1
  <2>2. n - 1 \in Nat /\ n - 1 <= n /\ n - 1 \in 0..(n - 1) /\ n \in 1..n
    BY <1>3
  <2>3. PICK h : h = (CHOOSE f : Turns(n - 1, f)) /\ Turns(n - 1, h)
    BY <1>1, <2>2
  <2>4. h[n - 1] = g[n - 1]
    BY <2>1, <2>2, <2>3, TurnsAgree
  <2>5. g[n] = Turn(g[n - 1])
    BY <2>1, <2>2, Zenon DEF Turns
  <2>6. loop[n] = g[n] /\ loop[n - 1] = h[n - 1]
    BY <2>1, <2>2, <2>3
  <2> QED
    BY <2>4, <2>5, <2>6
<1>4. Satisfies(loop)
  <2>1. \A n \in Nat : loop[n] = IF n = 0 THEN InitialDelay ELSE Turn(loop[n - 1])
    <3> HIDE DEF loop
    <3> QED
      BY <1>2, <1>3
  <2> DEFINE unfolded == [n \in Nat |-> IF n = 0 THEN InitialDelay ELSE Turn(loop[n - 1])]
  <2>2. \A n \in Nat : loop[n] = unfolded[n]
    BY <2>1
  <2>3. loop = [n \in Nat |-> loop[n]] /\ unfolded = [n \in Nat |-> unfolded[n]]
    OBVIOUS
  <2>4. loop = unfolded
    <3> HIDE DEF loop, unfolded
    <3> QED
      BY <2>2, <2>3
  <2> QED
    BY <2>4, Zenon
<1>5. Backoff = CHOOSE f : Satisfies(f)
  BY DEF Backoff, Turn
<1> HIDE DEF Satisfies, loop
<1>6. Satisfies(Backoff)
  BY <1>4, <1>5
<1> QED
  BY <1>6 DEF Satisfies

\* However often the agent has failed, the loop leaves a delay between the
\* initial and the maximal one.
LEMMA BackoffRange == \A n \in Nat : Backoff[n] \in InitialDelay..MaxDelay
<1> DEFINE Bad == {n \in Nat : Backoff[n] \notin InitialDelay..MaxDelay}
<1> SUFFICES ASSUME Bad # {} PROVE FALSE
  OBVIOUS
<1>1. PICK n \in Bad : \A y \in Bad : n <= y
  <2>1. Bad \subseteq Nat
    OBVIOUS
  <2> HIDE DEF Bad
  <2> QED
    BY <2>1, LeastNat, Zenon
<1>2. Backoff[0] = InitialDelay
  BY BackoffUnfolds
<1>3. n # 0
  BY <1>2, ReconnectAssumption
<1>4. n \in Nat /\ n - 1 \in Nat
  BY <1>3
<1>5. Backoff[n - 1] \in InitialDelay..MaxDelay
  BY <1>1, <1>4
<1>6. Backoff[n] = Turn(Backoff[n - 1])
  BY <1>3, <1>4, BackoffUnfolds
<1> QED
  BY <1>5, <1>6, TurnBounded

\* reconnectDelay adds the jitter within the same bounds, and to the initial
\* delay alone when no attempt has failed.
LEMMA DelayBounded ==
  ASSUME NEW n \in Nat, NEW jitter \in 0..Jitter
  PROVE  /\ reconnectDelay(n, jitter) \in InitialDelay..MaxDelay
         /\ n = 0 => reconnectDelay(n, jitter) <= InitialDelay + Jitter
<1>1. Backoff[n] \in InitialDelay..MaxDelay /\ Backoff[0] = InitialDelay
  BY BackoffRange, BackoffUnfolds
<1> QED
  BY <1>1, ReconnectAssumption DEF reconnectDelay

-------------------------------------------------------------------------------
(* The handshake *)

Replies == AuthReplies \cup TunnelErrors \cup {"registered"}

\* A reply that tells of a tunnel finds the gateway still serving it as long as
\* the connection is up, and an unused connection carries none.
Agreed ==
  /\ pc \in {"auth", "register", "serve"} => conn \in Conns
  /\ conn \in Conns \cup {None}
  /\ link \in [Conns -> {"free", "up", "closed", "lost", "normal"}]
  /\ gateway \in [Conns -> {"free", "auth", "register", "serving", "ended"}]
  /\ reply \in [Conns -> Replies \cup {None}]
  /\ \A c \in Conns : link[c] = "free" => reply[c] = None
  /\ \A c \in Conns : reply[c] = "registered" /\ link[c] = "up" => gateway[c] = "serving"
  /\ ServesWhatIsRegistered

\* A refusal in flight has the cause it names.
Caused ==
  /\ \A c \in Conns : /\ reply[c] = "invalid_token" => ~token
                      /\ reply[c] = "unsupported_protocol" => protocol # None
                      /\ reply[c] \in TunnelErrors \ {"registration_failed"} => requested
  /\ GivesUpOnlyForCause

\* The attempts are counted up to the cap and the wait is in bounds.
Waits == attempt \in 0..AttemptCap /\ BackoffBounded

\* What holds of the agent and the gateway at every moment.
ReconnectInv == Agreed /\ Caused /\ Waits

\* The invariant holds when the agent starts.
LEMMA InitInv == Init => ReconnectInv
BY ReconnectAssumption
   DEF Init, ReconnectInv, Agreed, Caused, Waits, ServesWhatIsRegistered, GivesUpOnlyForCause,
       BackoffBounded, Replies, AuthReplies, TunnelErrors

\* Counting an attempt and drawing its delay keeps the waits in bounds.
LEMMA RetryWaits ==
  ASSUME Waits, NEW connected \in BOOLEAN, Retry(connected)
  PROVE  Waits'
<1> DEFINE n == IF connected THEN 0 ELSE attempt
<1>1. n \in Nat /\ n \in 0..AttemptCap
  BY ReconnectAssumption DEF Waits
<1>2. PICK jitter \in 0..Jitter : delay' = reconnectDelay(n, jitter)
  BY DEF Retry
<1>3. attempt' = IF n + 1 > AttemptCap THEN AttemptCap ELSE n + 1
  BY DEF Retry
<1> HIDE DEF n
<1>4. delay' \in InitialDelay..MaxDelay /\ (n = 0 => delay' <= InitialDelay + Jitter)
  BY <1>1, <1>2, DelayBounded
<1>5. attempt' \in 0..AttemptCap /\ (attempt' = 1 => n = 0)
  BY <1>1, <1>3, ReconnectAssumption
<1> QED
  BY <1>4, <1>5, ReconnectAssumption DEF Waits, BackoffBounded

\* Only a retry makes the agent wait and counts an attempt.
LEMMA WaitsKept ==
  ASSUME Waits, Next
  PROVE  Waits'
<1>1. CASE \E connected \in BOOLEAN : Retry(connected)
  BY <1>1, RetryWaits
<1>2. CASE attempt' = attempt /\ (pc' # "wait" \/ UNCHANGED <<pc, delay>>)
  BY <1>2 DEF Waits, BackoffBounded
<1>3. Agent => \/ \E connected \in BOOLEAN : Retry(connected)
               \/ attempt' = attempt /\ pc' # "wait"
  BY Zenon DEF Agent, Dial, DialFails, authenticate, registerTunnel, HandshakeFails, serve,
         waitForReconnect, Return
<1>4. Cancel => attempt' = attempt /\ pc' # "wait"
  BY DEF Cancel, Return
<1>5. \A c \in Conns : Handler(c) \/ readLoopReturns(c) \/ LinkLost(c) => UNCHANGED <<attempt, pc, delay>>
  BY DEF Handler, authenticateAgent, registerRequestedSubdomain, registerRandomSubdomain,
         handlerEnds, readLoopReturns, Recycle, LinkLost, Answers
<1>6. NetworkChanges \/ ControlPlaneChanges \/ GatewayRestarts => UNCHANGED <<attempt, pc, delay>>
  BY DEF NetworkChanges, ControlPlaneChanges, GatewayRestarts
<1> QED
  BY <1>1, <1>2, <1>3, <1>4, <1>5, <1>6 DEF Next

\* The agent's own steps: only a reply of the current connection makes it
\* register or serve, and it serves only on the gateway's word.
LEMMA AgentAgreed ==
  ASSUME Agreed, Agent \/ Cancel
  PROVE  Agreed'
<1> USE ReconnectAssumption DEF Agreed, ServesWhatIsRegistered, Replies, AuthReplies, TunnelErrors
<1>1. CASE \E c \in Conns : Dial(c)
  BY <1>1 DEF Dial, gwVars
<1>2. CASE DialFails
  BY <1>2 DEF DialFails, Retry, gwVars
<1>3. CASE authenticate
  BY <1>3 DEF authenticate, Receives, Retry, Return, Hangup
<1>4. CASE registerTunnel
  BY <1>4 DEF registerTunnel, Receives, Return, Hangup
<1>5. CASE HandshakeFails
  BY <1>5 DEF HandshakeFails, Retry, Hangup, gwVars
<1>6. CASE serve
  BY <1>6 DEF serve, Retry, Return, Hangup, gwVars
<1>7. CASE waitForReconnect
  BY <1>7 DEF waitForReconnect, gwVars
<1>8. CASE Cancel
  BY <1>8, SMTT(30) DEF Cancel, Return, Hangup, gwVars
<1> QED
  BY <1>1, <1>2, <1>3, <1>4, <1>5, <1>6, <1>7, <1>8 DEF Agent

\* The gateway's steps and the environment's: a tunnel is gone only with its
\* connection, and a connection is used again only once its agent let go.
LEMMA GatewayAgreed ==
  ASSUME Agreed,
         \/ \E c \in Conns : Handler(c) \/ readLoopReturns(c) \/ LinkLost(c)
         \/ NetworkChanges \/ ControlPlaneChanges \/ GatewayRestarts
  PROVE  Agreed'
<1> USE ReconnectAssumption DEF Agreed, ServesWhatIsRegistered, Replies, AuthReplies, TunnelErrors
<1>1. ASSUME NEW c \in Conns, authenticateAgent(c) PROVE Agreed'
  BY <1>1 DEF authenticateAgent, Answers
<1>2. ASSUME NEW c \in Conns, registerRequestedSubdomain(c) PROVE Agreed'
  BY <1>2 DEF registerRequestedSubdomain, Asked, Answers
<1>3. ASSUME NEW c \in Conns, registerRandomSubdomain(c) PROVE Agreed'
  BY <1>3 DEF registerRandomSubdomain, Asked, Answers
<1>4. ASSUME NEW c \in Conns, handlerEnds(c) PROVE Agreed'
  BY <1>4 DEF handlerEnds, Closed
<1>5. ASSUME NEW c \in Conns, Recycle(c) PROVE Agreed'
  BY <1>5 DEF Recycle
<1>6. ASSUME NEW c \in Conns, LinkLost(c) PROVE Agreed'
  BY <1>6 DEF LinkLost
<1>9. ASSUME NEW c \in Conns, readLoopReturns(c) PROVE Agreed'
  BY <1>9 DEF readLoopReturns
<1>7. CASE NetworkChanges \/ ControlPlaneChanges
  BY <1>7 DEF NetworkChanges, ControlPlaneChanges, gwVars
<1>8. CASE GatewayRestarts
  BY <1>8 DEF GatewayRestarts, Active, Closed
<1> QED
  BY <1>1, <1>2, <1>3, <1>4, <1>5, <1>6, <1>7, <1>8, <1>9 DEF Handler

\* A refusal is sent for its cause, and Run returns for the refusal it read.
LEMMA CausedKept ==
  ASSUME Agreed, Caused, Next
  PROVE  Caused'
<1> USE ReconnectAssumption DEF Caused, GivesUpOnlyForCause, AuthReplies, TunnelErrors
<1>1. reply \in [Conns -> Replies \cup {None}]
      /\ (pc \in {"auth", "register", "serve"} => conn \in Conns)
  BY SMTT(30) DEF Agreed
<1>2. token' = token /\ requested' = requested /\ protocol' = protocol
  BY Zenon DEF Next, Agent, Cancel, Handler, Dial, DialFails, authenticate, registerTunnel,
         HandshakeFails, serve, waitForReconnect, authenticateAgent, registerRequestedSubdomain,
         registerRandomSubdomain, handlerEnds, Recycle, readLoopReturns, LinkLost, NetworkChanges,
         ControlPlaneChanges, GatewayRestarts, Answers, envVars
<1>3. CASE UNCHANGED <<reply, exit>>
  BY <1>2, <1>3
<1>4. CASE Agent
  <2>1. CASE authenticate
    <3>1. conn \in Conns
      BY <1>1, <2>1 DEF authenticate
    <3>2. CASE exit' = exit /\ reply' = [reply EXCEPT ![conn] = None]
      BY <1>1, <1>2, <3>1, <3>2
    <3>3. CASE /\ protocol = "gateway" /\ exit' = "unsupported_protocol"
               /\ reply' = [reply EXCEPT ![conn] = None]
      BY <1>1, <1>2, <3>1, <3>3
    <3>4. ASSUME NEW m \in {"invalid_token", "unsupported_protocol"},
                 reply[conn] = m, exit' = m, reply' = [reply EXCEPT ![conn] = None]
          PROVE  Caused'
      BY <1>1, <1>2, <3>1, <3>4
    <3> QED
      BY <2>1, <3>2, <3>3, <3>4, Zenon DEF authenticate, Receives, Retry, Return
  <2>2. CASE registerTunnel
    BY <1>1, <1>2, <2>2 DEF registerTunnel, Receives, Return
  <2>3. CASE serve
    BY <1>2, <2>3 DEF serve, Retry, Return, gwVars
  <2>4. CASE ~authenticate /\ ~registerTunnel /\ ~serve
    BY <1>3, <1>4, <2>4 DEF Agent, Dial, DialFails, HandshakeFails, waitForReconnect,
                            Retry, gwVars
  <2> QED
    BY <2>1, <2>2, <2>3, <2>4
<1>5. CASE Cancel
  BY <1>2, <1>5 DEF Cancel, Return, gwVars
<1>6. ASSUME NEW c \in Conns, Handler(c) PROVE Caused'
  <2>1. CASE authenticateAgent(c)
    <3>1. exit' = exit
      BY <2>1, Zenon DEF authenticateAgent, Answers
    <3>2. \A d \in Conns \ {c} : reply'[d] = reply[d]
      BY <1>1, <2>1 DEF authenticateAgent, Answers
    <3>3. /\ reply'[c] = "invalid_token" => ~token
          /\ reply'[c] = "unsupported_protocol" => protocol # None
          /\ reply'[c] \notin TunnelErrors
      BY <1>1, <2>1 DEF authenticateAgent, Answers
    <3> QED
      BY <1>2, <3>1, <3>2, <3>3
  <2>2. CASE registerRequestedSubdomain(c)
    BY <1>1, <1>2, <2>2 DEF registerRequestedSubdomain, Answers
  <2>3. CASE registerRandomSubdomain(c)
    BY <1>1, <1>2, <2>3 DEF registerRandomSubdomain, Answers
  <2>4. CASE handlerEnds(c)
    BY <1>3, <2>4 DEF handlerEnds
  <2>5. CASE Recycle(c)
    BY <1>1, <1>2, <2>5 DEF Recycle
  <2> QED
    BY <1>6, <2>1, <2>2, <2>3, <2>4, <2>5 DEF Handler
<1>7. ASSUME NEW c \in Conns, LinkLost(c) PROVE Caused'
  BY <1>1, <1>2, <1>7 DEF LinkLost
<1>9. ASSUME NEW c \in Conns, readLoopReturns(c) PROVE Caused'
  BY <1>3, <1>9 DEF readLoopReturns
<1>8. CASE NetworkChanges \/ ControlPlaneChanges \/ GatewayRestarts
  BY <1>3, <1>8 DEF NetworkChanges, ControlPlaneChanges, GatewayRestarts, gwVars
<1> QED
  BY <1>4, <1>5, <1>6, <1>7, <1>8, <1>9 DEF Next

-------------------------------------------------------------------------------
\* The inductive invariant holds of every behaviour.
THEOREM ReconnectInvHolds == Spec => []ReconnectInv
<1>1. ASSUME ReconnectInv, [Next]_vars PROVE ReconnectInv'
  <2>1. CASE Next
    <3>1. Agreed'
      BY <1>1, <2>1, AgentAgreed, GatewayAgreed DEF ReconnectInv, Next
    <3>2. Caused'
      BY <1>1, <2>1, CausedKept DEF ReconnectInv
    <3>3. Waits'
      BY <1>1, <2>1, WaitsKept DEF ReconnectInv
    <3> QED
      BY <3>1, <3>2, <3>3 DEF ReconnectInv
  <2>2. CASE UNCHANGED vars
    BY <1>1, <2>2 DEF ReconnectInv, Agreed, Caused, Waits, ServesWhatIsRegistered,
                      GivesUpOnlyForCause, BackoffBounded, vars
  <2> QED
    BY <1>1, <2>1, <2>2
<1> QED
  BY <1>1, InitInv, PTL DEF Spec

\* Whatever the delays, the jitter and the drops, Run never waits less than the
\* initial delay or longer than the maximum, and the first retry after a
\* tunnel that served waits the initial delay and a jitter (reconnectDelay).
THEOREM BackoffBoundedHolds == Spec => []BackoffBounded
<1>1. ReconnectInv => BackoffBounded
  BY DEF ReconnectInv, Waits
<1> QED
  BY <1>1, ReconnectInvHolds, PTL

\* An agent that serves on a connection that is up is served by the gateway on
\* that connection, with any number of stale connections beside it.
THEOREM ServesWhatIsRegisteredHolds == Spec => []ServesWhatIsRegistered
<1>1. ReconnectInv => ServesWhatIsRegistered
  BY DEF ReconnectInv, Agreed
<1> QED
  BY <1>1, ReconnectInvHolds, PTL

\* Run returns for a token, a version or a requested name that is at fault, and
\* otherwise only when stopped, refused by the gateway itself or closed normally.
THEOREM GivesUpOnlyForCauseHolds == Spec => []GivesUpOnlyForCause
<1>1. ReconnectInv => GivesUpOnlyForCause
  BY DEF ReconnectInv, Caused
<1> QED
  BY <1>1, ReconnectInvHolds, PTL

===============================================================================
