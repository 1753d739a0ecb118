---------------------------- MODULE TunnelRegistry ----------------------------
(***************************************************************************)
(* The life of a tunnel on the gateway: one handleAgentWebSocket goroutine *)
(* per agent connection, the two maps of registry.Registry, the sessions   *)
(* map of Server with its mutex, the two-step lookup a public request      *)
(* makes, and the shutdown sequence of Server.Run.                         *)
(*                                                                         *)
(* A map is a total function whose missing keys hold None.  A *Session     *)
(* pointer is the connection whose goroutine built it.                     *)
(***************************************************************************)
EXTENDS Naturals, FiniteSets

CONSTANTS Conns,       \* agent connections; each is accepted at most once
          Subdomains,  \* valid subdomains
          TunnelIDs,   \* the values newTunnelID may return
          Lookups,     \* public requests inside sessionBySubdomain
          Attempts,    \* randomSubdomainAttempts
          ReuseIDs,    \* TRUE: newTunnelID may return the id of a tunnel that is gone
          None

ASSUME NoneAssumption == None \notin Conns
ASSUME AttemptsAssumption == Attempts \in Nat \ {0}
ASSUME ReuseAssumption == ReuseIDs \in BOOLEAN

VARIABLES pc,           \* where each handleAgentWebSocket is
          conn,         \* state of the websocket
          tunnel,       \* the registry.Session the goroutine built
          tries,        \* attempt of registerRandomSubdomain
          byTunnelID, bySubdomain,   \* Registry
          sessions, sessionsMu,      \* Server.sessions and its mutex
          issued,       \* ids of the tunnels registered so far
          lookup,       \* the public requests
          run,          \* progress of Server.Run
          snapshot      \* the sessions closeSessions copied

registryVars == <<byTunnelID, bySubdomain>>
sessionVars == <<sessions, sessionsMu>>
runVars == <<run, snapshot>>
vars == <<pc, conn, tunnel, tries, registryVars, sessionVars, issued, lookup, runVars>>

-------------------------------------------------------------------------------
Tunnels == [id : TunnelIDs, sub : Subdomains]

ASSUME NoTunnelAssumption == None \notin Tunnels

Steps == {"idle", "auth", "register", "random", "announce", "told",
          "serving", "ended", "removing", "done"}

\* The steps at which the goroutine's tunnel is in the registry.
Holding == {"announce", "told", "serving", "ended", "removing"}

ConnStates == {"none", "open", "closed"}

NoLookup == [at |-> "idle"]

TypeOK ==
  /\ pc \in [Conns -> Steps]
  /\ conn \in [Conns -> ConnStates]
  /\ tunnel \in [Conns -> Tunnels \cup {None}]
  /\ tries \in [Conns -> 0..Attempts]
  /\ byTunnelID \in [TunnelIDs -> Conns \cup {None}]
  /\ bySubdomain \in [Subdomains -> Conns \cup {None}]
  /\ sessions \in [TunnelIDs -> Conns \cup {None}]
  /\ sessionsMu \in Conns \cup {None}
  /\ issued \subseteq TunnelIDs
  /\ lookup \in [Lookups -> {NoLookup}
                   \cup [at : {"found"}, sub : Subdomains, id : TunnelIDs]
                   \cup [at : {"routed"}, sub : Subdomains, to : Conns]]
  /\ run \in {"running", "closing", "draining", "returned"}
  /\ snapshot \subseteq Conns

Init ==
  /\ pc = [c \in Conns |-> "idle"]
  /\ conn = [c \in Conns |-> "none"]
  /\ tunnel = [c \in Conns |-> None]
  /\ tries = [c \in Conns |-> 0]
  /\ byTunnelID = [t \in TunnelIDs |-> None]
  /\ bySubdomain = [d \in Subdomains |-> None]
  /\ sessions = [t \in TunnelIDs |-> None]
  /\ sessionsMu = None
  /\ issued = {}
  /\ lookup = [r \in Lookups |-> NoLookup]
  /\ run = "running"
  /\ snapshot = {}

-------------------------------------------------------------------------------
(* registry.Registry *)

\* Mutant: the subdomain is not checked.
RegisterErrorByID(t, d) ==
  IF byTunnelID[t] # None THEN "tunnel_id_already_registered" ELSE "nil"

RegisterError(t, d) ==
  IF byTunnelID[t] # None THEN "tunnel_id_already_registered"
  ELSE IF bySubdomain[d] # None THEN "subdomain_already_registered" ELSE "nil"

Register(c, t, d) ==
  /\ byTunnelID' = [byTunnelID EXCEPT ![t] = c]
  /\ bySubdomain' = [bySubdomain EXCEPT ![d] = c]

\* Mutant: the subdomain stays registered.
UnregisterByID(t) ==
  /\ byTunnelID' = [byTunnelID EXCEPT ![t] = None]
  /\ UNCHANGED bySubdomain

Unregister(t) ==
  IF byTunnelID[t] = None THEN UNCHANGED registryVars
  ELSE /\ byTunnelID' = [byTunnelID EXCEPT ![t] = None]
       /\ bySubdomain' = [bySubdomain EXCEPT ![tunnel[byTunnelID[t]].sub] = None]

\* Mutant: ids come round again.
newTunnelIDRepeats == TunnelIDs

\* crypto/rand: any id.  Without ReuseIDs an id that was given out comes up
\* again only while its tunnel is registered, when Register refuses it.
newTunnelID ==
  IF ReuseIDs THEN TunnelIDs ELSE {t \in TunnelIDs : t \in issued => byTunnelID[t] # None}

-------------------------------------------------------------------------------
(* handleAgentWebSocket, one action per step that other goroutines can see *)

\* The agent listener takes connections until agentServer.Shutdown.
Accept(c) ==
  /\ pc[c] = "idle" /\ run # "returned"
  /\ pc' = [pc EXCEPT ![c] = "auth"]
  /\ conn' = [conn EXCEPT ![c] = "open"]
  /\ UNCHANGED <<tunnel, tries, registryVars, sessionVars, issued, lookup, runVars>>

\* Every early return of the handshake closes the connection; closing one that
\* is already gone changes nothing.
Reject(c) ==
  /\ pc' = [pc EXCEPT ![c] = "done"]
  /\ conn' = [conn EXCEPT ![c] = IF @ = "open" THEN "closed" ELSE @]

authenticateAgentFails(c) ==
  /\ pc[c] = "auth"
  /\ Reject(c)
  /\ UNCHANGED <<tunnel, tries, registryVars, sessionVars, issued, lookup, runVars>>

authenticateAgent(c) ==
  /\ pc[c] = "auth" /\ conn[c] = "open"
  /\ pc' = [pc EXCEPT ![c] = "register"]
  /\ UNCHANGED <<conn, tunnel, tries, registryVars, sessionVars, issued, lookup, runVars>>

\* Read error, wrong message or protocol, invalid name, authorization refused
\* or unavailable, no randomness for a name or an id: nothing is registered yet.
registerTunnelRefused(c) ==
  /\ pc[c] \in {"register", "random"}
  /\ Reject(c)
  /\ UNCHANGED <<tunnel, tries, registryVars, sessionVars, issued, lookup, runVars>>

Registered(c, t, d) ==
  /\ RegisterError(t, d) = "nil"
  /\ Register(c, t, d)
  /\ issued' = issued \cup {t}
  /\ tunnel' = [tunnel EXCEPT ![c] = [id |-> t, sub |-> d]]
  /\ pc' = [pc EXCEPT ![c] = "announce"]
  /\ UNCHANGED <<conn, tries>>

registerRequestedSubdomain(c) ==
  /\ pc[c] = "register" /\ conn[c] = "open"
  /\ \E t \in newTunnelID, d \in Subdomains :
       \/ Registered(c, t, d)
       \/ /\ RegisterError(t, d) # "nil"
          /\ Reject(c)
          /\ UNCHANGED <<registryVars, tunnel, tries, issued>>
  /\ UNCHANGED <<sessionVars, lookup, runVars>>

AttemptsLeft(c) == tries[c] + 1 < Attempts

\* One turn of the loop: only a taken subdomain is tried again (the names that
\* RandomSubdomain draws are valid).
registerRandomSubdomain(c) ==
  /\ \/ pc[c] = "register" /\ conn[c] = "open"
     \/ pc[c] = "random"
  /\ \E t \in newTunnelID, d \in Subdomains :
       \/ Registered(c, t, d)
       \/ /\ RegisterError(t, d) = "subdomain_already_registered"
          /\ tries' = [tries EXCEPT ![c] = @ + 1]
          /\ IF AttemptsLeft(c)
             THEN pc' = [pc EXCEPT ![c] = "random"] /\ UNCHANGED conn
             ELSE Reject(c)
          /\ UNCHANGED <<registryVars, tunnel, issued>>
       \/ /\ RegisterError(t, d) = "tunnel_id_already_registered"
          /\ Reject(c)
          /\ UNCHANGED <<registryVars, tunnel, tries, issued>>
  /\ UNCHANGED <<sessionVars, lookup, runVars>>

\* tunnel.registered is written; a write to a peer that has just gone may
\* still succeed.
writeTunnelRegistered(c) ==
  /\ pc[c] = "announce"
  /\ pc' = [pc EXCEPT ![c] = "told"]
  /\ UNCHANGED <<conn, tunnel, tries, registryVars, sessionVars, issued, lookup, runVars>>

\* Mutant: a failed write leaves the tunnel registered.
writeTunnelRegisteredFailsLeaks(c) ==
  /\ pc[c] = "announce"
  /\ Reject(c)
  /\ UNCHANGED <<tunnel, tries, registryVars, sessionVars, issued, lookup, runVars>>

writeTunnelRegisteredFails(c) ==
  /\ pc[c] = "announce"
  /\ Unregister(tunnel[c].id)
  /\ Reject(c)
  /\ UNCHANGED <<tunnel, tries, sessionVars, issued, lookup, runVars>>

addSession(c) ==
  /\ pc[c] = "told" /\ sessionsMu = None
  /\ sessions' = [sessions EXCEPT ![tunnel[c].id] = c]
  /\ pc' = [pc EXCEPT ![c] = "serving"]
  /\ UNCHANGED <<conn, tunnel, tries, registryVars, sessionsMu, issued, lookup, runVars>>

\* readLoop returns when the connection was closed by anyone ...
readLoopReturns(c) ==
  /\ pc[c] = "serving" /\ conn[c] # "open"
  /\ pc' = [pc EXCEPT ![c] = "ended"]
  /\ UNCHANGED <<conn, tunnel, tries, registryVars, sessionVars, issued, lookup, runVars>>

\* ... or when the answer to an application ping cannot be written.
PongWriteFails(c) ==
  /\ pc[c] = "serving" /\ conn[c] = "open"
  /\ pc' = [pc EXCEPT ![c] = "ended"]
  /\ UNCHANGED <<conn, tunnel, tries, registryVars, sessionVars, issued, lookup, runVars>>

\* The deferred removeSession deletes the session under sessionsMu ...
removeSession(c) ==
  /\ pc[c] = "ended" /\ sessionsMu = None
  /\ sessionsMu' = c
  /\ sessions' = [sessions EXCEPT ![tunnel[c].id] = None]
  /\ pc' = [pc EXCEPT ![c] = "removing"]
  /\ UNCHANGED <<conn, tunnel, tries, registryVars, issued, lookup, runVars>>

\* Mutant: sessionsMu stays locked.
removeSessionKeepsLock(c) ==
  /\ pc[c] = "removing"
  /\ Unregister(tunnel[c].id)
  /\ pc' = [pc EXCEPT ![c] = "done"]
  /\ conn' = [conn EXCEPT ![c] = IF @ = "open" THEN "closed" ELSE @]
  /\ UNCHANGED <<tunnel, tries, sessionVars, issued, lookup, runVars>>

\* ... and unregisters the tunnel, under the registry's own lock, before
\* sessionsMu is released; the handler's first defer closes the connection.
removeSessionUnregister(c) ==
  /\ pc[c] = "removing"
  /\ Unregister(tunnel[c].id)
  /\ sessionsMu' = None
  /\ pc' = [pc EXCEPT ![c] = "done"]
  /\ conn' = [conn EXCEPT ![c] = IF @ = "open" THEN "closed" ELSE @]
  /\ UNCHANGED <<tunnel, tries, sessions, issued, lookup, runVars>>

\* The agent disconnects or its network drops.
PeerLost(c) ==
  /\ conn[c] = "open"
  /\ conn' = [conn EXCEPT ![c] = "closed"]
  /\ UNCHANGED <<pc, tunnel, tries, registryVars, sessionVars, issued, lookup, runVars>>

\* startKeepalive: a ping without a pong closes the session.
KeepaliveFails(c) ==
  /\ pc[c] = "serving" /\ conn[c] = "open"
  /\ conn' = [conn EXCEPT ![c] = "closed"]
  /\ UNCHANGED <<pc, tunnel, tries, registryVars, sessionVars, issued, lookup, runVars>>

-------------------------------------------------------------------------------
(* sessionBySubdomain: two lookups under two locks; a miss leaves no trace *)

LookupBySubdomain(r) ==
  /\ lookup[r].at = "idle"
  /\ \E d \in Subdomains :
       /\ bySubdomain[d] # None
       /\ lookup' = [lookup EXCEPT ![r] =
                       [at |-> "found", sub |-> d, id |-> tunnel[bySubdomain[d]].id]]
  /\ UNCHANGED <<pc, conn, tunnel, tries, registryVars, sessionVars, issued, runVars>>

LookupSession(r) ==
  /\ lookup[r].at = "found" /\ sessionsMu = None
  /\ lookup' = [lookup EXCEPT ![r] =
       LET s == sessions[lookup[r].id]
       IN IF s = None THEN NoLookup
          ELSE [at |-> "routed", sub |-> lookup[r].sub, to |-> s]]
  /\ UNCHANGED <<pc, conn, tunnel, tries, registryVars, sessionVars, issued, runVars>>

\* The request is answered and its goroutine ends.
LookupEnds(r) ==
  /\ lookup[r].at = "routed"
  /\ lookup' = [lookup EXCEPT ![r] = NoLookup]
  /\ UNCHANGED <<pc, conn, tunnel, tries, registryVars, sessionVars, issued, runVars>>

-------------------------------------------------------------------------------
(* Server.Run after ctx is done or a listener fails *)

closeSessionsSnapshot ==
  /\ run = "running" /\ sessionsMu = None
  /\ snapshot' = {c \in Conns : \E t \in TunnelIDs : sessions[t] = c}
  /\ run' = "closing"
  /\ UNCHANGED <<pc, conn, tunnel, tries, registryVars, sessionVars, issued, lookup>>

closeSession(c) ==
  /\ run = "closing" /\ c \in snapshot /\ conn[c] = "open"
  /\ conn' = [conn EXCEPT ![c] = "closed"]
  /\ UNCHANGED <<pc, tunnel, tries, registryVars, sessionVars, issued, lookup, runVars>>

\* Mutant: the shutdown timeout does not close the rest.
closeSessionsGivesUp ==
  /\ run = "closing"
  /\ run' = "draining"
  /\ UNCHANGED <<pc, conn, tunnel, tries, registryVars, sessionVars, issued, lookup, snapshot>>

\* All closed, or the shutdown timeout expired and closeNow closed the rest.
closeSessionsReturns ==
  /\ run = "closing"
  /\ conn' = [c \in Conns |-> IF c \in snapshot /\ conn[c] = "open" THEN "closed" ELSE conn[c]]
  /\ run' = "draining"
  /\ UNCHANGED <<pc, tunnel, tries, registryVars, sessionVars, issued, lookup, snapshot>>

\* The three Shutdown calls; hijacked agent connections are not theirs.
RunReturns ==
  /\ run = "draining"
  /\ run' = "returned"
  /\ UNCHANGED <<pc, conn, tunnel, tries, registryVars, sessionVars, issued, lookup, snapshot>>

-------------------------------------------------------------------------------
Handler(c) ==
  \/ authenticateAgentFails(c) \/ authenticateAgent(c)
  \/ registerTunnelRefused(c)
  \/ registerRequestedSubdomain(c) \/ registerRandomSubdomain(c)
  \/ writeTunnelRegistered(c) \/ writeTunnelRegisteredFails(c)
  \/ addSession(c) \/ readLoopReturns(c)
  \/ removeSession(c) \/ removeSessionUnregister(c)

Request(r) == LookupBySubdomain(r) \/ LookupSession(r) \/ LookupEnds(r)

Shutdown ==
  \/ closeSessionsSnapshot \/ closeSessionsReturns \/ RunReturns
  \/ \E c \in Conns : closeSession(c)

Next ==
  \/ \E c \in Conns : \/ Accept(c) \/ Handler(c)
                      \/ PeerLost(c) \/ KeepaliveFails(c) \/ PongWriteFails(c)
  \/ \E r \in Lookups : Request(r)
  \/ Shutdown

Spec == Init /\ [][Next]_vars

(* A goroutine that can run does: the handshake steps are bounded by        *)
(* HandshakeTimeout, so each of them ends one way or the other.  Nothing    *)
(* makes an agent connect or disconnect, or the gateway shut down.          *)
FairSpec ==
  /\ Spec
  /\ \A c \in Conns : WF_vars(Handler(c))
  /\ WF_vars(closeSessionsReturns)
  /\ WF_vars(RunReturns)

-------------------------------------------------------------------------------
\* The two maps of the registry describe the same set of tunnels: Register and
\* Unregister keep them inverse to each other (registry.go 55-106).
RegistryConsistent ==
  /\ \A t \in TunnelIDs : byTunnelID[t] # None =>
       LET s == byTunnelID[t]
       IN tunnel[s] \in Tunnels /\ tunnel[s].id = t /\ bySubdomain[tunnel[s].sub] = s
  /\ \A d \in Subdomains : bySubdomain[d] # None =>
       LET s == bySubdomain[d]
       IN tunnel[s] \in Tunnels /\ tunnel[s].sub = d /\ byTunnelID[tunnel[s].id] = s

\* No exit of handleAgentWebSocket leaves its tunnel in the registry or in
\* Server.sessions, and no other goroutine's exit takes it out: exactly the
\* goroutines between Register and Unregister hold a name.
HeldByLiveHandler ==
  /\ \A c \in Conns : (pc[c] \in Holding) <=> (\E t \in TunnelIDs : byTunnelID[t] = c)
  /\ \A c \in Conns : (pc[c] \in {"serving", "ended"}) <=> (\E t \in TunnelIDs : sessions[t] = c)

\* A public request is handed to a session of the subdomain it asked for, even
\* though the name may be released and taken again between the two lookups of
\* sessionBySubdomain.
RoutedToItsSubdomain ==
  \A r \in Lookups : lookup[r].at = "routed" =>
    /\ tunnel[lookup[r].to] \in Tunnels
    /\ tunnel[lookup[r].to].sub = lookup[r].sub

\* A step never moves a registered name from one connection to another: it is
\* released first, by the goroutine that holds it.
NamesNotStolen ==
  [][\A d \in Subdomains : bySubdomain[d] # None /\ bySubdomain'[d] # bySubdomain[d]
       => bySubdomain'[d] = None /\ pc'[bySubdomain[d]] = "done"]_vars

\* A tunnel whose connection is gone gives its name back.  (The connection does not
\* come back, and a handler that leaves Holding is done: to hold a name without a
\* connection is over for good some time.)
NameReleased ==
  \A c \in Conns : <>[](pc[c] \in Holding => conn[c] = "open")

\* After closeSessions copied a session, that session ends; Run returns.  (The copy
\* is made once, and done and returned are for good.)
ShutdownEndsSessions ==
  /\ \A c \in Conns : <>[](c \in snapshot => pc[c] = "done")
  /\ <>[](run \in {"running", "returned"})

===============================================================================
