------------------------- MODULE TunnelRegistryProofs -------------------------
(***************************************************************************)
(* The tunnel registry's safety for any number of connections, names, ids  *)
(* and lookups.  RegistryConsistent and HeldByLiveHandler are not          *)
(* inductive: Unregister frees the right name only because the goroutine   *)
(* that calls it is the one both maps point to.  Linked says so, in both   *)
(* directions, for the registry's maps and for Server.sessions.            *)
(***************************************************************************)
EXTENDS TunnelRegistry, TLAPS

Early == {"idle", "auth", "register", "random"}
InSessions == {"serving", "ended"}

Linked ==
  /\ \A c \in Conns : pc[c] \in Holding =>
       /\ tunnel[c] \in Tunnels
       /\ byTunnelID[tunnel[c].id] = c
       /\ bySubdomain[tunnel[c].sub] = c
  /\ \A t \in TunnelIDs : byTunnelID[t] # None =>
       pc[byTunnelID[t]] \in Holding /\ tunnel[byTunnelID[t]].id = t
  /\ \A d \in Subdomains : bySubdomain[d] # None =>
       pc[bySubdomain[d]] \in Holding /\ tunnel[bySubdomain[d]].sub = d
  /\ \A t \in TunnelIDs : sessions[t] # None =>
       pc[sessions[t]] \in InSessions /\ tunnel[sessions[t]].id = t
  /\ \A c \in Conns : pc[c] \in InSessions => sessions[tunnel[c].id] = c

\* The loop of registerRandomSubdomain still has an attempt to make.
TriesLeft == \A c \in Conns : pc[c] \in Early => tries[c] < Attempts

Inv == TypeOK /\ Linked /\ TriesLeft

\* A gateway that has just started has no tunnel and no session.
LEMMA InitInv == Init => Inv
<1> SUFFICES ASSUME Init PROVE Inv
  OBVIOUS
<1> USE AttemptsAssumption, NoneAssumption
<1>1. TypeOK
  BY DEF Init, TypeOK, Steps, ConnStates, NoLookup
<1>2. Linked
  BY DEF Init, Linked, Holding, InSessions
<1>3. TriesLeft
  BY DEF Init, TriesLeft
<1> QED
  BY <1>1, <1>2, <1>3 DEF Inv

\* A goroutine that moves on without touching the maps keeps them linked, as
\* long as it neither starts nor stops holding a name or a session.
LEMMA MoveKeepsLinked ==
  ASSUME Inv, NEW c \in Conns, NEW y \in Steps,
         pc' = [pc EXCEPT ![c] = y],
         UNCHANGED <<tunnel, registryVars, sessions>>,
         (y \in Holding) <=> (pc[c] \in Holding),
         (y \in InSessions) <=> (pc[c] \in InSessions)
  PROVE  Linked'
<1>1. pc \in [Conns -> Steps]
  BY DEF Inv, TypeOK
<1>2. /\ \A e \in Conns : (pc'[e] \in Holding) <=> (pc[e] \in Holding)
      /\ \A e \in Conns : (pc'[e] \in InSessions) <=> (pc[e] \in InSessions)
  BY <1>1
<1>3. /\ byTunnelID \in [TunnelIDs -> Conns \cup {None}]
      /\ bySubdomain \in [Subdomains -> Conns \cup {None}]
      /\ sessions \in [TunnelIDs -> Conns \cup {None}]
  BY DEF Inv, TypeOK
<1>4. UNCHANGED <<tunnel, byTunnelID, bySubdomain, sessions>>
  BY DEF registryVars
<1> QED
  BY <1>2, <1>3, <1>4 DEF Inv, Linked

\* Steps that leave every goroutine where it is and the maps alone.
LEMMA StayKeepsLinked ==
  ASSUME Inv, UNCHANGED <<pc, tunnel, registryVars, sessions>>
  PROVE  Linked'
BY DEF Inv, Linked, registryVars

\* Register by a goroutine that holds nothing, on free keys.
LEMMA RegisteredKeepsLinked ==
  ASSUME Inv, NEW c \in Conns, pc[c] \in {"register", "random"},
         NEW t \in TunnelIDs, NEW d \in Subdomains,
         Registered(c, t, d), UNCHANGED sessions
  PROVE  Linked'
<1> USE NoneAssumption
<1>1. /\ pc \in [Conns -> Steps]
      /\ tunnel \in [Conns -> Tunnels \cup {None}]
      /\ byTunnelID \in [TunnelIDs -> Conns \cup {None}]
      /\ bySubdomain \in [Subdomains -> Conns \cup {None}]
      /\ sessions \in [TunnelIDs -> Conns \cup {None}]
  BY DEF Inv, TypeOK
<1>2. byTunnelID[t] = None /\ bySubdomain[d] = None
  BY DEF Registered, RegisterError
<1>3. /\ byTunnelID' = [byTunnelID EXCEPT ![t] = c]
      /\ bySubdomain' = [bySubdomain EXCEPT ![d] = c]
      /\ tunnel' = [tunnel EXCEPT ![c] = [id |-> t, sub |-> d]]
      /\ pc' = [pc EXCEPT ![c] = "announce"]
      /\ sessions' = sessions
  BY DEF Registered, Register
<1>4. pc[c] \notin Holding /\ pc[c] \notin InSessions
  BY DEF Holding, InSessions
<1>5. \A e \in Conns : e # c => pc'[e] = pc[e] /\ tunnel'[e] = tunnel[e]
  BY <1>1, <1>3
<1>6. pc'[c] = "announce" /\ tunnel'[c] = [id |-> t, sub |-> d] /\ tunnel'[c] \in Tunnels
  BY <1>1, <1>3 DEF Tunnels
<1>7. \A e \in Conns : pc'[e] \in Holding =>
        /\ tunnel'[e] \in Tunnels
        /\ byTunnelID'[tunnel'[e].id] = e
        /\ bySubdomain'[tunnel'[e].sub] = e
  <2> SUFFICES ASSUME NEW e \in Conns, pc'[e] \in Holding
               PROVE  /\ tunnel'[e] \in Tunnels
                      /\ byTunnelID'[tunnel'[e].id] = e
                      /\ bySubdomain'[tunnel'[e].sub] = e
    OBVIOUS
  <2>1. CASE e = c
    BY <1>1, <1>3, <1>6, <2>1
  <2>2. CASE e # c
    <3>1. /\ tunnel[e] \in Tunnels /\ tunnel'[e] = tunnel[e]
          /\ byTunnelID[tunnel[e].id] = e /\ bySubdomain[tunnel[e].sub] = e
      BY <1>5, <2>2 DEF Inv, Linked
    <3>2. tunnel[e].id \in TunnelIDs /\ tunnel[e].sub \in Subdomains
      BY <3>1 DEF Tunnels
    <3> QED
      BY <1>1, <1>2, <1>3, <3>1, <3>2
  <2> QED
    BY <2>1, <2>2
<1>8. \A u \in TunnelIDs : byTunnelID'[u] # None =>
        pc'[byTunnelID'[u]] \in Holding /\ tunnel'[byTunnelID'[u]].id = u
  BY <1>1, <1>3, <1>4, <1>5, <1>6 DEF Inv, Linked, Holding
<1>9. \A u \in Subdomains : bySubdomain'[u] # None =>
        pc'[bySubdomain'[u]] \in Holding /\ tunnel'[bySubdomain'[u]].sub = u
  BY <1>1, <1>3, <1>4, <1>5, <1>6 DEF Inv, Linked, Holding
<1>10. \A u \in TunnelIDs : sessions'[u] # None =>
         pc'[sessions'[u]] \in InSessions /\ tunnel'[sessions'[u]].id = u
  BY <1>1, <1>3, <1>4, <1>5 DEF Inv, Linked
<1>11. \A e \in Conns : pc'[e] \in InSessions => sessions'[tunnel'[e].id] = e
  BY <1>3, <1>5, <1>6 DEF Inv, Linked, InSessions
<1> QED
  BY <1>7, <1>8, <1>9, <1>10, <1>11 DEF Linked

\* Unregister by the goroutine that holds the tunnel frees its two keys only.
LEMMA UnregisterOwn ==
  ASSUME Inv, NEW c \in Conns, pc[c] \in Holding, Unregister(tunnel[c].id)
  PROVE  /\ tunnel[c].id \in TunnelIDs /\ tunnel[c].sub \in Subdomains
         /\ byTunnelID' = [byTunnelID EXCEPT ![tunnel[c].id] = None]
         /\ bySubdomain' = [bySubdomain EXCEPT ![tunnel[c].sub] = None]
<1>1. tunnel[c] \in Tunnels /\ byTunnelID[tunnel[c].id] = c
  BY DEF Inv, Linked
<1>2. tunnel[c].id \in TunnelIDs /\ tunnel[c].sub \in Subdomains
  BY <1>1 DEF Tunnels
<1>3. c # None
  BY NoneAssumption
<1> QED
  BY <1>1, <1>2, <1>3 DEF Unregister

\* Unregistering is right for every other goroutine: what they hold stays theirs.
LEMMA UnregisterKeepsLinked ==
  ASSUME Inv, NEW c \in Conns, pc[c] \in {"announce", "removing"},
         Unregister(tunnel[c].id), pc' = [pc EXCEPT ![c] = "done"],
         UNCHANGED <<tunnel, sessions>>
  PROVE  Linked'
<1> USE NoneAssumption
<1>1. /\ pc \in [Conns -> Steps]
      /\ tunnel \in [Conns -> Tunnels \cup {None}]
      /\ byTunnelID \in [TunnelIDs -> Conns \cup {None}]
      /\ bySubdomain \in [Subdomains -> Conns \cup {None}]
      /\ sessions \in [TunnelIDs -> Conns \cup {None}]
  BY DEF Inv, TypeOK
<1>2. pc[c] \in Holding /\ pc[c] \notin InSessions
  BY DEF Holding, InSessions
<1>3. /\ tunnel[c].id \in TunnelIDs /\ tunnel[c].sub \in Subdomains
      /\ byTunnelID' = [byTunnelID EXCEPT ![tunnel[c].id] = None]
      /\ bySubdomain' = [bySubdomain EXCEPT ![tunnel[c].sub] = None]
  BY <1>2, UnregisterOwn
<1>4. byTunnelID[tunnel[c].id] = c /\ bySubdomain[tunnel[c].sub] = c
  BY <1>2 DEF Inv, Linked
<1>5. /\ \A e \in Conns : e # c => pc'[e] = pc[e]
      /\ pc'[c] = "done" /\ pc'[c] \notin Holding /\ pc'[c] \notin InSessions
  BY <1>1 DEF Holding, InSessions
<1>6. \A e \in Conns : pc'[e] \in Holding =>
        /\ tunnel'[e] \in Tunnels
        /\ byTunnelID'[tunnel'[e].id] = e
        /\ bySubdomain'[tunnel'[e].sub] = e
  <2> SUFFICES ASSUME NEW e \in Conns, pc'[e] \in Holding
               PROVE  /\ tunnel[e] \in Tunnels
                      /\ byTunnelID'[tunnel[e].id] = e
                      /\ bySubdomain'[tunnel[e].sub] = e
    OBVIOUS
  <2>1. e # c /\ pc[e] \in Holding
    BY <1>5
  <2>2. /\ tunnel[e] \in Tunnels
        /\ byTunnelID[tunnel[e].id] = e /\ bySubdomain[tunnel[e].sub] = e
    BY <2>1 DEF Inv, Linked
  <2>3. tunnel[e].id \in TunnelIDs /\ tunnel[e].sub \in Subdomains
    BY <2>2 DEF Tunnels
  <2>4. tunnel[e].id # tunnel[c].id /\ tunnel[e].sub # tunnel[c].sub
    BY <1>4, <2>1, <2>2
  <2> QED
    BY <1>1, <1>3, <2>2, <2>3, <2>4
<1>7. \A u \in TunnelIDs : byTunnelID'[u] # None =>
        pc'[byTunnelID'[u]] \in Holding /\ tunnel'[byTunnelID'[u]].id = u
  <2> SUFFICES ASSUME NEW u \in TunnelIDs, byTunnelID'[u] # None
               PROVE  pc'[byTunnelID'[u]] \in Holding /\ tunnel[byTunnelID'[u]].id = u
    OBVIOUS
  <2>1. u # tunnel[c].id /\ byTunnelID'[u] = byTunnelID[u] /\ byTunnelID[u] \in Conns
    BY <1>1, <1>3
  <2>2. pc[byTunnelID[u]] \in Holding /\ tunnel[byTunnelID[u]].id = u
    BY <2>1 DEF Inv, Linked
  <2>3. byTunnelID[u] # c
    BY <2>1, <2>2
  <2> QED
    BY <1>5, <2>1, <2>2, <2>3
<1>8. \A u \in Subdomains : bySubdomain'[u] # None =>
        pc'[bySubdomain'[u]] \in Holding /\ tunnel'[bySubdomain'[u]].sub = u
  <2> SUFFICES ASSUME NEW u \in Subdomains, bySubdomain'[u] # None
               PROVE  pc'[bySubdomain'[u]] \in Holding /\ tunnel[bySubdomain'[u]].sub = u
    OBVIOUS
  <2>1. u # tunnel[c].sub /\ bySubdomain'[u] = bySubdomain[u] /\ bySubdomain[u] \in Conns
    BY <1>1, <1>3
  <2>2. pc[bySubdomain[u]] \in Holding /\ tunnel[bySubdomain[u]].sub = u
    BY <2>1 DEF Inv, Linked
  <2>3. bySubdomain[u] # c
    BY <2>1, <2>2
  <2> QED
    BY <1>5, <2>1, <2>2, <2>3
<1>9. \A u \in TunnelIDs : sessions'[u] # None =>
        pc'[sessions'[u]] \in InSessions /\ tunnel'[sessions'[u]].id = u
  BY <1>1, <1>2, <1>5 DEF Inv, Linked
<1>10. \A e \in Conns : pc'[e] \in InSessions => sessions'[tunnel'[e].id] = e
  BY <1>5 DEF Inv, Linked
<1> QED
  BY <1>6, <1>7, <1>8, <1>9, <1>10 DEF Linked

\* addSession and the first half of removeSession change one key of
\* Server.sessions, the one only this goroutine's tunnel can be under.
LEMMA SessionStepKeepsLinked ==
  ASSUME Inv, NEW c \in Conns, addSession(c) \/ removeSession(c)
  PROVE  Linked'
<1> USE NoneAssumption
<1>1. /\ pc \in [Conns -> Steps]
      /\ tunnel \in [Conns -> Tunnels \cup {None}]
      /\ byTunnelID \in [TunnelIDs -> Conns \cup {None}]
      /\ bySubdomain \in [Subdomains -> Conns \cup {None}]
      /\ sessions \in [TunnelIDs -> Conns \cup {None}]
  BY DEF Inv, TypeOK
<1>2. UNCHANGED <<tunnel, byTunnelID, bySubdomain>>
  BY DEF addSession, removeSession, registryVars
<1>3. pc[c] \in Holding
  BY DEF addSession, removeSession, Holding
<1>4. tunnel[c] \in Tunnels /\ tunnel[c].id \in TunnelIDs /\ byTunnelID[tunnel[c].id] = c
  BY <1>3 DEF Inv, Linked, Tunnels
<1>5. /\ \A e \in Conns : e # c => pc'[e] = pc[e]
      /\ pc'[c] \in Holding
      /\ \A e \in Conns : (pc'[e] \in Holding) <=> (pc[e] \in Holding)
  BY <1>1, <1>3 DEF addSession, removeSession, Holding
<1>6. \A e \in Conns : e # c /\ pc[e] \in Holding =>
        tunnel[e].id # tunnel[c].id /\ tunnel[e].id \in TunnelIDs
  BY <1>4 DEF Inv, Linked, Tunnels
<1>7. /\ \A e \in Conns : pc'[e] \in Holding =>
           /\ tunnel'[e] \in Tunnels
           /\ byTunnelID'[tunnel'[e].id] = e
           /\ bySubdomain'[tunnel'[e].sub] = e
      /\ \A u \in TunnelIDs : byTunnelID'[u] # None =>
           pc'[byTunnelID'[u]] \in Holding /\ tunnel'[byTunnelID'[u]].id = u
      /\ \A u \in Subdomains : bySubdomain'[u] # None =>
           pc'[bySubdomain'[u]] \in Holding /\ tunnel'[bySubdomain'[u]].sub = u
  BY <1>1, <1>2, <1>5 DEF Inv, Linked
<1>8. \A u \in TunnelIDs : sessions[u] # None /\ u # tunnel[c].id => sessions[u] # c
  BY <1>1 DEF Inv, Linked
<1>9. /\ \A u \in TunnelIDs : sessions'[u] # None =>
           pc'[sessions'[u]] \in InSessions /\ tunnel'[sessions'[u]].id = u
      /\ \A e \in Conns : pc'[e] \in InSessions => sessions'[tunnel'[e].id] = e
  <2> DEFINE t == tunnel[c].id
  <2>1. CASE addSession(c)
    <3>1. sessions' = [sessions EXCEPT ![t] = c] /\ pc' = [pc EXCEPT ![c] = "serving"]
      BY <2>1 DEF addSession
    <3>2. \A u \in TunnelIDs : sessions'[u] = IF u = t THEN c ELSE sessions[u]
      BY <1>1, <1>4, <3>1
    <3>3. pc'[c] \in InSessions
      BY <1>1, <3>1 DEF InSessions
    <3>4. \A e \in Conns : e # c /\ pc'[e] \in InSessions => sessions'[tunnel[e].id] = e
      <4> SUFFICES ASSUME NEW e \in Conns, e # c, pc'[e] \in InSessions
                   PROVE  sessions'[tunnel[e].id] = e
        OBVIOUS
      <4>1. pc[e] \in InSessions /\ pc[e] \in Holding
        BY <1>5 DEF InSessions, Holding
      <4> QED
        BY <1>6, <3>2, <4>1 DEF Inv, Linked
    <3>5. \A u \in TunnelIDs : sessions'[u] # None =>
            pc'[sessions'[u]] \in InSessions /\ tunnel[sessions'[u]].id = u
      BY <1>1, <1>4, <1>5, <1>8, <3>2, <3>3 DEF Inv, Linked
    <3> QED
      BY <1>2, <1>4, <3>2, <3>4, <3>5
  <2>2. CASE removeSession(c)
    <3>1. sessions' = [sessions EXCEPT ![t] = None] /\ pc' = [pc EXCEPT ![c] = "removing"]
      BY <2>2 DEF removeSession
    <3>2. \A u \in TunnelIDs : sessions'[u] = IF u = t THEN None ELSE sessions[u]
      BY <1>1, <1>4, <3>1
    <3>3. pc'[c] \notin InSessions
      BY <1>1, <3>1 DEF InSessions
    <3>4. \A e \in Conns : e # c /\ pc'[e] \in InSessions => sessions'[tunnel[e].id] = e
      <4> SUFFICES ASSUME NEW e \in Conns, e # c, pc'[e] \in InSessions
                   PROVE  sessions'[tunnel[e].id] = e
        OBVIOUS
      <4>1. pc[e] \in InSessions /\ pc[e] \in Holding
        BY <1>5 DEF InSessions, Holding
      <4> QED
        BY <1>6, <3>2, <4>1 DEF Inv, Linked
    <3>5. \A u \in TunnelIDs : sessions'[u] # None =>
            pc'[sessions'[u]] \in InSessions /\ tunnel[sessions'[u]].id = u
      BY <1>1, <1>5, <1>8, <3>2 DEF Inv, Linked
    <3> QED
      BY <1>2, <3>3, <3>4, <3>5
  <2> QED
    BY <2>1, <2>2
<1> QED
  BY <1>7, <1>9 DEF Linked

\* Handshake steps of a goroutine that is not in the registry.
LEMMA RegisterKeepsLinked ==
  ASSUME Inv, NEW c \in Conns,
         registerRequestedSubdomain(c) \/ registerRandomSubdomain(c)
  PROVE  Linked'
<1>1. pc[c] \in {"register", "random"}
  BY DEF registerRequestedSubdomain, registerRandomSubdomain
<1>2. UNCHANGED sessions
  BY DEF registerRequestedSubdomain, registerRandomSubdomain, sessionVars
<1>3. PICK t \in TunnelIDs, d \in Subdomains :
        \/ Registered(c, t, d)
        \/ Reject(c) /\ UNCHANGED <<registryVars, tunnel>>
        \/ pc' = [pc EXCEPT ![c] = "random"] /\ UNCHANGED <<registryVars, tunnel>>
  BY DEF registerRequestedSubdomain, registerRandomSubdomain, newTunnelID, Registered
<1>4. CASE Registered(c, t, d)
  BY <1>1, <1>2, <1>4, RegisteredKeepsLinked, Zenon
<1>5. CASE Reject(c) /\ UNCHANGED <<registryVars, tunnel>>
  <2>1. pc' = [pc EXCEPT ![c] = "done"]
    BY <1>5, Zenon DEF Reject
  <2> QED
    BY <1>1, <1>2, <1>5, <2>1, MoveKeepsLinked, Zenon DEF Steps, Holding, InSessions
<1>6. CASE pc' = [pc EXCEPT ![c] = "random"] /\ UNCHANGED <<registryVars, tunnel>>
  BY <1>1, <1>2, <1>6, MoveKeepsLinked, Zenon DEF Steps, Holding, InSessions
<1> QED
  BY <1>3, <1>4, <1>5, <1>6

\* The steps of goroutine c that change pc[c] and no map.
Moves(c) ==
  \/ Accept(c) \/ authenticateAgentFails(c) \/ authenticateAgent(c)
  \/ registerTunnelRefused(c) \/ writeTunnelRegistered(c)
  \/ readLoopReturns(c) \/ PongWriteFails(c)

\* Steps of handleAgentWebSocket that touch neither map.
LEMMA MovesKeepLinked ==
  ASSUME Inv, NEW c \in Conns, Moves(c)
  PROVE  Linked'
<1>1. UNCHANGED <<tunnel, registryVars, sessions>>
  BY DEF Moves, Accept, authenticateAgentFails, authenticateAgent, registerTunnelRefused,
         writeTunnelRegistered, readLoopReturns, PongWriteFails, sessionVars
<1>2. PICK y \in Steps :
        /\ pc' = [pc EXCEPT ![c] = y]
        /\ (y \in Holding) <=> (pc[c] \in Holding)
        /\ (y \in InSessions) <=> (pc[c] \in InSessions)
  BY DEF Moves, Accept, authenticateAgentFails, authenticateAgent, registerTunnelRefused,
         writeTunnelRegistered, readLoopReturns, PongWriteFails, Reject, Steps, Holding,
         InSessions
<1> QED
  BY <1>1, <1>2, MoveKeepsLinked, Zenon

\* No step of any goroutine separates the maps from the goroutines that own them.
LEMMA NextKeepsLinked == Inv /\ [Next]_vars => Linked'
<1> SUFFICES ASSUME Inv, [Next]_vars PROVE Linked'
  OBVIOUS
<1>1. ASSUME NEW c \in Conns, Moves(c) PROVE Linked'
  BY <1>1, MovesKeepLinked
<1>2. ASSUME NEW c \in Conns, registerRequestedSubdomain(c) \/ registerRandomSubdomain(c)
      PROVE Linked'
  BY <1>2, RegisterKeepsLinked
<1>3. ASSUME NEW c \in Conns, addSession(c) \/ removeSession(c) PROVE Linked'
  BY <1>3, SessionStepKeepsLinked
<1>4. ASSUME NEW c \in Conns, writeTunnelRegisteredFails(c) \/ removeSessionUnregister(c)
      PROVE Linked'
  <2>1. /\ pc[c] \in {"announce", "removing"}
        /\ Unregister(tunnel[c].id)
        /\ pc' = [pc EXCEPT ![c] = "done"]
        /\ UNCHANGED <<tunnel, sessions>>
    BY <1>4 DEF writeTunnelRegisteredFails, removeSessionUnregister, Reject, sessionVars
  <2> QED
    BY <2>1, UnregisterKeepsLinked, Zenon
<1>5. ASSUME NEW c \in Conns, PeerLost(c) \/ KeepaliveFails(c) \/ closeSession(c)
      PROVE Linked'
  <2>1. UNCHANGED <<pc, tunnel, registryVars, sessions>>
    BY <1>5 DEF PeerLost, KeepaliveFails, closeSession, sessionVars
  <2> QED
    BY <2>1, StayKeepsLinked
<1>6. ASSUME NEW r \in Lookups, Request(r) PROVE Linked'
  <2>1. UNCHANGED <<pc, tunnel, registryVars, sessions>>
    BY <1>6 DEF Request, LookupBySubdomain, LookupSession, LookupEnds, sessionVars
  <2> QED
    BY <2>1, StayKeepsLinked
<1>7. CASE closeSessionsSnapshot \/ closeSessionsReturns \/ RunReturns
  <2>1. UNCHANGED <<pc, tunnel, registryVars, sessions>>
    BY <1>7 DEF closeSessionsSnapshot, closeSessionsReturns, RunReturns, sessionVars
  <2> QED
    BY <2>1, StayKeepsLinked
<1>8. CASE UNCHANGED vars
  <2>1. UNCHANGED <<pc, tunnel, registryVars, sessions>>
    BY <1>8 DEF vars, sessionVars
  <2> QED
    BY <2>1, StayKeepsLinked
<1> QED
  BY <1>1, <1>2, <1>3, <1>4, <1>5, <1>6, <1>7, <1>8
     DEF Next, Handler, Shutdown, Moves

\* Types, with the bound on the attempts of registerRandomSubdomain.
LEMMA NextKeepsTypes == Inv /\ [Next]_vars => TypeOK' /\ TriesLeft'
<1> SUFFICES ASSUME Inv, [Next]_vars PROVE TypeOK' /\ TriesLeft'
  OBVIOUS
<1> USE AttemptsAssumption
<1>0. TypeOK /\ TriesLeft
  BY DEF Inv
<1>1. ASSUME NEW c \in Conns, Moves(c) PROVE TypeOK' /\ TriesLeft'
  <2>1. UNCHANGED <<tunnel, tries, registryVars, sessionVars, issued, lookup, runVars>>
    BY <1>1 DEF Moves, Accept, authenticateAgentFails, authenticateAgent,
         registerTunnelRefused, writeTunnelRegistered, readLoopReturns, PongWriteFails
  <2>2. pc' \in [Conns -> Steps] /\ conn' \in [Conns -> ConnStates]
    BY <1>0, <1>1 DEF Moves, Accept, authenticateAgentFails, authenticateAgent,
         registerTunnelRefused, writeTunnelRegistered, readLoopReturns, PongWriteFails,
         Reject, TypeOK, Steps, ConnStates
  <2>3. \A e \in Conns : pc'[e] \in Early => pc[e] \in Early
    BY <1>0, <1>1 DEF Moves, Accept, authenticateAgentFails, authenticateAgent,
         registerTunnelRefused, writeTunnelRegistered, readLoopReturns, PongWriteFails,
         Reject, TypeOK, Early
  <2> QED
    BY <1>0, <2>1, <2>2, <2>3 DEF TypeOK, TriesLeft, registryVars, sessionVars, runVars
<1>2. ASSUME NEW c \in Conns, registerRequestedSubdomain(c) \/ registerRandomSubdomain(c)
      PROVE TypeOK' /\ TriesLeft'
  <2>1. pc[c] \in {"register", "random"} /\ tries[c] \in Nat /\ tries[c] < Attempts
    BY <1>0, <1>2 DEF registerRequestedSubdomain, registerRandomSubdomain, AttemptsLeft, TypeOK,
                      TriesLeft, Early
  <2>2. UNCHANGED <<sessionVars, lookup, runVars>>
    BY <1>2, ZenonT(60) DEF registerRequestedSubdomain, registerRandomSubdomain
  <2>3. PICK t \in TunnelIDs, d \in Subdomains :
          /\ issued' \in {issued, issued \cup {t}}
          /\ \/ Registered(c, t, d)
             \/ Reject(c) /\ UNCHANGED <<registryVars, tunnel, tries>>
             \/ /\ tries' = [tries EXCEPT ![c] = @ + 1]
                /\ \/ tries[c] + 1 < Attempts /\ pc' = [pc EXCEPT ![c] = "random"]
                      /\ UNCHANGED conn
                   \/ Reject(c)
                /\ UNCHANGED <<registryVars, tunnel>>
    BY <1>2 DEF registerRequestedSubdomain, registerRandomSubdomain, newTunnelID, AttemptsLeft,
                Registered
  <2>4. CASE Registered(c, t, d)
    <3>1. [id |-> t, sub |-> d] \in Tunnels
      BY DEF Tunnels
    <3> QED
      BY <1>0, <2>2, <2>3, <2>4, <3>1 DEF Registered, Register, TypeOK, TriesLeft, Steps,
         Early, sessionVars, runVars
  <2>5. CASE Reject(c) /\ UNCHANGED <<registryVars, tunnel, tries>>
    BY <1>0, <2>2, <2>3, <2>5 DEF Reject, TypeOK, TriesLeft, Steps, ConnStates, Early,
       registryVars, sessionVars, runVars
  <2>6. CASE /\ tries' = [tries EXCEPT ![c] = @ + 1]
             /\ \/ tries[c] + 1 < Attempts /\ pc' = [pc EXCEPT ![c] = "random"]
                   /\ UNCHANGED conn
                \/ Reject(c)
             /\ UNCHANGED <<registryVars, tunnel>>
    <3>1. tries[c] + 1 \in 0..Attempts
      BY <2>1, SMTT(30)
    <3>2. tries' \in [Conns -> 0..Attempts] /\ tries'[c] = tries[c] + 1
          /\ \A e \in Conns : e # c => tries'[e] = tries[e]
      BY <1>0, <2>6, <3>1 DEF TypeOK
    <3>3. pc' \in [Conns -> Steps] /\ conn' \in [Conns -> ConnStates]
      BY <1>0, <2>6, ZenonT(60) DEF Reject, TypeOK, Steps, ConnStates
    <3>4. TypeOK'
      BY <1>0, <2>2, <2>3, <2>6, <3>2, <3>3
         DEF TypeOK, registryVars, sessionVars, runVars
    <3>5. TriesLeft'
      BY <1>0, <2>6, <3>2 DEF Reject, TypeOK, TriesLeft, Early
    <3> QED
      BY <3>4, <3>5
  <2> QED
    BY <2>3, <2>4, <2>5, <2>6
<1>3. ASSUME NEW c \in Conns, addSession(c) \/ removeSession(c) PROVE TypeOK' /\ TriesLeft'
  <2>1. /\ sessions' \in [TunnelIDs -> Conns \cup {None}]
        /\ sessionsMu' \in Conns \cup {None}
        /\ pc' \in [Conns -> Steps]
    BY <1>0, <1>3 DEF addSession, removeSession, TypeOK, Steps
  <2>2. UNCHANGED <<conn, tunnel, tries, registryVars, issued, lookup, runVars>>
    BY <1>3 DEF addSession, removeSession
  <2>3. \A e \in Conns : pc'[e] \in Early => pc[e] \in Early
    BY <1>0, <1>3 DEF addSession, removeSession, TypeOK, Early
  <2> QED
    BY <1>0, <2>1, <2>2, <2>3 DEF TypeOK, TriesLeft, registryVars, runVars
<1>4. ASSUME NEW c \in Conns, writeTunnelRegisteredFails(c) \/ removeSessionUnregister(c)
      PROVE TypeOK' /\ TriesLeft'
  <2>1. pc[c] \in Holding /\ Unregister(tunnel[c].id)
    BY <1>4 DEF writeTunnelRegisteredFails, removeSessionUnregister, Holding
  <2>2. /\ byTunnelID' \in [TunnelIDs -> Conns \cup {None}]
        /\ bySubdomain' \in [Subdomains -> Conns \cup {None}]
    BY <1>0, <2>1, UnregisterOwn DEF TypeOK
  <2>3. /\ pc' = [pc EXCEPT ![c] = "done"]
        /\ conn' \in [Conns -> ConnStates]
        /\ sessionsMu' \in Conns \cup {None}
        /\ UNCHANGED <<tunnel, tries, sessions, issued, lookup, runVars>>
    BY <1>0, <1>4 DEF writeTunnelRegisteredFails, removeSessionUnregister, Reject, TypeOK,
                      ConnStates, sessionVars
  <2> QED
    BY <1>0, <2>2, <2>3 DEF TypeOK, TriesLeft, Early, Steps, runVars
<1>5. ASSUME NEW c \in Conns, PeerLost(c) \/ KeepaliveFails(c) \/ closeSession(c)
      PROVE TypeOK' /\ TriesLeft'
  <2>1. conn' \in [Conns -> ConnStates]
    BY <1>0, <1>5, ZenonT(60) DEF PeerLost, KeepaliveFails, closeSession, TypeOK, ConnStates
  <2>2. UNCHANGED <<pc, tunnel, tries, registryVars, sessionVars, issued, lookup, runVars>>
    BY <1>5 DEF PeerLost, KeepaliveFails, closeSession
  <2> QED
    BY <1>0, <2>1, <2>2 DEF TypeOK, TriesLeft, registryVars, sessionVars, runVars
<1>6. ASSUME NEW r \in Lookups, Request(r) PROVE TypeOK' /\ TriesLeft'
  <2> DEFINE Found == [at : {"found"}, sub : Subdomains, id : TunnelIDs]
             Routed == [at : {"routed"}, sub : Subdomains, to : Conns]
             Any == {NoLookup} \cup Found \cup Routed
  <2>1. lookup \in [Lookups -> Any]
    BY <1>0 DEF TypeOK
  <2>2. ASSUME LookupBySubdomain(r) PROVE lookup' \in [Lookups -> Any]
    <3>1. PICK d \in Subdomains :
            /\ bySubdomain[d] # None
            /\ lookup' = [lookup EXCEPT ![r] =
                 [at |-> "found", sub |-> d, id |-> tunnel[bySubdomain[d]].id]]
      BY <2>2, ZenonT(60) DEF LookupBySubdomain
    <3>2. bySubdomain[d] \in Conns /\ pc[bySubdomain[d]] \in Holding
      BY <1>0, <3>1, SMTT(30) DEF TypeOK, Inv, Linked
    <3>3. tunnel[bySubdomain[d]] \in Tunnels
      BY <3>2 DEF Inv, Linked
    <3>4. tunnel[bySubdomain[d]].id \in TunnelIDs
      BY <3>3 DEF Tunnels
    <3>5. [at |-> "found", sub |-> d, id |-> tunnel[bySubdomain[d]].id] \in Found
      BY <3>4
    <3> QED
      BY <2>1, <3>1, <3>5
  <2>3. ASSUME LookupSession(r) PROVE lookup' \in [Lookups -> Any]
    <3> DEFINE s == sessions[lookup[r].id]
    <3>1. lookup[r] \in Any /\ lookup[r].at = "found"
      BY <2>1, <2>3 DEF LookupSession
    <3>2. lookup[r] \in Found
      BY <3>1 DEF NoLookup
    <3>3. lookup[r].id \in TunnelIDs /\ lookup[r].sub \in Subdomains
      BY <3>2
    <3>4. s \in Conns \cup {None}
      BY <1>0, <3>3 DEF TypeOK
    <3>5. s # None => [at |-> "routed", sub |-> lookup[r].sub, to |-> s] \in Routed
      BY <3>3, <3>4
    <3>6. lookup' = [lookup EXCEPT ![r] =
            IF s = None THEN NoLookup
            ELSE [at |-> "routed", sub |-> lookup[r].sub, to |-> s]]
      BY <2>3 DEF LookupSession
    <3> QED
      BY <2>1, <3>5, <3>6
  <2>4. ASSUME LookupEnds(r) PROVE lookup' \in [Lookups -> Any]
    BY <2>1, <2>4 DEF LookupEnds
  <2>5. lookup' \in [Lookups -> Any]
    BY <1>6, <2>2, <2>3, <2>4, Zenon DEF Request
  <2>6. UNCHANGED <<pc, conn, tunnel, tries, registryVars, sessionVars, issued, runVars>>
    BY <1>6, Zenon DEF Request, LookupBySubdomain, LookupSession, LookupEnds
  <2> QED
    BY <1>0, <2>5, <2>6 DEF TypeOK, TriesLeft, registryVars, sessionVars, runVars
<1>7. CASE closeSessionsSnapshot \/ closeSessionsReturns \/ RunReturns
  <2>1. /\ run' \in {"running", "closing", "draining", "returned"}
        /\ snapshot' \subseteq Conns
        /\ conn' \in [Conns -> ConnStates]
        /\ UNCHANGED <<pc, tunnel, tries, registryVars, sessionVars, issued, lookup>>
    BY <1>0, <1>7, Zenon DEF closeSessionsSnapshot, closeSessionsReturns, RunReturns, TypeOK,
                      ConnStates
  <2> QED
    BY <1>0, <2>1 DEF TypeOK, TriesLeft, registryVars, sessionVars
<1>8. CASE UNCHANGED vars
  BY <1>0, <1>8 DEF vars, TypeOK, TriesLeft, registryVars, sessionVars, runVars
<1> QED
  BY <1>1, <1>2, <1>3, <1>4, <1>5, <1>6, <1>7, <1>8
     DEF Next, Handler, Shutdown, Moves

\* The inductive step of the invariant behind every registry theorem.
LEMMA NextKeepsInv == Inv /\ [Next]_vars => Inv'
BY NextKeepsLinked, NextKeepsTypes DEF Inv

\* Every reachable state of the gateway's tunnel bookkeeping is well typed.
THEOREM TypeCorrect == Spec => []TypeOK
<1>1. Inv => TypeOK
  BY DEF Inv
<1> QED
  BY <1>1, InitInv, NextKeepsInv, PTL DEF Spec

\* registry.go's two maps always describe the same tunnels.
THEOREM RegistryStaysConsistent == Spec => []RegistryConsistent
<1>1. Inv => RegistryConsistent
  <2> SUFFICES ASSUME Inv PROVE RegistryConsistent
    OBVIOUS
  <2>1. /\ byTunnelID \in [TunnelIDs -> Conns \cup {None}]
        /\ bySubdomain \in [Subdomains -> Conns \cup {None}]
    BY DEF Inv, TypeOK
  <2> QED
    BY <2>1 DEF Inv, Linked, RegistryConsistent
<1> QED
  BY <1>1, InitInv, NextKeepsInv, PTL DEF Spec

\* Exactly the connections whose handler has registered and not yet
\* unregistered hold a name, and exactly those serving hold a session.
THEOREM HeldOnlyByLiveHandlers == Spec => []HeldByLiveHandler
<1>1. Inv => HeldByLiveHandler
  <2> SUFFICES ASSUME Inv PROVE HeldByLiveHandler
    OBVIOUS
  <2> USE NoneAssumption
  <2>1. \A c \in Conns : pc[c] \in Holding => tunnel[c].id \in TunnelIDs
    BY DEF Inv, Linked, Tunnels
  <2>2. \A c \in Conns : pc[c] \in InSessions => pc[c] \in Holding
    BY DEF InSessions, Holding
  <2> QED
    BY <2>1, <2>2 DEF Inv, Linked, HeldByLiveHandler, InSessions
<1> QED
  BY <1>1, InitInv, NextKeepsInv, PTL DEF Spec

\* A name changes hands only through its holder: no step of another goroutine
\* takes it away or gives it to somebody else.
THEOREM NamesAreNotStolen == Spec => NamesNotStolen
<1> DEFINE Kept == \A d \in Subdomains :
                     bySubdomain[d] # None /\ bySubdomain'[d] # bySubdomain[d]
                       => bySubdomain'[d] = None /\ pc'[bySubdomain[d]] = "done"
<1>1. Inv /\ [Next]_vars => Kept
  <2> SUFFICES ASSUME Inv, [Next]_vars PROVE Kept
    OBVIOUS
  <2>0. /\ pc \in [Conns -> Steps]
        /\ bySubdomain \in [Subdomains -> Conns \cup {None}]
    BY DEF Inv, TypeOK
  <2>1. CASE UNCHANGED registryVars
    BY <2>1 DEF registryVars
  <2>2. ASSUME NEW c \in Conns, registerRequestedSubdomain(c) \/ registerRandomSubdomain(c)
        PROVE Kept
    <3>1. PICK t \in TunnelIDs, d \in Subdomains :
            \/ Registered(c, t, d)
            \/ UNCHANGED registryVars
      BY <2>2 DEF registerRequestedSubdomain, registerRandomSubdomain, newTunnelID
    <3>2. CASE Registered(c, t, d)
      <4>1. bySubdomain[d] = None /\ bySubdomain' = [bySubdomain EXCEPT ![d] = c]
        BY <3>2 DEF Registered, RegisterError, Register
      <4> QED
        BY <2>0, <4>1
    <3> QED
      BY <2>1, <3>1, <3>2, Zenon
  <2>3. ASSUME NEW c \in Conns, writeTunnelRegisteredFails(c) \/ removeSessionUnregister(c)
        PROVE Kept
    <3>1. /\ pc[c] \in Holding /\ Unregister(tunnel[c].id)
          /\ pc' = [pc EXCEPT ![c] = "done"]
      BY <2>3 DEF writeTunnelRegisteredFails, removeSessionUnregister, Reject, Holding
    <3>2. /\ bySubdomain' = [bySubdomain EXCEPT ![tunnel[c].sub] = None]
          /\ bySubdomain[tunnel[c].sub] = c
      BY <3>1, UnregisterOwn, Zenon DEF Inv, Linked
    <3> QED
      BY <2>0, <3>1, <3>2, Zenon
  <2>4. \/ UNCHANGED registryVars
        \/ \E c \in Conns : registerRequestedSubdomain(c) \/ registerRandomSubdomain(c)
        \/ \E c \in Conns : writeTunnelRegisteredFails(c) \/ removeSessionUnregister(c)
    BY Zenon DEF Next, vars, Handler, Request, Shutdown, Accept, authenticateAgentFails,
       authenticateAgent, registerTunnelRefused, writeTunnelRegistered, addSession,
       readLoopReturns, PongWriteFails, removeSession, PeerLost, KeepaliveFails,
       LookupBySubdomain, LookupSession, LookupEnds, closeSessionsSnapshot, closeSession,
       closeSessionsReturns, RunReturns
  <2> QED
    BY <2>1, <2>2, <2>3, <2>4
<1> QED
  BY <1>1, InitInv, NextKeepsInv, PTL DEF Spec, NamesNotStolen

-------------------------------------------------------------------------------
(* The two-step lookup.  With ids that newTunnelID never repeats, an id names *)
(* one tunnel for ever, so the session found under it has the subdomain the   *)
(* request asked for.                                                         *)

OwnIDs ==
  /\ \A c \in Conns : pc[c] \in Early => tunnel[c] = None
  /\ \A c \in Conns : tunnel[c] # None => tunnel[c].id \in issued
  /\ \A c, e \in Conns : tunnel[c] # None /\ tunnel[e] # None /\ tunnel[c].id = tunnel[e].id
       => c = e

LookupsTrue ==
  \A r \in Lookups :
    /\ lookup[r].at = "found" => \E c \in Conns :
         tunnel[c] # None /\ tunnel[c].id = lookup[r].id /\ tunnel[c].sub = lookup[r].sub
    /\ lookup[r].at = "routed" =>
         tunnel[lookup[r].to] # None /\ tunnel[lookup[r].to].sub = lookup[r].sub

RouteInv == Inv /\ OwnIDs /\ LookupsTrue

\* Before any lookup there is nothing to be wrong about.
LEMMA InitRouteInv == Init => RouteInv
<1> SUFFICES ASSUME Init PROVE OwnIDs /\ LookupsTrue
  BY InitInv DEF RouteInv
<1>1. OwnIDs
  BY DEF Init, OwnIDs
<1>2. LookupsTrue
  BY Zenon DEF Init, LookupsTrue, NoLookup
<1> QED
  BY <1>1, <1>2

\* A goroutine registers at most once, under an id nobody had.
LEMMA RegisterKeepsOwnIDs ==
  ASSUME ReuseIDs = FALSE, RouteInv, NEW c \in Conns,
         registerRequestedSubdomain(c) \/ registerRandomSubdomain(c)
  PROVE  /\ OwnIDs'
         /\ \A e \in Conns : tunnel[e] # None => tunnel'[e] = tunnel[e]
<1>1. /\ pc \in [Conns -> Steps]
      /\ tunnel \in [Conns -> Tunnels \cup {None}]
  BY DEF RouteInv, Inv, TypeOK
<1>2. pc[c] \in {"register", "random"} /\ pc[c] \in Early
  BY DEF registerRequestedSubdomain, registerRandomSubdomain, Early
<1>3. tunnel[c] = None
  BY <1>2, Zenon DEF RouteInv, OwnIDs
<1>4. PICK t \in TunnelIDs, d \in Subdomains :
        /\ t \in issued => byTunnelID[t] # None
        /\ issued' \in {issued, issued \cup {t}}
        /\ \/ Registered(c, t, d)
           \/ Reject(c) /\ UNCHANGED tunnel
           \/ pc' = [pc EXCEPT ![c] = "random"] /\ UNCHANGED tunnel
  BY DEF registerRequestedSubdomain, registerRandomSubdomain, newTunnelID, Registered
<1>5. CASE Registered(c, t, d)
  <2>1. /\ tunnel' = [tunnel EXCEPT ![c] = [id |-> t, sub |-> d]]
        /\ pc' = [pc EXCEPT ![c] = "announce"]
        /\ issued' = issued \cup {t}
    BY <1>5 DEF Registered
  <2>0. t \notin issued
    BY <1>4, <1>5 DEF Registered, RegisterError
  <2>2. /\ \A e \in Conns : e # c => tunnel'[e] = tunnel[e] /\ pc'[e] = pc[e]
        /\ tunnel'[c].id = t /\ pc'[c] \notin Early
    BY <1>1, <2>1 DEF Early
  <2>3. \A e \in Conns : e # c /\ tunnel'[e] # None => tunnel'[e].id \in issued
    BY <2>2 DEF RouteInv, OwnIDs
  <2>4. \A e, f \in Conns : tunnel'[e] # None /\ tunnel'[f] # None /\ tunnel'[e].id = tunnel'[f].id
          => e = f
    BY <2>0, <2>2, <2>3, ZenonT(60) DEF RouteInv, OwnIDs
  <2> QED
    BY <1>3, <2>1, <2>2, <2>3, <2>4 DEF RouteInv, OwnIDs
<1>6. CASE Reject(c) /\ UNCHANGED tunnel
  BY <1>1, <1>4, <1>6, Zenon DEF Reject, RouteInv, OwnIDs, Early
<1>7. CASE pc' = [pc EXCEPT ![c] = "random"] /\ UNCHANGED tunnel
  BY <1>1, <1>3, <1>4, <1>7 DEF RouteInv, OwnIDs, Early
<1> QED
  BY <1>4, <1>5, <1>6, <1>7, Zenon

\* Every other step leaves tunnels and issued ids alone and moves no goroutine
\* back to the handshake.
LEMMA OthersKeepOwnIDs ==
  ASSUME RouteInv, UNCHANGED <<tunnel, issued>>,
         \A e \in Conns : pc'[e] \in Early => pc[e] \in Early
  PROVE  OwnIDs'
BY DEF RouteInv, OwnIDs

\* Each half of sessionBySubdomain records something true of the id it found.
LEMMA LookupKeepsTrue ==
  ASSUME RouteInv, NEW r \in Lookups, Request(r)
  PROVE  LookupsTrue'
<1> USE NoneAssumption
<1> DEFINE Found == [at : {"found"}, sub : Subdomains, id : TunnelIDs]
           Routed == [at : {"routed"}, sub : Subdomains, to : Conns]
<1>1. /\ lookup \in [Lookups -> {NoLookup} \cup Found \cup Routed]
      /\ tunnel \in [Conns -> Tunnels \cup {None}]
      /\ bySubdomain \in [Subdomains -> Conns \cup {None}]
      /\ sessions \in [TunnelIDs -> Conns \cup {None}]
  BY DEF RouteInv, Inv, TypeOK
<1>2. UNCHANGED tunnel
  BY Zenon DEF Request, LookupBySubdomain, LookupSession, LookupEnds
<1>3. ASSUME LookupBySubdomain(r) PROVE LookupsTrue'
  <2>1. PICK d \in Subdomains :
          /\ bySubdomain[d] # None
          /\ lookup' = [lookup EXCEPT ![r] =
               [at |-> "found", sub |-> d, id |-> tunnel[bySubdomain[d]].id]]
    BY <1>3, ZenonT(60) DEF LookupBySubdomain
  <2>2. /\ bySubdomain[d] \in Conns /\ tunnel[bySubdomain[d]].sub = d
        /\ pc[bySubdomain[d]] \in Holding
    BY <1>1, <2>1, SMTT(30) DEF RouteInv, Inv, Linked
  <2>3. tunnel[bySubdomain[d]] # None
    BY <2>2, NoTunnelAssumption DEF RouteInv, Inv, Linked
  <2>4. /\ \A q \in Lookups : q # r => lookup'[q] = lookup[q]
        /\ lookup'[r] = [at |-> "found", sub |-> d, id |-> tunnel[bySubdomain[d]].id]
    BY <1>1, <2>1
  <2> QED
    BY <1>2, <2>2, <2>3, <2>4 DEF RouteInv, LookupsTrue
<1>4. ASSUME LookupSession(r) PROVE LookupsTrue'
  <2> DEFINE s == sessions[lookup[r].id]
  <2>1. lookup[r].at = "found"
    BY <1>4 DEF LookupSession
  <2>2. lookup[r] \in Found
    BY <1>1, <2>1 DEF NoLookup
  <2>3. lookup[r].id \in TunnelIDs
    BY <2>2
  <2>4. PICK c \in Conns :
          tunnel[c] # None /\ tunnel[c].id = lookup[r].id /\ tunnel[c].sub = lookup[r].sub
    BY <2>1 DEF RouteInv, LookupsTrue
  <2>5. s # None => s = c
    <3> SUFFICES ASSUME s # None PROVE s = c
      BY Zenon
    <3>1. s \in Conns /\ pc[s] \in InSessions /\ tunnel[s].id = lookup[r].id
      BY <1>1, <2>3 DEF RouteInv, Inv, Linked
    <3>2. pc[s] \in Holding
      BY <3>1, Zenon DEF InSessions, Holding
    <3>3. tunnel[s] # None
      BY <3>1, <3>2, NoTunnelAssumption DEF RouteInv, Inv, Linked
    <3> QED
      BY <2>4, <3>1, <3>3 DEF RouteInv, OwnIDs
  <2>6. /\ \A q \in Lookups : q # r => lookup'[q] = lookup[q]
        /\ lookup'[r] = IF s = None THEN NoLookup
                        ELSE [at |-> "routed", sub |-> lookup[r].sub, to |-> s]
    BY <1>1, <1>4, ZenonT(60) DEF LookupSession
  <2>7. CASE s = None
    BY <1>2, <2>6, <2>7, SMTT(30) DEF RouteInv, LookupsTrue, NoLookup
  <2>8. CASE s # None
    <3>1. /\ lookup'[r].at = "routed" /\ lookup'[r].to = c
          /\ lookup'[r].sub = lookup[r].sub
      BY <2>5, <2>6, <2>8
    <3> QED
      BY <1>2, <2>4, <2>6, <3>1, SMTT(30) DEF RouteInv, LookupsTrue
  <2> QED
    BY <2>7, <2>8
<1>5. ASSUME LookupEnds(r) PROVE LookupsTrue'
  BY <1>1, <1>2, <1>5, ZenonT(60) DEF LookupEnds, RouteInv, LookupsTrue, NoLookup
<1> QED
  BY <1>3, <1>4, <1>5 DEF Request

\* The inductive step of the invariant behind correct routing.
LEMMA NextKeepsRouteInv == ReuseIDs = FALSE /\ RouteInv /\ [Next]_vars => RouteInv'
<1> SUFFICES ASSUME ReuseIDs = FALSE, RouteInv, [Next]_vars PROVE RouteInv'
  BY Zenon
<1>1. Inv'
  BY NextKeepsInv DEF RouteInv
<1>2. pc \in [Conns -> Steps] /\ lookup \in [Lookups -> {NoLookup}
                   \cup [at : {"found"}, sub : Subdomains, id : TunnelIDs]
                   \cup [at : {"routed"}, sub : Subdomains, to : Conns]]
  BY DEF RouteInv, Inv, TypeOK
<1>3. ASSUME NEW c \in Conns, registerRequestedSubdomain(c) \/ registerRandomSubdomain(c)
      PROVE OwnIDs' /\ LookupsTrue'
  <2>1. OwnIDs' /\ \A e \in Conns : tunnel[e] # None => tunnel'[e] = tunnel[e]
    BY <1>3, RegisterKeepsOwnIDs, Zenon
  <2>2. UNCHANGED lookup
    BY <1>3, Zenon DEF registerRequestedSubdomain, registerRandomSubdomain
  <2>3. \A r \in Lookups : lookup[r].at = "routed" => lookup[r].to \in Conns
    BY <1>2, SMTT(30) DEF NoLookup
  <2>4. LookupsTrue'
    BY <2>1, <2>2, <2>3 DEF RouteInv, LookupsTrue
  <2> QED
    BY <2>1, <2>4
<1>4. ASSUME NEW r \in Lookups, Request(r) PROVE OwnIDs' /\ LookupsTrue'
  <2>1. UNCHANGED <<pc, tunnel, issued>>
    BY <1>4 DEF Request, LookupBySubdomain, LookupSession, LookupEnds
  <2>2. OwnIDs'
    BY <2>1, OthersKeepOwnIDs
  <2> QED
    BY <1>4, <2>2, LookupKeepsTrue, Zenon
<1>5. ASSUME UNCHANGED <<tunnel, issued, lookup>>,
             \A e \in Conns : pc'[e] \in Early => pc[e] \in Early
      PROVE OwnIDs' /\ LookupsTrue'
  <2>1. OwnIDs'
    BY <1>5, OthersKeepOwnIDs, Zenon
  <2>2. LookupsTrue'
    BY <1>5 DEF RouteInv, LookupsTrue
  <2> QED
    BY <2>1, <2>2
<1>6. \/ \E c \in Conns : registerRequestedSubdomain(c) \/ registerRandomSubdomain(c)
      \/ \E r \in Lookups : Request(r)
      \/ /\ UNCHANGED <<tunnel, issued, lookup>>
         /\ \A e \in Conns : pc'[e] \in Early => pc[e] \in Early
  <2>1. ASSUME NEW c \in Conns, Moves(c)
        PROVE  /\ UNCHANGED <<tunnel, issued, lookup>>
               /\ \A e \in Conns : pc'[e] \in Early => pc[e] \in Early
    BY <1>2, <2>1, Zenon DEF Moves, Accept, authenticateAgentFails, authenticateAgent,
       registerTunnelRefused, writeTunnelRegistered, readLoopReturns, PongWriteFails,
       Reject, Early
  <2>2. ASSUME NEW c \in Conns,
               \/ addSession(c) \/ removeSession(c)
               \/ writeTunnelRegisteredFails(c) \/ removeSessionUnregister(c)
               \/ PeerLost(c) \/ KeepaliveFails(c) \/ closeSession(c)
        PROVE  /\ UNCHANGED <<tunnel, issued, lookup>>
               /\ \A e \in Conns : pc'[e] \in Early => pc[e] \in Early
    BY <1>2, <2>2 DEF addSession, removeSession, writeTunnelRegisteredFails,
       removeSessionUnregister, PeerLost, KeepaliveFails, closeSession, Reject, Early
  <2>3. ASSUME closeSessionsSnapshot \/ closeSessionsReturns \/ RunReturns
        PROVE  UNCHANGED <<pc, tunnel, issued, lookup>>
    BY <2>3 DEF closeSessionsSnapshot, closeSessionsReturns, RunReturns
  <2>4. ASSUME UNCHANGED vars PROVE UNCHANGED <<pc, tunnel, issued, lookup>>
    BY <2>4 DEF vars
  <2> QED
    BY <2>1, <2>2, <2>3, <2>4, Zenon DEF Next, Handler, Shutdown, Moves
<1> QED
  BY <1>1, <1>3, <1>4, <1>5, <1>6, Zenon DEF RouteInv

\* sessionBySubdomain never hands a request to another subdomain's session,
\* whatever registers and unregisters between its two lookups, provided
\* newTunnelID does not repeat itself.
THEOREM RoutedCorrectly ==
  ASSUME ReuseIDs = FALSE
  PROVE  Spec => []RoutedToItsSubdomain
<1>1. RouteInv => RoutedToItsSubdomain
  <2> SUFFICES ASSUME RouteInv, NEW r \in Lookups, lookup[r].at = "routed"
               PROVE  /\ tunnel[lookup[r].to] \in Tunnels
                      /\ tunnel[lookup[r].to].sub = lookup[r].sub
    BY DEF RoutedToItsSubdomain
  <2>1. lookup[r] \in [at : {"routed"}, sub : Subdomains, to : Conns]
    BY DEF RouteInv, Inv, TypeOK, NoLookup
  <2>2. tunnel[lookup[r].to] \in Tunnels \cup {None}
    BY <2>1 DEF RouteInv, Inv, TypeOK
  <2> QED
    BY <2>2 DEF RouteInv, LookupsTrue
<1>2. RouteInv /\ [Next]_vars => RouteInv'
  BY NextKeepsRouteInv
<1> QED
  BY <1>1, <1>2, InitRouteInv, PTL DEF Spec

===============================================================================
