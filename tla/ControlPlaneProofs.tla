-------------------------- MODULE ControlPlaneProofs --------------------------
(***************************************************************************)
(* The stores of ControlPlane stay consistent.  The first part says what a *)
(* step does to each store (Moves), that it keeps the types, and from      *)
(* where a request comes to each place that has read a store (Came).  A    *)
(* write by a request is safe because of what it read earlier, so the      *)
(* invariant Inv adds to the indexes what is true of the locals of every   *)
(* request (LocalsTrue) and survives the steps of the others (LocalsAge).  *)
(* Answers that are put together from two reads were right at some moment: *)
(* the history seen keeps every answer that would have been right, and     *)
(* Explained says how what a request has read so far is covered by it: by  *)
(* the state as it is, or by a moment that has passed.                     *)
(***************************************************************************)
EXTENDS ControlPlane, TLAPS

\* The locals of a request have the types of its place.
LEMMA LocalTypes ==
  ASSUME NEW x \in Places
  PROVE  /\ x.at = "validated" => x.token \in TokenIDs
         /\ x.at = "reserve" => x.record \in ReservationRecord
         /\ x.at = "unreserve" => x.id \in ReservationIDs
         /\ x.at = "addPolicy" => x.record \in A!PolicyRecord
         /\ x.at \in {"putPolicy", "upgrade"} => x.id \in PolicyIDs /\ x.record \in A!PolicyRecord
         /\ x.at = "dropPolicy" => x.id \in PolicyIDs
         /\ x.at \in {"check", "upgrade", "evaluated"} => x.name \in Subdomains /\ x.cred \in Secrets
         /\ x.at \in {"check", "resolve"} => x.reservation \in ReservationIDs
         /\ x.at = "evaluated" => x.allowed \in BOOLEAN
         /\ x.at = "addDomain" => x.record \in DomainRecord
         /\ x.at \in {"verify", "verified"} => x.id \in DomainIDs /\ x.record \in DomainRecord
         /\ x.at = "dropDomain" => x.id \in DomainIDs
         /\ x.at \in {"resolve", "resolved"} => x.host \in Hostnames
         /\ x.at = "resolved" => x.name \in Subdomains \cup {None}
BY DEF Places

-------------------------------------------------------------------------------
(* What a step does to each store, whoever takes it.  No index is needed for *)
(* the types; RecordsKept says what an update keeps.                         *)

TMove == \/ UNCHANGED tokenVars
         \/ \E t \in TokenIDs : T!CreateToken(t) \/ T!MarkUsed(t) \/ T!RevokeToken(t)

RMove == \/ UNCHANGED reservationVars
         \/ \E r \in Fresh(ReservationIDs), rec \in ReservationRecord :
              R!Create(r, rec) /\ Issue(r, ~R!Taken(r, rec))
         \/ \E r \in ReservationIDs : R!Delete(r)

PMove == \/ UNCHANGED policyVars
         \/ \E p \in Fresh(PolicyIDs), rec \in A!PolicyRecord :
              P!Create(p, rec) /\ Issue(p, ~P!Taken(p, rec))
         \/ \E q \in Requests :
              /\ req[q].at \in {"putPolicy", "upgrade"}
              /\ P!Update(req[q].id, req[q].record)
         \/ \E p \in PolicyIDs : P!Delete(p)

DMove == \/ UNCHANGED domainVars
         \/ \E d \in Fresh(DomainIDs), q \in Requests :
              /\ req[q].at = "addDomain"
              /\ D!Create(d, req[q].record) /\ Issue(d, ~D!Taken(d, req[q].record))
         \/ \E q \in Requests : At(q, "verified") /\ D!Update(req[q].id, req[q].record)
         \/ \E d \in DomainIDs : D!Delete(d)

\* Every step is such a move of each store.
LEMMA Moves ==
  ASSUME TypeOK, Step
  PROVE  TMove /\ RMove /\ PMove /\ DMove
<1> USE DEF tokenVars, reservationVars, policyVars, domainVars, stores, At
<1>0. \A q \in Requests : req[q] \in Places
  BY DEF TypeOK
<1>1. CASE TokenStep
  BY <1>0, <1>1, LocalTypes, Zenon
  DEF TokenStep, handleTokens, handleTokenByID, handleValidateToken, ValidateTokenUsed, TMove, RMove,
      PMove, DMove
<1>2. CASE \E d \in DomainIDs : PublishTXT(d)
  BY <1>2 DEF PublishTXT, TMove, RMove, PMove, DMove
<1>3. ASSUME NEW q \in Requests, ReservationStep(q)
      PROVE  TMove /\ RMove /\ PMove /\ DMove
  BY <1>0, <1>3, LocalTypes, Zenon
  DEF ReservationStep, handleReservedSubdomains, CreateReservation, handleReservedSubdomainByID,
      DeleteReservation, TMove, RMove, PMove, DMove
<1>4. ASSUME NEW q \in Requests, PolicyStep(q)
      PROVE  TMove /\ RMove /\ PMove /\ DMove
  BY <1>0, <1>4, LocalTypes, Zenon
  DEF PolicyStep, handleAccessPolicies, CreatePolicy, handleAccessPolicyPut, UpdatePolicy,
      handleAccessPolicyDelete, DeletePolicy, TMove, RMove, PMove, DMove
<1>5. ASSUME NEW q \in Requests, EvaluationStep(q)
      PROVE  TMove /\ RMove /\ PMove /\ DMove
  BY <1>0, <1>5, LocalTypes, Zenon
  DEF EvaluationStep, handleEvaluateAccessPolicy, CheckPolicy, upgradeBasicAuthHash, TMove, RMove,
      PMove, DMove
<1>6. ASSUME NEW q \in Requests, DomainStep(q)
      PROVE  TMove /\ RMove /\ PMove /\ DMove
  BY <1>0, <1>6, LocalTypes, Zenon
  DEF DomainStep, handleCustomDomains, CreateDomain, VerifyDomain, LookupTXT, VerifyDomainUpdate,
      handleCustomDomainDelete, DeleteDomain, handleLookupCustomDomain, lookupCustomDomain, TMove,
      RMove, PMove, DMove
<1>7. ASSUME NEW q \in Requests, Return(q)
      PROVE  TMove /\ RMove /\ PMove /\ DMove
  BY <1>7 DEF Return, TMove, RMove, PMove, DMove
<1> QED
  BY <1>1, <1>2, <1>3, <1>4, <1>5, <1>6, <1>7 DEF Step

-------------------------------------------------------------------------------
(* Types *)

\* A new policy and a changed one are refused or are records.
LEMMA PolicyRecords ==
  ASSUME NEW r \in ReservationIDs, NEW s \in Secrets \cup {None}
  PROVE  /\ \A m \in Modes :
              A!newPolicyRecord(r, m, s) # None => A!newPolicyRecord(r, m, s) \in A!PolicyRecord
         /\ \A old \in A!PolicyRecord, m \in Modes \cup {None} :
              old.key = r /\ A!updatedPolicyRecord(old, m, s) # None
                => /\ A!updatedPolicyRecord(old, m, s) \in A!PolicyRecord
                   /\ A!updatedPolicyRecord(old, m, s).key = r
<1>1. ASSUME NEW m \in Modes, A!newPolicyRecord(r, m, s) # None
      PROVE  A!newPolicyRecord(r, m, s) \in A!PolicyRecord /\ A!newPolicyRecord(r, m, s).key = r
  <2>1. CASE m = "public"
    BY <2>1 DEF A!newPolicyRecord, A!PolicyRecord
  <2>2. CASE m # "public"
    <3>1. s \in Secrets
      BY <1>1, <2>2 DEF A!newPolicyRecord
    <3>2. A!Protect(m, s) \in A!Hashes
      BY <2>2, <3>1, ModesKnown
      DEF A!Protect, A!Hashes, A!HashPassword, A!HashSecret, A!NormalizeIPAllowlist
    <3>3. A!newPolicyRecord(r, m, s) = [key |-> r, mode |-> m, hash |-> A!Protect(m, s)]
      BY <1>1, <2>2 DEF A!newPolicyRecord
    <3> QED BY <3>2, <3>3 DEF A!PolicyRecord
  <2> QED BY <2>1, <2>2
<1>2. ASSUME NEW old \in A!PolicyRecord, NEW m \in Modes \cup {None}, old.key = r,
             A!updatedPolicyRecord(old, m, s) # None
      PROVE  /\ A!updatedPolicyRecord(old, m, s) \in A!PolicyRecord
             /\ A!updatedPolicyRecord(old, m, s).key = r
  <2>1. old.mode \in Modes
    BY DEF A!PolicyRecord
  <2> DEFINE mode == IF m = None THEN old.mode ELSE m
  <2>2. mode \in Modes
    BY <2>1
  <2>3. CASE mode = old.mode /\ s = None
    BY <1>2, <2>3 DEF A!updatedPolicyRecord
  <2>4. CASE ~(mode = old.mode /\ s = None)
    <3>1. A!updatedPolicyRecord(old, m, s) = A!newPolicyRecord(r, mode, s)
      BY <1>2, <2>4 DEF A!updatedPolicyRecord
    <3> QED BY <1>1, <1>2, <2>2, <3>1
  <2> QED BY <2>3, <2>4
<1> QED BY <1>1, <1>2

\* The stores keep their types.
LEMMA StoreTypes ==
  ASSUME TypeOK, Step
  PROVE  /\ T!TokensTypeOK'
         /\ reservations' \in [ReservationIDs -> ReservationRecord \cup {None}]
         /\ byName' \in [Subdomains -> ReservationIDs \cup {None}]
         /\ policies' \in [PolicyIDs -> A!PolicyRecord \cup {None}]
         /\ byReservation' \in [ReservationIDs -> PolicyIDs \cup {None}]
         /\ domains' \in [DomainIDs -> DomainRecord \cup {None}]
         /\ byHostname' \in [Hostnames -> DomainIDs \cup {None}]
<1>0. \A q \in Requests : req[q] \in Places
  BY DEF TypeOK
<1>1. T!TokensTypeOK'
  BY Moves DEF TypeOK, TMove, tokenVars, T!TokensTypeOK, T!CreateToken, T!MarkUsed, T!RevokeToken
<1>2. /\ reservations' \in [ReservationIDs -> ReservationRecord \cup {None}]
      /\ byName' \in [Subdomains -> ReservationIDs \cup {None}]
  BY Moves
  DEF TypeOK, RMove, reservationVars, Fresh, R!Create, R!Delete, R!Exists, R!storeVars, ReservationRecord
<1>3. /\ policies' \in [PolicyIDs -> A!PolicyRecord \cup {None}]
      /\ byReservation' \in [ReservationIDs -> PolicyIDs \cup {None}]
  BY <1>0, Moves, LocalTypes
  DEF TypeOK, PMove, policyVars, Fresh, P!Create, P!Update, P!Delete, P!Exists, P!storeVars,
      A!PolicyRecord
<1>4. /\ domains' \in [DomainIDs -> DomainRecord \cup {None}]
      /\ byHostname' \in [Hostnames -> DomainIDs \cup {None}]
  BY <1>0, Moves, LocalTypes
  DEF TypeOK, DMove, At, domainVars, Fresh, D!Create, D!Update, D!Delete, D!Exists, D!storeVars,
      DomainRecord
<1> QED BY <1>1, <1>2, <1>3, <1>4

\* The place of an evaluation that has its answer.
LEMMA EvaluatedPlaces ==
  \A n \in Subdomains, c \in Secrets, b \in BOOLEAN :
    [at |-> "evaluated", name |-> n, cred |-> c, allowed |-> b] \in Places
BY DEF Places

\* Requests stay at places they have; ids and published tokens only grow.
LEMMA RequestTypes ==
  ASSUME TypeOK, Step
  PROVE  /\ req' \in [Requests -> Places]
         /\ issued' \in SUBSET (ReservationIDs \cup PolicyIDs \cup DomainIDs)
         /\ dns' \in SUBSET DomainIDs
         /\ issued \subseteq issued' /\ dns \subseteq dns'
<1> DEFINE Goal == /\ req' \in [Requests -> Places]
                   /\ issued' \in SUBSET (ReservationIDs \cup PolicyIDs \cup DomainIDs)
                   /\ dns' \in SUBSET DomainIDs
                   /\ issued \subseteq issued' /\ dns \subseteq dns'
<1> USE DEF At, Goto, Fresh, Issue
<1>0. (\A q \in Requests : req[q] \in Places) /\ Idle \in Places
  BY DEF TypeOK, Places, Idle
<1>1. CASE TokenStep
  BY <1>1, SMTT(30)
  DEF TypeOK, TokenStep, handleTokens, handleTokenByID, handleValidateToken, ValidateTokenUsed,
      Places, Idle
<1>2. CASE \E d \in DomainIDs : PublishTXT(d)
  BY <1>2 DEF TypeOK, PublishTXT
<1>3. ASSUME NEW q \in Requests, ReservationStep(q)
      PROVE  Goal
  BY <1>3
  DEF TypeOK, ReservationStep, handleReservedSubdomains, CreateReservation,
      handleReservedSubdomainByID, DeleteReservation, Places, Idle, ReservationRecord
<1>4. ASSUME NEW q \in Requests, PolicyStep(q)
      PROVE  Goal
  <2>1. ASSUME NEW r \in ReservationIDs, NEW m \in Modes, NEW s \in Secrets \cup {None},
               handleAccessPolicies(q, r, m, s)
        PROVE  Goal
    <3>1. A!newPolicyRecord(r, m, s) \in A!PolicyRecord
      BY <2>1, PolicyRecords, ZenonT(30) DEF handleAccessPolicies
    <3> QED BY <2>1, <3>1 DEF TypeOK, handleAccessPolicies, Places
  <2>2. ASSUME NEW p \in PolicyIDs, NEW m \in Modes \cup {None}, NEW s \in Secrets \cup {None},
               handleAccessPolicyPut(q, p, m, s)
        PROVE  Goal
    <3>1. policies[p] \in A!PolicyRecord /\ policies[p].key \in ReservationIDs
      BY <2>2 DEF TypeOK, handleAccessPolicyPut, P!Exists, A!PolicyRecord
    <3>2. A!updatedPolicyRecord(policies[p], m, s) \in A!PolicyRecord
      BY <2>2, <3>1, PolicyRecords DEF handleAccessPolicyPut
    <3> QED BY <2>2, <3>2 DEF TypeOK, handleAccessPolicyPut, Places
  <2>3. CASE \E p \in Fresh(PolicyIDs) : CreatePolicy(q, p)
    BY <1>0, <2>3 DEF TypeOK, CreatePolicy
  <2>4. CASE UpdatePolicy(q) \/ DeletePolicy(q)
    BY <1>0, <2>4, ZenonT(30) DEF TypeOK, UpdatePolicy, DeletePolicy
  <2>5. CASE \E p \in PolicyIDs : handleAccessPolicyDelete(q, p)
    BY <2>5 DEF TypeOK, handleAccessPolicyDelete, Places
  <2> QED BY <1>4, <2>1, <2>2, <2>3, <2>4, <2>5, SMTT(30) DEF PolicyStep
<1>5. ASSUME NEW q \in Requests, EvaluationStep(q)
      PROVE  Goal
  <2>1. CASE \E n \in Subdomains, cred \in Secrets : handleEvaluateAccessPolicy(q, n, cred)
    <3>1. PICK n \in Subdomains, cred \in Secrets : handleEvaluateAccessPolicy(q, n, cred)
      BY <2>1
    <3>2. CASE byName[n] = None
      BY <3>1, <3>2, EvaluatedPlaces, ZenonT(60) DEF TypeOK, handleEvaluateAccessPolicy, Evaluated
    <3>3. CASE byName[n] # None
      <4>1. byName[n] \in ReservationIDs
        BY <3>3 DEF TypeOK
      <4> QED BY <3>1, <3>3, <4>1 DEF TypeOK, handleEvaluateAccessPolicy, Places
    <3> QED BY <3>2, <3>3
  <2>2. CASE CheckPolicy(q)
    <3> DEFINE record == P!LookupByKey(req[q].reservation)
               cred == req[q].cred
    <3>1. /\ req[q].name \in Subdomains /\ cred \in Secrets /\ req[q].reservation \in ReservationIDs
          /\ record \in A!PolicyRecord \cup {None}
      BY <1>0, <2>2, LocalTypes DEF CheckPolicy, TypeOK, P!LookupByKey
    <3>2. A!Matches(record, cred) \in BOOLEAN
      BY DEF A!Matches
    <3>3. CASE record = None \/ ~(A!Matches(record, cred) /\ A!NeedsUpgrade(record))
      <4>1. \E b \in BOOLEAN : Evaluated(q, req[q].name, cred, b)
        BY <2>2, <3>2, <3>3, Zenon DEF CheckPolicy
      <4> QED BY <2>2, <3>1, <4>1, EvaluatedPlaces DEF CheckPolicy, TypeOK, Evaluated
    <3>4. CASE record # None /\ A!Matches(record, cred) /\ A!NeedsUpgrade(record)
      <4>1. A!Upgraded(record, cred) \in A!PolicyRecord
        BY <3>1, <3>4, ZenonT(30) DEF A!Upgraded, A!PolicyRecord, A!HashPassword, A!Hashes
      <4>2. byReservation[req[q].reservation] \in PolicyIDs
        BY <3>1, <3>4 DEF TypeOK, P!LookupByKey
      <4>3. Goto(q, [at |-> "upgrade", name |-> req[q].name, cred |-> cred,
                     id |-> byReservation[req[q].reservation], record |-> A!Upgraded(record, cred)])
        BY <2>2, <3>4 DEF CheckPolicy
      <4> QED BY <2>2, <3>1, <4>1, <4>2, <4>3 DEF CheckPolicy, TypeOK, Places
    <3> QED BY <3>3, <3>4, SMTT(30)
  <2>3. CASE upgradeBasicAuthHash(q)
    BY <1>0, <2>3, LocalTypes, EvaluatedPlaces, Zenon DEF TypeOK, upgradeBasicAuthHash, Evaluated
  <2> QED BY <1>5, <2>1, <2>2, <2>3 DEF EvaluationStep
<1>6. ASSUME NEW q \in Requests, DomainStep(q)
      PROVE  Goal
  <2>1. CASE \E r \in ReservationIDs, h \in Hostnames : handleCustomDomains(q, r, h)
    BY <2>1 DEF TypeOK, handleCustomDomains, Places, DomainRecord, Statuses
  <2>2. CASE \E d \in Fresh(DomainIDs) : CreateDomain(q, d)
    BY <1>0, <2>2, ZenonT(30) DEF TypeOK, CreateDomain
  <2>3. CASE \E d \in DomainIDs : VerifyDomain(q, d) \/ handleCustomDomainDelete(q, d)
    BY <2>3 DEF TypeOK, VerifyDomain, handleCustomDomainDelete, Places, D!Exists
  <2>4. CASE \E matched \in BOOLEAN : LookupTXT(q, matched)
    <3>1. PICK matched \in BOOLEAN : LookupTXT(q, matched)
      BY <2>4
    <3> DEFINE rec == [req[q].record EXCEPT !.status = IF matched THEN "active" ELSE "verification_failed"]
               x == [at |-> "verified", id |-> req[q].id, record |-> rec]
    <3>2. req[q].id \in DomainIDs /\ req[q].record \in DomainRecord
      BY <1>0, <3>1, LocalTypes, Zenon DEF LookupTXT, At
    <3>3. rec \in DomainRecord
      BY <3>2 DEF DomainRecord, Statuses
    <3>4. Goto(q, x) /\ issued' = issued /\ dns' = dns
      BY <3>1, Zenon DEF LookupTXT
    <3> HIDE DEF rec
    <3>5. x \in Places
      BY <3>2, <3>3 DEF Places
    <3> HIDE DEF x
    <3> QED BY <1>0, <3>4, <3>5 DEF TypeOK
  <2>5. CASE VerifyDomainUpdate(q) \/ DeleteDomain(q)
    BY <1>0, <2>5, SMTT(30) DEF TypeOK, VerifyDomainUpdate, DeleteDomain
  <2>6. ASSUME NEW h \in Hostnames, handleLookupCustomDomain(q, h)
        PROVE  Goal
    <3>1. D!LookupByKey(h) \in DomainRecord \cup {None}
      BY ZenonT(60) DEF TypeOK, D!LookupByKey
    <3> QED BY <2>6, <3>1 DEF TypeOK, handleLookupCustomDomain, Places, DomainRecord
  <2>7. CASE lookupCustomDomain(q)
    BY <1>0, <2>7, LocalTypes DEF TypeOK, lookupCustomDomain, Places, R!Exists, ReservationRecord
  <2> QED BY <1>6, <2>1, <2>2, <2>3, <2>4, <2>5, <2>6, <2>7, ZenonT(30) DEF DomainStep
<1>7. ASSUME NEW q \in Requests, Return(q)
      PROVE  Goal
  BY <1>0, <1>7 DEF TypeOK, Return
<1> QED
  BY <1>1, <1>2, <1>3, <1>4, <1>5, <1>6, <1>7 DEF Step

\* TypeOK without the history.
Typed ==
  /\ T!TokensTypeOK
  /\ reservations \in [ReservationIDs -> ReservationRecord \cup {None}]
  /\ byName \in [Subdomains -> ReservationIDs \cup {None}]
  /\ policies \in [PolicyIDs -> A!PolicyRecord \cup {None}]
  /\ byReservation \in [ReservationIDs -> PolicyIDs \cup {None}]
  /\ domains \in [DomainIDs -> DomainRecord \cup {None}]
  /\ byHostname \in [Hostnames -> DomainIDs \cup {None}]
  /\ dns \in SUBSET DomainIDs
  /\ issued \in SUBSET (ReservationIDs \cup PolicyIDs \cup DomainIDs)
  /\ req \in [Requests -> Places]

AnswersTyped == \A q \in Requests : RightNow(q) \subseteq BOOLEAN \cup Subdomains

\* Right grants are to pass or of a subdomain.
LEMMA AnswerTypes == Typed => AnswersTyped
<1> SUFFICES ASSUME Typed, NEW q \in Requests
             PROVE  RightNow(q) \subseteq BOOLEAN \cup Subdomains
  BY Zenon DEF AnswersTyped
<1>0. req[q] \in Places
  BY DEF Typed
<1>1. CASE req[q].at \in {"check", "upgrade", "evaluated"}
  <2>1. RightNow(q) = {TRUE} \cap {Allowed(req[q].name, req[q].cred)}
    BY <1>1 DEF RightNow
  <2> QED BY <2>1, Zenon
<1>2. CASE req[q].at \in {"resolve", "resolved"}
  <2>1. D!LookupByKey(req[q].host) \in DomainRecord \cup {None}
    BY <1>0, <1>2, LocalTypes DEF Typed, D!LookupByKey
  <2>2. Resolved(req[q].host) \in Subdomains \cup {None}
    BY <2>1 DEF Typed, Resolved, R!Exists, ReservationRecord, DomainRecord
  <2> QED BY <1>2, <2>2 DEF RightNow
<1>3. CASE req[q].at \notin {"check", "upgrade", "evaluated", "resolve", "resolved"}
  BY <1>3 DEF RightNow
<1> QED BY <1>1, <1>2, <1>3

\* The types hold in the initial states.
LEMMA TypesInitially == Init => TypeOK
<1> SUFFICES ASSUME Init PROVE TypeOK
  OBVIOUS
<1>1. /\ req \in [Requests -> Places] /\ dns = {}
      /\ seen \in [Requests -> SUBSET (BOOLEAN \cup Subdomains)]
  BY DEF Init, Idle, Places
<1>2. CASE EmptyStores
  BY <1>1, <1>2, ZenonT(30) DEF EmptyStores, TypeOK, T!TokensInit, T!TokensTypeOK, R!StoreInit, P!StoreInit, D!StoreInit
<1>3. CASE LegacyStores
  <2>1. \A r \in ReservationIDs, s \in Secrets : A!LegacyRecord(r, s) \in A!PolicyRecord
    BY ModesKnown DEF A!LegacyRecord, A!PolicyRecord, A!Hashes, A!HashSecret
  <2>2. PICK t \in TokenIDs, r \in ReservationIDs, p \in PolicyIDs, n \in Subdomains, s \in Secrets :
          LegacyStore(t, r, p, n, s)
    BY <1>3 DEF LegacyStores
  <2> QED BY <1>1, <2>1, <2>2 DEF LegacyStore, TypeOK, T!TokensTypeOK, D!StoreInit, ReservationRecord
<1> QED BY <1>2, <1>3 DEF Init

\* A step keeps the types.
LEMMA TypesKept == TypeOK /\ [Next]_vars => TypeOK'
<1> SUFFICES ASSUME TypeOK, [Next]_vars PROVE TypeOK'
  OBVIOUS
<1>1. CASE Next
  <2>1. Typed'
    BY <1>1, StoreTypes, RequestTypes DEF Next, Typed
  <2>2. AnswersTyped'
    BY <2>1, AnswerTypes, PTL
  <2>3. seen' \in [Requests -> SUBSET (BOOLEAN \cup Subdomains)]
    BY <1>1, <2>2, ZenonT(30) DEF Next, Watch, AnswersTyped, TypeOK
  <2> QED BY <2>1, <2>3 DEF Typed, TypeOK
<1>2. CASE UNCHANGED vars
  BY <1>2
  DEF vars, stores, tokenVars, reservationVars, policyVars, domainVars, TypeOK, T!TokensTypeOK
<1> QED BY <1>1, <1>2

\* The variables have their types in every state (the stores hold records of
\* their services, requests are at places with the locals of that place).
THEOREM TypeCorrect == Spec => []TypeOK
BY TypesInitially, TypesKept, PTL DEF Spec

-------------------------------------------------------------------------------
(* Where requests come from *)

\* Places with locals that others can make stale.
Stale == {"putPolicy", "check", "upgrade", "evaluated", "addDomain", "verify", "verified", "resolve",
          "resolved"}

To(i, place) == \E x : Goto(i, x) /\ x.at = place
Elsewhere(i) == \E x : Goto(i, x) /\ x.at \notin Stale

\* A request that is over is elsewhere.
LEMMA IdleElsewhere == ASSUME NEW i, Goto(i, Idle) PROVE Elsewhere(i)
BY DEF Elsewhere, Stale, Idle

\* A step of the token handlers leads to no stale place.
LEMMA TokenLeads ==
  ASSUME TokenStep
  PROVE  req' = req \/ \E i \in Requests : Elsewhere(i)
<1>1. CASE \E t \in TokenIDs : handleTokens(t) \/ handleTokenByID(t)
  BY <1>1 DEF handleTokens, handleTokenByID
<1>2. CASE \E i \in Requests : ValidateTokenUsed(i)
  BY <1>2, IdleElsewhere DEF ValidateTokenUsed
<1>3. CASE \E i \in Requests, t \in TokenIDs : handleValidateToken(i, t)
  <2>1. PICK i \in Requests, t \in TokenIDs : handleValidateToken(i, t)
    BY <1>3
  <2>2. Elsewhere(i)
    BY <2>1 DEF handleValidateToken, Elsewhere, Stale
  <2> QED BY <2>2
<1> QED BY <1>1, <1>2, <1>3 DEF TokenStep

\* A step of the reservation handlers leads to no stale place.
LEMMA ReservationLeads == ASSUME NEW i \in Requests, ReservationStep(i) PROVE Elsewhere(i)
<1>1. CASE \E t \in TokenIDs, n \in Subdomains : handleReservedSubdomains(i, t, n)
  BY <1>1 DEF handleReservedSubdomains, Elsewhere, Stale
<1>2. CASE \E r \in ReservationIDs : handleReservedSubdomainByID(i, r)
  BY <1>2 DEF handleReservedSubdomainByID, Elsewhere, Stale
<1>3. CASE DeleteReservation(i) \/ \E r \in Fresh(ReservationIDs) : CreateReservation(i, r)
  BY <1>3, IdleElsewhere DEF DeleteReservation, CreateReservation
<1> QED BY <1>1, <1>2, <1>3 DEF ReservationStep

\* Of the policy handlers, PUT leads to a place with a record read before.
LEMMA PolicyLeads ==
  ASSUME NEW i \in Requests, PolicyStep(i)
  PROVE  \/ Elsewhere(i)
         \/ /\ To(i, "putPolicy")
            /\ \E p \in PolicyIDs, m \in Modes \cup {None}, s \in Secrets \cup {None} :
                 handleAccessPolicyPut(i, p, m, s)
<1>1. CASE \E p \in PolicyIDs, m \in Modes \cup {None}, s \in Secrets \cup {None} :
             handleAccessPolicyPut(i, p, m, s)
  <2>1. To(i, "putPolicy")
    BY <1>1 DEF handleAccessPolicyPut, To
  <2> QED BY <1>1, <2>1
<1>2. CASE \E r \in ReservationIDs, m \in Modes, s \in Secrets \cup {None} :
             handleAccessPolicies(i, r, m, s)
  BY <1>2 DEF handleAccessPolicies, Elsewhere, Stale
<1>3. CASE \E p \in PolicyIDs : handleAccessPolicyDelete(i, p)
  BY <1>3 DEF handleAccessPolicyDelete, Elsewhere, Stale
<1>4. CASE UpdatePolicy(i) \/ DeletePolicy(i) \/ \E p \in Fresh(PolicyIDs) : CreatePolicy(i, p)
  BY <1>4, IdleElsewhere DEF CreatePolicy, UpdatePolicy, DeletePolicy
<1> QED BY <1>1, <1>2, <1>3, <1>4 DEF PolicyStep

\* An evaluation goes on to its check, its hash upgrade or its answer.
LEMMA EvaluationLeads ==
  ASSUME NEW i \in Requests, EvaluationStep(i)
  PROVE  \/ /\ To(i, "check") \/ To(i, "evaluated")
            /\ \E n \in Subdomains, cred \in Secrets : handleEvaluateAccessPolicy(i, n, cred)
         \/ (To(i, "upgrade") \/ To(i, "evaluated")) /\ CheckPolicy(i)
         \/ To(i, "evaluated") /\ upgradeBasicAuthHash(i)
<1>1. ASSUME NEW n, NEW cred, NEW allowed, Evaluated(i, n, cred, allowed)
      PROVE  To(i, "evaluated")
  BY <1>1 DEF Evaluated, To
<1>2. CASE \E n \in Subdomains, cred \in Secrets : handleEvaluateAccessPolicy(i, n, cred)
  <2>1. PICK n \in Subdomains, cred \in Secrets : handleEvaluateAccessPolicy(i, n, cred)
    BY <1>2
  <2>2. CASE byName[n] = None
    <3>1. Evaluated(i, n, cred, TRUE)
      BY <2>1, <2>2, Zenon DEF handleEvaluateAccessPolicy
    <3> QED BY <1>1, <1>2, <3>1, Zenon
  <2>3. CASE byName[n] # None
    <3>1. Goto(i, [at |-> "check", name |-> n, cred |-> cred, reservation |-> byName[n]])
      BY <2>1, <2>3 DEF handleEvaluateAccessPolicy
    <3>2. To(i, "check")
      BY <3>1 DEF To
    <3> QED BY <1>2, <3>2
  <2> QED BY <2>2, <2>3
<1>3. CASE CheckPolicy(i)
  <2>1. \/ \E n, cred, allowed : Evaluated(i, n, cred, allowed)
        \/ \E n, cred, p, record :
             Goto(i, [at |-> "upgrade", name |-> n, cred |-> cred, id |-> p, record |-> record])
    BY <1>3, Zenon DEF CheckPolicy
  <2>2. ASSUME NEW n, NEW cred, NEW p, NEW record,
               Goto(i, [at |-> "upgrade", name |-> n, cred |-> cred, id |-> p, record |-> record])
        PROVE  To(i, "upgrade")
    BY <2>2 DEF To
  <2> QED BY <1>1, <1>3, <2>1, <2>2, Zenon
<1>4. CASE upgradeBasicAuthHash(i)
  BY <1>1, <1>4, Zenon DEF upgradeBasicAuthHash
<1> QED BY <1>2, <1>3, <1>4 DEF EvaluationStep

\* Where the handlers of custom domains lead.
LEMMA DomainLeads ==
  ASSUME NEW i \in Requests, DomainStep(i)
  PROVE  \/ Elsewhere(i)
         \/ To(i, "addDomain") /\ \E r \in ReservationIDs, h \in Hostnames : handleCustomDomains(i, r, h)
         \/ To(i, "verify") /\ \E d \in DomainIDs : VerifyDomain(i, d)
         \/ To(i, "verified") /\ \E matched \in BOOLEAN : LookupTXT(i, matched)
         \/ /\ To(i, "resolve") \/ To(i, "resolved")
            /\ \E h \in Hostnames : handleLookupCustomDomain(i, h)
         \/ To(i, "resolved") /\ lookupCustomDomain(i)
<1>1. CASE VerifyDomainUpdate(i) \/ DeleteDomain(i) \/ \E d \in Fresh(DomainIDs) : CreateDomain(i, d)
  BY <1>1, IdleElsewhere DEF VerifyDomainUpdate, DeleteDomain, CreateDomain
<1>2. CASE \E d \in DomainIDs : handleCustomDomainDelete(i, d)
  BY <1>2 DEF handleCustomDomainDelete, Elsewhere, Stale
<1>3. ASSUME NEW r, NEW h, handleCustomDomains(i, r, h)
      PROVE  To(i, "addDomain")
  BY <1>3 DEF handleCustomDomains, To
<1>4. ASSUME NEW d, VerifyDomain(i, d)
      PROVE  To(i, "verify")
  BY <1>4 DEF VerifyDomain, To
<1>5. ASSUME NEW matched, LookupTXT(i, matched)
      PROVE  To(i, "verified")
  BY <1>5 DEF LookupTXT, To
<1>6. ASSUME NEW h, handleLookupCustomDomain(i, h)
      PROVE  To(i, "resolve") \/ To(i, "resolved")
  BY <1>6 DEF handleLookupCustomDomain, To
<1>7. ASSUME lookupCustomDomain(i)
      PROVE  To(i, "resolved")
  BY <1>7 DEF lookupCustomDomain, To
<1> QED BY <1>1, <1>2, <1>3, <1>4, <1>5, <1>6, <1>7 DEF DomainStep

\* Only one request moves, to one place.
LEMMA OneMoves ==
  ASSUME TypeOK, NEW q \in Requests, NEW i \in Requests, req'[q] # req[q]
  PROVE  /\ \A x : Goto(i, x) => i = q /\ req'[q] = x
         /\ Elsewhere(i) => req'[q].at \notin Stale
         /\ \A place : To(i, place) => i = q /\ req'[q].at = place
<1>1. \A x : Goto(i, x) => i = q /\ req'[q] = x
  BY DEF TypeOK, Goto
<1> QED BY <1>1 DEF Elsewhere, To

\* How a request comes to such a place.
CameFrom(q) ==
  /\ req'[q].at = "putPolicy" =>
       \E p \in PolicyIDs, m \in Modes \cup {None}, s \in Secrets \cup {None} :
         handleAccessPolicyPut(q, p, m, s)
  /\ req'[q].at = "check" =>
       \E n \in Subdomains, cred \in Secrets : handleEvaluateAccessPolicy(q, n, cred)
  /\ req'[q].at = "upgrade" => CheckPolicy(q)
  /\ req'[q].at = "evaluated" =>
       \/ \E n \in Subdomains, cred \in Secrets : handleEvaluateAccessPolicy(q, n, cred)
       \/ CheckPolicy(q)
       \/ upgradeBasicAuthHash(q)
  /\ req'[q].at = "addDomain" =>
       \E r \in ReservationIDs, h \in Hostnames : handleCustomDomains(q, r, h)
  /\ req'[q].at = "verify" => \E d \in DomainIDs : VerifyDomain(q, d)
  /\ req'[q].at = "verified" => \E matched \in BOOLEAN : LookupTXT(q, matched)
  /\ req'[q].at = "resolve" => \E h \in Hostnames : handleLookupCustomDomain(q, h)
  /\ req'[q].at = "resolved" =>
       (\E h \in Hostnames : handleLookupCustomDomain(q, h)) \/ lookupCustomDomain(q)

\* A request comes to such a place only by a step of its own handler.
LEMMA Came == ASSUME TypeOK, Step, NEW q \in Requests, req'[q] # req[q] PROVE CameFrom(q)
<1>1. CASE req'[q].at \notin Stale
  BY <1>1 DEF CameFrom, Stale
<1>2. CASE TokenStep
  BY <1>1, <1>2, TokenLeads, OneMoves
<1>3. CASE \E d \in DomainIDs : PublishTXT(d)
  BY <1>3 DEF PublishTXT
<1>4. CASE \E i \in Requests : ReservationStep(i) \/ Return(i)
  <2>1. \E i \in Requests : Elsewhere(i)
    BY <1>4, ReservationLeads, IdleElsewhere DEF Return
  <2> QED BY <1>1, <2>1, OneMoves
<1>5. ASSUME NEW i \in Requests, NEW place, To(i, place)
      PROVE  i = q /\ req'[q].at = place
  BY <1>5, OneMoves
<1>6. ASSUME NEW i \in Requests, Elsewhere(i)
      PROVE  CameFrom(q)
  BY <1>1, <1>6, OneMoves
<1>7. ASSUME NEW i \in Requests, PolicyStep(i)
      PROVE  CameFrom(q)
  <2>1. ASSUME To(i, "putPolicy"),
               \E p \in PolicyIDs, m \in Modes \cup {None}, s \in Secrets \cup {None} :
                 handleAccessPolicyPut(i, p, m, s)
        PROVE  CameFrom(q)
    <3>1. i = q /\ req'[q].at = "putPolicy"
      BY <1>5, <2>1, Zenon
    <3> QED BY <2>1, <3>1, Zenon DEF CameFrom
  <2> QED BY <1>6, <1>7, <2>1, PolicyLeads, Zenon
<1>8. ASSUME NEW i \in Requests, EvaluationStep(i)
      PROVE  CameFrom(q)
  <2>1. ASSUME To(i, "check") \/ To(i, "evaluated"),
               \E n \in Subdomains, cred \in Secrets : handleEvaluateAccessPolicy(i, n, cred)
        PROVE  CameFrom(q)
    <3>1. i = q /\ (req'[q].at = "check" \/ req'[q].at = "evaluated")
      BY <1>5, <2>1, Zenon
    <3> QED BY <2>1, <3>1, Zenon DEF CameFrom
  <2>2. ASSUME To(i, "upgrade") \/ To(i, "evaluated"), CheckPolicy(i)
        PROVE  CameFrom(q)
    <3>1. i = q /\ (req'[q].at = "upgrade" \/ req'[q].at = "evaluated")
      BY <1>5, <2>2, Zenon
    <3> QED BY <2>2, <3>1, Zenon DEF CameFrom
  <2>3. ASSUME To(i, "evaluated"), upgradeBasicAuthHash(i)
        PROVE  CameFrom(q)
    <3>1. i = q /\ req'[q].at = "evaluated"
      BY <1>5, <2>3, Zenon
    <3> QED BY <2>3, <3>1, Zenon DEF CameFrom
  <2> QED BY <1>8, <2>1, <2>2, <2>3, EvaluationLeads, Zenon
<1>9. ASSUME NEW i \in Requests, DomainStep(i)
      PROVE  CameFrom(q)
  <2>1. ASSUME To(i, "addDomain"),
               \E r \in ReservationIDs, h \in Hostnames : handleCustomDomains(i, r, h)
        PROVE  CameFrom(q)
    <3>1. i = q /\ req'[q].at = "addDomain"
      BY <1>5, <2>1, Zenon
    <3> QED BY <2>1, <3>1, Zenon DEF CameFrom
  <2>2. ASSUME To(i, "verify"), \E d \in DomainIDs : VerifyDomain(i, d)
        PROVE  CameFrom(q)
    <3>1. i = q /\ req'[q].at = "verify"
      BY <1>5, <2>2, Zenon
    <3> QED BY <2>2, <3>1, Zenon DEF CameFrom
  <2>3. ASSUME To(i, "verified"), \E matched \in BOOLEAN : LookupTXT(i, matched)
        PROVE  CameFrom(q)
    <3>1. i = q /\ req'[q].at = "verified"
      BY <1>5, <2>3, Zenon
    <3> QED BY <2>3, <3>1, Zenon DEF CameFrom
  <2>4. ASSUME To(i, "resolve") \/ To(i, "resolved"),
               \E h \in Hostnames : handleLookupCustomDomain(i, h)
        PROVE  CameFrom(q)
    <3>1. i = q /\ (req'[q].at = "resolve" \/ req'[q].at = "resolved")
      BY <1>5, <2>4, Zenon
    <3> QED BY <2>4, <3>1, Zenon DEF CameFrom
  <2>5. ASSUME To(i, "resolved"), lookupCustomDomain(i)
        PROVE  CameFrom(q)
    <3>1. i = q /\ req'[q].at = "resolved"
      BY <1>5, <2>5, Zenon
    <3> QED BY <2>5, <3>1, Zenon DEF CameFrom
  <2> QED BY <1>6, <1>9, <2>1, <2>2, <2>3, <2>4, <2>5, DomainLeads, Zenon
<1> QED BY <1>2, <1>3, <1>4, <1>7, <1>8, <1>9, Zenon DEF Step

-------------------------------------------------------------------------------
(* The stores *)

\* Ids of records have been issued.
IDsIssued ==
  /\ \A r \in ReservationIDs : R!Exists(r) => r \in issued
  /\ \A p \in PolicyIDs : P!Exists(p) => p \in issued
  /\ \A d \in DomainIDs : D!Exists(d) => d \in issued /\ domains[d].reservation \in issued

\* What a request has read and is about to write: a policy or domain that has
\* been issued, with the key it still has if it is still there; an active
\* status only with proof.
LocalsTrue(x) ==
  /\ x.at \in {"putPolicy", "upgrade"} =>
       x.id \in issued /\ (P!Exists(x.id) => policies[x.id].key = x.record.key)
  /\ x.at \in {"verify", "verified"} =>
       /\ x.id \in issued
       /\ D!Exists(x.id) => domains[x.id].key = x.record.key
       /\ x.record.reservation \in issued
       /\ x.record.status = "active" => x.id \in dns
  /\ x.at = "addDomain" => x.record.reservation \in issued /\ x.record.status # "active"
  /\ x.at \in {"check", "resolve"} => x.reservation \in issued

Inv ==
  /\ TypeOK
  /\ IndexesAgree
  /\ IDsIssued
  /\ ActiveWasProven
  /\ \A q \in Requests : LocalsTrue(req[q])

\* A record whose id was issued is there after a step only if it was before,
\* and has kept its key.
LEMMA RecordsKept ==
  ASSUME Inv, Step
  PROVE  /\ \A r \in ReservationIDs \cap issued :
              R!Exists(r)' => R!Exists(r) /\ reservations'[r] = reservations[r]
         /\ \A p \in PolicyIDs \cap issued :
              P!Exists(p)' => P!Exists(p) /\ policies'[p].key = policies[p].key
         /\ \A d \in DomainIDs \cap issued :
              D!Exists(d)' => D!Exists(d) /\ domains'[d].key = domains[d].key
<1>0. /\ TypeOK
      /\ \A q \in Requests : req[q] \in Places /\ LocalsTrue(req[q])
  BY DEF Inv, TypeOK
<1>1. \A r \in ReservationIDs \cap issued :
        R!Exists(r)' => R!Exists(r) /\ reservations'[r] = reservations[r]
  BY <1>0, Moves, Zenon
  DEF TypeOK, RMove, Fresh, reservationVars, R!Create, R!Delete, R!Exists, R!storeVars
<1>2. \A p \in PolicyIDs \cap issued :
        P!Exists(p)' => P!Exists(p) /\ policies'[p].key = policies[p].key
  BY <1>0, Moves, LocalTypes, ZenonT(60)
  DEF TypeOK, PMove, Fresh, policyVars, P!Create, P!Update, P!Delete, P!Exists, P!storeVars, LocalsTrue
<1>3. \A d \in DomainIDs \cap issued :
        D!Exists(d)' => D!Exists(d) /\ domains'[d].key = domains[d].key
  BY <1>0, Moves, LocalTypes, ZenonT(60)
  DEF TypeOK, DMove, At, Fresh, domainVars, D!Create, D!Update, D!Delete, D!Exists, D!storeVars,
      LocalsTrue
<1> QED BY <1>1, <1>2, <1>3

\* The indexes agree after a step.
LEMMA IndexesKept ==
  ASSUME Inv, Step
  PROVE  IndexesAgree'
<1>0. /\ TypeOK /\ IndexesAgree
      /\ \A q \in Requests : req[q] \in Places /\ LocalsTrue(req[q])
  BY ZenonT(30) DEF Inv, TypeOK
<1>1. R!IndexAgrees'
  BY <1>0, Moves, NoneApart, SMTT(30)
  DEF TypeOK, IndexesAgree, R!IndexAgrees, RMove, Fresh, reservationVars, R!Create, R!Taken, R!Delete,
      R!Exists, R!storeVars, ReservationRecord
<1>2. P!IndexAgrees'
  <2> USE DEF P!IndexAgrees, P!Exists, P!storeVars
  <2>0. /\ P!IndexAgrees
        /\ policies \in [PolicyIDs -> A!PolicyRecord \cup {None}]
        /\ byReservation \in [ReservationIDs -> PolicyIDs \cup {None}]
        /\ \A rec \in A!PolicyRecord : rec # None /\ rec.key \in ReservationIDs
        /\ None \notin PolicyIDs
    BY <1>0, NoneApart DEF TypeOK, IndexesAgree, A!PolicyRecord
  <2>1. CASE UNCHANGED policyVars
    BY <2>0, <2>1 DEF policyVars
  <2>2. ASSUME NEW p \in PolicyIDs, NEW rec \in A!PolicyRecord, P!Create(p, rec)
        PROVE  P!IndexAgrees'
    BY <2>0, <2>2 DEF P!Create, P!Taken
  <2>3. ASSUME NEW q \in Requests, req[q].at \in {"putPolicy", "upgrade"},
               P!Update(req[q].id, req[q].record)
        PROVE  P!IndexAgrees'
    <3>1. /\ req[q].id \in PolicyIDs /\ req[q].record \in A!PolicyRecord
          /\ P!Exists(req[q].id) => policies[req[q].id].key = req[q].record.key
      BY <1>0, <2>3, LocalTypes, SMTT(30) DEF LocalsTrue
    <3> DEFINE i == req[q].id
               rec == req[q].record
    <3>2. P!Update(i, rec) /\ i \in PolicyIDs /\ rec \in A!PolicyRecord
          /\ (P!Exists(i) => policies[i].key = rec.key)
      BY <2>3, <3>1, Zenon
    <3> HIDE DEF i, rec
    <3> QED BY <2>0, <3>2, SMTT(30) DEF P!Update
  <2>4. ASSUME NEW p \in PolicyIDs, P!Delete(p)
        PROVE  P!IndexAgrees'
    BY <2>0, <2>4 DEF P!Delete
  <2> QED BY <1>0, <2>1, <2>2, <2>3, <2>4, Moves, Zenon DEF PMove, Fresh
<1>3. D!IndexAgrees'
  <2> USE DEF D!IndexAgrees, D!Exists, D!storeVars
  <2>0. /\ D!IndexAgrees
        /\ domains \in [DomainIDs -> DomainRecord \cup {None}]
        /\ byHostname \in [Hostnames -> DomainIDs \cup {None}]
        /\ \A rec \in DomainRecord : rec # None /\ rec.key \in Hostnames
        /\ None \notin DomainIDs
    BY <1>0, NoneApart DEF TypeOK, IndexesAgree, DomainRecord
  <2>1. CASE UNCHANGED domainVars
    BY <2>0, <2>1, SMTT(30) DEF domainVars
  <2>2. ASSUME NEW d \in DomainIDs, NEW q \in Requests, req[q].at = "addDomain",
               D!Create(d, req[q].record)
        PROVE  D!IndexAgrees'
    <3>1. req[q].record \in DomainRecord
      BY <1>0, <2>2, LocalTypes
    <3> QED BY <2>0, <2>2, <3>1, SMTT(30) DEF D!Create, D!Taken
  <2>3. ASSUME NEW q \in Requests, At(q, "verified"), D!Update(req[q].id, req[q].record)
        PROVE  D!IndexAgrees'
    <3>1. /\ req[q].id \in DomainIDs /\ req[q].record \in DomainRecord
          /\ D!Exists(req[q].id) => domains[req[q].id].key = req[q].record.key
      BY <1>0, <2>3, LocalTypes DEF LocalsTrue, At
    <3> DEFINE i == req[q].id
               rec == req[q].record
    <3>2. D!Update(i, rec) /\ i \in DomainIDs /\ rec \in DomainRecord
          /\ (D!Exists(i) => domains[i].key = rec.key)
      BY <2>3, <3>1, Zenon
    <3> HIDE DEF i, rec
    <3> QED BY <2>0, <3>2, SMTT(30) DEF D!Update
  <2>4. ASSUME NEW d \in DomainIDs, D!Delete(d)
        PROVE  D!IndexAgrees'
    BY <2>0, <2>4 DEF D!Delete
  <2> QED BY <1>0, <2>1, <2>2, <2>3, <2>4, Moves, Zenon DEF DMove, Fresh
<1> QED BY <1>1, <1>2, <1>3 DEF IndexesAgree

\* Ids of records are issued ones after a step, and active domains proven.
LEMMA RecordsTrue ==
  ASSUME Inv, Step
  PROVE  IDsIssued' /\ ActiveWasProven'
<1>0. /\ TypeOK /\ IDsIssued /\ ActiveWasProven
      /\ \A q \in Requests : req[q] \in Places /\ LocalsTrue(req[q])
  BY DEF Inv, TypeOK
<1>1. issued \subseteq issued' /\ dns \subseteq dns'
  BY <1>0, RequestTypes
<1>2. \A r \in ReservationIDs : R!Exists(r)' => r \in issued'
  BY <1>0, <1>1, Moves, Zenon
  DEF TypeOK, IDsIssued, RMove, Fresh, Issue, reservationVars, R!Create, R!Delete, R!Exists, R!storeVars
<1>3. \A p \in PolicyIDs : P!Exists(p)' => p \in issued'
  BY <1>0, <1>1, Moves, LocalTypes, Zenon
  DEF TypeOK, IDsIssued, PMove, Fresh, Issue, policyVars, P!Create, P!Update, P!Delete, P!Exists,
      P!storeVars
<1>4. \A d \in DomainIDs :
        D!Exists(d)' => /\ d \in issued' /\ domains'[d].reservation \in issued'
                        /\ domains'[d].status = "active" => d \in dns'
  BY <1>0, <1>1, Moves, LocalTypes, ZenonT(60)
  DEF TypeOK, IDsIssued, ActiveWasProven, DMove, At, Fresh, Issue, domainVars, D!Create, D!Update,
      D!Delete, D!Exists, D!storeVars, LocalsTrue
<1> QED BY <1>2, <1>3, <1>4, SMTT(30) DEF IDsIssued, ActiveWasProven, R!Exists, P!Exists, D!Exists

\* What a request has read stays true of the records while others take steps.
LEMMA LocalsAge ==
  ASSUME Inv, Step, NEW x \in Places, LocalsTrue(x)
  PROVE  LocalsTrue(x)'
<1>1. issued \subseteq issued' /\ dns \subseteq dns'
  BY RequestTypes DEF Inv
<1> QED BY <1>1, RecordsKept, LocalTypes, Zenon DEF LocalsTrue

\* What a request reads in a step is true.
LEMMA LocalsRead ==
  ASSUME Inv, Step, NEW q \in Requests, req'[q] # req[q]
  PROVE  LocalsTrue(req[q])'
<1>0. TypeOK /\ IndexesAgree /\ IDsIssued /\ LocalsTrue(req[q]) /\ req[q] \in Places
  BY DEF Inv, TypeOK
<1>1. ASSUME NEW x, Goto(q, x)
      PROVE  req'[q] = x
  BY <1>0, <1>1, SMTT(30) DEF Goto, TypeOK
<1>2. CASE req'[q].at = "putPolicy"
  <2>1. PICK p \in PolicyIDs, m \in Modes \cup {None}, s \in Secrets \cup {None} :
          handleAccessPolicyPut(q, p, m, s)
    BY <1>0, <1>2, Came, Zenon DEF CameFrom
  <2>2. /\ P!Exists(p) /\ A!updatedPolicyRecord(policies[p], m, s) # None
        /\ req'[q] = [at |-> "putPolicy", id |-> p,
                      record |-> A!updatedPolicyRecord(policies[p], m, s)]
        /\ policies' = policies /\ issued' = issued
    BY <1>1, <2>1, ZenonT(60) DEF handleAccessPolicyPut, stores, policyVars
  <2>3. policies[p] \in A!PolicyRecord /\ policies[p].key \in ReservationIDs
    BY <1>0, <2>2 DEF TypeOK, P!Exists, A!PolicyRecord
  <2>4. A!updatedPolicyRecord(policies[p], m, s).key = policies[p].key
    BY <2>2, <2>3, PolicyRecords, ZenonT(60)
  <2>5. p \in issued
    BY <1>0, <2>2, Zenon DEF IDsIssued
  <2> QED BY <2>2, <2>4, <2>5 DEF LocalsTrue, P!Exists
<1>3. CASE req'[q].at = "upgrade"
  <2> DEFINE r == req[q].reservation
  <2>1. CheckPolicy(q)
    BY <1>0, <1>3, Came, Zenon DEF CameFrom
  <2>2. /\ P!LookupByKey(r) # None
        /\ req'[q].id = byReservation[r]
        /\ req'[q].record = A!Upgraded(P!LookupByKey(r), req[q].cred)
        /\ policies' = policies /\ issued' = issued
    <3>1. CASE P!LookupByKey(r) = None
      <4>1. Evaluated(q, req[q].name, req[q].cred, TRUE)
        BY <2>1, <3>1, ZenonT(60) DEF CheckPolicy
      <4> DEFINE y == [at |-> "evaluated", name |-> req[q].name, cred |-> req[q].cred, allowed |-> TRUE]
      <4>2. req'[q] = y
        BY <1>1, <4>1, Zenon DEF Evaluated
      <4>3. y.at = "evaluated"
        OBVIOUS
      <4> HIDE DEF y
      <4> QED BY <1>3, <4>2, <4>3
    <3>2. CASE ~(A!Matches(P!LookupByKey(r), req[q].cred) /\ A!NeedsUpgrade(P!LookupByKey(r)))
      <4>1. PICK a : Evaluated(q, req[q].name, req[q].cred, a)
        BY <2>1, <3>2, ZenonT(60) DEF CheckPolicy
      <4> DEFINE y == [at |-> "evaluated", name |-> req[q].name, cred |-> req[q].cred, allowed |-> a]
      <4>2. req'[q] = y
        BY <1>1, <4>1, Zenon DEF Evaluated
      <4>3. y.at = "evaluated"
        OBVIOUS
      <4> HIDE DEF y
      <4> QED BY <1>3, <4>2, <4>3
    <3>3. CASE /\ P!LookupByKey(r) # None
               /\ A!Matches(P!LookupByKey(r), req[q].cred) /\ A!NeedsUpgrade(P!LookupByKey(r))
      <4>1. Goto(q, [at |-> "upgrade", name |-> req[q].name, cred |-> req[q].cred,
                     id |-> byReservation[r], record |-> A!Upgraded(P!LookupByKey(r), req[q].cred)])
        BY <2>1, <3>3, Zenon DEF CheckPolicy
      <4>2. policies' = policies /\ issued' = issued
        BY <2>1, Zenon DEF CheckPolicy, stores, policyVars
      <4> DEFINE y == [at |-> "upgrade", name |-> req[q].name, cred |-> req[q].cred,
                       id |-> byReservation[r], record |-> A!Upgraded(P!LookupByKey(r), req[q].cred)]
      <4>3. req'[q] = y
        BY <1>1, <4>1, Zenon
      <4>4. y.id = byReservation[r] /\ y.record = A!Upgraded(P!LookupByKey(r), req[q].cred)
        OBVIOUS
      <4> HIDE DEF y
      <4> QED BY <3>3, <4>2, <4>3, <4>4, Zenon
    <3> QED BY <3>1, <3>2, <3>3, ZenonT(60)
  <2>3. r \in ReservationIDs
    BY <1>0, <2>1, LocalTypes, ZenonT(60) DEF CheckPolicy, At
  <2>4. byReservation[r] \in PolicyIDs /\ P!LookupByKey(r) = policies[byReservation[r]]
    BY <1>0, <2>2, <2>3, ZenonT(30) DEF TypeOK, P!LookupByKey
  <2>5. byReservation[r] \in issued
    BY <1>0, <2>2, <2>4 DEF IDsIssued, P!Exists
  <2>6. req'[q].record.key = policies[byReservation[r]].key
    BY <1>0, <2>2, <2>4, ZenonT(60) DEF TypeOK, A!Upgraded, A!PolicyRecord
  <2> QED BY <1>3, <2>2, <2>5, <2>6, Zenon DEF LocalsTrue, P!Exists
<1>4. CASE req'[q].at = "addDomain"
  <2>1. PICK r \in ReservationIDs, h \in Hostnames : handleCustomDomains(q, r, h)
    BY <1>0, <1>4, Came, ZenonT(30) DEF CameFrom
  <2> DEFINE rec == [key |-> h, reservation |-> r, status |-> "pending_verification"]
  <2>2. R!Exists(r) /\ issued' = issued /\ req'[q] = [at |-> "addDomain", record |-> rec]
    BY <1>1, <2>1, Zenon DEF handleCustomDomains
  <2>3. r \in issued
    BY <1>0, <2>2, Zenon DEF IDsIssued
  <2>4. req'[q].record.reservation = r /\ req'[q].record.status = "pending_verification"
    BY <2>2
  <2> QED BY <1>4, <2>2, <2>3, <2>4, Zenon DEF LocalsTrue
<1>5. CASE req'[q].at = "verify"
  <2>1. PICK d \in DomainIDs : VerifyDomain(q, d)
    BY <1>0, <1>5, Came, Zenon DEF CameFrom
  <2>2. /\ D!Exists(d) /\ domains[d].status # "active"
        /\ req'[q] = [at |-> "verify", id |-> d, record |-> domains[d]]
        /\ domains' = domains /\ issued' = issued
    BY <1>1, <2>1, Zenon DEF VerifyDomain, stores, domainVars
  <2>3. d \in issued /\ domains[d].reservation \in issued
    BY <1>0, <2>2, ZenonT(30) DEF IDsIssued
  <2>4. req'[q].id = d /\ req'[q].record = domains[d]
    BY <2>2
  <2> QED BY <1>5, <2>2, <2>3, <2>4, ZenonT(30) DEF LocalsTrue, D!Exists
<1>6. CASE req'[q].at = "verified"
  <2>1. PICK matched \in BOOLEAN : LookupTXT(q, matched)
    BY <1>0, <1>6, Came, Zenon DEF CameFrom
  <2>2. /\ req[q].at = "verify" /\ (matched => req[q].id \in dns)
        /\ req'[q].id = req[q].id
        /\ req'[q].record = [req[q].record EXCEPT
                               !.status = IF matched THEN "active" ELSE "verification_failed"]
        /\ domains' = domains /\ issued' = issued /\ dns' = dns
    BY <1>1, <2>1 DEF LookupTXT, At, stores, domainVars
  <2>3. req[q].record \in DomainRecord
    BY <1>0, <2>2, LocalTypes
  <2>4. /\ req'[q].record.key = req[q].record.key
        /\ req'[q].record.reservation = req[q].record.reservation
        /\ req'[q].record.status = "active" => matched
    BY <2>2, <2>3, Zenon DEF DomainRecord
  <2> QED BY <1>0, <1>6, <2>2, <2>4, Zenon DEF LocalsTrue, D!Exists
<1>7. CASE req'[q].at = "check"
  <2>1. PICK n \in Subdomains, cred \in Secrets : handleEvaluateAccessPolicy(q, n, cred)
    BY <1>0, <1>7, Came, ZenonT(60) DEF CameFrom
  <2>2. byName[n] # None /\ req'[q].reservation = byName[n] /\ issued' = issued
    <3>1. byName[n] = None => req'[q] = [at |-> "evaluated", name |-> n, cred |-> cred, allowed |-> TRUE]
      BY <1>1, <2>1, Zenon DEF handleEvaluateAccessPolicy, Evaluated
    <3>2. byName[n] # None
      BY <1>7, <3>1
    <3>3. req'[q] = [at |-> "check", name |-> n, cred |-> cred, reservation |-> byName[n]]
      BY <1>1, <2>1, <3>2, Zenon DEF handleEvaluateAccessPolicy
    <3>4. issued' = issued
      BY <2>1, Zenon DEF handleEvaluateAccessPolicy
    <3>5. req'[q].reservation = byName[n]
      BY <3>3, SMTT(30)
    <3> QED BY <3>2, <3>4, <3>5, Zenon
  <2>3. byName[n] \in issued
    BY <1>0, <2>2 DEF TypeOK, IndexesAgree, R!IndexAgrees, IDsIssued
  <2> QED BY <1>7, <2>2, <2>3, ZenonT(60) DEF LocalsTrue
<1>8. CASE req'[q].at = "resolve"
  <2>1. PICK h \in Hostnames : handleLookupCustomDomain(q, h)
    BY <1>0, <1>8, Came, Zenon DEF CameFrom
  <2> DEFINE d == D!LookupByKey(h)
  <2>2. /\ req'[q] = IF d = None \/ d.status # "active" THEN [at |-> "resolved", host |-> h, name |-> None]
                     ELSE [at |-> "resolve", host |-> h, reservation |-> d.reservation]
        /\ issued' = issued
    BY <1>1, <2>1, ZenonT(60) DEF handleLookupCustomDomain
  <2>3. d # None => byHostname[h] \in DomainIDs /\ d = domains[byHostname[h]]
    BY <1>0, ZenonT(60) DEF TypeOK, D!LookupByKey
  <2> HIDE DEF d
  <2>4. d # None /\ req'[q].reservation = d.reservation
    <3>1. CASE d = None \/ d.status # "active"
      <4>1. req'[q] = [at |-> "resolved", host |-> h, name |-> None]
        BY <2>2, <3>1, Zenon
      <4> QED BY <1>8, <4>1
    <3>2. CASE ~(d = None \/ d.status # "active")
      <4>1. req'[q] = [at |-> "resolve", host |-> h, reservation |-> d.reservation]
        BY <2>2, <3>2, ZenonT(60)
      <4> QED BY <3>2, <4>1
    <3> QED BY <3>1, <3>2
  <2>5. d.reservation \in issued
    BY <1>0, <2>3, <2>4, ZenonT(30) DEF IDsIssued, D!Exists
  <2> QED BY <1>8, <2>2, <2>4, <2>5, Zenon DEF LocalsTrue
<1>9. CASE req'[q].at \notin {"putPolicy", "upgrade", "addDomain", "verify", "verified", "check", "resolve"}
  BY <1>9 DEF LocalsTrue
<1> QED BY <1>2, <1>3, <1>4, <1>5, <1>6, <1>7, <1>8, <1>9

\* The invariant holds initially,
LEMMA InvInitially == Init => Inv
<1> SUFFICES ASSUME Init PROVE Inv
  OBVIOUS
<1>1. TypeOK
  BY TypesInitially
<1>2. \A q \in Requests : LocalsTrue(req[q])
  BY Zenon DEF Init, Idle, LocalsTrue
<1>3. CASE EmptyStores
  BY <1>1, <1>2, <1>3, NoneApart, ZenonT(60)
  DEF EmptyStores, Inv, IndexesAgree, IDsIssued, ActiveWasProven, R!StoreInit, P!StoreInit,
      D!StoreInit, R!IndexAgrees, P!IndexAgrees, D!IndexAgrees, R!Exists, P!Exists, D!Exists
<1>4. CASE LegacyStores
  <2>1. PICK t \in TokenIDs, r \in ReservationIDs, p \in PolicyIDs, n \in Subdomains, s \in Secrets :
          LegacyStore(t, r, p, n, s)
    BY <1>4 DEF LegacyStores
  <2>2. A!LegacyRecord(r, s) # None /\ A!LegacyRecord(r, s).key = r
    <3>1. A!LegacyRecord(r, s) \in A!PolicyRecord
      BY ModesKnown DEF A!LegacyRecord, A!PolicyRecord, A!Hashes, A!HashSecret
    <3> QED BY <3>1, NoneApart, SMTT(30) DEF A!LegacyRecord
  <2>3. [key |-> n, token |-> t] # None
    BY NoneApart, SMTT(30) DEF ReservationRecord
  <2>4. R!IndexAgrees /\ P!IndexAgrees /\ D!IndexAgrees
    BY <2>1, <2>2, <2>3, NoneApart
    DEF LegacyStore, R!IndexAgrees, P!IndexAgrees, D!IndexAgrees, D!StoreInit, R!Exists, P!Exists,
        D!Exists
  <2> QED
    BY <1>1, <1>2, <2>1, <2>4, SMTT(30)
    DEF LegacyStore, Inv, IndexesAgree, IDsIssued, ActiveWasProven, D!StoreInit, R!Exists, P!Exists,
        D!Exists
<1> QED BY <1>3, <1>4 DEF Init

\* and is kept by every step.
LEMMA InvKept == Inv /\ [Next]_vars => Inv'
<1> SUFFICES ASSUME Inv, [Next]_vars PROVE Inv'
  OBVIOUS
<1>1. TypeOK'
  BY TypesKept, Zenon DEF Inv
<1>2. CASE Next
  <2>1. Step
    BY <1>2 DEF Next
  <2>2. ASSUME NEW q \in Requests
        PROVE  LocalsTrue(req[q])'
    <3>1. CASE req'[q] # req[q]
      BY <2>1, <3>1, LocalsRead, Zenon
    <3>2. CASE req'[q] = req[q]
      <4>1. req[q] \in Places /\ LocalsTrue(req[q])
        BY DEF Inv, TypeOK
      <4>2. ASSUME NEW x \in Places, LocalsTrue(x)
            PROVE  LocalsTrue(x)'
        BY <2>1, <4>2, LocalsAge, Zenon
      <4> QED BY <3>2, <4>1, <4>2, Zenon DEF LocalsTrue
    <3> QED BY <3>1, <3>2
  <2> QED BY <1>1, <2>1, <2>2, IndexesKept, RecordsTrue DEF Inv
<1>3. CASE UNCHANGED vars
  BY <1>1, <1>3, ZenonT(60)
  DEF vars, stores, tokenVars, reservationVars, policyVars, domainVars, Inv, IndexesAgree, IDsIssued,
      ActiveWasProven, LocalsTrue, R!IndexAgrees, P!IndexAgrees, D!IndexAgrees, R!Exists, P!Exists,
      D!Exists
<1> QED BY <1>2, <1>3

\* The invariant holds in every state.
LEMMA Invariance == Spec => []Inv
BY InvInitially, InvKept, PTL DEF Spec

\* The records and the index of every store agree in every state: of
\* concurrent requests for one name, reservation or hostname one succeeds.
THEOREM IndexesStayRight == Spec => []IndexesAgree
<1>1. Inv => IndexesAgree
  BY DEF Inv
<1> QED BY <1>1, Invariance, PTL

\* Only domains whose token was published are ever active, whichever way
\* verifications overtake one another and deletions.
THEOREM ActiveOnlyIfProven == Spec => []ActiveWasProven
<1>1. Inv => ActiveWasProven
  BY DEF Inv
<1> QED BY <1>1, Invariance, PTL

\* No request puts back a record that was deleted while it was under way, and a
\* token that was revoked stays so, also if a validation had found it live.
THEOREM GoneForGood == Spec => DeadStaysDead
<1> DEFINE Stays ==
      /\ \A r \in ReservationIDs : r \in issued /\ ~R!Exists(r) => ~R!Exists(r)'
      /\ \A p \in PolicyIDs : p \in issued /\ ~P!Exists(p) => ~P!Exists(p)'
      /\ \A d \in DomainIDs : d \in issued /\ ~D!Exists(d) => ~D!Exists(d)'
    Final == \A t \in TokenIDs : tokens[t] = "revoked" => tokens'[t] = "revoked"
<1>1. Inv /\ [Next]_vars => [Stays]_vars
  BY RecordsKept, Zenon DEF Next
<1>2. ASSUME Inv, Next PROVE Final
  <2>1. TMove /\ tokens \in [TokenIDs -> {"none", "live", "revoked"}]
    BY <1>2, Moves, Zenon DEF Next, Inv, TypeOK, T!TokensTypeOK
  <2> QED
    BY <2>1 DEF TMove, tokenVars, T!CreateToken, T!MarkUsed, T!RevokeToken
<1>3. Inv /\ [Next]_vars => [Stays /\ Final]_vars
  BY <1>1, <1>2, Zenon
<1> QED BY <1>3, Invariance, PTL DEF Spec, DeadStaysDead

-------------------------------------------------------------------------------
\* What is right now is remembered; a request that holds a reservation either
\* holds that of its name or has seen the name free; one that has found its
\* answer has seen it right.
Explained(q) ==
  /\ RightNow(q) \subseteq seen[q]
  /\ At(q, "check") =>
       \/ R!Exists(req[q].reservation) /\ reservations[req[q].reservation].key = req[q].name
       \/ TRUE \in seen[q]
  /\ At(q, "upgrade") => TRUE \in seen[q]
  /\ At(q, "evaluated") /\ req[q].allowed => TRUE \in seen[q]
  /\ At(q, "resolve") =>
       (R!Exists(req[q].reservation) => reservations[req[q].reservation].key \in seen[q])
  /\ At(q, "resolved") /\ req[q].name # None => req[q].name \in seen[q]

\* The name of a reservation that a step deletes is free after it.
LEMMA DeletedNameFree ==
  ASSUME Inv, Step, NEW r \in ReservationIDs, R!Exists(r), ~R!Exists(r)'
  PROVE  byName'[reservations[r].key] = None
<1>1. reservations[r].key \in Subdomains
  BY DEF Inv, TypeOK, R!Exists, ReservationRecord
<1>2. /\ reservations \in [ReservationIDs -> ReservationRecord \cup {None}]
      /\ byName \in [Subdomains -> ReservationIDs \cup {None}]
      /\ RMove
  BY Moves, Zenon DEF Inv, TypeOK
<1>3. CASE UNCHANGED reservationVars
  BY <1>3, Zenon DEF reservationVars, R!Exists
<1>4. ASSUME NEW i \in ReservationIDs, NEW rec \in ReservationRecord, R!Create(i, rec)
      PROVE  R!Exists(r)'
  BY <1>2, <1>4, NoneApart, Zenon DEF R!Create, R!Exists, R!storeVars
<1>5. ASSUME NEW i \in ReservationIDs, R!Delete(i)
      PROVE  byName'[reservations[r].key] = None
  BY <1>1, <1>2, <1>5, Zenon DEF R!Delete, R!Exists, R!storeVars
<1> QED
  BY <1>2, <1>3, <1>4, <1>5, Zenon DEF RMove, Fresh

\* A check whose answer is to admit, or which goes on to upgrade a hash, found no
\* policy or one that the credential satisfies.
LEMMA CheckAllows ==
  ASSUME TypeOK, NEW q \in Requests, CheckPolicy(q), req'[q].at = "upgrade" \/ req'[q].allowed
  PROVE  \/ P!LookupByKey(req[q].reservation) = None
         \/ A!Matches(P!LookupByKey(req[q].reservation), req[q].cred)
<1> DEFINE matches == A!Matches(P!LookupByKey(req[q].reservation), req[q].cred)
           answer == [at |-> "evaluated", name |-> req[q].name, cred |-> req[q].cred, allowed |-> matches]
<1>1. CASE P!LookupByKey(req[q].reservation) # None /\ ~matches
  <2>1. Goto(q, answer)
    BY <1>1, Zenon DEF CheckPolicy, Evaluated
  <2>2. answer.at = "evaluated" /\ answer.allowed = matches
    OBVIOUS
  <2> HIDE DEF answer
  <2>3. req'[q] = answer
    BY <2>1, Zenon DEF Goto, TypeOK
  <2> QED BY <1>1, <2>2, <2>3, Zenon
<1> QED BY <1>1, Zenon

\* A policy check that admits was right when it was made, or had been before.
LEMMA ChecksRight ==
  ASSUME Inv, NEW q \in Requests, Explained(q), At(q, "check"),
         \/ P!LookupByKey(req[q].reservation) = None
         \/ A!Matches(P!LookupByKey(req[q].reservation), req[q].cred)
  PROVE  TRUE \in seen[q]
<1>1. req[q].reservation \in ReservationIDs /\ req[q].name \in Subdomains
  BY LocalTypes DEF Inv, TypeOK, At
<1>2. CASE R!Exists(req[q].reservation) /\ reservations[req[q].reservation].key = req[q].name
  <2>1. byName[req[q].name] = req[q].reservation
    <3>1. R!IndexAgrees
      BY DEF Inv, IndexesAgree
    <3> QED BY <1>1, <1>2, <3>1, ZenonT(60) DEF R!IndexAgrees
  <2>2. Allowed(req[q].name, req[q].cred) = TRUE
    BY <2>1, Zenon DEF Allowed
  <2>3. RightNow(q) = {TRUE} \cap {Allowed(req[q].name, req[q].cred)}
    BY DEF RightNow, At
  <2> QED BY <2>2, <2>3, Zenon DEF Explained
<1> QED BY <1>2, ZenonT(60) DEF Explained

\* Explanations are kept by every step.
LEMMA ExplainedKept ==
  ASSUME Inv, Inv', Next, NEW q \in Requests, Explained(q)
  PROVE  Explained(q)'
<1>0. /\ Step /\ Watch
      /\ TypeOK /\ TypeOK' /\ req[q] \in Places /\ req'[q] \in Places
  BY DEF Next, Inv, TypeOK
<1>1. RightNow(q)' \subseteq seen'[q]
  <2>1. CASE req'[q].at = "idle"
    BY <2>1 DEF RightNow
  <2>2. CASE req'[q].at # "idle"
    BY <1>0, <2>2 DEF Watch
  <2> QED BY <2>1, <2>2
<1>2. req'[q].at # "idle" => seen[q] \subseteq seen'[q]
  BY <1>0 DEF Watch
<1>3. ASSUME At(q, "check")'
      PROVE  \/ R!Exists(req[q].reservation)' /\ reservations'[req'[q].reservation].key = req'[q].name
             \/ TRUE \in seen'[q]
  <2>1. CASE req'[q] = req[q]
    <3>1. /\ At(q, "check") /\ req[q].reservation \in ReservationIDs \cap issued
          /\ seen[q] \subseteq seen'[q]
      BY <1>0, <1>2, <1>3, <2>1, LocalTypes, Zenon DEF At, Inv, LocalsTrue
    <3>2. CASE R!Exists(req[q].reservation) /\ reservations[req[q].reservation].key = req[q].name
      <4>1. CASE (R!Exists(req[q].reservation))'
        BY <1>0, <2>1, <3>1, <3>2, <4>1, RecordsKept, ZenonT(60) DEF R!Exists
      <4>2. CASE ~(R!Exists(req[q].reservation))'
        <5>1. byName'[req[q].name] = None
          BY <1>0, <2>1, <3>1, <3>2, <4>2, DeletedNameFree, ZenonT(60) DEF R!Exists
        <5>2. Allowed(req[q].name, req[q].cred)' = TRUE
          BY <2>1, <5>1 DEF Allowed
        <5>3. RightNow(q)' = {TRUE} \cap {Allowed(req[q].name, req[q].cred)'}
          BY <1>3 DEF RightNow, At
        <5> QED BY <1>1, <5>2, <5>3, ZenonT(60)
      <4> QED BY <4>1, <4>2, Zenon
    <3> QED BY <3>1, <3>2, ZenonT(60) DEF Explained
  <2>2. CASE req'[q] # req[q]
    <3>1. PICK n \in Subdomains, cred \in Secrets : handleEvaluateAccessPolicy(q, n, cred)
      BY <1>0, <1>3, <2>2, Came, ZenonT(60) DEF CameFrom, At
    <3>2. byName[n] # None /\ req'[q].reservation = byName[n] /\ req'[q].name = n
      <4>1. ASSUME NEW x, Goto(q, x) PROVE req'[q] = x
        BY <1>0, <4>1, Zenon DEF Goto, TypeOK
      <4>2. CASE byName[n] = None
        <5>1. Goto(q, [at |-> "evaluated", name |-> n, cred |-> cred, allowed |-> TRUE])
          BY <3>1, <4>2, ZenonT(60) DEF handleEvaluateAccessPolicy, Evaluated
        <5>2. req'[q] = [at |-> "evaluated", name |-> n, cred |-> cred, allowed |-> TRUE]
          BY <4>1, <5>1, ZenonT(60)
        <5> QED BY <1>3, <5>2 DEF At
      <4>3. CASE byName[n] # None
        <5>1. Goto(q, [at |-> "check", name |-> n, cred |-> cred, reservation |-> byName[n]])
          BY <3>1, <4>3, Zenon DEF handleEvaluateAccessPolicy
        <5>2. req'[q] = [at |-> "check", name |-> n, cred |-> cred, reservation |-> byName[n]]
          BY <4>1, <5>1, Zenon
        <5> QED BY <4>3, <5>2
      <4> QED BY <4>2, <4>3
    <3>3. R!Exists(byName[n]) /\ reservations[byName[n]].key = n
      BY <3>2, Zenon DEF Inv, IndexesAgree, R!IndexAgrees
    <3> QED
      BY <3>1, <3>2, <3>3, Zenon DEF handleEvaluateAccessPolicy, stores, reservationVars, R!Exists
  <2> QED BY <2>1, <2>2, Zenon
<1>4. ASSUME At(q, "upgrade")'
      PROVE  TRUE \in seen'[q]
  <2>1. CASE req'[q] = req[q]
    BY <1>2, <1>4, <2>1, Zenon DEF At, Explained
  <2>2. CASE req'[q] # req[q]
    <3>1. CheckPolicy(q)
      BY <1>0, <1>4, <2>2, Came, ZenonT(60) DEF CameFrom, At
    <3>2. \/ P!LookupByKey(req[q].reservation) = None
          \/ A!Matches(P!LookupByKey(req[q].reservation), req[q].cred)
      BY <1>0, <1>4, <3>1, CheckAllows, Zenon DEF At
    <3>3. TRUE \in seen[q]
      BY <3>1, <3>2, ChecksRight, Zenon DEF CheckPolicy
    <3> QED BY <1>2, <1>4, <3>3, ZenonT(60) DEF At
  <2> QED BY <2>1, <2>2, Zenon
<1>5. ASSUME At(q, "evaluated")', req'[q].allowed
      PROVE  TRUE \in seen'[q]
  <2>1. CASE req'[q] = req[q]
    BY <1>2, <1>5, <2>1, Zenon DEF At, Explained
  <2>2. ASSUME NEW n \in Subdomains, NEW cred \in Secrets, handleEvaluateAccessPolicy(q, n, cred)
        PROVE  TRUE \in seen'[q]
    <3>1. byName[n] = None /\ req'[q].name = n
      <4>1. ASSUME NEW x, Goto(q, x) PROVE req'[q] = x
        BY <1>0, <4>1, SMTT(30) DEF Goto, TypeOK
      <4>2. CASE byName[n] = None
        <5>1. Goto(q, [at |-> "evaluated", name |-> n, cred |-> cred, allowed |-> TRUE])
          BY <2>2, <4>2, Zenon DEF handleEvaluateAccessPolicy, Evaluated
        <5>2. req'[q] = [at |-> "evaluated", name |-> n, cred |-> cred, allowed |-> TRUE]
          BY <4>1, <5>1, Zenon
        <5> QED BY <4>2, <5>2, SMTT(30)
      <4>3. CASE byName[n] # None
        <5>1. Goto(q, [at |-> "check", name |-> n, cred |-> cred, reservation |-> byName[n]])
          BY <2>2, <4>3, Zenon DEF handleEvaluateAccessPolicy
        <5>2. req'[q] = [at |-> "check", name |-> n, cred |-> cred, reservation |-> byName[n]]
          BY <4>1, <5>1, Zenon
        <5> QED BY <1>5, <5>2 DEF At
      <4> QED BY <4>2, <4>3, SMTT(30)
    <3>2. byName'[req'[q].name] = None
      BY <2>2, <3>1, Zenon DEF handleEvaluateAccessPolicy, stores, reservationVars
    <3>3. Allowed(req[q].name, req[q].cred)' = TRUE
      BY <3>2 DEF Allowed
    <3>4. RightNow(q)' = {TRUE} \cap {Allowed(req[q].name, req[q].cred)'}
      BY <1>5 DEF RightNow, At
    <3> QED BY <1>1, <3>3, <3>4, ZenonT(60)
  <2>3. CASE CheckPolicy(q)
    <3>1. \/ P!LookupByKey(req[q].reservation) = None
          \/ A!Matches(P!LookupByKey(req[q].reservation), req[q].cred)
      BY <1>0, <1>5, <2>3, CheckAllows, Zenon
    <3>2. TRUE \in seen[q]
      BY <2>3, <3>1, ChecksRight, Zenon DEF CheckPolicy
    <3> QED BY <1>2, <1>5, <3>2, ZenonT(60) DEF At
  <2>4. CASE upgradeBasicAuthHash(q)
    BY <1>2, <1>5, <2>4, Zenon DEF upgradeBasicAuthHash, At, Explained
  <2> QED BY <1>0, <1>5, <2>1, <2>2, <2>3, <2>4, Came, Zenon DEF CameFrom, At
<1>6. ASSUME At(q, "resolve")', R!Exists(req[q].reservation)'
      PROVE  reservations'[req'[q].reservation].key \in seen'[q]
  <2>1. CASE req'[q] = req[q]
    <3>1. req[q].reservation \in ReservationIDs \cap issued
      BY <1>0, <1>6, <2>1, LocalTypes, Zenon DEF At, Inv, LocalsTrue
    <3>2. /\ R!Exists(req[q].reservation)
          /\ reservations'[req[q].reservation] = reservations[req[q].reservation]
      BY <1>0, <1>6, <2>1, <3>1, RecordsKept, Zenon DEF R!Exists
    <3> QED BY <1>2, <1>6, <2>1, <3>2, Zenon DEF At, Explained
  <2>2. CASE req'[q] # req[q]
    <3>1. PICK h \in Hostnames : handleLookupCustomDomain(q, h)
      BY <1>0, <1>6, <2>2, Came, Zenon DEF CameFrom, At
    <3> DEFINE d == D!LookupByKey(h)
    <3>2. d # None /\ d.status = "active" /\ req'[q].reservation = d.reservation /\ req'[q].host = h
      BY <1>0, <1>6, <3>1, ZenonT(60) DEF handleLookupCustomDomain, Goto, At, TypeOK
    <3>3. D!LookupByKey(req[q].host)' = d
      BY <3>1, <3>2, ZenonT(60) DEF handleLookupCustomDomain, stores, domainVars, D!LookupByKey
    <3>4. Resolved(req[q].host)' = reservations'[req'[q].reservation].key
      BY <1>6, <3>2, <3>3 DEF Resolved
    <3>5. RightNow(q)' = {Resolved(req[q].host)'} \ {None}
      BY <1>6, Zenon DEF RightNow, At
    <3>6. reservations'[req'[q].reservation].key # None
      <4>1. req'[q].reservation \in ReservationIDs
        BY <1>0, <1>6, LocalTypes, Zenon DEF At
      <4>2. reservations'[req'[q].reservation] \in ReservationRecord
        BY <1>0, <1>6, <4>1, Zenon DEF TypeOK, R!Exists
      <4>3. reservations'[req'[q].reservation].key \in Subdomains
        BY <4>2 DEF ReservationRecord
      <4> QED BY <4>3, NoneApart, Zenon
    <3> QED BY <1>1, <3>4, <3>5, <3>6, Zenon
  <2> QED BY <2>1, <2>2, Zenon
<1>7. ASSUME At(q, "resolved")', req'[q].name # None
      PROVE  req'[q].name \in seen'[q]
  <2>1. CASE req'[q] = req[q]
    BY <1>2, <1>7, <2>1, Zenon DEF At, Explained
  <2>2. ASSUME NEW h \in Hostnames, handleLookupCustomDomain(q, h)
        PROVE  req'[q].name \in seen'[q]
    <3> DEFINE d == D!LookupByKey(h)
               none == [at |-> "resolved", host |-> h, name |-> None]
               found == [at |-> "resolve", host |-> h, reservation |-> d.reservation]
    <3>1. ASSUME NEW x, Goto(q, x) PROVE req'[q] = x
      BY <1>0, <3>1, Zenon DEF Goto, TypeOK
    <3>2. req'[q] = IF d = None \/ d.status # "active" THEN none ELSE found
      BY <2>2, <3>1, Zenon DEF handleLookupCustomDomain
    <3>3. found.at = "resolve" /\ none.name = None
      OBVIOUS
    <3> HIDE DEF d, none, found
    <3>4. req'[q] = none
      BY <1>7, <3>2, <3>3 DEF At
    <3> QED BY <1>7, <3>3, <3>4
  <2>3. CASE lookupCustomDomain(q)
    BY <1>0, <1>2, <1>7, <2>3, ZenonT(60) DEF lookupCustomDomain, Goto, At, TypeOK, Explained
  <2> QED BY <1>0, <1>7, <2>1, <2>2, <2>3, Came, Zenon DEF CameFrom, At
<1> QED BY <1>1, <1>3, <1>4, <1>5, <1>6, <1>7, Zenon DEF Explained, At, R!Exists

\* An evaluation that admits and a lookup that finds a subdomain give an answer
\* that was right at some moment since the request came in, although each reads
\* two stores one after the other.
THEOREM GrantsAreExplained == Spec => []GrantsExplained
<1> DEFINE All == \A q \in Requests : Explained(q)
<1>1. Init => All
  <2> SUFFICES ASSUME Init, NEW q \in Requests PROVE Explained(q)
    BY Zenon
  <2>1. req[q].at = "idle"
    BY DEF Init, Idle
  <2>2. RightNow(q) = {}
    BY <2>1 DEF RightNow
  <2> QED BY <2>1, <2>2 DEF Explained, At
<1>2. Inv /\ Inv' /\ [Next]_vars /\ All => All'
  <2> SUFFICES ASSUME Inv, Inv', [Next]_vars, All PROVE All'
    OBVIOUS
  <2>1. CASE Next
    BY <2>1, ExplainedKept
  <2>2. CASE UNCHANGED vars
    <3>1. \A q \in Requests : RightNow(q)' = RightNow(q)
      BY <2>2
      DEF vars, stores, reservationVars, policyVars, domainVars, RightNow, Allowed, Resolved,
          P!LookupByKey, D!LookupByKey, R!Exists
    <3> QED
      BY <2>2, <3>1, Zenon DEF vars, stores, reservationVars, Explained, At, R!Exists
  <2> QED BY <2>1, <2>2
<1>3. All => GrantsExplained
  BY Zenon DEF Explained, GrantsExplained
<1> QED
  <2> HIDE DEF All
  <2> QED BY <1>1, <1>2, <1>3, Invariance, PTL DEF Spec

===============================================================================
