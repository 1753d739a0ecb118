----------------------------- MODULE ControlPlane -----------------------------
(***************************************************************************)
(* The control plane's API over the stores of tokens, reserved subdomains, *)
(* access policies and custom domains.  A request is a goroutine: it may   *)
(* be overtaken at every call of a store or of the DNS resolver.  Requests *)
(* that are refused before they reach a store are left out.                *)
(***************************************************************************)
CONSTANTS Requests,                                       \* under way at a time
          TokenIDs, ReservationIDs, PolicyIDs, DomainIDs,
          Subdomains, Hostnames, Modes, Secrets, None

VARIABLES
  tokens, lastUsed,          \* tokens.MemoryStore
  reservations, byName,      \* reserved.MemoryStore
  policies, byReservation,   \* access.MemoryStore
  domains, byHostname,       \* customdomains.MemoryStore
  dns,                       \* domains whose token was in their TXT record some time
  issued,                    \* ids that records have or had
  req,                       \* where a request is, and its locals
  seen                       \* history: the grants that would have been right at
                             \*   the moments since a request began

tokenVars == <<tokens, lastUsed>>
reservationVars == <<reservations, byName>>
policyVars == <<policies, byReservation>>
domainVars == <<domains, byHostname>>

T == INSTANCE Tokens
A == INSTANCE AccessPolicy
R == INSTANCE IndexedStore WITH IDs <- ReservationIDs, Keys <- Subdomains,
                                byID <- reservations, byKey <- byName
P == INSTANCE IndexedStore WITH IDs <- PolicyIDs, Keys <- ReservationIDs,
                                byID <- policies, byKey <- byReservation
D == INSTANCE IndexedStore WITH IDs <- DomainIDs, Keys <- Hostnames,
                                byID <- domains, byKey <- byHostname

stores == <<tokenVars, reservationVars, policyVars, domainVars>>
vars == <<stores, dns, issued, req, seen>>

Statuses == {"pending_verification", "active", "verification_failed"}
ReservationRecord == [key : Subdomains, token : TokenIDs]
DomainRecord == [key : Hostnames, reservation : ReservationIDs, status : Statuses]

\* None is no id and no record.
ASSUME NoneApart ==
  /\ None \notin ReservationIDs \cup PolicyIDs \cup DomainIDs \cup Subdomains
  /\ None \notin ReservationRecord \cup A!PolicyRecord \cup DomainRecord

ASSUME ModesKnown ==
  /\ Modes \subseteq {"public", "basic_auth", "bearer_token", "ip_allowlist"}
  /\ "basic_auth" \in Modes

Idle == [at |-> "idle"]

EmptyStores ==
  /\ T!TokensInit /\ R!StoreInit /\ P!StoreInit /\ D!StoreInit
  /\ issued = {}

\* After an upgrade: a policy whose password has a hash of the old scheme.
LegacyStore(t, r, p, n, s) ==
  /\ tokens = [u \in TokenIDs |-> IF u = t THEN "live" ELSE "none"]
  /\ lastUsed = {}
  /\ reservations = [i \in ReservationIDs |-> IF i = r THEN [key |-> n, token |-> t] ELSE None]
  /\ byName = [m \in Subdomains |-> IF m = n THEN r ELSE None]
  /\ policies = [i \in PolicyIDs |-> IF i = p THEN A!LegacyRecord(r, s) ELSE None]
  /\ byReservation = [i \in ReservationIDs |-> IF i = r THEN p ELSE None]
  /\ D!StoreInit
  /\ issued = {r, p}

LegacyStores ==
  \E t \in TokenIDs, r \in ReservationIDs, p \in PolicyIDs, n \in Subdomains, s \in Secrets :
    LegacyStore(t, r, p, n, s)

Init ==
  /\ EmptyStores \/ LegacyStores
  /\ dns = {}
  /\ req = [q \in Requests |-> Idle]
  /\ seen = [q \in Requests |-> {}]

-------------------------------------------------------------------------------
(* The answers to the gateway's questions if all is read at one moment *)

Allowed(n, cred) ==
  LET r == byName[n] IN
  r = None \/ P!LookupByKey(r) = None \/ A!Matches(P!LookupByKey(r), cred)

Resolved(h) ==
  LET d == D!LookupByKey(h) IN
  IF d = None \/ d.status # "active" \/ ~R!Exists(d.reservation) THEN None
  ELSE reservations[d.reservation].key

\* The grant, to pass or of a subdomain, that is right; none if the answer is no.
RightNow(q) ==
  CASE req[q].at \in {"check", "upgrade", "evaluated"} -> {TRUE} \cap {Allowed(req[q].name, req[q].cred)}
    [] req[q].at \in {"resolve", "resolved"} -> {Resolved(req[q].host)} \ {None}
    [] OTHER -> {}

Watch == seen' = [q \in Requests |-> IF req'[q].at = "idle" THEN {} ELSE seen[q] \cup RightNow(q)']

-------------------------------------------------------------------------------
(* Requests.  An id is drawn when its record is stored, from those unused. *)

At(q, place) == req[q].at = place
Goto(q, r) == req' = [req EXCEPT ![q] = r]
Fresh(ids) == ids \ issued
Issue(i, created) == issued' = IF created THEN issued \cup {i} ELSE issued

\* POST /tokens and DELETE /tokens/{id} call the store once.
handleTokens(t) ==
  /\ T!CreateToken(t)
  /\ UNCHANGED <<reservationVars, policyVars, domainVars, dns, issued, req>>

handleTokenByID(t) ==
  /\ T!RevokeToken(t)
  /\ UNCHANGED <<reservationVars, policyVars, domainVars, dns, issued, req>>

\* ValidateToken finds a live token, and then marks it used.
handleValidateToken(q, t) ==
  /\ At(q, "idle") /\ T!Live(t)
  /\ Goto(q, [at |-> "validated", token |-> t])
  /\ UNCHANGED <<stores, dns, issued>>

ValidateTokenUsed(q) ==
  /\ At(q, "validated")
  /\ T!MarkUsed(req[q].token)
  /\ Goto(q, Idle)
  /\ UNCHANGED <<reservationVars, policyVars, domainVars, dns, issued>>

\* The token is looked at, and then the name is reserved for it.
handleReservedSubdomains(q, t, n) ==
  /\ At(q, "idle") /\ T!Live(t)
  /\ Goto(q, [at |-> "reserve", record |-> [key |-> n, token |-> t]])
  /\ UNCHANGED <<stores, dns, issued>>

CreateReservation(q, r) ==
  /\ At(q, "reserve")
  /\ R!Create(r, req[q].record)
  /\ Issue(r, ~R!Taken(r, req[q].record))
  /\ Goto(q, Idle)
  /\ UNCHANGED <<tokenVars, policyVars, domainVars, dns>>

\* DeleteReservation; policies and domains of the reservation stay.
handleReservedSubdomainByID(q, r) ==
  /\ At(q, "idle") /\ R!Exists(r)
  /\ Goto(q, [at |-> "unreserve", id |-> r])
  /\ UNCHANGED <<stores, dns, issued>>

DeleteReservation(q) ==
  /\ At(q, "unreserve")
  /\ R!Delete(req[q].id)
  /\ Goto(q, Idle)
  /\ UNCHANGED <<tokenVars, policyVars, domainVars, dns, issued>>

\* The reservation is looked up, and then the policy is stored.
handleAccessPolicies(q, r, mode, s) ==
  /\ At(q, "idle") /\ R!Exists(r)
  /\ A!newPolicyRecord(r, mode, s) # None
  /\ Goto(q, [at |-> "addPolicy", record |-> A!newPolicyRecord(r, mode, s)])
  /\ UNCHANGED <<stores, dns, issued>>

CreatePolicy(q, p) ==
  /\ At(q, "addPolicy")
  /\ P!Create(p, req[q].record)
  /\ Issue(p, ~P!Taken(p, req[q].record))
  /\ Goto(q, Idle)
  /\ UNCHANGED <<tokenVars, reservationVars, domainVars, dns>>

\* PUT: the new record is made from the one read, and then replaces it.
handleAccessPolicyPut(q, p, mode, s) ==
  /\ At(q, "idle") /\ P!Exists(p)
  /\ A!updatedPolicyRecord(policies[p], mode, s) # None
  /\ Goto(q, [at |-> "putPolicy", id |-> p, record |-> A!updatedPolicyRecord(policies[p], mode, s)])
  /\ UNCHANGED <<stores, dns, issued>>

UpdatePolicy(q) ==
  /\ At(q, "putPolicy")
  /\ P!Update(req[q].id, req[q].record)
  /\ Goto(q, Idle)
  /\ UNCHANGED <<tokenVars, reservationVars, domainVars, dns, issued>>

handleAccessPolicyDelete(q, p) ==
  /\ At(q, "idle") /\ P!Exists(p)
  /\ Goto(q, [at |-> "dropPolicy", id |-> p])
  /\ UNCHANGED <<stores, dns, issued>>

DeletePolicy(q) ==
  /\ At(q, "dropPolicy")
  /\ P!Delete(req[q].id)
  /\ Goto(q, Idle)
  /\ UNCHANGED <<tokenVars, reservationVars, domainVars, dns, issued>>

-------------------------------------------------------------------------------
(* Evaluation of a policy for a public request: the name's reservation,    *)
(* the reservation's policy and, if the password has an old hash, its      *)
(* replacement.                                                            *)

Evaluated(q, n, cred, allowed) ==
  Goto(q, [at |-> "evaluated", name |-> n, cred |-> cred, allowed |-> allowed])

handleEvaluateAccessPolicy(q, n, cred) ==
  /\ At(q, "idle")
  /\ IF byName[n] = None THEN Evaluated(q, n, cred, TRUE)
     ELSE Goto(q, [at |-> "check", name |-> n, cred |-> cred, reservation |-> byName[n]])
  /\ UNCHANGED <<stores, dns, issued>>

CheckPolicy(q) ==
  LET record == P!LookupByKey(req[q].reservation)
      n == req[q].name
      cred == req[q].cred
  IN
  /\ At(q, "check")
  /\ IF record = None THEN Evaluated(q, n, cred, TRUE)
     ELSE IF A!Matches(record, cred) /\ A!NeedsUpgrade(record)
     THEN Goto(q, [at |-> "upgrade", name |-> n, cred |-> cred, id |-> byReservation[req[q].reservation],
                   record |-> A!Upgraded(record, cred)])
     ELSE Evaluated(q, n, cred, A!Matches(record, cred))
  /\ UNCHANGED <<stores, dns, issued>>

\* An error of the store is ignored.
upgradeBasicAuthHash(q) ==
  /\ At(q, "upgrade")
  /\ P!Update(req[q].id, req[q].record) \/ UNCHANGED policyVars
  /\ Evaluated(q, req[q].name, req[q].cred, TRUE)
  /\ UNCHANGED <<tokenVars, reservationVars, domainVars, dns, issued>>

-------------------------------------------------------------------------------
(* Custom domains *)

handleCustomDomains(q, r, h) ==
  /\ At(q, "idle") /\ R!Exists(r)
  /\ Goto(q, [at |-> "addDomain",
              record |-> [key |-> h, reservation |-> r, status |-> "pending_verification"]])
  /\ UNCHANGED <<stores, dns, issued>>

CreateDomain(q, d) ==
  /\ At(q, "addDomain")
  /\ D!Create(d, req[q].record)
  /\ Issue(d, ~D!Taken(d, req[q].record))
  /\ Goto(q, Idle)
  /\ UNCHANGED <<tokenVars, reservationVars, policyVars, dns>>

\* The owner of the hostname publishes the token that CreateDomain returned.
\* A record that is withdrawn later is a lookup that fails.
PublishTXT(d) ==
  /\ d \in issued \ dns
  /\ dns' = dns \cup {d}
  /\ UNCHANGED <<stores, issued, req>>

\* VerifyDomain: the record is read, the resolver asked, the record replaced.
VerifyDomain(q, d) ==
  /\ At(q, "idle") /\ D!Exists(d) /\ domains[d].status # "active"
  /\ Goto(q, [at |-> "verify", id |-> d, record |-> domains[d]])
  /\ UNCHANGED <<stores, dns, issued>>

\* Mutant: the token of any domain of the hostname will do.
LookupTXTAnyToken(q, matched) ==
  /\ At(q, "verify")
  /\ matched => dns # {}
  /\ Goto(q, [at |-> "verified", id |-> req[q].id,
              record |-> [req[q].record EXCEPT
                            !.status = IF matched THEN "active" ELSE "verification_failed"]])
  /\ UNCHANGED <<stores, dns, issued>>

LookupTXT(q, matched) ==
  /\ At(q, "verify")
  /\ matched => req[q].id \in dns
  /\ Goto(q, [at |-> "verified", id |-> req[q].id,
              record |-> [req[q].record EXCEPT
                            !.status = IF matched THEN "active" ELSE "verification_failed"]])
  /\ UNCHANGED <<stores, dns, issued>>

VerifyDomainUpdate(q) ==
  /\ At(q, "verified")
  /\ D!Update(req[q].id, req[q].record)
  /\ Goto(q, Idle)
  /\ UNCHANGED <<tokenVars, reservationVars, policyVars, dns, issued>>

handleCustomDomainDelete(q, d) ==
  /\ At(q, "idle") /\ D!Exists(d)
  /\ Goto(q, [at |-> "dropDomain", id |-> d])
  /\ UNCHANGED <<stores, dns, issued>>

DeleteDomain(q) ==
  /\ At(q, "dropDomain")
  /\ D!Delete(req[q].id)
  /\ Goto(q, Idle)
  /\ UNCHANGED <<tokenVars, reservationVars, policyVars, dns, issued>>

\* Mutant: the status of the domain is not looked at.
handleLookupCustomDomainAnyStatus(q, h) ==
  LET d == D!LookupByKey(h) IN
  /\ At(q, "idle")
  /\ Goto(q, IF d = None THEN [at |-> "resolved", host |-> h, name |-> None]
             ELSE [at |-> "resolve", host |-> h, reservation |-> d.reservation])
  /\ UNCHANGED <<stores, dns, issued>>

\* lookupCustomDomain: the domain of the hostname, then its reservation.
handleLookupCustomDomain(q, h) ==
  LET d == D!LookupByKey(h) IN
  /\ At(q, "idle")
  /\ Goto(q, IF d = None \/ d.status # "active" THEN [at |-> "resolved", host |-> h, name |-> None]
             ELSE [at |-> "resolve", host |-> h, reservation |-> d.reservation])
  /\ UNCHANGED <<stores, dns, issued>>

lookupCustomDomain(q) ==
  LET r == req[q].reservation IN
  /\ At(q, "resolve")
  /\ Goto(q, [at |-> "resolved", host |-> req[q].host,
              name |-> IF R!Exists(r) THEN reservations[r].key ELSE None])
  /\ UNCHANGED <<stores, dns, issued>>

\* A call of a store or of the resolver fails, or an answer has been sent.
Return(q) ==
  /\ ~At(q, "idle")
  /\ Goto(q, Idle)
  /\ UNCHANGED <<stores, dns, issued>>

-------------------------------------------------------------------------------
TokenStep ==
  \/ \E t \in TokenIDs : handleTokens(t) \/ handleTokenByID(t)
  \/ \E q \in Requests : ValidateTokenUsed(q) \/ \E t \in TokenIDs : handleValidateToken(q, t)

ReservationStep(q) ==
  \/ \E t \in TokenIDs, n \in Subdomains : handleReservedSubdomains(q, t, n)
  \/ \E r \in Fresh(ReservationIDs) : CreateReservation(q, r)
  \/ \E r \in ReservationIDs : handleReservedSubdomainByID(q, r)
  \/ DeleteReservation(q)

PolicyStep(q) ==
  \/ \E r \in ReservationIDs, m \in Modes, s \in Secrets \cup {None} : handleAccessPolicies(q, r, m, s)
  \/ \E p \in Fresh(PolicyIDs) : CreatePolicy(q, p)
  \/ \E p \in PolicyIDs, m \in Modes \cup {None}, s \in Secrets \cup {None} :
       handleAccessPolicyPut(q, p, m, s)
  \/ UpdatePolicy(q)
  \/ \E p \in PolicyIDs : handleAccessPolicyDelete(q, p)
  \/ DeletePolicy(q)

EvaluationStep(q) ==
  \/ \E n \in Subdomains, cred \in Secrets : handleEvaluateAccessPolicy(q, n, cred)
  \/ CheckPolicy(q)
  \/ upgradeBasicAuthHash(q)

DomainStep(q) ==
  \/ \E r \in ReservationIDs, h \in Hostnames : handleCustomDomains(q, r, h)
  \/ \E d \in Fresh(DomainIDs) : CreateDomain(q, d)
  \/ \E d \in DomainIDs : VerifyDomain(q, d) \/ handleCustomDomainDelete(q, d)
  \/ \E matched \in BOOLEAN : LookupTXT(q, matched)
  \/ VerifyDomainUpdate(q)
  \/ DeleteDomain(q)
  \/ \E h \in Hostnames : handleLookupCustomDomain(q, h)
  \/ lookupCustomDomain(q)

Step ==
  \/ TokenStep
  \/ \E d \in DomainIDs : PublishTXT(d)
  \/ \E q \in Requests : ReservationStep(q) \/ PolicyStep(q) \/ EvaluationStep(q) \/ DomainStep(q)
                           \/ Return(q)

Next == Step /\ Watch

Spec == Init /\ [][Next]_vars

-------------------------------------------------------------------------------
(* Properties *)

Places ==
  [at : {"idle"}]
    \cup [at : {"validated"}, token : TokenIDs]
    \cup [at : {"reserve"}, record : ReservationRecord]
    \cup [at : {"unreserve"}, id : ReservationIDs]
    \cup [at : {"addPolicy"}, record : A!PolicyRecord]
    \cup [at : {"putPolicy"}, id : PolicyIDs, record : A!PolicyRecord]
    \cup [at : {"dropPolicy"}, id : PolicyIDs]
    \cup [at : {"check"}, name : Subdomains, cred : Secrets, reservation : ReservationIDs]
    \cup [at : {"upgrade"}, name : Subdomains, cred : Secrets, id : PolicyIDs, record : A!PolicyRecord]
    \cup [at : {"evaluated"}, name : Subdomains, cred : Secrets, allowed : BOOLEAN]
    \cup [at : {"addDomain"}, record : DomainRecord]
    \cup [at : {"verify", "verified"}, id : DomainIDs, record : DomainRecord]
    \cup [at : {"dropDomain"}, id : DomainIDs]
    \cup [at : {"resolve"}, host : Hostnames, reservation : ReservationIDs]
    \cup [at : {"resolved"}, host : Hostnames, name : Subdomains \cup {None}]

\* The variables have their types: the stores hold records of their services.
TypeOK ==
  /\ T!TokensTypeOK
  /\ reservations \in [ReservationIDs -> ReservationRecord \cup {None}]
  /\ byName \in [Subdomains -> ReservationIDs \cup {None}]
  /\ policies \in [PolicyIDs -> A!PolicyRecord \cup {None}]
  /\ byReservation \in [ReservationIDs -> PolicyIDs \cup {None}]
  /\ domains \in [DomainIDs -> DomainRecord \cup {None}]
  /\ byHostname \in [Hostnames -> DomainIDs \cup {None}]
  /\ dns \in SUBSET DomainIDs
  /\ issued \in SUBSET (ReservationIDs \cup PolicyIDs \cup DomainIDs)
  /\ req \in [Requests -> Places]
  /\ seen \in [Requests -> SUBSET (BOOLEAN \cup Subdomains)]

\* The records and the unique index of each store agree (reserved, access and
\* customdomains MemoryStore), whatever requests overtake one another: a name
\* has one reservation, a reservation one policy, a hostname one domain.
IndexesAgree == R!IndexAgrees /\ P!IndexAgrees /\ D!IndexAgrees

\* No request brings back a record that was deleted, or revives a token that was
\* revoked, after it had read it: neither an Update nor the MarkUsed of a
\* validation that had found the token live.
DeadStaysDead ==
  [][/\ \A r \in ReservationIDs : r \in issued /\ ~R!Exists(r) => ~R!Exists(r)'
     /\ \A p \in PolicyIDs : p \in issued /\ ~P!Exists(p) => ~P!Exists(p)'
     /\ \A d \in DomainIDs : d \in issued /\ ~D!Exists(d) => ~D!Exists(d)'
     /\ \A t \in TokenIDs : tokens[t] = "revoked" => tokens'[t] = "revoked"]_vars

\* evaluateAccessPolicy and lookupCustomDomain read two stores at two moments.
\* Still, a request is let through, and a hostname is sent to a subdomain, only
\* if that was right at some one moment since the question came in.
GrantsExplained ==
  \A q \in Requests :
    /\ At(q, "evaluated") /\ req[q].allowed => TRUE \in seen[q]
    /\ At(q, "resolved") /\ req[q].name # None => req[q].name \in seen[q]

\* A domain is active only if its token was published in the DNS: no stale or
\* concurrent verification activates a domain on another's proof.
ActiveWasProven == \A d \in DomainIDs : D!Exists(d) /\ domains[d].status = "active" => d \in dns

===============================================================================
