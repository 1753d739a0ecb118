------------------------------ MODULE SqlStores ------------------------------
(***************************************************************************)
(* The PostgreSQL stores of the control plane.  A table maps the ids of    *)
(* its rows to what the properties tell apart; every store method is one   *)
(* statement and so one step.  A handler reads before it writes, and what  *)
(* it read may be out of date: the ids a statement names are any that were *)
(* issued.  A statement that a constraint refuses (a name, hostname or     *)
(* reservation taken, a reservation gone) changes nothing and is no step.  *)
(***************************************************************************)
CONSTANTS TokenIDs, AdminTokenIDs, ReservationIDs, PolicyIDs, DomainIDs,
          Names, Hostnames, Modes, None

VARIABLES api_tokens, admin_tokens, reserved_subdomains, access_policies, custom_domains,
          issued  \* the ids that rows have or had

tokenTables == <<api_tokens, admin_tokens>>
nameTables == <<reserved_subdomains, access_policies, custom_domains>>
rows == <<tokenTables, nameTables, issued>>

\* revoked_at is set; a second Revoke moves the time, which nothing reads.
TokenRow == [used : BOOLEAN, revoked : BOOLEAN]
ReservationRow == [name : Names, token : TokenIDs]
PolicyRow == [reservation : ReservationIDs, mode : Modes]
DomainRow == [hostname : Hostnames, reservation : ReservationIDs,
              status : {"pending_verification", "active", "verification_failed"},
              verification_token : {"null", "legacy", "random"}, verified : BOOLEAN]

\* A missing row is told from every row.
ASSUME StoresAssumption ==
  None \notin TokenRow \cup ReservationRow \cup PolicyRow \cup DomainRow

Empty(ids) == [i \in ids |-> None]
Rows(table) == {i \in DOMAIN table : table[i] # None}
Insert(table, i, row) == [table EXCEPT ![i] = row]
Matched(table, i) == i \in Rows(table)
NewToken == [used |-> FALSE, revoked |-> FALSE]

\* An id is drawn at random, so no id is issued twice.
Issue(i) == i \notin issued /\ issued' = issued \cup {i}

EmptyTables ==
  /\ api_tokens = Empty(TokenIDs) /\ admin_tokens = Empty(AdminTokenIDs)
  /\ reserved_subdomains = Empty(ReservationIDs)
  /\ access_policies = Empty(PolicyIDs) /\ custom_domains = Empty(DomainIDs)
  /\ issued = {}

\* What a release before migration 7 leaves: a protected name with a domain,
\* active though nobody proved to own it.
LegacyTables(t, r, p, d, n, h, m) ==
  /\ api_tokens = Insert(Empty(TokenIDs), t, NewToken) /\ admin_tokens = Empty(AdminTokenIDs)
  /\ reserved_subdomains = Insert(Empty(ReservationIDs), r, [name |-> n, token |-> t])
  /\ access_policies = Insert(Empty(PolicyIDs), p, [reservation |-> r, mode |-> m])
  /\ custom_domains = Insert(Empty(DomainIDs), d,
                       [hostname |-> h, reservation |-> r, status |-> "active",
                        verification_token |-> "null", verified |-> FALSE])
  /\ issued = {t, r, p, d}

-------------------------------------------------------------------------------
(* api_tokens and admin_tokens *)

\* Mutant: a token is marked used whether or not it was revoked meanwhile.
tokensMarkUsedAlways(t) ==
  /\ Matched(api_tokens, t)
  /\ api_tokens' = [api_tokens EXCEPT ![t].used = TRUE]
  /\ UNCHANGED <<admin_tokens, nameTables, issued>>

tokensCreate(t) ==
  /\ Issue(t)
  /\ api_tokens' = Insert(api_tokens, t, NewToken)
  /\ UNCHANGED <<admin_tokens, nameTables>>

tokensMarkUsed(t) ==
  /\ Matched(api_tokens, t) /\ ~api_tokens[t].revoked
  /\ api_tokens' = [api_tokens EXCEPT ![t].used = TRUE]
  /\ UNCHANGED <<admin_tokens, nameTables, issued>>

tokensRevoke(t) ==
  /\ Matched(api_tokens, t)
  /\ api_tokens' = [api_tokens EXCEPT ![t].revoked = TRUE]
  /\ UNCHANGED <<admin_tokens, nameTables, issued>>

adminTokensCreate(t) ==
  /\ Issue(t)
  /\ admin_tokens' = Insert(admin_tokens, t, NewToken)
  /\ UNCHANGED <<api_tokens, nameTables>>

adminTokensMarkUsed(t) ==
  /\ Matched(admin_tokens, t) /\ ~admin_tokens[t].revoked
  /\ admin_tokens' = [admin_tokens EXCEPT ![t].used = TRUE]
  /\ UNCHANGED <<api_tokens, nameTables, issued>>

adminTokensRevoke(t) ==
  /\ Matched(admin_tokens, t)
  /\ admin_tokens' = [admin_tokens EXCEPT ![t].revoked = TRUE]
  /\ UNCHANGED <<api_tokens, nameTables, issued>>

-------------------------------------------------------------------------------
(* reserved_subdomains; policies and domains go with their reservation *)

Without(table, r) == [i \in DOMAIN table |->
                        IF table[i] # None /\ table[i].reservation = r THEN None ELSE table[i]]

\* Mutant: the handler does not look the token up.
reservedCreateUnchecked(r, n, t) ==
  /\ Issue(r)
  /\ \A i \in Rows(reserved_subdomains) : reserved_subdomains[i].name # n
  /\ reserved_subdomains' = Insert(reserved_subdomains, r, [name |-> n, token |-> t])
  /\ UNCHANGED <<tokenTables, access_policies, custom_domains>>

\* token_id is no foreign key: the handler has looked the token up, and it may
\* have been revoked since.
reservedCreate(r, n, t) ==
  /\ Issue(r)
  /\ Matched(api_tokens, t)
  /\ \A i \in Rows(reserved_subdomains) : reserved_subdomains[i].name # n
  /\ reserved_subdomains' = Insert(reserved_subdomains, r, [name |-> n, token |-> t])
  /\ UNCHANGED <<tokenTables, access_policies, custom_domains>>

\* Mutant: the policies of a deleted reservation are left to their own store.
reservedDeleteKeepsPolicies(r) ==
  /\ Matched(reserved_subdomains, r)
  /\ reserved_subdomains' = [reserved_subdomains EXCEPT ![r] = None]
  /\ custom_domains' = Without(custom_domains, r)
  /\ UNCHANGED <<tokenTables, access_policies, issued>>

reservedDelete(r) ==
  /\ Matched(reserved_subdomains, r)
  /\ reserved_subdomains' = [reserved_subdomains EXCEPT ![r] = None]
  /\ access_policies' = Without(access_policies, r)
  /\ custom_domains' = Without(custom_domains, r)
  /\ UNCHANGED <<tokenTables, issued>>

-------------------------------------------------------------------------------
(* access_policies and custom_domains *)

accessCreate(p, r, m) ==
  /\ Issue(p)
  /\ Matched(reserved_subdomains, r)
  /\ \A i \in Rows(access_policies) : access_policies[i].reservation # r
  /\ access_policies' = Insert(access_policies, p, [reservation |-> r, mode |-> m])
  /\ UNCHANGED <<tokenTables, reserved_subdomains, custom_domains>>

\* No row: ErrPolicyNotFound.
accessUpdate(p, m) ==
  /\ Matched(access_policies, p)
  /\ access_policies' = [access_policies EXCEPT ![p].mode = m]
  /\ UNCHANGED <<tokenTables, reserved_subdomains, custom_domains, issued>>

accessDelete(p) ==
  /\ Matched(access_policies, p)
  /\ access_policies' = [access_policies EXCEPT ![p] = None]
  /\ UNCHANGED <<tokenTables, reserved_subdomains, custom_domains, issued>>

domainsCreate(d, r, h) ==
  /\ Issue(d)
  /\ Matched(reserved_subdomains, r)
  /\ \A i \in Rows(custom_domains) : custom_domains[i].hostname # h
  /\ custom_domains' = Insert(custom_domains, d,
                       [hostname |-> h, reservation |-> r, status |-> "pending_verification",
                        verification_token |-> "random", verified |-> FALSE])
  /\ UNCHANGED <<tokenTables, reserved_subdomains, access_policies>>

\* VerifyDomain writes back a record it read when the domain was not active yet;
\* a domain with a legacy token always was.  No row: ErrDomainNotFound.
domainsUpdate(d, matched) ==
  /\ Matched(custom_domains, d) /\ custom_domains[d].verification_token = "random"
  /\ custom_domains' = [custom_domains EXCEPT
       ![d].status = IF matched THEN "active" ELSE "verification_failed", ![d].verified = matched]
  /\ UNCHANGED <<tokenTables, reserved_subdomains, access_policies, issued>>

domainsDelete(d) ==
  /\ Matched(custom_domains, d)
  /\ custom_domains' = [custom_domains EXCEPT ![d] = None]
  /\ UNCHANGED <<tokenTables, reserved_subdomains, access_policies, issued>>

Statement ==
  \/ \E t \in TokenIDs : tokensCreate(t) \/ tokensMarkUsed(t) \/ tokensRevoke(t)
  \/ \E t \in AdminTokenIDs : adminTokensCreate(t) \/ adminTokensMarkUsed(t) \/ adminTokensRevoke(t)
  \/ \E r \in ReservationIDs : reservedDelete(r) \/ \E n \in Names, t \in TokenIDs : reservedCreate(r, n, t)
  \/ \E p \in PolicyIDs :
       \/ accessDelete(p)
       \/ \E m \in Modes : accessUpdate(p, m) \/ \E r \in ReservationIDs : accessCreate(p, r, m)
  \/ \E d \in DomainIDs :
       \/ domainsDelete(d)
       \/ \E matched \in BOOLEAN : domainsUpdate(d, matched)
       \/ \E r \in ReservationIDs, h \in Hostnames : domainsCreate(d, r, h)

===============================================================================
