----------------------------- MODULE DatabaseProofs -----------------------------
(***************************************************************************)
(* The shared database, for any number of processes, crashes and rows.     *)
(* What the rows promise each other is kept by every statement by itself   *)
(* (RowInv); that an active domain was verified rests on the migrations    *)
(* too, so the invariant says what a process that has brought up n stores  *)
(* has found or made (SchemaInv), and that migration 7 has left no domain  *)
(* unverified (Verified).                                                  *)
(***************************************************************************)
EXTENDS Database, TLAPS

-------------------------------------------------------------------------------
(* The rows *)

\* Every table holds rows of its type.
TableTypes ==
  /\ api_tokens \in [TokenIDs -> TokenRow \cup {None}]
  /\ admin_tokens \in [AdminTokenIDs -> TokenRow \cup {None}]
  /\ reserved_subdomains \in [ReservationIDs -> ReservationRow \cup {None}]
  /\ access_policies \in [PolicyIDs -> PolicyRow \cup {None}]
  /\ custom_domains \in [DomainIDs -> DomainRow \cup {None}]

\* A token that is there has been issued.
TokensIssued == Rows(api_tokens) \cup Rows(admin_tokens) \subseteq issued

\* The part of RowsConsistent that is about references and unique columns.
RowsLinked ==
  /\ \A r \in Rows(reserved_subdomains) : Matched(api_tokens, reserved_subdomains[r].token)
  /\ \A p \in Rows(access_policies) : Matched(reserved_subdomains, access_policies[p].reservation)
  /\ \A d \in Rows(custom_domains) : Matched(reserved_subdomains, custom_domains[d].reservation)
  /\ \A i, j \in Rows(reserved_subdomains) :
       reserved_subdomains[i].name = reserved_subdomains[j].name => i = j
  /\ \A i, j \in Rows(access_policies) :
       access_policies[i].reservation = access_policies[j].reservation => i = j
  /\ \A i, j \in Rows(custom_domains) :
       custom_domains[i].hostname = custom_domains[j].hostname => i = j

RowInv == TableTypes /\ TokensIssued /\ RowsLinked

\* What DeadRowsStayDead says of a step.
StayDead ==
  /\ \A p \in PolicyIDs \cap issued : access_policies[p] = None => access_policies'[p] = None
  /\ \A d \in DomainIDs \cap issued : custom_domains[d] = None => custom_domains'[d] = None
  /\ \A t \in Rows(api_tokens) : api_tokens[t].revoked => api_tokens'[t] = api_tokens[t]
  /\ \A t \in Rows(admin_tokens) : admin_tokens[t].revoked => admin_tokens'[t] = admin_tokens[t]

\* No domain lacks a token, and the active ones were verified.
DomainsVerified ==
  \A d \in Rows(custom_domains) :
    /\ custom_domains[d].verification_token # "null"
    /\ custom_domains[d].status = "active" => custom_domains[d].verified

\* A statement that writes one token, of either kind, which has no row yet or one
\* that is not revoked; or that revokes it again.
TokenWritten(table, new, ids, t, fresh) ==
  /\ new \in [ids -> TokenRow \cup {None}]
  /\ Rows(table) \subseteq Rows(new) /\ Rows(new) \subseteq Rows(table) \cup fresh
  /\ \A i \in Rows(table) : table[i].revoked => new[i] = table[i]

\* Creating, using and revoking a token writes that token, and a revoked one is
\* written as it was: MarkUsed has revoked_at IS NULL in its condition.
LEMMA TokenStatement ==
  ASSUME NEW ids, NEW table \in [ids -> TokenRow \cup {None}], NEW t \in ids, NEW new
  PROVE  /\ t \notin Rows(table) /\ new = Insert(table, t, NewToken)
              => TokenWritten(table, new, ids, t, {t})
         /\ Matched(table, t) /\ ~table[t].revoked /\ new = [table EXCEPT ![t].used = TRUE]
              => TokenWritten(table, new, ids, t, {})
         /\ Matched(table, t) /\ new = [table EXCEPT ![t].revoked = TRUE]
              => TokenWritten(table, new, ids, t, {})
<1> USE StoresAssumption
<1>1. None \notin TokenRow
  OBVIOUS
<1>2. ASSUME t \notin Rows(table), new = Insert(table, t, NewToken)
      PROVE  TokenWritten(table, new, ids, t, {t})
  <2>1. NewToken \in TokenRow
    BY DEF NewToken, TokenRow
  <2>2. new = [table EXCEPT ![t] = NewToken]
    BY <1>2 DEF Insert
  <2>3. /\ new \in [ids -> TokenRow \cup {None}] /\ Rows(new) = Rows(table) \cup {t}
        /\ \A j \in ids \ {t} : new[j] = table[j]
    BY <1>1, <2>1, <2>2 DEF Rows
  <2> QED
    BY <1>2, <2>3 DEF TokenWritten, Rows
<1>3. ASSUME Matched(table, t), NEW row \in TokenRow, new = [table EXCEPT ![t] = row],
             table[t].revoked => row = table[t]
      PROVE  TokenWritten(table, new, ids, t, {})
  <2>1. /\ new \in [ids -> TokenRow \cup {None}] /\ Rows(new) = Rows(table) \cup {t}
        /\ new[t] = row /\ \A j \in ids \ {t} : new[j] = table[j]
    BY <1>1, <1>3 DEF Rows
  <2> QED
    BY <1>3, <2>1 DEF TokenWritten, Rows, Matched
<1>4. ASSUME Matched(table, t)
      PROVE  /\ table[t] \in TokenRow
             /\ [table[t] EXCEPT !.used = TRUE] \in TokenRow
             /\ [table[t] EXCEPT !.revoked = TRUE] \in TokenRow
             /\ table[t].revoked => [table[t] EXCEPT !.revoked = TRUE] = table[t]
  <2>1. table[t] \in TokenRow
    BY <1>4 DEF Matched, Rows
  <2> QED
    BY <2>1, Zenon DEF TokenRow
<1>5. ASSUME Matched(table, t), ~table[t].revoked, new = [table EXCEPT ![t].used = TRUE]
      PROVE  TokenWritten(table, new, ids, t, {})
  <2>1. new = [table EXCEPT ![t] = [table[t] EXCEPT !.used = TRUE]]
    BY <1>5
  <2> QED
    BY <1>3, <1>4, <1>5, <2>1, Zenon
<1>6. ASSUME Matched(table, t), new = [table EXCEPT ![t].revoked = TRUE]
      PROVE  TokenWritten(table, new, ids, t, {})
  <2>1. new = [table EXCEPT ![t] = [table[t] EXCEPT !.revoked = TRUE]]
    BY <1>6
  <2> QED
    BY <1>3, <1>4, <1>6, <2>1, Zenon
<1> QED
  BY <1>2, <1>5, <1>6

\* A statement on api_tokens keeps the rows consistent.
LEMMA ApiTokenStatement ==
  ASSUME RowInv, NEW t \in TokenIDs, tokensCreate(t) \/ tokensMarkUsed(t) \/ tokensRevoke(t)
  PROVE  RowInv' /\ StayDead /\ (DomainsVerified => DomainsVerified')
<1>1. /\ UNCHANGED <<admin_tokens, reserved_subdomains, access_policies, custom_domains>>
      /\ issued \subseteq issued'
  BY DEF tokensCreate, tokensMarkUsed, tokensRevoke, nameTables, Issue
<1>2. /\ api_tokens \in [TokenIDs -> TokenRow \cup {None}]
      /\ Rows(api_tokens) \subseteq issued
  BY DEF RowInv, TableTypes, TokensIssued
<1>3. \E fresh : TokenWritten(api_tokens, api_tokens', TokenIDs, t, fresh) /\ fresh \subseteq issued'
  <2>1. CASE tokensCreate(t)
    <3>1. t \notin Rows(api_tokens) /\ api_tokens' = Insert(api_tokens, t, NewToken) /\ t \in issued'
      BY <1>2, <2>1 DEF tokensCreate, Issue
    <3>2. TokenWritten(api_tokens, api_tokens', TokenIDs, t, {t})
      BY <1>2, <3>1, TokenStatement
    <3> QED
      BY <3>1, <3>2
  <2>2. CASE tokensMarkUsed(t) \/ tokensRevoke(t)
    <3>1. TokenWritten(api_tokens, api_tokens', TokenIDs, t, {})
      BY <1>2, <2>2, TokenStatement, Zenon DEF tokensMarkUsed, tokensRevoke
    <3> QED
      BY <3>1
  <2> QED
    BY <2>1, <2>2
<1>4. RowInv'
  BY <1>1, <1>2, <1>3
  DEF RowInv, TableTypes, TokensIssued, RowsLinked, Matched, Rows, TokenWritten
<1> QED
  BY <1>1, <1>3, <1>4 DEF StayDead, DomainsVerified, Rows, TokenWritten

\* So does one on admin_tokens.
LEMMA AdminTokenStatement ==
  ASSUME RowInv, NEW t \in AdminTokenIDs,
         adminTokensCreate(t) \/ adminTokensMarkUsed(t) \/ adminTokensRevoke(t)
  PROVE  RowInv' /\ StayDead /\ (DomainsVerified => DomainsVerified')
<1>1. /\ UNCHANGED <<api_tokens, reserved_subdomains, access_policies, custom_domains>>
      /\ issued \subseteq issued'
  BY DEF adminTokensCreate, adminTokensMarkUsed, adminTokensRevoke, nameTables, Issue
<1>2. /\ admin_tokens \in [AdminTokenIDs -> TokenRow \cup {None}]
      /\ Rows(admin_tokens) \subseteq issued
  BY DEF RowInv, TableTypes, TokensIssued
<1>3. \E fresh : TokenWritten(admin_tokens, admin_tokens', AdminTokenIDs, t, fresh) /\ fresh \subseteq issued'
  <2>1. CASE adminTokensCreate(t)
    <3>1. t \notin Rows(admin_tokens) /\ admin_tokens' = Insert(admin_tokens, t, NewToken) /\ t \in issued'
      BY <1>2, <2>1 DEF adminTokensCreate, Issue
    <3>2. TokenWritten(admin_tokens, admin_tokens', AdminTokenIDs, t, {t})
      BY <1>2, <3>1, TokenStatement
    <3> QED
      BY <3>1, <3>2
  <2>2. CASE adminTokensMarkUsed(t) \/ adminTokensRevoke(t)
    <3>1. TokenWritten(admin_tokens, admin_tokens', AdminTokenIDs, t, {})
      BY <1>2, <2>2, TokenStatement, Zenon DEF adminTokensMarkUsed, adminTokensRevoke
    <3> QED
      BY <3>1
  <2> QED
    BY <2>1, <2>2
<1>4. RowInv'
  BY <1>1, <1>2, <1>3
  DEF RowInv, TableTypes, TokensIssued, RowsLinked, Matched, Rows, TokenWritten
<1> QED
  BY <1>1, <1>3, <1>4 DEF StayDead, DomainsVerified, Rows, TokenWritten

\* A new reservation has a name of its own and a token, and those that are there
\* stay.
LEMMA ReservationCreated ==
  ASSUME RowInv, NEW r \in ReservationIDs, NEW n \in Names, NEW t \in TokenIDs,
         reservedCreate(r, n, t)
  PROVE  RowInv' /\ StayDead /\ (DomainsVerified => DomainsVerified')
<1> DEFINE row == [name |-> n, token |-> t]
<1>1. /\ UNCHANGED <<api_tokens, admin_tokens, access_policies, custom_domains>>
      /\ issued \subseteq issued'
  BY DEF reservedCreate, Issue, tokenTables
<1>2. /\ reserved_subdomains \in [ReservationIDs -> ReservationRow \cup {None}]
      /\ reserved_subdomains' = [reserved_subdomains EXCEPT ![r] = row]
      /\ \A i \in Rows(reserved_subdomains) : reserved_subdomains[i].name # row.name
      /\ row \in ReservationRow /\ row # None /\ Matched(api_tokens, row.token)
  BY StoresAssumption DEF RowInv, TableTypes, reservedCreate, Insert, ReservationRow
<1> HIDE DEF row
<1>3. /\ reserved_subdomains' \in [ReservationIDs -> ReservationRow \cup {None}]
      /\ Rows(reserved_subdomains) \subseteq Rows(reserved_subdomains')
      /\ \A i, j \in Rows(reserved_subdomains') :
           reserved_subdomains'[i].name = reserved_subdomains'[j].name => i = j
      /\ \A i \in Rows(reserved_subdomains') : Matched(api_tokens, reserved_subdomains'[i].token)
  BY <1>2 DEF Rows, RowInv, RowsLinked
<1>4. RowInv'
  BY <1>1, <1>3 DEF RowInv, TableTypes, TokensIssued, RowsLinked, Matched, Rows
<1> QED
  BY <1>1, <1>4 DEF StayDead, DomainsVerified, Rows

\* ON DELETE CASCADE: policies and domains go with their reservation.
LEMMA ReservationDeleted ==
  ASSUME RowInv, NEW r \in ReservationIDs, reservedDelete(r)
  PROVE  RowInv' /\ StayDead /\ (DomainsVerified => DomainsVerified')
<1>1. /\ UNCHANGED <<api_tokens, admin_tokens, issued>>
      /\ reserved_subdomains' = [reserved_subdomains EXCEPT ![r] = None]
      /\ access_policies' = Without(access_policies, r)
      /\ custom_domains' = Without(custom_domains, r)
  BY DEF reservedDelete, tokenTables
<1>2. /\ reserved_subdomains \in [ReservationIDs -> ReservationRow \cup {None}]
      /\ access_policies \in [PolicyIDs -> PolicyRow \cup {None}]
      /\ custom_domains \in [DomainIDs -> DomainRow \cup {None}]
  BY DEF RowInv, TableTypes
<1>3. /\ reserved_subdomains' \in [ReservationIDs -> ReservationRow \cup {None}]
      /\ Rows(reserved_subdomains') = Rows(reserved_subdomains) \ {r}
      /\ \A i \in Rows(reserved_subdomains') : reserved_subdomains'[i] = reserved_subdomains[i]
  BY <1>1, <1>2 DEF Rows
<1>4. /\ access_policies' \in [PolicyIDs -> PolicyRow \cup {None}]
      /\ Rows(access_policies') = {i \in Rows(access_policies) : access_policies[i].reservation # r}
      /\ \A i \in Rows(access_policies') : access_policies'[i] = access_policies[i]
      /\ \A i \in PolicyIDs : access_policies[i] = None => access_policies'[i] = None
  BY <1>1, <1>2 DEF Without, Rows
<1>5. /\ custom_domains' \in [DomainIDs -> DomainRow \cup {None}]
      /\ Rows(custom_domains') = {i \in Rows(custom_domains) : custom_domains[i].reservation # r}
      /\ \A i \in Rows(custom_domains') : custom_domains'[i] = custom_domains[i]
      /\ \A i \in DomainIDs : custom_domains[i] = None => custom_domains'[i] = None
  BY <1>1, <1>2 DEF Without, Rows
<1>6. TableTypes' /\ TokensIssued'
  BY <1>1, <1>3, <1>4, <1>5 DEF RowInv, TableTypes, TokensIssued, Rows
<1>7. RowsLinked'
  <2>1. \A i \in Rows(access_policies') : Matched(reserved_subdomains', access_policies'[i].reservation)
    BY <1>3, <1>4 DEF RowInv, RowsLinked, Matched
  <2>2. \A i \in Rows(custom_domains') : Matched(reserved_subdomains', custom_domains'[i].reservation)
    BY <1>3, <1>5 DEF RowInv, RowsLinked, Matched
  <2>3. /\ \A i \in Rows(reserved_subdomains') :
             Matched(api_tokens', reserved_subdomains'[i].token)
        /\ \A i, j \in Rows(reserved_subdomains') :
             reserved_subdomains'[i].name = reserved_subdomains'[j].name => i = j
        /\ \A i, j \in Rows(access_policies') :
             access_policies'[i].reservation = access_policies'[j].reservation => i = j
        /\ \A i, j \in Rows(custom_domains') :
             custom_domains'[i].hostname = custom_domains'[j].hostname => i = j
    BY <1>1, <1>3, <1>4, <1>5 DEF RowInv, RowsLinked, Matched, Rows
  <2> QED
    BY <2>1, <2>2, <2>3 DEF RowsLinked, Matched, Rows
<1>8. StayDead
  BY <1>1, <1>4, <1>5 DEF StayDead, Rows
<1>9. DomainsVerified => DomainsVerified'
  BY <1>5 DEF DomainsVerified, Rows
<1> QED
  BY <1>6, <1>7, <1>8, <1>9 DEF RowInv

\* A policy is written, for the one reservation it was made for, or deleted.
PolicyWritten(p) ==
  \/ \E row \in PolicyRow :
       /\ access_policies' = [access_policies EXCEPT ![p] = row]
       /\ Matched(reserved_subdomains, row.reservation)
       /\ \A i \in Rows(access_policies) \ {p} : access_policies[i].reservation # row.reservation
       /\ p \in issued => access_policies[p] # None
  \/ access_policies' = [access_policies EXCEPT ![p] = None]

\* What the statements on access_policies write.
LEMMA PolicyStatement ==
  ASSUME RowInv, NEW p \in PolicyIDs,
         \/ accessDelete(p)
         \/ \E m \in Modes : accessUpdate(p, m) \/ \E r \in ReservationIDs : accessCreate(p, r, m)
  PROVE  PolicyWritten(p)
<1>1. CASE accessDelete(p)
  BY <1>1 DEF accessDelete, PolicyWritten
<1>2. ASSUME NEW m \in Modes, accessUpdate(p, m) PROVE PolicyWritten(p)
  <2> DEFINE row == [access_policies[p] EXCEPT !.mode = m]
  <2>1. p \in Rows(access_policies) /\ access_policies[p] \in PolicyRow
    BY <1>2 DEF accessUpdate, Matched, Rows, RowInv, TableTypes
  <2>2. row \in PolicyRow /\ row.reservation = access_policies[p].reservation
    BY <2>1 DEF PolicyRow
  <2>3. /\ Matched(reserved_subdomains, row.reservation)
        /\ \A i \in Rows(access_policies) \ {p} : access_policies[i].reservation # row.reservation
    BY <2>1, <2>2 DEF RowInv, RowsLinked
  <2>4. access_policies' = [access_policies EXCEPT ![p] = row]
    BY <1>2 DEF accessUpdate
  <2>5. access_policies[p] # None
    BY <2>1 DEF Rows
  <2> HIDE DEF row
  <2> QED
    BY <2>2, <2>3, <2>4, <2>5, Zenon DEF PolicyWritten
<1>3. ASSUME NEW m \in Modes, NEW r \in ReservationIDs, accessCreate(p, r, m) PROVE PolicyWritten(p)
  <2> DEFINE row == [reservation |-> r, mode |-> m]
  <2>1. row \in PolicyRow /\ row.reservation = r
    BY DEF PolicyRow
  <2>2. /\ Matched(reserved_subdomains, r) /\ p \notin issued
        /\ \A i \in Rows(access_policies) : access_policies[i].reservation # r
        /\ access_policies' = [access_policies EXCEPT ![p] = row]
    BY <1>3 DEF accessCreate, Issue, Insert
  <2> HIDE DEF row
  <2> QED
    BY <2>1, <2>2, Zenon DEF PolicyWritten
<1> QED
  BY <1>1, <1>2, <1>3

\* A statement on access_policies keeps the rows consistent: one policy for a
\* reservation, which is there, and none for a deleted id.
LEMMA PolicyStatementKeeps ==
  ASSUME RowInv, NEW p \in PolicyIDs,
         \/ accessDelete(p)
         \/ \E m \in Modes : accessUpdate(p, m) \/ \E r \in ReservationIDs : accessCreate(p, r, m)
  PROVE  RowInv' /\ StayDead /\ (DomainsVerified => DomainsVerified')
<1>1. /\ UNCHANGED <<api_tokens, admin_tokens, reserved_subdomains, custom_domains>>
      /\ issued \subseteq issued'
  BY Zenon DEF accessDelete, accessUpdate, accessCreate, tokenTables, Issue
<1>2. access_policies \in [PolicyIDs -> PolicyRow \cup {None}] /\ None \notin PolicyRow
  BY StoresAssumption DEF RowInv, TableTypes
<1>3. /\ access_policies' \in [PolicyIDs -> PolicyRow \cup {None}]
      /\ \A i \in Rows(access_policies') : Matched(reserved_subdomains, access_policies'[i].reservation)
      /\ \A i, j \in Rows(access_policies') :
           access_policies'[i].reservation = access_policies'[j].reservation => i = j
      /\ \A i \in PolicyIDs \cap issued : access_policies[i] = None => access_policies'[i] = None
  <2>1. ASSUME NEW row \in PolicyRow,
               access_policies' = [access_policies EXCEPT ![p] = row],
               Matched(reserved_subdomains, row.reservation),
               \A i \in Rows(access_policies) \ {p} : access_policies[i].reservation # row.reservation,
               p \in issued => access_policies[p] # None
        PROVE  <1>3!:
    <3>1. /\ access_policies' \in [PolicyIDs -> PolicyRow \cup {None}]
          /\ access_policies'[p] = row
          /\ \A i \in PolicyIDs \ {p} : access_policies'[i] = access_policies[i]
          /\ Rows(access_policies') = Rows(access_policies) \cup {p}
      BY <1>2, <2>1 DEF Rows
    <3>2. \A i \in Rows(access_policies') \ {p} :
             /\ i \in Rows(access_policies) /\ access_policies'[i] = access_policies[i]
      BY <3>1 DEF Rows
    <3>3. \A i \in Rows(access_policies') :
             Matched(reserved_subdomains, access_policies'[i].reservation)
      BY <2>1, <3>1, <3>2 DEF RowInv, RowsLinked
    <3>4. \A i, j \in Rows(access_policies') :
             access_policies'[i].reservation = access_policies'[j].reservation => i = j
      BY <2>1, <3>1, <3>2 DEF RowInv, RowsLinked
    <3>5. \A i \in PolicyIDs \cap issued : access_policies[i] = None => access_policies'[i] = None
      BY <2>1, <3>1
    <3> QED
      BY <3>1, <3>3, <3>4, <3>5
  <2>2. CASE access_policies' = [access_policies EXCEPT ![p] = None]
    <3>1. /\ access_policies' \in [PolicyIDs -> PolicyRow \cup {None}]
          /\ \A i \in Rows(access_policies') :
               i \in Rows(access_policies) /\ access_policies'[i] = access_policies[i]
      BY <1>2, <2>2 DEF Rows
    <3>2. \A i \in PolicyIDs : access_policies[i] = None => access_policies'[i] = None
      BY <1>2, <2>2
    <3> QED
      BY <3>1, <3>2 DEF RowInv, RowsLinked
  <2> QED
    BY <2>1, <2>2, PolicyStatement DEF PolicyWritten
<1>4. RowInv'
  BY <1>1, <1>3 DEF RowInv, TableTypes, TokensIssued, RowsLinked, Matched, Rows
<1> QED
  BY <1>1, <1>3, <1>4 DEF StayDead, DomainsVerified, Rows

\* A domain is written, with its hostname and reservation and no active status
\* that was not verified, or deleted.
DomainWritten(d) ==
  \/ \E row \in DomainRow :
       /\ custom_domains' = [custom_domains EXCEPT ![d] = row]
       /\ Matched(reserved_subdomains, row.reservation)
       /\ \A i \in Rows(custom_domains) \ {d} : custom_domains[i].hostname # row.hostname
       /\ d \in issued => custom_domains[d] # None
       /\ row.verification_token # "null" /\ (row.status = "active" => row.verified)
  \/ custom_domains' = [custom_domains EXCEPT ![d] = None]

\* What the statements on custom_domains write.
LEMMA DomainStatement ==
  ASSUME RowInv, NEW d \in DomainIDs,
         \/ domainsDelete(d)
         \/ \E matched \in BOOLEAN : domainsUpdate(d, matched)
         \/ \E r \in ReservationIDs, h \in Hostnames : domainsCreate(d, r, h)
  PROVE  DomainWritten(d)
<1>1. CASE domainsDelete(d)
  BY <1>1 DEF domainsDelete, DomainWritten
<1>2. ASSUME NEW matched \in BOOLEAN, domainsUpdate(d, matched) PROVE DomainWritten(d)
  <2> DEFINE status == IF matched THEN "active" ELSE "verification_failed"
             row == [custom_domains[d] EXCEPT !.status = status, !.verified = matched]
  <2>1. /\ d \in Rows(custom_domains) /\ custom_domains[d] \in DomainRow
        /\ custom_domains[d].verification_token = "random"
    BY <1>2, Zenon DEF domainsUpdate, Matched, Rows, RowInv, TableTypes
  <2>2. /\ row \in DomainRow
        /\ row.reservation = custom_domains[d].reservation
        /\ row.hostname = custom_domains[d].hostname
        /\ row.verification_token = "random" /\ row.status = status /\ row.verified = matched
    BY <2>1, Zenon DEF DomainRow
  <2>3. /\ Matched(reserved_subdomains, row.reservation)
        /\ \A i \in Rows(custom_domains) \ {d} : custom_domains[i].hostname # row.hostname
    BY <2>1, <2>2 DEF RowInv, RowsLinked
  <2>4. custom_domains' = [custom_domains EXCEPT ![d] = row]
    BY <1>2, <2>1, Zenon DEF domainsUpdate, RowInv, TableTypes, DomainRow
  <2>5. custom_domains[d] # None
    BY <2>1 DEF Rows
  <2>6. row.verification_token # "null" /\ (row.status = "active" => row.verified)
    BY <2>2
  <2> HIDE DEF row
  <2> QED
    BY <2>2, <2>3, <2>4, <2>5, <2>6, Zenon DEF DomainWritten
<1>3. ASSUME NEW r \in ReservationIDs, NEW h \in Hostnames, domainsCreate(d, r, h)
      PROVE  DomainWritten(d)
  <2> DEFINE row == [hostname |-> h, reservation |-> r, status |-> "pending_verification",
                     verification_token |-> "random", verified |-> FALSE]
  <2>1. /\ row \in DomainRow /\ row.reservation = r /\ row.hostname = h
        /\ row.verification_token # "null" /\ row.status # "active"
    BY DEF DomainRow
  <2>2. /\ Matched(reserved_subdomains, r) /\ d \notin issued
        /\ \A i \in Rows(custom_domains) : custom_domains[i].hostname # h
        /\ custom_domains' = [custom_domains EXCEPT ![d] = row]
    BY <1>3 DEF domainsCreate, Issue, Insert
  <2> HIDE DEF row
  <2> QED
    BY <2>1, <2>2, Zenon DEF DomainWritten
<1> QED
  BY <1>1, <1>2, <1>3

\* A statement on custom_domains keeps the rows consistent, and no verdict of
\* VerifyDomain leaves an active domain unverified.
LEMMA DomainStatementKeeps ==
  ASSUME RowInv, NEW d \in DomainIDs,
         \/ domainsDelete(d)
         \/ \E matched \in BOOLEAN : domainsUpdate(d, matched)
         \/ \E r \in ReservationIDs, h \in Hostnames : domainsCreate(d, r, h)
  PROVE  RowInv' /\ StayDead /\ (DomainsVerified => DomainsVerified')
<1>1. /\ UNCHANGED <<api_tokens, admin_tokens, reserved_subdomains, access_policies>>
      /\ issued \subseteq issued'
  BY Zenon DEF domainsDelete, domainsUpdate, domainsCreate, tokenTables, Issue
<1>2. custom_domains \in [DomainIDs -> DomainRow \cup {None}] /\ None \notin DomainRow
  BY StoresAssumption DEF RowInv, TableTypes
<1>3. /\ custom_domains' \in [DomainIDs -> DomainRow \cup {None}]
      /\ \A i \in Rows(custom_domains') : Matched(reserved_subdomains, custom_domains'[i].reservation)
      /\ \A i, j \in Rows(custom_domains') :
           custom_domains'[i].hostname = custom_domains'[j].hostname => i = j
      /\ \A i \in DomainIDs \cap issued : custom_domains[i] = None => custom_domains'[i] = None
      /\ DomainsVerified => DomainsVerified'
  <2>1. ASSUME NEW row \in DomainRow,
               custom_domains' = [custom_domains EXCEPT ![d] = row],
               Matched(reserved_subdomains, row.reservation),
               \A i \in Rows(custom_domains) \ {d} : custom_domains[i].hostname # row.hostname,
               d \in issued => custom_domains[d] # None,
               row.verification_token # "null" /\ (row.status = "active" => row.verified)
        PROVE  <1>3!:
    <3>1. /\ custom_domains' \in [DomainIDs -> DomainRow \cup {None}]
          /\ custom_domains'[d] = row
          /\ \A i \in DomainIDs \ {d} : custom_domains'[i] = custom_domains[i]
          /\ Rows(custom_domains') = Rows(custom_domains) \cup {d}
      BY <1>2, <2>1 DEF Rows
    <3>2. \A i \in Rows(custom_domains') \ {d} :
             /\ i \in Rows(custom_domains) /\ custom_domains'[i] = custom_domains[i]
      BY <3>1 DEF Rows
    <3>3. \A i \in Rows(custom_domains') :
             Matched(reserved_subdomains, custom_domains'[i].reservation)
      BY <2>1, <3>1, <3>2, ZenonT(30) DEF RowInv, RowsLinked
    <3>4. \A i, j \in Rows(custom_domains') :
             custom_domains'[i].hostname = custom_domains'[j].hostname => i = j
      BY <2>1, <3>1, <3>2 DEF RowInv, RowsLinked
    <3>5. \A i \in DomainIDs \cap issued : custom_domains[i] = None => custom_domains'[i] = None
      BY <2>1, <3>1
    <3>6. DomainsVerified => DomainsVerified'
      <4> SUFFICES ASSUME DomainsVerified, NEW i \in Rows(custom_domains')
                   PROVE  /\ custom_domains'[i].verification_token # "null"
                          /\ custom_domains'[i].status = "active" => custom_domains'[i].verified
        BY DEF DomainsVerified, Rows
      <4>1. CASE i = d
        BY <2>1, <3>1, <4>1
      <4>2. CASE i # d
        BY <3>2, <4>2, ZenonT(30) DEF DomainsVerified
      <4> QED
        BY <4>1, <4>2
    <3> QED
      BY <3>1, <3>3, <3>4, <3>5, <3>6
  <2>2. CASE custom_domains' = [custom_domains EXCEPT ![d] = None]
    <3>1. /\ custom_domains' \in [DomainIDs -> DomainRow \cup {None}]
          /\ \A i \in Rows(custom_domains') :
               i \in Rows(custom_domains) /\ custom_domains'[i] = custom_domains[i]
      BY <1>2, <2>2 DEF Rows
    <3>2. \A i \in DomainIDs : custom_domains[i] = None => custom_domains'[i] = None
      BY <1>2, <2>2
    <3>3. DomainsVerified => DomainsVerified'
      BY <3>1, ZenonT(30) DEF DomainsVerified, Rows
    <3> QED
      BY <3>1, <3>2, <3>3 DEF RowInv, RowsLinked
  <2> QED
    BY <2>1, <2>2, DomainStatement DEF DomainWritten
<1>4. RowInv'
  BY <1>1, <1>3 DEF RowInv, TableTypes, TokensIssued, RowsLinked, Matched, Rows
<1> QED
  BY <1>1, <1>3, <1>4 DEF StayDead, Rows

\* Every statement of a store keeps the rows consistent and the dead rows dead,
\* whatever the process that sends it has read before.
LEMMA StatementKeeps ==
  ASSUME RowInv, Statement
  PROVE  RowInv' /\ StayDead /\ (DomainsVerified => DomainsVerified')
BY ApiTokenStatement, AdminTokenStatement, ReservationCreated, ReservationDeleted,
   PolicyStatementKeeps, DomainStatementKeeps DEF Statement

-------------------------------------------------------------------------------
(* The schema *)

\* What has taken effect once a control plane has brought up n stores, and once a
\* gateway has.
StoresUp(n) ==
  /\ n >= 1 => {0} \cup tokensMigrations \subseteq objects
  /\ n >= 2 => reservedMigrations \subseteq objects
  /\ n >= 3 => accessMigrations \subseteq objects
  /\ n >= 4 => domainsMigrations \subseteq objects
  /\ n >= 5 => auditMigrations \subseteq objects
  /\ n >= 6 => adminTokensMigrations \subseteq objects

RequestLogUp(n) == n >= 1 => {0} \cup requestLogMigrations \subseteq objects

\* A transaction has seen versions that took effect, and has created the table of
\* versions if it was not there.
TxInv(t) ==
  /\ t = [seen |-> t.seen, ran |-> t.ran]
  /\ t.seen \subseteq objects
  /\ 0 \in objects \cup t.ran

\* A process never counts a store as up whose versions have not taken effect.
SchemaInv ==
  /\ recorded \subseteq objects
  /\ store \in [Processes -> Int \cup {None}]
  /\ DOMAIN tx = Processes /\ tx = [p \in Processes |-> tx[p]]
  /\ \A p \in Processes : tx[p] = None \/ TxInv(tx[p])
  /\ \A p \in ControlPlanes : store[p] # None => StoresUp(store[p])
  /\ \A p \in Gateways : store[p] # None => RequestLogUp(store[p])

\* Once migration 7 has taken effect no domain is unverified.
Verified == 7 \in objects => DomainsVerified

DatabaseInv == RowInv /\ SchemaInv /\ Verified

\* Every database the processes may find satisfies the invariant.
LEMMA DatabaseInit == Init => DatabaseInv
<1> SUFFICES ASSUME Init PROVE DatabaseInv
  OBVIOUS
<1>1. RowInv /\ Verified
  <2>1. CASE EmptyTables
    <3>1. /\ Rows(api_tokens) = {} /\ Rows(admin_tokens) = {} /\ Rows(reserved_subdomains) = {}
          /\ Rows(access_policies) = {} /\ Rows(custom_domains) = {}
      BY <2>1 DEF EmptyTables, Empty, Rows
    <3>2. TableTypes
      BY <2>1 DEF EmptyTables, Empty, TableTypes
    <3> QED
      BY <3>1, <3>2 DEF RowInv, TokensIssued, RowsLinked, Verified, DomainsVerified
  <2>2. ASSUME recorded = 1..6,
               LegacyTables(Some(TokenIDs), Some(ReservationIDs), Some(PolicyIDs),
                            Some(DomainIDs), Some(Names), Some(Hostnames), Some(Modes))
        PROVE  RowInv /\ Verified
    <3>1. PICK t \in TokenIDs, r \in ReservationIDs, p \in PolicyIDs, d \in DomainIDs,
               n \in Names, h \in Hostnames, m \in Modes : LegacyTables(t, r, p, d, n, h, m)
      <4>1. \A S : S # {} => Some(S) \in S
        BY DEF Some
      <4>2. /\ Some(ReservationIDs) \in ReservationIDs /\ Some(PolicyIDs) \in PolicyIDs
            /\ Some(DomainIDs) \in DomainIDs /\ Some(Names) \in Names
            /\ Some(Hostnames) \in Hostnames /\ Some(Modes) \in Modes
            /\ Some(TokenIDs) \in TokenIDs
        BY <4>1, DatabaseAssumption
      <4> QED
        BY <2>2, <4>2
    <3> DEFINE reservation == [name |-> n, token |-> t]
               policy == [reservation |-> r, mode |-> m]
               domain == [hostname |-> h, reservation |-> r, status |-> "active",
                          verification_token |-> "null", verified |-> FALSE]
    <3>2. /\ policy \in PolicyRow /\ policy.reservation = r
          /\ domain \in DomainRow /\ domain.reservation = r
          /\ reservation \in ReservationRow /\ reservation.token = t
          /\ NewToken \in TokenRow
      BY DEF PolicyRow, DomainRow, ReservationRow, NewToken, TokenRow
    <3>3. None \notin TokenRow \cup ReservationRow \cup PolicyRow \cup DomainRow
      BY StoresAssumption
    <3> HIDE DEF reservation, policy, domain
    <3>4. /\ reserved_subdomains = [i \in ReservationIDs |-> IF i = r THEN reservation ELSE None]
          /\ access_policies = [i \in PolicyIDs |-> IF i = p THEN policy ELSE None]
          /\ custom_domains = [i \in DomainIDs |-> IF i = d THEN domain ELSE None]
          /\ api_tokens = [i \in TokenIDs |-> IF i = t THEN NewToken ELSE None]
          /\ admin_tokens = [i \in AdminTokenIDs |-> None] /\ t \in issued
      BY <3>1, Zenon DEF LegacyTables, Insert, Empty, reservation, policy, domain
    <3>5. /\ Rows(reserved_subdomains) = {r} /\ Rows(access_policies) = {p}
          /\ Rows(custom_domains) = {d} /\ Rows(api_tokens) = {t} /\ Rows(admin_tokens) = {}
      BY <3>2, <3>3, <3>4 DEF Rows
    <3>6. TableTypes
      BY <3>2, <3>4 DEF TableTypes
    <3>7. 7 \notin objects
      BY <2>2 DEF Init
    <3> QED
      BY <3>2, <3>4, <3>5, <3>6, <3>7 DEF RowInv, TokensIssued, RowsLinked, Matched, Verified
  <2> QED
    BY <2>1, <2>2 DEF Init
<1>2. recorded \subseteq objects
  BY DEF Init
<1>3. /\ store \in [Processes -> {None, Absent}]
      /\ tx = [p \in Processes |-> None]
  BY DEF Init
<1>4. \A p \in Processes : store[p] # None => store[p] = -1
  BY <1>3 DEF Absent
<1>5. StoresUp(-1) /\ RequestLogUp(-1)
  BY DEF StoresUp, RequestLogUp
<1>6. SchemaInv
  BY <1>2, <1>3, <1>4, <1>5 DEF SchemaInv, Absent, Processes
<1> QED
  BY <1>1, <1>6 DEF DatabaseInv

\* What takes effect stays, every process keeps its count of stores or ends, and p
\* may count one more once the given versions have taken effect.
Progress(p, versions) ==
  /\ objects \subseteq objects' /\ recorded' \subseteq objects'
  /\ store' \in [Processes -> Int \cup {None}]
  /\ DOMAIN tx' = Processes /\ tx' = [q \in Processes |-> tx'[q]]
  /\ \A q \in Processes : tx'[q] = None \/ TxInv(tx[q])' 
  /\ \A q \in Processes : \/ store'[q] \in {store[q], None}
                          \/ /\ q = p /\ store'[q] = store[q] + 1
                             /\ {0} \cup versions \subseteq objects'

\* A transaction of a store's Migrate is all there is to its versions: the store
\* counts as up only if they were seen when it began, or ran in it.
LEMMA MigrateStep ==
  ASSUME SchemaInv, NEW p \in Processes, store[p] \in Int, NEW migrations, NEW columns,
         Migrate(p, migrations, columns)
  PROVE  Progress(p, migrations)
<1> USE DEF SchemaInv
<1>1. CASE BeginTx(p, migrations, columns)
  <2>1. UNCHANGED <<recorded, objects>>
    BY <1>1 DEF BeginTx, schema
  <2>2. CASE 0 \in objects /\ migrations \subseteq recorded
    <3>1. /\ store' = [store EXCEPT ![p] = verifySchema(store[p], columns, objects)]
          /\ tx' = tx
      BY <1>1, <2>2, Zenon DEF BeginTx
    <3>2. verifySchema(store[p], columns, objects) \in {store[p] + 1, None}
      BY DEF verifySchema
    <3> QED
      BY <2>1, <2>2, <3>1, <3>2 DEF Progress, TxInv
  <2>3. CASE ~(0 \in objects /\ migrations \subseteq recorded)
    <3>1. /\ tx' = [tx EXCEPT ![p] = [seen |-> recorded, ran |-> {0} \ objects]]
          /\ store' = store
      BY <1>1, <2>3 DEF BeginTx
    <3>2. TxInv(tx[p])'
      BY <2>1, <3>1, Zenon DEF TxInv
    <3>3. \A q \in Processes \ {p} : tx'[q] = None \/ TxInv(tx[q])'
      BY <2>1, <3>1 DEF TxInv
    <3> QED
      BY <2>1, <3>1, <3>2, <3>3, Zenon DEF Progress
  <2> QED
    BY <2>2, <2>3
<1>2. CASE ExecMigration(p, migrations)
  <2>1. UNCHANGED <<recorded, objects>>
    BY <1>2 DEF ExecMigration, schema
  <2>2. CASE Stop({p})
    <3>1. /\ store' = [q \in Processes |-> IF q \in {p} THEN None ELSE store[q]]
          /\ tx' = [q \in Processes |-> IF q \in {p} THEN None ELSE tx[q]]
      BY <2>2 DEF Stop
    <3> QED
      BY <2>1, <3>1 DEF Progress, TxInv
  <2>3. ASSUME NEW v, tx' = [tx EXCEPT ![p].ran = @ \cup {v}], UNCHANGED store, tx[p] # None
        PROVE  Progress(p, migrations)
    <3>1. TxInv(tx[p])
      BY <2>3
    <3>2. tx'[p] = [seen |-> tx[p].seen, ran |-> tx[p].ran \cup {v}]
      BY <2>3, <3>1, Zenon DEF TxInv
    <3>3. TxInv(tx[p])'
      BY <2>1, <3>1, <3>2 DEF TxInv
    <3>4. \A q \in Processes \ {p} : tx'[q] = None \/ TxInv(tx[q])'
      BY <2>1, <2>3 DEF TxInv
    <3> QED
      BY <2>1, <2>3, <3>3, <3>4, SMTT(30) DEF Progress
  <2> QED
    BY <1>2, <2>2, <2>3 DEF ExecMigration
<1>3. CASE Commit(p, migrations, columns)
  <2>1. /\ tx[p] # None /\ Pending(p, migrations) = {}
        /\ recorded' = recorded \cup (tx[p].ran \ {0})
        /\ objects' = tx[p].ran \cup objects
        /\ tx' = [tx EXCEPT ![p] = None]
    BY <1>3 DEF Commit
  <2>2. PICK lost :
          store' = [q \in Processes |-> CASE q \in lost -> None
                                          [] q = p -> verifySchema(store[p], columns, objects')
                                          [] OTHER -> store[q]]
    BY <1>3 DEF Commit
  <2>3. TxInv(tx[p])
    BY <2>1
  <2>4. {0} \cup migrations \subseteq objects' /\ recorded' \subseteq objects'
    BY <2>1, <2>3 DEF TxInv, Pending
  <2>5. verifySchema(store[p], columns, objects') \in {store[p] + 1, None}
    BY DEF verifySchema
  <2>6. \A q \in Processes : store'[q] \in {store[q], None, verifySchema(store[p], columns, objects')}
    BY <2>2
  <2>7. \A q \in Processes \ {p} : store'[q] \in {store[q], None}
    BY <2>2
  <2>8. store'[p] \in {None, verifySchema(store[p], columns, objects')}
    BY <2>2
  <2>9. DOMAIN store' = Processes /\ store' = [q \in Processes |-> store'[q]]
    BY <2>2
  <2>10. \A q \in Processes : tx'[q] = None \/ TxInv(tx[q])'
    BY <2>1 DEF TxInv
  <2>11. store' \in [Processes -> Int \cup {None}]
    BY <2>5, <2>7, <2>8, <2>9
  <2> QED
    BY <2>1, <2>4, <2>5, <2>7, <2>8, <2>10, <2>11 DEF Progress
<1> QED
  BY <1>1, <1>2, <1>3 DEF Migrate

\* A step that brings up a control plane's next store keeps the schema in order.
LEMMA ControlPlaneUp ==
  ASSUME SchemaInv, NEW p \in ControlPlanes, stores(p)
  PROVE  SchemaInv'
<1> DEFINE versions == << tokensMigrations, reservedMigrations, accessMigrations,
                          domainsMigrations, auditMigrations, adminTokensMigrations >>
<1>1. PICK n \in 0..5 : store[p] = n /\ Progress(p, versions[n + 1])
  <2>1. p \in Processes
    BY DEF Processes
  <2>2. CASE store[p] = 0 /\ tokensMigrate(p)
    BY <2>1, <2>2, MigrateStep DEF tokensMigrate
  <2>3. CASE store[p] = 1 /\ reservedMigrate(p)
    BY <2>1, <2>3, MigrateStep DEF reservedMigrate
  <2>4. CASE store[p] = 2 /\ accessMigrate(p)
    BY <2>1, <2>4, MigrateStep DEF accessMigrate
  <2>5. CASE store[p] = 3 /\ domainsMigrate(p)
    BY <2>1, <2>5, MigrateStep DEF domainsMigrate
  <2>6. CASE store[p] = 4 /\ auditMigrate(p)
    BY <2>1, <2>6, MigrateStep DEF auditMigrate
  <2>7. CASE store[p] = 5 /\ adminTokensMigrate(p)
    BY <2>1, <2>7, MigrateStep DEF adminTokensMigrate
  <2> QED
    BY <2>2, <2>3, <2>4, <2>5, <2>6, <2>7 DEF stores
<1>2. \A k \in Int : (StoresUp(k) => StoresUp(k)') /\ (RequestLogUp(k) => RequestLogUp(k)')
  BY <1>1 DEF Progress, StoresUp, RequestLogUp
<1>3. ASSUME store'[p] = n + 1, {0} \cup versions[n + 1] \subseteq objects'
      PROVE  StoresUp(n + 1)'
  <2>1. StoresUp(n)'
    BY <1>1, <1>2, DatabaseAssumption DEF SchemaInv
  <2>2. n \in {0, 1, 2, 3, 4, 5}
    OBVIOUS
  <2>3. n = 0 => tokensMigrations \subseteq objects'
    BY <1>3
  <2>4. n = 1 => reservedMigrations \subseteq objects'
    BY <1>3
  <2>5. n = 2 => accessMigrations \subseteq objects'
    BY <1>3
  <2>6. n = 3 => domainsMigrations \subseteq objects'
    BY <1>3
  <2>7. n = 4 => auditMigrations \subseteq objects'
    BY <1>3
  <2>8. n = 5 => adminTokensMigrations \subseteq objects'
    BY <1>3
  <2> QED
    BY <1>3, <2>1, <2>2, <2>3, <2>4, <2>5, <2>6, <2>7, <2>8 DEF StoresUp
<1>4. p \notin Gateways /\ ControlPlanes \subseteq Processes /\ Gateways \subseteq Processes
  BY DatabaseAssumption DEF Processes
<1>5. store \in [Processes -> Int \cup {None}] /\ None \notin Int
  BY DatabaseAssumption DEF SchemaInv
<1> HIDE DEF versions
<1>6. \A q \in ControlPlanes : store'[q] # None => StoresUp(store[q])'
  <2> SUFFICES ASSUME NEW q \in ControlPlanes, store'[q] # None PROVE StoresUp(store[q])'
    OBVIOUS
  <2>1. CASE store'[q] = store[q]
    <3>1. StoresUp(store[q]) /\ store[q] \in Int
      BY <1>4, <1>5, <2>1 DEF SchemaInv
    <3> QED
      BY <1>2, <2>1, <3>1 DEF StoresUp
  <2>2. CASE store'[q] # store[q]
    BY <1>1, <1>3, <1>4, <2>2 DEF Progress, StoresUp
  <2> QED
    BY <2>1, <2>2
<1>7. \A q \in Gateways : store'[q] # None => RequestLogUp(store[q])'
  <2> SUFFICES ASSUME NEW q \in Gateways, store'[q] # None PROVE RequestLogUp(store[q])'
    OBVIOUS
  <2>1. store'[q] = store[q] /\ RequestLogUp(store[q]) /\ store[q] \in Int
    BY <1>1, <1>4, <1>5 DEF Progress, SchemaInv
  <2> QED
    BY <1>2, <2>1 DEF RequestLogUp
<1> QED
  BY <1>1, <1>6, <1>7 DEF SchemaInv, Progress

\* So does a step that brings up a gateway's request log.
LEMMA GatewayUp ==
  ASSUME SchemaInv, NEW p \in Gateways, openRequestLogStore(p)
  PROVE  SchemaInv'
<1>1. store[p] = 0 /\ Progress(p, requestLogMigrations)
  BY MigrateStep DEF openRequestLogStore, requestLogMigrate, Processes
<1>2. \A n \in Int : (StoresUp(n) => StoresUp(n)') /\ (RequestLogUp(n) => RequestLogUp(n)')
  BY <1>1 DEF Progress, StoresUp, RequestLogUp
<1>3. p \notin ControlPlanes /\ ControlPlanes \subseteq Processes /\ Gateways \subseteq Processes
  BY DatabaseAssumption DEF Processes
<1>4. store \in [Processes -> Int \cup {None}] /\ None \notin Int
  BY DatabaseAssumption DEF SchemaInv
<1>5. \A q \in ControlPlanes : store'[q] # None => StoresUp(store[q])'
  <2> SUFFICES ASSUME NEW q \in ControlPlanes, store'[q] # None PROVE StoresUp(store[q])'
    OBVIOUS
  <2>1. store'[q] = store[q] /\ StoresUp(store[q]) /\ store[q] \in Int
    BY <1>1, <1>3, <1>4 DEF Progress, SchemaInv
  <2> QED
    BY <1>2, <2>1 DEF StoresUp
<1>6. \A q \in Gateways : store'[q] # None => RequestLogUp(store[q])'
  <2> SUFFICES ASSUME NEW q \in Gateways, store'[q] # None PROVE RequestLogUp(store[q])'
    OBVIOUS
  <2>1. CASE store'[q] = store[q]
    <3>1. RequestLogUp(store[q]) /\ store[q] \in Int
      BY <1>3, <1>4, <2>1 DEF SchemaInv
    <3> QED
      BY <1>2, <2>1, <3>1 DEF RequestLogUp
  <2>2. CASE store'[q] # store[q]
    BY <1>1, <1>3, <2>2 DEF Progress, RequestLogUp
  <2> QED
    BY <2>1, <2>2
<1> QED
  BY <1>1, <1>5, <1>6 DEF SchemaInv, Progress

\* A migration touches no row but those of the domains, whose hostnames and
\* reservations it leaves; after migration 7 none is unverified.
LEMMA MigrateRows ==
  ASSUME RowInv, Verified, NEW p, NEW migrations, NEW columns, Migrate(p, migrations, columns)
  PROVE  RowInv' /\ StayDead /\ Verified'
<1> DEFINE verified == addCustomDomainVerification(custom_domains)
<1>1. /\ UNCHANGED <<api_tokens, admin_tokens, reserved_subdomains, access_policies, issued>>
      /\ \/ custom_domains' = custom_domains /\ (7 \in objects' => 7 \in objects)
         \/ custom_domains' = verified
  <2>1. CASE BeginTx(p, migrations, columns) \/ ExecMigration(p, migrations)
    BY <2>1 DEF BeginTx, ExecMigration, rows, tokenTables, nameTables, schema
  <2>2. CASE Commit(p, migrations, columns)
    BY <2>2 DEF Commit, tokenTables
  <2> QED
    BY <2>1, <2>2 DEF Migrate
<1>2. CASE custom_domains' = custom_domains /\ (7 \in objects' => 7 \in objects)
  <2>1. RowInv'
    BY <1>1, <1>2, SMTT(30) DEF RowInv, TableTypes, TokensIssued, RowsLinked, Matched, Rows
  <2>2. StayDead
    BY <1>1, <1>2 DEF StayDead
  <2>3. Verified'
    BY <1>2 DEF Verified, DomainsVerified, Rows
  <2> QED
    BY <2>1, <2>2, <2>3, SMTT(30)
<1>3. CASE custom_domains' = verified
  <2>1. custom_domains \in [DomainIDs -> DomainRow \cup {None}] /\ None \notin DomainRow
    BY StoresAssumption DEF RowInv, TableTypes
  <2> DEFINE row(d) == [custom_domains[d] EXCEPT
                          !.verification_token = IF @ = "null" THEN "legacy" ELSE @,
                          !.verified = @ \/ custom_domains[d].status = "active"]
  <2>2. custom_domains' = [d \in DomainIDs |-> IF custom_domains[d] = None THEN None ELSE row(d)]
    BY <1>3, <2>1, Zenon DEF addCustomDomainVerification
  <2>3. ASSUME NEW d \in DomainIDs, custom_domains[d] # None
        PROVE  /\ row(d) \in DomainRow
               /\ row(d).hostname = custom_domains[d].hostname
               /\ row(d).reservation = custom_domains[d].reservation
               /\ row(d).verification_token # "null"
               /\ row(d).status = "active" => row(d).verified
    <3>1. custom_domains[d] \in DomainRow
      BY <2>1, <2>3
    <3> QED
      BY <3>1, Zenon DEF DomainRow
  <2> HIDE DEF row
  <2>4. /\ custom_domains' \in [DomainIDs -> DomainRow \cup {None}]
        /\ \A d \in DomainIDs : custom_domains[d] = None => custom_domains'[d] = None
    BY <2>2, <2>3
  <2>5. \A d \in Rows(custom_domains') :
          /\ d \in Rows(custom_domains)
          /\ custom_domains'[d].hostname = custom_domains[d].hostname
          /\ custom_domains'[d].reservation = custom_domains[d].reservation
          /\ custom_domains'[d].verification_token # "null"
          /\ custom_domains'[d].status = "active" => custom_domains'[d].verified
    BY <2>1, <2>2, <2>3 DEF Rows
  <2>6. TableTypes' /\ TokensIssued'
    BY <1>1, <2>4, SMTT(30) DEF RowInv, TableTypes, TokensIssued, Rows
  <2>7. RowsLinked'
    <3>1. /\ \A d \in Rows(custom_domains') :
               Matched(reserved_subdomains, custom_domains'[d].reservation)
          /\ \A i, j \in Rows(custom_domains') :
               custom_domains'[i].hostname = custom_domains'[j].hostname => i = j
      BY <2>5 DEF RowInv, RowsLinked
    <3>2. /\ reserved_subdomains' = reserved_subdomains /\ access_policies' = access_policies
          /\ api_tokens' = api_tokens
      BY <1>1
    <3> QED
      BY <3>1, <3>2, ZenonT(60) DEF RowInv, RowsLinked, Matched, Rows
  <2>8. StayDead
    BY <1>1, <2>4 DEF StayDead
  <2>9. Verified'
    BY <2>5 DEF Verified, DomainsVerified, Rows
  <2> QED
    BY <2>6, <2>7, <2>8, <2>9 DEF RowInv
<1> QED
  BY <1>1, <1>2, <1>3

\* Processes that start, or end with their transactions, leave the schema in order.
LEMMA StartOrStop ==
  ASSUME SchemaInv, UNCHANGED schema, NEW p \in Processes,
         \/ store[p] = None /\ store' = [store EXCEPT ![p] = 0] /\ UNCHANGED tx
         \/ Stop({p})
         \/ UNCHANGED <<store, tx>>
  PROVE  SchemaInv'
<1>1. UNCHANGED <<recorded, objects>>
  BY DEF schema
<1>2. StoresUp(0) /\ RequestLogUp(0)
  BY DEF StoresUp, RequestLogUp
<1>3. /\ store' \in [Processes -> Int \cup {None}]
      /\ \A q \in Processes : store'[q] \in {store[q], None, 0}
      /\ DOMAIN tx' = Processes /\ tx' = [q \in Processes |-> tx'[q]]
      /\ \A q \in Processes : tx'[q] \in {tx[q], None}
  BY DEF Stop, SchemaInv
<1>4. \A q \in Processes : tx'[q] = None \/ TxInv(tx[q])'
  BY <1>1, <1>3 DEF TxInv, SchemaInv
<1>5. \A q \in ControlPlanes : store'[q] # None => StoresUp(store[q])'
  BY <1>1, <1>2, <1>3 DEF StoresUp, SchemaInv, Processes
<1>6. \A q \in Gateways : store'[q] # None => RequestLogUp(store[q])'
  BY <1>1, <1>2, <1>3 DEF RequestLogUp, SchemaInv, Processes
<1> QED
  BY <1>1, <1>3, <1>4, <1>5, <1>6 DEF SchemaInv

\* A step that changes no row.
LEMMA RowsUnchanged ==
  ASSUME RowInv, Verified, UNCHANGED <<schema, rows>>
  PROVE  RowInv' /\ StayDead /\ Verified'
<1>1. UNCHANGED <<api_tokens, admin_tokens, reserved_subdomains, access_policies,
                  custom_domains, issued, objects>>
  BY DEF rows, tokenTables, nameTables, schema
<1>2. RowInv'
  BY <1>1 DEF RowInv, TableTypes, TokensIssued, RowsLinked, Matched, Rows
<1>3. StayDead
  BY <1>1, SMTT(30) DEF StayDead
<1>4. Verified'
  BY <1>1 DEF Verified, DomainsVerified, Rows
<1> QED
  BY <1>2, <1>3, <1>4

\* Every step keeps the invariant and leaves the dead rows dead.
LEMMA DatabaseStep == DatabaseInv /\ [Next]_vars => DatabaseInv' /\ StayDead
<1> SUFFICES ASSUME DatabaseInv, [Next]_vars PROVE DatabaseInv' /\ StayDead
  OBVIOUS
<1>1. RowInv /\ SchemaInv /\ Verified
  BY DEF DatabaseInv
<1>2. ASSUME NEW p \in Processes, Start(p) PROVE DatabaseInv' /\ StayDead
  BY <1>1, <1>2, StartOrStop, RowsUnchanged, Zenon DEF Start, DatabaseInv
<1>3. ASSUME NEW p \in ControlPlanes, stores(p) PROVE DatabaseInv' /\ StayDead
  <2>1. PICK migrations, columns : Migrate(p, migrations, columns)
    BY <1>3 DEF stores, tokensMigrate, reservedMigrate, accessMigrate, domainsMigrate,
                auditMigrate, adminTokensMigrate
  <2> QED
    BY <1>1, <1>3, <2>1, ControlPlaneUp, MigrateRows DEF DatabaseInv
<1>4. ASSUME NEW p \in Gateways, openRequestLogStore(p) PROVE DatabaseInv' /\ StayDead
  <2>1. PICK migrations, columns : Migrate(p, migrations, columns)
    BY <1>4 DEF openRequestLogStore, requestLogMigrate
  <2> QED
    BY <1>1, <1>4, <2>1, GatewayUp, MigrateRows DEF DatabaseInv
<1>5. ASSUME NEW p \in Processes, Crash(p) PROVE DatabaseInv' /\ StayDead
  BY <1>1, <1>5, StartOrStop, RowsUnchanged DEF Crash, DatabaseInv
<1>6. ASSUME NEW p \in Processes, Serve(p) PROVE DatabaseInv' /\ StayDead
  <2>1. Statement /\ UNCHANGED schema /\ UNCHANGED <<store, tx>>
    BY <1>6 DEF Serve, process
  <2>2. SchemaInv'
    BY <1>1, <2>1, StartOrStop
  <2>3. RowInv' /\ StayDead /\ (DomainsVerified => DomainsVerified')
    BY <1>1, <2>1, StatementKeeps
  <2>4. Verified'
    BY <1>1, <2>1, <2>3 DEF Verified, schema
  <2> QED
    BY <2>2, <2>3, <2>4 DEF DatabaseInv
<1>7. CASE UNCHANGED vars
  <2>1. UNCHANGED <<schema, rows>> /\ UNCHANGED <<store, tx>>
    BY <1>7 DEF vars, process
  <2>2. RowInv' /\ StayDead /\ Verified'
    BY <1>1, <2>1, RowsUnchanged
  <2>3. SchemaInv'
    BY <1>1, <2>1 DEF SchemaInv, StoresUp, RequestLogUp, TxInv, schema
  <2> QED
    BY <2>2, <2>3 DEF DatabaseInv
<1> QED
  BY <1>2, <1>3, <1>4, <1>5, <1>6, <1>7 DEF Next, Step

\* The invariant gives what a serving process relies on.
LEMMA DatabaseInvImplies == DatabaseInv => ServesMigrated /\ RowsConsistent
<1> SUFFICES ASSUME DatabaseInv PROVE ServesMigrated /\ RowsConsistent
  OBVIOUS
<1> USE DEF DatabaseInv
<1>1. ASSUME NEW p \in ControlPlanes, Serving(p) PROVE (0..8) \cup {10} \subseteq objects
  <2>1. StoresUp(6)
    BY <1>1, DatabaseAssumption DEF Serving, SchemaInv
  <2> QED
    BY <2>1 DEF StoresUp, tokensMigrations, reservedMigrations, accessMigrations,
                domainsMigrations, auditMigrations, adminTokensMigrations
<1>2. ASSUME NEW p \in Gateways, Serving(p) PROVE {0, 9} \subseteq objects
  <2>1. p \notin ControlPlanes
    BY DatabaseAssumption
  <2>2. RequestLogUp(1)
    BY <1>2, <2>1, DatabaseAssumption, SMTT(30) DEF Serving, SchemaInv
  <2> QED
    BY <2>2, SMTT(30) DEF RequestLogUp, requestLogMigrations
<1>3. ActiveIsVerified
  BY <1>1 DEF ActiveIsVerified, Verified, DomainsVerified
<1> QED
  BY <1>1, <1>2, <1>3 DEF ServesMigrated, RowsConsistent, RowInv, RowsLinked

-------------------------------------------------------------------------------
\* The invariant holds for any number of processes, crashes and rows.
THEOREM DatabaseInvHolds == Spec => []DatabaseInv
<1>1. DatabaseInv /\ [Next]_vars => DatabaseInv'
  BY DatabaseStep
<1> QED
  BY <1>1, DatabaseInit, PTL DEF Spec

\* However many processes migrate one database together, fail and start again
\* (applyMigrations and verifySchema of every store), a process that serves finds
\* every version its stores need.
THEOREM ServesMigratedHolds == Spec => []ServesMigrated
BY DatabaseInvHolds, DatabaseInvImplies, PTL

\* Whatever the replicas write from what they read a moment ago, references and
\* unique columns hold, and an active domain that is served was verified, also in
\* a database that migration 7 found with unverified ones.
THEOREM RowsConsistentHolds == Spec => []RowsConsistent
BY DatabaseInvHolds, DatabaseInvImplies, PTL

\* No statement of any replica brings back a deleted policy or domain or changes
\* a revoked token.
THEOREM DeadRowsStayDeadHolds == Spec => DeadRowsStayDead
<1>1. DatabaseInv /\ [Next]_vars =>
        [/\ \A p \in PolicyIDs \cap issued : access_policies[p] = None => access_policies'[p] = None
         /\ \A d \in DomainIDs \cap issued : custom_domains[d] = None => custom_domains'[d] = None
         /\ \A t \in Rows(api_tokens) : api_tokens[t].revoked => api_tokens'[t] = api_tokens[t]
         /\ \A t \in Rows(admin_tokens) :
              admin_tokens[t].revoked => admin_tokens'[t] = admin_tokens[t]]_vars
  BY DatabaseStep DEF StayDead
<1> QED
  BY <1>1, DatabaseInvHolds, PTL DEF Spec, DeadRowsStayDead

===============================================================================
