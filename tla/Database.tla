------------------------------- MODULE Database -------------------------------
(***************************************************************************)
(* The processes that share one PostgreSQL database: control planes, each  *)
(* bringing up six stores in turn, and gateways with the request log.  A   *)
(* store's Migrate runs its pending migrations in one transaction and      *)
(* checks the schema; an error ends the process, which its supervisor      *)
(* starts again (restart: unless-stopped).  Nothing serialises processes   *)
(* that start together but the locks of the database: a transaction that   *)
(* needs what another has created waits until that one ends.               *)
(***************************************************************************)
EXTENDS SqlStores, Integers, FiniteSets

CONSTANTS ControlPlanes, Gateways,
          Deployments, \* the sets of processes that may share a database
          MaxCrashes,  \* bound on crashes
          MaxIssued    \* bound on rows created

ASSUME DatabaseAssumption ==
  /\ ControlPlanes \cap Gateways = {}
  /\ None \notin Int
  /\ {} \notin {TokenIDs, ReservationIDs, PolicyIDs, DomainIDs, Names, Hostnames, Modes}

VARIABLES recorded,  \* the versions in schema_migrations
          objects,   \* the versions whose SQL has taken effect; 0: schema_migrations
          store,     \* how many of its stores a process has brought up; None: it is
                     \*   not running, Absent: it does not use the database
          tx,        \* its open transaction, or None
          crashes

schema == <<recorded, objects>>
process == <<store, tx, crashes>>
vars == <<schema, process, rows>>

Processes == ControlPlanes \cup Gateways
Absent == -1

-------------------------------------------------------------------------------
(* PostgresMigrations of each store; they run in the order of the file *)
(* names, which is that of the versions                                *)

tokensMigrations == {1, 2, 3}
reservedMigrations == {4}
accessMigrations == {5}
domainsMigrations == {6, 7}
auditMigrations == {8}
requestLogMigrations == {9}
adminTokensMigrations == {10}

\* What the SQL of a version needs: the table it alters or refers to.
Needs == [v \in 1..10 |-> CASE v \in {2, 3} -> {1}
                            [] v \in {5, 6} -> {4}
                            [] v = 7 -> {6}
                            [] OTHER -> {}]

Running(p) == store[p] # None /\ store[p] # Absent
Serving(p) == store[p] = IF p \in ControlPlanes THEN 6 ELSE 1

\* Any one: rows differ in nothing but their ids.
Some(S) == CHOOSE x \in S : TRUE

\* An empty database, one of a release before migration 7, and one whose gateway
\* kept its request log in memory so far.
Releases == {{}, 1..6, 1..8 \cup {10}}

Init ==
  /\ recorded \in Releases
  /\ objects = IF recorded = {} THEN {} ELSE recorded \cup {0}
  /\ \/ EmptyTables
     \/ /\ recorded = 1..6
        /\ LegacyTables(Some(TokenIDs), Some(ReservationIDs), Some(PolicyIDs),
                        Some(DomainIDs), Some(Names), Some(Hostnames), Some(Modes))
  /\ \E deployed \in Deployments :
       store = [p \in Processes |-> IF p \in deployed THEN None ELSE Absent]
  /\ tx = [p \in Processes |-> None]
  /\ crashes = 0

Start(p) ==
  /\ store[p] = None
  /\ store' = [store EXCEPT ![p] = 0]
  /\ UNCHANGED <<schema, rows, tx, crashes>>

\* The processes stop; their transactions are rolled back.
Stop(ps) ==
  /\ store' = [p \in Processes |-> IF p \in ps THEN None ELSE store[p]]
  /\ tx' = [p \in Processes |-> IF p \in ps THEN None ELSE tx[p]]

\* A version that another transaction has created and not committed.
Held(p, v) == \E q \in Processes \ {p} : tx[q] # None /\ v \in tx[q].ran

-------------------------------------------------------------------------------
(* applyMigrations and verifySchema, of which every store has its copy,    *)
(* with its migrations and the versions that make the columns it counts    *)

\* All columns of the store are there, or its Migrate fails and the process ends.
verifySchema(n, columns, present) == IF columns \subseteq present THEN n + 1 ELSE None

\* schema_migrations is created if need be, and read.  A transaction with nothing
\* to run changes nothing: its commit and the check of the schema are this step.
BeginTx(p, migrations, columns) ==
  LET idle == 0 \in objects /\ migrations \subseteq recorded IN
  /\ tx[p] = None
  /\ ~Held(p, 0)
  /\ IF idle
     THEN /\ store' = [store EXCEPT ![p] = verifySchema(@, columns, objects)]
          /\ UNCHANGED tx
     ELSE /\ tx' = [tx EXCEPT ![p] = [seen |-> recorded, ran |-> {0} \ objects]]
          /\ UNCHANGED store
  /\ UNCHANGED <<schema, rows, crashes>>

Pending(p, migrations) == migrations \ (tx[p].seen \cup tx[p].ran)
First(versions) == {v \in versions : \A w \in versions : v <= w}

\* Mutant: the version is recorded outside the transaction.
ExecMigrationRecordsAtOnce(p, migrations) ==
  /\ tx[p] # None
  /\ \E v \in First(Pending(p, migrations)) :
     /\ ~Held(p, v)
     /\ IF v \in recorded \/ ~(Needs[v] \subseteq objects \cup tx[p].ran)
        THEN Stop({p}) /\ UNCHANGED recorded
        ELSE /\ tx' = [tx EXCEPT ![p].ran = @ \cup {v}]
             /\ recorded' = recorded \cup {v}
             /\ UNCHANGED store
  /\ UNCHANGED <<objects, rows, crashes>>

\* The SQL of the next pending version and its INSERT into schema_migrations.
\* Another process may have committed the version since this one looked; its
\* SQL then does nothing, and the INSERT fails on the primary key.
ExecMigration(p, migrations) ==
  /\ tx[p] # None
  /\ \E v \in First(Pending(p, migrations)) :
     /\ ~Held(p, v)
     /\ IF v \in recorded \/ ~(Needs[v] \subseteq objects \cup tx[p].ran)
        THEN Stop({p})
        ELSE /\ tx' = [tx EXCEPT ![p].ran = @ \cup {v}]
             /\ UNCHANGED store
  /\ UNCHANGED <<schema, rows, crashes>>

\* Mutant: migration 7 leaves the domains as they are.
addCustomDomainVerificationOnlyColumns(table) == table

\* Migration 7: domains get a token, and the active ones count as verified.
addCustomDomainVerification(table) ==
  [d \in DOMAIN table |->
     IF table[d] = None THEN None
     ELSE [table[d] EXCEPT !.verification_token = IF @ = "null" THEN "legacy" ELSE @,
                           !.verified = @ \/ table[d].status = "active"]]

\* The transaction commits, and the schema is checked.  Of the processes that
\* waited to create schema_migrations, some find it there now and some fail on
\* the catalogue's unique index.
Commit(p, migrations, columns) ==
  LET ran == tx[p].ran
      done == ran \cup objects
      waiting == {q \in Processes \ {p} : Running(q) /\ ~Serving(q) /\ tx[q] = None}
  IN
  /\ tx[p] # None /\ Pending(p, migrations) = {}
  /\ recorded' = recorded \cup (ran \ {0})
  /\ objects' = done
  /\ custom_domains' = IF 7 \in ran THEN addCustomDomainVerification(custom_domains) ELSE custom_domains
  /\ \E lost \in IF 0 \in ran THEN SUBSET waiting ELSE {{}} :
       /\ store' = [q \in Processes |-> CASE q \in lost -> None
                                          [] q = p -> verifySchema(store[p], columns, done)
                                          [] OTHER -> store[q]]
       /\ tx' = [tx EXCEPT ![p] = None]
  /\ UNCHANGED <<tokenTables, reserved_subdomains, access_policies, issued, crashes>>

Migrate(p, migrations, columns) ==
  \/ BeginTx(p, migrations, columns)
  \/ ExecMigration(p, migrations)
  \/ Commit(p, migrations, columns)

tokensMigrate(p) == Migrate(p, tokensMigrations, {1, 2})
reservedMigrate(p) == Migrate(p, reservedMigrations, {4})
accessMigrate(p) == Migrate(p, accessMigrations, {5})
domainsMigrate(p) == Migrate(p, domainsMigrations, {6, 7})
auditMigrate(p) == Migrate(p, auditMigrations, {8})
requestLogMigrate(p) == Migrate(p, requestLogMigrations, {9})
adminTokensMigrate(p) == Migrate(p, adminTokensMigrations, {10})

\* Mutant: the audit events are used without being migrated.
storesNoAudit(p) ==
  \/ store[p] = 0 /\ tokensMigrate(p)
  \/ store[p] = 1 /\ reservedMigrate(p)
  \/ store[p] = 2 /\ accessMigrate(p)
  \/ store[p] = 3 /\ domainsMigrate(p)
  \/ /\ store[p] = 4
     /\ store' = [store EXCEPT ![p] = 5]
     /\ UNCHANGED <<schema, rows, tx, crashes>>
  \/ store[p] = 5 /\ adminTokensMigrate(p)

\* main brings the stores up one after the other.
stores(p) ==
  \/ store[p] = 0 /\ tokensMigrate(p)
  \/ store[p] = 1 /\ reservedMigrate(p)
  \/ store[p] = 2 /\ accessMigrate(p)
  \/ store[p] = 3 /\ domainsMigrate(p)
  \/ store[p] = 4 /\ auditMigrate(p)
  \/ store[p] = 5 /\ adminTokensMigrate(p)

openRequestLogStore(p) == store[p] = 0 /\ requestLogMigrate(p)

-------------------------------------------------------------------------------
\* A statement fails, or the process is killed.
Crash(p) ==
  /\ Running(p) /\ crashes < MaxCrashes
  /\ Stop({p})
  /\ crashes' = crashes + 1
  /\ UNCHANGED <<schema, rows>>

\* A request at a control plane that serves.
Serve(p) ==
  /\ p \in ControlPlanes /\ Serving(p)
  /\ Statement
  /\ Cardinality(issued') <= MaxIssued
  /\ UNCHANGED <<schema, process>>

Step(p) ==
  \/ Start(p)
  \/ p \in ControlPlanes /\ stores(p)
  \/ p \in Gateways /\ openRequestLogStore(p)

Next == \E p \in Processes : Step(p) \/ Crash(p) \/ Serve(p)

Spec == Init /\ [][Next]_vars

FairSpec == Spec /\ \A p \in Processes : WF_vars(Step(p))

-------------------------------------------------------------------------------
\* A control plane that serves finds every table and column its stores use,
\* whoever migrated the database, from whatever release and with whatever
\* crashes on the way.
ServesMigrated ==
  /\ \A p \in ControlPlanes : Serving(p) => (0..8) \cup {10} \subseteq objects
  /\ \A p \in Gateways : Serving(p) => {0, 9} \subseteq objects

\* While a control plane serves, every active domain was verified, be it by its
\* owner or by the migration that introduced verification, and none lacks a token.
ActiveIsVerified ==
  (\E p \in ControlPlanes : Serving(p)) =>
    \A d \in Rows(custom_domains) :
      /\ custom_domains[d].verification_token # "null"
      /\ custom_domains[d].status = "active" => custom_domains[d].verified

\* Whatever replicas write from what they read a moment ago: a policy or domain
\* has its reservation and a reservation its token (which no foreign key asks for:
\* tokens are revoked, not deleted), a name has one reservation, a reservation one
\* policy, a hostname one domain, and what is served as active is verified.
RowsConsistent ==
  /\ \A r \in Rows(reserved_subdomains) : Matched(api_tokens, reserved_subdomains[r].token)
  /\ \A p \in Rows(access_policies) : Matched(reserved_subdomains, access_policies[p].reservation)
  /\ \A d \in Rows(custom_domains) : Matched(reserved_subdomains, custom_domains[d].reservation)
  /\ \A i, j \in Rows(reserved_subdomains) :
       reserved_subdomains[i].name = reserved_subdomains[j].name => i = j
  /\ \A i, j \in Rows(access_policies) :
       access_policies[i].reservation = access_policies[j].reservation => i = j
  /\ \A i, j \in Rows(custom_domains) :
       custom_domains[i].hostname = custom_domains[j].hostname => i = j
  /\ ActiveIsVerified

\* A row that was deleted does not come back, and a revoked token, of either
\* kind, stays revoked and is not marked used any more.
DeadRowsStayDead ==
  [][/\ \A p \in PolicyIDs \cap issued : access_policies[p] = None => access_policies'[p] = None
     /\ \A d \in DomainIDs \cap issued : custom_domains[d] = None => custom_domains'[d] = None
     /\ \A t \in Rows(api_tokens) : api_tokens[t].revoked => api_tokens'[t] = api_tokens[t]
     /\ \A t \in Rows(admin_tokens) : admin_tokens[t].revoked => admin_tokens'[t] = admin_tokens[t]]_vars

\* Once crashes have stopped every process serves in the end, whatever it found
\* half done and whoever migrates next to it.
EveryoneServes == <>[](\A p \in Processes : Serving(p) \/ store[p] = Absent)

===============================================================================
