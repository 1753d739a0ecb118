------------------------------- MODULE AuditLog -------------------------------
(***************************************************************************)
(* The logs an operator reads page by page while they change: the request  *)
(* log of a gateway and the audit events of a control plane.               *)
(* MemoryAuditEventStore is the same ring and PostgresAuditEventStore the  *)
(* same kind of table, written out once more; a control plane has one or   *)
(* the other, and adds an event to it for every page it serves.            *)
(***************************************************************************)
EXTENDS RequestLog

VARIABLE server  \* "gateway" or "control plane"

vars == <<ring, durable, table, client, server>>

Init ==
  /\ EmptyRing
  /\ durable \in BOOLEAN /\ rows = {} /\ serial = 0
  /\ client = None
  /\ server \in {"gateway", "control plane"}

-------------------------------------------------------------------------------
(* The control plane *)

memoryAdd(t, hit) == add(t, hit) /\ UNCHANGED table
memoryPruneBefore(cutoff) == PruneBefore(cutoff) /\ UNCHANGED table
postgresAdd(t, hit) == Add(t, hit) /\ UNCHANGED ring
postgresPruneBefore(cutoff) == DeleteBefore(cutoff) /\ UNCHANGED ring

normalizedAuditEventLimit(limit) ==
  IF limit = 0 THEN DefaultLimit ELSE IF limit > MaxPageLimit THEN MaxPageLimit ELSE limit

auditEventPage(out, limit) == requestLogPage(out, normalizedAuditEventLimit(limit))

auditEventMatches(e, cursor) == (cursor.id = 0 \/ e.id < cursor.id) /\ e.hit
memoryList(cursor, limit) ==
  LET Wanted(e) == auditEventMatches(e, cursor)
  IN auditEventPage(SelectSeq(Newest, Wanted), limit)

auditEventSQLFilters(r, cursor) == r.hit /\ (cursor.id > 0 => Precedes(cursor, r))
postgresList(cursor, limit) ==
  auditEventPage(SetToSortSeq({r \in rows : auditEventSQLFilters(r, cursor)}, Precedes), limit)

\* An event that cannot be stored is only logged.
logAudit(t, hit) == IF durable THEN postgresAdd(t, hit) ELSE memoryAdd(t, hit)

pruneAuditEvents(cutoff) ==
  /\ IF durable THEN postgresPruneBefore(cutoff) ELSE memoryPruneBefore(cutoff)
  /\ UNCHANGED <<durable, client>>

handleEvents(asked, t, hit) ==
  /\ client # None /\ ~client.done
  /\ Reads(IF durable THEN postgresList(client.cursor, asked) ELSE memoryList(client.cursor, asked))
  /\ logAudit(t, hit)
  /\ UNCHANGED durable

\* Any other handler.
Handles(t, hit) == logAudit(t, hit) /\ UNCHANGED <<durable, client>>

-------------------------------------------------------------------------------
Stored == IF durable THEN rows ELSE ToSet(Oldest)

\* there: entries the client's filter matched when it began.
BeginListing ==
  /\ client = None
  /\ client' = [cursor |-> Blank, seen |-> <<>>, done |-> FALSE,
                there |-> {e \in Stored : e.hit}]
  /\ UNCHANGED <<ring, durable, table>>

EndListing ==
  /\ client # None /\ client.done
  /\ client' = None
  /\ UNCHANGED <<ring, durable, table>>

\* The server is started again: the ring is empty and counts from one, and what
\* a client saw in it is gone.
Restart ==
  /\ entries' = [i \in Slots |-> Blank]
  /\ next' = 0 /\ full' = FALSE /\ nextID' = 0
  /\ client' = IF client # None /\ ~durable THEN [client EXCEPT !.there = {}] ELSE client
  /\ UNCHANGED <<durable, table>>

GatewayNext ==
  \/ \E t \in Times : pruneRequestLogs(t) \/ \E hit \in BOOLEAN : recordRequestLog(t, hit)
  \/ \E asked \in Asked : handleRequestLogs(asked)

ControlPlaneNext ==
  \E t \in Times :
    \/ pruneAuditEvents(t)
    \/ \E hit \in BOOLEAN : Handles(t, hit) \/ \E asked \in Asked : handleEvents(asked, t, hit)

Next ==
  /\ \/ server = "gateway" /\ GatewayNext
     \/ server = "control plane" /\ ControlPlaneNext
     \/ BeginListing \/ EndListing \/ Restart
  /\ UNCHANGED server

Spec == Init /\ [][Next]_vars

-------------------------------------------------------------------------------
Log == INSTANCE BoundedLog WITH log <- Oldest, lastID <- nextID

\* The ring, with its wrapped index and its rebuild on pruning, implements the
\* bounded log.
ImplementsBoundedLog == Log!Spec

\* A client that pages through a log, with whatever limits, while entries are
\* added out of order of their times, old ones are pruned, and the server is
\* started again, is shown no entry twice, newest first, and misses none that was
\* there when it began and still is when it ends.
PagesComplete ==
  client # None =>
    /\ \A i, j \in DOMAIN client.seen : i < j =>
         IF durable THEN Precedes(client.seen[i], client.seen[j])
                    ELSE client.seen[i].id > client.seen[j].id
    /\ client.done => client.there \cap Stored \subseteq ToSet(client.seen)

===============================================================================
