------------------------------ MODULE RequestLog ------------------------------
(***************************************************************************)
(* The gateway's request log: requestLogBuffer, a ring of the last         *)
(* requests, and, if one is configured, a table that outlives the process. *)
(* Requests are recorded in both; pruning by age and listing, a page at a  *)
(* time and newest first, use the table if there is one.  The ring's       *)
(* operations hold its lock and the table's are one statement each.  An    *)
(* entry's time is when its request started, so neither is filled in order *)
(* of time.                                                                *)
(***************************************************************************)
EXTENDS Naturals, Sequences, SequencesExt

CONSTANTS Limit,         \* ring size (positive: a zero limit keeps no log)
          Times,         \* request start times and pruning cutoffs
          Asked,         \* limits a client may ask for, 0: none or no number
          DefaultLimit, MaxPageLimit,
          MaxID,         \* bound on entries
          None

ASSUME RequestLogAssumption ==
  /\ Limit \in Nat \ {0} /\ DefaultLimit \in Nat \ {0} /\ MaxPageLimit \in Nat \ {0}
  /\ MaxID \in Nat /\ Times \subseteq Nat \ {0} /\ Asked \subseteq Nat

VARIABLES entries,  \* the ring, indexed from 0
          next, full, nextID,
          durable,  \* there is a table
          rows,     \* its rows
          serial,   \* the id it gave last
          client    \* a client listing the log, or None

ring == <<entries, next, full, nextID>>
table == <<rows, serial>>

\* hit: the entry matches the client's filter.
Entry == [id : 1..MaxID, time : Times, hit : BOOLEAN]
Blank == [id |-> 0, time |-> 0, hit |-> FALSE]
Slots == 0..(Limit - 1)

EmptyRing ==
  /\ entries = [i \in Slots |-> Blank]
  /\ next = 0 /\ full = FALSE /\ nextID = 0

-------------------------------------------------------------------------------
(* requestLogBuffer *)

count == IF full THEN Limit ELSE next

\* The occupied slots as PruneBefore walks them, oldest first.
Oldest == [i \in 1..count |-> entries[IF full THEN (next + i - 1) % Limit ELSE i - 1]]

\* The occupied slots as listPage walks them, newest first; it stops at an index
\* a ring that is not full has not written.
Index(i) == IF next >= i THEN next - i ELSE next + Limit - i
Newest ==
  LET stop == {i \in 1..count : ~full /\ Index(i) >= next}
  IN [i \in 1..(IF stop = {} THEN count ELSE (CHOOSE i \in stop : \A j \in stop : i <= j) - 1)
        |-> entries[Index(i)]]

\* Mutant: full is forgotten when the ring goes round again.
addForgetsFull(t, hit) ==
  /\ nextID < MaxID
  /\ nextID' = nextID + 1
  /\ entries' = [entries EXCEPT ![next] = [id |-> nextID + 1, time |-> t, hit |-> hit]]
  /\ next' = (next + 1) % Limit
  /\ full' = ((next + 1) % Limit = 0)

add(t, hit) ==
  /\ nextID < MaxID
  /\ nextID' = nextID + 1
  /\ entries' = [entries EXCEPT ![next] = [id |-> nextID + 1, time |-> t, hit |-> hit]]
  /\ next' = (next + 1) % Limit
  /\ full' = (full \/ (next + 1) % Limit = 0)

PruneBefore(cutoff) ==
  LET Young(e) == e.time >= cutoff
      retained == SelectSeq(Oldest, Young)
  IN /\ entries' = [i \in Slots |-> IF i < Len(retained) THEN retained[i + 1] ELSE Blank]
     /\ full' = (Len(retained) = Limit)
     /\ next' = Len(retained) % Limit
     /\ UNCHANGED nextID

\* One entry more than the limit tells that pages remain; the cursor (id 0: none)
\* is the last entry shown.
requestLogPage(out, limit) ==
  LET all == Len(out) <= limit
  IN [logs |-> IF all THEN out ELSE SubSeq(out, 1, limit),
      nextCursor |-> IF all THEN Blank ELSE out[limit]]

\* The filter of the client.
matches(e) == e.hit

listPage(cursor, limit) ==
  LET Wanted(e) == (cursor.id = 0 \/ e.id < cursor.id) /\ matches(e)
  IN requestLogPage(SelectSeq(Newest, Wanted), limit)

-------------------------------------------------------------------------------
(* PostgresRequestLogStore *)

\* The INSERT, which may fail; the caller only logs that.
Add(t, hit) ==
  \/ /\ serial < MaxID
     /\ rows' = rows \cup {[id |-> serial + 1, time |-> t, hit |-> hit]}
     /\ serial' = serial + 1
  \/ UNCHANGED table

DeleteBefore(cutoff) == rows' = {r \in rows : r.time >= cutoff} /\ UNCHANGED serial

\* ORDER BY time DESC, id DESC
Precedes(a, b) == a.time > b.time \/ (a.time = b.time /\ a.id > b.id)

\* Mutant: the cursor is compared by id, though rows are ordered by time.
requestLogSQLFiltersByID(r, cursor) == r.hit /\ (cursor.id > 0 => r.id < cursor.id)

requestLogSQLFilters(r, cursor) == r.hit /\ (cursor.id > 0 => Precedes(cursor, r))

List(cursor, limit) ==
  requestLogPage(SetToSortSeq({r \in rows : requestLogSQLFilters(r, cursor)}, Precedes), limit)

-------------------------------------------------------------------------------
(* The gateway *)

recordRequestLog(t, hit) ==
  /\ add(t, hit)
  /\ IF durable THEN Add(t, hit) ELSE UNCHANGED table
  /\ UNCHANGED <<durable, client>>

pruneRequestLogs(cutoff) ==
  /\ IF durable THEN DeleteBefore(cutoff) /\ UNCHANGED ring
                ELSE PruneBefore(cutoff) /\ UNCHANGED table
  /\ UNCHANGED <<durable, client>>

normalizedRequestLogLimit(limit) == IF limit > MaxPageLimit THEN MaxPageLimit ELSE limit
requestLogLimit(asked) == normalizedRequestLogLimit(IF asked = 0 THEN Limit ELSE asked)

listRequestLogs(cursor, limit) == IF durable THEN List(cursor, limit) ELSE listPage(cursor, limit)

\* A client that has the page of the log behind its cursor.
Reads(page) ==
  client' = [client EXCEPT !.cursor = page.nextCursor,
                           !.seen = @ \o page.logs,
                           !.done = (page.nextCursor.id = 0)]

handleRequestLogs(asked) ==
  /\ client # None /\ ~client.done
  /\ Reads(listRequestLogs(client.cursor, requestLogLimit(asked)))
  /\ UNCHANGED <<ring, durable, table>>

===============================================================================
