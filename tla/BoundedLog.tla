------------------------------ MODULE BoundedLog ------------------------------
(***************************************************************************)
(* What a log kept in memory promises: the Limit entries added last, in    *)
(* the order in which they were added since the process started, less      *)
(* those a pruning found older than its cutoff.                            *)
(***************************************************************************)
EXTENDS Naturals, Sequences

CONSTANTS Limit,  \* how many entries are kept
          Times   \* start times of requests and cutoffs of prunings

VARIABLES log,    \* retained entries, oldest first
          lastID  \* the ID given last

Init == log = <<>> /\ lastID = 0

Newest(s) == SubSeq(s, IF Len(s) > Limit THEN Len(s) - Limit + 1 ELSE 1, Len(s))

Add(t, hit) ==
  /\ lastID' = lastID + 1
  /\ log' = Newest(Append(log, [id |-> lastID + 1, time |-> t, hit |-> hit]))

Prune(cutoff) ==
  LET Young(e) == e.time >= cutoff
  IN UNCHANGED lastID /\ log' = SelectSeq(log, Young)

\* The log is kept in memory.
Restart == lastID' = 0 /\ log' = <<>>

Next == Restart \/ \E t \in Times : Prune(t) \/ \E hit \in BOOLEAN : Add(t, hit)

Spec == Init /\ [][Next]_<<log, lastID>>

===============================================================================
