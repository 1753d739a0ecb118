----------------------------- MODULE IndexedStore -----------------------------
(***************************************************************************)
(* The stores of reservations, access policies and custom domains have one *)
(* shape: records by id, and an index from a key that at most one record   *)
(* has (the name, the reservation, the hostname) to that record's id.      *)
(* Every operation runs under the store's mutex, or is one SQL statement   *)
(* on a table with a unique column, and so is one step.                    *)
(***************************************************************************)
CONSTANTS IDs, Keys, None

VARIABLES byID,   \* id -> the record, with its key in the field key, or None
          byKey   \* key -> id, or None

storeVars == <<byID, byKey>>

StoreInit == byID = [i \in IDs |-> None] /\ byKey = [k \in Keys |-> None]

Exists(i) == byID[i] # None

\* The index is read first, the record second, under one lock.
LookupByKey(k) == IF byKey[k] = None THEN None ELSE byID[byKey[k]]

Taken(i, rec) == Exists(i) \/ byKey[rec.key] # None

Create(i, rec) ==
  IF Taken(i, rec) THEN UNCHANGED storeVars
  ELSE /\ byID' = [byID EXCEPT ![i] = rec]
       /\ byKey' = [byKey EXCEPT ![rec.key] = i]

\* Mutant: an update of a record that is gone puts it back.
UpdateUpserts(i, rec) ==
  /\ byID' = [byID EXCEPT ![i] = rec]
  /\ byKey' = [byKey EXCEPT ![rec.key] = i]

\* Callers keep the key they read, so what the stores do when it changed never happens.
Update(i, rec) ==
  IF ~Exists(i) THEN UNCHANGED storeVars
  ELSE /\ byID' = [byID EXCEPT ![i] = rec]
       /\ byKey' = [byKey EXCEPT ![rec.key] = i]

\* Mutant: the index keeps the key of a deleted record.
DeleteKeepsKey(i) ==
  IF ~Exists(i) THEN UNCHANGED storeVars
  ELSE byID' = [byID EXCEPT ![i] = None] /\ UNCHANGED byKey

Delete(i) ==
  IF ~Exists(i) THEN UNCHANGED storeVars
  ELSE /\ byID' = [byID EXCEPT ![i] = None]
       /\ byKey' = [byKey EXCEPT ![byID[i].key] = None]

\* The index and the records say the same: every record is found under its key
\* and every key that is taken leads to a record that has it.
IndexAgrees ==
  /\ \A i \in IDs : Exists(i) => byKey[byID[i].key] = i
  /\ \A k \in Keys : byKey[k] # None => Exists(byKey[k]) /\ byID[byKey[k]].key = k

===============================================================================
