---------------------------- MODULE IncidentStore ---------------------------
(***************************************************************************)
(* The incidents table of internal/store: a function from the ids present  *)
(* to their incidents, with the queries and the two writes of the Store    *)
(* interface.  Each operator below is one SQL statement, evaluated by      *)
(* SQLite under its write lock, so a caller uses it in a single step.      *)
(* Incidents are never deleted.                                            *)
(***************************************************************************)
EXTENDS Incident

\* Active: every non-terminal incident.
Active(table) == {i \in DOMAIN table : ~Terminal(table[i])}

\* OpenByDedupKey: the non-terminal incidents of the key.
LiveFor(table, key) == {i \in Active(table) : table[i].key = key}

\* LatestByDedupKey: the rows of the key with the greatest updated_at.  Ties
\* are broken by id, and ids are random, so any of them may be the answer.
LatestFor(table, key) ==
  {i \in DOMAIN table :
     /\ table[i].key = key
     /\ \A j \in DOMAIN table :
          table[j].key = key => table[j].updatedAt <= table[i].updatedAt}

\* Mutant: no such index, only the primary key.
NoUniqueIndex(table, inc) == FALSE

\* The partial unique index: one non-terminal row per dedup key.  A write that
\* would break it fails with ErrActiveExists and changes nothing.
ActiveExists(table, inc) ==
  ~Terminal(inc) /\ LiveFor(table, inc.key) \ {inc.id} # {}

\* Put: insert, or replace the row of that id wholesale.
Put(table, inc) ==
  [i \in DOMAIN table \cup {inc.id} |-> IF i = inc.id THEN inc ELSE table[i]]

\* Mutant: an UPDATE by id alone.
SameId(table, inc, expect) == inc.id \in DOMAIN table

\* The WHERE clause of PutIfUnchanged.
Unchanged(table, inc, expect) ==
  inc.id \in DOMAIN table /\ table[inc.id].updatedAt = expect
=============================================================================
