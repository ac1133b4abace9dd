----------------------------- MODULE RowBackup ------------------------------
(***************************************************************************)
(* Row backups without the server around them: which statements get one,   *)
(* what it holds, and what putting it back does to the table.  A table is  *)
(* a function from its primary keys to rows; columns a and b are data, r   *)
(* is what the engine keeps itself: a column it refreshes with every       *)
(* UPDATE (MySQL), an expiry (Redis).                                      *)
(*                                                                         *)
(* Beyond what Policy needs, a statement says which rows it picks (a       *)
(* filter), how its text ends, and what it writes:                         *)
(*   picks     "all", "zero" (a = 0) or "one" (the first key)              *)
(*   clause    "none", "where", or "always": a WHERE that holds for all    *)
(*   tail      "", "limit" or "returning"                                  *)
(*   simple    one table, no join, no WITH                                 *)
(*   listed    its SET list names column by column                         *)
(*   moves     it writes the key column                                    *)
(*   cols, val the data columns it writes, and the value it writes         *)
(***************************************************************************)
EXTENDS Policy

CONSTANTS
    Key,            \* the keys of the table
    Absent,         \* no row under a key
    BatchRows       \* rows to a batch when Cassandra restores (50 in the code)

Columns == {"a", "b", "r"}
Row     == [Columns -> 0..1]
Table   == [Key -> Row \cup {Absent}]

ASSUME RowBackupAssumption ==
    /\ IsFiniteSet(Key) /\ Key # {} /\ Absent \notin Row /\ BatchRows \in Nat \ {0}

First == CHOOSE k \in Key : TRUE

Present(t) == {k \in Key : t[k] # Absent}

\* The rows the WHERE clause or the filter matches, a LIMIT left out.
Matched(t, s) ==
    {k \in Present(t) : /\ s.picks = "zero" => t[k].a = 0
                        /\ s.picks = "one" => k = First}

SqlEngines == {"postgres", "mysql", "mssql"}

-----------------------------------------------------------------------------
\* backupTargetOf: UPDATE t SET ... WHERE ... and DELETE FROM t [WHERE ...].
\* A whole-table DELETE keeps none when anything follows the table.
SqlTarget(s) ==
    /\ ~s.script /\ s.simple /\ Cardinality(s.tables) = 1
    /\ \/ s.command \in {"update", "delete"} /\ s.where
       \/ s.command = "delete" /\ s.clause = "none" /\ s.tail = ""

\* cassandraBackupTargetOf: the clause ends at IF.
CassandraTarget(s) == s.command \in {"update", "delete"} /\ Cardinality(s.tables) = 1 /\ s.where

\* The handlers of documents and keys say themselves what they back up.
Target(engine, s) ==
    CASE engine \in SqlEngines -> SqlTarget(s)
      [] engine = "cassandra"  -> CassandraTarget(s)
      [] OTHER                 -> s.kept

\* Columns the engine rewrites on its own.
Refreshed(engine) == IF engine = "mysql" THEN {"r"} ELSE {}

\* backupSelectList, cassandraBackupSelectList: a DELETE needs the whole row,
\* an UPDATE its key and what it writes, unless that cannot be told.
WrittenColumns(engine, s) ==
    IF s.command = "delete" \/ ~s.listed \/ s.moves THEN Columns ELSE s.cols

CassandraColumns(s) == WrittenColumns("cassandra", s)

\* Seeded fault: a refreshed column is forgotten.
SelectedOnly(engine, s) == IF engine \in SqlEngines \cup {"cassandra"} THEN WrittenColumns(engine, s) ELSE Columns

SqlColumns(engine, s) == WrittenColumns(engine, s) \cup Refreshed(engine)

\* Seeded fault: every backup holds whole rows.
WholeRows(engine, s) == Columns

BackupColumns(engine, s) ==
    CASE engine \in SqlEngines -> SqlColumns(engine, s)
      [] engine = "cassandra"  -> CassandraColumns(s)
      [] OTHER                 -> Columns

\* The keys a backup holds: what the filter matches, but the named key for the
\* engines that write one, which Redis backs up though there is nothing there.
BackupKeys(engine, t, s) ==
    CASE engine = "redis" -> IF s.kind = "delete" THEN {First} \cap Present(t) ELSE {First}
      [] engine = "elasticsearch" -> {First} \cap Present(t)
      [] OTHER -> Matched(t, s)

BackupKind(s) == IF s.kind = "delete" THEN "delete" ELSE "update"

\* restorePlan: what an UPDATE puts back.  It never assigns an identity column,
\* nor one of the key: its values then stay what the UPDATE made of them.
AssignedColumns(engine, s, idents) == BackupColumns(engine, s) \ idents

\* captureRowBackup and its counterparts: the rows as they are before.  A restore
\* writes the columns puts of before, or of a DELETE whole rows; the others are
\* there for the properties, as are stmt, what it hit, what others touched since,
\* whether the manual transaction it was taken in is open, and whether the store
\* failed while the backup was stored or discarded (stray).
Backup(engine, t, s, number, who, open, idents) ==
    [id |-> number, by |-> who, engine |-> engine, kind |-> BackupKind(s),
     keys |-> BackupKeys(engine, t, s), cols |-> BackupColumns(engine, s),
     puts |-> AssignedColumns(engine, s, idents),
     before |-> [k \in BackupKeys(engine, t, s) |-> t[k]],
     state |-> "kept", stmt |-> s, hit |-> {}, touched |-> {}, open |-> open,
     stray |-> FALSE]

-----------------------------------------------------------------------------
\* Putting a backup back: the tables a restore may leave, of the keys ks.

Overlay(t, bk, ks) ==
    [k \in Key |-> IF k \notin ks THEN t[k]
                   ELSE [c \in Columns |-> IF c \in bk.puts THEN bk.before[k][c]
                                           ELSE IF t[k] = Absent THEN 0 ELSE t[k][c]]]

Reinsert(t, bk, ks) == [k \in Key |-> IF k \in ks THEN bk.before[k] ELSE t[k]]

\* restorePlan: rows that are back collide with those that are there; a row
\* that left its key cannot be put back.  One transaction: all of it or none.
SqlCollides(t, bk) == bk.kind = "delete" /\ bk.keys \cap Present(t) # {}
SqlMissing(t, bk)  == bk.kind = "update" /\ ~(bk.keys \subseteq Present(t))

\* Nothing to assign: there is no statement to run.
EmptyPlan(bk) == bk.kind = "update" /\ bk.puts = {}

SqlRestore(t, bk) ==
    IF bk.kind = "delete" THEN Reinsert(t, bk, bk.keys) ELSE Overlay(t, bk, bk.keys)

\* cassandraRestoreStatements: INSERT and UPDATE both write over what is there.
\* A row an UPDATE creates has no value (0) in the columns it does not name.
CassandraRestore(t, bk, ks) ==
    IF bk.kind = "delete" THEN Reinsert(t, bk, ks) ELSE Overlay(t, bk, ks)

\* mongoApplyRestore: insert or replace (upsert) one document.
MongoRestore(t, bk, ks) == Reinsert(t, bk, ks)

\* RedisRestoreSnapshot: RESTORE REPLACE, or DEL when there was no key.
\* applyElasticsearchRowBackup: the document is indexed again.
KeyRestore(t, bk, ks) == Reinsert(t, bk, ks)

\* The statement the policies judge a restore by.
RestoreKind(engine, bk) ==
    IF engine \in {"redis", "elasticsearch"} THEN "update"
    ELSE IF bk.kind = "delete" THEN "insert" ELSE "update"
=============================================================================
