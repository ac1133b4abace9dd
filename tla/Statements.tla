----------------------------- MODULE Statements -----------------------------
(***************************************************************************)
(* A statement from the request to its answer (api/query.go executeQuery,  *)
(* api/escalation.go ExecuteDeferred, api/cassandra.go, api/nosqlwrite.go  *)
(* with the handlers of documents and keys), the row backup taken on the   *)
(* way, and restores of backups (api/rowbackup.go and its counterparts),   *)
(* over one table that other clients write too.                            *)
(*                                                                         *)
(* conf is the installation and its connection; it is chosen in Init.      *)
(* A call is one HTTP request (or one deferred statement).  Statement      *)
(* hooks, result hooks and the review of held statements are outside the   *)
(* repository: a call is cleared when a review was given (Approve).        *)
(***************************************************************************)
EXTENDS Documents

CONSTANTS
    Req,            \* requests that can be under way at once
    None,
    Confs,          \* engine, tx, shared, readOnly, review, secondary, limit, pk,
                    \* idents: the identity columns outside the key, and
                    \* rows, stmts, req, budget: the table, the statements, the
                    \* requests and the bounds (faults: of Rowset's own store)
    Policies,       \* overrides and customs, as Policy describes them, and cap
    Keep            \* backups kept for a user (rowBackupsKept, 100)

\* The manual transaction: the rows from before its first write, whether it wrote,
\* and whether PostgreSQL refuses all but its end.
Transactions == [undo : Table, wrote : BOOLEAN, aborted : BOOLEAN]

\* A statement writes columns of the table.  Without a WITH, the riskiest thing
\* in an UPDATE or a DELETE is itself.  A request on documents or keys ends in a
\* call that reads where it is judged as one that reads, and in one that writes
\* where it is judged as a write.  Rows are read in a transaction on SQL engines.
ASSUME StatementsAssumption ==
    /\ Keep \in Nat \ {0} /\ None \notin Transactions
    /\ \A cf \in Confs :
         /\ cf.rows \in Table /\ (cf.tx => cf.engine \in SqlEngines)
         /\ cf.idents \subseteq Columns /\ (cf.idents # {} => cf.engine \in SqlEngines)
         /\ \A s \in cf.stmts :
              /\ s.cols \subseteq Columns /\ s.val \in 0..1
              /\ s.simple \/ cf.engine = "cassandra" =>
                     (s.command \in {"update", "delete"} => s.kind = s.command)
              /\ cf.engine \notin SqlEngines \cup {"cassandra"} =>
                     s.call \in Calls /\ (s.call = "read" <=> ~IsWrite(s.kind))

VARIABLES
    conf,           \* the configuration
    rows,           \* the table, uncommitted writes of txn included
    txn,            \* the manual transaction: undo, wrote, aborted; or None
    pol,            \* the policies in force
    approved,       \* a review waits to be used
    backups,        \* every backup made, oldest first; state says what became of it
    calls,          \* the requests
    left            \* what the bounds still allow

svars == <<conf, rows, txn, pol, approved, backups, calls, left>>

Users   == IF conf.shared THEN {"admin", "ann"} ELSE {"me"}
IsAdmin(who) == who # "ann"
Role(who)    == IF IsAdmin(who) THEN "admin" ELSE "analyst"

Idle == [pc |-> "idle"]
Busy(r) == calls[r].pc \notin {"idle", "answered"}

\* The table as a statement outside the transaction sees it.
Locked    == txn # None /\ txn.wrote
Committed == IF Locked THEN txn.undo ELSE rows
Seen(c)   == IF c.intx THEN rows ELSE Committed

\* A write waits for the rows an open transaction wrote.
Unlocked(c) == Locked => c.intx

Postgres == conf.engine = "postgres"

-----------------------------------------------------------------------------
StatementsInit ==
    /\ conf \in Confs
    /\ rows = conf.rows
    /\ txn = None /\ approved = FALSE /\ backups = <<>>
    /\ pol \in Policies
    /\ calls = [r \in Req |-> Idle]
    /\ left = conf.budget

Set(r, c) == calls' = [calls EXCEPT ![r] = c]

\* Seeded fault: only what worked is recorded.
AnswerRecordingSuccess(c, out, recorded) ==
    [c EXCEPT !.pc = "answered", !.out = out, !.rec = @ + (IF recorded /\ out # "error" THEN 1 ELSE 0)]

\* The answer, and whether an activity record goes with it.
Answer(c, out, recorded) ==
    [c EXCEPT !.pc = "answered", !.out = out, !.rec = @ + (IF recorded THEN 1 ELSE 0)]

\* reachableRowBackup: their own, and any for an administrator.
Reachable(who) == {i \in 1..Len(backups) : backups[i].state = "kept" /\ (IsAdmin(who) \/ backups[i].by = who)}

\* CreateRowBackup: the oldest beyond the newest Keep go.
Create(bks, b) ==
    LET all  == Append(bks, b)
        mine == {i \in 1..Len(all) : all[i].state = "kept" /\ all[i].by = b.by}
    IN  [i \in 1..Len(all) |->
            IF i \in mine /\ Cardinality({j \in mine : j > i}) >= Keep
            THEN [all[i] EXCEPT !.state = "pruned"] ELSE all[i]]

\* What a write means to the backups: its own (id own) learns which keys it
\* changed, the others which of theirs no longer stand as they were left.
Noted(bks, own, changed) ==
    [i \in 1..Len(bks) |-> IF i = own THEN [bks[i] EXCEPT !.hit = changed]
                           ELSE [bks[i] EXCEPT !.touched = @ \cup changed]]

ChangedKeys(old, new) == {k \in Key : old[k] # new[k]}

-----------------------------------------------------------------------------
\* A request arrives.

NewCall(who, path, s, ask, intx) ==
    [pc |-> "judge", who |-> who, path |-> path, stmt |-> s, ask |-> ask, intx |-> intx,
     cleared |-> path = "deferred" \/ (path = "live" /\ approved),
     bid |-> 0, told |-> FALSE, out |-> "", rec |-> 0, reached |-> FALSE, wrote |-> {}, streamed |-> FALSE, todo |-> {}]

Arrives(r) ==
    /\ r \in conf.req /\ ~Busy(r) /\ left.calls > 0
    /\ left' = [left EXCEPT !.calls = @ - 1]
    /\ UNCHANGED <<conf, rows, txn, pol, approved, backups>>

Asks(s) == IF s.command \in {"update", "delete"} THEN BOOLEAN ELSE {FALSE}

\* In the editor: transaction control and USE are refused, and recorded.
Submit(r) ==
    /\ Arrives(r) /\ conf.engine \in SqlEngines
    /\ \E who \in Users, s \in conf.stmts, intx \in (IF txn = None THEN {FALSE} ELSE BOOLEAN) :
         \E ask \in Asks(s) :
            LET c == NewCall(who, "live", s, ask, intx)
            IN  Set(r, IF s.control \/ s.switches THEN Answer(c, "refused", TRUE) ELSE c)

\* A statement that was held and cleared, run for its author.
SubmitDeferred(r) ==
    /\ Arrives(r) /\ conf.engine \in SqlEngines /\ conf.review
    /\ \E who \in Users, s \in conf.stmts : Set(r, NewCall(who, "deferred", s, FALSE, FALSE))

\* CQL: session control is refused, without a record.
SubmitCassandra(r) ==
    /\ Arrives(r) /\ conf.engine = "cassandra"
    /\ \E who \in Users, s \in conf.stmts : \E ask \in Asks(s) :
         LET c == NewCall(who, "cassandra", s, ask, FALSE)
         IN  Set(r, IF s.kind = "session" THEN Answer(c, "refused", FALSE) ELSE c)

\* Documents and keys.
SubmitDocument(r) ==
    /\ Arrives(r) /\ conf.engine \notin SqlEngines \cup {"cassandra"}
    /\ \E who \in Users, s \in conf.stmts : \E ask \in Asks(s) :
         Set(r, NewCall(who, "documents", s, ask, FALSE))

\* Policies: read once, before anything runs.
Input(c) ==
    [stmt |-> c.stmt, readOnly |-> conf.readOnly, cleared |-> c.cleared,
     disabled |-> Disabled(pol.overrides, "c1", Role(c.who)),
     enabled |-> Enabled(pol.overrides, "c1", Role(c.who))]

Decision(c) ==
    IF c.path # "documents" /\ conf.shared /\ IsAdmin(c.who) THEN Evaluate(Input(c))
    ELSE CustomDecision(pol.customs, c.stmt, c.cleared, "c1", Role(c.who), 0, Evaluate(Input(c)))

\* routedEngineConnection: a secondary takes what is safe there only.
Unsafe(c) == conf.secondary /\ conf.engine \in SqlEngines /\ ~c.intx /\ ~SecondarySafe(c.stmt)

\* The verdict, then a node and, for a statement that leaves state behind, a
\* session of its own.  An allowed statement uses up the review that cleared
\* it.  A node that cannot be reached is not recorded.
Judge(r) ==
    LET c       == calls[r]
        allowed == Decision(c) = "allow"
    IN  /\ c.pc = "judge"
        /\ \/ ~allowed /\ Set(r, Answer(c, "denied", c.path # "deferred"))
           \/ allowed /\ Unsafe(c) /\ Set(r, Answer(c, "denied", c.path = "live"))
           \/ allowed /\ ~c.intx /\ Set(r, Answer(c, "unreachable", FALSE))
           \/ allowed /\ ~Unsafe(c) /\ Set(r, [c EXCEPT !.pc = IF c.path = "restore" THEN "restore" ELSE "capture"])
        /\ approved' = (approved /\ ~(allowed /\ c.path = "live" /\ c.cleared))
        /\ UNCHANGED <<conf, rows, txn, pol, backups, left>>

-----------------------------------------------------------------------------
\* captureRowBackup and its counterparts.

Wanted(c) ==
    /\ c.path = "live" => c.ask /\ IsWrite(c.stmt.command)
    /\ c.path = "deferred" => IsWrite(c.stmt.command)
    /\ c.path \in {"cassandra", "documents"} => c.ask
    /\ Target(conf.engine, c.stmt)

Keys(c) == BackupKeys(conf.engine, Seen(c), c.stmt)

\* Redis and Elasticsearch name one key: they have no limit to pass.
Blocked(c) ==
    \/ conf.engine \in SqlEngines /\ BackupKind(c.stmt) = "update" /\ ~conf.pk
    \/ conf.engine \notin {"redis", "elasticsearch"} /\ Cardinality(Keys(c)) > conf.limit

\* What a read that failed leaves of a PostgreSQL transaction.  The savepoint was
\* refused and nothing was read, or going back to it worked: what there was.  The
\* error of going back is ignored, and the transaction stays as the read left it.
AfterFailedRead(t) == {t, [t EXCEPT !.aborted = TRUE]}

\* The rows cannot be read or the backup cannot be stored: the statement runs
\* without one.
Skip(r) ==
    LET c == calls[r]
    IN  /\ c.pc = "capture" /\ Wanted(c)
        /\ Set(r, [c EXCEPT !.pc = "run"])
        /\ txn' \in (IF c.intx /\ Postgres THEN AfterFailedRead(txn) ELSE {txn})
        /\ UNCHANGED <<conf, rows, pol, approved, backups, left>>

Block(r) ==
    LET c == calls[r]
    IN  /\ c.pc = "capture" /\ Wanted(c) /\ Blocked(c)
        /\ ~(c.intx /\ Postgres /\ txn.aborted)
        /\ Set(r, Answer(c, "blocked", c.path = "deferred"))
        /\ UNCHANGED <<conf, rows, txn, pol, approved, backups, left>>

\* Outside a transaction that has written, the rows are those from before it:
\* what it changed is then touched by others from the start.
NewBackup(c) ==
    [Backup(conf.engine, Seen(c), c.stmt, Len(backups) + 1, c.who, c.intx, conf.idents)
        EXCEPT !.touched = ChangedKeys(Seen(c), rows)]

Capture(r) ==
    LET c == calls[r]
        b == NewBackup(c)
    IN  /\ c.pc = "capture"
        /\ Wanted(c) => ~Blocked(c) /\ ~(c.intx /\ Postgres /\ txn.aborted)
        /\ IF Wanted(c) /\ Keys(c) # {}
           THEN /\ backups' = Create(backups, b)
                /\ Set(r, [c EXCEPT !.pc = "run", !.bid = b.id, !.told = TRUE])
           ELSE UNCHANGED backups /\ Set(r, [c EXCEPT !.pc = "run"])
        /\ UNCHANGED <<conf, rows, txn, pol, approved, left>>

\* Rowset's own store fails: a bound of the configuration.
StoreFails == left.faults > 0 /\ left' = [left EXCEPT !.faults = @ - 1]

\* CreateRowBackup stores the backup, then fails to remove the oldest: the answer
\* says that none was taken, and this one stays.
CaptureUntold(r) ==
    LET c == calls[r]
        b == [NewBackup(c) EXCEPT !.stray = TRUE]
    IN  /\ c.pc = "capture" /\ Wanted(c) /\ Keys(c) # {}
        /\ ~Blocked(c) /\ ~(c.intx /\ Postgres /\ txn.aborted)
        /\ StoreFails
        /\ backups' = Append(backups, b)
        /\ Set(r, [c EXCEPT !.pc = "run", !.bid = b.id])
        /\ UNCHANGED <<conf, rows, txn, pol, approved>>

-----------------------------------------------------------------------------
\* The statement runs.

Streams(c) == conf.engine \in SqlEngines /\ (c.stmt.tail = "returning" \/ c.stmt.kind = "select")

\* What may come of it: its effects; nothing, with an error; and outside the
\* transaction its effects with an error, when the answer is lost.
Outcomes(c) ==
    LET e == Effects(conf.engine, Seen(c), c.stmt)
    IN  IF c.intx /\ Postgres /\ txn.aborted THEN {Failed(rows, {})}
        ELSE e \cup {Failed(Seen(c), {})}
               \cup (IF c.intx THEN {} ELSE {[o EXCEPT !.ok = FALSE] : o \in e})

\* Outcome o of call c, whose backup is c.bid; an error inside a PostgreSQL
\* transaction leaves it aborted.
Apply(c, o) ==
    /\ rows' = IF o.rows = Seen(c) THEN rows ELSE o.rows
    /\ backups' = Noted(backups, c.bid, ChangedKeys(rows, rows'))
    /\ txn' = IF ~c.intx THEN txn
              ELSE [txn EXCEPT !.wrote = @ \/ rows' # rows,
                               !.undo = IF txn.wrote THEN @ ELSE rows,
                               !.aborted = @ \/ (Postgres /\ ~o.ok)]

Ended(c, o) == [c EXCEPT !.pc = "finish", !.out = IF o.ok THEN "ok" ELSE "error",
                         !.reached = TRUE, !.wrote = ChangedKeys(rows, rows')]

Run(r) ==
    LET c == calls[r]
    IN  /\ c.pc = "run" /\ ~Streams(c)
        /\ \E o \in Outcomes(c) :
             /\ o.hit # {} => Unlocked(c)
             /\ Apply(c, o)
             /\ Set(r, Ended(c, o))
        /\ UNCHANGED <<conf, pol, approved, left>>

\* A statement that returns rows: an error before the first row, or a stream.
Open(r) ==
    LET c == calls[r]
        o == Failed(Seen(c), {})
    IN  /\ c.pc = "run" /\ Streams(c)
        /\ \/ Apply(c, o) /\ Set(r, Ended(c, o))
           \/ /\ ~(c.intx /\ Postgres /\ txn.aborted)
              /\ Set(r, [c EXCEPT !.pc = "stream", !.streamed = TRUE])
              /\ UNCHANGED <<rows, txn, backups>>
        /\ UNCHANGED <<conf, pol, approved, left>>

Truncated(c, o) == [Ended(c, o) EXCEPT !.out = "truncated"]

\* Its rows are read to the end, to an error, or to the cap: then the read is
\* cancelled, whether or not the write had ended.
Stream(r) ==
    LET c   == calls[r]
        cap == CustomLimit(pol.customs, c.stmt, "c1", Role(c.who), pol.cap)
    IN  /\ c.pc = "stream"
        /\ \E o \in Outcomes(c) :
             /\ o.hit # {} => Unlocked(c)
             /\ Apply(c, o)
             /\ \/ Set(r, Ended(c, o))
                \/ /\ cap > 0 /\ Cardinality(Matched(Seen(c), c.stmt)) > cap
                   /\ ~o.ok /\ ~c.intx /\ Set(r, Truncated(c, o))
        /\ UNCHANGED <<conf, pol, approved, left>>

\* Seeded fault: the backup of a failed statement stays.
DiscardsNothing(c) == FALSE

\* The backup that the answer names is discarded when the statement failed, but
\* not on the live path once rows were streaming.
Discards(c) == c.told /\ c.out = "error" /\ (c.streamed => c.path = "deferred")

\* discardRowBackup: an error of the store is ignored, and the backup stays.
Discarded(i) ==
    \/ backups' = [backups EXCEPT ![i].state = "discarded"] /\ UNCHANGED left
    \/ backups' = [backups EXCEPT ![i].stray = TRUE] /\ StoreFails

\* The answer: the backup is discarded or not, then the activity is recorded.
Finish(r) ==
    LET c == calls[r]
    IN  /\ c.pc = "finish"
        /\ IF Discards(c) /\ backups[c.bid].state = "kept"
           THEN Discarded(c.bid) ELSE UNCHANGED <<backups, left>>
        /\ Set(r, Answer(c, c.out, TRUE))
        /\ UNCHANGED <<conf, rows, txn, pol, approved>>

-----------------------------------------------------------------------------
\* applyRowBackup: the backup is read, judged, and put back.  reached tells
\* whether the write it undoes had taken place when the restore was asked for.

RestoreStatement(b) == [NosqlStatement(RestoreKind(conf.engine, b), TRUE) EXCEPT !.picks = "one"]

NewRestore(who, i) ==
    [NewCall(who, "restore", RestoreStatement(backups[i]), FALSE, FALSE)
        EXCEPT !.bid = i, !.todo = backups[i].keys, !.reached = backups[i].hit # {}, !.cleared = FALSE]

\* Without a statement to run, the answer is that no row was restored: nothing is
\* judged, and nothing recorded.
SubmitRestore(r) ==
    /\ Arrives(r)
    /\ \E who \in Users : \E i \in Reachable(who) :
         Set(r, IF conf.engine \in SqlEngines /\ EmptyPlan(backups[i])
                THEN Answer(NewRestore(who, i), "nothing", FALSE) ELSE NewRestore(who, i))

Restored(r, c, new) ==
    /\ rows' = new
    /\ backups' = [Noted(backups, 0, ChangedKeys(rows, new)) EXCEPT ![c.bid] = backups[c.bid]]
    /\ Set(r, c)

\* One transaction.  Only a restore that was committed is recorded; a commit
\* whose answer is lost is answered as an error.
RestoreSql(r) ==
    LET c == calls[r]
        b == backups[c.bid]
        works == ~SqlCollides(rows, b) /\ ~SqlMissing(rows, b)
    IN  /\ c.pc = "restore" /\ conf.engine \in SqlEngines /\ Unlocked(c)
        /\ \/ works /\ Restored(r, Answer(c, "ok", TRUE), SqlRestore(rows, b))
           \/ works /\ Restored(r, Answer(c, "error", FALSE), SqlRestore(rows, b))
           \/ SqlMissing(rows, b) /\ Restored(r, Answer(c, "missing", FALSE), rows)
           \/ Restored(r, Answer(c, "error", FALSE), rows)
        /\ UNCHANGED <<conf, txn, pol, approved, left>>

\* The others put back a part at a time and stop at the first error: Cassandra
\* a batch, MongoDB a document, Redis and Elasticsearch the one they hold.
PartSize == IF conf.engine = "cassandra" THEN BatchRows ELSE 1

PartRestore(b, ks) ==
    CASE conf.engine = "cassandra" -> CassandraRestore(rows, b, ks)
      [] conf.engine = "mongodb"   -> MongoRestore(rows, b, ks)
      [] OTHER                     -> KeyRestore(rows, b, ks)

PartCollides(b, ks) == conf.engine = "mongodb" /\ b.kind = "delete" /\ ks \cap Present(rows) # {}

RestorePart(r) ==
    LET c == calls[r]
        b == backups[c.bid]
        size == IF Cardinality(c.todo) < PartSize THEN Cardinality(c.todo) ELSE PartSize
    IN  /\ c.pc = "restore" /\ conf.engine \notin SqlEngines
        /\ \E ks \in SUBSET c.todo :
             /\ Cardinality(ks) = size
             /\ \/ /\ ~PartCollides(b, ks)
                   /\ LET d == [c EXCEPT !.todo = @ \ ks]
                      IN  Restored(r, IF d.todo = {} THEN Answer(d, "ok", TRUE) ELSE d, PartRestore(b, ks))
                \/ ~PartCollides(b, ks) /\ Restored(r, Answer(c, "error", TRUE), PartRestore(b, ks))
                \/ Restored(r, Answer(c, IF PartCollides(b, ks) THEN "collides" ELSE "error", TRUE), rows)
        /\ UNCHANGED <<conf, txn, pol, approved, left>>

\* deleteRowBackup: by its owner.
DeleteBackup ==
    /\ \E i \in 1..Len(backups) :
         backups[i].state = "kept" /\ backups' = [backups EXCEPT ![i].state = "removed"]
    /\ left.edits > 0 /\ left' = [left EXCEPT !.edits = @ - 1]
    /\ UNCHANGED <<conf, rows, txn, pol, approved, calls>>

-----------------------------------------------------------------------------
\* The manual transaction, as far as the rows go (ManualTxn has the rest).

NoneInside == \A r \in Req : Busy(r) => ~calls[r].intx

Begin ==
    /\ conf.tx /\ txn = None /\ left.edits > 0
    /\ txn' = [undo |-> rows, wrote |-> FALSE, aborted |-> FALSE]
    /\ left' = [left EXCEPT !.edits = @ - 1]
    /\ UNCHANGED <<conf, rows, pol, approved, backups, calls>>

\* A transaction that is undone takes back what its statements changed; the
\* backups they took stay.
Undone == /\ rows' = IF txn.wrote THEN txn.undo ELSE rows
          /\ backups' = [i \in 1..Len(backups) |->
                IF backups[i].open THEN [backups[i] EXCEPT !.open = FALSE, !.hit = {}] ELSE backups[i]]

Commit ==
    /\ txn # None /\ NoneInside
    /\ IF txn.aborted THEN Undone
       ELSE rows' = rows /\ backups' = [i \in 1..Len(backups) |-> [backups[i] EXCEPT !.open = FALSE]]
    /\ txn' = None
    /\ UNCHANGED <<conf, pol, approved, calls, left>>

Rollback ==
    /\ txn # None /\ NoneInside
    /\ Undone /\ txn' = None
    /\ UNCHANGED <<conf, pol, approved, calls, left>>

-----------------------------------------------------------------------------
\* The surroundings: another client writes, policies are edited, a review is
\* given, the process dies.

Edit ==
    /\ left.edits > 0 /\ ~Locked
    /\ \E k \in Key :
         \/ rows[k] # Absent /\ \E c \in {"a", "b"} : rows' = [rows EXCEPT ![k][c] = 1 - @]
         \/ rows[k] = Absent /\ rows' = [rows EXCEPT ![k] = Fresh]
         \/ rows[k] # Absent /\ rows' = [rows EXCEPT ![k] = Absent]
    /\ backups' = Noted(backups, 0, ChangedKeys(rows, rows'))
    /\ left' = [left EXCEPT !.edits = @ - 1]
    /\ UNCHANGED <<conf, txn, pol, approved, calls>>

SetPolicies ==
    /\ left.edits > 0 /\ left' = [left EXCEPT !.edits = @ - 1]
    /\ pol' \in Policies \ {pol}
    /\ UNCHANGED <<conf, rows, txn, approved, backups, calls>>

Approve ==
    /\ conf.review /\ ~approved /\ approved' = TRUE
    /\ UNCHANGED <<conf, rows, txn, pol, backups, calls, left>>

Crash ==
    /\ left.crashes > 0 /\ left' = [left EXCEPT !.crashes = @ - 1]
    /\ calls' = [r \in Req |-> Idle]
    /\ txn' = None
    /\ IF txn = None THEN UNCHANGED <<rows, backups>> ELSE Undone
    /\ UNCHANGED <<conf, pol, approved>>

StatementsNext ==
    \/ \E r \in Req : \/ Submit(r) \/ SubmitDeferred(r) \/ SubmitCassandra(r) \/ SubmitDocument(r) \/ Judge(r)
                      \/ Skip(r) \/ Block(r) \/ Capture(r) \/ CaptureUntold(r)
                      \/ Run(r) \/ Open(r) \/ Stream(r) \/ Finish(r)
                      \/ SubmitRestore(r) \/ RestoreSql(r) \/ RestorePart(r)
    \/ DeleteBackup \/ Begin \/ Commit \/ Rollback \/ Edit \/ SetPolicies \/ Approve \/ Crash

StatementsSpec == StatementsInit /\ [][StatementsNext]_svars

-----------------------------------------------------------------------------
\* Properties.

\* When the backup of a write that took place is put back over rows nobody else
\* changed since, the rows are those from before the write, the columns the
\* engine refreshes on its own included (rowbackup.go:392, 607).  Two things of an
\* UPDATE in SQL are not undone: the identity columns it wrote (rowbackup.go:670),
\* and, when the answer is that no row was restored because there was nothing to
\* assign (rowbackup.go:674, 765), rows that left their key.
RestoreIsUndo ==
    [][\A r \in Req :
         LET c == calls'[r]
         IN  calls[r] # c /\ c.pc = "answered" /\ c.path = "restore" /\ c.out \in {"ok", "nothing"} =>
               LET b == backups[c.bid]
               IN  c.reached /\ b.hit # {} /\ b.touched \cap b.keys = {} =>
                     \A k \in b.keys :
                        IF b.kind = "delete" \/ conf.idents = {} THEN rows'[k] = b.before[k]
                        ELSE /\ c.out = "ok" => rows'[k] # Absent
                             /\ rows'[k] # Absent => \A col \in Columns \ conf.idents : rows'[k][col] = b.before[k][col]]_svars

\* Putting back an UPDATE leaves what others wrote meanwhile to the columns it
\* did not write, and on a SQL engine never makes a row (rowbackup.go:392, 607;
\* cassandra_rowbackup.go:123).
LaterEditsKept ==
    [][\A r \in Req :
         calls[r].pc = "restore" /\ calls'[r] # calls[r] /\ calls'[r].pc # "idle" =>
            LET b == backups[calls[r].bid]
                free == Columns \ (b.stmt.cols \cup Refreshed(conf.engine))
            IN  conf.engine \in SqlEngines \cup {"cassandra"} /\ b.kind = "update" /\ b.stmt.listed /\ ~b.stmt.moves =>
                  \A k \in Key :
                     IF rows[k] = Absent THEN conf.engine = "cassandra" \/ rows'[k] = Absent
                     ELSE rows'[k] # Absent /\ \A col \in free : rows'[k][col] = rows[k][col]]_svars

\* The answer and the store agree on the backup: one that was announced is
\* stored unless somebody removed it or newer ones pushed it out, and none is
\* left of a statement that answered with an error before it had rows to show
\* (query.go:226, 267, escalation.go:116).  A backup nobody was told of, or one
\* left of such an error, is there only because the store failed while it was
\* stored or discarded (store/rowbackups.go:33, rowbackup.go:555).
BackupMatchesAnswer ==
    \A r \in Req :
        LET c == calls[r]
        IN  c.pc = "answered" /\ c.path # "restore" /\ c.bid # 0 =>
              LET b == backups[c.bid]
              IN  /\ c.told /\ c.out = "ok" =>
                       \/ b.state \in {"kept", "removed"}
                       \/ b.state = "pruned"
                            /\ Cardinality({i \in c.bid + 1 .. Len(backups) : backups[i].by = b.by}) >= Keep
                  /\ ~c.told => b.stray
                  /\ c.out = "error" /\ (c.streamed => c.path = "deferred") => b.state # "kept" \/ b.stray
                  /\ c.out \notin {"denied", "blocked", "unreachable"}

\* Every statement that was sent to the database has exactly one record of it
\* once it is answered, whatever became of it (query.go:229, 268, 277, stream.go:147).
RanIsRecorded ==
    \A r \in Req :
        LET c == calls[r]
        IN  c.pc = "answered" /\ c.path # "restore" =>
              /\ c.rec <= 1
              /\ c.reached \/ (c.out = "denied" /\ c.path # "deferred") => c.rec = 1

\* On a read-only connection nothing a caller sends without a review changes a
\* row: not a script, not a data-changing WITH behind a SELECT, not a restore
\* (policy.go:104).
ReadOnlyNeverWrites ==
    [][conf.readOnly /\ rows' # rows =>
         \/ calls' = calls
         \/ txn # None /\ txn' = None
         \/ \E r \in Req : calls[r] # calls'[r] /\ calls[r].pc # "idle" /\ calls[r].cleared]_svars

\* A restore of a write that took place, over rows nobody else changed, works
\* when the database answers (README.md:92).
RestoreWorks ==
    \A r \in Req : LET c == calls[r]
                   IN  c.pc = "answered" /\ c.path = "restore" /\ c.out \in {"collides", "missing"} =>
                         LET b == backups[c.bid]
                         IN  ~(c.reached /\ b.hit # {} /\ b.touched \cap b.keys = {} /\ ~b.stmt.moves)
=============================================================================
