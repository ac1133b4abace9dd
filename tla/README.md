# Rowset Studio: a verification development

Rowset Studio is a local-first SQL and NoSQL workspace: a Go server
(`src/rowset-core`) that keeps its own data in SQLite, opens connections to the
user's databases, and serves a React client (`src/rowset-studio`) over HTTP. The
same server runs as a desktop program for one person and as a shared server for
a team. This directory holds TLA+ models of the parts in which goroutines,
requests, database sessions and restarts meet, the TLC configurations that check
them, and the theorems proved about them with TLAPS.

Paths below are relative to `src/rowset-core/internal` unless they begin with
`src/`. `PROJECT.json` maps each definition to the lines it models, and lists the
runs, the mutants that show each property can fail, the hazards and the findings.

## Inventory

How the parts interact: every HTTP request runs in a goroutine of its own
(`api/api.go`), passes the middleware (`api/middleware.go`: session, rate limits,
body limits), looks up its connection and grants (`api/connections.go`,
`policy/policy.go`), and then calls the engine (`engine/`), which runs one
statement on a pooled or pinned database connection. What was done is handed to
the activity buffer (`activity/`), whose one writer stores it in SQLite
(`store/`). Three background loops share that state with the requests: the
transaction reaper, the scheduler, and retention.

| Component | State it keeps | Operations | What is hard | Correct when |
|---|---|---|---|---|
| Manual-commit transactions `api/transactions.go`, `api/mongo_transactions.go` | two tables of entries (owner, claims, last use, mutex), each over a pinned database connection | begin, statement, commit, rollback, reap, delete connection, quit, close | requests overlapping each other, the reaper, deletion and shutdown; connections lost under a transaction | only the owner commits; nothing in use is reaped; every answer is true; no pinned connection leaks |
| Schema cache, lineage, snapshots `engine/schemacache.go`, `engine/origincache.go`, `store/schema.go` | catalogs with an age, loads in flight, lineage of prepared queries, persisted snapshots | read, load, invalidate, refresh | a load that overlaps DDL; waiters sharing a load; three caches invalidated one after another | nothing read before a DDL statement is served after its invalidation; every waiter is answered |
| Connection pools `engine/engine.go`, `engine/ssh.go` | open pools by settings, setups in flight, closed flag | open once, share, invalidate, close | setup overlapping invalidation, edit, close | one pool per settings; nothing survives its invalidation; nothing closed in use by the wrong party |
| Activity buffer and audit chain `activity/activity.go`, `store/audit.go`, `store/history.go` | bounded queue, batch in hand, hash chain of audit rows | enqueue, write, retry, flush, close, verify, purge | queue full, writer failing, flush racing senders, close with a deadline, purge of the chain's start | no record lost or stored twice; a flush covers what preceded it; the chain verifies |
| Scheduler `api/scheduler.go`, `api/schedule.go`, `store/schedules.go` | schedules with next run, runs, result files | tick, run, catch up, edit, delete | tick racing an edit, crash between advance and run, late ticks, two files of one name | a due run happens once; an edit is not undone; results are not overwritten |
| Workspace documents `api/workspace.go`, `store/workspace.go` | one document and version per user | load, compare-and-swap save | two windows, lost responses | no window overwrites what it has not seen |
| Row backups `api/rowbackup.go` and its NoSQL siblings, `store/rowbackups.go` | captured rows, state of each backup | capture, discard, restore, prune | capture and write are two steps; a manual transaction rolls back after the capture | a restore puts back what the write replaced, once |
| Runs on many connections `api/multirun.go` | one result per target, workers | run, stop at error, cancel | bounded workers, stop flag read between steps | every target is accounted for; after a failure none starts unless asked |
| Statement pipeline `api/query.go`, `api/stream.go`, `api/hooks.go` | none of its own | classify, authorise, back up, execute, audit, invalidate | order, early returns, a failing audit | nothing runs that was not authorised; what ran is audited |
| Sessions `api/auth.go`, `api/middleware.go`, `store/session.go` | refresh tokens, session versions, rate windows | login, refresh, revoke, logout | a token used twice, a revocation racing a refresh | one token buys one session; a revoked session is not refreshed |
| Topology `api/topology.go` | nodes with role and age, one lock per connection | refresh, route | failover between refresh and use, lock dropped by a deletion | a write goes to a node last seen as primary |
| Connections and secrets `api/connections.go`, `store/connections.go`, `vault/vault.go` | rows and sealed secrets | create, update, delete, authorise | two stores written in turn, one failing | a row's secret exists; no secret outlives its row |
| Server life cycle `api/api.go`, `app/app.go`, `api/keepawake*.go` | stop channels, wait groups, busy count | start, serve, close | order of stops, loops still at work | close ends all loops, transactions, pools, and stores the queue |
| Desktop process `app/desktop*.go` | lock file, `instance.json`, child process | start, open, stop | two starts, stale state files, slow children | one instance per data directory |
| Policies and access `policy/policy.go`, `store/governance.go` | rules, grants | decide | combination of rules | a deny or approval rule cannot be outvoted |
| CSV import `api/csvimport.go` | one transaction | import | a failing row, cancellation | all rows or none |
| SQL and CQL classification `src/rowset-core/sqlguard` | none | split, classify, merge | constant conditions, scripts, nested statements | a script hides nothing its parts would be refused for |
| Document, key and wide-column engines `engine/mongodb.go` and siblings | none of their own | one driver call each | writes that hit one of many, partial bulk writes | as the statement pipeline |
| Schema reading, exports, notebooks, AI, Slack, clients, web client, configuration | little or none | single calls | text | (not modelled, see below) |

The hazards, each at the line where it bites, are in `PROJECT.json`; the
properties of the next sections were chosen for them.

## Plan

In the order of what a failure would cost:

1. `ManualTxn`, `TxnLedger`, `ManualTxnProofs` (done).
2. `SchemaCatalog` and `OriginCache` (done), with `SchemaCatalogProofs`.
3. `PoolManager` and `Connections` (done), with `ConnectionProofs` (of both).
4. `ActivityBuffer` over `AuditChain` (done), with `ActivityBufferProofs`.
5. `Statements` over `Documents`, `RowBackup` and `Policy` (done): the statement
   pipeline, the engines it ends in, row backups and restores, with `StatementsProofs`.
6. `SqlGuard`, `Verdicts`, `PolicyAdmin`, `Decisions` (done): what a statement is
   judged by, with `DecisionsProofs` (of `Verdicts`, `PolicyAdmin` and `OriginCache`).
7. `Scheduler`, `Workspace`, `Sessions` (done), with `SchedulerProofs` and
   `ClientProofs` (of `Workspace` and `Sessions`).
8. `MultiRun`, `CsvImport`: workers and a stop flag, one transaction with batches.
9. `Desktop`: the lock file and `instance.json`.

Each module takes its parameters as CONSTANTS with named assumptions and has one
action per critical section or external call, so that it can be proved about as
well as checked. Only `SqlGuard` and `Decisions` declare RECURSIVE operators; they
are for TLC alone.

## Manual-commit transactions: `ManualTxn`

### Correspondence

| TLA+ | Code |
|---|---|
| `txns`, `owner`, `running`, `idle` | `Server.txns` and `Server.mongoTxns`, an entry's `userID`/`connectionID`, `running`, and whether `lastUsed` is older than `transactionIdleTimeout` |
| `mu` | `item.mu` |
| `link`, `closed` | `engine.Transaction.State()` of the pinned connection, and that `close` has run |
| `db` | what the database did with the transaction |
| `conns`, `serving` | the saved connections, and whether calls still arrive |
| `pc`, `op`, `arg`, `answer` | where each request stands, which call it serves, on which transaction, and what it was answered |
| `victims` | entries a sweep has deleted from the table and not yet rolled back |
| `BeginCount`, `BeginRoute`, `BeginOpen`, `BeginInsert` | `beginTransaction`, `mongoBeginTransaction`, step by step |
| `Entry`, `EntryExpired`, `EntryNotFound`, `Done` | `transactionEntry` and the release it returns |
| `Lock`, `RunStatement`, `RunLost`, `RunMongo`, `RejectBody` | `transactionQuery` and the MongoDB document calls |
| `Drop`, `FinishLost`, `FinishCommit`, `FinishRollback`, `FinishMongo` | `finishTransaction`, `finishMongoTransaction` |
| `Collect`, `Sweep`, `SweptSql`, `SweptMongo`, `ReaperTick` | `reapIdleTransactions`, `closeConnectionTransactions`, `transactionReaper`, and `Close` |
| `DeleteConnection`, `Quit`, `Shutdown` | `deleteConnection`, `localQuit`, `Server.Close` |
| `LoseConnection`, `IdleTimePasses` | the environment: a session is killed, time passes |

A step is one critical section of a table's lock, one acquisition of `item.mu`,
or one use of the transaction under `item.mu`. The two tables are one set of ids;
an id belongs to MongoDB's table when its connection is a MongoDB one. What a
request checks before it touches a table (session, grants, policy) changes
nothing here and only decides whether the call happens at all.

`TxnLedger` is the contract of the tables: an id is listed once and never comes
back, the database decides once, and nothing is committed while the table still
offers the transaction. `ImplementsLedger` maps `stage` to whether the id is
listed, was listed, or never was, and `outcome` to `db`.

### Runs

| Run | Instance | Shows |
|---|---|---|
| `ManualTxn_sql` | 2 requests with every call but quit, 2 SQL transactions, limits 1 and 2 | idle check, answers, no leak; the limit is passed by no more than the begins in flight; `TxnLedger` is implemented |
| `ManualTxn_mongo` | 3 requests of 2 users with every call but delete, 1 MongoDB transaction | only the owner commits |
| `ManualTxn_live` | 2 requests that begin, query and delete, 1 SQL transaction, fair | every call is answered (`EveryCallAnswered`); an unused entry is reaped, and a transaction listed after its connection was deleted ends (`NoneStays`) |
| `ManualTxn_lost` | 2 requests that begin and commit | the finding below |

Why the bounds are enough: entries interact only through the counts of a begin
and through a sweep's set of victims, so one transaction shows the races on an
entry, with the reaper and the closer beside the requests, and two transactions
with a limit of one show the counting. The MongoDB run has the third request: one
at work, one waiting for the lock, one claiming. An id is used once, which bounds
every behaviour by the number of ids but not by the number of calls: calls repeat
for ever. MongoDB has one idle rule less (`TooOld`), so the two sides have a run
each. The fair run leaves commits and rollbacks out for its length: with `commit`
added it holds, too (202,380 states), and takes close to five minutes.

### Fairness

`FairSpec` asks strong fairness of what a process does next (`Onward`): a
handler goroutine runs on, a statement, commit or rollback returns in the end
(statement timeouts, TCP), and a `sync.Mutex` hands over to a waiter after a
millisecond of starvation, so a lock that is free again and again is got in the
end. Time passes (`IdleTimePasses`) and the ticker fires (`ReaperTick`) while the
server serves. No client has to call, no connection has to be lost, nobody has to
shut the server down, and a request body does not have to be rejected.

### Finding

`ManualTxn_lost`: of two overlapping commits, both claim the entry before either
takes `item.mu`. The first commits and gives the connection up; the second sees
`State()` lost and answers "the database discarded its uncommitted changes"
about changes that were committed (`api/transactions.go:200`).

Seen on the way: `localQuit` counts only the SQL table (`api/local.go:90`), so with a
MongoDB transaction open it agrees to stop; `Quit` models it as it is. And the count and the insertion of a begin are two critical sections,
so begins that overlap pass the limit of open transactions (`src/CHANGELOG.md:1165`).
`OverrunBounded` says by how many at most.

### Proofs: `ManualTxnProofs`

From `ProcessAssumption` and `LimitAssumption` alone, for any number of requests,
users, connections and transactions:

| Theorem | Property |
|---|---|
| `TypeCorrect` | `TypeOK` |
| `ClaimsAreCounted` | `ClaimsCounted` |
| `MutualExclusion` | `OneAtATime` |
| `ListedUsable` | `ListedIsUsable` |
| `NeverReaped` | `NeverReapedInUse` |
| `OwnersCommit` | `OnlyOwnerCommits` |
| `NeverLeaked` | `NoneLeaked` |
| `CommitsAnswerTrue` | `CommitAnswersTrue` |
| `OverrunIsBounded` | `OverrunBounded` |
| `LedgerIsImplemented` | `ImplementsLedger` |

The argument has three layers, each proved with the ones before it.

1. `Shape`: the types but for the claim counts, that a request past the claim has
   a transaction (`ArgIsTxn`), the life of an id (`Life`: who has an owner was
   begun, who is at insertion is not listed yet, what is listed was begun), `OneAtATime` and `ListedIsUsable`.
   `ListedIsUsable` needs the mutex: a commit closes the handle only after `Drop`
   delisted it under `item.mu`.
2. `Counts`: `running` equals the cardinality of the set of claimants. The step
   that claims adds one element to a finite set, `Done` removes one, and every
   other step leaves the set alone; this gives that a count is a natural number,
   the part of `TypeOK` that is not inductive by itself.
3. `Unused`: a sweep picks what has `running = 0`, so by layer 2 it has no claimant
   at that moment, and what is not listed gets none later.

`ClaimsCounted`, `OneAtATime` and `ListedIsUsable` are steps of the argument and
properties of no run.

`OnlyOwnerCommits` follows from layer 1: who commits holds `item.mu`, passed
`Authorized` at its claim, and an entry's owner does not change while claimed.

`NeverLeaked`: inductive is that every transaction that is open is *covered* by one of
three holders (the table, a sweep's victims, a request that inserts or finishes); each
step that takes a transaction from one holder gives it to the next or ends it, in the
same critical section. Both uses of a lost connection (`RunLost`, `Sweep`) end it.

`CommitsAnswerTrue` needs what is true before the answer: a call that may still be
answered about `t` has no answer yet (`Pending`), and a link says what the database
did (`LinkTells`): while the link of a SQL transaction is alive, active or aborted, the
database has not decided; MongoDB may have discarded one whose session is alive; a
closed handle means that the link is lost and the decision made. Then an answer is given at the step that decides, and the
database never decides twice, so no later step makes an answer untrue.

`OverrunIsBounded`: `OverrunBounded` counts the entries of one table against the begins
on both and is not inductive. `Overrun` is: on *each* table, a user's entries and begins
that have counted are together fewer than the limit and the requests of that user on
that table. A begin that counts finds the entries below the limit, and the begins
are no more than the requests; an insertion turns a begin into an entry. Adding the
begins on the other table to both sides gives the property.

`LedgerIsImplemented`: the refinement mapping is `Stage` and `db`. One lemma per action
shows which step of `TxnLedger` it is; the steps that list, delist and decide need
layer 1 to know that the id was in the right stage before.

All safety properties of `ManualTxn` are proved. Checked by TLC only are the liveness
properties `EveryCallAnswered` and `NoneStays`, which are out of the prover's reach.

## What is remembered of a schema: `SchemaCatalog`, `OriginCache`

### Correspondence

| TLA+ | Code |
|---|---|
| `version` | the catalog in the database; a change made through Rowset makes a new one |
| `cache` | `schemas.entries`: a loaded entry is its version, one that is loading is known by the request that loads it |
| `lineage` | `origins.entries`, for one statement; `OriginCache` has the map and its ring |
| `snapshot` | the table `schema_snapshots` |
| `loader` | the entry whose `ready` channel a request waits on |
| `LookupReady` ... `GiveUp` | `Manager.CachedSchema` |
| `SnapshotHit`, `SnapshotMiss`, `Save` | `connectionSchema` around it |
| `Change`, `ChangeDone`, `ChangeFails`, `Stream` | `executeQuery` for a statement that changes objects, with and without rows |
| `ForgetOrigins`, `ForgetSchemas`, `ForgetSnapshots` | `InvalidateSchema`, `DeleteSchemaSnapshots` |
| `LineageHit` ... `Keep` | `columnOrigins` |
| `settled`, `floor` | history: the newest change calls have reported, and what had been reported when a request arrived |
| `spared` | history: the snapshots, and the lineage, that were kept by a request whose reading a change had overtaken, and the old snapshots a deletion failed to delete |

The calls are `read` (the assistant's, from the cache alone), `schema` and
`refresh` (the explorer's), `forget` (`refreshConnectionSchema` and the edit of a
connection), `select` (a statement with lineage), and three that change objects:
`ddl`, `rows` (a procedure call, answered while it streams) and `cql`.

A loaded catalog is as old as its first query, so one step reads it. What a
change does to the catalog is one version; a change that was answered with an
error may have taken effect all the same.

### Runs

| Run | Instance | Shows |
|---|---|---|
| `SchemaCatalog_safe` | 2 requests with every call, a third that reads, refreshes and forgets beside them, 2 databases, 1 change | loads that overlap DDL and refreshes never serve what was reported outdated (`AnswersAreFresh`); snapshots and lineage outlive no change but for those in `spared` (`ChangesAreForgotten`); whoever waits for a load waits for one that is under way and will send it on (`WaitersAreAwaited`) |
| `Decisions_Activity` | 5 statements, 2 connections, 3 slots | the ring of `OriginCache` stays bounded (see the section on decisions) |

Why the bounds are enough: staleness takes a load that begins before a change, the
change with its invalidation, and a reader after it; a request that was answered
comes back as the next reader, and a load goes on when its caller has given up, so
two slots play all the parts. A waiter, a dropped load and a refresh beside it take
three: `MCSchemaCatalog` lets a third request join when all that are busy read,
refresh or forget one database's schema and nothing has changed yet (`Crowded`,
`Together`), and leaves out pairs of calls that share no state, and lineage beside snapshots (`Tell`). Databases meet only where everything is forgotten at
once, so two are enough. Ageing (`schemaTTL`) may happen at any time, so no clock is
kept. The catalog differs by version only, and a second change adds no case: what is
compared is older or newer than the one a request was told of.

### Waiting

No fairness is assumed here. A waiter's end is reduced to a safety property:
`WaitersAreAwaited` says that the load it waits for is under way, in the same
database, also after the entry was dropped from the map and after the caller of the
load went away (the load runs under a context of its own). That such a load ends is
the timeout of its catalog queries (`engine/schemacache.go:86`).

### Known limits of the code

The model has these cases, the properties name them as exceptions, and `PROJECT.json` lists them as hazards:

* a request that loaded the schema before a DDL statement saves its snapshot after
  the deletion (`api/connections.go:701`); nothing expires it. Excused by `spared`. The
  schema cache itself has no such case: it takes an entry out of the map while the
  entry is still loading, and `AnswersAreFresh` holds;
* an error of `DeleteSchemaSnapshots` is dropped wherever a change is reported
  (`api/query.go:297`, `api/transactions.go:227`, `api/connections.go:306`, `335`, `716`),
  in part under the context of the request, so that a client that went away is enough:
  the snapshot stays, and the change is answered all the same. `ForgetSnapshots` may
  fail, and `spared` names the databases whose snapshot stayed and was old, until it is saved anew
  from what is current, or deleted;
* a lineage resolved before an `ALTER` is cached after it (`engine/origincache.go:39`;
  excused by `spared`). The comment on the cache says that the coarse invalidation
  "cannot leave a stale lineage behind" (`engine/origincache.go:17`); it holds of what
  is in the cache when it is forgotten, not of what is put there later;
* CQL forgets the cache and not the snapshots (`api/cassandra.go:109`;
  `ChangesAreForgotten` speaks of SQL there);
* a script that took effect in part and then failed forgets nothing
  (`api/query.go:265`; it is not `settled`).

The proofs about `OriginCache` are in `DecisionsProofs` (below).

### Proofs: `SchemaCatalogProofs`

From `CatalogAssumption`, for any number of requests, databases and changes:
`TypeCorrect`, `AnswersStayFresh` (`AnswersAreFresh`), `ChangesStayForgotten`
(`ChangesAreForgotten`), `WaitersStayAwaited` (`WaitersAreAwaited`). The assumption says
that database names are told from `None` and from the tag `"lineage"` in `spared`.

None of the three is inductive, for they speak of changes that were reported, and a
cache must be good before the report. The invariant therefore speaks of reports to
come: a change is forgotten in the order lineage, schemas, snapshots, report
(`forgetSchemaAfter`), so each cache is as new as every change that has passed it
(`AsNew`: `NewLineage`, `NewSchema`, `NewSnapshot`), and a load that is ready counts as
an entry. To that come `Owned` (an entry that is a load is that of one request, at
work on that database), `Awaited` (who waits is on the list of a load under way),
`Ordered` (nothing is reported or made that the database does not have) and `Served`
(what a request has read is as new as it may ask). That a load ends is not claimed.

## Pools of database connections: `PoolManager`

### Correspondence

| TLA+ | Code |
|---|---|
| `pools`, `opening`, `closed` | `Manager.pools`, `.opening`, `.closed`; the key stands for what `poolKey` digests |
| `row` | the connection's settings in the store, by version, or `Gone` |
| `open` | the pools whose `sql.DB` and SSH tunnel are open |
| `key`, `pool`, `opener`, `doomed` | what a request holds: the settings it read, its pool, the setup it waits for, the pools it took out to close |
| `ReadRow` | `authorizedConnection`, `engineConnection` |
| `Refuse`, `Share`, `JoinSetup`, `BeginSetup`, `Setup`, `Store`, `Discard` | `Manager.database` |
| `Use` | the statement that runs on the pool |
| `Edit`, `Delete` | `updateConnection`, `deleteConnection` up to `Invalidate` |
| `Invalidate`, `ClosePool`, `Invalidated` | `Manager.Invalidate` and `Manager.Close` |
| `overtaken` | history: setups and pools an `Invalidate` came after |

A step is one critical section of `Manager.mu` or one thing done outside it. The
pools of MongoDB and Redis clients follow the same protocol in code of their own and
are not modelled.

### Run

`PoolManager_setup` has three requests, two pools and one edit, under fairness: what was called off is not stored (`OvertakenIsNotStored`), nothing leaks
(`NoneLeaked`), settings that have a pool are not set up again and nobody gets a pool
its opener closes (`SharedIsWanted`), and who waits for a setup that is called off is
answered (`EveryCallAnswered`). `Calls` gives each request its calls: all
three query, one edits or deletes, one deletes or closes.

Why the bounds are enough: a setup, one who waits for it, and one who invalidates are
three requests; two versions of the settings give a setup with the old ones beside
one with the new. A pool that is closed and held by nobody is used again, so the
number of setups is not bounded by the number of pools.

### Fairness

Weak fairness of `Proceed(r)`: handlers run on, and a dial or an open ends, which the
drivers' and the tunnel's timeouts see to. No client has to call.

One case the model has and no run refutes is a hazard: a request that read the row
before an edit opens a pool with the old settings after the edit's `Invalidate` has
returned (`engine/engine.go:992`).

### Proofs of the pools: `ConnectionProofs`

From `PoolAssumption`, for any number of requests, pools and edits: `NeverStored`
(`OvertakenIsNotStored`), `NeverLeaked` (`NoneLeaked`) and `WantedIsShared`
(`SharedIsWanted`). None of the three is inductive. What is: `Pending` (an entry of
`opening` names a setup for just these settings that nothing overtook, beside no pool
for them, and a setup that no entry names was overtaken), `Unshared` (a pool its
opener has not stored is in no other request and not in the map), `Marked` (a pool is
overtaken with its setup) and `Stages` (what a request holds at each stage; above all
that only a request that is closing pools has any to close). There is one lemma per
action, with one step per conjunct. `EveryCallAnswered` stays with TLC.

## The activity buffer and the audit chain: `ActivityBuffer`, `AuditChain`

### Correspondence

| TLA+ | Code |
|---|---|
| `queue`, `batch`, `writer` | `Buffered.queue`, the batch `run` collects, and where the writer goroutine stands |
| `closer` | `Close`: `shutdown` closed, `closing` locked, queue closed, writer cancelled, returned |
| `writing`, `head`, `rows` | who is in `WriteActivity` under `auditMu`, the chain head it read, the table `audit_log` |
| `pc`, `rec` | where each request stands and the record it hands over |
| `Enqueue`, `EnqueueNot`, `EnqueueRoom`, `EnqueueGivesUp` | `enqueue`: at once, closed or full, when room appears, when the shutdown or `enqueueWait` ends the wait |
| `BeginDirect`, `WriteDirect` | the write around the writer that follows |
| `EnqueueBarrier`, `BarrierNot`, `BarrierRoom`, `BarrierShutdown`, `FlushTimesOut`, `List` | `Flush` and `enqueueBarrier` before a read |
| `Receive`, `CollectMore`, `Collected` | the batching loop of `run` |
| `BeginBatch`, `CommitBatch`, `FailBatch`, `RetryBatch`, `Abandon` | `store`: one transaction, and what follows when it fails |
| `Release`, `Finish` | the barriers of a batch are answered; the closed queue is empty |
| `CloseBegins`, `CloseQueue`, `CloseDrained`, `CloseDeadline`, `CloseLeaves` | `Close` |
| `Purge` | `PurgeActivity` for one cutoff |
| `Chained`, `ChainHead`, `Breaks` | the hash chain of `WriteActivity` and `VerifyAuditChain` |
| `Records`, `Kept` | what of a batch goes into the table; what of the table retention leaves: a sequence without some of its places (`Select`) |
| `made`, `accepted`, `abandoned`, `purged`, `due` | history |

A step is one operation on the queue's channel, one change of a lock, or one end of
a SQLite transaction. A barrier is known by the request that waits behind it. An
audit entry is known by its record, and so is its hash: two entries never hash alike.
The history and client rows of a record are stored in the transaction of its audit
entry and are not told apart from it. There is one organisation; chains of two never
meet. `PurgeActivity` deletes in chunks of 2000 rows until nothing older than its
cutoff is left; the model takes the chunks of one cutoff together.

### Runs

| Run | Instance | Shows |
|---|---|---|
| `Decisions_Activity` | 2 senders, one of which reads, too, 2 records, a queue of 1, batches of 2, fair | nothing accepted is lost or stored twice (`KeptOnce`), a flush covers what preceded it (`FlushCovers`), the chain does not fork (`ChainUnforked`), a finished `Close` leaves nothing behind and nothing is sent on the closed queue (`ClosedMeansStored`), calls and `Close` end (`EveryCallAnswered`), and records are stored if writes succeed again and again (`StoredInTheEnd`) |
| `ActivityBuffer_purge` | the same | the finding below |

`Decisions_Activity` (82,630 states) is also the run of `Decisions`: the two share
nothing, so `MCDecisions` chooses one in the initial state.

Why the bounds are enough: a queue of one is full with one record, so a sender waits
while the other one reads, and the writer holds a batch while the queue fills. Two
records make a fork, a half-written batch, and a second batch behind a failing one.
The safety properties were checked with three records and both requests reading, too.

### Fairness

Strong fairness of `Call(r)` and `Run`: goroutines run on, and a `sync.Mutex` and an
`RWMutex` hand over to who waits. Weak fairness of `Timer(r)` and `Close`: timers fire.
A write ends, but nothing says that it succeeds: `EveryCallAnswered`
holds with a database that never takes a write. `StoredInTheEnd` adds
strong fairness of `CommitBatch` as its premise.

`FlushCovers` excuses reads during a shutdown: `Flush` returns without an error when
`Close` has begun (`activity/activity.go:278`) though the queue is not empty yet.

### Finding

`ActivityBuffer_purge`: retention deletes the oldest entries, and `VerifyAuditChain`
expects the first entry that is left to chain from nothing, so it reports a table
nobody altered as broken (`store/store.go:239`, against `api/audit_verify.go:9`).
`ChainUnforked` shows that this is the only break there is.

### Proofs: `ActivityBufferProofs`

From `BufferAssumption`, for any requests, number of records, capacity of the queue and
size of a batch:

| Theorem | Property |
|---|---|
| `TypeCorrect` | `TypeOK` |
| `RecordsKeptOnce` | `KeptOnce` |
| `FlushesCover` | `FlushCovers` |
| `ClosedStoresAll` | `ClosedMeansStored` |
| `ChainNeverForks` | `ChainUnforked` |

The inductive invariant `IInv` was checked by TLC with three records and both requests
reading before it was proved. Its parts, with a lemma each that every step keeps them:

1. `Fresh`: a record that a request holds is its own and in no other place yet; without
   it a record could be queued twice.
2. `QueuedOnce`, `StoredOnce`, `Accounted`: where an accepted record can be, and that
   it is in one of these places only. `StoredOnce` needs `Hand` to end with the commit:
   a batch that failed is still in hand, one that was committed is not.
3. `Barriers`: a barrier lies *behind* what its read is due. Everything due is stored,
   given up, in hand, or in front of the barrier in the queue (`Before`), and the batch
   that holds the barrier is behind nothing but what is covered already. `FlushCovers`
   follows when the batch is let go.
4. `OneWriter`: who is in a transaction is alone, and the chain head it has read is
   the table's still; `ChainUnforked` is inductive with it. After retention the
   first entry chains from what was removed, which is why the second clause of
   `ChainUnforked` says "unless retention removed that one".
5. `Ends`: the writer ends last. `ClosedMeansStored` follows from it and `Accounted`.

What is left of a sequence (`Records`, `Kept`) is defined with `InOrder`, the one
increasing enumeration of the places kept, and not by recursion. That it exists for
every set of places is proved by a least counterexample (`Listed`), from the
well-foundedness of inclusion between finite sets (`Least`).

Checked by TLC only are the liveness properties `EveryCallAnswered` and
`StoredInTheEnd`.

## A statement and its row backup: `Statements`, `Documents`, `RowBackup`

### Correspondence

| TLA+ | Code |
|---|---|
| `rows`, `txn` | one table of the user's database with the uncommitted writes of a manual transaction, and what undoes it |
| `pol`, `approved` | overrides, custom policies and the row cap in force; a review that was given |
| `backups` | the table `row_backups` with history: what became of each backup, which keys its write changed and which of its keys were changed since |
| `calls` | each request: its path, its statement, where it stands, its answer, and how often it was recorded |
| `Submit`, `SubmitDeferred`, `SubmitCassandra`, `SubmitDocument` | `executeQuery`, `ExecuteDeferred`, `cassandraQuery`, and the guard of document and key writes up to the decision |
| `Judge` | policies, reviews, read-only sessions and routing, in the order of each path |
| `Skip`, `Block`, `Capture` | `captureRowBackup` and its counterparts: reading failed, refused, taken |
| `CaptureUntold`, `Discarded` | the two places where the store may fail: `CreateRowBackup` stores the backup and cannot prune, so the answer says skipped; `discardRowBackup` ignores the error of the deletion. Either way the backup stays, and is `stray` for the properties |
| `AfterFailedRead` | what the savepoint around the read leaves of a PostgreSQL transaction |
| `Run`, `Open`, `Stream`, `Finish` | execution, streaming with the row cap, discarding of the backup, activity record |
| `SubmitRestore`, `RestoreSql`, `RestorePart`, `DeleteBackup` | `applyRowBackup` for SQL, and for Cassandra, MongoDB, Redis, Elasticsearch part by part; `deleteRowBackup` |
| `Begin`, `Commit`, `Rollback` | a manual transaction as far as rows go (`ManualTxn` has the rest) |
| `Edit`, `SetPolicies`, `Approve`, `Crash` | other clients, administrators, reviews, the end of the process |
| `Target`, `BackupColumns`, `BackupKeys`, `Backup` (`RowBackup`) | `backupTargetOf`, `backupSelectList`, the reads of `captureRowBackup`, for each engine |
| `AssignedColumns`, `EmptyPlan` | what `restorePlan` assigns of an UPDATE (no identity column), and a plan without a statement, answered before any policy is asked |
| `SqlRestore`, `CassandraRestore`, `MongoRestore`, `KeyRestore` | `restorePlan`, `cassandraRestoreStatements`, `mongoApplyRestore`, `RedisRestoreSnapshot` |
| `Mongo...`, `Redis...`, `Elasticsearch...` (`Documents`) | the handlers of documents and keys and the engine calls they end in |

A table is a function from keys to rows of two data columns and one the engine keeps
itself (MySQL's `ON UPDATE`, a Redis expiry). A statement is `sqlguard.Info` without
its text, with the rows it picks, the columns it writes, and how its text ends.
Statement hooks, result hooks and the holding of statements for review have no
implementation in this repository and are external: a call is cleared when a review
was given, or is not. "Held for review" is therefore not an answer here.

### Runs

| Run | Instance | Shows |
|---|---|---|
| `Statements` | 19 configurations, see below | an announced backup is stored, and one that is not announced stays only where the store failed (`BackupMatchesAnswer`), what ran is recorded exactly once (`RanIsRecorded`), a restore undoes the write (`RestoreIsUndo`) and only it (`LaterEditsKept`), read-only connections are not written without a review (`ReadOnlyNeverWrites`) |
| `Statements_mongo` | one client, one MongoDB collection | the finding below |

The configurations: MySQL with a refreshed column, with one and with two requests;
SQL Server with moved keys and UPDATEs whose SET list cannot be read; PostgreSQL with a manual transaction, with
one and with two requests; the same with a row missing, so that a key can come back, with three calls
(a backup taken outside the transaction while it is open, restored after it ended) and
with a crash that rolls it back; PostgreSQL read-only with scripts, a data-changing `WITH`
and reviews; PostgreSQL behind a secondary with a limit of one row; PostgreSQL
without a primary key, with a crash; Cassandra; MongoDB; Redis twice, once with a crash; Elasticsearch;
PostgreSQL with one column an identity, and with all of them (so that an UPDATE of nothing
else, or of the key alone, has an empty plan); PostgreSQL with a manual transaction, and MongoDB
with two requests, each with a store of Rowset's own that fails once.
Each has two keys, two or three calls, and up to two interventions of others; `faults` bounds
the failures of the store.
`Keep` is 1 (100 in the code) so that pruning happens, and `BatchRows` is 1 (50), so
that a Cassandra restore has two batches and can stop between them.

Why that is enough: a restore is judged by a write, an intervention and the restore,
three calls at most. One key picked and one not shows a filter; two rows hit show
batches, partial restores and the limit.

Left out: two backups of one user made in the same second, whose order in the
pruning is open; the cap of rows returned inside a manual transaction; Redis `DUMP` and `PTTL`,
which are two commands in the code and one step here; backups within a MongoDB
transaction; encryption and the text of literals.

`RestoreIsUndo` asks that the write had taken place when the restore was asked for, that the
write changed rows, and that nobody changed its keys since. The premises are there because a
backup of a transaction that was rolled back stays (`api/rowbackup.go:434`, a hazard). "Nobody"
includes the manual transaction: a backup taken outside it holds the committed rows, so what the
transaction had changed by then counts as changed by others (`touched` in `NewBackup`), whether it
commits or not. `LaterEditsKept` speaks of the steps of a restore; a crash, which ends the
restore and rolls the transaction back, is none.

Two things an UPDATE in SQL is answered as restored for, and `RestoreIsUndo` does not claim.
`restorePlan` never assigns an identity column (`api/rowbackup.go:662`), so a value the
UPDATE wrote to a `BY DEFAULT` identity outside the key stays. When nothing is left to assign (identity columns only,
or the key itself, where a table has no other column) there is no statement, and the
answer is 200 with zero rows, without policies or a record (`674`, `765`): `RestoreIsUndo` then
says that rows still under their key are as they were but for identity columns; a moved key
is not moved back. Documented nowhere; `hazards` has it.

A failed read inside a PostgreSQL transaction goes back to a savepoint, and the error of
going back is ignored (`482`): `AfterFailedRead` has both outcomes, and that "a failed backup
read never aborts the caller's transaction" (`432`) is claimed by no property.

### Finding

`Statements_mongo`: `mongoCaptureBackup` keeps every document the filter matches,
`MongoDB.UpdateOne` and `DeleteOne` change one. Restoring such a delete inserts a
document that is still there and stops with a duplicate key
(`api/mongodb.go:340`, against "MongoDB/Redis/Elasticsearch back up one document or
key at a time" and "Row backups restores them in one click", `src/README.md:94`).

### Proofs: `StatementsProofs`

From `RowBackupAssumption` (there are finitely many keys, and at least one) and
`StatementsAssumption` (backups are kept at all; a statement writes columns of the table,
and an UPDATE or DELETE without a `WITH` is judged as what it is; a request on documents or
keys that is judged as one that reads ends in a call that reads, as each handler of
`Documents` does; manual transactions are of SQL engines), for any number of requests, any
keys, limits, policies and reviews:

* `StatementsInvariant`: the inductive invariant `IInv`. `Proceeding` follows each call
  through its stages: what it may have recorded, whether it has reached the database,
  whether it can have a backup, and, where the connection is read-only, that it was
  cleared or does not write. `Booked`, `Distinct` and `Owned` tie backups to calls: a backup
  belongs to one call at most, only that call discards it, and what was pushed out has
  `Keep` newer ones of its owner, whatever is taken or removed later.
* `RecordedOnce` (`RanIsRecorded`) and `BackupsAsAnswered` (`BackupMatchesAnswer`) follow
  from it: a backup without an announcement, or left of an error, is one the store failed on
  (`stray`, set in `CaptureUntold` and `Discarded` alone).
* `ReadOnlyIsKept` (`ReadOnlyNeverWrites`), an action property: what passed the policies
  of a read-only connection without a review is not judged as a write (`Refusing`:
  whatever overrides and custom policies say, no rule that fires can end in "allow"),
  what is not judged as a write changes nothing on any engine (`Reading`), and a restore
  is judged as a write that no review clears.

None of this looks at the rows, which may hold anything. Every step of a call is first
shown to be one of four kinds (`Moves`: it leaves the backups with their owners and
states, makes one, or finishes and perhaps discards its own), so that the invariant is
proved once per kind and not once per action.

What the rows become needs a second invariant, `RowsInv`, inductive beside `IInv`
(`RowsInvariant`). `Typed` gives the rows their type and says that each backup is
`Faithful` to the statement it was taken for. `Unwritten` and `Undoing` say that a backup
whose statement has yet to run is as it was taken, and that a restore on its way has keys
of its backup left. The other three follow the table since the backup was taken, at the keys
nobody else wrote: the columns a backup leaves out are what they were (`Standing`), what an
open transaction would take back of them is what is there (`Pending`), and what a restore in
parts has put back is back (`Partial`). `Pending` is what a rollback or a crash needs: without
it, undoing a transaction could bring back rows that another backup's restore relies on. Steps
are again taken by kind: they leave rows and backups alone (`Quiet`), run a statement
(`Applied`), put keys back (`Puts`), take a backup (`Takes`) or end the transaction
(`TxnEnds`). Under them are lemmas about the engines of `Documents`: every outcome is a
table (`EffectsLeave`), an UPDATE removes no row and writes only its columns (`UpdateStays`),
what hits no row of a SQL table leaves it alone (`NothingHit`).

* `UndoIsExact` (`RestoreIsUndo`): a key put back in the last step is exact because the
  backup assigns it whole or `Standing` covers the rest; a key of an earlier part by `Partial`.
  An empty plan leaves the rows, and `Standing` says what they are.
* `EditsSurvive` (`LaterEditsKept`): the columns of the backup of such an UPDATE are those it
  wrote and those the engine refreshes (`NarrowColumns`), and a restore on a SQL engine
  goes over rows that are there.

## What a statement is judged by: `SqlGuard`, `Verdicts`, `Policy`, `PolicyAdmin`, `Decisions`

### Correspondence

| TLA+ | Code |
|---|---|
| `Lex`, `SplitStatements`, `Parse`, `ParseCQL` (`SqlGuard`) | `LexDialect` beyond its characters, the splitting of scripts, the classification of a statement, the CQL batch |
| `MergeScript`, `Verdict`, `MergeBatch` (`Verdicts`) | `mergeScript` and the folding of a batch: one record that is judged for several statements |
| `ConstantBoolean`, `HasWhere`, `WritesHaveEffectiveWhere` | `constantBoolean` and the test for a WHERE that restricts |
| `Guardrails`, `Evaluate` (`Policy`) | `policy.Evaluate`, rule by rule in its order |
| `Resolved`, `Disabled`, `Enabled`, `Value` | `resolvePolicies`: everyone's overrides, the connection's, the role's, each applied over the one before |
| `CustomDecision`, `CustomLimit` | custom policies in `api/query.go` |
| `overrides`, `customs`, `TogglePolicy`, `DeletePolicyScope`, `PutCustomPolicy`, `PatchCustomPolicy`, `DeleteCustomPolicy`, `ListPolicies` (`PolicyAdmin`) | `api/policies.go` over `store/governance.go` |

`Statements` uses the same `Policy` operators at each call. `Decisions` puts the four
parts that need no table together (`SqlGuard` over `Verdicts`, `Policy`, `PolicyAdmin` and
`OriginCache`, the ring of the lineage cache): they share no state, so `part` picks
one in the initial state, and one run covers them.

### Run

`Decisions_Activity`, in the half that runs `Decisions` (23,989 states): every script of up to two of 24 sample statements, alone
and as a Cassandra batch; every condition of up to three operators over two constants
and two comparisons that vary, with SQL's three-valued logic as the reference; every
state of one built-in policy's overrides at a time, for everyone, for two connections
and for a role, and those of the row cap with a custom policy; a ring of three slots with five statements on
two connections. A behaviour that has reached the bounds stutters.

* `ScriptHoldsItsParts`: what is refused alone is refused in a script, and the marks
  for session state, transaction control and secondaries are not lost. It also checks
  that every sample is classified as `IsSingle` says, which the theorems below assume.
* `ConstantsAreTrue`: a condition said to hold (or fail) on every row does.
* `ListedIsEnforced`: `listPolicies` and the decision are two computations over the
  same overrides; they agree.
* `Bounded`: of `OriginCache`.

Why the bounds are enough: merging two statements is done pairwise by kind, so two
show every pair. Three operators have each operator above and below each other one.
Overrides of different policies do not meet in the code (each key is folded alone),
and a custom policy meets a built-in one in the row cap only (`CustomLimit`).

Sampled, not exhausted: the comparisons in conditions are `=` and `<>` (`<`, `>`, `!=`, `<=`,
`>=` are not among them), and the custom policies that `ListedIsEnforced` meets are row caps; the other
kinds are in `Statements`, where a `deny_statement` takes part in judging.

Gaps: the lexer (quotes, comments, dialects, `#temp` names) is not modelled; a script
is a sequence of words. `1 = 1.0` is compared by text and is no constant. `x = x` on a
NULL counts as true in the code and is not among the samples. `ListedIsEnforced`
leaves out `deny_select_without_where` and `limit_rows` once their row for everyone
is deleted: the list then shows the catalogue's default while the decision has the
engine's (`api/policies.go:155`, `policy/policy.go:80`).

`SqlGuard` and `Decisions` declare RECURSIVE operators where the code recurses
(`ConstantBoolean`), so they are for TLC only; `Policy`, `PolicyAdmin` and `Verdicts`
declare none and are proved about.

### Proofs: `DecisionsProofs`

*The policies shown are those enforced.* `ListedArePolicies`: `ListedIsEnforced` is an
invariant of `PolicySpec`, for any connections, roles, caps and bounds, with no
assumption on a constant. It is not inductive: two overrides of one key in one place
would make the list show one and the decision apply the other, and a row cap that is
on without a value would be shown and not applied. `PoliciesOK` says neither happens:
an override is set by replacing the one of its place (`SetKeeps`), and one that is
turned on has a value from 1 to 86400 (`togglePolicy`). From there, the three layers
of `Resolved` come to the strongest override there is (`ListedIsResolved`,
`ListedValue`), the guardrails refuse a statement when one of ten conditions holds
(`RefusedWhenHit`), and the lowest cap exists since every nonempty set of numbers has
a least one (`LeastNumber`, `LowestCap`).

*A script hides nothing.* `ScriptIsRefused`, `ScriptIsMarked`: for a script of any
length, any caller and any overrides, from `IsSingle` of its statements alone. The
kind of the whole is the riskiest of its parts (`RiskiestIsWorst`), and the riskier
kind is refused wherever the other is (`RiskierIsRefused`); an UPDATE or DELETE without
WHERE is either what names the script or is kept beside it (`MergedIsRiskier`).
`BatchIsRefused` says the same of a Cassandra batch, with one hypothesis: the batch is
judged as its DELETE if it has one (`cql.go:52`), so if `deny_delete_without_where` is
turned off, an UPDATE without WHERE next to a DELETE is no longer refused by
`deny_update_without_where`. (CQL itself rejects an UPDATE without WHERE.)
That splitting a text gives its statements is an induction over the text and stays
with `ScriptHoldsItsParts`; so does `ConstantsAreTrue`.

*The lineage cache is bounded.* From `OriginAssumption`, for any statements,
connections and limit of at least one: `TypeCorrect`, `AllHaveSlots`, `CacheIsBounded`.
`Bounded` is not inductive: `forget` empties the map and leaves the ring, so the ring
can hold statements that are gone, or one statement twice. What is inductive is that
every kept statement has a slot (`EveryEntryHasASlot`, with the types): a new one takes
the slot of the one it replaces. Choosing a slot for each statement is then an
injection into `1..Len(order)`, and `Len(order) <= Limit`.

## Schedules, workspaces and sessions: `Scheduler`, `Workspace`, `Sessions`

### Correspondence

| TLA+ | Code |
|---|---|
| `query`, `rows`, `files`, `partial` | `scheduled_queries`, `scheduled_query_runs`, the output folder with its `.partial` files; `files` has under each name the runs whose result was put there, of which the last one's is to be read |
| `loop`, `running`, `task`, `server` | the scheduler goroutine, `scheduleRunning`, the goroutines of `scheduleRuns`, the life of the process |
| `NextRun`, `Candidates` | `scheduleSpec.next` |
| `Wake`, `ReadDue`, `Advance`, `StartDue` | `scheduler`, `startDueSchedules`, one query at a time |
| `Save`, `Store`, `Delete`, `RunNow` | `saveScheduled` up to the row and the row, `deleteScheduled`, `runScheduledNow` |
| `Stopped`, `StoreFails`, `CreateRunIsCut`, `FinishRow` | statements of the store that are cancelled or fail: reading what is due, advancing it, the row of a run, the pruning behind it, the end of a run |
| `CreateRun` ... `FinishRun` | `runScheduled`, `executeScheduled`, `writeScheduledResult` |
| `CloseBegins`, `CloseWaits`, `CloseReturns`, `Crash`, `Restart` | `Server.Close`, the end and the start of the process |
| `stored`, `window`, `request` (`Workspace`) | `workspace_documents` with its past revisions, the `WorkspaceWriter` of each window, the PUTs on their way |
| `Open`, `Edit`, `Flush`, `Put`, `Saved`, `Fails`, `Leave` | `workspace.ts` and `putWorkspace` over `SaveWorkspace` |
| `version`, `ticket`, `token`, `call` (`Sessions`) | `user_session_versions`, `localTickets`, `refresh_tokens` with the access token of each, requests between their store calls |
| `LocalLogin`, `Refresh`, `ReadVersion`, `IssueSession` | `localLogin`, `refresh`, `issueSession` |
| `Logout`, `RevokeRefreshTokens`, `BumpUserSessionVersion` | `logout` |

The three share nothing but the server. `MCBackground` picks one (`part`) and lets it
run, so that one run covers them.

### Run

`Background` (482,443 states):

* `StartedOnce`: an instant that one version of a schedule is due at starts one run,
  across ticks, catch-up, crashes and restarts. `DueIsHandled`: what is due is
  advanced while the server runs, and `Close` ends.
* `RunsAreTrue`: the list of runs says what happened, through shutdowns and deletions, as
  far as the code makes it. A row says "running" for ever when `FinishScheduledRun` fails, whose error
  is only logged (`api/scheduler.go:112`), or when the pruning behind the INSERT fails
  (`store/schedules.go:115`); these rows are `stuck`, and no other may be. A success says
  that its result was put under its name; a query of the same name may
  have put its own over it within the second, for the rename replaces what is there
  (`api/scheduler.go:266`), while the comment speaks of a new file (`117`).
* `NothingOverwritten`: a save replaces only the revision its window had seen.
* `LoggedOutStaysOut`: no refresh that overlaps a logout leads to a session behind it,
  and a ticket or refresh token makes one session.

Bounds: two queries, days of two ticks, a clock of two ticks, two runs, saves and processes,
`Late` 0 and `Kept` 1 (2 and 100 in the code), so that a missed tick and pruning
happen; a first query that is saved and edited, or two that are due at the start; one
failure of the store (`MaxFaults`), with a query that is saved once, or with two that are due;
two windows, three edits, three requests; two requests of a user with two
tickets, three tokens and two logouts. A run or edit beyond the bounds repeats one
within them: the loop has no memory across ticks but the rows. When the bounds are
reached the system stops, so deadlock is not checked.

### Fairness

Weak fairness of the loop (`Look`), of `Close`, and of the clock, the owner's store
call and the runs together: goroutines run on, and a query ends with rows or an
error. Crash, restart, edits and requests are not fair. The owner makes one request
at a time.

### What is left out

What a governed SELECT answers is a choice; notifications, sealing of results, and
downloads are not modelled; zones other than UTC are a hazard of their own
(`api/schedule.go:87`). The check whether a query is running and the entry of
its run are one step, as they are under one lock. A save or a deletion that the store fails changes nothing
and is left out; a store that fails for ever is not considered. A run cut off by a shutdown
between the row and the pruning leaves a row "running" (`CreateRunIsCut`), as a failing
pruning does with the server up; `RunsAreTrue` speaks of the rows of a server that is up. Expiry of access tokens and the version of passwords are left out.

### Proofs: `SchedulerProofs`

From the assumption on bounds and inputs, for any number of queries, ticks and
processes: `TypeCorrect`, `StartsOnce` (`StartedOnce`), `RunListIsTrue`
(`RunsAreTrue`). The key to the first is arithmetic: a time computed from a schedule
is later than the time it was computed at (`NextIsLater`, over days, daily times and
intervals), so advancing a row leaves the instant that is started behind. The
invariant `NeverAgain` says that of all three places a due time is kept in: the stored
row, the row the loop read and holds in hand, and what was started. An edit makes a
new version of the row (`Versions`), and no version starts twice. `OneRunEach` and
`RowsKept` tie tasks to rows and the set of running queries; `Shown` ties rows to tasks and
files (a row is `stuck` only where a statement of the store failed, and what was put under a
name stays among what was put there), `Written` to what is half-written, by process, for a crash leaves both.
`DueIsHandled` is liveness and stays with TLC.

### Proofs: `ClientProofs`

`NeverOverwrites` (any number of windows, edits and requests): `NothingOverwritten` is
not inductive, for a request carries a revision and a document away from its window.
Inductive is that every window *and every request* pairs a revision with the document
of that revision (`Knows`); a stored document never changes its place, so knowledge
stays true, and a save that finds its revision current has the current document as
its base.

`StaysLoggedOut` (any number of requests and tickets; from `SessionsAssumption`):
inductive are `Stamped` (a token, and a call about to make one, carries the version
of the sign-in it goes back to: a refresh goes on only while the version is the one its
token was made for) and `SpentOnce` (what a session
is made from is spent by the call that carries it, and two calls or tokens never
carry the same).

## A saved connection, its secrets and its nodes: `Connections`

### Correspondence

| TLA+ | Code |
|---|---|
| `saved` | the row of `connections`: its address, and the ids of its secrets by slot |
| `secrets` | the rows of `secrets`; `<<e, s>>` is the one that request `e` made for slot `s` |
| `nodes` | the rows of `connection_nodes` by id: address, role, health, age; `asked` is history, the address whose probe the node's role comes from |
| `lock`, `locks` | the entry of `Server.topologyLocks`, and how many locks it ever had |
| `saving` | what each `createConnection`, `updateConnection`, `deleteConnection` has read, will write, and has still to delete |
| `routing` | where each `routeNode`, and the ticker, is with its refresh |
| `CreateConnection`, `UpdateConnection`, `DeleteConnection` | the handlers up to the first call that writes: what they read and what the request asks for, each secret kept, replaced or removed |
| `StoreSecret`, `WriteRow`, `ListNodes`, `ReplaceNodes`, `Undo` | the calls of the store a save makes, in their order, each with the error path that follows its failure |
| `DeleteRow`, `DropSecret`, `ForgetLock` | the deletion and every cleanup: errors of a cleanup are ignored, as in the code |
| `RouteNode`, `RouteAgain` with `FreshNode` | `routeNode`: the choice of a node, before and after a refresh |
| `ConnectionTopologyLock`, `ReadNodes`, `ProbeNode`, `FinishRefresh` | `connectionTopologyLock`, `refreshConnectionTopology` |
| `Age`, `Crash` | three intervals pass; the process ends and starts with nothing in hand |

A step is one call of the store or of a node. There is one connection; connections
share nothing but the map of locks. The password is a slot that is never empty;
`Optional` holds the TLS key, the SSH credential and the SSH passphrase, which take
the same path. What the vault seals is not told apart, and sealing does not fail.
What a grant lets a caller ask for (`effectiveNodeRole`) is an input; whether a
statement may go to a secondary is in `Policy`.

### Run

`Connections` (638,714 states) is a run of three instances, of which `MCConnections` chooses one in the initial state:

* *saves*: three requests that create, update and delete, two failures (calls of the
  store, or crashes), one optional secret, and no callers. The row never names a
  secret that the store does not hold (`SecretsAreThere`); when nothing is under way no
  secret is left that no row names (`NoSecretIsLeft`); what is deleted, or taken back,
  stays gone though an update was under way (`StaysDeleted`).
* *probes*: two callers and two requests that create and delete, at one address: one
  refresh at a time, also while the connection is deleted and its lock forgotten
  (`OneRefresh`).
* *moves*: one caller and two requests over two addresses: a statement goes to an
  address that said it has the role, also after the node was moved (`SentWhereVerified`).

What the properties leave out is history the model keeps, each a thing the code does:
`stale` (a row written over one that its writer had not read, see below),
`torn` (a save failed and so did putting the old row back), `left` (a cleanup failed,
a crash cut a request off, or requests overlapped: what is left then stays, since
nothing sweeps `secrets`), and `misled` (a node was moved while a probe of its old
address was under way: the answer is stored under the node's id). `misled` is never
taken back, though in the code the next probe of the node ends the case: `SentWhereVerified`
claims nothing more of a node that was once moved under a probe.

Without `~stale`, `SecretsAreThere` is violated: of two saves that overlap, one
replaces the TLS key and one leaves it out ("nil keeps the stored key",
`api/connections.go:38`). The second writes back the id it had read
(`api/connections.go:239`), of a secret the first deletes: the row then names a secret
that is gone, and the new key is lost.

Why the bounds are enough: an update and a deletion, or two updates, that overlap need
one request more to create the row. Two failures are a call that fails and the
cleanup after it. A save touches only its own list of nodes and the whole list at once,
so one node shows every overlap; a list of several differs in `ListNodes` only, which
keeps it. A second optional secret would be one more value that takes the same path.
Where no probe is made the address of a node tells nothing apart, so *saves* has one;
two callers over two addresses hold, too (735,248 states up to symmetry). An update at
one address only makes what is known of the node unknown, so *probes* has none (with
it, 871,454 states in all). The requests are symmetric.

### Proofs of a saved connection: `ConnectionProofs`

From `AbsentIsNoRow` (the value that stands for no row is no row), for any number of
requests, callers, addresses, nodes, secrets and failures:

* `ConnectionsTypes`: where a request stands says what it holds (`Stands`).
* `OneRefreshAtATime` (`OneRefresh`) from `LockInv`. `OneRefresh` is not inductive: a
  lock that is not the map's may be in a caller's hand. `LockStands` says when, namely
  only when the row is gone for good (`GoneForGood`), and then `ReadNodes` probes
  nothing. That gone is for good is `OneCreate`: one request creates the connection,
  and until its row is written no other begins.
* `DeletedStaysDeleted` (`StaysDeleted`), from the same invariant.
* `SecretsOfTheRow` (`SecretsAreThere`) from `SecretInv`: `Unseen` (nothing names or
  deletes what a request makes until it has written its row), `Writes` (a row is
  written with secrets that were read or made) and `InUse`, the heart of it: as long
  as an update may put back the row it read (`MayPutBack`), what it replaced is in the
  store, not in the row, nobody is deleting it, and no other update replaced it too.
* `StoreIsClean` (`NoSecretIsLeft`) from `LeftInv` over `SecretInv`: a request that is
  alone knows the row (`Knows`), and every secret the row does not name is one that it
  still names or has still to delete (`Owes`).
* `StatementsGoWhereVerified` (`SentWhereVerified`) from `SentInv`: every healthy node,
  in the table and in the lists that saves are about to write, was asked at its own
  address, or a probe spoke for it that its move overlapped (`NodesVerified`).

The steps of requests are first brought to two forms, a request that begins (`Begins`)
and one that goes on (`Goes`), with what each leaves alone; the invariants are proved
from these. TLC checked each of the invariants on the instances above before.

## What is not modelled, and why

* Text: the characters of SQL and CQL (quotes, comments, dialects; `SqlGuard` begins
  with words), DDL generation, value and CSV formatting, connection strings.
* Runs on many connections, CSV import and the desktop process: not yet; they stand
  last in the plan because they share less state with the rest.
* Drivers and databases: one call is one step with every outcome the code tells
  apart. MySQL's rollback of a whole transaction on a deadlock (error 1213), which
  leaves `Transaction.State` at active, is listed as a hazard and not modelled: it
  needs the statement level of the MySQL session.
* SQLite: the store opens up to 32 connections (`store/store.go:71`), of which SQLite lets
  one write at a time, with a snapshot for each reader: a statement or transaction is an
  atomic step. A store call of two statements without a transaction is taken apart where
  the second can fail (`CreateRowBackup`, `CreateScheduledRun`).
* Exports, notebooks, saved queries, AI, Slack, native clients and configuration:
  single-row operations or one external call each.
* The web client, except where a protocol with the server depends on it.
* Real time: timeouts are steps that may happen at any moment allowed by the
  order of events, not durations.

## What is proved and what is checked

Proved for every value of the constants, each described with its module:

| Module | About |
|---|---|
| `ManualTxnProofs` | every safety property of `ManualTxn`, and that it implements `TxnLedger` |
| `SchemaCatalogProofs` | the safety properties of the schema cache |
| `DecisionsProofs` | the policies shown are those enforced; a script or a batch hides none of its statements; the bound of the lineage cache |
| `ConnectionProofs` | every safety property of the pools and of a saved connection: its secrets, its deletion, its nodes |
| `ActivityBufferProofs` | every safety property of the buffer and of the audit chain |
| `StatementsProofs` | records, backups and answers, aborted transactions, read-only connections, what a restore leaves of the rows |
| `SchedulerProofs` | the safety properties of the scheduler |
| `ClientProofs` | the safety properties of `Workspace` and of `Sessions` |

They assume the named assumptions of those modules and nothing else. Where a proof
needs an induction over numbers it is an instance of the library's theorem that
inclusion of finite sets is well founded: a least or a first element of a set of
numbers (`ActivityBufferProofs`, `SchedulerProofs`). Induction over data, which would
say what a recursive definition computes for every input, cannot be had this way.

Checked by TLC only, on the instances above:

* liveness: `EveryCallAnswered`, `NoneStays`, `StoredInTheEnd`, `DueIsHandled` (fairness
  and ENABLED are out of the prover's reach);
* `ConstantsAreTrue`, and the part of `ScriptHoldsItsParts` that splits and classifies
  a text: they go through the RECURSIVE operators of `SqlGuard`, and what those compute
  is an induction over the text.
