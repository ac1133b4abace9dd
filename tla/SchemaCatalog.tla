---------------------------- MODULE SchemaCatalog ----------------------------
(***************************************************************************)
(* What the server remembers of the objects in one saved connection's      *)
(* databases: the schema cache (engine/schemacache.go), the column lineage *)
(* of statements (engine/origincache.go), and the snapshots kept in the    *)
(* store (store/schema.go), with the requests that read and forget them.   *)
(*                                                                         *)
(* A catalog is told by its version: each change made through Rowset makes *)
(* a new one.  A step is one critical section of a cache's lock, one       *)
(* statement of the store, or one exchange with the database.              *)
(***************************************************************************)
EXTENDS Naturals, FiniteSets

CONSTANTS
    Req,            \* request slots, one goroutine each
    Database,       \* the connection's databases: one cache key each
    Calls,          \* the calls clients make
    MaxVersion,     \* bound on the changes of the catalog
    None

AllCalls == {"read", "schema", "refresh", "forget", "select",
             "ddl", "rows", "cql"}

ASSUME CatalogAssumption ==
    /\ Calls \subseteq AllCalls
    /\ MaxVersion \in Nat
    /\ Req \cap Nat = {} /\ None \notin Req \cup Nat
    /\ Database \cap {None, "lineage"} = {}

VARIABLES
    version,    \* of the catalog in the database
    cache,      \* schemas.entries: what was loaded, or who is loading it
    lineage,    \* origins.entries: the lineage kept of a statement
    snapshot,   \* schema_snapshots: database -> the version saved
    pc, op,     \* where each request stands, which call it serves
    target,     \* target[r]: its database
    loader,     \* loader[r]: whose load it waits for
    got,        \* got[r]: the version it has read or was given
    made,       \* made[r]: the version its own change led to
    \* History.
    settled,    \* the versions that calls have reported, by kind of report
    floor,      \* floor[r]: what had been settled, and version, at its arrival
    spared      \* what may be old: the databases whose snapshot, and the lineage,
                \* a change overtook between its reading and its saving; and the
                \* databases whose old snapshot a deletion failed to delete

caches  == <<cache, lineage, snapshot>>
call    == <<op, target, made, floor>>
history == <<settled, spared>>
vars    == <<version, caches, pc, loader, got, call, history>>

Version == 0..MaxVersion

\* How a change was forgotten: everywhere, or in the engine's caches only.
Kind == {"sql", "cql"}

NoFloor == [k \in Kind \cup {"now"} |-> 0]

Init ==
    /\ version = 0
    /\ cache = [d \in Database |-> None]
    /\ lineage = None
    /\ snapshot = [d \in Database |-> None]
    /\ pc = [r \in Req |-> "idle"]
    /\ op = [r \in Req |-> "none"]
    /\ target = [r \in Req |-> None]
    /\ loader = [r \in Req |-> None]
    /\ got = [r \in Req |-> 0]
    /\ made = [r \in Req |-> 0]
    /\ settled = [k \in Kind |-> 0]
    /\ floor = [r \in Req |-> NoFloor]
    /\ spared = {}

\* History: what r saves under x was read before the latest change, or not.
Mark(r, x) == spared' = IF got[r] < version THEN spared \cup {x} ELSE spared \ {x}

Goto(r, l) == pc' = [pc EXCEPT ![r] = l]
Get(r, v)  == got' = [got EXCEPT ![r] = v]

-----------------------------------------------------------------------------
(* Calls *)

\* The first step of each call.
Starts(o) == CASE o = "read"    -> "lookup"
               [] o = "refresh" -> "lookup"
               [] o = "schema"  -> "snapshot"
               [] o = "select"  -> "lineage"
               [] o = "forget"  -> "origins"
               [] OTHER         -> "change"

\* refreshConnectionSchema, like the edit of a connection, has everything
\* forgotten that was read before it.
Arrive(r, o, d) ==
    /\ pc[r] = "idle" /\ o \in Calls
    /\ op' = [op EXCEPT ![r] = o]
    /\ target' = [target EXCEPT ![r] = d]
    /\ made' = [made EXCEPT ![r] = version]
    /\ floor' = [floor EXCEPT ![r] =
                    IF o \in {"read", "schema", "refresh"}
                    THEN [k \in Kind \cup {"now"} |->
                             IF k = "now" THEN version ELSE settled[k]]
                    ELSE @]
    /\ Goto(r, Starts(o))
    /\ UNCHANGED <<version, caches, loader, got, history>>

\* The handler has written its answer and returns.
Return(r) ==
    /\ pc[r] \in {"answered", "failed"}
    /\ op' = [op EXCEPT ![r] = "none"]
    /\ target' = [target EXCEPT ![r] = None]
    /\ made' = [made EXCEPT ![r] = 0]
    /\ floor' = [floor EXCEPT ![r] = NoFloor]
    /\ Get(r, 0)
    /\ Goto(r, "idle")
    /\ UNCHANGED <<version, caches, loader, history>>

-----------------------------------------------------------------------------
(* Manager.CachedSchema.  Until its ready channel is closed an entry is     *)
(* known by the request that loads it; once loaded it never changes.        *)

Refreshing(r) == op[r] = "refresh"

Running(d) == cache[d] \in Req /\ pc[cache[d]] \in {"load", "ready"}
Loaded(d)  == cache[d] \in Version

\* Seeded fault: a refresh, too, waits for the load that is running.
Joined(r) == Running(target[r])

\* Everyone but a refresh waits for the load that is running; a refresh
\* starts its own.
Joins(r) == Running(target[r]) /\ ~Refreshing(r)

Hits(r) == Loaded(target[r]) /\ ~Refreshing(r)

\* A call that has a schema answers, or saves a snapshot of it first.
Then(r) == IF op[r] = "read" THEN "answered" ELSE "save"

LookupReady(r) ==
    /\ pc[r] = "lookup" /\ Hits(r)
    /\ Get(r, cache[target[r]])
    /\ Goto(r, Then(r))
    /\ UNCHANGED <<version, caches, loader, call, history>>

LookupRunning(r) ==
    /\ pc[r] = "lookup" /\ Joins(r)
    /\ loader' = [loader EXCEPT ![r] = cache[target[r]]]
    /\ Goto(r, "wait")
    /\ UNCHANGED <<version, caches, got, call, history>>

StartLoad(r) ==
    /\ pc[r] = "lookup" /\ ~Hits(r) /\ ~Joins(r)
    /\ cache' = [cache EXCEPT ![target[r]] = r]
    /\ Goto(r, "load")
    /\ UNCHANGED <<version, lineage, snapshot, loader, got, call, history>>

\* The catalog queries: what they return is as old as the first of them.
ReadCatalog(r) ==
    /\ pc[r] = "load"
    /\ Get(r, version)
    /\ Goto(r, "ready")
    /\ UNCHANGED <<version, caches, loader, call, history>>

\* Seeded fault: a load that has been dropped from the map is not made ready.
WaitersIfCached(r) ==
    IF cache[target[r]] = r THEN {w \in Req : loader[w] = r} ELSE {}

Waiters(r) == {w \in Req : loader[w] = r}

\* close(entry.ready): all who wait go on with the one result.
Ready(r, next) ==
    /\ pc' = [q \in Req |-> IF q \in Waiters(r) \cup {r} THEN next[q] ELSE pc[q]]
    /\ loader' = [q \in Req |-> IF q \in Waiters(r) THEN None ELSE loader[q]]

LoadSucceeds(r) ==
    /\ pc[r] = "ready"
    /\ cache' = [cache EXCEPT ![target[r]] = IF @ = r THEN got[r] ELSE @]
    /\ Ready(r, [q \in Req |-> Then(q)])
    /\ got' = [q \in Req |-> IF q \in Waiters(r) THEN got[r] ELSE got[q]]
    /\ UNCHANGED <<version, lineage, snapshot, call, history>>

LoadFails(r) ==
    /\ pc[r] = "ready"
    /\ Ready(r, [q \in Req |-> IF q = r THEN "drop" ELSE "failed"])
    /\ UNCHANGED <<version, caches, got, call, history>>

\* A failed load is dropped, unless the key has another entry by now.
DropFailed(r) ==
    /\ pc[r] = "drop"
    /\ cache' = [cache EXCEPT ![target[r]] = IF @ = r THEN None ELSE @]
    /\ Goto(r, "failed")
    /\ UNCHANGED <<version, lineage, snapshot, loader, got, call, history>>

\* <-ctx.Done(): the caller goes away, or its time is over.
GiveUp(r) ==
    /\ pc[r] = "wait"
    /\ loader' = [loader EXCEPT ![r] = None]
    /\ Goto(r, "failed")
    /\ UNCHANGED <<version, caches, got, call, history>>

\* time.Since(entry.loaded) passes schemaTTL: the entry is as good as none.
Age(d) ==
    /\ Loaded(d)
    /\ cache' = [cache EXCEPT ![d] = None]
    /\ UNCHANGED <<version, lineage, snapshot, pc, loader, got, call, history>>

-----------------------------------------------------------------------------
(* connectionSchema: snapshots around the cache *)

SnapshotHit(r) ==
    /\ pc[r] = "snapshot" /\ snapshot[target[r]] # None
    /\ Get(r, snapshot[target[r]])
    /\ Goto(r, "answered")
    /\ UNCHANGED <<version, caches, loader, call, history>>

\* None is saved, or it cannot be read.
SnapshotMiss(r) ==
    /\ pc[r] = "snapshot"
    /\ Goto(r, "lookup")
    /\ UNCHANGED <<version, caches, loader, got, call, history>>

\* PutSchemaSnapshot; a failure is only logged.
Save(r) ==
    /\ pc[r] = "save"
    /\ \/ UNCHANGED <<snapshot, spared>>
       \/ /\ snapshot' = [snapshot EXCEPT ![target[r]] = got[r]]
          /\ Mark(r, target[r])
    /\ Goto(r, "answered")
    /\ UNCHANGED <<version, cache, lineage, loader, got, call, settled>>

-----------------------------------------------------------------------------
(* Statements that change objects: executeQuery, finishTransaction, CQL *)

\* The statement takes effect, or has none.
Change(r) ==
    /\ version' \in {v \in Version : v = version \/ v = version + 1}
    /\ made' = [made EXCEPT ![r] = version']

\* It is answered with an error, having taken effect in part or in whole (a
\* script, a connection lost after the change): nothing is forgotten.
ChangeFails(r) ==
    /\ pc[r] = "change"
    /\ Change(r)
    /\ Goto(r, "failed")
    /\ UNCHANGED <<caches, op, target, loader, got, floor, history>>

\* Everything is forgotten before the answer, rows included.
AfterChange(r) == "origins"

ChangeDone(r) ==
    /\ pc[r] = "change"
    /\ Change(r)
    /\ Goto(r, AfterChange(r))
    /\ UNCHANGED <<caches, op, target, loader, got, floor, history>>

Settle(r, k) ==
    settled' = [settled EXCEPT ![k] = IF made[r] > @ THEN made[r] ELSE @]

\* A statement that returns rows, a procedure call for one, may change more
\* while it streams.  The client can go by the last row, before the caches
\* are forgotten for the second time.
Stream(r) ==
    /\ pc[r] = "stream"
    /\ Settle(r, "sql")
    /\ Change(r)
    /\ op' = [op EXCEPT ![r] = "streamed"]
    /\ Goto(r, "origins")
    /\ UNCHANGED <<caches, target, loader, got, floor, spared>>

-----------------------------------------------------------------------------
(* InvalidateSchema and DeleteSchemaSnapshots *)

NoLineage == None

ForgetOrigins(r) ==
    /\ pc[r] = "origins"
    /\ lineage' = NoLineage
    /\ spared' = spared \ {"lineage"}
    /\ Goto(r, "schemas")
    /\ UNCHANGED <<version, cache, snapshot, loader, got, call, settled>>

Forgotten == [d \in Database |-> None]

\* The handler of CQL leaves it at that.
ForgetSchemas(r) ==
    /\ pc[r] = "schemas"
    /\ cache' = Forgotten
    /\ \/ op[r] = "cql" /\ Goto(r, "answered") /\ Settle(r, "cql")
       \/ op[r] # "cql" /\ Goto(r, "snapshots") /\ UNCHANGED settled
    /\ UNCHANGED <<version, lineage, snapshot, loader, got, call, spared>>

\* Seeded fault: only the snapshot of the call's database is deleted.
OneSnapshotDeleted(r) == [snapshot EXCEPT ![target[r]] = None]

SnapshotsDeleted(r) == [d \in Database |-> None]

\* An error of the deletion is dropped: the store may fail and, where it runs
\* under the request, a client that has gone away cancels it.
ForgetSnapshots(r) ==
    /\ pc[r] = "snapshots"
    /\ \/ snapshot' = SnapshotsDeleted(r) /\ spared' = spared \ Database
       \/ /\ spared' = spared \cup {d \in Database : snapshot[d] # None /\ snapshot[d] < version}
          /\ UNCHANGED snapshot
    /\ \/ op[r] = "rows" /\ Goto(r, "stream") /\ UNCHANGED settled
       \/ op[r] # "rows" /\ Goto(r, "answered") /\ Settle(r, "sql")
    /\ UNCHANGED <<version, cache, lineage, loader, got, call>>

-----------------------------------------------------------------------------
(* Manager.columnOrigins *)

LineageHit(r) ==
    /\ pc[r] = "lineage" /\ lineage # None
    /\ Get(r, lineage)
    /\ Goto(r, "answered")
    /\ UNCHANGED <<version, caches, loader, call, history>>

LineageMiss(r) ==
    /\ pc[r] = "lineage" /\ lineage = None
    /\ Goto(r, "resolve")
    /\ UNCHANGED <<version, caches, loader, got, call, history>>

\* The database describes the statement, or does not.
Resolve(r) ==
    /\ pc[r] = "resolve"
    /\ \/ Get(r, version) /\ Goto(r, "keep")
       \/ UNCHANGED got /\ Goto(r, "failed")
    /\ UNCHANGED <<version, caches, loader, call, history>>

Keep(r) ==
    /\ pc[r] = "keep"
    /\ lineage' = got[r]
    /\ Mark(r, "lineage")
    /\ Goto(r, "answered")
    /\ UNCHANGED <<version, cache, snapshot, loader, got, call, settled>>

\* The lineage makes room for another statement's (see OriginCache).
Evict ==
    /\ lineage # None
    /\ lineage' = None
    /\ spared' = spared \ {"lineage"}
    /\ UNCHANGED <<version, cache, snapshot, pc, loader, got, call, settled>>

-----------------------------------------------------------------------------
(* The system *)

CachedSchema(r) ==
    LookupReady(r) \/ LookupRunning(r) \/ StartLoad(r) \/ ReadCatalog(r)
        \/ LoadSucceeds(r) \/ LoadFails(r) \/ DropFailed(r)
Snapshots(r) == SnapshotHit(r) \/ SnapshotMiss(r) \/ Save(r)
Execute(r)   == ChangeFails(r) \/ ChangeDone(r) \/ Stream(r)
Forget(r)    == ForgetOrigins(r) \/ ForgetSchemas(r) \/ ForgetSnapshots(r)
Lineage(r)   == LineageHit(r) \/ LineageMiss(r) \/ Resolve(r) \/ Keep(r)
Proceed(r)   == CachedSchema(r) \/ Snapshots(r) \/ Forget(r) \/ Execute(r)
                \/ Lineage(r) \/ Return(r)

Next ==
    \/ \E r \in Req, o \in AllCalls, d \in Database : Arrive(r, o, d)
    \/ \E r \in Req : Proceed(r) \/ GiveUp(r)
    \/ \E d \in Database : Age(d)
    \/ Evict

Spec == Init /\ [][Next]_vars

-----------------------------------------------------------------------------
(* Properties *)

Answered(r) == pc[r] = "answered"

\* A schema served by the cache alone, to the assistant, is no older than
\* any change reported before the request came, whatever loads overlapped
\* the change and its invalidation; and a refresh answers with a catalog read
\* after it was asked for, even when a load was running (schemacache.go,
\* CachedSchema: "a refresh starts its own").
AnswersAreFresh ==
    \A r \in Req : Answered(r) =>
        /\ op[r] = "read" => got[r] >= floor[r]["sql"] /\ got[r] >= floor[r]["cql"]
        /\ op[r] = "refresh" => got[r] >= floor[r]["now"]

\* An old snapshot stays after a change that was reported, in whatever database
\* it was made, in two cases only: the change overtook its reader, which saved it
\* late, or the deletion failed (forgetSchemaAfter drops the error, query.go:297).
\* An old lineage, which CQL forgets, too, stays in the first case only.  That it
\* can stay at all is not what originCache says of itself ("an ALTER or a DROP
\* cannot leave a stale lineage behind", origincache.go:18).
ChangesAreForgotten ==
    /\ \A d \in Database \ spared : snapshot[d] # None => snapshot[d] >= settled["sql"]
    /\ lineage # None /\ "lineage" \notin spared =>
           lineage >= settled["sql"] /\ lineage >= settled["cql"]

\* Whoever waits for a load waits for one that is under way in the same
\* database, whose end will send it on: also when the entry was dropped from
\* the map, replaced by a refresh, or failed, meanwhile (close(entry.ready)).
WaitersAreAwaited ==
    \A r \in Req : pc[r] = "wait" =>
        /\ loader[r] \in Req /\ pc[loader[r]] \in {"load", "ready"}
        /\ target[loader[r]] = target[r]
=============================================================================
