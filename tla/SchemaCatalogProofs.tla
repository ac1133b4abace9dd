------------------------- MODULE SchemaCatalogProofs -------------------------
(***************************************************************************)
(* What is proved of SchemaCatalog, for any number of requests, databases  *)
(* and changes.  None of its three invariants is inductive.  What makes    *)
(* them so is the order in which a change is forgotten: origins, schemas,  *)
(* snapshots, and only then the report.  Each cache, once it has been      *)
(* passed, holds nothing older than a change about to be reported; so the  *)
(* invariant speaks of the reports to come, too.                           *)
(***************************************************************************)
EXTENDS SchemaCatalog, TLAPS

Readers  == {"read", "refresh", "schema"}
Changers == {"forget", "ddl", "rows", "streamed", "cql"}

InCache   == {"lookup", "wait", "load", "ready", "drop", "save"}
Forgets   == {"origins", "schemas", "snapshots"}
InLineage == {"lineage", "resolve", "keep"}
Place == {"idle", "snapshot", "change", "stream", "answered", "failed"}
             \cup InCache \cup Forgets \cup InLineage

Op == {"none", "select"} \cup Readers \cup Changers

TypeOK ==
    /\ version \in Version
    /\ cache \in [Database -> Version \cup Req \cup {None}]
    /\ lineage \in Version \cup {None}
    /\ snapshot \in [Database -> Version \cup {None}]
    /\ pc \in [Req -> Place]
    /\ op \in [Req -> Op]
    /\ target \in [Req -> Database \cup {None}]
    /\ loader \in [Req -> Req \cup {None}]
    /\ got \in [Req -> Version]
    /\ made \in [Req -> Version]
    /\ settled \in [Kind -> Version]
    /\ floor \in [Req -> [Kind \cup {"now"} -> Version]]
    /\ spared \in SUBSET (Database \cup {"lineage"})

\* Which calls come to which places.
InPlace(r) ==
    /\ pc[r] # "idle" => target[r] \in Database
    /\ pc[r] \in InCache => op[r] \in Readers
    /\ pc[r] = "snapshot" => op[r] = "schema"
    /\ pc[r] = "wait" => op[r] # "refresh"
    /\ pc[r] = "save" => op[r] # "read"
    /\ pc[r] \in InLineage => op[r] = "select"
    /\ pc[r] \in Forgets \cup {"change", "stream"} => op[r] \in Changers

Places == \A r \in Req : InPlace(r)

\* Nothing is reported, or was made, that the database does not have.
Ordered ==
    /\ \A k \in Kind : settled[k] <= version
    /\ \A r \in Req :
        /\ made[r] <= version /\ floor[r]["now"] <= version
        /\ \A k \in Kind : floor[r][k] <= settled[k]

\* Who waits is on one load's list, and that load is under way.
Awaited ==
    \A r \in Req :
        /\ pc[r] = "wait" <=> loader[r] # None
        /\ loader[r] # None =>
            /\ loader[r] \in Req /\ pc[loader[r]] \in {"load", "ready"}
            /\ target[loader[r]] = target[r]

\* An entry known by a request is that request's load of that database.
Owned ==
    \A d \in Database : cache[d] \in Req =>
        pc[cache[d]] \in {"load", "ready", "drop"} /\ target[cache[d]] = d

\* v is as new as all that was reported, and as what will be by those who are
\* at one of the places P.
AsNew(v, K, P) ==
    /\ \A k \in K : v >= settled[k]
    /\ \A r \in Req : pc[r] \in P => v >= made[r]

\* The caches are forgotten in this order.
NewSchema(v)   == AsNew(v, Kind, {"snapshots", "stream"})
NewSnapshot(v) == AsNew(v, {"sql"}, {"stream"})
NewLineage(v)  == AsNew(v, Kind, {"schemas", "snapshots", "stream"})

SchemasNew ==
    \A d \in Database :
        /\ cache[d] \in Version => NewSchema(cache[d])
        /\ cache[d] \in Req /\ pc[cache[d]] = "ready" => NewSchema(got[cache[d]])

SnapshotsNew ==
    \A d \in Database \ spared : snapshot[d] # None => NewSnapshot(snapshot[d])

LineageNew ==
    lineage # None /\ "lineage" \notin spared => NewLineage(lineage)

\* What a request has read, or is about to be given, is as new as it may ask.
Fresh(r, v) == \A k \in Kind : v >= floor[r][k]

Served ==
    \A r \in Req :
        /\ pc[r] = "ready" => Fresh(r, got[r]) /\ got[r] >= floor[r]["now"]
        /\ pc[r] = "wait" /\ loader[r] \in Req /\ pc[loader[r]] = "ready" =>
               Fresh(r, got[loader[r]])
        /\ pc[r] = "answered" /\ op[r] = "read" => Fresh(r, got[r])
        /\ pc[r] \in {"save", "answered"} /\ op[r] = "refresh" =>
               got[r] >= floor[r]["now"]

IInv ==
    /\ TypeOK /\ Places /\ Ordered /\ Awaited /\ Owned
    /\ SchemasNew /\ SnapshotsNew /\ LineageNew /\ Served
-----------------------------------------------------------------------------
(* Types, and who comes to which place *)

\* Everything is empty to begin with, and nobody is at work.
LEMMA TypeInit == Init => TypeOK /\ Places
  BY CatalogAssumption
  DEF Init, TypeOK, Places, InPlace, Version, NoFloor, Kind, Place, Op,
      InCache, Forgets, InLineage

\* Each call starts at a place of its own.
LEMMA StartsWell ==
    ASSUME NEW o \in AllCalls
    PROVE  /\ Starts(o) \in {"lookup", "snapshot", "lineage", "origins", "change"}
           /\ Starts(o) = "lookup" => o \in {"read", "refresh"}
           /\ Starts(o) = "snapshot" => o = "schema"
           /\ Starts(o) = "lineage" => o = "select"
           /\ Starts(o) \in {"origins", "change"} => o \in Changers
  BY DEF Starts, AllCalls, Changers

\* A change leads to a version of the catalog, this one or the next.
LEMMA Changes ==
    ASSUME TypeOK, NEW r \in Req, Change(r)
    PROVE  /\ version' \in Version /\ version <= version'
           /\ made' = [made EXCEPT ![r] = version']
  BY DEF Change, TypeOK, Version

\* A report raises what is settled to what its request made.
LEMMA Settles ==
    ASSUME TypeOK, NEW r \in Req, NEW k \in Kind, Settle(r, k)
    PROVE  /\ settled' \in [Kind -> Version]
           /\ \A j \in Kind : settled[j] <= settled'[j]
           /\ \A j \in Kind : settled'[j] \in {settled[j], made[r]}
           /\ \A j \in Kind \ {k} : settled'[j] = settled[j]
  BY CatalogAssumption DEF Settle, TypeOK, Version

\* close(entry.ready) sends on the load and who waits for it, nobody else.
LEMMA Released ==
    ASSUME TypeOK, Awaited, NEW r \in Req, LoadSucceeds(r) \/ LoadFails(r),
           NEW q \in Req
    PROVE  \/ /\ loader[q] = r /\ q # r /\ pc[q] = "wait" /\ loader'[q] = None
              /\ pc'[q] = IF LoadSucceeds(r) THEN Then(q) ELSE "failed"
           \/ /\ q = r /\ pc[q] = "ready" /\ loader'[q] = None
              /\ pc'[q] = IF LoadSucceeds(r) THEN Then(q) ELSE "drop"
           \/ /\ q # r /\ loader[q] # r
              /\ pc'[q] = pc[q] /\ loader'[q] = loader[q]
<1> USE CatalogAssumption DEF Ready, TypeOK
<1>1. pc[r] = "ready" /\ loader[r] = None
  BY DEF LoadSucceeds, LoadFails, Awaited
<1>2. q \in Waiters(r) <=> loader[q] = r
  BY DEF Waiters
<1>3. loader[q] = r => pc[q] = "wait" /\ q # r
  BY <1>1 DEF Awaited
<1>4. CASE LoadSucceeds(r)
  BY <1>1, <1>2, <1>3, <1>4 DEF LoadSucceeds
<1>5. CASE LoadFails(r) /\ ~LoadSucceeds(r)
  <2>1. /\ pc'[q] = IF q \in Waiters(r) \cup {r}
                      THEN IF q = r THEN "drop" ELSE "failed" ELSE pc[q]
        /\ loader'[q] = IF q \in Waiters(r) THEN None ELSE loader[q]
    BY <1>5 DEF LoadFails
  <2> QED BY <1>1, <1>2, <1>3, <1>5, <2>1
<1> QED BY <1>4, <1>5

\* The other loads go on.
LEMMA LoadsGoOn ==
    ASSUME TypeOK, Awaited, NEW r \in Req, LoadSucceeds(r) \/ LoadFails(r),
           NEW q \in Req \ {r}, pc[q] \in {"load", "ready", "drop"}
    PROVE  pc'[q] = pc[q]
<1>1. pc[q] # "wait" OBVIOUS
<1> QED BY <1>1, Released, Zenon

\* Each step keeps the types: what a cache is given is a version its reader
\* got, or the reader itself.
LEMMA TypeNext == ASSUME TypeOK, Places, Owned, Next PROVE TypeOK'
<1> USE CatalogAssumption
    DEF TypeOK, Places, InPlace, Place, Op, Version, Kind, Readers, Changers,
        InCache, Forgets, InLineage, Goto, Get, caches, call, history
<1>1. ASSUME NEW r \in Req, NEW o \in AllCalls, NEW d \in Database,
             Arrive(r, o, d)
      PROVE  TypeOK'
  BY <1>1, StartsWell DEF Arrive, AllCalls
<1>2. ASSUME NEW r \in Req, Return(r) PROVE TypeOK'
  BY <1>2 DEF Return, NoFloor
<1>3. ASSUME NEW r \in Req, LookupReady(r) PROVE TypeOK'
  BY <1>3 DEF LookupReady, Hits, Loaded, Then
<1>4. ASSUME NEW r \in Req, LookupRunning(r) PROVE TypeOK'
  BY <1>4 DEF LookupRunning, Joins, Running, Refreshing
<1>5. ASSUME NEW r \in Req, StartLoad(r) PROVE TypeOK'
  BY <1>5 DEF StartLoad
<1>6. ASSUME NEW r \in Req, ReadCatalog(r) PROVE TypeOK'
  BY <1>6 DEF ReadCatalog
<1>7. ASSUME NEW r \in Req, LoadSucceeds(r) PROVE TypeOK'
  BY <1>7 DEF LoadSucceeds, Ready, Waiters, Then
<1>8. ASSUME NEW r \in Req, LoadFails(r) PROVE TypeOK'
  BY <1>8 DEF LoadFails, Ready, Waiters
<1>9. ASSUME NEW r \in Req, DropFailed(r) PROVE TypeOK'
  BY <1>9 DEF DropFailed
<1>10. ASSUME NEW r \in Req, GiveUp(r) PROVE TypeOK'
  BY <1>10 DEF GiveUp
<1>11. ASSUME NEW r \in Req, SnapshotHit(r) PROVE TypeOK'
  BY <1>11 DEF SnapshotHit
<1>12. ASSUME NEW r \in Req, SnapshotMiss(r) PROVE TypeOK'
  BY <1>12 DEF SnapshotMiss
<1>13. ASSUME NEW r \in Req, Save(r) PROVE TypeOK'
  <2>1. snapshot' \in [Database -> Version \cup {None}] BY <1>13 DEF Save
  <2>2. spared' \in SUBSET (Database \cup {"lineage"}) BY <1>13 DEF Save, Mark
  <2> QED BY <1>13, <2>1, <2>2 DEF Save
<1>14. ASSUME NEW r \in Req, ChangeFails(r) PROVE TypeOK'
  BY <1>14, Changes DEF ChangeFails
<1>15. ASSUME NEW r \in Req, ChangeDone(r) PROVE TypeOK'
  BY <1>15, Changes DEF ChangeDone, AfterChange
<1>16. ASSUME NEW r \in Req, Stream(r) PROVE TypeOK'
  <2>1. settled' \in [Kind -> Version] BY <1>16, Settles DEF Stream
  <2> QED BY <1>16, <2>1, Changes DEF Stream
<1>17. ASSUME NEW r \in Req, ForgetOrigins(r) PROVE TypeOK'
  BY <1>17 DEF ForgetOrigins, NoLineage
<1>18. ASSUME NEW r \in Req, ForgetSchemas(r) PROVE TypeOK'
  BY SMTT(30), <1>18 DEF ForgetSchemas, Forgotten, Settle
<1>19. ASSUME NEW r \in Req, ForgetSnapshots(r) PROVE TypeOK'
  BY <1>19 DEF ForgetSnapshots, SnapshotsDeleted, Settle
<1>20. ASSUME NEW r \in Req, Lineage(r) PROVE TypeOK'
  <2>1. spared' \in SUBSET (Database \cup {"lineage"})
    BY <1>20 DEF Lineage, LineageHit, LineageMiss, Resolve, Keep, Mark
  <2>2. CASE Keep(r) BY <2>1, <2>2 DEF Keep
  <2>3. CASE LineageHit(r) BY <2>1, <2>3 DEF LineageHit
  <2>4. CASE LineageMiss(r) BY <2>1, <2>4 DEF LineageMiss
  <2>5. CASE Resolve(r) BY SMTT(30), <2>1, <2>5 DEF Resolve
  <2> QED BY <1>20, <2>2, <2>3, <2>4, <2>5 DEF Lineage
<1>21. ASSUME NEW d \in Database, Age(d) PROVE TypeOK'
  BY <1>21 DEF Age
<1>22. CASE Evict
  BY <1>22 DEF Evict
<1> QED
  BY <1>1, <1>2, <1>3, <1>4, <1>5, <1>6, <1>7, <1>8, <1>9, <1>10,
     <1>11, <1>12, <1>13, <1>14, <1>15, <1>16, <1>17, <1>18, <1>19, <1>20,
     <1>21, <1>22
  DEF Next, Proceed, CachedSchema, Snapshots, Execute, Forget

\* Each step leads a call to a place of its own.
LEMMA PlacesNext == ASSUME TypeOK, Places, Awaited, Next PROVE Places'
<1> USE DEF TypeOK, Places, InPlace, Place, Op, Readers, Changers,
            InCache, Forgets, InLineage, Goto, caches, call, history
<1>1. ASSUME NEW r \in Req, NEW o \in AllCalls, NEW d \in Database,
             Arrive(r, o, d)
      PROVE  Places'
  BY <1>1, StartsWell DEF Arrive
<1>2. ASSUME NEW r \in Req, Return(r) PROVE Places'
  BY <1>2 DEF Return
<1>3. ASSUME NEW r \in Req, LookupReady(r) PROVE Places'
  BY <1>3 DEF LookupReady, Then
<1>4. ASSUME NEW r \in Req, LookupRunning(r) PROVE Places'
  BY <1>4 DEF LookupRunning, Joins, Refreshing
<1>5. ASSUME NEW r \in Req, StartLoad(r) PROVE Places'
  BY <1>5 DEF StartLoad
<1>6. ASSUME NEW r \in Req, ReadCatalog(r) PROVE Places'
  BY <1>6 DEF ReadCatalog
<1>7. ASSUME NEW r \in Req, LoadSucceeds(r) \/ LoadFails(r) PROVE Places'
  <2>1. UNCHANGED <<op, target>> BY <1>7 DEF LoadSucceeds, LoadFails
  <2>2. ASSUME NEW q \in Req PROVE InPlace(q)'
    BY ZenonT(30), <1>7, <2>1, Released DEF Then
  <2> QED BY <2>2
<1>9. ASSUME NEW r \in Req, DropFailed(r) \/ GiveUp(r) PROVE Places'
  BY <1>9 DEF DropFailed, GiveUp
<1>10. ASSUME NEW r \in Req, Snapshots(r) PROVE Places'
  BY <1>10 DEF Snapshots, SnapshotHit, SnapshotMiss, Save
<1>11. ASSUME NEW r \in Req, Execute(r) PROVE Places'
  BY <1>11 DEF Execute, ChangeFails, ChangeDone, AfterChange, Stream
<1>12. ASSUME NEW r \in Req, Forget(r) PROVE Places'
  BY <1>12 DEF Forget, ForgetOrigins, ForgetSchemas, ForgetSnapshots
<1>13. ASSUME NEW r \in Req, Lineage(r) PROVE Places'
  BY <1>13 DEF Lineage, LineageHit, LineageMiss, Resolve, Keep
<1>14. CASE Evict \/ \E d \in Database : Age(d)
  BY <1>14 DEF Evict, Age
<1> QED
  BY <1>1, <1>2, <1>3, <1>4, <1>5, <1>6, <1>7, <1>9, <1>10, <1>11,
     <1>12, <1>13, <1>14 DEF Next, Proceed, CachedSchema

-----------------------------------------------------------------------------
(* What is settled, and who waits *)

\* Nothing has been reported to begin with.
LEMMA OrderedInit == Init => Ordered
  BY DEF Init, Ordered, NoFloor, Kind

\* A report is of a version the catalog has reached, and only Arrive looks at
\* what is settled.
LEMMA OrderedNext == ASSUME TypeOK, Ordered, Next PROVE Ordered'
<1> USE CatalogAssumption
    DEF Ordered, TypeOK, Version, Kind, caches, call, history
<1>1. ASSUME NEW r \in Req, NEW o \in AllCalls, NEW d \in Database,
             Arrive(r, o, d)
      PROVE  Ordered'
  BY <1>1 DEF Arrive
<1>2. ASSUME NEW r \in Req, Return(r) PROVE Ordered'
  BY <1>2 DEF Return, NoFloor
<1>3. ASSUME NEW r \in Req, ChangeFails(r) \/ ChangeDone(r) PROVE Ordered'
  BY SMTT(30), <1>3, Changes DEF ChangeFails, ChangeDone
<1>4. ASSUME NEW r \in Req, Stream(r) PROVE Ordered'
  <2>1. /\ settled' \in [Kind -> Version]
        /\ \A k \in Kind : settled[k] <= settled'[k] /\ settled'[k] <= version
    BY <1>4, Settles DEF Stream
  <2>2. /\ version' \in Version /\ version <= version'
        /\ made' = [made EXCEPT ![r] = version'] /\ floor' = floor
    BY <1>4, Changes DEF Stream
  <2> QED BY <2>1, <2>2
<1>5. ASSUME NEW r \in Req, Forget(r) PROVE Ordered'
  <2>1. settled' = settled \/ \E k \in Kind : Settle(r, k)
    BY <1>5 DEF Forget, ForgetOrigins, ForgetSchemas, ForgetSnapshots
  <2>2. settled' \in [Kind -> Version]
        /\ \A k \in Kind : settled[k] <= settled'[k] /\ settled'[k] <= version
    BY <2>1, Settles
  <2>3. UNCHANGED <<version, made, floor>>
    BY <1>5 DEF Forget, ForgetOrigins, ForgetSchemas, ForgetSnapshots
  <2> QED BY <2>2, <2>3
<1>6. CASE UNCHANGED <<version, made, floor, settled>>
  BY <1>6
<1> QED
  BY <1>1, <1>2, <1>3, <1>4, <1>5, <1>6
  DEF Next, Proceed, CachedSchema, Snapshots, Execute, Lineage, LookupReady,
      LookupRunning, StartLoad, ReadCatalog, LoadSucceeds, LoadFails,
      DropFailed, GiveUp, SnapshotHit, SnapshotMiss, Save, LineageHit,
      LineageMiss, Resolve, Keep, Age, Evict

\* Nobody waits to begin with, and no entry is loading.
LEMMA AwaitedInit == Init => Awaited /\ Owned
  BY CatalogAssumption DEF Init, Awaited, Owned

\* Steps outside a load: the request goes from one place to another, the
\* others stay where they are, and entries are dropped at most.
InLoad == {"wait", "load", "ready", "drop"}

Moves(r) ==
    /\ pc[r] \notin InLoad
    /\ \E l \in Place \ InLoad : pc' = [pc EXCEPT ![r] = l]
    /\ UNCHANGED loader
    /\ \A q \in Req \ {r} : target'[q] = target[q]
    /\ \A d \in Database : cache'[d] \in {cache[d], None}

\* Every other step is a step of CachedSchema, told by its name.
LEMMA Movers ==
    ASSUME TypeOK, Next
    PROVE  \/ \E r \in Req : \/ Moves(r) \/ LookupRunning(r) \/ ReadCatalog(r)
                             \/ LoadSucceeds(r) \/ LoadFails(r) \/ GiveUp(r)
                             \/ StartLoad(r) \/ DropFailed(r)
           \/ /\ UNCHANGED <<pc, loader, target>>
              /\ \A d \in Database : cache'[d] \in {cache[d], None}
<1> USE DEF Moves, TypeOK, Place, InLoad, InCache, Forgets, InLineage, Goto,
            caches, call, history
<1>1. ASSUME NEW r \in Req, NEW o \in AllCalls, NEW d \in Database,
             Arrive(r, o, d)
      PROVE  Moves(r)
  <2>1. Starts(o) \in Place \ InLoad BY StartsWell
  <2> QED BY <1>1, <2>1 DEF Arrive
<1>2. ASSUME NEW r \in Req, Return(r) PROVE Moves(r)
  BY <1>2 DEF Return
<1>3. ASSUME NEW r \in Req, LookupReady(r) PROVE Moves(r)
  BY <1>3 DEF LookupReady, Then
<1>4. ASSUME NEW r \in Req, Snapshots(r) PROVE Moves(r)
  BY <1>4 DEF Snapshots, SnapshotHit, SnapshotMiss, Save
<1>5. ASSUME NEW r \in Req, Execute(r) PROVE Moves(r)
  BY <1>5 DEF Execute, ChangeFails, ChangeDone, AfterChange, Stream
<1>6. ASSUME NEW r \in Req, Forget(r) PROVE Moves(r)
  BY <1>6 DEF Forget, ForgetOrigins, ForgetSchemas, Forgotten, ForgetSnapshots
<1>7. ASSUME NEW r \in Req, Lineage(r) PROVE Moves(r)
  BY <1>7 DEF Lineage, LineageHit, LineageMiss, Resolve, Keep
<1>8. CASE Evict \/ \E d \in Database : Age(d)
  BY <1>8 DEF Evict, Age
<1> HIDE DEF Moves
<1> QED
  BY <1>1, <1>2, <1>3, <1>4, <1>5, <1>6, <1>7, <1>8
  DEF Next, Proceed, CachedSchema

\* A waiter is on the list of a load until that load ends, or it gives up.
LEMMA AwaitedNext == ASSUME TypeOK, Places, Awaited, Owned, Next PROVE Awaited'
<1>0. ASSUME NEW r \in Req, LoadSucceeds(r) \/ LoadFails(r),
             NEW q \in Req \ {r}, pc[q] \in {"load", "ready"}
      PROVE  pc'[q] = pc[q]
  BY <1>0, LoadsGoOn
<1> USE CatalogAssumption DEF Awaited, TypeOK, Goto, caches, call, history
<1>1. ASSUME NEW r \in Req, Moves(r) PROVE Awaited'
  BY <1>1 DEF Moves, InLoad
<1>2. ASSUME NEW r \in Req, LookupRunning(r) PROVE Awaited'
  BY <1>2 DEF LookupRunning, Joins, Running, Owned, Places, InPlace, InCache
<1>3. ASSUME NEW r \in Req, ReadCatalog(r) PROVE Awaited'
  BY <1>3 DEF ReadCatalog
<1>4. ASSUME NEW r \in Req, LoadSucceeds(r) \/ LoadFails(r) PROVE Awaited'
  <2>1. UNCHANGED target BY <1>4 DEF LoadSucceeds, LoadFails
  <2>2. pc[r] = "ready" BY <1>4 DEF LoadSucceeds, LoadFails
  <2>3. ASSUME NEW q \in Req
        PROVE  \/ loader'[q] = None /\ pc'[q] # "wait"
               \/ loader'[q] = loader[q] /\ loader[q] # r /\ pc'[q] = pc[q]
    BY <1>4, Released DEF Then
  <2>4. ASSUME NEW q \in Req, pc[q] \in {"load", "ready"}, q # r
        PROVE  pc'[q] = pc[q]
    BY <1>4, <2>4, <1>0
  <2> QED BY <2>1, <2>3, <2>4
<1>5. ASSUME NEW r \in Req, GiveUp(r) PROVE Awaited'
  BY <1>5 DEF GiveUp
<1>6. CASE UNCHANGED <<pc, loader, target>>
  BY <1>6
<1>7. ASSUME NEW r \in Req, StartLoad(r) PROVE Awaited'
  BY <1>7 DEF StartLoad
<1>8. ASSUME NEW r \in Req, DropFailed(r) PROVE Awaited'
  BY <1>8 DEF DropFailed
<1> HIDE DEF Awaited, TypeOK
<1> QED BY <1>1, <1>2, <1>3, <1>4, <1>5, <1>6, <1>7, <1>8, Movers

\* Who loads an entry keeps its place, but for the steps of its load.
LEMMA OwnedNext ==
    ASSUME TypeOK, Places, Awaited, Owned, Next PROVE Owned'
<1>0. ASSUME NEW r \in Req, LoadSucceeds(r) \/ LoadFails(r),
             NEW q \in Req \ {r}, pc[q] \in {"load", "ready", "drop"}
      PROVE  pc'[q] = pc[q]
  BY <1>0, LoadsGoOn
<1> USE CatalogAssumption
    DEF Owned, TypeOK, Version, Goto, caches, call, history
<1>1. ASSUME NEW r \in Req, Moves(r) PROVE Owned'
  BY <1>1 DEF Moves, InLoad
<1>2. ASSUME NEW r \in Req, StartLoad(r) PROVE Owned'
  <2>1. target[r] \in Database BY <1>2 DEF StartLoad, Places, InPlace
  <2> QED BY <1>2, <2>1 DEF StartLoad
<1>3. ASSUME NEW r \in Req, DropFailed(r) PROVE Owned'
  <2>1. target[r] \in Database BY <1>3 DEF DropFailed, Places, InPlace
  <2> QED BY <1>3, <2>1 DEF DropFailed
<1>4. ASSUME NEW r \in Req, ReadCatalog(r) PROVE Owned'
  BY <1>4 DEF ReadCatalog
<1>5. ASSUME NEW r \in Req, LoadSucceeds(r) PROVE Owned'
  <2>1. target[r] \in Database BY <1>5 DEF LoadSucceeds, Places, InPlace
  <2>2. /\ cache' = [cache EXCEPT ![target[r]] = IF @ = r THEN got[r] ELSE @]
        /\ UNCHANGED target /\ pc[r] = "ready"
    BY <1>5 DEF LoadSucceeds
  <2>3. ASSUME NEW d \in Database, cache'[d] \in Req
        PROVE  cache[d] = cache'[d] /\ cache[d] # r
    BY <2>1, <2>2, <2>3
  <2> QED BY <1>5, <1>0, <2>2, <2>3
<1>6. ASSUME NEW r \in Req, LoadFails(r) PROVE Owned'
  <2>1. UNCHANGED <<cache, target>> /\ pc'[r] = "drop" /\ pc[r] = "ready"
    BY <1>6 DEF LoadFails, Ready
  <2> QED BY <1>6, <1>0, <2>1
<1>7. ASSUME NEW r \in Req, LookupRunning(r) \/ GiveUp(r) PROVE Owned'
  BY <1>7 DEF LookupRunning, GiveUp
<1>8. CASE UNCHANGED <<pc, target>> /\
           \A d \in Database : cache'[d] \in {cache[d], None}
  BY <1>8
<1> HIDE DEF Owned, TypeOK, Version
<1> QED BY <1>1, <1>2, <1>3, <1>4, <1>5, <1>6, <1>7, <1>8, Movers

-----------------------------------------------------------------------------
(* What the caches hold is as new as what was reported *)

Reporting == {"schemas", "snapshots", "stream"}

\* Steps after which nobody is nearer to a report.
Calm ==
    /\ settled' = settled
    /\ \A q \in Req : pc'[q] \in Reporting =>
           pc'[q] = pc[q] /\ made'[q] = made[q]

\* Only a call that forgets, or streams, comes nearer to its report.
LEMMA Calmly ==
    ASSUME TypeOK, Awaited, Next
    PROVE  Calm \/ \E r \in Req : Stream(r) \/ Forget(r)
<1>0. ASSUME NEW r \in Req, LoadSucceeds(r) \/ LoadFails(r), NEW q \in Req,
             pc'[q] \in Reporting
      PROVE  pc'[q] = pc[q]
  BY <1>0, Released DEF Then, Reporting
<1> USE DEF Calm, Reporting, TypeOK, Goto, caches, call, history
<1>1. ASSUME NEW r \in Req, NEW o \in AllCalls, NEW d \in Database,
             Arrive(r, o, d)
      PROVE  Calm
  <2>1. Starts(o) \notin Reporting BY StartsWell
  <2> QED BY <1>1, <2>1 DEF Arrive
<1>2. ASSUME NEW r \in Req, Return(r) PROVE Calm
  BY <1>2 DEF Return
<1>3. ASSUME NEW r \in Req, ChangeFails(r) \/ ChangeDone(r) PROVE Calm
  BY <1>3 DEF ChangeFails, ChangeDone, Change, AfterChange
<1>4. ASSUME NEW r \in Req, LoadSucceeds(r) \/ LoadFails(r) PROVE Calm
  BY <1>4, <1>0 DEF LoadSucceeds, LoadFails
<1>5. ASSUME NEW r \in Req, Snapshots(r) \/ Lineage(r) PROVE Calm
  BY <1>5 DEF Snapshots, SnapshotHit, SnapshotMiss, Save, Lineage,
              LineageHit, LineageMiss, Resolve, Keep
<1>6. ASSUME NEW r \in Req,
             \/ LookupReady(r) \/ LookupRunning(r) \/ StartLoad(r)
             \/ ReadCatalog(r) \/ DropFailed(r) \/ GiveUp(r)
      PROVE  Calm
  BY <1>6 DEF LookupReady, LookupRunning, StartLoad, ReadCatalog, DropFailed,
              GiveUp, Then
<1>7. CASE Evict \/ \E d \in Database : Age(d)
  BY <1>7 DEF Evict, Age
<1> HIDE DEF Calm
<1> QED
  BY <1>1, <1>2, <1>3, <1>4, <1>5, <1>6, <1>7
  DEF Next, Proceed, CachedSchema, Execute

\* The caches are empty to begin with.
LEMMA CachesInit == Init => SchemasNew /\ SnapshotsNew /\ LineageNew
  BY CatalogAssumption DEF Init, SchemasNew, SnapshotsNew, LineageNew, Version

\* A snapshot is saved, deleted, or stays.
LEMMA SnapshotsNext ==
    ASSUME TypeOK, Places, Awaited, Ordered, SnapshotsNew, Next
    PROVE  SnapshotsNew'
<1> USE CatalogAssumption
    DEF SnapshotsNew, NewSnapshot, AsNew, TypeOK, Version, Kind, Goto, caches,
        call, history
<1>1. ASSUME NEW r \in Req, Save(r) PROVE SnapshotsNew'
  <2>1. Calm /\ version' = version BY <1>1 DEF Save, Calm, Reporting
  <2>2. target[r] \in Database BY <1>1 DEF Save, Places, InPlace
  <2>3. ASSUME NEW d \in Database \ spared', snapshot'[d] # None
        PROVE  \/ d \in Database \ spared /\ snapshot'[d] = snapshot[d]
               \/ snapshot'[d] = got[r] /\ got[r] >= version
    BY <1>1, <2>2, <2>3 DEF Save, Mark
  <2> QED BY <2>1, <2>3 DEF Calm, Reporting, Ordered
<1>2. ASSUME NEW r \in Req, Stream(r) PROVE SnapshotsNew'
  <2>1. settled'["sql"] \in {settled["sql"], made[r]} /\ pc[r] = "stream"
    BY <1>2 DEF Stream, Settle
  <2> QED BY <1>2, <2>1 DEF Stream, Change
<1>3. ASSUME NEW r \in Req, ForgetOrigins(r) \/ ForgetSchemas(r)
      PROVE  SnapshotsNew'
  <2>1. settled'["sql"] = settled["sql"]
    BY <1>3 DEF ForgetOrigins, ForgetSchemas, Settle
  <2> QED BY <1>3, <2>1 DEF ForgetOrigins, ForgetSchemas
<1>4. ASSUME NEW r \in Req, ForgetSnapshots(r) PROVE SnapshotsNew'
  <2>1. CASE snapshot' = SnapshotsDeleted(r) BY <2>1 DEF SnapshotsDeleted
  <2>2. CASE /\ snapshot' = snapshot
             /\ spared' = spared \cup {d \in Database : snapshot[d] # None /\ snapshot[d] < version}
    <3>1. SUFFICES ASSUME NEW d \in Database \ spared', snapshot'[d] # None
                   PROVE  NewSnapshot(snapshot[d])'
      BY <2>2
    <3>2. version' = version /\ made' = made /\ snapshot[d] \in Version /\ version <= snapshot[d]
      BY <1>4, <2>2, <3>1 DEF ForgetSnapshots
    <3>3. settled'["sql"] \in {settled["sql"], made[r]}
      BY <1>4 DEF ForgetSnapshots, Settle
    <3> QED BY <2>2, <3>2, <3>3 DEF Ordered
  <2> QED BY <1>4, <2>1, <2>2 DEF ForgetSnapshots
<1>5. CASE /\ Calm
           /\ snapshot' = snapshot /\ Database \cap spared' = Database \cap spared
  BY <1>5 DEF Calm, Reporting
<1>6. \/ \E r \in Req : Save(r) \/ Forget(r) \/ Stream(r)
      \/ snapshot' = snapshot /\ Database \cap spared' = Database \cap spared
  BY ZenonT(30) DEF Next, Proceed, CachedSchema, Snapshots, Execute, Lineage, Arrive,
     Return, LookupReady, LookupRunning, StartLoad, ReadCatalog, LoadSucceeds,
     LoadFails, DropFailed, GiveUp, SnapshotHit, SnapshotMiss, ChangeFails,
     ChangeDone, LineageHit, LineageMiss, Resolve, Keep, Mark, Age, Evict
<1>7. \/ \E r \in Req : Forget(r) \/ Stream(r)
      \/ \E r \in Req : Save(r)
      \/ Calm /\ snapshot' = snapshot /\ Database \cap spared' = Database \cap spared
  <2> HIDE DEF TypeOK
  <2> QED BY <1>6, Calmly
<1> HIDE DEF SnapshotsNew
<1> QED BY <1>1, <1>2, <1>3, <1>4, <1>5, <1>7 DEF Forget

\* So is a lineage, which CQL forgets, too.
LEMMA LineageNext ==
    ASSUME TypeOK, Places, Awaited, Ordered, LineageNew, Next
    PROVE  LineageNew'
<1> USE CatalogAssumption
    DEF LineageNew, NewLineage, AsNew, TypeOK, Version, Kind, Goto, caches,
        call, history
<1>1. ASSUME NEW r \in Req, Keep(r) PROVE LineageNew'
  <2>1. Calm /\ version' = version BY <1>1 DEF Keep, Calm, Reporting
  <2>2. "lineage" \notin spared' => lineage' = got[r] /\ got[r] >= version
    BY <1>1 DEF Keep, Mark
  <2> QED BY <2>1, <2>2 DEF Calm, Reporting, Ordered
<1>2. ASSUME NEW r \in Req, Stream(r) PROVE LineageNew'
  <2>1. /\ \A k \in Kind : settled'[k] \in {settled[k], made[r]}
        /\ pc[r] = "stream"
    BY <1>2 DEF Stream, Settle
  <2> QED BY <1>2, <2>1 DEF Stream, Change
<1>3. ASSUME NEW r \in Req, ForgetOrigins(r) PROVE LineageNew'
  BY <1>3 DEF ForgetOrigins, NoLineage
<1>4. ASSUME NEW r \in Req, ForgetSchemas(r) \/ ForgetSnapshots(r)
      PROVE  LineageNew'
  <2>1. /\ \A k \in Kind : settled'[k] \in {settled[k], made[r]}
        /\ pc[r] \in {"schemas", "snapshots"}
    BY <1>4 DEF ForgetSchemas, ForgetSnapshots, Settle
  <2>2. /\ UNCHANGED <<lineage, made>>
        /\ "lineage" \in spared' <=> "lineage" \in spared
        /\ \A q \in Req \ {r} : pc'[q] = pc[q]
    BY <1>4 DEF ForgetSchemas, ForgetSnapshots
  <2> QED BY <2>1, <2>2
<1>5. CASE /\ Calm
           /\ lineage' = lineage /\ ("lineage" \in spared' <=> "lineage" \in spared)
  BY <1>5 DEF Calm, Reporting
<1>6. CASE Evict
  BY <1>6 DEF Evict
<1>7. \/ \E r \in Req : Keep(r) \/ Forget(r) \/ Stream(r)
      \/ Evict
      \/ lineage' = lineage /\ ("lineage" \in spared' <=> "lineage" \in spared)
  <2>1. ASSUME NEW r \in Req, Save(r)
        PROVE  lineage' = lineage /\ ("lineage" \in spared' <=> "lineage" \in spared)
    BY <2>1 DEF Save, Mark, Places, InPlace
  <2> QED
    BY ZenonT(30), <2>1
    DEF Next, Proceed, CachedSchema, Snapshots, Execute, Lineage, Arrive,
        Return, LookupReady, LookupRunning, StartLoad, ReadCatalog,
        LoadSucceeds, LoadFails, DropFailed, GiveUp, SnapshotHit, SnapshotMiss,
        ChangeFails, ChangeDone, LineageHit, LineageMiss, Resolve, Age
<1>8. \/ \E r \in Req : Keep(r) \/ Forget(r) \/ Stream(r)
      \/ Evict
      \/ /\ Calm
         /\ lineage' = lineage /\ ("lineage" \in spared' <=> "lineage" \in spared)
  <2> HIDE DEF TypeOK
  <2> QED BY <1>7, Calmly
<1> HIDE DEF LineageNew
<1> QED BY <1>1, <1>2, <1>3, <1>4, <1>5, <1>6, <1>8 DEF Forget

\* Steps that enter nothing and leave the loads of the entries as they are.
Idle ==
    /\ \A d \in Database : cache'[d] \in {cache[d], None}
    /\ \A q \in Req : pc[q] \in {"load", "ready", "drop"} =>
           pc'[q] = pc[q] /\ got'[q] = got[q]

\* Every other step is one of a load, or forgets.
LEMMA Idlers ==
    ASSUME TypeOK, Next
    PROVE  \/ Idle
           \/ \E r \in Req : \/ StartLoad(r) \/ ReadCatalog(r) \/ DropFailed(r)
                             \/ LoadSucceeds(r) \/ LoadFails(r) \/ Forget(r)
                             \/ Stream(r)
<1> USE DEF Idle, TypeOK, Goto, Get, caches, call, history
<1>1. ASSUME NEW r \in Req, NEW o \in AllCalls, NEW d \in Database,
             Arrive(r, o, d)
      PROVE  Idle
  BY <1>1 DEF Arrive
<1>2. ASSUME NEW r \in Req,
             Return(r) \/ LookupReady(r) \/ LookupRunning(r) \/ GiveUp(r)
      PROVE  Idle
  BY <1>2 DEF Return, LookupReady, LookupRunning, GiveUp
<1>3. ASSUME NEW r \in Req, ChangeFails(r) \/ ChangeDone(r) PROVE Idle
  BY <1>3 DEF ChangeFails, ChangeDone
<1>4. ASSUME NEW r \in Req, Snapshots(r) \/ Lineage(r) PROVE Idle
  BY <1>4 DEF Snapshots, SnapshotHit, SnapshotMiss, Save, Lineage,
              LineageHit, LineageMiss, Resolve, Keep
<1>5. CASE Evict \/ \E d \in Database : Age(d)
  BY <1>5 DEF Evict, Age
<1> HIDE DEF Idle
<1> QED
  BY <1>1, <1>2, <1>3, <1>4, <1>5
  DEF Next, Proceed, CachedSchema, Execute

\* An entry is made from what its own load read after the entries were last
\* forgotten.
LEMMA SchemasNext ==
    ASSUME TypeOK, Places, Awaited, Owned, Ordered, SchemasNew, Next
    PROVE  SchemasNew'
<1>0. ASSUME NEW r \in Req, LoadSucceeds(r) \/ LoadFails(r),
             NEW q \in Req \ {r}, pc[q] \in {"load", "ready", "drop"}
      PROVE  pc'[q] = pc[q]
  BY <1>0, LoadsGoOn
<1>a. ASSUME NEW r \in Req, LoadSucceeds(r), NEW q \in Req, loader[q] = r
       PROVE  pc[q] = "wait"
  BY <1>a, CatalogAssumption DEF Awaited
<1>b. ASSUME NEW r \in Req, LoadSucceeds(r) \/ LoadFails(r) PROVE Calm
  <2>1. ASSUME NEW q \in Req, pc'[q] \in Reporting PROVE pc'[q] = pc[q]
    BY <1>b, <2>1, Released DEF Then, Reporting
  <2> QED BY <1>b, <2>1 DEF Calm, LoadSucceeds, LoadFails, call, history
<1> USE CatalogAssumption
    DEF SchemasNew, NewSchema, AsNew, TypeOK, Version, Kind, Goto, Get, caches,
        call, history
<1>1. ASSUME NEW r \in Req, StartLoad(r) PROVE SchemasNew'
  <2>1. target[r] \in Database BY <1>1 DEF StartLoad, Places, InPlace
  <2>2. /\ cache' = [cache EXCEPT ![target[r]] = r]
        /\ pc' = [pc EXCEPT ![r] = "load"]
        /\ UNCHANGED <<got, settled, made>>
    BY <1>1 DEF StartLoad
  <2> QED BY <2>1, <2>2
<1>2. ASSUME NEW r \in Req, ReadCatalog(r) PROVE SchemasNew'
  BY <1>2 DEF ReadCatalog, Ordered
<1>3. ASSUME NEW r \in Req, LoadSucceeds(r) PROVE SchemasNew'
  <2>1. target[r] \in Database BY <1>3 DEF LoadSucceeds, Places, InPlace
  <2>2. /\ cache' = [cache EXCEPT ![target[r]] = IF @ = r THEN got[r] ELSE @]
        /\ pc[r] = "ready"
    BY <1>3 DEF LoadSucceeds
  <2>3. ASSUME NEW q \in Req \ {r}, pc[q] \in {"load", "ready", "drop"}
        PROVE  pc'[q] = pc[q] /\ got'[q] = got[q]
    BY <1>3, <2>3, <1>0, <1>a DEF LoadSucceeds, Waiters
  <2>4. ASSUME NEW d \in Database
        PROVE  \/ cache'[d] = cache[d] /\ cache[d] # r
               \/ cache[d] = r /\ cache'[d] = got[r]
    BY <2>1, <2>2 DEF Owned
  <2> QED BY <1>3, <1>b, <2>2, <2>3, <2>4 DEF Calm, Reporting, Owned
<1>4. ASSUME NEW r \in Req, LoadFails(r) PROVE SchemasNew'
  <2>1. UNCHANGED <<cache, got>> /\ pc'[r] = "drop"
    BY <1>4 DEF LoadFails, Ready
  <2> QED BY <1>4, <1>0, <1>b, <2>1 DEF Calm, Reporting, Owned
<1>5. ASSUME NEW r \in Req, DropFailed(r) PROVE SchemasNew'
  <2>1. target[r] \in Database BY <1>5 DEF DropFailed, Places, InPlace
  <2> QED BY <1>5, <2>1 DEF DropFailed
<1>6. ASSUME NEW r \in Req, Stream(r) PROVE SchemasNew'
  <2>1. /\ \A k \in Kind : settled'[k] \in {settled[k], made[r]}
        /\ pc[r] = "stream"
    BY <1>6 DEF Stream, Settle
  <2> QED BY <1>6, <2>1 DEF Stream, Change
<1>7. ASSUME NEW r \in Req, ForgetSchemas(r) PROVE SchemasNew'
  BY <1>7 DEF ForgetSchemas, Forgotten
<1>8. ASSUME NEW r \in Req, ForgetOrigins(r) \/ ForgetSnapshots(r)
      PROVE  SchemasNew'
  <2>1. /\ \A k \in Kind : settled'[k] \in {settled[k], made[r]}
        /\ pc[r] = "snapshots" \/ settled' = settled
        /\ UNCHANGED <<cache, got, made>>
        /\ \A q \in Req \ {r} : pc'[q] = pc[q]
        /\ pc[r] \in {"origins", "snapshots"}
        /\ pc'[r] = "schemas" \/ pc[r] = "snapshots"
        /\ pc'[r] \in {"schemas", "stream", "answered"}
    BY <1>8 DEF ForgetOrigins, ForgetSnapshots, Settle
  <2> QED BY <2>1
<1>9. CASE Calm /\ Idle
  BY <1>9 DEF Calm, Idle, Reporting, Owned
<1> HIDE DEF SchemasNew, TypeOK
<1> QED
  BY <1>1, <1>2, <1>3, <1>4, <1>5, <1>6, <1>7, <1>8, <1>9, Idlers, Calmly
  DEF Forget

-----------------------------------------------------------------------------
(* What is answered *)

\* Nothing has been answered to begin with.
LEMMA ServedInit == Init => Served
  BY DEF Init, Served

\* What a request is given by the cache, by its load or by the load it waits
\* for is as new as what was settled when it came.
LEMMA ServedNext ==
    ASSUME TypeOK, Places, Ordered, Awaited, Owned, SchemasNew, Served, Next
    PROVE  Served'
<1>0. ASSUME NEW r \in Req, LoadSucceeds(r) \/ LoadFails(r), NEW q \in Req
      PROVE  \/ /\ loader[q] = r /\ q # r /\ pc[q] = "wait" /\ loader'[q] = None
                /\ pc'[q] = IF LoadSucceeds(r) THEN Then(q) ELSE "failed"
             \/ /\ q = r /\ pc[q] = "ready" /\ loader'[q] = None
                /\ pc'[q] = IF LoadSucceeds(r) THEN Then(q) ELSE "drop"
             \/ /\ q # r /\ loader[q] # r
                /\ pc'[q] = pc[q] /\ loader'[q] = loader[q]
  BY <1>0, Released
<1> USE CatalogAssumption
    DEF Served, Fresh, TypeOK, Version, Kind, Goto, Get, caches, call, history
<1>1. ASSUME NEW r \in Req, NEW o \in AllCalls, NEW d \in Database,
             Arrive(r, o, d)
      PROVE  Served'
  <2>1. pc'[r] \notin {"ready", "wait", "save", "answered"} /\ pc[r] = "idle"
    BY <1>1, StartsWell DEF Arrive
  <2>2. \A q \in Req : loader[q] # r BY <2>1 DEF Awaited
  <2> QED BY <1>1, <2>1, <2>2 DEF Arrive
<1>2. ASSUME NEW r \in Req, Return(r) PROVE Served'
  <2>1. \A q \in Req : loader[q] # r BY <1>2 DEF Return, Awaited
  <2> QED BY <1>2, <2>1 DEF Return
<1>3. ASSUME NEW r \in Req, LookupReady(r) PROVE Served'
  <2>1. /\ target[r] \in Database /\ cache[target[r]] \in Version
        /\ op[r] # "refresh"
    BY <1>3 DEF LookupReady, Hits, Loaded, Refreshing, Places, InPlace
  <2>2. \A k \in Kind : cache[target[r]] >= floor[r][k]
    BY <2>1 DEF SchemasNew, NewSchema, AsNew, Ordered
  <2>3. \A q \in Req : loader[q] # r BY <1>3 DEF LookupReady, Awaited
  <2> QED BY <1>3, <2>1, <2>2, <2>3 DEF LookupReady, Then
<1>4. ASSUME NEW r \in Req, LookupRunning(r) PROVE Served'
  <2> DEFINE q == cache[target[r]]
  <2>1. target[r] \in Database /\ q \in Req
    BY <1>4 DEF LookupRunning, Joins, Running, Places, InPlace
  <2>2. pc[q] = "ready" => \A k \in Kind : got[q] >= floor[r][k]
    BY <2>1 DEF SchemasNew, NewSchema, AsNew, Ordered
  <2> QED BY <1>4, <2>1, <2>2 DEF LookupRunning
<1>5. ASSUME NEW r \in Req, ReadCatalog(r) PROVE Served'
  BY <1>5 DEF ReadCatalog, Ordered
<1>6. ASSUME NEW r \in Req, LoadSucceeds(r) PROVE Served'
  <2>1. /\ pc[r] = "ready" /\ UNCHANGED <<op, floor>>
        /\ \A q \in Req : got'[q] = IF loader[q] = r THEN got[r] ELSE got[q]
    BY <1>6 DEF LoadSucceeds, Waiters
  <2>2. ASSUME NEW q \in Req, loader[q] = r
        PROVE  /\ Fresh(q, got[r]) /\ op[q] # "refresh"
               /\ pc'[q] \in {"answered", "save"}
    BY <2>1, <2>2, <1>0, <1>6 DEF Places, InPlace, Awaited, Then
  <2>3. loader[r] # r /\ pc'[r] \in {"answered", "save"}
    BY <1>6, <1>0, <2>1 DEF Then, Awaited
  <2>4. ASSUME NEW q \in Req \ {r}, loader[q] # r
        PROVE  pc'[q] = pc[q] /\ loader'[q] = loader[q] /\ got'[q] = got[q]
    BY <2>1, <2>4, <1>0, <1>6
  <2>5. ASSUME NEW q \in Req, pc'[q] = "wait"
        PROVE  /\ pc[q] = "wait" /\ loader'[q] = loader[q] /\ loader[q] # r
               /\ loader[q] \in Req /\ loader[loader[q]] # r
    BY <2>2, <2>3, <2>4, <2>5 DEF Awaited
  <2> QED BY <2>1, <2>2, <2>3, <2>4, <2>5
<1>7. ASSUME NEW r \in Req, LoadFails(r), ~LoadSucceeds(r) PROVE Served'
  <2>1. UNCHANGED <<op, floor, got>>
    BY <1>7 DEF LoadFails
  <2> QED BY <2>1, <1>0, <1>7
<1>8. ASSUME NEW r \in Req, Save(r) PROVE Served'
  BY <1>8 DEF Save, Places, InPlace
<1>9. ASSUME NEW r \in Req, SnapshotHit(r) \/ Lineage(r) PROVE Served'
  <2>1. op[r] \in {"schema", "select"} /\ pc[r] \notin {"wait", "load", "ready"}
    BY <1>9 DEF SnapshotHit, Lineage, LineageHit, LineageMiss, Resolve, Keep,
                Places, InPlace, InLineage
  <2>2. \A q \in Req : loader[q] # r BY <2>1 DEF Awaited
  <2> QED
    BY <1>9, <2>1, <2>2
    DEF SnapshotHit, Lineage, LineageHit, LineageMiss, Resolve, Keep
<1>10. ASSUME NEW r \in Req, Execute(r) \/ Forget(r) PROVE Served'
  <2>1. op[r] \in Changers /\ op'[r] \in Changers
    BY <1>10 DEF Execute, ChangeFails, ChangeDone, Stream, Forget,
                 ForgetOrigins, ForgetSchemas, ForgetSnapshots, Places,
                 InPlace, Forgets, Changers
  <2> QED
    BY <1>10, <2>1
    DEF Execute, ChangeFails, ChangeDone, AfterChange, Stream, Forget,
        ForgetOrigins, ForgetSchemas, ForgetSnapshots, Changers
<1>11. ASSUME NEW r \in Req,
              StartLoad(r) \/ DropFailed(r) \/ GiveUp(r) \/ SnapshotMiss(r)
       PROVE  Served'
  BY <1>11 DEF StartLoad, DropFailed, GiveUp, SnapshotMiss
<1>12. CASE Evict \/ \E d \in Database : Age(d)
  BY <1>12 DEF Evict, Age
<1> HIDE DEF Served, TypeOK
<1> QED
  BY <1>1, <1>2, <1>3, <1>4, <1>5, <1>6, <1>7, <1>8, <1>9, <1>10, <1>11, <1>12
  DEF Next, Proceed, CachedSchema, Snapshots

-----------------------------------------------------------------------------
(* The theorems *)

\* The inductive invariant holds to begin with.
LEMMA InductiveInit == Init => IInv
  BY TypeInit, OrderedInit, AwaitedInit, CachesInit, ServedInit DEF IInv

\* Every step keeps it.
LEMMA InductiveNext == IInv /\ [Next]_vars => IInv'
<1> SUFFICES ASSUME IInv, [Next]_vars PROVE IInv'
  OBVIOUS
<1>1. CASE Next
  BY <1>1, TypeNext, PlacesNext, OrderedNext, AwaitedNext, OwnedNext,
     SchemasNext, SnapshotsNext, LineageNext, ServedNext
  DEF IInv
<1>2. CASE UNCHANGED vars
  BY <1>2
  DEF IInv, vars, caches, call, history, TypeOK, Places, InPlace, Ordered,
      Awaited, Owned, SchemasNew, NewSchema, SnapshotsNew, NewSnapshot,
      LineageNew, NewLineage, AsNew, Served, Fresh
<1> QED BY <1>1, <1>2

\* So it always holds.
LEMMA Inductive == Spec => []IInv
  BY InductiveInit, InductiveNext, PTL DEF Spec

\* The caches keep their types: what they hold are versions the catalog had,
\* and an entry that is loading is a request's.
THEOREM TypeCorrect == Spec => []TypeOK
<1>1. IInv => TypeOK BY DEF IInv
<1> QED BY <1>1, Inductive, PTL

\* For any number of requests, databases and changes: what the cache serves
\* is as new as what had been reported, and a refresh reads anew.
THEOREM AnswersStayFresh == Spec => []AnswersAreFresh
<1>1. IInv => AnswersAreFresh
  BY DEF IInv, Served, Fresh, AnswersAreFresh, Answered, Kind
<1> QED BY <1>1, Inductive, PTL

\* No snapshot and no lineage outlives a report of what made it stale, but
\* what a change overtook on its way into the cache.
THEOREM ChangesStayForgotten == Spec => []ChangesAreForgotten
<1>1. IInv => ChangesAreForgotten
  BY DEF IInv, SnapshotsNew, NewSnapshot, LineageNew, NewLineage, AsNew, Kind,
         ChangesAreForgotten
<1> QED BY <1>1, Inductive, PTL

\* Nobody waits for a load that is over, was dropped, or is of a database not
\* its own.
THEOREM WaitersStayAwaited == Spec => []WaitersAreAwaited
<1>1. IInv => WaitersAreAwaited
  BY DEF IInv, Awaited, WaitersAreAwaited
<1> QED BY <1>1, Inductive, PTL
=============================================================================
