----------------------------- MODULE Documents ------------------------------
(***************************************************************************)
(* The requests on documents, keys and wide rows (api/mongodb.go,          *)
(* api/redis.go, api/elasticsearch.go), each told by the statement it is   *)
(* judged as and by what the engine does with it (engine/).  A definition  *)
(* of the first part is a handler: what it says to the policies, whether   *)
(* it can take a backup, and the engine call it ends in.  One of the       *)
(* second part is that call: the tables it may leave, the keys it hit, and *)
(* whether it answers with an error.                                       *)
(***************************************************************************)
EXTENDS RowBackup

\* nosqlStatement: no text, one table, never a script.
NosqlStatement(kind, scoped) ==
    [kind |-> kind, command |-> kind, where |-> scoped, unscoped |-> {}, tables |-> {"t"},
     drop |-> FALSE, truncate |-> FALSE, script |-> FALSE, session |-> FALSE, control |-> FALSE,
     switches |-> FALSE, readsOnly |-> kind = "select", picks |-> "all", clause |-> "none", tail |-> "",
     simple |-> TRUE, listed |-> TRUE, moves |-> FALSE, cols |-> {"a"}, val |-> 1,
     kept |-> FALSE, call |-> ""]

Request(kind, scoped, picks, kept, call) ==
    [NosqlStatement(kind, scoped) EXCEPT !.picks = picks, !.kept = kept, !.call = call]

\* A filter has a predicate when it names a field: mongoFilterHasPredicate.
HasPredicate(picks) == picks # "all"

MongoFind(picks)      == Request("select", HasPredicate(picks), picks, FALSE, "read")
MongoAggregate(picks) == Request("select", TRUE, picks, FALSE, "read")
MongoInsert           == Request("insert", FALSE, "one", FALSE, "insertOne")
MongoInsertMany       == Request("insert", FALSE, "all", FALSE, "insertMany")
MongoUpdate(picks)    == Request("update", HasPredicate(picks), picks, TRUE, "updateOne")
MongoDelete(picks)    == Request("delete", HasPredicate(picks), picks, TRUE, "deleteOne")

RedisScan(picks) == Request("select", picks # "all", picks, FALSE, "read")
RedisWrite(type) == Request("update", TRUE, "one", TRUE, type)
RedisBulkWrite   == Request("update", TRUE, "all", FALSE, "bulk")
RedisDelete      == Request("delete", TRUE, "one", TRUE, "del")

ElasticsearchSearch(picks) == Request("select", picks # "all", picks, FALSE, "read")
ElasticsearchIndex         == Request("update", TRUE, "one", FALSE, "index")
ElasticsearchBulk          == Request("insert", FALSE, "all", FALSE, "bulkIndex")
ElasticsearchUpdate        == Request("update", TRUE, "one", TRUE, "update")
ElasticsearchDelete        == Request("delete", TRUE, "one", TRUE, "delete")

-----------------------------------------------------------------------------
Done(t, ks)   == [rows |-> t, hit |-> ks, ok |-> TRUE]
Failed(t, ks) == [rows |-> t, hit |-> ks, ok |-> FALSE]

Fresh == [c \in Columns |-> 0]

WithRow(t, k, row) == [t EXCEPT ![k] = row]
Written(t, ks, s)  == [k \in Key |-> IF k \in ks THEN [c \in Columns |-> IF c \in s.cols THEN s.val ELSE t[k][c]] ELSE t[k]]
Without(t, ks)  == [k \in Key |-> IF k \in ks THEN Absent ELSE t[k]]

\* The first document that matches, whichever the database finds first.
MongoUpdateOne(t, s) ==
    IF ~HasPredicate(s.picks) THEN {Failed(t, {})}
    ELSE IF Matched(t, s) = {} THEN {Done(t, {})}
    ELSE {Done(Written(t, {k}, s), {k}) : k \in Matched(t, s)}

MongoDeleteOne(t, s) ==
    IF ~HasPredicate(s.picks) THEN {Failed(t, {})}
    ELSE IF Matched(t, s) = {} THEN {Done(t, {})}
    ELSE {Done(Without(t, {k}), {k}) : k \in Matched(t, s)}

MongoInsertOne(t) ==
    IF t[First] # Absent THEN {Failed(t, {})} ELSE {Done(WithRow(t, First, Fresh), {First})}

\* In order, up to the first that is there already.
MongoInsertDocuments(t) ==
    {LET ks == {k \in free : t[k] = Absent}
         u  == [k \in Key |-> IF k \in ks THEN Fresh ELSE t[k]]
     IN  IF ks = Key THEN Done(u, ks) ELSE Failed(u, ks) : free \in SUBSET Key}

\* SET replaces the value and its expiry; HSET keeps the expiry, which EXPIRE
\* then sets in a call of its own.
RedisSetKey(t, s) == {Done(WithRow(t, First, [Fresh EXCEPT !.a = s.val]), {First})}

RedisHashField(t, s) ==
    LET old == IF t[First] = Absent THEN Fresh ELSE t[First]
        set == [old EXCEPT !.a = s.val]
    IN  {Done(WithRow(t, First, [set EXCEPT !.r = 1]), {First}), Failed(WithRow(t, First, set), {First})}

\* A pipeline: a write that fails does not stop the others.
RedisPipeline(t, s) ==
    {LET u == [k \in Key |-> IF k \in ks THEN [Fresh EXCEPT !.a = s.val] ELSE t[k]]
     IN  IF ks = Key THEN Done(u, ks) ELSE Failed(u, ks) : ks \in SUBSET Key}

RedisDeleteKey(t) == {Done(Without(t, {First}), {First} \cap Present(t))}

ElasticsearchPut(t, s) == {Done(WithRow(t, First, [Fresh EXCEPT !.a = s.val]), {First})}

\* Documents that fail are listed in an answer that is not an error.
ElasticsearchBulkPut(t, s) ==
    {Done([k \in Key |-> IF k \in ks THEN [Fresh EXCEPT !.a = s.val] ELSE t[k]], ks) : ks \in SUBSET Key}

ElasticsearchMerge(t, s) == IF t[First] = Absent THEN {Failed(t, {})} ELSE {Done(Written(t, {First}, s), {First})}
ElasticsearchDrop(t)     == IF t[First] = Absent THEN {Failed(t, {})} ELSE {Done(Without(t, {First}), {First})}

-----------------------------------------------------------------------------
\* What a SQL engine does with a statement that picks its own rows.  An UPDATE
\* that moves the key needs the other key free.
OtherKey(k) == CHOOSE other \in Key : other # k

Bumped(engine, t, ks) ==
    [k \in Key |-> IF k \in ks /\ Refreshed(engine) # {} THEN [t[k] EXCEPT !.r = 1 - t[k].r] ELSE t[k]]

Chosen(t, s) ==
    IF s.tail = "limit" /\ Matched(t, s) # {} THEN {{k} : k \in Matched(t, s)} ELSE {Matched(t, s)}

SqlExecute(engine, t, s) ==
    CASE s.kind = "delete" -> {Done(Without(t, ks), ks) : ks \in Chosen(t, s)}
      [] s.kind = "update" /\ s.moves ->
           IF t[First] = Absent THEN {Done(t, {})}
           ELSE IF t[OtherKey(First)] # Absent THEN {Failed(t, {})}
           ELSE {Done(WithRow(WithRow(t, OtherKey(First), t[First]), First, Absent), {First, OtherKey(First)})}
      [] s.kind = "update" /\ ~s.moves -> {Done(Bumped(engine, Written(t, ks, s), ks), ks) : ks \in Chosen(t, s)}
      [] s.kind = "insert" -> MongoInsertOne(t)
      [] OTHER -> {Done(t, {})}

\* CQL names its rows by key, and an UPDATE of a row that is not there makes it.
CassandraExecute(t, s) ==
    CASE s.kind = "delete" -> {Done(Without(t, Matched(t, s)), Matched(t, s))}
      [] s.kind \in {"update", "insert"} ->
           {Done([k \in Key |-> IF s.picks = "one" => k = First
                                THEN [c \in Columns |-> IF c \in s.cols THEN s.val
                                                        ELSE IF t[k] = Absent THEN 0 ELSE t[k][c]]
                                ELSE t[k]], {k \in Key : s.picks = "one" => k = First})}
      [] OTHER -> {Done(t, {})}

Calls ==
    {"read", "updateOne", "deleteOne", "insertOne", "insertMany", "string", "hash", "bulk", "del",
     "index", "bulkIndex", "update", "delete"}

DocumentEffects(t, s) ==
    CASE s.call = "read" -> {Done(t, {})}
      [] s.call = "updateOne" -> MongoUpdateOne(t, s)
      [] s.call = "deleteOne" -> MongoDeleteOne(t, s)
      [] s.call = "insertOne" -> MongoInsertOne(t)
      [] s.call = "insertMany" -> MongoInsertDocuments(t)
      [] s.call = "string" -> RedisSetKey(t, s)
      [] s.call = "hash" -> RedisHashField(t, s)
      [] s.call = "bulk" -> RedisPipeline(t, s)
      [] s.call = "del" -> RedisDeleteKey(t)
      [] s.call = "index" -> ElasticsearchPut(t, s)
      [] s.call = "bulkIndex" -> ElasticsearchBulkPut(t, s)
      [] s.call = "update" -> ElasticsearchMerge(t, s)
      [] s.call = "delete" -> ElasticsearchDrop(t)

Effects(engine, t, s) ==
    CASE engine \in SqlEngines -> SqlExecute(engine, t, s)
      [] engine = "cassandra"  -> CassandraExecute(t, s)
      [] OTHER                 -> DocumentEffects(t, s)
=============================================================================
