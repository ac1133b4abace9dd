---------------------------- MODULE MCStatements ----------------------------
(* Instances of Statements: one configuration per engine, and one with the  *)
(* read-only, review and secondary switches, identity columns, and a store  *)
(* that fails once.                                                         *)
EXTENDS Statements, TLC

CONSTANTS k1, k2, q1, q2

MCKey == {k1, k2}
MCReq == {q1, q2}

Cells(a, b) == [c \in Columns |-> IF c = "a" THEN a ELSE IF c = "b" THEN b ELSE 0]
Both == [k \in MCKey |-> Cells(0, 1)]

One  == [Both EXCEPT ![k2] = Absent]

\* A statement in SQL or CQL: command, the rows it picks.
Stmt(command, picks) == [NosqlStatement(command, TRUE) EXCEPT !.picks = picks, !.clause = "where"]
UpdateA   == Stmt("update", "zero")
UpdateAll == [Stmt("update", "all") EXCEPT !.where = FALSE, !.clause = "none"]
Unlisted  == [Stmt("update", "one") EXCEPT !.listed = FALSE]
MoveKey   == [Stmt("update", "one") EXCEPT !.moves = TRUE, !.cols = {}]
UpdateB   == [Stmt("update", "all") EXCEPT !.cols = {"b"}, !.val = 0]
DeleteA   == Stmt("delete", "zero")
DeleteOne == Stmt("delete", "one")
DeleteRet == [Stmt("delete", "zero") EXCEPT !.tail = "returning"]
HiddenDelete == [Stmt("delete", "one") EXCEPT !.command = "select", !.simple = FALSE]
Script    == [Stmt("delete", "one") EXCEPT !.script = TRUE, !.command = "select", !.unscoped = {"delete"}]
Read      == [Stmt("select", "all") EXCEPT !.clause = "none"]
BeginText == [Stmt("session", "all") EXCEPT !.control = TRUE, !.session = TRUE]

Conf(engine, stmts, requests, edits, crashes) ==
    [engine |-> engine, tx |-> FALSE, shared |-> FALSE, readOnly |-> FALSE, review |-> FALSE,
     secondary |-> FALSE, limit |-> 2, pk |-> TRUE, idents |-> {}, rows |-> Both, stmts |-> stmts, req |-> MCReq,
     budget |-> [calls |-> requests, edits |-> edits, crashes |-> crashes, faults |-> 0]]

MCConfs ==
    { [Conf("mysql", {UpdateA, DeleteRet}, 3, 1, 0) EXCEPT !.req = {q1}],
      Conf("mysql", {UpdateA}, 2, 1, 0),
      [Conf("mssql", {UpdateA, MoveKey, Unlisted, DeleteA}, 2, 2, 0) EXCEPT !.req = {q1}],
      [Conf("postgres", {UpdateA, DeleteRet}, 2, 2, 0) EXCEPT !.tx = TRUE, !.req = {q1}],
      [Conf("postgres", {DeleteRet}, 2, 1, 0) EXCEPT !.tx = TRUE],
      [Conf("postgres", {UpdateA, UpdateB}, 3, 1, 0) EXCEPT !.tx = TRUE, !.rows = One],
      [Conf("postgres", {UpdateA}, 2, 1, 1) EXCEPT !.tx = TRUE, !.rows = One],
      [Conf("postgres", {HiddenDelete, Script, DeleteOne, Read}, 2, 0, 0) EXCEPT !.readOnly = TRUE, !.shared = TRUE, !.review = TRUE, !.req = {q1}],
      [Conf("postgres", {UpdateAll, UpdateA, Read, BeginText}, 2, 1, 0) EXCEPT !.secondary = TRUE, !.limit = 1],
      [Conf("postgres", {UpdateA, DeleteA}, 2, 0, 1) EXCEPT !.review = TRUE, !.pk = FALSE],
      Conf("cassandra", {UpdateA, DeleteA}, 2, 1, 0),
      [Conf("mongodb", {MongoFind("one"), MongoAggregate("all"), MongoInsert, MongoInsertMany, MongoUpdate("zero"), MongoDelete("zero")}, 2, 1, 0) EXCEPT !.req = {q1}],
      [Conf("redis", {RedisScan("one"), RedisWrite("string"), RedisWrite("hash"), RedisBulkWrite, RedisDelete}, 2, 1, 0) EXCEPT !.req = {q1}],
      [Conf("elasticsearch", {ElasticsearchSearch("one"), ElasticsearchIndex, ElasticsearchBulk, ElasticsearchUpdate, ElasticsearchDelete}, 2, 1, 0) EXCEPT !.req = {q1}],
      Conf("redis", {RedisWrite("hash"), RedisDelete}, 2, 0, 1),
      [Conf("postgres", {UpdateA, Unlisted, MoveKey, DeleteOne}, 2, 1, 0) EXCEPT !.idents = {"a"}, !.req = {q1}],
      [Conf("postgres", {UpdateA, MoveKey}, 2, 1, 0) EXCEPT !.idents = Columns, !.req = {q1}],
      [Conf("postgres", {UpdateA, DeleteRet}, 3, 1, 0) EXCEPT !.tx = TRUE, !.req = {q1}, !.budget.faults = 1],
      [Conf("mongodb", {MongoDelete("zero")}, 2, 0, 0) EXCEPT !.budget.faults = 1] }

\* One client, nobody else, a filter that matches two documents.
MCMongoConfs == {[Conf("mongodb", {MongoUpdate("zero"), MongoDelete("zero")}, 2, 0, 0) EXCEPT !.req = {q1}]}

None1 == [overrides |-> {}, customs |-> {}, cap |-> 0]
Strict == [overrides |-> {[key |-> "deny_select_without_where", scope |-> "global", target |-> "", enabled |-> FALSE, value |-> 0],
                          [key |-> "deny_delete_without_where", scope |-> "role", target |-> "admin", enabled |-> FALSE, value |-> 0]},
           customs |-> {[id |-> 1, kind |-> "deny_statement", config |-> "insert", conn |-> "", role |-> "", enabled |-> TRUE]},
           cap |-> 1]
MCPolicies == {None1, Strict}
MCSymmetry == Permutations(MCReq)
=============================================================================
