------------------------------ MODULE Verdicts ------------------------------
(***************************************************************************)
(* One verdict for several statements (sqlguard/parser.go, mergeScript;    *)
(* cql.go): the statements of a script, or of a Cassandra batch, are       *)
(* classified one by one and merged into one record that is judged.        *)
(***************************************************************************)
EXTENDS Policy

Unreadable == [kind |-> "unknown", command |-> "unknown", where |-> FALSE, unscoped |-> {}, tables |-> {}, drop |-> FALSE,
               truncate |-> FALSE, script |-> FALSE, session |-> FALSE, control |-> FALSE, switches |-> FALSE, readsOnly |-> FALSE]

Rank(kind) == CASE kind = "session" -> 0 [] kind = "select" -> 1 [] kind = "ddl" -> 3 [] kind = "other" -> 4
                [] kind = "unknown" -> 5 [] OTHER -> 2

\* The riskiest of several kinds; the first of those that are equally risky.
Riskiest(kinds) ==
    LET worst == {i \in DOMAIN kinds : \A j \in DOMAIN kinds : Rank(kinds[j]) <= Rank(kinds[i])}
    IN  IF kinds = <<>> THEN "session" ELSE kinds[CHOOSE i \in worst : \A j \in worst : i <= j]

\* Seeded fault: only the statement that names the script counts.
UnscopedOfNone(parts, kind, where) == {}

\* The kinds a script runs without a WHERE, beside the one that names it.
Unscoped(parts, kind, where) ==
    {k \in {"update", "delete", "select"} : ~(k = kind /\ ~where) /\
        \E i \in 1..Len(parts) : parts[i].kind = k /\ ~parts[i].where /\ (k = "select" => parts[i].tables # {})}

MergeScript(parts) ==
    LET kind     == Riskiest([i \in 1..Len(parts) |-> parts[i].kind])
        deciding == {i \in 1..Len(parts) : parts[i].kind = kind}
        where    == deciding # {} /\ \A i \in deciding : parts[i].where
        Some(Has(_)) == \E i \in 1..Len(parts) : Has(parts[i])
    IN  [kind      |-> kind, command |-> kind, where |-> where, unscoped |-> Unscoped(parts, kind, where),
         tables    |-> UNION {parts[i].tables : i \in 1..Len(parts)},
         drop      |-> Some(LAMBDA p : p.drop), truncate |-> Some(LAMBDA p : p.truncate), script |-> TRUE,
         session   |-> Some(LAMBDA p : p.session), control |-> Some(LAMBDA p : p.control),
         switches  |-> Some(LAMBDA p : p.switches), readsOnly |-> \A i \in 1..Len(parts) : parts[i].readsOnly]

Verdict(parts) == IF parts = <<>> THEN Unreadable ELSE IF Len(parts) = 1 THEN parts[1] ELSE MergeScript(parts)

-----------------------------------------------------------------------------
\* A statement by itself must be one statement.
SingleCQL(statement) == IF statement.script THEN Unreadable ELSE statement

\* The verdict on the parts of a batch: only writes may be in it.
MergeBatch(parts) ==
    LET kinds == {p.kind : p \in parts}
        kind  == IF "delete" \in kinds THEN "delete" ELSE IF "update" \in kinds THEN "update" ELSE "insert"
    IN  IF parts = {} \/ ~(kinds \subseteq {"insert", "update", "delete"}) THEN Unreadable
        ELSE [Unreadable EXCEPT !.kind = kind, !.command = kind, !.tables = UNION {p.tables : p \in parts},
                                !.where = \A p \in parts : p.kind \in {"update", "delete"} => p.where]

-----------------------------------------------------------------------------
Kinds == {"session", "select", "insert", "update", "delete", "ddl", "other", "unknown"}

\* What classifyStatement makes of one statement, as far as merging needs it:
\* it is no script, and a DROP or TRUNCATE is at least as risky as a write.
IsSingle(one) ==
    /\ one.kind \in Kinds /\ one.unscoped = {}
    /\ {one.script, one.where, one.drop, one.truncate} \subseteq BOOLEAN
    /\ ~one.script
    /\ one.drop \/ one.truncate => one.kind \notin {"insert", "update", "delete"}

\* What the guardrails refuse of one statement they refuse of the whole, for
\* a caller who may write or not, cleared or not, under these overrides.
NotHidden(one, whole, disabled, enabled) ==
    \A readOnly, cleared \in BOOLEAN :
        LET Judged(s) == Evaluate([stmt |-> s, readOnly |-> readOnly, cleared |-> cleared, disabled |-> disabled,
                                   enabled |-> enabled])
        IN  Judged(one) # "allow" => Judged(whole) # "allow"

\* What leaves state on the connection still does, no table is lost, and the
\* whole goes to a secondary only if all of it may.
KeepsMarks(one, whole) ==
    /\ (one.session => whole.session) /\ (one.control => whole.control) /\ (one.switches => whole.switches)
    /\ one.tables \subseteq whole.tables
    /\ one.kind # "session" /\ SecondarySafe(whole) => SecondarySafe(one)
=============================================================================
