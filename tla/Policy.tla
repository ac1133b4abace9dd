------------------------------- MODULE Policy -------------------------------
(***************************************************************************)
(* What the policies say of a statement: the built-in guardrails           *)
(* (policy/policy.go), the overrides that turn them on and off for         *)
(* everyone, for a connection or for a role, and the custom policies       *)
(* (api/query.go).  Operators only: the modules that run statements and    *)
(* the one that edits policies use the same definitions.                   *)
(*                                                                         *)
(* A statement is sqlguard.Info without its text: a record with            *)
(*   kind, command            the riskiest thing in it, the outer verb     *)
(*   where, unscoped          it has a WHERE; kinds a script runs without  *)
(*   tables                   the tables it names                          *)
(*   drop, truncate, script, session, control, switches, readsOnly         *)
(***************************************************************************)
EXTENDS Integers, Sequences, FiniteSets

IsWrite(kind) == kind \in {"insert", "update", "delete", "ddl"}

LacksWhere(s, kind) == (s.kind = kind /\ ~s.where) \/ kind \in s.unscoped

\* What may go to a secondary: a SELECT without a word that writes or locks.
SecondarySafe(s) == s.kind = "select" /\ s.readsOnly

\* Seeded fault: a read-only role is held to the outer verb.
GuardrailsByCommand(in) ==
    LET s == in.stmt
    IN  << <<"unknown_statement", s.kind = "unknown">>,
           <<"deny_delete_without_where", s.kind = "delete" /\ ~s.where /\ ~in.cleared
                                            /\ "deny_delete_without_where" \notin in.disabled>>,
           <<"read_only_role", in.readOnly /\ IsWrite(s.command) /\ ~in.cleared>> >>

-----------------------------------------------------------------------------
\* The guardrails, in the order they are tried.  in: stmt, readOnly, cleared,
\* disabled, enabled.  Each is a policy's name and whether it refuses.
Guardrails(in) ==
    LET s         == in.stmt
        On(key)   == ~in.cleared /\ key \notin in.disabled
        Opted(key) == On(key) /\ key \in in.enabled
    IN << <<"deny_multi_statement", s.script /\ Opted("deny_multi_statement")>>,
          <<"unknown_statement", s.kind = "unknown">>,
          <<"read_only_unclassified", s.kind = "other" /\ in.readOnly /\ ~in.cleared>>,
          <<"deny_unclassified", s.kind = "other" /\ Opted("deny_unclassified")>>,
          <<"deny_select_without_where", LacksWhere(s, "select") /\ s.tables # {} /\ On("deny_select_without_where")>>,
          <<"deny_delete_without_where", LacksWhere(s, "delete") /\ On("deny_delete_without_where")>>,
          <<"deny_update_without_where", LacksWhere(s, "update") /\ On("deny_update_without_where")>>,
          <<"deny_drop", s.drop /\ On("deny_drop")>>,
          <<"deny_truncate", s.truncate /\ On("deny_truncate")>>,
          <<"read_only_role", in.readOnly /\ IsWrite(s.kind) /\ ~in.cleared>> >>

\* "allow", or the name of the first guardrail that refuses.
Evaluate(in) ==
    LET rules == Guardrails(in)
        hits  == {i \in DOMAIN rules : rules[i][2]}
    IN  IF hits = {} THEN "allow" ELSE rules[CHOOSE i \in hits : \A j \in hits : i <= j][1]

-----------------------------------------------------------------------------
\* An override: key, scope ("global", "connection" or "role"), target,
\* enabled, value (0: none).  Those that count for a caller are applied layer
\* by layer, the weakest first.  Seeded fault: the one for everyone last.
GlobalLast(conn, role) == << <<"connection", conn>>, <<"role", role>>, <<"global", "">> >>

Layers(conn, role) == << <<"global", "">>, <<"connection", conn>>, <<"role", role>> >>

Turned(overrides, place, enabled) ==
    {o.key : o \in {p \in overrides : <<p.scope, p.target>> = place /\ p.enabled = enabled}}

\* The keys that are enabled (TRUE) or disabled (FALSE) once every layer has
\* taken what the others said of its own.
Resolved(overrides, conn, role, enabled) ==
    LET Layer(i)         == Layers(conn, role)[i]
        Applied(keys, i) == (keys \ Turned(overrides, Layer(i), ~enabled)) \cup Turned(overrides, Layer(i), enabled)
    IN  Applied(Applied(Applied({}, 1), 2), 3)

Disabled(overrides, conn, role) == Resolved(overrides, conn, role, FALSE)

Enabled(overrides, conn, role) == Resolved(overrides, conn, role, TRUE)

\* The value of a policy that has one: one that is turned off sets it to 0,
\* one that is turned on without a value leaves it as a weaker one set it.
Value(overrides, key, conn, role) ==
    LET Of(i)             == {o \in overrides : o.key = key /\ <<o.scope, o.target>> = Layers(conn, role)[i]}
        Applied(value, i) == IF Of(i) = {} THEN value
                             ELSE LET o == CHOOSE o \in Of(i) : TRUE
                                  IN  IF ~o.enabled THEN 0 ELSE IF o.value = 0 THEN value ELSE o.value
    IN  Applied(Applied(Applied(0, 1), 2), 3)

-----------------------------------------------------------------------------
\* Custom policies: id, kind, config, conn ("": any), role ("": any), enabled.
\* A window is a pair of minutes; one that ends before it begins passes midnight.
InWindow(now, window) ==
    IF window[1] > window[2] THEN now >= window[1] \/ now <= window[2]
    ELSE now >= window[1] /\ now <= window[2]

Applies(p, conn, role) == p.enabled /\ p.conn \in {"", conn} /\ p.role \in {"", role}

\* Whether custom policy p refuses statement s at minute now.
Refuses(p, s, now) ==
    \/ p.kind = "deny_table" /\ p.config \in s.tables
    \/ p.kind = "deny_statement" /\ p.config = s.kind
    \/ p.kind = "deny_write_outside_hours" /\ IsWrite(s.kind) /\ ~InWindow(now, p.config)

\* A decision the custom policies have not loosened: they can only refuse.
CustomDecision(customs, s, cleared, conn, role, now, decision) ==
    IF ~cleared /\ \E p \in customs : Applies(p, conn, role) /\ Refuses(p, s, now)
    THEN "custom" ELSE decision

\* The row cap: a custom policy can set one and lower one.
CustomLimit(customs, s, conn, role, limit) ==
    LET caps == {p.config : p \in {q \in customs : q.kind = "limit_rows" /\ s.kind = "select" /\ Applies(q, conn, role)}}
                  \cup (IF limit = 0 THEN {} ELSE {limit})
    IN  IF caps = {} THEN 0 ELSE CHOOSE cap \in caps : \A other \in caps : cap <= other
=============================================================================
