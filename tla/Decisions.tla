------------------------------ MODULE Decisions ------------------------------
(***************************************************************************)
(* What a statement is judged by, put together: its text is read by        *)
(* SqlGuard, judged by Policy, under policies that PolicyAdmin changes;    *)
(* the lineage of its result is kept in OriginCache.  The four share no    *)
(* state, so a behaviour exercises one of them: a user writes a script     *)
(* statement by statement, or a condition operator by operator, or an      *)
(* administrator changes policies, or results come and connections go.     *)
(***************************************************************************)
EXTENDS OriginCache, PolicyAdmin, SqlGuard

CONSTANTS
    MaxStatements,  \* bound: statements of a script
    MaxOperators,   \* bound: operators of a condition
    Statements      \* bound: the statements a script is made of

VARIABLES part, script, condition

dvars == <<part, script, condition, overrides, customs, originVars>>

-----------------------------------------------------------------------------
\* A condition is <<value>>, an atom that is known or varies from row to row,
\* or <<op, left, right>>, or <<"not", operand>>.
Atoms == {<<"true">>, <<"1 = 2">>, <<"c = 1">>, <<"c <> d">>}

AtomWords(atom) ==
    CASE atom[1] = "true"   -> <<"true">>
      [] atom[1] = "1 = 2"  -> <<"1", "=", "2">>
      [] atom[1] = "c = 1"  -> <<"c", "=", "1">>
      [] atom[1] = "c <> d" -> <<"c", "<", ">", "d">>

Strength(tree) == CASE tree[1] = "or" -> 1 [] tree[1] = "and" -> 2 [] tree[1] = "not" -> 3 [] OTHER -> 4

\* The condition as SQL is written: parentheses where precedence needs them.
RECURSIVE Written(_)
Written(tree) ==
    LET Operand(t) == IF Strength(t) < Strength(tree) THEN <<"(">> \o Written(t) \o <<")">> ELSE Written(t)
    IN  CASE Len(tree) = 1 -> AtomWords(tree)
          [] Len(tree) = 2 -> <<"not">> \o Operand(tree[2])
          [] Len(tree) = 3 -> Operand(tree[2]) \o <<tree[1]>> \o Operand(tree[3])

\* SQL's three-valued logic, for the values of the atoms that vary.
RECURSIVE Truth(_, _)
Truth(tree, row) ==
    CASE tree[1] = "or"  -> Combined("or", <<Truth(tree[2], row), Truth(tree[3], row)>>)
      [] tree[1] = "and" -> Combined("and", <<Truth(tree[2], row), Truth(tree[3], row)>>)
      [] tree[1] = "not" -> Negated(Truth(tree[2], row))
      [] tree[1] = "true" -> "true" [] tree[1] = "1 = 2" -> "false"
      [] OTHER -> row[tree[1]]

Rows == [{"c = 1", "c <> d"} -> {"true", "false", "unknown"}]

RECURSIVE Operations(_)
Operations(tree) ==
    CASE Len(tree) = 1 -> 0 [] Len(tree) = 2 -> 1 + Operations(tree[2])
      [] Len(tree) = 3 -> 1 + Operations(tree[2]) + Operations(tree[3])

Extend ==
    /\ part = "condition" /\ Operations(condition) < MaxOperators
    /\ \/ condition' = <<"not", condition>>
       \/ \E op \in {"and", "or"}, atom \in Atoms :
             condition' \in {<<op, condition, atom>>, <<op, atom, condition>>}
    /\ UNCHANGED <<part, script, overrides, customs, originVars>>

-----------------------------------------------------------------------------
Write ==
    /\ part = "script" /\ Len(script) < MaxStatements
    /\ \E s \in Statements : script' = Append(script, s)
    /\ UNCHANGED <<part, condition, overrides, customs, originVars>>

Administer ==
    /\ part = "policies"
    /\ PolicyNext
    /\ UNCHANGED <<part, script, condition, originVars>>

Remember ==
    /\ part = "lineage"
    /\ OriginNext
    /\ UNCHANGED <<part, script, condition, overrides, customs>>

DecisionsInit ==
    /\ part \in {"script", "condition", "policies", "lineage"}
    /\ script = <<>>
    /\ condition \in Atoms /\ (part # "condition" => condition = <<"true">>)
    /\ PolicyInit /\ OriginInit

DecisionsNext == Extend \/ Write \/ Administer \/ Remember

DecisionsSpec == DecisionsInit /\ [][DecisionsNext]_dvars

-----------------------------------------------------------------------------
\* What is taken to be the same for every row is: a WHERE that is said to hold
\* always does, however OR, AND, NOT and parentheses are combined with what
\* varies, and a value that is not known stays unknown to the guardrails
\* (parser.go, constantBoolean).
ConstantsAreTrue ==
    part = "condition" =>
        LET said == ConstantBoolean(Lex(Written(condition)))
        IN  said # "unknown" => \A row \in Rows : Truth(condition, row) = said

Strict == {"deny_select_without_where", "deny_unclassified"}

\* The statements of a script, one after the other.
Text(statements) == FlattenSeq([i \in 1..Len(statements) |-> statements[i] \o <<";">>])

\* A script, or a Cassandra batch, hides nothing: it is refused if one of its
\* statements is refused alone, for any role, what leaves state on the
\* connection still does, and it goes to a secondary only if all of it may
\* (parser.go, mergeScript; cql.go).
ScriptHoldsItsParts ==
    part = "script" =>
        LET whole == Parse(Text(script))
            batch == ParseCQL(<<"begin", "batch">> \o Text(script) \o <<"apply", "batch">>)
        IN  \A i \in 1..Len(script) :
                LET one == Parse(script[i])
                IN  /\ IsSingle(one)
                    /\ NotHidden(one, whole, {}, Strict) /\ NotHidden(one, whole, {"deny_delete_without_where"}, Strict)
                    /\ KeepsMarks(one, whole)
                    /\ NotHidden(one, batch, {}, Strict)
=============================================================================
