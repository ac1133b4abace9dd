------------------------------ MODULE SqlGuard ------------------------------
(***************************************************************************)
(* How a statement's text becomes what the policies judge (rowset-core's   *)
(* sqlguard): a script is cut into statements, each is classified by its   *)
(* words, and a script is merged into one verdict.  Text is a sequence of  *)
(* lower-case words; strings, quoting and comment syntax stay with the     *)
(* lexer, a comment is a word that leaves no token.                        *)
(***************************************************************************)
EXTENDS Verdicts, SequencesExt

Comment == "/* */"

Symbols == {"(", ")", ";", "=", "<", ">", "1", "2", ",", "@t"}

\* The tokens of a text: a word, how deep in parentheses, and whether it can
\* name a table.
Lex(text) ==
    LET words == SelectSeq(text, LAMBDA w : w # Comment)
        Count(w, n) == Cardinality({i \in 1..n : words[i] = w})
    IN  [i \in 1..Len(words) |-> [word |-> words[i], depth |-> Count("(", i - 1) - Count(")", i),
                                  identifier |-> words[i] \notin Symbols]]

Word(tokens, i) == IF i \in 1..Len(tokens) THEN tokens[i].word ELSE ""

Words(tokens) == {tokens[i].word : i \in 1..Len(tokens)}

Least(S) == CHOOSE i \in S : \A j \in S : i <= j

-----------------------------------------------------------------------------
(* Does a condition hold on every row?                                     *)

Wrapped(tokens) ==
    /\ Len(tokens) >= 2 /\ tokens[1].word = "(" /\ tokens[Len(tokens)].word = ")"
    /\ tokens[1].depth = tokens[Len(tokens)].depth
    /\ \A i \in 2..(Len(tokens) - 1) : tokens[i].depth > tokens[1].depth

Literal(word) == word \in {"1", "2"}

\* One comparison of two operands: "true", "false" or "unknown".
Comparison(tokens) ==
    LET left == tokens[1].word  op == tokens[2].word  right == tokens[Len(tokens)].word
        Known(b) == IF b THEN "true" ELSE "false"
    IN  CASE Len(tokens) = 3 /\ op = "=" /\ left = right                 -> "true"
          [] Len(tokens) = 3 /\ op = "=" /\ Literal(left) /\ Literal(right) -> "false"
          [] Len(tokens) = 3 /\ op = "<" /\ Literal(left) /\ Literal(right) -> Known(left = "1" /\ right = "2")
          [] Len(tokens) = 3 /\ op = ">" /\ Literal(left) /\ Literal(right) -> Known(left = "2" /\ right = "1")
          [] Len(tokens) = 4 /\ op \o tokens[3].word = "<>" /\ left = right -> "false"
          [] Len(tokens) = 4 /\ op \o tokens[3].word = "<>" /\ Literal(left) /\ Literal(right) -> "true"
          [] OTHER -> "unknown"

\* The parts between the operators of the outermost level.
Parts(tokens, op) ==
    LET cuts == {i \in 1..Len(tokens) : tokens[i].depth = tokens[1].depth /\ tokens[i].word = op}
        ends == SetToSortSeq(cuts \cup {Len(tokens) + 1}, <)
    IN  [k \in 1..Len(ends) |-> SubSeq(tokens, IF k = 1 THEN 1 ELSE ends[k - 1] + 1, ends[k] - 1)]

\* What a sequence of values comes to under an operator.
Combined(op, values) ==
    LET deciding == IF op = "or" THEN "true" ELSE "false"
    IN  IF \E i \in 1..Len(values) : values[i] = deciding THEN deciding
        ELSE IF \E i \in 1..Len(values) : values[i] = "unknown" THEN "unknown"
        ELSE IF op = "or" THEN "false" ELSE "true"

Negated(value) == CASE value = "true" -> "false" [] value = "false" -> "true" [] OTHER -> value

\* Seeded fault: AND is taken for the weaker one.
AndFirst == <<"and", "or">>

\* The operators a condition is split at, the weakest first.
Operators == <<"or", "and">>

RECURSIVE ConstantBoolean(_)
ConstantBoolean(tokens) ==
    LET splits == SelectSeq(Operators, LAMBDA op : Len(Parts(tokens, op)) > 1)
    IN  CASE tokens = <<>>   -> "unknown"
          [] Wrapped(tokens) -> ConstantBoolean(SubSeq(tokens, 2, Len(tokens) - 1))
          [] tokens # <<>> /\ ~Wrapped(tokens) /\ splits # <<>> ->
               LET parts == Parts(tokens, splits[1])
               IN  Combined(splits[1], [i \in 1..Len(parts) |-> ConstantBoolean(parts[i])])
          [] OTHER ->
               IF Len(tokens) = 1 THEN (IF tokens[1].word \in {"true", "false"} THEN tokens[1].word ELSE "unknown")
               ELSE IF tokens[1].word = "not" THEN Negated(ConstantBoolean(Tail(tokens)))
               ELSE IF Len(tokens) \in 3..4 THEN Comparison(tokens) ELSE "unknown"

-----------------------------------------------------------------------------
(* One statement.                                                          *)

Reserved == {"from", "into", "outfile", "dumpfile", "where", "join", "left", "right", "full", "inner", "outer",
    "cross", "on", "group", "order", "limit", "offset", "fetch", "returning", "union", "intersect", "except", "set",
    "values", "using", "with", "use", "force", "ignore", "window", "qualify", "for", "having"}

\* The clause from position i up to the next one of its level.
Clause(tokens, i, depth) ==
    LET ends == {j \in i..Len(tokens) : tokens[j].depth < depth \/ (tokens[j].depth = depth /\ tokens[j].word \in Reserved)}
    IN  SubSeq(tokens, i, IF ends = {} THEN Len(tokens) ELSE Least(ends) - 1)

HoldsAlways(tokens, i, depth) == ConstantBoolean(Clause(tokens, i, depth)) = "true"

\* Every UPDATE, MERGE and DELETE of the statement has a WHERE that is not
\* always true.
WritesHaveEffectiveWhere(tokens) ==
    LET verbs == {i \in 1..Len(tokens) : tokens[i].word \in {"update", "merge", "delete"} /\ Word(tokens, i - 1) # "for"}
        Stop(i)  == {j \in (i + 1)..Len(tokens) : tokens[j].depth < tokens[i].depth
                        \/ (tokens[j].depth = tokens[i].depth /\ tokens[j].word = "where")}
    IN  /\ verbs # {}
        /\ \A i \in verbs : /\ Stop(i) # {} /\ tokens[Least(Stop(i))].depth = tokens[i].depth
                            /\ tokens[Least(Stop(i))].word = "where"
                            /\ ~HoldsAlways(tokens, Least(Stop(i)) + 1, tokens[i].depth)

\* Some WHERE of the outermost level; a SELECT's must not be always true.
HasWhere(tokens, kind) ==
    LET wheres == {i \in 1..Len(tokens) : tokens[i].depth = 0 /\ tokens[i].word = "where"}
    IN  IF kind \in {"update", "delete"} THEN WritesHaveEffectiveWhere(tokens)
        ELSE wheres # {} /\ ~(kind = "select" /\ HoldsAlways(tokens, Least(wheres) + 1, 0))

TokenKind(word) ==
    CASE word \in {"select", "values", "table"}    -> "select"
      [] word \in {"insert", "replace", "upsert"}  -> "insert"
      [] word \in {"update", "merge"}              -> "update"
      [] word = "delete"                           -> "delete"
      [] OTHER                                     -> "other"

BlockKind(word) ==
    IF TokenKind(word) # "other" THEN TokenKind(word)
    ELSE IF word \in {"drop", "truncate", "create", "alter", "grant", "revoke", "exec", "execute", "call", "backup",
                      "restore", "rename"} THEN "ddl" ELSE "session"

ClassifyBlock(tokens) == Riskiest([i \in 1..(Len(tokens) - 1) |-> BlockKind(tokens[i + 1].word)])

\* WITH: the last operation of the outermost level is the command, the last
\* one that writes the kind.
ClassifyWith(tokens) ==
    LET ops      == {i \in 2..Len(tokens) : Word(tokens, i - 1) # "for" /\ TokenKind(tokens[i].word) # "other"}
        LastOf(S) == TokenKind(tokens[CHOOSE i \in S : \A j \in S : j <= i].word)
        outer    == {i \in ops : tokens[i].depth = 0}
        writes   == {i \in ops : TokenKind(tokens[i].word) \in {"insert", "update", "delete"}}
        command  == IF outer = {} THEN "select" ELSE LastOf(outer)
    IN  [kind |-> IF writes = {} THEN command ELSE LastOf(writes), command |-> command]

Explained(tokens) == tokens[1].word = "explain" /\ {"analyze", "analyse"} \cap Words(Tail(tokens)) # {}

IsBlock(tokens) == tokens[1].word \in {"begin", "if", "while", "else"} \/ Explained(tokens)

ReadVerbs == {"select", "values", "table", "show", "describe", "desc", "pragma", "fetch", "explain"}

SessionVerbs == {"set", "use", "start", "commit", "rollback", "savepoint", "release", "discard", "declare", "print", "open",
    "close", "deallocate", "throw", "raiserror", "return", "break", "continue", "goto", "go", "listen", "unlisten", "notify"}

DdlVerbs == {"drop", "truncate", "create", "alter", "rename", "comment", "grant", "revoke", "call", "copy", "execute", "exec",
    "vacuum", "analyze", "attach", "detach", "do", "load", "bulk", "optimize", "system", "kill", "put", "get", "remove",
    "undrop", "refresh", "reindex", "cluster", "dbcc", "backup", "restore", "checkpoint", "shutdown", "reconfigure",
    "flush", "reset", "lock", "unlock", "repair", "install", "uninstall"}

\* The kind the first word gives a statement.
KindOf(tokens) ==
    LET first == tokens[1].word
    IN  CASE IsBlock(tokens)            -> ClassifyBlock(tokens)
          [] first = "with"             -> ClassifyWith(tokens).kind
          [] TokenKind(first) # "other" -> TokenKind(first)
          [] first \in ReadVerbs /\ ~Explained(tokens) -> "select"
          [] first = "set" /\ Word(tokens, 2) \in {"global", "persist", "persist_only"} -> "ddl"
          [] first \in SessionVerbs     -> "session"
          [] first \in DdlVerbs         -> "ddl"
          [] OTHER                      -> "other"

\* The tables named after FROM, JOIN, UPDATE, INTO, TRUNCATE and a leading TABLE.
ExtractTables(tokens) ==
    LET Names(i) == \/ tokens[i].word \in {"from", "join", "into", "truncate"}
                    \/ tokens[i].word = "update" /\ Word(tokens, i - 1) # "key"
                    \/ i = 1 /\ tokens[i].word = "table"
        At(i)    == i + (IF Word(tokens, i + 1) = "table" THEN 2 ELSE 1)
        named    == {i \in 1..Len(tokens) : Names(i) /\ ~(tokens[i].word = "into" /\ Word(tokens, i + 1) \in {"outfile", "dumpfile"})}
    IN  {tokens[At(i)].word : i \in {j \in named : At(j) <= Len(tokens) /\ tokens[At(j)].identifier}}

\* A write of a T-SQL table variable that reads no table.
OnlyATableVariable(tokens, kind) ==
    LET targets == {i \in 1..(Len(tokens) - 1) : tokens[i].word \in {"into", "update"} \/ (tokens[i].word = "from" /\ kind = "delete")}
    IN  /\ kind \in {"insert", "update", "delete"} /\ ExtractTables(tokens) = {}
        /\ targets # {} /\ Word(tokens, Least(targets) + 1) = "@t"

\* SELECT ... INTO creates a table or a file, unless it fills a variable.
SelectCreatesSomething(tokens, kind) ==
    LET intos == {i \in 1..(Len(tokens) - 1) : tokens[i].word = "into" /\ tokens[i].depth = 0}
    IN  kind = "select" /\ intos # {} /\ Word(tokens, Least(intos) + 1) # "@t"

ControlsTransaction(tokens) ==
    \/ tokens[1].word \in {"commit", "rollback", "savepoint", "release"}
    \/ /\ tokens[1].word \in {"start", "begin"}
       /\ Word(tokens, 2) \in {"transaction", "tran", "work", "", "isolation", "deferrable", "read", "not"}

TouchesSession(tokens) ==
    \/ tokens[1].word \in {"set", "declare", "open", "close", "deallocate", "fetch", "print", "raiserror", "throw", "waitfor",
                           "listen", "unlisten", "prepare", "discard", "reset"}
    \/ /\ \E i \in 2..Len(tokens) : tokens[i].word \in {"temporary", "temp"}
       /\ tokens[1].word \in {"create", "drop", "declare"}

Quiet(tokens) ==
    /\ Words(tokens) \cap {"into", "insert", "update", "delete", "merge", "lock", "nextval", "setval", "get_lock",
                           "release_lock", "pg_advisory_lock", "openrowset", "opendatasource"} = {}
    /\ ~\E i \in 1..Len(tokens) : tokens[i].word = "for" /\ Word(tokens, i + 1) \in {"update", "share"}

\* What a statement that reads as kind is classified as in the end.
FinalKind(tokens, kind) ==
    IF OnlyATableVariable(tokens, kind) THEN "session"
    ELSE IF SelectCreatesSomething(tokens, kind) THEN "ddl" ELSE kind

Classify(tokens, kind) ==
    LET first == tokens[1].word
        wraps == IF IsBlock(tokens) THEN Words(Tail(tokens)) ELSE {first}
    IN  [kind      |-> FinalKind(tokens, kind),
         command   |-> IF SelectCreatesSomething(tokens, kind) THEN "ddl"
                       ELSE IF first = "with" THEN ClassifyWith(tokens).command ELSE kind,
         where     |-> HasWhere(tokens, kind),
         unscoped  |-> {},
         tables    |-> ExtractTables(tokens),
         drop      |-> "drop" \in wraps,
         truncate  |-> "truncate" \in wraps,
         script    |-> FALSE,
         session   |-> TouchesSession(tokens),
         control   |-> ControlsTransaction(tokens),
         switches  |-> first = "use",
         readsOnly |-> Quiet(tokens)]

ClassifyTokens(tokens) == IF tokens = <<>> THEN Unreadable ELSE Classify(tokens, KindOf(tokens))

ClassifyStatement(text) == ClassifyTokens(Lex(text))

-----------------------------------------------------------------------------
(* A script.                                                               *)

\* CREATE ... PROCEDURE, FUNCTION, TRIGGER or EVENT keeps the semicolons of
\* its body: what decides is the first telling word outside parentheses.
RoutineDefinition(tokens) ==
    LET header == 2..Least({16, Len(tokens)})
        tells  == {i \in header : tokens[i].depth # 0 \/ tokens[i].word \in
                     {"procedure", "proc", "function", "trigger", "event", "table", "view", "index", "unique", "schema", "database",
                      "sequence", "type", "user", "role", "materialized", "temporary", "temp", "extension", "as", "select"}}
    IN  /\ Word(tokens, 1) = "create" /\ tells # {} /\ tokens[Least(tells)].depth = 0
        /\ tokens[Least(tells)].word \in {"procedure", "proc", "function", "trigger", "event"}

\* How the first token changes the depth of a routine's blocks.
BlockStep(tokens, depth) ==
    LET word == Word(tokens, 1)  next == Word(tokens, 2)
    IN  CASE word = "case" -> depth + 1
          [] word = "begin" /\ next \notin {"tran", "transaction", "distributed", "work"} -> depth + 1
          [] word = "end" /\ depth > 0 /\ next \notin {"if", "loop", "while", "repeat"} -> depth - 1
          [] OTHER -> depth

\* The statements of a script and, while reading it, the one being read.
\* Only a routine's words move the depth of its blocks.
SplitStatements(text) ==
    LET Step(state, i) ==
            LET rest    == Lex(SubSeq(text, i, Len(text)))
                fresh   == state.first /\ text[i] # Comment
                routine == IF fresh THEN RoutineDefinition(rest) ELSE state.routine
                deep    == IF routine /\ text[i] # Comment /\ state.level = 0 THEN BlockStep(rest, state.blocks)
                           ELSE state.blocks
                level   == state.level + (CASE text[i] = "(" -> 1 [] text[i] = ")" -> -1 [] OTHER -> 0)
            IN  IF text[i] = ";" /\ state.level = 0 /\ (~routine \/ deep = 0)
                THEN [state EXCEPT !.done = Append(@, state.part), !.part = <<>>, !.first = TRUE, !.blocks = 0]
                ELSE [state EXCEPT !.part = Append(@, text[i]), !.routine = routine, !.blocks = deep, !.level = level,
                                   !.first = @ /\ text[i] = Comment]
        read == FoldLeft(Step, [done |-> <<>>, part |-> <<>>, first |-> TRUE, routine |-> FALSE, blocks |-> 0, level |-> 0],
                         [i \in 1..Len(text) |-> i])
    IN  SelectSeq(Append(read.done, read.part), LAMBDA part : part # <<>>)

ClassifyAll(statements) == [i \in 1..Len(statements) |-> ClassifyStatement(statements[i])]

\* sqlguard.ParseDialect: what a text is to the policies.
Parse(text) == Verdict(ClassifyAll(SplitStatements(text)))

-----------------------------------------------------------------------------
(* CQL: one statement, or a batch that is folded into one.                 *)

\* A batch has its statements between BATCH, which is word number head, and
\* APPLY BATCH.
ParseCQL(text) ==
    LET head  == IF Word(Lex(text), 2) \in {"unlogged", "counter"} THEN 3 ELSE 2
        apply == {i \in (head + 1)..(Len(text) - 1) : text[i] = "apply" /\ text[i + 1] = "batch"}
    IN  IF Word(Lex(text), 1) # "begin" THEN SingleCQL(Parse(text))
        ELSE IF Word(Lex(text), head) # "batch" THEN Parse(text)
        ELSE IF apply = {} THEN Unreadable
        ELSE MergeBatch({Parse(part) : part \in ToSet(SplitStatements(SubSeq(text, head + 1, Least(apply) - 1)))})
=============================================================================
