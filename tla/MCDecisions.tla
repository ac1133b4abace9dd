----------------------------- MODULE MCDecisions -----------------------------
(* An instance of Decisions and ActivityBuffer for TLC: how statements are judged
   and how what they did is recorded share nothing, so one is chosen and runs
   alone. *)
EXTENDS Decisions, ActivityBuffer

CONSTANTS k1, k2, k3, k4, k5, c1, c2

VARIABLE chosen

TwoConns == [k \in Key |-> IF k \in {k1, k2} THEN c1 ELSE c2]

\* Statements of every kind, scoped and unscoped, plain and wrapped.
Samples == {
    <<"select", "c", "from", "a">>,
    <<"select", "c", "from", "a", "where", "c", "=", "1", "for", "update">>,
    <<"select", "1">>,
    <<"select", "c", "into", "b", "from", "a", "where", "c", "=", "1">>,
    <<"insert", "into", "a", "values", "(", "1", ")", "on", "duplicate", "key", "update", "c", "=", "1">>,
    <<"insert", "into", "@t", "values", "(", "1", ")">>,
    <<"update", "a", "set", "c", "=", "1", "where", "c", "=", "1", "or", "1", "=", "1">>,
    <<"update", "b", "set", "c", "=", "1", "where", "(", "c", "=", "1", "or", "d", "=", "1", ")">>,
    <<"delete", "from", "a">>,
    <<"delete", "from", "a", "where", "c", "in", "(", "select", "c", "from", "b", ")">>,
    <<"with", "w", "as", "(", "delete", "from", "a", "returning", "c", ")", "select", "c", "from", "w">>,
    <<"explain", "analyze", "delete", "from", "a">>,
    <<"if", "exists", "(", "select", "1", "from", "a", ")", "drop", "table", "a">>,
    <<"drop", "table", "a">>,
    <<"truncate", "table", "a">>,
    <<"set", "global", "c", "=", "1">>,
    <<"begin", "transaction">>,
    <<"commit">>,
    <<"use", "b">>,
    <<"declare", "c", "cursor">>,
    <<"create", "temporary", "table", "b", "(", "c", ")">>,
    <<"create", "procedure", "c", "as", "begin", "if", "1", "=", "1", "begin", "delete", "from", "a", ";", "end", ";", "end">>,
    <<"prepare", "c">>,
    <<Comment>> }

MCInit ==
    /\ chosen \in {"judged", "recorded"}
    /\ DecisionsInit /\ (chosen = "recorded" => part = "lineage")
    /\ Init

\* Bound: a custom policy meets overrides of the row cap only.
Related == customs = {} \/ Touched \subseteq {"limit_rows"}

\* What is judged stops at its bounds.
MCNext ==
    /\ UNCHANGED chosen
    /\ \/ chosen = "judged" /\ ((DecisionsNext /\ Related') \/ UNCHANGED dvars) /\ UNCHANGED vars
       \/ chosen = "recorded" /\ Next /\ UNCHANGED dvars

MCSpec == MCInit /\ [][MCNext]_<<dvars, vars, chosen>> /\ Fairness
=============================================================================
