----------------------------- MODULE PolicyAdmin -----------------------------
(***************************************************************************)
(* Administering policies (api/policies.go over store/governance.go): the  *)
(* overrides of the built-in policies for everyone, for a connection or    *)
(* for a role, the custom policies, and the lists that say what is in      *)
(* force.  Module Policy holds what is then enforced.                      *)
(***************************************************************************)
EXTENDS Policy

CONSTANTS
    Connections,    \* saved connections; every role is a member of Roles
    Roles,
    Shared,         \* an installation several people share
    CustomIds,      \* bound: custom policies there can be
    MaxTouched,     \* bound: built-in policies whose overrides differ from the seed
    Caps            \* values given to policies that take one; 0: not a valid one

VARIABLES overrides, customs

Catalog == {"deny_select_without_where", "deny_delete_without_where", "deny_update_without_where", "deny_drop",
            "deny_truncate", "limit_rows", "query_timeout_seconds", "deny_multi_statement", "deny_unclassified"}

\* What a policy is taken to be without an override.
Default == [key \in Catalog |-> key \in {"deny_delete_without_where", "deny_update_without_where", "deny_drop",
                                         "deny_truncate", "limit_rows"}]

HasValue(key) == key \in {"limit_rows", "query_timeout_seconds"}

Override(key, scope, target, enabled, value) ==
    [key |-> key, scope |-> scope, target |-> target, enabled |-> enabled, value |-> value]

\* What a new workspace is seeded with.
SeedValue(key) == IF key = "limit_rows" THEN 10000 ELSE 0

Seeded == {Override(key, "global", "", Default[key], SeedValue(key)) : key \in Catalog \ {"query_timeout_seconds"}}

PolicyInit == overrides = Seeded /\ customs = {}

-----------------------------------------------------------------------------
\* Where an override is stored: a role wins over a connection.
ScopedPolicyKey(conn, role) ==
    IF role # "" THEN <<"role", role>> ELSE IF conn # "" THEN <<"connection", conn>> ELSE <<"global", "">>

PersonalPolicyAllowed(role) == Shared \/ role = ""

At(key, place) == {o \in overrides : o.key = key /\ <<o.scope, o.target>> = place}

\* An override that exists keeps its value unless it is given one.
SetPolicyOverride(key, place, enabled, value) ==
    LET old  == At(key, place)
        kept == IF value = 0 /\ old # {} THEN (CHOOSE o \in old : TRUE).value ELSE value
    IN  (overrides \ old) \cup {Override(key, place[1], place[2], enabled, kept)}

TogglePolicy(key, conn, role, enabled, value) ==
    /\ PersonalPolicyAllowed(role)
    /\ IF HasValue(key) THEN enabled => value \in Nat \ {0} /\ value <= 86400 ELSE value = 0
    /\ overrides' = SetPolicyOverride(key, ScopedPolicyKey(conn, role), enabled, value)
    /\ UNCHANGED customs

DeletePolicyScope(key, conn, role) ==
    /\ overrides' = overrides \ At(key, ScopedPolicyKey(conn, role))
    /\ UNCHANGED customs

-----------------------------------------------------------------------------
CustomKinds == {"deny_table", "deny_statement", "limit_rows", "deny_write_outside_hours"}

ValidateCustom(kind, config) ==
    CASE kind = "deny_statement" -> config \in {"insert", "update", "delete", "ddl"}
      [] kind = "limit_rows"     -> config \in Nat \ {0}
      [] OTHER                   -> TRUE

\* A create takes a free id, an update one that exists; both leave it enabled.
PutCustomPolicy(id, kind, config, conn, role, create) ==
    /\ PersonalPolicyAllowed(role) /\ kind \in CustomKinds /\ ValidateCustom(kind, config)
    /\ create <=> ~\E p \in customs : p.id = id
    /\ customs' = {p \in customs : p.id # id} \cup
                    {[id |-> id, kind |-> kind, config |-> config, conn |-> conn, role |-> role, enabled |-> TRUE]}
    /\ UNCHANGED overrides

PatchCustomPolicy(id, enabled) ==
    /\ \E p \in customs : p.id = id
    /\ customs' = {IF p.id = id THEN [p EXCEPT !.enabled = enabled] ELSE p : p \in customs}
    /\ UNCHANGED overrides

DeleteCustomPolicy(id) ==
    /\ \E p \in customs : p.id = id
    /\ customs' = {p \in customs : p.id # id}
    /\ UNCHANGED overrides

\* Bound: the configs a custom policy is given here.
Configs(kind) == IF kind = "deny_statement" THEN {"select"} ELSE IF kind = "limit_rows" THEN {0, 5} \cup Caps ELSE {}

Touched == {o.key : o \in (overrides \ Seeded) \cup (Seeded \ overrides)}

PolicyNext ==
    \/ \E key \in {k \in Catalog : Cardinality(Touched \cup {k}) <= MaxTouched}, conn \in Connections \cup {""}, role \in Roles \cup {""} :
          \/ \E enabled \in BOOLEAN, value \in Caps \cup {0} : TogglePolicy(key, conn, role, enabled, value)
          \/ DeletePolicyScope(key, conn, role)
    \/ \E id \in CustomIds :
          \/ \E kind \in CustomKinds, conn \in Connections \cup {""}, role \in Roles \cup {""}, create \in BOOLEAN :
                \E config \in Configs(kind) : PutCustomPolicy(id, kind, config, conn, role, create)
          \/ \E enabled \in BOOLEAN : PatchCustomPolicy(id, enabled)
          \/ DeleteCustomPolicy(id)

PolicySpec == PolicyInit /\ [][PolicyNext]_<<overrides, customs>>

-----------------------------------------------------------------------------
\* The list an administrator or a user is shown for a connection and a role:
\* whether a policy is on, its value, and whether an override says so.
ListPolicies(key, conn, role) ==
    LET Shown(place) == CHOOSE o \in At(key, place) : TRUE
        Says(place)  == [enabled |-> Shown(place).enabled, value |-> Shown(place).value]
    IN  IF At(key, <<"role", role>>) # {} THEN Says(<<"role", role>>)
        ELSE IF At(key, <<"connection", conn>>) # {} THEN Says(<<"connection", conn>>)
        ELSE IF At(key, <<"global", "">>) # {} THEN Says(<<"global", "">>)
        ELSE [enabled |-> Default[key], value |-> 0]

\* The statements the policies are tried on.
Plain == [kind |-> "select", command |-> "select", where |-> TRUE, unscoped |-> {}, tables |-> {"a"}, drop |-> FALSE,
          truncate |-> FALSE, script |-> FALSE, session |-> FALSE, control |-> FALSE, switches |-> FALSE, readsOnly |-> TRUE]

\* A statement each policy is against.
Violating(key) ==
    CASE key = "deny_select_without_where" -> [Plain EXCEPT !.where = FALSE]
      [] key = "deny_delete_without_where" -> [Plain EXCEPT !.kind = "delete", !.where = FALSE]
      [] key = "deny_update_without_where" -> [Plain EXCEPT !.kind = "update", !.where = FALSE]
      [] key = "deny_drop"                 -> [Plain EXCEPT !.kind = "ddl", !.drop = TRUE]
      [] key = "deny_truncate"             -> [Plain EXCEPT !.kind = "ddl", !.truncate = TRUE]
      [] key = "deny_multi_statement"      -> [Plain EXCEPT !.script = TRUE]
      [] key = "deny_unclassified"         -> [Plain EXCEPT !.kind = "other"]

Refused(s, disabled, enabled) ==
    Evaluate([stmt |-> s, readOnly |-> FALSE, cleared |-> FALSE, disabled |-> disabled, enabled |-> enabled]) # "allow"

\* What the list of a connection and a role shows is what a statement run
\* there by that role meets: a policy refuses if and only if it is shown as
\* on, and the row cap is the lowest of those shown.  (A policy whose override
\* for everyone was deleted is shown as its default; that of a SELECT without
\* WHERE and of the row cap is not what is then enforced.)
ListedIsEnforced ==
    \A conn \in Connections, role \in Roles :
        /\ LET off == Disabled(overrides, conn, role)
               on  == Enabled(overrides, conn, role)
           IN  \A key \in {k \in Catalog : ~HasValue(k)} :
                  (key = "deny_select_without_where" => At(key, <<"global", "">>) # {}) =>
                      (Refused(Violating(key), off, on) <=> ListPolicies(key, conn, role).enabled)
        /\ At("limit_rows", <<"global", "">>) # {} =>
              LET shown   == ListPolicies("limit_rows", conn, role)
                  caps    == {p.config : p \in {q \in customs : q.enabled /\ q.kind = "limit_rows" /\ q.conn \in {"", conn}
                                                                  /\ q.role \in {"", role}}}
                                \cup (IF shown.enabled THEN {shown.value} ELSE {})
                  limit   == CustomLimit(customs, Plain, conn, role, Value(overrides, "limit_rows", conn, role))
              IN  IF caps = {} THEN limit = 0 ELSE limit \in caps /\ \A cap \in caps : limit <= cap
=============================================================================
