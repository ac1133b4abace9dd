--------------------------- MODULE MCSchemaCatalog ---------------------------
(* An instance of SchemaCatalog for TLC. *)
EXTENDS SchemaCatalog, TLC

CONSTANT r3

Symmetry == Permutations(Req \ {r3}) \cup Permutations(Database)

Busy == {r \in Req : pc[r] # "idle"}

\* Two requests overlap in every way; the third joins them when they load one
\* database's schema, or forget it, before the catalog changes.
Crowded == pc[r3] # "idle" \/ \E r \in Busy : op[r] = "forget"
Together ==
    /\ version = 0 /\ lineage = None
    /\ \A d \in Database : snapshot[d] = None
    /\ \A r, q \in Busy : target[r] = target[q]
    /\ \A r \in Busy : op[r] \in {"read", "refresh", "forget"}
    /\ \A d \in Database : cache[d] # None => \A r \in Busy : target[r] = d

\* Requests meet where they can tell: readers with those that change, in two
\* databases only where a change in one reaches the snapshots of both.  Lineage and
\* snapshots never meet: a behaviour keeps one of them at a time.
Apart == \E r, q \in Busy : target[r] # target[q]
Tell ==
    /\ Apart => \A r \in Busy : op[r] \in {"schema", "ddl", "cql"}
    /\ \A r, q \in Busy : r # q /\ op[r] = "select" =>
           op[q] \in {"ddl", "rows", "streamed", "cql"}
    /\ lineage # None => \A d \in Database : snapshot[d] = None

MCNext == Next /\ (Crowded' => Together') /\ Tell'
MCSpec == Init /\ [][MCNext]_vars
=============================================================================
