--------------------------- MODULE MCConnections ---------------------------
(* An instance of Connections for TLC: requests save while calls fail, or callers
   probe nodes that requests move. *)
EXTENDS Connections, TLC

CONSTANTS e1, e2, e3, c1, c2, a1, a2

VARIABLE chosen

Symmetric == Permutations(Request)

Begun  == {e \in Request : saving[e].pc # "new"}
Routed == {c \in Caller : routing[c].pc # "idle" \/ routing[c].sent # Absent}

\* What requests are about to write.
Rows   == {saving[e].write : e \in Begun} \ {Absent}
Lists  == {saving[e].list : e \in Begun} \ {Absent}
Places == {r.addr : r \in Rows} \cup UNION {{list[n].addr : n \in DOMAIN list} : list \in Lists}

\* Three requests with an optional secret, and nobody to route; or two requests
\* without, whose calls do not fail: two callers and no update, or two addresses.
Steady == Cardinality(Begun) <= 2 /\ fails = 0 /\ \A r \in Rows, s \in Optional : r.secret[s] = Absent
Within ==
    CASE chosen = "saves"  -> Routed = {} /\ Places \subseteq {a1}
      [] chosen = "probes" -> Steady /\ Places \subseteq {a1} /\ \A e \in Request : saving[e].kind # "update"
      [] chosen = "moves"  -> Steady /\ Routed \subseteq {c1}

MCInit == chosen \in {"saves", "probes", "moves"} /\ ConnectionsInit
MCNext == UNCHANGED chosen /\ ConnectionsNext /\ Within'
MCSpec == MCInit /\ [][MCNext]_<<connectionVars, chosen>>
=============================================================================
