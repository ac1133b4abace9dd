---------------------------- MODULE Connections ----------------------------
(***************************************************************************)
(* A saved connection: its row, the secrets the row names, the nodes it    *)
(* reaches its database by (api/connections.go over store/connections.go), *)
(* and what is known of the nodes, which decides where a statement is sent *)
(* (api/topology.go).  Requests save and delete the connection in several  *)
(* calls of the store, any of which may fail, while callers probe nodes.   *)
(***************************************************************************)
EXTENDS Integers, FiniteSets

CONSTANTS
    Request,    \* bound: requests that save or delete the connection
    Caller,     \* statements that are routed, and the ticker: each repeats
    Addr,       \* addresses a node may have
    Optional,   \* secrets besides the password: "tls key", "ssh credential", "ssh passphrase"
    Absent,
    MaxNodes,   \* bound: nodes of the connection
    MaxFails    \* bound: calls of the store that fail, and crashes

VARIABLES
    saved,      \* the row of the connection, or Absent
    secrets,    \* secrets in the store; <<e, s>> is the one request e made for slot s
    nodes,      \* the rows of its nodes, by id; <<e, i>> is one that request e added
    lock,       \* the refresh lock the server keeps for the connection, 0: none
    locks,      \* how many it ever made
    saving,     \* where each request is
    routing,    \* where each caller is
    fails,
    stale,      \* history: a row was written over one that its writer had not read
    torn,       \* history: a save that failed could not be taken back
    left,       \* history: a cleanup failed, a crash cut a request off, or requests overlapped
    misled      \* history: nodes that a probe of another address spoke for

connectionVars == <<saved, secrets, nodes, lock, locks, saving, routing, fails, stale, torn, left, misled>>

Slot == Optional \cup {"password"}

\* Absent is no row.
ASSUME AbsentIsNoRow == Absent \notin [addr: Addr, secret: [Slot -> (Request \X Slot) \cup {Absent}]]

Idle == [kind |-> "none", pc |-> "new", read |-> Absent, write |-> Absent, list |-> Absent, drop |-> {}]

Busy(e) == saving[e].pc \notin {"new", "done"}

\* Secrets a row names.
Named(r) == IF r = Absent THEN {} ELSE {r.secret[s] : s \in Slot} \ {Absent}

\* Secrets a request makes, and those it puts out of use.
Made(e)     == Named(saving[e].write) \cap ({e} \X Slot)

\* Seeded fault: of what was replaced only the password is deleted.
ReplacedPassword(e) == {x \in Named(saving[e].read) \ Named(saving[e].write) : x[2] = "password"}

Replaced(e) == Named(saving[e].read) \ Named(saving[e].write)

Unknown(addr) == [addr |-> addr, role |-> "unknown", health |-> "unknown", fresh |-> FALSE, asked |-> Absent]

\* Seeded fault: what was found out at the old address is kept.
MovedAsKnown(node, addr) == [node EXCEPT !.addr = addr]

\* A node at its new address.
Moved(node, addr) == Unknown(addr)

NoNodes == [n \in {} |-> Absent]

ConnectionsInit ==
    /\ saved = Absent /\ secrets = {} /\ nodes = NoNodes
    /\ lock = 0 /\ locks = 0
    /\ saving = [e \in Request |-> Idle]
    /\ routing = [c \in Caller |-> [pc |-> "idle", want |-> Absent, lock |-> 0, list |-> NoNodes, sent |-> Absent]]
    /\ fails = 0 /\ stale = FALSE /\ torn = FALSE /\ left = FALSE /\ misled = {}

-----------------------------------------------------------------------------
(* Saving and deleting *)

\* A call of the store fails: the disk, a lock that is held too long, or a
\* client that went away and whose request is cancelled.
Fail == fails < MaxFails /\ fails' = fails + 1

\* The lists of nodes a request may give: new nodes, or ones that are there,
\* no two at one address.
GivenLists(e) ==
    LET ids == DOMAIN nodes \cup ({e} \X (1..MaxNodes))
    IN  {[n \in DOMAIN at |-> Unknown(at[n])] :
            at \in {f \in UNION {[some -> Addr] : some \in SUBSET ids \ {{}}} :
                       Cardinality(DOMAIN f) <= MaxNodes /\ \A m, n \in DOMAIN f : f[m] = f[n] => m = n}}

Begin(e, kind, pc, write, list) ==
    /\ saving[e].pc = "new"
    /\ saving' = [saving EXCEPT ![e] = [kind |-> kind, pc |-> pc, read |-> saved, write |-> write, list |-> list, drop |-> {}]]
    /\ left' = (left \/ \E f \in Request : Busy(f))
    /\ UNCHANGED <<saved, secrets, nodes, lock, locks, routing, fails, stale, torn, misled>>

\* The connection is created once; its id is never used again.
CreateConnection(e) ==
    /\ \A f \in Request : saving[f].kind # "create"
    /\ \E addr \in Addr, asked \in SUBSET Optional, list \in GivenLists(e) :
          Begin(e, "create", "make",
                [addr |-> addr, secret |-> [s \in Slot |-> IF s \in asked \cup {"password"} THEN <<e, s>> ELSE Absent]], list)

\* A field that is left out keeps the secret, a text replaces it, "" removes
\* it; a password is kept or replaced.  A kept TLS key must be readable.
UpdateConnection(e) ==
    /\ saved # Absent
    /\ \E addr \in Addr, ask \in [Slot -> {"keep", "text", "empty"}], list \in GivenLists(e) \cup {Absent} :
          /\ ask["password"] # "empty"
          /\ \A s \in Slot \cap {"tls key"} : ask[s] = "keep" /\ saved.secret[s] # Absent => saved.secret[s] \in secrets
          /\ Begin(e, "update", "make",
                   [addr |-> addr,
                    secret |-> [s \in Slot |-> CASE ask[s] = "keep"  -> saved.secret[s]
                                                 [] ask[s] = "text"  -> <<e, s>>
                                                 [] ask[s] = "empty" -> Absent]], list)

DeleteConnection(e) == saved # Absent /\ Begin(e, "delete", "delete", Absent, Absent)

\* A request goes on at pc, with some secrets to delete, or is done.
Onto(e, pc, drop) ==
    IF pc = "done" THEN [Idle EXCEPT !.kind = saving[e].kind, !.pc = "done"]
    ELSE [saving[e] EXCEPT !.pc = pc, !.drop = drop]

GoOn(e, pc, drop) == saving' = [saving EXCEPT ![e] = Onto(e, pc, drop)]

DeleteSecrets(e, ids) == IF ids = {} THEN GoOn(e, "done", {}) ELSE GoOn(e, "drop", ids)

\* The secrets are stored one by one, the password last.
Unmade(e) == Made(e) \ secrets

StoreSecret(e) ==
    /\ saving[e].pc = "make"
    /\ \E x \in Unmade(e) :
          /\ x[2] = "password" => Unmade(e) = {x}
          /\ \/ secrets' = secrets \cup {x} /\ UNCHANGED <<saving, fails>>
             \/ Fail /\ DeleteSecrets(e, Made(e) \cap secrets) /\ UNCHANGED secrets
    /\ UNCHANGED <<saved, nodes, lock, locks, routing, stale, torn, left, misled>>

\* The row is written as the request read it with what it changed.
WriteRow(e) ==
    /\ saving[e].pc = "make" /\ Unmade(e) = {}
    /\ \/ /\ saving[e].kind = "create" \/ saved # Absent
          /\ saved' = saving[e].write
          /\ stale' = (stale \/ saved # saving[e].read)
          /\ GoOn(e, IF saving[e].list = Absent THEN "list" ELSE "nodes", {})
          /\ UNCHANGED fails
       \/ /\ IF saving[e].kind = "update" /\ saved = Absent THEN UNCHANGED fails ELSE Fail
          /\ DeleteSecrets(e, Made(e))
          /\ UNCHANGED <<saved, stale>>
    /\ UNCHANGED <<secrets, nodes, lock, locks, routing, torn, left, misled>>

\* An update without a list keeps the nodes; a single one moves with the row.
ListNodes(e) ==
    LET one == [n \in DOMAIN nodes |-> Moved(nodes[n], saving[e].write.addr)]
        new == [n \in {<<e, 1>>} |-> Unknown(saving[e].write.addr)]
    IN  /\ saving[e].pc = "list"
        /\ \/ /\ saving' = [saving EXCEPT ![e].pc = "nodes",
                                    ![e].list = CASE Cardinality(DOMAIN nodes) = 0 -> new
                                                  [] Cardinality(DOMAIN nodes) = 1 -> one
                                                  [] OTHER -> nodes]
              /\ UNCHANGED fails
           \/ Fail /\ saving' = [saving EXCEPT ![e].pc = "nodes", ![e].list = new]
        /\ UNCHANGED <<saved, secrets, nodes, lock, locks, routing, stale, torn, left, misled>>

\* The nodes are replaced in one transaction, which a row that is gone fails.
\* An update then deletes the secrets it replaced; a create may still fail
\* after it, in a hook of an extension.
ReplaceNodes(e) ==
    /\ saving[e].pc = "nodes"
    /\ \/ /\ saved # Absent
          /\ nodes' = saving[e].list
          /\ DeleteSecrets(e, IF saving[e].kind = "update" THEN Replaced(e) ELSE {})
          /\ UNCHANGED fails
       \/ /\ IF saved = Absent THEN UNCHANGED fails ELSE Fail
          /\ nodes' = nodes \/ (saved # Absent /\ saving[e].kind = "create" /\ nodes' = saving[e].list)
          /\ GoOn(e, "undo", {})
    /\ UNCHANGED <<saved, secrets, lock, locks, routing, stale, torn, left, misled>>

\* Seeded fault: the row stays when its nodes were not written.
UndoNothing(e) ==
    /\ saving[e].pc = "undo"
    /\ DeleteSecrets(e, Made(e))
    /\ UNCHANGED <<saved, secrets, nodes, lock, locks, routing, fails, stale, torn, left, misled>>

\* Seeded fault: a row that was deleted meanwhile is put back all the same.
UndoAnyway(e) ==
    /\ saving[e].pc = "undo"
    /\ DeleteSecrets(e, Made(e))
    /\ saved' = saving[e].read
    /\ UNCHANGED <<secrets, nodes, lock, locks, routing, fails, stale, torn, left, misled>>

\* A save that failed half-way: an update puts back the row it had read, a
\* create deletes its row.
Undo(e) ==
    /\ saving[e].pc = "undo"
    /\ DeleteSecrets(e, Made(e))
    /\ \/ /\ saved # Absent
          /\ saved' = saving[e].read
          /\ stale' = (stale \/ saved # saving[e].write)
          /\ nodes' = IF saving[e].kind = "create" THEN NoNodes ELSE nodes
          /\ UNCHANGED <<fails, torn>>
       \/ /\ IF saved = Absent THEN UNCHANGED <<fails, torn>> ELSE Fail /\ torn' = TRUE
          /\ UNCHANGED <<saved, stale, nodes>>
    /\ UNCHANGED <<secrets, lock, locks, routing, left, misled>>

\* The row goes first, with its nodes; a connection that is gone is not found.
DeleteRow(e) ==
    /\ saving[e].pc = "delete"
    /\ \/ /\ saved # Absent
          /\ saved' = Absent /\ nodes' = NoNodes
          /\ GoOn(e, "drop", Named(saving[e].read))
          /\ UNCHANGED fails
       \/ /\ IF saved = Absent THEN UNCHANGED fails ELSE Fail
          /\ GoOn(e, "done", {})
          /\ UNCHANGED <<saved, nodes>>
    /\ UNCHANGED <<secrets, lock, locks, routing, stale, torn, left, misled>>

\* Secrets are deleted one by one; an error is ignored.
DropSecret(e) ==
    /\ saving[e].pc = "drop"
    /\ \E x \in saving[e].drop :
          /\ LET rest == saving[e].drop \ {x}
             IN  GoOn(e, IF rest # {} THEN "drop" ELSE IF saving[e].kind = "delete" THEN "forget" ELSE "done", rest)
          /\ \/ secrets' = secrets \ {x} /\ UNCHANGED <<fails, left>>
             \/ Fail /\ left' = TRUE /\ UNCHANGED secrets
    /\ UNCHANGED <<saved, nodes, lock, locks, routing, stale, torn, misled>>

\* Seeded fault: the lock goes before the row.
ForgetFirst(e) ==
    /\ saving[e].pc = "delete" /\ lock # 0
    /\ lock' = 0
    /\ UNCHANGED <<saved, secrets, nodes, locks, saving, routing, fails, stale, torn, left, misled>>

\* The lock goes last, whoever holds it.
ForgetLock(e) ==
    /\ saving[e].pc = "forget"
    /\ lock' = 0
    /\ GoOn(e, "done", {})
    /\ UNCHANGED <<saved, secrets, nodes, locks, routing, fails, stale, torn, left, misled>>

-----------------------------------------------------------------------------
(* Probing and routing *)

\* Nodes a statement may be sent to.
FreshNode(want) ==
    {n \in DOMAIN nodes : /\ nodes[n].health = "healthy" /\ nodes[n].fresh
                          /\ nodes[n].role = want \/ (want = "either" /\ nodes[n].role \in {"primary", "secondary"})}

\* A node is chosen, or there is none and the caller goes on at pc.
Send(c, want, pc) ==
    \/ \E n \in FreshNode(want) :
          routing' = [routing EXCEPT ![c] = [pc |-> "idle", want |-> want, lock |-> 0, list |-> NoNodes,
                                       sent |-> [node |-> n, addr |-> nodes[n].addr, asked |-> nodes[n].asked, role |-> nodes[n].role]]]
    \/ /\ FreshNode(want) = {}
       /\ routing' = [routing EXCEPT ![c] = [pc |-> pc, want |-> want, lock |-> 0, list |-> NoNodes, sent |-> Absent]]

UnchangedByCallers == UNCHANGED <<saved, secrets, saving, fails, stale, torn, left>>

\* A statement asks for a node of a role, a schema for any; the ticker for none.
RouteNode(c) ==
    /\ routing[c].pc = "idle" /\ saved # Absent
    /\ \/ \E want \in {"primary", "secondary", "either"} : Send(c, want, "lock")
       \/ routing' = [routing EXCEPT ![c].pc = "lock", ![c].want = Absent, ![c].sent = Absent]
    /\ UnchangedByCallers /\ UNCHANGED <<nodes, lock, locks, misled>>

ConnectionTopologyLock(c) ==
    LET mine == IF lock = 0 THEN locks + 1 ELSE lock
    IN  /\ routing[c].pc = "lock"
        /\ lock' = mine
        /\ locks' = IF lock = 0 THEN mine ELSE locks
        /\ routing' = [routing EXCEPT ![c].pc = "wait", ![c].lock = mine]
        /\ UnchangedByCallers /\ UNCHANGED <<nodes, misled>>

\* Where a caller goes on when its refresh is over.
After(c) == IF routing[c].want = Absent THEN "idle" ELSE "reread"

Free(l) == \A d \in Caller : ~(routing[d].pc = "probe" /\ routing[d].lock = l)

\* Under the lock the row and the nodes are read: if it is gone, nothing is probed.
ReadNodes(c) ==
    /\ routing[c].pc = "wait" /\ Free(routing[c].lock)
    /\ \/ saved # Absent /\ routing' = [routing EXCEPT ![c].pc = "probe", ![c].list = nodes]
       \/ routing' = [routing EXCEPT ![c].pc = After(c), ![c].lock = 0]
    /\ UnchangedByCallers /\ UNCHANGED <<nodes, lock, locks, misled>>

\* What a node answers is stored under its id, unless the refresh was
\* cancelled or the node is gone.
ProbeNode(c) ==
    /\ routing[c].pc = "probe"
    /\ \E n \in DOMAIN routing[c].list :
          /\ routing' = [routing EXCEPT ![c].list = [m \in DOMAIN routing[c].list \ {n} |-> routing[c].list[m]]]
          /\ \/ UNCHANGED <<nodes, misled>>
             \/ \E role \in {"primary", "secondary", "unknown"} :
                   /\ n \in DOMAIN nodes
                   /\ nodes' = [nodes EXCEPT ![n].role = role, ![n].health = IF role = "unknown" THEN "unreachable" ELSE "healthy",
                                             ![n].fresh = TRUE, ![n].asked = routing[c].list[n].addr]
                   /\ misled' = IF nodes[n].addr = routing[c].list[n].addr THEN misled ELSE misled \cup {n}
    /\ UnchangedByCallers /\ UNCHANGED <<lock, locks>>

FinishRefresh(c) ==
    /\ routing[c].pc = "probe" /\ DOMAIN routing[c].list = {}
    /\ routing' = [routing EXCEPT ![c].pc = After(c), ![c].lock = 0, ![c].list = NoNodes]
    /\ UnchangedByCallers /\ UNCHANGED <<nodes, lock, locks, misled>>

\* The nodes are read again; if there is still none, the statement fails.
RouteAgain(c) ==
    /\ routing[c].pc = "reread"
    /\ Send(c, routing[c].want, "idle")
    /\ UnchangedByCallers /\ UNCHANGED <<nodes, lock, locks, misled>>

\* Three intervals or more pass: what was found out is too old.
Aged(list) == IF list = Absent THEN Absent ELSE [n \in DOMAIN list |-> [list[n] EXCEPT !.fresh = FALSE]]

Age ==
    /\ \E n \in DOMAIN nodes : nodes[n].fresh
    /\ nodes' = Aged(nodes)
    /\ saving' = [e \in Request |-> [saving[e] EXCEPT !.list = Aged(saving[e].list)]]
    /\ UNCHANGED <<saved, secrets, lock, locks, routing, fails, stale, torn, left, misled>>

\* The process ends and is started again: what it had begun is not resumed.
Crash ==
    /\ Fail
    /\ saving' = [e \in Request |-> IF Busy(e) THEN Onto(e, "done", {}) ELSE saving[e]]
    /\ left' = (left \/ \E e \in Request : Busy(e))
    /\ routing' = [c \in Caller |-> [pc |-> "idle", want |-> Absent, lock |-> 0, list |-> NoNodes, sent |-> Absent]]
    /\ lock' = 0
    /\ UNCHANGED <<saved, secrets, nodes, locks, stale, torn, misled>>

ConnectionsNext ==
    \/ \E e \in Request :
          \/ CreateConnection(e) \/ UpdateConnection(e) \/ DeleteConnection(e)
          \/ StoreSecret(e) \/ WriteRow(e) \/ ListNodes(e) \/ ReplaceNodes(e) \/ Undo(e)
          \/ DeleteRow(e) \/ DropSecret(e) \/ ForgetLock(e)
    \/ \E c \in Caller :
          \/ RouteNode(c) \/ ConnectionTopologyLock(c) \/ ReadNodes(c) \/ ProbeNode(c)
          \/ FinishRefresh(c) \/ RouteAgain(c)
    \/ Age \/ Crash

ConnectionsSpec == ConnectionsInit /\ [][ConnectionsNext]_connectionVars

-----------------------------------------------------------------------------
(* Properties *)

\* The row names no secret that is not in the store, at any moment, whatever
\* fails and wherever the process stops: secrets are stored before the row and
\* deleted after it.  Two cases apart: a request that wrote over a row it had
\* not read, and a failed save that could not be taken back.
SecretsAreThere == ~stale /\ ~torn => Named(saved) \subseteq secrets

\* When no request is under way the store holds no secret that no row names,
\* if none overlapped another and no call that cleans up failed.
NoSecretIsLeft ==
    (\A e \in Request : ~Busy(e)) /\ ~left /\ ~torn => secrets \subseteq Named(saved)

\* Two refreshes never probe the connection at the same time, also while it is
\* deleted and its lock forgotten.
OneRefresh == \A c, d \in Caller : routing[c].pc = "probe" /\ routing[d].pc = "probe" => c = d

\* A connection that was deleted, or whose creation was taken back, stays gone,
\* also when an update was under way and would put back the row it had read.
StaysDeleted ==
    [][saved = Absent /\ (\E e \in Request : saving[e].kind = "create" /\ saving[e].pc # "make") => saved' = Absent]_connectionVars

\* A statement is sent to an address that said, when probed, that it has the
\* role the statement asks for, also after the node was moved; a probe that
\* was under way when its node was moved apart.
SentWhereVerified ==
    \A c \in Caller : routing[c].sent # Absent =>
        /\ routing[c].sent.asked = routing[c].sent.addr \/ routing[c].sent.node \in misled
        /\ routing[c].sent.role = routing[c].want \/ (routing[c].want = "either" /\ routing[c].sent.role # "unknown")
=============================================================================
