----------------------------- MODULE PoolManager -----------------------------
(***************************************************************************)
(* engine.Manager's pools of database connections: a pool is opened once   *)
(* for the settings it is keyed by, shared by the requests that come with  *)
(* these settings, closed when its connection is edited or deleted         *)
(* (Invalidate), and closed with the manager (Close).                      *)
(*                                                                         *)
(* One saved connection; its settings are told by their version, which is  *)
(* what poolKey digests.  A pool stands for the sql.DB and the SSH tunnel  *)
(* under it, which are opened and closed together.  A step is one critical *)
(* section of Manager.mu, or one thing done outside it.                    *)
(***************************************************************************)
EXTENDS Naturals, FiniteSets

CONSTANTS
    Req,            \* request slots, one goroutine each
    Pool,           \* pools; one that is closed and let go is used again
    Calls,          \* Calls[r]: the calls that arrive in r
    MaxVersion,     \* bound on the edits of the connection
    Gone,           \* the connection was deleted
    None

AllCalls == {"query", "edit", "delete", "close"}

ASSUME PoolAssumption ==
    /\ Calls \in [Req -> SUBSET AllCalls]
    /\ MaxVersion \in Nat
    /\ Gone \notin Nat /\ None \notin Req \cup Pool \cup Nat
    /\ Req \cap Pool = {}

VARIABLES
    row,        \* the settings saved in the store
    serving,    \* FALSE once the server shuts down: no call arrives
    pools,      \* Manager.pools: settings -> pool
    opening,    \* Manager.opening: settings -> the request that sets one up
    closed,     \* Manager.closed
    open,       \* the pools whose sql.DB and tunnel are open
    pc, op,     \* where each request stands, which call it serves
    key,        \* key[r]: the settings it read
    pool,       \* pool[r]: the pool it opened or was given
    opener,     \* opener[r]: whose setup it waits for
    doomed,     \* doomed[r]: pools it took out of the map to close
    \* History.
    overtaken   \* setups and pools that an Invalidate or Close came after

map  == <<pools, opening, closed>>
call == <<op, key>>
held == <<pool, opener, doomed>>
vars == <<row, serving, map, open, pc, call, held, overtaken>>

Version == 0..MaxVersion

Init ==
    /\ row = 0 /\ serving = TRUE
    /\ pools = [v \in Version |-> None]
    /\ opening = [v \in Version |-> None]
    /\ closed = FALSE
    /\ open = {}
    /\ pc = [r \in Req |-> "idle"]
    /\ op = [r \in Req |-> "none"]
    /\ key = [r \in Req |-> None]
    /\ pool = [r \in Req |-> None]
    /\ opener = [r \in Req |-> None]
    /\ doomed = [r \in Req |-> {}]
    /\ overtaken = {}

Goto(r, l) == pc' = [pc EXCEPT ![r] = l]

-----------------------------------------------------------------------------
(* Calls *)

Starts(o) == CASE o = "query"              -> "row"
               [] o \in {"edit", "delete"} -> o
               [] OTHER                    -> "invalidate"

Arrive(r, o) ==
    /\ serving /\ pc[r] = "idle" /\ o \in Calls[r]
    /\ serving' = (o # "close")
    /\ op' = [op EXCEPT ![r] = o]
    /\ Goto(r, Starts(o))
    /\ UNCHANGED <<row, map, open, key, held, overtaken>>

Return(r) ==
    /\ pc[r] \in {"answered", "failed", "refused"}
    /\ op' = [op EXCEPT ![r] = "none"]
    /\ key' = [key EXCEPT ![r] = None]
    /\ pool' = [pool EXCEPT ![r] = None]
    /\ overtaken' = overtaken \ {r}
    /\ Goto(r, "idle")
    /\ UNCHANGED <<row, serving, map, open, opener, doomed>>

\* authorizedConnection and engineConnection read the row and its secrets.
ReadRow(r) ==
    /\ pc[r] = "row"
    /\ \/ row = Gone /\ Goto(r, "failed") /\ UNCHANGED key
       \/ row # Gone /\ Goto(r, "database") /\ key' = [key EXCEPT ![r] = row]
    /\ UNCHANGED <<row, serving, map, open, op, held, overtaken>>

-----------------------------------------------------------------------------
(* Manager.database *)

Refuse(r) ==
    /\ pc[r] = "database" /\ closed
    /\ Goto(r, "refused")
    /\ UNCHANGED <<row, serving, map, open, call, held, overtaken>>

Share(r) ==
    /\ pc[r] = "database" /\ ~closed /\ pools[key[r]] # None
    /\ pool' = [pool EXCEPT ![r] = pools[key[r]]]
    /\ Goto(r, "use")
    /\ UNCHANGED <<row, serving, map, open, call, opener, doomed, overtaken>>

\* Someone sets the pool up already.
Alone(r) == opening[key[r]] = None

JoinSetup(r) ==
    /\ pc[r] = "database" /\ ~closed
    /\ pools[key[r]] = None /\ ~Alone(r)
    /\ opener' = [opener EXCEPT ![r] = opening[key[r]]]
    /\ Goto(r, "wait")
    /\ UNCHANGED <<row, serving, map, open, call, pool, doomed, overtaken>>

BeginSetup(r) ==
    /\ pc[r] = "database" /\ ~closed
    /\ pools[key[r]] = None /\ Alone(r)
    /\ opening' = [opening EXCEPT ![key[r]] = r]
    /\ Goto(r, "setup")
    /\ UNCHANGED <<row, serving, pools, closed, open, call, held, overtaken>>

Spare(p) ==
    /\ p \notin open
    /\ \A v \in Version : pools[v] # p
    /\ \A r \in Req : pool[r] # p /\ p \notin doomed[r]

\* The tunnel is dialled and the pool opened, or one of them fails.
Setup(r) ==
    /\ pc[r] = "setup"
    /\ \/ UNCHANGED <<open, pool, overtaken>>
       \/ \E p \in Pool :
             /\ Spare(p)
             /\ open' = open \cup {p}
             /\ pool' = [pool EXCEPT ![r] = p]
             /\ overtaken' = IF r \in overtaken THEN overtaken \cup {p}
                                                ELSE overtaken \ {p}
    /\ Goto(r, "store")
    /\ UNCHANGED <<row, serving, map, call, opener, doomed>>

\* Seeded fault: a setup for the same settings will do, whoever's it is.
AnySetupCounts(r) == ~closed /\ opening[key[r]] # None

\* Neither Close nor Invalidate came in between.
StillWanted(r) == ~closed /\ opening[key[r]] = r

Succeeds(r) == pool[r] # None /\ StillWanted(r)

\* Seeded faults: whoever waits is given what was opened, also when it was
\* invalidated; whoever waits for a setup that was called
\* off is not told.
GivenAnyway(r) == pool[r] # None
ToldIfWanted(r) == IF opening[key[r]] = r THEN {w \in Req : opener[w] = r} ELSE {}

Given(r)   == Succeeds(r)
Waiters(r) == {w \in Req : opener[w] = r}

\* The pool enters the map, or not, and close(pending.ready) sends everyone
\* who waits on with the pool or the error.
Store(r) ==
    /\ pc[r] = "store"
    /\ pools' = IF Succeeds(r) THEN [pools EXCEPT ![key[r]] = pool[r]] ELSE pools
    /\ opening' = [opening EXCEPT ![key[r]] = IF @ = r THEN None ELSE @]
    /\ pool' = [q \in Req |->
                   IF q \in Waiters(r) /\ Given(r) THEN pool[r] ELSE pool[q]]
    /\ opener' = [q \in Req |-> IF q \in Waiters(r) THEN None ELSE opener[q]]
    /\ pc' = [q \in Req |->
                CASE q = r          -> IF Succeeds(r) THEN "use"
                                       ELSE IF pool[r] # None THEN "discard" ELSE "failed"
                  [] q \in Waiters(r) -> IF Given(r) THEN "use" ELSE "failed"
                  [] OTHER          -> pc[q]]
    /\ UNCHANGED <<row, serving, closed, open, call, doomed, overtaken>>

\* Seeded fault: what was set up for nothing stays open.
LeftOpen(r) == open

ClosedBy(r) == open \ {pool[r]}

Discard(r) ==
    /\ pc[r] = "discard"
    /\ open' = ClosedBy(r)
    /\ pool' = [pool EXCEPT ![r] = None]
    /\ Goto(r, "failed")
    /\ UNCHANGED <<row, serving, map, call, opener, doomed, overtaken>>

\* The statement runs, or finds its sql.DB closed.
Use(r) ==
    /\ pc[r] = "use"
    /\ Goto(r, IF pool[r] \in open THEN "answered" ELSE "failed")
    /\ UNCHANGED <<row, serving, map, open, call, held, overtaken>>

-----------------------------------------------------------------------------
(* updateConnection, deleteConnection; Invalidate and Close *)

Edit(r) ==
    /\ pc[r] = "edit"
    /\ \/ row \in Version /\ row + 1 \in Version
          /\ row' = row + 1 /\ key' = [key EXCEPT ![r] = row + 1]
          /\ Goto(r, "invalidate")
       \/ UNCHANGED <<row, key>> /\ Goto(r, "failed")
    /\ UNCHANGED <<serving, map, open, op, held, overtaken>>

Delete(r) ==
    /\ pc[r] = "delete"
    /\ \/ row # Gone /\ row' = Gone /\ Goto(r, "invalidate")
       \/ row = Gone /\ UNCHANGED row /\ Goto(r, "failed")
    /\ UNCHANGED <<serving, map, open, call, held, overtaken>>

InSetup == {r \in Req : pc[r] \in {"setup", "store"}}

\* Both take the pools out of the map and call the setups off at once; Close
\* bars the manager, too.
Invalidate(r) ==
    /\ pc[r] = "invalidate"
    /\ doomed' = [doomed EXCEPT ![r] = {pools[v] : v \in Version} \ {None}]
    /\ pools' = [v \in Version |-> None]
    /\ opening' = [v \in Version |-> None]
    /\ closed' = (closed \/ op[r] = "close")
    /\ overtaken' = overtaken \cup open \cup InSetup
    /\ Goto(r, "closing")
    /\ UNCHANGED <<row, serving, open, call, pool, opener>>

ClosePool(r, p) ==
    /\ pc[r] = "closing" /\ p \in doomed[r]
    /\ open' = open \ {p}
    /\ doomed' = [doomed EXCEPT ![r] = @ \ {p}]
    /\ UNCHANGED <<row, serving, map, pc, call, pool, opener, overtaken>>

Invalidated(r) ==
    /\ pc[r] = "closing" /\ doomed[r] = {}
    /\ Goto(r, "answered")
    /\ UNCHANGED <<row, serving, map, open, call, held, overtaken>>

-----------------------------------------------------------------------------
(* The system *)

Connect(r) ==
    ReadRow(r) \/ Refuse(r) \/ Share(r) \/ JoinSetup(r) \/ BeginSetup(r)
        \/ Setup(r) \/ Store(r) \/ Discard(r) \/ Use(r)
Drop(r) == Invalidate(r) \/ Invalidated(r) \/ \E p \in Pool : ClosePool(r, p)

Proceed(r) == Connect(r) \/ Edit(r) \/ Delete(r) \/ Drop(r) \/ Return(r)

\* A server that has shut down and answered its last call stands still.
Stopped == ~serving /\ (\A r \in Req : pc[r] = "idle") /\ UNCHANGED vars

Next ==
    \/ \E r \in Req : Proceed(r) \/ \E o \in AllCalls : Arrive(r, o)
    \/ Stopped

Spec == Init /\ [][Next]_vars

\* Handlers run on; dialling and opening end (the drivers' and SSH timeouts).
FairSpec == Spec /\ \A r \in Req : WF_vars(Proceed(r))

-----------------------------------------------------------------------------
(* Properties *)

\* A pool set up while its connection was edited or deleted, or while the
\* manager was closed, does not enter the map after all pools were taken out
\* of it ("database connection was invalidated during setup").
OvertakenIsNotStored ==
    \A v \in Version : pools[v] # None => pools[v] \notin overtaken

\* Every open pool is in the map, or in the hands of the request that opened
\* it or of one that will close it: none is left open with nobody to close it.
NoneLeaked ==
    \A p \in open :
        \/ \E v \in Version : pools[v] = p
        \/ \E r \in Req : p \in doomed[r]
        \/ \E r \in Req : pool[r] = p /\ pc[r] \in {"store", "discard"}

\* Settings that have a pool are not set up again, no two setups for one
\* settings are stored, and a pool that its opener is about to close was given
\* to nobody, however many requests wait for the setup (Manager.database).
SharedIsWanted ==
    /\ \A v \in Version : opening[v] # None => pools[v] = None
    /\ \A r, q \in InSetup : key[r] = key[q] /\ r # q => r \in overtaken \/ q \in overtaken
    /\ \A r, q \in Req : pc[r] = "discard" /\ pc[q] = "use" => pool[r] # pool[q]

\* Every call is answered: who waits for a setup is told its outcome, also
\* when the setup was called off.
EveryCallAnswered ==
    \A r \in Req : (pc[r] # "idle") ~> (pc[r] = "idle")
=============================================================================
