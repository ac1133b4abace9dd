------------------------------ MODULE ManualTxn ------------------------------
(***************************************************************************)
(* Manual-commit transactions of the API server: the SQL ones of           *)
(* internal/api/transactions.go over engine.Transaction, and the MongoDB   *)
(* ones of mongo_transactions.go over engine.MongoTransaction.             *)
(*                                                                         *)
(* Two tables of entries, Server.txns and Server.mongoTxns, are shared by  *)
(* every HTTP request, the reaper goroutine and Close.  A table's lock     *)
(* protects the table and each entry's running and lastUsed; item.mu       *)
(* serialises what is done with the transaction.  A step is one critical   *)
(* section of a table's lock, one acquisition of item.mu, or one use of    *)
(* the transaction under item.mu.                                          *)
(*                                                                         *)
(* A request is a slot that serves one call after another, for one user on *)
(* one connection.  Calls refused before they touch a table (session,      *)
(* grants, node roles, policies) change nothing here and are left out.     *)
(***************************************************************************)
EXTENDS Naturals, FiniteSets

CONSTANTS
    Txn,            \* transaction ids: id.New() never repeats one
    Req,            \* request slots, one goroutine each
    User, Conn,     \* user ids and saved connection ids
    MongoConn,      \* the connections whose engine is mongodb
    user,           \* user[r]: the identity the calls of slot r carry
    connection,     \* connection[r]: the {id} in the path of its calls
    Calls,          \* the calls clients make: all, or some of them
    Reaper,         \* the transactionReaper goroutine
    Closer,         \* the goroutine that runs Server.Close
    Free,           \* an item.mu nobody holds
    NoTxn,          \* the call has no transaction (yet)
    NoOwner,        \* the id was never listed
    PerUser,        \* 5 on a shared server, 20 in a personal workspace
    PerConnection   \* 50

AllCalls == {"begin", "query", "commit", "rollback", "delete", "quit"}

ASSUME ProcessAssumption ==
    /\ IsFiniteSet(Req)
    /\ Reaper \notin Req /\ Closer \notin Req /\ Reaper # Closer
    /\ Free \notin Req
    /\ IsFiniteSet(Txn) /\ NoTxn \notin Txn
    /\ user \in [Req -> User]
    /\ connection \in [Req -> Conn]
    /\ MongoConn \subseteq Conn
    /\ NoOwner \notin User \X Conn
    /\ Calls \subseteq AllCalls

ASSUME LimitAssumption ==
    PerUser \in Nat \ {0} /\ PerConnection \in Nat \ {0}

VARIABLES
    conns,      \* connections saved in the store
    serving,    \* FALSE once the server shuts down: no call arrives
    txns,       \* the ids listed in either table
    owner,      \* owner[t]: userID and connectionID of the entry
    running,    \* running[t]: the entry's count of claims
    idle,       \* idle[t]: lastUsed is longer ago than the idle timeout
    mu,         \* mu[t]: who holds item.mu
    link,       \* link[t]: Transaction.State() of the pinned connection
    closed,     \* closed[t]: the handle's close has run
    db,         \* db[t]: what the database made of the transaction
    pc,         \* where each process stands
    op,         \* op[r]: the call slot r serves
    arg,        \* arg[r]: its transaction
    victims,    \* victims[p]: entries p took out of a table to roll back
    answer      \* answer[r]: what the call was answered, until the next one

world   == <<conns, serving>>
table   == <<txns, owner, running, idle>>
handles == <<link, closed, db>>
vars    == <<world, table, mu, handles, pc, op, arg, victims, answer>>

Proc == Req \cup {Reaper, Closer}

Identity(r) == <<user[r], connection[r]>>

IsMongo(r) == connection[r] \in MongoConn

-----------------------------------------------------------------------------

PC     == {"idle", "collect", "sweep", "collectMongo", "sweepMongo", "closed",
           "count", "route", "open", "insert",
           "claim", "lock", "run", "drop", "finish", "done", "delete"}

\* "ok": done as asked; "refused": an error, nothing done; the others are the
\* answers to a commit (204, TXN_LOST, TXN_ROLLED_BACK, TXN_FINISH_ERROR) and
\* localQuit's promise to stop.
Answer == {"none", "ok", "refused",
           "committed", "lost", "aborted", "unknown", "stopping"}

\* All but the claim counts, which only the invariants keep from going negative.
Typed ==
    /\ conns \subseteq Conn
    /\ serving \in BOOLEAN
    /\ txns \subseteq Txn
    /\ owner \in [Txn -> (User \X Conn) \cup {NoOwner}]
    /\ idle \in [Txn -> BOOLEAN]
    /\ mu \in [Txn -> Req \cup {Free}]
    /\ link \in [Txn -> {"none", "active", "aborted", "lost"}]
    /\ closed \in [Txn -> BOOLEAN]
    /\ db \in [Txn -> {"none", "open", "committed", "rolledback"}]
    /\ pc \in [Proc -> PC]
    /\ op \in [Req -> AllCalls \cup {"none"}]
    /\ arg \in [Req -> Txn \cup {NoTxn}]
    /\ victims \in [Proc -> SUBSET Txn]
    /\ answer \in [Req -> Answer]

TypeOK == Typed /\ running \in [Txn -> Nat]

Init ==
    /\ conns = Conn /\ serving = TRUE
    /\ txns = {}
    /\ owner = [t \in Txn |-> NoOwner]
    /\ running = [t \in Txn |-> 0]
    /\ idle = [t \in Txn |-> FALSE]
    /\ mu = [t \in Txn |-> Free]
    /\ link = [t \in Txn |-> "none"]
    /\ closed = [t \in Txn |-> FALSE]
    /\ db = [t \in Txn |-> "none"]
    /\ pc = [p \in Proc |-> "idle"]
    /\ op = [r \in Req |-> "none"]
    /\ arg = [r \in Req |-> NoTxn]
    /\ victims = [p \in Proc |-> {}]
    /\ answer = [r \in Req |-> "none"]

\* A step of a process that changes only its own place and the answer given.
Goto(p, l) == pc' = [pc EXCEPT ![p] = l]
Say(r, a)  == answer' = [answer EXCEPT ![r] = a]
Reply(r, a) == Say(r, a) /\ Goto(r, "idle")
Move(r, l)  == Goto(r, l) /\ UNCHANGED answer
Locally     == UNCHANGED <<world, table, mu, handles, op, arg, victims>>

-----------------------------------------------------------------------------
(* engine.Transaction and engine.MongoTransaction *)

\* Transaction.State: a connection given up by close reports lost too, since
\* conn.Raw then fails.
State(t) == link[t]

\* close, once: the first call decides and gives the pinned connection up,
\* later ones do nothing.  The database keeps to what it has discarded, and
\* answers COMMIT of an aborted transaction with a rollback.
EndTransaction(t, fate) ==
    IF closed[t]
    THEN UNCHANGED handles
    ELSE /\ closed' = [closed EXCEPT ![t] = TRUE]
         /\ link' = [link EXCEPT ![t] = "lost"]
         /\ db' = [db EXCEPT ![t] =
                      IF @ # "open" THEN @
                      ELSE IF link[t] = "aborted" THEN "rolledback" ELSE fate]

\* Seeded fault: a lost connection is not given back.
RollbackUnlessLost(t) ==
    IF link[t] = "lost" THEN UNCHANGED handles ELSE EndTransaction(t, "rolledback")

Rollback(t) == EndTransaction(t, "rolledback")

\* The session under an open transaction ends (server kill, network, the
\* database's own timeout): what was not committed is discarded.
LoseConnection(t) ==
    /\ db[t] = "open"
    /\ link' = [link EXCEPT ![t] = "lost"]
    /\ db' = [db EXCEPT ![t] = "rolledback"]
    /\ UNCHANGED <<world, table, mu, closed, pc, op, arg, victims, answer>>

-----------------------------------------------------------------------------
(* Calls *)

\* A call on a connection passes authorizedConnection while it is saved.
Arrive(r, o, t, l) ==
    /\ serving /\ pc[r] = "idle"
    /\ connection[r] \in conns
    /\ op' = [op EXCEPT ![r] = o]
    /\ arg' = [arg EXCEPT ![r] = t]
    /\ Say(r, "none") /\ Goto(r, l)
    /\ UNCHANGED <<world, table, mu, handles, victims>>

\* A call on a transaction names an id the client was given.
Request(r) ==
    \/ "begin" \in Calls /\ Arrive(r, "begin", NoTxn, "collect")
    \/ "delete" \in Calls /\ Arrive(r, "delete", NoTxn, "delete")
    \/ \E o \in Calls \cap {"query", "commit", "rollback"} : \E t \in Txn :
          db[t] # "none" /\ Arrive(r, o, t, "claim")

\* Seeded fault: a use of the entry is not counted.
Unclaimed(n) == n

Claimed(n)  == n + 1
Released(n) == n - 1

-----------------------------------------------------------------------------
(* Taking entries out of a table and rolling them back *)

MongoEntries == {t \in txns : owner[t][2] \in MongoConn}
OfUser(u)    == {t \in txns : owner[t][1] = u}
OfConn(c)    == {t \in txns : owner[t][2] = c}

\* Seeded fault: only entries of connections that are still saved expire.
ExpiredIfSaved(t) ==
    t \in txns /\ running[t] = 0 /\ idle[t] /\ owner[t][2] \in conns

Expired(t) == t \in txns /\ running[t] = 0 /\ idle[t]

\* Seeded fault: the entries stay listed while they are rolled back.
Undeleted(ts) == txns

Without(ts) == txns \ ts

\* One critical section deletes the entries; each is rolled back afterwards.
TakeOut(p, ts, l) ==
    /\ txns' = Without(ts)
    /\ victims' = [victims EXCEPT ![p] = ts]
    /\ Goto(p, l)
    /\ UNCHANGED <<world, owner, running, idle, mu, handles, op, arg, answer>>

\* What sweeps take: a begin and the reaper what is idle, a deletion what
\* belongs to its connection, Close everything.
SweepsIdle(p) == p = Reaper \/ (p \in Req /\ op[p] # "delete")

Picked(p) == CASE SweepsIdle(p) -> {t \in txns : Expired(t)}
               [] p = Closer    -> txns
               [] OTHER         -> OfConn(connection[p])

\* The SQL table first, then, once its entries are rolled back, MongoDB's.
Collect(p) ==
    \/ pc[p] = "collect"      /\ TakeOut(p, Picked(p) \ MongoEntries, "sweep")
    \/ pc[p] = "collectMongo" /\ TakeOut(p, Picked(p) \cap MongoEntries, "sweepMongo")

\* item.mu.Lock(); item.transaction.Rollback(); item.mu.Unlock().
Sweep(p, t) ==
    /\ pc[p] \in {"sweep", "sweepMongo"} /\ t \in victims[p]
    /\ mu[t] = Free
    /\ Rollback(t)
    /\ victims' = [victims EXCEPT ![p] = @ \ {t}]
    /\ UNCHANGED <<world, table, mu, pc, op, arg, answer>>

\* A claim that expired an entry is answered once that one is rolled back;
\* every other sweep goes on to the second table.
SweptSql(p) ==
    /\ pc[p] = "sweep" /\ victims[p] = {}
    /\ \/ p \in Req /\ op[p] \notin {"begin", "delete"} /\ Reply(p, "refused")
       \/ (p \in Req => op[p] \in {"begin", "delete"}) /\ Move(p, "collectMongo")
    /\ Locally

SweptMongo(p) ==
    /\ pc[p] = "sweepMongo" /\ victims[p] = {}
    /\ \/ p = Reaper /\ Move(p, "idle")
       \/ p = Closer /\ Move(p, "closed")
       \/ p \in Req /\ op[p] = "begin"  /\ Move(p, "count")
       \/ p \in Req /\ op[p] = "delete" /\ Reply(p, "ok")
    /\ Locally

\* The reaper's ticker fires until stopTransactions.
ReaperTick ==
    /\ serving /\ pc[Reaper] = "idle"
    /\ Move(Reaper, "collect") /\ Locally

-----------------------------------------------------------------------------
(* beginTransaction and mongoBeginTransaction, after reaping *)

\* The entries of the table a begin of slot r counts.
Listed(r) == IF IsMongo(r) THEN MongoEntries ELSE txns \ MongoEntries

\* Seeded fault: an off-by-one in the comparison with the limit.
OverLimit(r) == Cardinality(OfUser(user[r]) \cap Listed(r)) > PerUser

AtLimit(r) ==
    \/ Cardinality(OfUser(user[r]) \cap Listed(r)) >= PerUser
    \/ Cardinality(OfConn(connection[r]) \cap Listed(r)) >= PerConnection

\* The lock is released after counting, before the transaction is opened.
BeginCount(r) ==
    /\ pc[r] = "count"
    /\ IF AtLimit(r) THEN Reply(r, "refused") ELSE Move(r, "route")
    /\ Locally

\* The connection's secret is read from the store: gone if it was deleted.
BeginRoute(r) ==
    /\ pc[r] = "route"
    /\ \/ Reply(r, "refused")
       \/ connection[r] \in conns /\ Move(r, "open")
    /\ Locally

\* engines.Begin pins a connection and starts the database transaction.
BeginOpen(r) ==
    /\ pc[r] = "open"
    /\ \/ Reply(r, "refused") /\ UNCHANGED <<arg, handles>>
       \/ \E t \in Txn :
             /\ db[t] = "none"
             /\ db' = [db EXCEPT ![t] = "open"]
             /\ link' = [link EXCEPT ![t] = "active"]
             /\ arg' = [arg EXCEPT ![r] = t]
             /\ Move(r, "insert")
             /\ UNCHANGED closed
    /\ UNCHANGED <<world, table, mu, op, victims>>

BeginInsert(r) ==
    /\ pc[r] = "insert"
    /\ txns' = txns \cup {arg[r]}
    /\ owner' = [owner EXCEPT ![arg[r]] = Identity(r)]
    /\ running' = [running EXCEPT ![arg[r]] = 0]
    /\ idle' = [idle EXCEPT ![arg[r]] = FALSE]
    /\ Reply(r, "ok")
    /\ UNCHANGED <<world, mu, handles, op, arg, victims>>

-----------------------------------------------------------------------------
(* transactionEntry, mongoTransactionEntry: find and claim at once *)

\* Seeded fault: any caller who knows the id.
AuthorizedById(r) == arg[r] \in txns

Authorized(r) == arg[r] \in txns /\ owner[arg[r]] = Identity(r)

\* Only the SQL side checks the entry's age here.
TooOld(r) == ~IsMongo(r) /\ Expired(arg[r])

Entry(r) ==
    /\ pc[r] = "claim" /\ Authorized(r) /\ ~TooOld(r)
    /\ running' = [running EXCEPT ![arg[r]] = Claimed(@)]
    /\ idle' = [idle EXCEPT ![arg[r]] = FALSE]
    /\ Move(r, "lock")
    /\ UNCHANGED <<world, txns, owner, mu, handles, op, arg, victims>>

EntryExpired(r) ==
    /\ pc[r] = "claim" /\ Authorized(r) /\ TooOld(r)
    /\ TakeOut(r, {arg[r]}, "sweep")

EntryNotFound(r) ==
    /\ pc[r] = "claim" /\ ~Authorized(r)
    /\ Reply(r, "refused") /\ Locally

\* done(): the deferred release of the claim.
Done(r) ==
    /\ pc[r] = "done"
    /\ running' = [running EXCEPT ![arg[r]] = Released(@)]
    /\ idle' = [idle EXCEPT ![arg[r]] = FALSE]
    /\ Move(r, "idle")
    /\ UNCHANGED <<world, txns, owner, mu, handles, op, arg, victims>>

-----------------------------------------------------------------------------
(* Statements and endings, holding a claim *)

\* A statement's body is read before item.mu is taken; a bad one returns.
RejectBody(r) ==
    /\ pc[r] = "lock" /\ op[r] = "query"
    /\ Say(r, "refused") /\ Goto(r, "done") /\ Locally

Unheld(t) == mu[t] = Free

Lock(r) ==
    /\ pc[r] = "lock" /\ Unheld(arg[r])
    /\ mu' = [mu EXCEPT ![arg[r]] = r]
    /\ Move(r, IF op[r] = "query" THEN "run" ELSE "drop")
    /\ UNCHANGED <<world, table, handles, op, arg, victims>>

\* Seeded fault: an early return, when the transaction is lost, past Unlock.
UnlockUnlessLost(r) ==
    mu' = [mu EXCEPT ![arg[r]] = IF State(arg[r]) = "lost" THEN @ ELSE Free]

Unlock(r) == mu' = [mu EXCEPT ![arg[r]] = Free]

Leave(r) == Unlock(r) /\ Goto(r, "done") /\ UNCHANGED <<world, op, arg, victims>>

\* The statement leaves a SQL transaction usable: it succeeds, or fails
\* without consequence, or PostgreSQL has the transaction aborted by it.
RunStatement(r) ==
    /\ pc[r] = "run" /\ ~IsMongo(r) /\ State(arg[r]) # "lost"
    /\ \/ State(arg[r]) = "active" /\ Say(r, "ok") /\ UNCHANGED link
       \/ Say(r, "refused") /\ UNCHANGED link
       \/ Say(r, "refused") /\ link' = [link EXCEPT ![arg[r]] = "aborted"]
    /\ Leave(r)
    /\ UNCHANGED <<table, closed, db>>

\* The pinned connection is gone, before the statement or because it was
\* cancelled or killed: the entry is forgotten and the transaction given up.
RunLost(r) ==
    /\ pc[r] = "run" /\ ~IsMongo(r)
    /\ txns' = Without({arg[r]})
    /\ Rollback(arg[r])
    /\ Say(r, "refused") /\ Leave(r)
    /\ UNCHANGED <<owner, running, idle>>

\* A document write; an error has MongoDB abort the transaction, or not.
RunMongo(r) ==
    /\ pc[r] = "run" /\ IsMongo(r)
    /\ \/ db[arg[r]] = "open" /\ Say(r, "ok") /\ UNCHANGED db
       \/ Say(r, "refused") /\ UNCHANGED db
       \/ /\ db[arg[r]] = "open" /\ Say(r, "refused")
          /\ db' = [db EXCEPT ![arg[r]] = "rolledback"]
    /\ Leave(r)
    /\ UNCHANGED <<table, link, closed>>

\* finishTransaction deletes the entry once it holds item.mu.
Drop(r) ==
    /\ pc[r] = "drop"
    /\ txns' = Without({arg[r]})
    /\ Move(r, "finish")
    /\ UNCHANGED <<world, owner, running, idle, mu, handles, op, arg, victims>>

Finish(r, fate, a) ==
    /\ EndTransaction(arg[r], fate)
    /\ Say(r, a) /\ Leave(r)
    /\ UNCHANGED table

Finishing(r, o) == pc[r] = "finish" /\ op[r] = o

LostReply == "lost"

\* State() is lost: nothing is sent.  A commit is answered TXN_LOST, a
\* rollback is taken as done.
FinishLost(r) ==
    /\ pc[r] = "finish" /\ ~IsMongo(r) /\ State(arg[r]) = "lost"
    /\ \/ Finishing(r, "commit")   /\ Finish(r, "rolledback", LostReply)
       \/ Finishing(r, "rollback") /\ Finish(r, "rolledback", "ok")

\* Seeded fault: the state is not looked at before COMMIT is sent.
Blindly(t) == State(t) # "lost"

MayCommit(t) == State(t) = "active"

\* Commit.  Aborted: rolled back and answered TXN_ROLLED_BACK.  Otherwise it
\* succeeds, or the database answers it with a rollback, or an error leaves
\* open what the database did (TXN_FINISH_ERROR).
FinishCommit(r) ==
    /\ Finishing(r, "commit") /\ ~IsMongo(r)
    /\ \/ State(arg[r]) = "aborted" /\ Finish(r, "rolledback", "aborted")
       \/ /\ MayCommit(arg[r])
          /\ \/ Finish(r, "committed", "committed")
             \/ Finish(r, "rolledback", "aborted")
             \/ \E fate \in {"committed", "rolledback"} : Finish(r, fate, "unknown")

FinishRollback(r) ==
    /\ Finishing(r, "rollback") /\ ~IsMongo(r) /\ State(arg[r]) # "lost"
    /\ \E a \in {"ok", "unknown"} : Finish(r, "rolledback", a)

CanCommit(t) == db[t] = "open"

\* MongoDB: Commit of a finished or discarded transaction is an error,
\* Rollback of a finished one is not.
FinishMongo(r) ==
    /\ IsMongo(r)
    /\ \/ /\ Finishing(r, "commit") /\ CanCommit(arg[r])
          /\ Finish(r, "committed", "committed")
       \/ /\ Finishing(r, "commit")
          /\ \E fate \in {"committed", "rolledback"} : Finish(r, fate, "unknown")
       \/ Finishing(r, "rollback") /\ Finish(r, "rolledback", "ok")
       \/ /\ Finishing(r, "rollback") /\ ~closed[arg[r]]
          /\ Finish(r, "rolledback", "unknown")

-----------------------------------------------------------------------------
(* deleteConnection, localQuit, Close *)

\* store.DeleteConnection fails when the connection is gone already.
DeleteConnection(r) ==
    /\ pc[r] = "delete"
    /\ \/ connection[r] \notin conns /\ Reply(r, "refused") /\ UNCHANGED conns
       \/ /\ connection[r] \in conns
          /\ conns' = conns \ {connection[r]}
          /\ Move(r, "collect")
    /\ UNCHANGED <<serving, table, mu, handles, op, arg, victims>>

\* localQuit without rollback=true: it counts Server.txns.
Quit(r) ==
    /\ "quit" \in Calls /\ serving /\ pc[r] = "idle"
    /\ op' = [op EXCEPT ![r] = "quit"]
    /\ arg' = [arg EXCEPT ![r] = NoTxn]
    /\ Say(r, IF txns \ MongoEntries # {} THEN "refused" ELSE "stopping")
    /\ UNCHANGED <<world, table, mu, handles, pc, victims>>

\* The process is told to stop: no further call arrives, stopTransactions,
\* and Close collects.  Calls already in flight run on meanwhile.
Shutdown ==
    /\ serving /\ pc[Closer] = "idle"
    /\ serving' = FALSE
    /\ Move(Closer, "collect")
    /\ UNCHANGED <<conns, table, mu, handles, op, arg, victims>>

\* A closed server whose last call has been answered stands still.
Stopped ==
    /\ pc[Closer] = "closed"
    /\ \A p \in Proc \ {Closer} : pc[p] = "idle"
    /\ UNCHANGED vars

-----------------------------------------------------------------------------
(* The system *)

\* time.Since(lastUsed) passes transactionIdleTimeout, whoever uses the entry.
IdleTimePasses(t) ==
    /\ t \in txns /\ ~idle[t]
    /\ idle' = [idle EXCEPT ![t] = TRUE]
    /\ UNCHANGED <<world, txns, owner, running, mu, handles, pc, op, arg,
                   victims, answer>>

Begin(r)   == BeginCount(r) \/ BeginRoute(r) \/ BeginOpen(r) \/ BeginInsert(r)
GetEntry(r) == Entry(r) \/ EntryExpired(r) \/ EntryNotFound(r)
Run(r)     == RunStatement(r) \/ RunLost(r) \/ RunMongo(r)
End(r)     == Drop(r) \/ FinishLost(r) \/ FinishCommit(r) \/ FinishRollback(r)
              \/ FinishMongo(r)
Proceed(r) == Begin(r) \/ GetEntry(r) \/ Run(r) \/ End(r) \/ Done(r)
              \/ DeleteConnection(r)
Sweeping(p) == Collect(p) \/ SweptSql(p) \/ SweptMongo(p) \/ \E t \in Txn : Sweep(p, t)

Next ==
    \/ \E r \in Req : Request(r) \/ RejectBody(r) \/ Lock(r) \/ Proceed(r) \/ Quit(r)
    \/ \E p \in Proc : Sweeping(p)
    \/ \E t \in Txn : LoseConnection(t) \/ IdleTimePasses(t)
    \/ ReaperTick \/ Shutdown \/ Stopped

Spec == Init /\ [][Next]_vars

\* What process p can do next without a client.
Onward(p) == Sweeping(p) \/ (p \in Req /\ (Lock(p) \/ Proceed(p)))

\* Every handler runs on: a statement, a commit or a rollback returns in the
\* end (statement timeouts, TCP), and a sync.Mutex goes to whoever waits long
\* enough (strong fairness).  Time passes and the reaper ticks while the
\* server serves.  Nobody has to call, to lose a connection or to shut down.
Fairness ==
    /\ \A p \in Proc : SF_vars(Onward(p))
    /\ \A t \in Txn : WF_vars(IdleTimePasses(t))
    /\ WF_vars(ReaperTick)

FairSpec == Spec /\ Fairness

-----------------------------------------------------------------------------
(* Properties *)

Claims(r)    == pc[r] \in {"lock", "run", "drop", "finish", "done"}
Holds(r)     == pc[r] \in {"run", "drop", "finish"}
Claimants(t) == {r \in Req : arg[r] = t /\ Claims(r)}

\* running counts exactly the requests between their claim and their done():
\* no early return (bad body, lost connection, refused commit) leaks a claim,
\* which would keep the transaction from ever being idle.
ClaimsCounted ==
    \A t \in Txn : running[t] = Cardinality(Claimants(t))

\* item.mu admits one user of the pinned connection at a time: its holder is
\* the one request that has claimed the entry and is at work on it.
OneAtATime ==
    \A t \in Txn : \A r \in Req : mu[t] = r <=> arg[r] = t /\ Holds(r)

\* A transaction taken out as idle has no request that found it: none is in
\* the middle of a statement however long it takes, none waits for item.mu,
\* and none can come (transactions.go, transactionEntry and running).
NeverReapedInUse ==
    \A p \in Proc : SweepsIdle(p) =>
        \A t \in victims[p] : t \notin txns /\ Claimants(t) = {}

\* What a table lists has not been finished: a request that finds an entry
\* never finds one that was committed, or whose connection was given up.
ListedIsUsable ==
    \A t \in txns : ~closed[t] /\ db[t] # "committed"

\* Every pinned database connection is on its way back: its entry is listed,
\* or about to be, or in the hands of somebody who will end it.  Otherwise
\* its locks would be held until the process ends.
NoneLeaked ==
    \A t \in Txn : db[t] # "none" /\ ~closed[t] =>
        \/ t \in txns
        \/ \E p \in Proc : pc[p] \in {"sweep", "sweepMongo"} /\ t \in victims[p]
        \/ \E r \in Req : arg[r] = t /\ pc[r] \in {"insert", "finish"}

\* A commit answered with 204 is in the database, one answered
\* TXN_ROLLED_BACK is not, whatever other requests did to the transaction,
\* and of several commits at most one is answered 204.
CommitAnswersTrue ==
    \A r \in Req :
        /\ answer[r] = "committed" => db[arg[r]] = "committed"
        /\ answer[r] = "aborted"   => db[arg[r]] = "rolledback"
        /\ \A s \in Req \ {r} :
               ~(answer[r] = "committed" /\ answer[s] = "committed" /\ arg[r] = arg[s])

\* Counting and inserting are two critical sections, so begins that overlap
\* pass the limit together; they exceed it by no more than their own number.
Opening(r) == pc[r] \in {"route", "open", "insert"}
OverrunBounded ==
    \A s \in Req :
        Cardinality(OfUser(user[s]) \cap Listed(s))
            + Cardinality({r \in Req : user[r] = user[s] /\ Opening(r)})
        < PerUser + Cardinality({r \in Req : user[r] = user[s]})

\* Only a commit of the entry's own user, on the entry's own connection,
\* makes changes permanent.
OwnerCommits ==
    \A t \in Txn : db[t] = "open" /\ db'[t] = "committed" =>
        \E r \in Req : mu[t] = r /\ op[r] = "commit" /\ owner[t] = Identity(r)

OnlyOwnerCommits == [][OwnerCommits]_vars

\* An entry nobody uses does not stay: unclaimed for good, it is reaped; and
\* a transaction listed after the deletion of its connection, which no
\* request can reach any more, is ended (reapIdleTransactions).
NoneStays ==
    \A t \in Txn :
        /\ (t \in txns /\ serving) ~> (t \notin txns \/ Claimants(t) # {} \/ ~serving)
        /\ (t \in txns /\ owner[t][2] \notin conns /\ serving)
               ~> (closed[t] \/ ~serving)

\* Every call is answered: nobody waits for item.mu, or in a sweep behind
\* one, for ever.
EveryCallAnswered ==
    \A r \in Req : (pc[r] # "idle") ~> (pc[r] = "idle")

\* "Commit was not sent: the transaction's database connection had already
\* ended, so the database discarded its uncommitted changes"
\* (transactions.go, finishTransaction).  Not what the code does: of two
\* commits that both claimed the entry, the second finds the connection the
\* first one gave up.
LostMeansDiscarded ==
    \A r \in Req : answer[r] = "lost" => db[arg[r]] = "rolledback"

(***************************************************************************)
(* The contract of the tables, TxnLedger, and how this module implements   *)
(* it: an id without an owner has never been listed.                       *)
(***************************************************************************)
Stage(t) == CASE t \in txns                           -> "listed"
              [] t \notin txns /\ owner[t] # NoOwner -> "delisted"
              [] OTHER                                -> "unlisted"

Ledger == INSTANCE TxnLedger
            WITH stage <- [t \in Txn |-> Stage(t)], outcome <- db

\* Each transaction is listed once, delisted once, decided once, and
\* committed only when no request can find it any more.
ImplementsLedger == Ledger!Spec
=============================================================================
