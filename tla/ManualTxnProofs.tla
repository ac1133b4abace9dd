--------------------------- MODULE ManualTxnProofs ---------------------------
(***************************************************************************)
(* Proofs about ManualTxn, for any number of requests, transactions, users *)
(* and connections.  Shape says where a transaction is in its life and who *)
(* may touch it; Counted adds the claim counts.  The theorems follow from  *)
(* the two.                                                                *)
(***************************************************************************)
EXTENDS ManualTxn, FiniteSetTheorems, TLAPS

\* A call past its claim, or about to insert, has a transaction.
ArgIsTxn ==
    \A r \in Req : Claims(r) \/ pc[r] \in {"claim", "insert"} => arg[r] \in Txn

\* An id gets its owner when it is inserted, after its transaction was begun,
\* and nobody else is about to insert it.
ListedOnce ==
    /\ \A t \in txns : owner[t] # NoOwner
    /\ \A t \in Txn : owner[t] # NoOwner => db[t] # "none"
    /\ \A r \in Req : pc[r] = "insert" =>
          owner[arg[r]] = NoOwner /\ db[arg[r]] # "none"
    /\ \A r, s \in Req :
          pc[r] = "insert" /\ pc[s] = "insert" /\ arg[r] = arg[s] => r = s

\* Only what was listed is ever given up or committed.
EndedWasListed ==
    \A t \in Txn : closed[t] \/ db[t] = "committed" => owner[t] # NoOwner

ClaimsOwned == \A r \in Req : Claims(r) => owner[arg[r]] = Identity(r)

\* What a sweep took out, and what a call is finishing, is not listed again.
VictimsOut ==
    \A p \in Proc :
        /\ victims[p] # {} => pc[p] \in {"sweep", "sweepMongo"}
        /\ \A t \in victims[p] : t \notin txns /\ owner[t] # NoOwner

FinishingOut == \A r \in Req : pc[r] = "finish" => arg[r] \notin txns

Life == ListedOnce /\ EndedWasListed /\ ClaimsOwned /\ VictimsOut /\ FinishingOut

Shape == Typed /\ ArgIsTxn /\ Life /\ OneAtATime /\ ListedIsUsable

-----------------------------------------------------------------------------

LEMMA IdentityIsOwner == \A r \in Req : Identity(r) \in User \X Conn /\ Identity(r) # NoOwner
BY ProcessAssumption DEF Identity

LEMMA ShapeInit == Init => Shape
<1> SUFFICES ASSUME Init PROVE Shape
  OBVIOUS
<1>1. Typed
  BY ProcessAssumption DEF Init, Typed, PC, Answer, AllCalls, Proc
<1>2. ArgIsTxn
  BY DEF Init, ArgIsTxn, Claims, Proc
<1>3. Life
  BY DEF Init, Life, ListedOnce, EndedWasListed, ClaimsOwned, VictimsOut,
         FinishingOut, Claims, Proc
<1>4. OneAtATime /\ ListedIsUsable
  BY ProcessAssumption DEF Init, OneAtATime, ListedIsUsable, Holds, Proc
<1>5. QED
  BY <1>1, <1>2, <1>3, <1>4 DEF Shape

\* A step that only moves one process on, and changes answers, takes no
\* transaction up: it may not enter the places where one is held.
LEMMA LocalStep ==
    ASSUME Shape, NEW p \in Proc, NEW l \in PC, Goto(p, l),
           UNCHANGED <<txns, owner, mu, handles, op, arg, victims>>,
           Typed',
           l \notin {"insert", "claim", "lock", "run", "drop", "finish"},
           l = "done" => pc[p] = "lock",
           pc[p] \notin {"run", "drop", "finish"},
           victims[p] = {}
    PROVE  Shape'
<1>1. pc' = [pc EXCEPT ![p] = l] /\ p \in DOMAIN pc
  BY DEF Goto, Shape, Typed
<1>2. ArgIsTxn'
  BY <1>1 DEF Shape, ArgIsTxn, Claims, Proc
<1>3. ListedOnce' /\ EndedWasListed' /\ FinishingOut'
  BY <1>1 DEF Shape, Life, ListedOnce, EndedWasListed, FinishingOut, handles
<1>4. ClaimsOwned'
  BY <1>1 DEF Shape, Life, ClaimsOwned, Claims, Identity
<1>5. VictimsOut'
  BY <1>1 DEF Shape, Life, VictimsOut
<1>6. OneAtATime' /\ ListedIsUsable'
  BY <1>1 DEF Shape, OneAtATime, ListedIsUsable, Holds, handles
<1>7. QED
  BY <1>2, <1>3, <1>4, <1>5, <1>6 DEF Shape, Life

\* Taking entries out of the tables.
LEMMA TakeOutStep ==
    ASSUME Shape, NEW p \in Proc, NEW ts, ts \subseteq txns,
           NEW l \in {"sweep", "sweepMongo"}, TakeOut(p, ts, l),
           pc[p] \in {"collect", "collectMongo", "claim"}
    PROVE  Shape'
<1>1. pc' = [pc EXCEPT ![p] = l] /\ p \in DOMAIN pc
  BY DEF Goto, TakeOut, Shape, Typed
<1>2. victims' = [victims EXCEPT ![p] = ts] /\ p \in DOMAIN victims
  BY DEF TakeOut, Shape, Typed
<1>3. Typed'
  BY <1>1, <1>2 DEF Shape, Typed, TakeOut, Without, world, handles, PC
<1>4. ArgIsTxn'
  BY <1>1 DEF Shape, ArgIsTxn, Claims, TakeOut
<1>5. ListedOnce' /\ EndedWasListed' /\ FinishingOut'
  BY <1>1 DEF Shape, Life, ListedOnce, EndedWasListed, FinishingOut, handles,
              TakeOut, Without
<1>6. ClaimsOwned'
  BY <1>1 DEF Shape, Life, ClaimsOwned, Claims, Identity, TakeOut
<1>7. VictimsOut'
  <2>1. \A t \in ts : t \notin txns' /\ owner'[t] # NoOwner
    BY DEF TakeOut, Without, Shape, Life, ListedOnce
  <2>2. txns' \subseteq txns /\ owner' = owner
    BY DEF TakeOut, Without
  <2>3. QED
    BY <1>1, <1>2, <2>1, <2>2 DEF Shape, Life, VictimsOut
<1>8. OneAtATime' /\ ListedIsUsable'
  BY <1>1 DEF Shape, OneAtATime, ListedIsUsable, Holds, handles, TakeOut, Without
<1>9. QED
  BY <1>3, <1>4, <1>5, <1>6, <1>7, <1>8 DEF Shape, Life

\* A new call names an id some transaction was begun under.
LEMMA ArriveStep ==
    ASSUME Shape, NEW r \in Req, Request(r)
    PROVE  Shape'
<1>1. PICK o \in AllCalls, t \in Txn \cup {NoTxn}, l \in {"collect", "delete", "claim"} :
         Arrive(r, o, t, l) /\ (l = "claim" => t \in Txn)
  BY DEF Request, AllCalls
<1>2. /\ pc' = [pc EXCEPT ![r] = l] /\ arg' = [arg EXCEPT ![r] = t] /\ pc[r] = "idle"
      /\ r \in DOMAIN pc /\ r \in DOMAIN arg
  BY <1>1 DEF Arrive, Goto, Shape, Typed, Proc
<1>3. Typed'
  BY <1>1, <1>2 DEF Shape, Typed, Arrive, Say, world, table, handles, PC, Answer
<1>4. ArgIsTxn'
  BY <1>1, <1>2 DEF Shape, ArgIsTxn, Claims, Typed
<1>5. Life'
  BY <1>1, <1>2 DEF Shape, Life, ListedOnce, EndedWasListed, ClaimsOwned, Identity,
     VictimsOut, FinishingOut, Claims, Arrive, table, handles
<1>6. OneAtATime' /\ ListedIsUsable'
  BY <1>1, <1>2 DEF Shape, OneAtATime, ListedIsUsable, Holds, Arrive, table, handles
<1>7. QED
  BY <1>3, <1>4, <1>5, <1>6 DEF Shape

\* Ending a transaction keeps the handles typed; what it gives up or commits
\* is the transaction it ends.
LEMMA EndTyped ==
    ASSUME Typed, NEW t \in Txn, NEW fate \in {"committed", "rolledback"},
           EndTransaction(t, fate)
    PROVE  /\ link' \in [Txn -> {"none", "active", "aborted", "lost"}]
           /\ closed' \in [Txn -> BOOLEAN]
           /\ db' \in [Txn -> {"none", "open", "committed", "rolledback"}]
           /\ \A x \in Txn : (db'[x] = "none") <=> (db[x] = "none")
           /\ \A x \in Txn \ {t} : closed'[x] = closed[x] /\ db'[x] = db[x]
BY DEF Typed, EndTransaction, handles

LEMMA SweepStep ==
    ASSUME Shape, NEW p \in Proc, NEW t \in Txn, Sweep(p, t)
    PROVE  Shape'
<1>1. EndTransaction(t, "rolledback") /\ t \in victims[p]
  BY DEF Sweep, Rollback
<1>2. Typed'
  BY <1>1, EndTyped DEF Shape, Typed, Sweep, world, table
<1>3. ArgIsTxn' /\ OneAtATime'
  BY DEF Shape, ArgIsTxn, OneAtATime, Claims, Holds, Sweep
<1>4. ListedOnce'
  BY <1>1, EndTyped DEF Shape, Life, ArgIsTxn, ListedOnce, Sweep, table, Typed
<1>5. EndedWasListed'
  BY <1>1, EndTyped DEF Shape, Life, EndedWasListed, VictimsOut, Sweep, table, Typed
<1>6. ClaimsOwned' /\ VictimsOut' /\ FinishingOut'
  BY DEF Shape, Typed, Life, ClaimsOwned, Claims, Identity, VictimsOut, FinishingOut,
         Sweep, table
<1>7. ListedIsUsable'
  BY <1>1, EndTyped DEF Shape, Life, ListedIsUsable, VictimsOut, Sweep, table, Typed
<1>8. QED
  BY <1>2, <1>3, <1>4, <1>5, <1>6, <1>7 DEF Shape, Life

LEMMA OpenStep ==
    ASSUME Shape, NEW r \in Req, BeginOpen(r)
    PROVE  Shape'
<1>1. CASE Reply(r, "refused") /\ UNCHANGED <<arg, handles>>
  <2>1. Typed'
    BY <1>1 DEF Shape, Typed, BeginOpen, Reply, Say, Goto, world, table, handles,
       PC, Answer, Proc
  <2>2. victims[r] = {}
    BY DEF Shape, Life, VictimsOut, BeginOpen, Proc
  <2>3. QED
    BY <1>1, <2>1, <2>2, LocalStep DEF BeginOpen, Reply, PC, table, Proc
<1>2. ASSUME NEW t \in Txn, db[t] = "none",
             db' = [db EXCEPT ![t] = "open"],
             link' = [link EXCEPT ![t] = "active"],
             arg' = [arg EXCEPT ![r] = t],
             Move(r, "insert"), UNCHANGED closed
      PROVE  Shape'
  <2>1. /\ pc' = [pc EXCEPT ![r] = "insert"] /\ pc[r] = "open"
        /\ r \in DOMAIN pc /\ r \in DOMAIN arg
    BY <1>2 DEF Move, Goto, BeginOpen, Shape, Typed, Proc
  <2>2. Typed'
    BY <1>2, <2>1 DEF Shape, Typed, BeginOpen, Move, world, table, PC
  <2>3. ArgIsTxn'
    BY <1>2, <2>1 DEF Shape, ArgIsTxn, Claims
  <2>4. ListedOnce'
    BY <1>2, <2>1 DEF Shape, Life, ArgIsTxn, ListedOnce, BeginOpen, table, Typed
  <2>5. EndedWasListed' /\ VictimsOut' /\ FinishingOut'
    BY <1>2, <2>1 DEF Shape, Life, EndedWasListed, VictimsOut, FinishingOut,
       BeginOpen, table, Typed
  <2>6. \A s \in Req :
           /\ (Claims(s)' <=> Claims(s)) /\ (Holds(s)' <=> Holds(s))
           /\ Claims(s) => s # r /\ arg'[s] = arg[s]
    BY <1>2, <2>1 DEF Claims, Holds
  <2>7. ClaimsOwned' /\ OneAtATime'
    <3>1. owner' = owner /\ mu' = mu
      BY DEF BeginOpen, table
    <3>2. ClaimsOwned'
      BY <2>6, <3>1 DEF Shape, Life, ClaimsOwned, Identity
    <3>3. OneAtATime'
      BY <2>6, <3>1 DEF Shape, OneAtATime, Holds, Claims
    <3>4. QED
      BY <3>2, <3>3
  <2>8. ListedIsUsable'
    BY <1>2, <2>1 DEF Shape, Typed, ListedIsUsable, BeginOpen, table
  <2>9. QED
    BY <2>2, <2>3, <2>4, <2>5, <2>6, <2>7, <2>8 DEF Shape, Life
<1>3. QED
  BY <1>1, <1>2 DEF BeginOpen

LEMMA InsertStep ==
    ASSUME Shape, NEW r \in Req, BeginInsert(r)
    PROVE  Shape'
<1> DEFINE t == arg[r]
<1>1. /\ t \in Txn /\ owner[t] = NoOwner /\ db[t] \notin {"none", "committed"}
      /\ ~closed[t] /\ pc[r] = "insert" /\ r \in DOMAIN pc
  BY DEF BeginInsert, Shape, ArgIsTxn, Life, ListedOnce, EndedWasListed, Typed, Proc
<1>2. pc' = [pc EXCEPT ![r] = "idle"] /\ owner' = [owner EXCEPT ![t] = Identity(r)]
  BY DEF BeginInsert, Reply, Goto
<1>3. Typed'
  BY <1>1, <1>2, IdentityIsOwner DEF Shape, Typed, BeginInsert, Reply, Say, world,
     handles, PC, Answer
<1>4. ArgIsTxn'
  BY <1>2 DEF Shape, Typed, ArgIsTxn, Claims, BeginInsert, Proc
<1>5. ListedOnce'
  BY <1>1, <1>2, IdentityIsOwner
  DEF Shape, Typed, Life, ArgIsTxn, ListedOnce, BeginInsert, handles, Proc
<1>6. EndedWasListed' /\ FinishingOut'
  <2>1. EndedWasListed'
    BY <1>1, <1>2, IdentityIsOwner DEF Shape, Typed, Life, EndedWasListed, BeginInsert,
       handles
  <2>2. \A s \in Req : Claims(s) => arg[s] # t
    BY <1>1, IdentityIsOwner DEF Shape, Life, ClaimsOwned
  <2>3. FinishingOut'
    BY <1>2, <2>2 DEF Shape, Typed, Life, FinishingOut, Claims, BeginInsert, Proc
  <2>4. QED
    BY <2>1, <2>3
<1>7. ClaimsOwned'
  BY SMTT(30), <1>1, <1>2, IdentityIsOwner
  DEF Shape, Typed, Life, ArgIsTxn, ClaimsOwned, Claims, Identity, BeginInsert, Proc
<1>8. VictimsOut'
  BY <1>1, <1>2, IdentityIsOwner DEF Shape, Typed, Life, VictimsOut, BeginInsert, Proc
<1>9. OneAtATime' /\ ListedIsUsable'
  BY <1>1, <1>2 DEF Shape, Typed, OneAtATime, ListedIsUsable, Holds, BeginInsert, handles, Proc
<1>10. QED
  BY <1>3, <1>4, <1>5, <1>6, <1>7, <1>8, <1>9 DEF Shape, Life

-----------------------------------------------------------------------------

\* A call under way with its transaction: the claim, item.mu, the statements.
LEMMA EntryStep ==
    ASSUME Shape, NEW r \in Req, Entry(r)
    PROVE  Shape'
<1>1. /\ pc' = [pc EXCEPT ![r] = "lock"] /\ pc[r] = "claim" /\ r \in DOMAIN pc
      /\ arg[r] \in txns /\ owner[arg[r]] = Identity(r)
  BY DEF Entry, Move, Goto, Authorized, Shape, Typed, Proc
<1>2. Typed'
  BY <1>1 DEF Shape, Typed, Entry, Move, world, handles, PC
<1>3. ArgIsTxn' /\ OneAtATime' /\ ListedIsUsable'
  BY <1>1 DEF Shape, ArgIsTxn, OneAtATime, ListedIsUsable, Claims, Holds, Entry, handles
<1>4. Life'
  BY <1>1 DEF Shape, Life, ListedOnce, EndedWasListed, ClaimsOwned, Identity, VictimsOut,
     FinishingOut, Claims, Entry, handles
<1>5. QED
  BY <1>2, <1>3, <1>4 DEF Shape

LEMMA DoneStep ==
    ASSUME Shape, NEW r \in Req, Done(r)
    PROVE  Shape'
<1>1. pc' = [pc EXCEPT ![r] = "idle"] /\ pc[r] = "done" /\ r \in DOMAIN pc
  BY DEF Done, Move, Goto, Shape, Typed, Proc
<1>2. Typed'
  BY <1>1 DEF Shape, Typed, Done, Move, world, handles, PC
<1>3. ArgIsTxn' /\ OneAtATime' /\ ListedIsUsable'
  BY <1>1 DEF Shape, ArgIsTxn, OneAtATime, ListedIsUsable, Claims, Holds, Done, handles
<1>4. Life'
  BY <1>1 DEF Shape, Life, ListedOnce, EndedWasListed, ClaimsOwned, Identity, VictimsOut,
     FinishingOut, Claims, Done, handles
<1>5. QED
  BY <1>2, <1>3, <1>4 DEF Shape

LEMMA LockStep ==
    ASSUME Shape, NEW r \in Req, Lock(r)
    PROVE  Shape'
<1> DEFINE t == arg[r]
<1>1. PICK l \in {"run", "drop"} : pc' = [pc EXCEPT ![r] = l]
  BY DEF Lock, Move, Goto
<1>2. pc[r] = "lock" /\ r \in DOMAIN pc /\ t \in Txn /\ mu[t] = Free
      /\ mu' = [mu EXCEPT ![t] = r]
  BY DEF Lock, Unheld, Shape, ArgIsTxn, Claims, Typed, Proc
<1>3. Typed'
  BY <1>1, <1>2 DEF Shape, Typed, Lock, Move, world, table, handles, PC
<1>4. ArgIsTxn' /\ ListedIsUsable'
  BY <1>1, <1>2 DEF Shape, ArgIsTxn, ListedIsUsable, Claims, Lock, table, handles
<1>5. Life'
  BY <1>1, <1>2 DEF Shape, Life, ListedOnce, EndedWasListed, ClaimsOwned, Identity,
     VictimsOut, FinishingOut, Claims, Lock, table, handles
<1>6. OneAtATime'
  BY <1>1, <1>2, ProcessAssumption DEF Shape, Typed, OneAtATime, Holds, Lock
<1>7. QED
  BY <1>3, <1>4, <1>5, <1>6 DEF Shape

\* Leaving: item.mu is released by its holder.
LEMMA LeaveStep ==
    ASSUME Shape, NEW r \in Req, Leave(r), pc[r] \in {"run", "finish"},
           UNCHANGED owner, txns' \subseteq txns, Typed',
           \A x \in Txn : (db'[x] = "none") <=> (db[x] = "none"),
           \A x \in Txn \ {arg[r]} :
              closed'[x] = closed[x] /\ (db'[x] = "committed" <=> db[x] = "committed"),
           arg[r] \in txns' => closed'[arg[r]] = closed[arg[r]]
                                /\ db'[arg[r]] # "committed"
    PROVE  Shape'
<1> DEFINE t == arg[r]
<1>1. /\ pc' = [pc EXCEPT ![r] = "done"] /\ mu' = [mu EXCEPT ![t] = Free]
      /\ r \in DOMAIN pc /\ t \in Txn /\ arg' = arg /\ victims' = victims
  BY DEF Leave, Unlock, Goto, Shape, ArgIsTxn, Claims, Typed, Proc
<1>2. owner[t] # NoOwner
  BY IdentityIsOwner DEF Shape, Life, ClaimsOwned, Claims
<1>3. ArgIsTxn'
  BY <1>1 DEF Shape, ArgIsTxn, Claims
<1>4. ListedOnce' /\ EndedWasListed'
  BY <1>1, <1>2 DEF Shape, Typed, Life, ArgIsTxn, ListedOnce, EndedWasListed
<1>5. ClaimsOwned' /\ VictimsOut' /\ FinishingOut'
  BY <1>1 DEF Shape, Typed, Life, ClaimsOwned, VictimsOut, FinishingOut, Claims, Identity
<1>6. OneAtATime'
  BY <1>1, ProcessAssumption DEF Shape, Typed, OneAtATime, Holds
<1>7. ListedIsUsable'
  BY <1>1 DEF Shape, Typed, ListedIsUsable
<1>8. QED
  BY <1>3, <1>4, <1>5, <1>6, <1>7 DEF Shape, Life

LEMMA LeaveTyped ==
    ASSUME Shape, NEW r \in Req, Leave(r), pc[r] \in {"run", "finish"}
    PROVE  /\ pc' \in [Proc -> PC] /\ mu' \in [Txn -> Req \cup {Free}]
           /\ arg[r] \in Txn
           /\ UNCHANGED <<conns, serving, op, arg, victims>>
BY DEF Shape, Typed, Leave, Unlock, Goto, ArgIsTxn, Claims, PC, world

LEMMA RunStep ==
    ASSUME Shape, NEW r \in Req, Run(r)
    PROVE  Shape'
<1>1. pc[r] = "run" /\ Leave(r) /\ arg[r] \in Txn
  BY DEF Run, RunStatement, RunLost, RunMongo, Shape, ArgIsTxn, Claims
<1>2. CASE RunStatement(r)
  <2>1. Typed'
    BY <1>1, <1>2, LeaveTyped DEF RunStatement, Shape, Typed, Say, table, Answer
  <2>2. QED
    BY <1>1, <1>2, <2>1, LeaveStep
    DEF RunStatement, Shape, ListedIsUsable, table
<1>3. CASE RunLost(r)
  <2>1. EndTransaction(arg[r], "rolledback")
    BY <1>3 DEF RunLost, Rollback
  <2>2. Typed'
    BY <1>1, <1>3, <2>1, LeaveTyped, EndTyped DEF RunLost, Without, Shape, Typed, Say, Answer
  <2>3. arg[r] \notin txns' /\ txns' \subseteq txns /\ owner' = owner
    BY <1>3 DEF RunLost, Without
  <2>4. QED
    BY <1>1, <2>1, <2>2, <2>3, EndTyped, LeaveStep DEF Shape
<1>4. CASE RunMongo(r)
  <2>1. Typed'
    BY SMTT(30), <1>1, <1>4, LeaveTyped DEF RunMongo, Shape, Typed, Say, table, Answer
  <2>2. closed' = closed /\ txns' = txns /\ owner' = owner
        /\ (db' = db \/ (db[arg[r]] = "open" /\ db' = [db EXCEPT ![arg[r]] = "rolledback"]))
    BY <1>4 DEF RunMongo, table
  <2>3. QED
    BY <1>1, <2>1, <2>2, LeaveStep DEF Shape, Typed, ListedIsUsable
<1>5. QED
  BY <1>2, <1>3, <1>4 DEF Run

LEMMA DropStep ==
    ASSUME Shape, NEW r \in Req, Drop(r)
    PROVE  Shape'
<1>1. /\ pc' = [pc EXCEPT ![r] = "finish"] /\ pc[r] = "drop" /\ r \in DOMAIN pc
      /\ txns' = txns \ {arg[r]}
  BY DEF Drop, Without, Move, Goto, Shape, Typed, Proc
<1>2. Typed'
  BY <1>1 DEF Shape, Typed, Drop, Move, world, handles, PC
<1>3. ArgIsTxn' /\ OneAtATime' /\ ListedIsUsable'
  BY <1>1 DEF Shape, ArgIsTxn, OneAtATime, ListedIsUsable, Claims, Holds, Drop, handles
<1>4. ListedOnce' /\ EndedWasListed'
  BY <1>1 DEF Shape, Life, ListedOnce, EndedWasListed, Drop, handles
<1>5. ClaimsOwned'
  BY <1>1 DEF Shape, Life, ClaimsOwned, Claims, Identity, Drop
<1>6. VictimsOut'
  BY <1>1 DEF Shape, Typed, Life, VictimsOut, Drop, Proc
<1>7. FinishingOut'
  BY <1>1 DEF Shape, Life, FinishingOut, Drop
<1>8. QED
  BY <1>2, <1>3, <1>4, <1>5, <1>6, <1>7 DEF Shape, Life

\* Every way to finish ends the transaction the caller holds.
LEMMA FinishCases ==
    ASSUME NEW r \in Req,
           FinishLost(r) \/ FinishCommit(r) \/ FinishRollback(r) \/ FinishMongo(r)
    PROVE  /\ pc[r] = "finish"
           /\ \E fate \in {"committed", "rolledback"} : \E a \in Answer :
                 /\ Finish(r, fate, a)
                 /\ fate = "committed" => op[r] = "commit"
BY DEF FinishLost, FinishCommit, FinishRollback, FinishMongo, Finishing, LostReply, Answer

LEMMA FinishStep ==
    ASSUME Shape, NEW r \in Req,
           FinishLost(r) \/ FinishCommit(r) \/ FinishRollback(r) \/ FinishMongo(r)
    PROVE  Shape'
<1>1. PICK fate \in {"committed", "rolledback"}, a \in Answer : Finish(r, fate, a)
  BY FinishCases
<1>2. /\ pc[r] = "finish" /\ Leave(r) /\ arg[r] \in Txn /\ arg[r] \notin txns
      /\ EndTransaction(arg[r], fate) /\ UNCHANGED <<txns, owner>>
  BY <1>1, FinishCases DEF Finish, Shape, ArgIsTxn, Claims, Life, FinishingOut, table
<1>3. Typed'
  BY <1>1, <1>2, EndTyped, LeaveTyped DEF Finish, Shape, Typed, Say, table
<1>4. QED
  BY <1>2, <1>3, EndTyped, LeaveStep DEF Shape

\* The steps that hold no transaction.
LEMMA PlainStep ==
    ASSUME Shape, NEW p \in Proc,
           \/ SweptSql(p) \/ SweptMongo(p) \/ (p = Reaper /\ ReaperTick)
           \/ /\ p \in Req
              /\ \/ BeginCount(p) \/ BeginRoute(p) \/ EntryNotFound(p)
                 \/ RejectBody(p) \/ DeleteConnection(p)
           \/ (p = Closer /\ Shutdown)
    PROVE  Shape'
<1>1. PICK l \in PC : Goto(p, l) /\ l \notin {"insert", "claim", "lock", "run", "drop", "finish"}
                      /\ (l = "done" => pc[p] = "lock")
  BY DEF SweptSql, SweptMongo, ReaperTick, BeginCount, BeginRoute, EntryNotFound,
         RejectBody, DeleteConnection, Shutdown, Reply, Move, PC
<1>2. /\ UNCHANGED <<txns, owner, running, idle, mu, handles, op, arg, victims>>
      /\ conns' \subseteq conns /\ serving' \in BOOLEAN
  BY DEF Shape, Typed, SweptSql, SweptMongo, ReaperTick, BeginCount, BeginRoute, EntryNotFound,
         RejectBody, DeleteConnection, Shutdown, Locally, world, table
<1>3. answer' \in [Req -> Answer]
  BY DEF Shape, Typed, SweptSql, SweptMongo, ReaperTick, BeginCount, BeginRoute, EntryNotFound,
         RejectBody, DeleteConnection, Shutdown, Reply, Move, Say, Answer
<1>4. pc[p] \notin {"run", "drop", "finish"} /\ (pc[p] \in {"sweep", "sweepMongo"} => victims[p] = {})
  BY DEF SweptSql, SweptMongo, ReaperTick, BeginCount, BeginRoute, EntryNotFound,
         RejectBody, DeleteConnection, Shutdown
<1>5. victims[p] = {}
  BY <1>4 DEF Shape, Life, VictimsOut
<1>6. Typed'
  BY <1>1, <1>2, <1>3 DEF Shape, Typed, Goto, handles
<1>7. QED
  BY <1>1, <1>2, <1>4, <1>5, <1>6, LocalStep

LEMMA OutsideStep ==
    ASSUME Shape,
           \/ \E r \in Req : Quit(r)
           \/ \E t \in Txn : LoseConnection(t) \/ IdleTimePasses(t)
    PROVE  Shape'
<1>1. CASE \E r \in Req : Quit(r)
  <2>1. Typed'
    BY SMTT(30), <1>1 DEF Quit, Shape, Typed, Say, world, table, handles, AllCalls, Answer
  <2>2. PICK r \in Req : Quit(r)
    BY <1>1
  <2>3. pc[r] = "idle" /\ arg' = [arg EXCEPT ![r] = NoTxn] /\ r \in DOMAIN arg
        /\ UNCHANGED <<txns, owner, mu, link, closed, db, pc, victims>>
    BY <2>2 DEF Quit, Shape, Typed, table, handles
  <2>4. \A s \in Req : Claims(s) \/ pc[s] \in {"claim", "insert"} => arg'[s] = arg[s]
    BY <2>3 DEF Claims
  <2>5. ArgIsTxn' /\ ClaimsOwned'
    BY <2>3, <2>4 DEF Shape, Life, ArgIsTxn, ClaimsOwned, Identity, Claims
  <2>6. ListedOnce' /\ EndedWasListed' /\ VictimsOut' /\ FinishingOut'
    BY <2>3, <2>4 DEF Shape, Life, ListedOnce, EndedWasListed, VictimsOut, FinishingOut, Claims
  <2>7. OneAtATime' /\ ListedIsUsable'
    BY <2>3, <2>4 DEF Shape, OneAtATime, ListedIsUsable, Claims, Holds
  <2>8. QED
    BY <2>1, <2>5, <2>6, <2>7 DEF Shape, Life
<1>2. CASE \E t \in Txn : LoseConnection(t)
  <2>1. PICK t \in Txn : LoseConnection(t)
    BY <1>2
  <2>2. Typed'
    BY <2>1 DEF LoseConnection, Shape, Typed, world, table
  <2>3. QED
    BY <2>1, <2>2 DEF LoseConnection, Shape, Typed, ArgIsTxn, Life, ListedOnce, EndedWasListed,
       ClaimsOwned, Identity, VictimsOut, FinishingOut, OneAtATime, ListedIsUsable, Claims,
       Holds, table
<1>3. CASE \E t \in Txn : IdleTimePasses(t)
  BY <1>3 DEF IdleTimePasses, Shape, Typed, ArgIsTxn, Life, ListedOnce, EndedWasListed,
     ClaimsOwned, Identity, VictimsOut, FinishingOut, OneAtATime, ListedIsUsable, Claims,
     Holds, world, handles
<1>4. QED
  BY <1>1, <1>2, <1>3

-----------------------------------------------------------------------------

THEOREM ShapeNext == Shape /\ [Next]_vars => Shape'
<1> SUFFICES ASSUME Shape, [Next]_vars PROVE Shape'
  OBVIOUS
<1>1. ASSUME NEW r \in Req, Request(r) \/ RejectBody(r) \/ Lock(r) \/ Quit(r)
      PROVE  Shape'
  BY <1>1, ArriveStep, PlainStep, LockStep, OutsideStep DEF Proc
<1>2. ASSUME NEW r \in Req, Proceed(r) PROVE Shape'
  <2>1. CASE Begin(r)
    BY <2>1, PlainStep, OpenStep, InsertStep DEF Begin, Proc
  <2>2. CASE GetEntry(r)
    <3>1. CASE EntryExpired(r)
      BY <3>1, TakeOutStep DEF EntryExpired, Authorized, Proc
    <3>2. QED
      BY <2>2, <3>1, EntryStep, PlainStep DEF GetEntry, Proc
  <2>3. CASE End(r)
    BY <2>3, DropStep, FinishStep DEF End
  <2>4. QED
    BY <1>2, <2>1, <2>2, <2>3, RunStep, DoneStep, PlainStep DEF Proceed, Proc
<1>3. ASSUME NEW p \in Proc, Sweeping(p) PROVE Shape'
  <2>1. CASE Collect(p)
    <3>1. Picked(p) \subseteq txns
      BY DEF Picked, OfConn
    <3>2. QED
      BY <2>1, <3>1, TakeOutStep DEF Collect
  <2>2. QED
    BY <1>3, <2>1, SweepStep, PlainStep DEF Sweeping
<1>4. CASE ReaperTick \/ Shutdown
  BY <1>4, PlainStep DEF Proc
<1>5. CASE \E t \in Txn : LoseConnection(t) \/ IdleTimePasses(t)
  BY <1>5, OutsideStep
<1>6. CASE UNCHANGED vars
  BY <1>6 DEF Shape, Typed, ArgIsTxn, Life, ListedOnce, EndedWasListed, ClaimsOwned, Identity,
     VictimsOut, FinishingOut, OneAtATime, ListedIsUsable, Claims, Holds, vars, world, table,
     handles
<1>7. QED
  BY <1>1, <1>2, <1>3, <1>4, <1>5, <1>6 DEF Next, Stopped

\* OneAtATime and ListedIsUsable are conjuncts of Shape.
THEOREM ShapeHolds == Spec => []Shape
<1>1. Init => Shape
  BY ShapeInit
<1>2. Shape /\ [Next]_vars => Shape'
  BY ShapeNext
<1>3. QED
  BY <1>1, <1>2, PTL DEF Spec

\* item.mu admits one user of a transaction at a time (transactionQuery,
\* finishTransaction).
THEOREM MutualExclusion == Spec => []OneAtATime
BY ShapeHolds, PTL DEF Shape

\* What a table lists was neither committed nor given up.
THEOREM ListedUsable == Spec => []ListedIsUsable
BY ShapeHolds, PTL DEF Shape

-----------------------------------------------------------------------------
(* The claim counts *)

Counts == running \in [Txn -> Nat] /\ ClaimsCounted

LEMMA CountsInit == Init => Counts
<1> SUFFICES ASSUME Init PROVE Counts
  OBVIOUS
<1>1. \A t \in Txn : Claimants(t) = {}
  BY DEF Init, Claimants, Claims, Proc
<1>2. QED
  BY <1>1, FS_EmptySet DEF Counts, ClaimsCounted, Init

\* A step that leaves claims and counts alone.
LEMMA CountsKept ==
    ASSUME Counts, running' = running,
           \A r \in Req : (Claims(r)' <=> Claims(r)) /\ (Claims(r) => arg'[r] = arg[r])
    PROVE  Counts'
<1>1. \A t \in Txn : Claimants(t)' = Claimants(t)
  BY DEF Claimants
<1>2. QED
  BY <1>1 DEF Counts, ClaimsCounted

\* A claim adds the caller to the claimants, done() takes it away.
LEMMA EntryCounts ==
    ASSUME Shape, Counts, NEW r \in Req, Entry(r)
    PROVE  Counts'
<1> DEFINE t == arg[r]
<1>1. /\ t \in Txn /\ r \notin Claimants(t) /\ arg' = arg
      /\ pc' = [pc EXCEPT ![r] = "lock"] /\ r \in DOMAIN pc
      /\ running' = [running EXCEPT ![t] = running[t] + 1]
  BY DEF Shape, Typed, ArgIsTxn, Entry, Claimants, Claims, Move, Goto, Claimed, Proc
<1>2. \A x \in Txn : Claimants(x)' = IF x = t THEN Claimants(x) \cup {r} ELSE Claimants(x)
  BY <1>1 DEF Claimants, Claims
<1>3. IsFiniteSet(Claimants(t))
  BY ProcessAssumption, FS_Subset DEF Claimants
<1>4. Cardinality(Claimants(t)') = Cardinality(Claimants(t)) + 1
  BY <1>1, <1>2, <1>3, FS_AddElement
<1>5. QED
  BY <1>1, <1>2, <1>4 DEF Counts, ClaimsCounted

LEMMA DoneCounts ==
    ASSUME Shape, Counts, NEW r \in Req, Done(r)
    PROVE  Counts'
<1> DEFINE t == arg[r]
<1>1. /\ t \in Txn /\ r \in Claimants(t) /\ arg' = arg
      /\ pc' = [pc EXCEPT ![r] = "idle"] /\ r \in DOMAIN pc
      /\ running' = [running EXCEPT ![t] = running[t] - 1]
  BY DEF Shape, Typed, ArgIsTxn, Done, Claimants, Claims, Move, Goto, Released, Proc
<1>2. \A x \in Txn : Claimants(x)' = IF x = t THEN Claimants(x) \ {r} ELSE Claimants(x)
  BY <1>1 DEF Claimants, Claims
<1>3. IsFiniteSet(Claimants(t)) /\ Cardinality(Claimants(t)) \in Nat \ {0}
  BY <1>1, ProcessAssumption, FS_Subset, FS_EmptySet, FS_CardinalityType DEF Claimants
<1>4. Cardinality(Claimants(t)') = Cardinality(Claimants(t)) - 1
  BY <1>1, <1>2, <1>3, FS_RemoveElement
<1>5. running[t] - 1 \in Nat
  BY <1>1, <1>3 DEF Counts, ClaimsCounted
<1>6. QED
  BY <1>1, <1>2, <1>4, <1>5 DEF Counts, ClaimsCounted

\* A new entry starts at 0, which is what its id had: nobody claimed it yet.
LEMMA InsertCounts ==
    ASSUME Shape, Counts, NEW r \in Req, BeginInsert(r)
    PROVE  Counts'
<1> DEFINE t == arg[r]
<1>1. /\ t \in Txn /\ owner[t] = NoOwner /\ arg' = arg /\ pc[r] = "insert"
      /\ pc' = [pc EXCEPT ![r] = "idle"] /\ running' = [running EXCEPT ![t] = 0]
  BY DEF Shape, ArgIsTxn, Life, ListedOnce, BeginInsert, Reply, Goto
<1>2. Claimants(t) = {}
  BY <1>1, IdentityIsOwner DEF Shape, Life, ClaimsOwned, Claimants
<1>3. running[t] = 0
  BY <1>1, <1>2, FS_EmptySet DEF Counts, ClaimsCounted
<1>4. running' = running
  BY <1>1, <1>3 DEF Counts
<1>5. \A s \in Req : (Claims(s)' <=> Claims(s)) /\ arg'[s] = arg[s]
  BY <1>1 DEF Claims, Shape, Typed, Proc
<1>6. QED
  BY <1>4, <1>5, CountsKept

\* Whoever moves on does so among the places of a claim, or outside them.
LEMMA MoveKeeps ==
    ASSUME Shape, NEW p \in Proc, NEW l \in PC, Goto(p, l),
           LET held == {"lock", "run", "drop", "finish", "done"}
           IN  l \in held <=> pc[p] \in held,
           arg' = arg
    PROVE  \A r \in Req : (Claims(r)' <=> Claims(r)) /\ (Claims(r) => arg'[r] = arg[r])
BY DEF Shape, Typed, Goto, Claims, Proc

LEMMA OtherCounts ==
    ASSUME Shape, Counts, Next,
           ~ \E r \in Req : Entry(r) \/ Done(r) \/ BeginInsert(r)
    PROVE  Counts'
<1>1. ASSUME NEW r \in Req, Request(r) \/ Quit(r) \/ BeginOpen(r) PROVE Counts'
  <2>1. /\ running' = running /\ ~Claims(r)
        /\ \A s \in Req \ {r} : pc'[s] = pc[s] /\ arg'[s] = arg[s]
    BY <1>1 DEF Shape, Typed, Request, Arrive, Quit, BeginOpen, Reply, Move, Goto, Claims,
       table, Proc
  <2>2. ~Claims(r)'
    BY <1>1 DEF Shape, Typed, Request, Arrive, Quit, BeginOpen, Reply, Move, Goto, Claims, Proc
  <2>3. QED
    BY <2>1, <2>2, CountsKept DEF Claims
<1>2. ASSUME NEW r \in Req,
             \/ RejectBody(r) \/ Lock(r) \/ Run(r) \/ End(r) \/ DeleteConnection(r)
             \/ BeginCount(r) \/ BeginRoute(r) \/ EntryNotFound(r) \/ EntryExpired(r)
      PROVE  Counts'
  <2>1. CASE RejectBody(r) \/ Lock(r) \/ Run(r) \/ Drop(r)
    <3>1. /\ \E l \in {"run", "drop", "finish", "done"} : Goto(r, l)
          /\ Claims(r) /\ arg' = arg /\ running' = running
      BY <2>1 DEF RejectBody, Lock, Run, RunStatement, RunLost, RunMongo, Leave, Drop, Move,
         Claims, Locally, table
    <3>2. QED
      BY <3>1, MoveKeeps, CountsKept DEF Claims, PC, Proc
  <2>2. CASE FinishLost(r) \/ FinishCommit(r) \/ FinishRollback(r) \/ FinishMongo(r)
    <3>1. Goto(r, "done") /\ Claims(r) /\ arg' = arg /\ running' = running
      BY <2>2, FinishCases DEF Finish, Leave, Claims, table
    <3>2. QED
      BY <3>1, MoveKeeps, CountsKept DEF Claims, PC, Proc
  <2>3. CASE \/ DeleteConnection(r) \/ BeginCount(r) \/ BeginRoute(r)
             \/ EntryNotFound(r) \/ EntryExpired(r)
    <3>1. /\ \E l \in {"idle", "collect", "route", "open", "sweep"} : Goto(r, l)
          /\ ~Claims(r) /\ arg' = arg /\ running' = running
      BY <2>3 DEF DeleteConnection, BeginCount, BeginRoute, EntryNotFound, EntryExpired,
         TakeOut, Reply, Move, Claims, Locally, table
    <3>2. QED
      BY <3>1, MoveKeeps, CountsKept DEF Claims, PC, Proc
  <2>4. QED
    BY <1>2, <2>1, <2>2, <2>3 DEF End
<1>3. ASSUME NEW p \in Proc, Collect(p) \/ SweptSql(p) \/ SweptMongo(p) PROVE Counts'
  <2>1. /\ \E l \in {"sweep", "sweepMongo", "idle", "collectMongo", "closed", "count"} : Goto(p, l)
        /\ pc[p] \in {"collect", "collectMongo", "sweep", "sweepMongo"}
        /\ arg' = arg /\ running' = running
    BY <1>3 DEF Collect, TakeOut, SweptSql, SweptMongo, Reply, Move, Locally, table
  <2>2. QED
    BY <2>1, MoveKeeps, CountsKept DEF PC
<1>4. CASE ReaperTick \/ Shutdown
  <2>1. /\ \E p \in {Reaper, Closer} : Goto(p, "collect") /\ pc[p] = "idle"
        /\ arg' = arg /\ running' = running
    BY <1>4 DEF ReaperTick, Shutdown, Move, Locally, table
  <2>2. QED
    BY <2>1, MoveKeeps, CountsKept DEF PC, Proc
<1>5. CASE \/ \E p \in Proc, t \in Txn : Sweep(p, t)
           \/ \E t \in Txn : LoseConnection(t) \/ IdleTimePasses(t)
           \/ Stopped
  <2>1. UNCHANGED <<pc, arg, running>>
    BY <1>5 DEF Sweep, LoseConnection, IdleTimePasses, Stopped, table, vars
  <2>2. QED
    BY <2>1, CountsKept DEF Claims
<1>6. QED
  BY <1>1, <1>2, <1>3, <1>4, <1>5 DEF Next, Proceed, Begin, GetEntry, Sweeping

THEOREM CountsNext == Shape /\ Counts /\ [Next]_vars => Counts'
<1> SUFFICES ASSUME Shape, Counts, [Next]_vars PROVE Counts'
  OBVIOUS
<1>1. CASE \E r \in Req : Entry(r) \/ Done(r) \/ BeginInsert(r)
  BY <1>1, EntryCounts, DoneCounts, InsertCounts
<1>2. CASE UNCHANGED vars
  BY <1>2, CountsKept DEF vars, table, Claims
<1>3. QED
  BY <1>1, <1>2, OtherCounts

THEOREM CountsHold == Spec => [](Shape /\ Counts)
<1>1. Init => Counts
  BY CountsInit
<1>2. Shape /\ Counts /\ [Next]_vars => Counts'
  BY CountsNext
<1>3. QED
  BY <1>1, <1>2, ShapeHolds, PTL DEF Spec

\* The types of all variables; no claim count goes negative.
THEOREM TypeCorrect == Spec => []TypeOK
<1>1. Shape /\ Counts => TypeOK
  BY DEF Shape, Counts, TypeOK
<1>2. QED
  BY <1>1, CountsHold, PTL

\* running is the number of requests between claim and done().
THEOREM ClaimsAreCounted == Spec => []ClaimsCounted
<1>1. Shape /\ Counts => ClaimsCounted
  BY DEF Counts
<1>2. QED
  BY <1>1, CountsHold, PTL

-----------------------------------------------------------------------------
(* What is taken out as idle is in nobody's use *)

Unused == \A p \in Proc : SweepsIdle(p) => \A t \in victims[p] : Claimants(t) = {}

LEMMA UnusedIsNeverReaped == Shape /\ Unused => NeverReapedInUse
BY DEF Shape, Life, VictimsOut, Unused, NeverReapedInUse

\* A step that takes nothing out and claims nothing.
LEMMA UnusedKept ==
    ASSUME Unused,
           \A p \in Proc : victims'[p] \subseteq victims[p],
           \A p \in Proc : victims'[p] # {} => (SweepsIdle(p)' => SweepsIdle(p)),
           \A r \in Req : Claims(r)' => Claims(r) /\ arg'[r] = arg[r]
    PROVE  Unused'
BY DEF Unused, Claimants

\* The count of claims decides: an expired entry has no claimant.
LEMMA ExpiredIsUnused ==
    ASSUME Counts, NEW t \in Txn, Expired(t)
    PROVE  Claimants(t) = {}
BY ProcessAssumption, FS_Subset, FS_EmptySet DEF Counts, ClaimsCounted, Expired, Claimants

LEMMA TakeOutUnused ==
    ASSUME Shape, Counts, Unused, NEW p \in Proc, NEW ts, NEW l, TakeOut(p, ts, l),
           ts \subseteq txns, SweepsIdle(p) => \A t \in ts : Expired(t),
           ~\E r \in Req : Claims(r)' /\ ~Claims(r)
    PROVE  Unused'
<1>1. /\ victims' = [victims EXCEPT ![p] = ts] /\ p \in DOMAIN victims
      /\ op' = op /\ arg' = arg
  BY DEF TakeOut, Shape, Typed
<1>2. \A t \in Txn : Claimants(t)' \subseteq Claimants(t)
  BY <1>1 DEF Claimants
<1>3. SweepsIdle(p) => \A t \in ts : Claimants(t) = {}
  BY ExpiredIsUnused DEF Shape, Typed
<1>4. \A q \in Proc : SweepsIdle(q)' <=> SweepsIdle(q)
  BY <1>1 DEF SweepsIdle
<1>5. \A q \in Proc : victims[q] \subseteq Txn
  BY DEF Shape, Typed
<1>6. QED
  BY <1>1, <1>2, <1>3, <1>4, <1>5 DEF Unused, Shape, Typed

LEMMA EntryUnused ==
    ASSUME Shape, Unused, NEW r \in Req, Entry(r)
    PROVE  Unused'
<1>1. /\ arg[r] \in txns /\ arg' = arg /\ victims' = victims /\ op' = op
      /\ pc' = [pc EXCEPT ![r] = "lock"]
  BY DEF Entry, Authorized, Move, Goto
<1>2. \A p \in Proc : \A t \in victims[p] : t # arg[r]
  BY <1>1 DEF Shape, Life, VictimsOut
<1>3. \A s \in Req : s # r => (Claims(s)' <=> Claims(s))
  BY <1>1 DEF Claims
<1>4. \A p \in Proc : \A t \in victims[p] : Claimants(t)' \subseteq Claimants(t)
  BY <1>1, <1>2, <1>3 DEF Claimants
<1>5. QED
  BY <1>1, <1>4 DEF Unused, SweepsIdle

LEMMA CollectUnused ==
    ASSUME Shape, Counts, Unused, NEW p \in Proc,
           Collect(p) \/ (p \in Req /\ EntryExpired(p))
    PROVE  Unused'
<1>1. ASSUME NEW ts, NEW l \in {"sweep", "sweepMongo"}, TakeOut(p, ts, l),
             ts \subseteq txns, SweepsIdle(p) => \A t \in ts : Expired(t)
      PROVE  Unused'
  <2>1. ~\E r \in Req : Claims(r)' /\ ~Claims(r)
    BY <1>1 DEF TakeOut, Goto, Claims, Shape, Typed, Proc
  <2>2. QED
    BY <1>1, <2>1, TakeOutUnused
<1>2. Picked(p) \subseteq txns /\ (SweepsIdle(p) => \A t \in Picked(p) : Expired(t))
  <2>1. CASE SweepsIdle(p)
    <3>1. p # Closer
      BY <2>1, ProcessAssumption DEF SweepsIdle
    <3>2. Picked(p) = {t \in txns : Expired(t)}
      BY <2>1, <3>1 DEF Picked
    <3>3. QED
      BY <3>2
  <2>2. CASE ~SweepsIdle(p)
    BY <2>2 DEF Picked, OfConn
  <2>3. QED
    BY <2>1, <2>2
<1>3. CASE Collect(p)
  BY <1>1, <1>2, <1>3 DEF Collect
<1>4. CASE p \in Req /\ EntryExpired(p)
  <2>1. TakeOut(p, {arg[p]}, "sweep") /\ Expired(arg[p]) /\ arg[p] \in txns
    BY <1>4 DEF EntryExpired, TooOld, Expired
  <2>2. QED
    BY <1>1, <2>1
<1>5. QED
  BY <1>3, <1>4

\* Only a claim adds to the claimants, only taking out adds to the victims,
\* and a call changes its operation only when it has no victims.
LEMMA OthersKeepUnused ==
    ASSUME Shape, Counts, Unused, Next,
           ~ \E r \in Req : Entry(r) \/ EntryExpired(r),
           ~ \E p \in Proc : Collect(p)
    PROVE  Unused'
<1>1. ASSUME NEW r \in Req, Request(r) \/ Quit(r) \/ BeginOpen(r) PROVE Unused'
  <2>1. /\ victims' = victims /\ pc[r] \in {"idle", "open"} /\ ~Claims(r)'
        /\ \A s \in Req \ {r} : pc'[s] = pc[s] /\ arg'[s] = arg[s] /\ op'[s] = op[s]
    BY <1>1 DEF Shape, Typed, Request, Arrive, Quit, BeginOpen, Reply, Move, Goto, Claims, Proc
  <2>2. victims[r] = {}
    BY <2>1 DEF Shape, Life, VictimsOut, Proc
  <2>3. \A p \in Proc : victims'[p] # {} => (SweepsIdle(p)' => SweepsIdle(p))
    BY <2>1, <2>2 DEF SweepsIdle
  <2>4. \A s \in Req : Claims(s)' => Claims(s) /\ arg'[s] = arg[s]
    BY <2>1 DEF Claims
  <2>5. QED
    BY <2>1, <2>3, <2>4, UnusedKept
<1>2. ASSUME NEW r \in Req,
             \/ RejectBody(r) \/ Lock(r) \/ Run(r) \/ End(r) \/ Done(r)
             \/ DeleteConnection(r) \/ BeginCount(r) \/ BeginRoute(r) \/ BeginInsert(r)
             \/ EntryNotFound(r)
      PROVE  Unused'
  <2>1. UNCHANGED <<victims, op, arg>>
    <3>1. CASE End(r)
      BY <3>1, FinishCases DEF End, Drop, Finish, Leave
    <3>2. QED
      BY <1>2, <3>1 DEF RejectBody, Lock, Run, RunStatement, RunLost, RunMongo, Leave, Done,
         DeleteConnection, BeginCount, BeginRoute, BeginInsert, EntryNotFound, Locally
  <2>2. \E l \in PC : Goto(r, l) /\ (l \in {"lock", "run", "drop", "finish", "done"} => Claims(r))
    <3>1. CASE End(r)
      BY <3>1, FinishCases DEF End, Drop, Finish, Leave, Move, PC, Claims
    <3>2. QED
      BY <1>2, <3>1 DEF RejectBody, Lock, Run, RunStatement, RunLost, RunMongo, Leave, Done,
         DeleteConnection, BeginCount, BeginRoute, BeginInsert, EntryNotFound, Reply, Move,
         PC, Claims
  <2>3. \A s \in Req : Claims(s)' => Claims(s)
    BY <2>2 DEF Shape, Typed, Goto, Claims, Proc
  <2>4. QED
    BY <2>1, <2>3, UnusedKept DEF SweepsIdle
<1>3. ASSUME NEW p \in Proc, SweptSql(p) \/ SweptMongo(p) \/ ReaperTick \/ Shutdown
      PROVE  Unused'
  <2>1. UNCHANGED <<victims, op, arg>>
    BY <1>3 DEF SweptSql, SweptMongo, ReaperTick, Shutdown, Locally
  <2>2. \E q \in Proc : \E l \in PC : Goto(q, l) /\ l \notin {"lock", "run", "drop", "finish", "done"}
    BY <1>3 DEF SweptSql, SweptMongo, ReaperTick, Shutdown, Reply, Move, PC, Proc
  <2>3. \A s \in Req : Claims(s)' => Claims(s)
    BY <2>2 DEF Shape, Typed, Goto, Claims, Proc
  <2>4. QED
    BY <2>1, <2>3, UnusedKept DEF SweepsIdle
<1>4. CASE \/ \E p \in Proc, t \in Txn : Sweep(p, t)
           \/ \E t \in Txn : LoseConnection(t) \/ IdleTimePasses(t)
           \/ Stopped
  <2>1. UNCHANGED <<pc, op, arg>> /\ \A p \in Proc : victims'[p] \subseteq victims[p]
    BY <1>4 DEF Sweep, LoseConnection, IdleTimePasses, Stopped, vars, Shape, Typed
  <2>2. QED
    BY <2>1, UnusedKept DEF Claims, SweepsIdle
<1>5. QED
  BY <1>1, <1>2, <1>3, <1>4 DEF Next, Proceed, Begin, GetEntry, Sweeping, Proc

\* transactionEntry and the reaper: a transaction taken out as idle has no
\* request that found it, and none can come.
THEOREM NeverReaped == Spec => []NeverReapedInUse
<1>1. Init => Unused
  BY DEF Init, Unused, Proc
<1>2. Shape /\ Counts /\ Unused /\ [Next]_vars => Unused'
  <2> SUFFICES ASSUME Shape, Counts, Unused, [Next]_vars PROVE Unused'
    OBVIOUS
  <2>1. CASE \E r \in Req : Entry(r) \/ EntryExpired(r)
    BY <2>1, EntryUnused, CollectUnused DEF Proc
  <2>2. CASE \E p \in Proc : Collect(p)
    BY <2>2, CollectUnused
  <2>3. CASE UNCHANGED vars
    BY <2>3, UnusedKept DEF vars, Claims, SweepsIdle
  <2>4. QED
    BY <2>1, <2>2, <2>3, OthersKeepUnused
<1>3. QED
  BY <1>1, <1>2, CountsHold, UnusedIsNeverReaped, PTL DEF Spec

-----------------------------------------------------------------------------
(* Who commits *)

\* Ending a transaction decides only that one, and only as it was told to.
LEMMA EndDecides ==
    ASSUME Shape, NEW t \in Txn, NEW fate \in {"committed", "rolledback"},
           EndTransaction(t, fate), NEW x \in Txn, db[x] = "open", db'[x] = "committed"
    PROVE  x = t /\ fate = "committed"
BY DEF EndTransaction, handles, Shape, Typed

LEMMA CommitIsOwners == Shape /\ [Next]_vars => OwnerCommits
<1> SUFFICES ASSUME Shape, [Next]_vars, NEW t \in Txn, db[t] = "open", db'[t] = "committed"
             PROVE  \E r \in Req : mu[t] = r /\ op[r] = "commit" /\ owner[t] = Identity(r)
  BY DEF OwnerCommits
<1>1. ASSUME NEW r \in Req,
             FinishLost(r) \/ FinishCommit(r) \/ FinishRollback(r) \/ FinishMongo(r)
      PROVE  \E s \in Req : mu[t] = s /\ op[s] = "commit" /\ owner[t] = Identity(s)
  <2>1. PICK fate \in {"committed", "rolledback"}, a \in Answer :
           Finish(r, fate, a) /\ (fate = "committed" => op[r] = "commit")
    BY <1>1, FinishCases
  <2>2. pc[r] = "finish" /\ arg[r] \in Txn /\ mu[arg[r]] = r /\ owner[arg[r]] = Identity(r)
    BY <1>1, FinishCases DEF Shape, ArgIsTxn, Life, ClaimsOwned, OneAtATime, Claims, Holds
  <2>3. t = arg[r] /\ fate = "committed"
    BY <2>1, <2>2, EndDecides DEF Finish
  <2>4. QED
    BY <2>1, <2>2, <2>3
<1>2. ASSUME NEW x \in Txn, Rollback(x) PROVE FALSE
  BY <1>2, EndDecides DEF Rollback
<1>3. ASSUME NEW p \in Proc, NEW x \in Txn, Sweep(p, x) PROVE FALSE
  BY <1>2, <1>3 DEF Sweep
<1>4. ASSUME NEW r \in Req, Run(r) PROVE FALSE
  <2>1. arg[r] \in Txn
    BY <1>4 DEF Run, RunStatement, RunLost, RunMongo, Shape, ArgIsTxn, Claims
  <2>2. QED
    BY <1>2, <1>4, <2>1 DEF Run, RunStatement, RunLost, RunMongo, Shape, Typed
<1>5. ASSUME NEW x \in Txn, LoseConnection(x) \/ IdleTimePasses(x) PROVE FALSE
  BY <1>5 DEF LoseConnection, IdleTimePasses, handles, Shape, Typed
<1>6. ASSUME NEW r \in Req, BeginOpen(r) PROVE FALSE
  BY <1>6 DEF BeginOpen, handles, Shape, Typed
<1>7. ASSUME NEW r \in Req,
             \/ Request(r) \/ RejectBody(r) \/ Lock(r) \/ Quit(r) \/ GetEntry(r) \/ Done(r)
             \/ DeleteConnection(r) \/ BeginCount(r) \/ BeginRoute(r) \/ BeginInsert(r)
             \/ Drop(r)
      PROVE  FALSE
  BY <1>7 DEF Request, Arrive, RejectBody, Lock, Quit, GetEntry, Entry, EntryExpired,
     EntryNotFound, TakeOut, Done, DeleteConnection, BeginCount, BeginRoute, BeginInsert, Drop,
     Locally, handles
<1>8. CASE \/ \E p \in Proc : Collect(p) \/ SweptSql(p) \/ SweptMongo(p)
           \/ ReaperTick \/ Shutdown \/ UNCHANGED vars
  BY <1>8 DEF Collect, TakeOut, SweptSql, SweptMongo, ReaperTick, Shutdown, Locally, handles, vars
<1>9. QED
  BY <1>1, <1>3, <1>4, <1>5, <1>6, <1>7, <1>8
  DEF Next, Proceed, Begin, End, Sweeping, Stopped

\* finishTransaction: only a commit of the entry's own user, on its own
\* connection, makes changes permanent.
THEOREM OwnersCommit == Spec => OnlyOwnerCommits
<1>1. Shape /\ [Next]_vars => [OwnerCommits]_vars
  BY CommitIsOwners
<1>2. QED
  BY <1>1, ShapeHolds, PTL DEF Spec, OnlyOwnerCommits

-----------------------------------------------------------------------------
(* Every pinned connection is on its way back *)

Covered(t) ==
    \/ t \in txns
    \/ \E p \in Proc : pc[p] \in {"sweep", "sweepMongo"} /\ t \in victims[p]
    \/ \E r \in Req : arg[r] = t /\ pc[r] \in {"insert", "finish"}

LEMMA LeakedIsUncovered ==
    NoneLeaked <=> \A t \in Txn : db[t] # "none" /\ ~closed[t] => Covered(t)
BY DEF NoneLeaked, Covered

\* Nobody who was to give a connection back turns to something else.
LEMMA CoverKept ==
    ASSUME txns \subseteq txns',
           \A p \in Proc : pc[p] \in {"sweep", "sweepMongo"} /\ victims[p] # {} =>
              pc'[p] \in {"sweep", "sweepMongo"} /\ victims[p] \subseteq victims'[p],
           \A r \in Req : pc[r] \in {"insert", "finish"} =>
              pc'[r] \in {"insert", "finish"} /\ arg'[r] = arg[r],
           NEW t, Covered(t)
    PROVE  Covered(t)'
BY DEF Covered

\* A process moves on that had nothing to give back.
LEMMA CoverMoved ==
    ASSUME Shape, NEW p \in Proc, txns \subseteq txns', UNCHANGED victims,
           \A q \in Proc \ {p} : pc'[q] = pc[q],
           \A r \in Req \ {p} : arg'[r] = arg[r],
           pc[p] \in {"sweep", "sweepMongo"} => victims[p] = {},
           pc[p] \notin {"insert", "finish"},
           NEW t, Covered(t)
    PROVE  Covered(t)'
<1>1. \A r \in Req : pc[r] \in {"insert", "finish"} => r # p /\ r \in Proc
  BY DEF Proc
<1>2. \A q \in Proc : pc[q] \in {"sweep", "sweepMongo"} /\ victims[q] # {} => q # p
  OBVIOUS
<1>3. QED
  BY <1>1, <1>2, CoverKept

LEMMA LeakTakeOut ==
    ASSUME Shape, NoneLeaked, NEW p \in Proc, NEW ts, NEW l \in {"sweep", "sweepMongo"},
           TakeOut(p, ts, l), pc[p] \in {"collect", "collectMongo", "claim"}
    PROVE  NoneLeaked'
<1>1. /\ pc' = [pc EXCEPT ![p] = l] /\ victims' = [victims EXCEPT ![p] = ts]
      /\ p \in DOMAIN pc /\ p \in DOMAIN victims
      /\ txns' = txns \ ts /\ UNCHANGED <<arg, db, closed>>
  BY DEF TakeOut, Without, Goto, Shape, Typed, handles
<1>2. \A t \in ts : Covered(t)'
  BY <1>1 DEF Covered
<1>3. ASSUME NEW t \in Txn \ ts, Covered(t) PROVE Covered(t)'
  <2>1. CASE t \in txns
    BY <1>1, <2>1 DEF Covered
  <2>2. CASE \E q \in Proc : pc[q] \in {"sweep", "sweepMongo"} /\ t \in victims[q]
    BY <1>1, <2>2 DEF Covered
  <2>3. CASE \E r \in Req : arg[r] = t /\ pc[r] \in {"insert", "finish"}
    BY <1>1, <2>3 DEF Covered, Proc
  <2>4. QED
    BY <1>3, <2>1, <2>2, <2>3 DEF Covered
<1>4. QED
  BY <1>1, <1>2, <1>3, LeakedIsUncovered DEF NoneLeaked, Covered

\* The connection that is ended is given up; those of others are left to them.
LEMMA LeakEnd ==
    ASSUME Shape, NoneLeaked, NEW t \in Txn, NEW fate \in {"committed", "rolledback"},
           EndTransaction(t, fate),
           \A x \in Txn \ {t} : Covered(x) => Covered(x)'
    PROVE  NoneLeaked'
<1>1. closed'[t] /\ \A x \in Txn \ {t} : closed'[x] = closed[x] /\ db'[x] = db[x]
  BY DEF EndTransaction, handles, Shape, Typed
<1>2. QED
  BY <1>1, LeakedIsUncovered DEF NoneLeaked, Covered

LEMMA LeakRun ==
    ASSUME Shape, NoneLeaked, NEW r \in Req, Run(r)
    PROVE  NoneLeaked'
<1>1. /\ pc[r] = "run" /\ arg[r] \in Txn /\ UNCHANGED <<arg, victims>>
      /\ \A q \in Proc \ {r} : pc'[q] = pc[q]
  BY DEF Run, RunStatement, RunLost, RunMongo, Leave, Goto, Shape, Typed, ArgIsTxn, Claims
<1>2. CASE RunStatement(r) \/ RunMongo(r)
  <2>1. txns' = txns /\ closed' = closed
        /\ \A t \in Txn : db'[t] # "none" => db[t] # "none"
    BY <1>2, <1>1 DEF RunStatement, RunMongo, table, Shape, Typed
  <2>2. QED
    BY <1>1, <2>1, CoverMoved, LeakedIsUncovered DEF NoneLeaked, Covered, Proc
<1>3. CASE RunLost(r)
  <2>1. txns' = txns \ {arg[r]} /\ EndTransaction(arg[r], "rolledback")
    BY <1>3 DEF RunLost, Without, Rollback
  <2>2. ASSUME NEW t \in Txn \ {arg[r]}, Covered(t) PROVE Covered(t)'
    BY <1>1, <2>1, <2>2 DEF Covered, Proc
  <2>3. QED
    BY <1>1, <2>1, <2>2, LeakEnd
<1>4. QED
  BY <1>2, <1>3 DEF Run

LEMMA LeakFinish ==
    ASSUME Shape, NoneLeaked, NEW r \in Req,
           FinishLost(r) \/ FinishCommit(r) \/ FinishRollback(r) \/ FinishMongo(r)
    PROVE  NoneLeaked'
<1>1. PICK fate \in {"committed", "rolledback"}, a \in Answer : Finish(r, fate, a)
  BY FinishCases
<1>2. /\ EndTransaction(arg[r], fate) /\ arg[r] \in Txn /\ UNCHANGED <<arg, victims, txns>>
      /\ \A q \in Proc \ {r} : pc'[q] = pc[q]
      /\ pc[r] = "finish"
  BY <1>1, FinishCases DEF Finish, Leave, Goto, table, Shape, Typed, ArgIsTxn, Claims
<1>3. ASSUME NEW t \in Txn \ {arg[r]}, Covered(t) PROVE Covered(t)'
  BY <1>2, <1>3 DEF Covered, Proc
<1>4. QED
  BY <1>2, <1>3, LeakEnd

LEMMA LeakSweep ==
    ASSUME Shape, NoneLeaked, NEW p \in Proc, NEW t \in Txn, Sweep(p, t)
    PROVE  NoneLeaked'
<1>1. /\ EndTransaction(t, "rolledback") /\ UNCHANGED <<txns, pc, arg>>
      /\ \A x \in Txn \ {t}, q \in Proc : x \in victims[q] => x \in victims'[q]
  BY DEF Sweep, Rollback, table, Shape, Typed
<1>2. \A x \in Txn \ {t} : Covered(x) => Covered(x)'
  BY <1>1 DEF Covered
<1>3. QED
  BY <1>1, <1>2, LeakEnd

\* A transaction is begun by the call that lists it; what a commit or a
\* rollback delists it ends.
LEMMA LeakHandOver ==
    ASSUME Shape, NoneLeaked, NEW r \in Req, BeginOpen(r) \/ BeginInsert(r) \/ Drop(r)
    PROVE  NoneLeaked'
<1>1. CASE BeginOpen(r)
  <2>1. /\ pc[r] = "open" /\ UNCHANGED <<txns, victims>>
        /\ \A q \in Proc \ {r} : pc'[q] = pc[q]
        /\ \A q \in Req \ {r} : arg'[q] = arg[q]
    BY <1>1 DEF BeginOpen, Reply, Move, Goto, table, Shape, Typed
  <2>2. \A t \in Txn : Covered(t) => Covered(t)'
    BY <2>1, CoverMoved DEF Proc
  <2>3. CASE UNCHANGED handles
    BY <2>2, <2>3, LeakedIsUncovered DEF NoneLeaked, Covered, handles
  <2>4. CASE \E t \in Txn : /\ db' = [db EXCEPT ![t] = "open"] /\ UNCHANGED closed
                            /\ arg' = [arg EXCEPT ![r] = t] /\ Move(r, "insert")
    <3>1. PICK t \in Txn : /\ db' = [db EXCEPT ![t] = "open"] /\ UNCHANGED closed
                           /\ arg' = [arg EXCEPT ![r] = t] /\ Move(r, "insert")
      BY <2>4
    <3>2. Covered(t)'
      BY <3>1 DEF Covered, Move, Goto, Shape, Typed, Proc
    <3>3. QED
      BY <2>2, <3>1, <3>2, LeakedIsUncovered DEF NoneLeaked, Covered, Shape, Typed
  <2>5. QED
    BY <1>1, <2>3, <2>4 DEF BeginOpen
<1>2. CASE BeginInsert(r) \/ Drop(r)
  <2>1. /\ UNCHANGED <<victims, arg, db, closed>> /\ pc[r] \in {"insert", "drop"}
        /\ txns \ {arg[r]} \subseteq txns'
        /\ arg[r] \in txns' \/ pc'[r] = "finish"
        /\ \A q \in Proc \ {r} : pc'[q] = pc[q]
    BY <1>2 DEF BeginInsert, Drop, Without, Reply, Move, Goto, handles, Shape, Typed, Proc
  <2>2. Covered(arg[r])'
    BY <2>1 DEF Covered
  <2>3. ASSUME NEW t \in Txn, t # arg[r], Covered(t) PROVE Covered(t)'
    BY <2>1, <2>3 DEF Covered, Proc
  <2>4. QED
    BY <2>1, <2>2, <2>3, LeakedIsUncovered DEF NoneLeaked, Covered
<1>3. QED
  BY <1>1, <1>2

\* The other steps of a process give nothing back and begin nothing.
LEMMA LeakOther ==
    ASSUME Shape, NoneLeaked, NEW p \in Proc,
           \/ SweptSql(p) \/ SweptMongo(p) \/ (p = Reaper /\ ReaperTick)
           \/ (p = Closer /\ Shutdown)
           \/ /\ p \in Req
              /\ \/ Request(p) \/ RejectBody(p) \/ Lock(p) \/ Quit(p) \/ Entry(p)
                 \/ EntryNotFound(p) \/ Done(p) \/ DeleteConnection(p)
                 \/ BeginCount(p) \/ BeginRoute(p)
    PROVE  NoneLeaked'
<1>1. UNCHANGED <<txns, db, closed, victims>>
  BY DEF SweptSql, SweptMongo, ReaperTick, Shutdown, Request, Arrive, RejectBody, Lock, Quit,
         Entry, EntryNotFound, Done, DeleteConnection, BeginCount, BeginRoute, Locally, table,
         handles
<1>2. \A r \in Req \ {p} : arg'[r] = arg[r]
  BY DEF Shape, Typed, SweptSql, SweptMongo, ReaperTick, Shutdown, Request, Arrive, RejectBody,
         Lock, Quit, Entry, EntryNotFound, Done, DeleteConnection, BeginCount, BeginRoute,
         Locally
<1>3. /\ \A q \in Proc \ {p} : pc'[q] = pc[q]
      /\ pc[p] \in {"sweep", "sweepMongo"} => victims[p] = {}
      /\ pc[p] \notin {"insert", "finish"}
  BY DEF Shape, Typed, SweptSql, SweptMongo, ReaperTick, Shutdown, Request, Arrive, RejectBody,
         Lock, Quit, Entry, EntryNotFound, Done, DeleteConnection, BeginCount, BeginRoute,
         Reply, Move, Goto, Proc
<1>4. \A t \in Txn : Covered(t) => Covered(t)'
  BY <1>1, <1>2, <1>3, CoverMoved
<1>5. QED
  BY <1>1, <1>4, LeakedIsUncovered DEF NoneLeaked, Covered

LEMMA LeakOutside ==
    ASSUME Shape, NoneLeaked,
           (\E t \in Txn : LoseConnection(t) \/ IdleTimePasses(t)) \/ UNCHANGED vars
    PROVE  NoneLeaked'
<1>1. /\ UNCHANGED <<txns, closed, victims, pc, arg>>
      /\ \A t \in Txn : db'[t] # "none" => db[t] # "none"
  BY DEF LoseConnection, IdleTimePasses, vars, table, handles, Shape, Typed
<1>2. QED
  BY <1>1 DEF NoneLeaked

\* Begin, the sweeps, commit and rollback: every pinned connection is listed,
\* about to be, or in the hands of somebody who will end it.
THEOREM NeverLeaked == Spec => []NoneLeaked
<1>1. Init => NoneLeaked
  BY DEF Init, NoneLeaked
<1>2. Shape /\ NoneLeaked /\ [Next]_vars => NoneLeaked'
  <2> SUFFICES ASSUME Shape, NoneLeaked, [Next]_vars PROVE NoneLeaked'
    OBVIOUS
  <2>1. ASSUME NEW r \in Req, Proceed(r) PROVE NoneLeaked'
    <3>1. CASE EntryExpired(r)
      BY <3>1, LeakTakeOut DEF EntryExpired, Proc
    <3>2. QED
      BY <2>1, <3>1, LeakHandOver, LeakRun, LeakFinish, LeakOther
      DEF Proceed, Begin, GetEntry, End, Proc
  <2>2. ASSUME NEW p \in Proc, Sweeping(p) PROVE NoneLeaked'
    <3>1. CASE Collect(p)
      BY <3>1, LeakTakeOut DEF Collect
    <3>2. QED
      BY <2>2, <3>1, LeakSweep, LeakOther DEF Sweeping
  <2>3. ASSUME NEW r \in Req, Request(r) \/ RejectBody(r) \/ Lock(r) \/ Quit(r)
        PROVE  NoneLeaked'
    BY <2>3, LeakOther DEF Proc
  <2>4. CASE ReaperTick \/ Shutdown
    BY <2>4, LeakOther DEF Proc
  <2>5. QED
    BY <2>1, <2>2, <2>3, <2>4, LeakOutside DEF Next, Stopped
<1>3. QED
  BY <1>1, <1>2, ShapeHolds, PTL DEF Spec

-----------------------------------------------------------------------------
(* What a commit is answered *)

\* A call is answered when it leaves, and until the next one the answer stays.
Pending ==
    \A r \in Req :
        /\ pc[r] \notin {"idle", "done"} => answer[r] = "none"
        /\ answer[r] \in {"committed", "aborted"} => arg[r] \in Txn

\* A SQL transaction whose pinned connection is alive is undecided; MongoDB may
\* have aborted one whose session is alive.
LinkTells ==
    \A t \in Txn :
        /\ db[t] = "none" <=> link[t] = "none"
        /\ closed[t] => link[t] = "lost" /\ db[t] \in {"committed", "rolledback"}
        /\ link[t] = "aborted" => owner[t] # NoOwner /\ owner[t][2] \notin MongoConn
        /\ link[t] \in {"active", "aborted"} /\ (owner[t] = NoOwner \/ owner[t][2] \notin MongoConn)
              => db[t] = "open"

Truth == Pending /\ LinkTells /\ CommitAnswersTrue

\* A decision of the database is final.
LEMMA DecidedStays ==
    ASSUME Shape, NEW t \in Txn, NEW fate \in {"committed", "rolledback"},
           EndTransaction(t, fate), NEW x \in Txn, db[x] \in {"committed", "rolledback"}
    PROVE  db'[x] = db[x]
BY DEF EndTransaction, handles, Shape, Typed

LEMMA AnswersKept ==
    ASSUME Pending, CommitAnswersTrue,
           \A x \in Txn : db[x] \in {"committed", "rolledback"} => db'[x] = db[x],
           \A r \in Req : answer'[r] \in {"committed", "aborted"} =>
              answer'[r] = answer[r] /\ arg'[r] = arg[r]
    PROVE  CommitAnswersTrue'
BY DEF Pending, CommitAnswersTrue

\* Only ends make a session lost, and what they find undecided they decide.
LEMMA LinkEnded ==
    ASSUME Shape, LinkTells, NEW t \in Txn, NEW fate \in {"committed", "rolledback"},
           EndTransaction(t, fate), owner[t] # NoOwner, UNCHANGED owner
    PROVE  LinkTells'
<1>1. db[t] # "none" /\ link[t] # "none"
  BY DEF Shape, Life, ListedOnce, LinkTells
<1>2. CASE closed[t]
  BY <1>2 DEF EndTransaction, handles, LinkTells
<1>3. CASE ~closed[t]
  <2>1. /\ closed' = [closed EXCEPT ![t] = TRUE] /\ link' = [link EXCEPT ![t] = "lost"]
        /\ \E f \in {"committed", "rolledback"} :
              db' = [db EXCEPT ![t] = IF db[t] # "open" THEN db[t] ELSE f]
    BY <1>3 DEF EndTransaction
  <2>2. db'[t] \in {"committed", "rolledback"} /\ link'[t] = "lost"
    BY <1>1, <2>1 DEF Shape, Typed
  <2>3. \A x \in Txn \ {t} : db'[x] = db[x] /\ link'[x] = link[x] /\ closed'[x] = closed[x]
    BY <2>1 DEF Shape, Typed
  <2>4. QED
    BY <2>2, <2>3 DEF LinkTells
<1>4. QED
  BY <1>2, <1>3

\* The answers that say what the database did are given by those who end the
\* transaction: they find it open.
LEMMA FinishSays ==
    ASSUME Shape, LinkTells, NEW r \in Req,
           FinishLost(r) \/ FinishCommit(r) \/ FinishRollback(r) \/ FinishMongo(r)
    PROVE  /\ answer'[r] = "committed" => db[arg[r]] = "open" /\ db'[arg[r]] = "committed"
           /\ answer'[r] = "aborted"   => db'[arg[r]] = "rolledback"
<1>1. pc[r] = "finish" /\ arg[r] \in Txn /\ owner[arg[r]] = Identity(r)
  BY FinishCases DEF Shape, ArgIsTxn, Life, ClaimsOwned, Claims
<1>2. owner[arg[r]] # NoOwner /\ (owner[arg[r]][2] \in MongoConn <=> IsMongo(r))
  BY <1>1, IdentityIsOwner DEF IsMongo, Identity
<1>3. r \in DOMAIN answer /\ arg[r] \in DOMAIN db /\ closed[arg[r]] \in BOOLEAN
  BY <1>1 DEF Shape, Typed
<1>4. CASE FinishLost(r) \/ FinishRollback(r)
  BY <1>3, <1>4 DEF FinishLost, FinishRollback, Finish, Say, LostReply
<1>5. CASE FinishCommit(r)
  <2>1. CASE State(arg[r]) = "aborted" /\ Finish(r, "rolledback", "aborted")
    <3>1. ~closed[arg[r]] /\ db[arg[r]] = "open"
      BY <1>1, <1>2, <2>1 DEF LinkTells, State
    <3>2. QED
      BY <1>3, <2>1, <3>1 DEF Finish, EndTransaction, Say
  <2>2. ASSUME MayCommit(arg[r]), NEW fate \in {"committed", "rolledback"},
               NEW a \in {"committed", "aborted", "unknown"}, Finish(r, fate, a),
               a = "committed" => fate = "committed", a = "aborted" => fate = "rolledback"
        PROVE  /\ answer'[r] = "committed" => db[arg[r]] = "open" /\ db'[arg[r]] = "committed"
               /\ answer'[r] = "aborted"   => db'[arg[r]] = "rolledback"
    <3>1. ~closed[arg[r]] /\ db[arg[r]] = "open" /\ link[arg[r]] = "active"
      BY <1>1, <1>2, <1>5, <2>2 DEF LinkTells, MayCommit, State, FinishCommit
    <3>2. QED
      BY <1>3, <2>2, <3>1 DEF Finish, EndTransaction, Say
  <2>3. QED
    BY <1>5, <2>1, <2>2 DEF FinishCommit
<1>6. CASE FinishMongo(r)
  <2>1. CASE CanCommit(arg[r]) /\ Finish(r, "committed", "committed")
    <3>1. ~closed[arg[r]] /\ db[arg[r]] = "open" /\ link[arg[r]] # "aborted"
      BY <1>1, <1>2, <1>6, <2>1 DEF LinkTells, CanCommit, FinishMongo
    <3>2. QED
      BY <1>3, <2>1, <3>1 DEF Finish, EndTransaction, Say
  <2>2. QED
    BY <1>3, <1>6, <2>1 DEF FinishMongo, Finish, Say
<1>7. QED
  BY <1>4, <1>5, <1>6

LEMMA TruthFinish ==
    ASSUME Shape, Truth, NEW r \in Req,
           FinishLost(r) \/ FinishCommit(r) \/ FinishRollback(r) \/ FinishMongo(r)
    PROVE  Truth'
<1>1. PICK fate \in {"committed", "rolledback"}, a \in Answer : Finish(r, fate, a)
  BY FinishCases
<1>2. /\ pc[r] = "finish" /\ arg[r] \in Txn /\ owner[arg[r]] # NoOwner
      /\ EndTransaction(arg[r], fate) /\ UNCHANGED <<owner, arg>>
      /\ pc' = [pc EXCEPT ![r] = "done"] /\ answer' = [answer EXCEPT ![r] = a]
  BY <1>1, FinishCases, IdentityIsOwner
  DEF Finish, Leave, Goto, Say, table, Shape, ArgIsTxn, Life, ClaimsOwned, Claims
<1>3. Pending'
  BY <1>2 DEF Truth, Pending, Shape, Typed, Proc
<1>4. LinkTells'
  BY <1>2, LinkEnded DEF Truth
<1>5. CommitAnswersTrue'
  <2>1. \A x \in Txn : db[x] \in {"committed", "rolledback"} => db'[x] = db[x]
    BY <1>2, DecidedStays
  <2>2. \A s \in Req : answer'[s] = IF s = r THEN a ELSE answer[s]
    BY <1>2 DEF Shape, Typed
  <2>3. \A s \in Req \ {r} :
           /\ answer'[s] = "committed" => db[arg[s]] = "committed" /\ db'[arg[s]] = "committed"
           /\ answer'[s] = "aborted" => db'[arg[s]] = "rolledback"
    BY <2>1, <2>2 DEF Truth, Pending, CommitAnswersTrue
  <2>4. /\ answer'[r] = "committed" => db[arg[r]] = "open" /\ db'[arg[r]] = "committed"
        /\ answer'[r] = "aborted" => db'[arg[r]] = "rolledback"
    BY FinishSays DEF Truth
  <2>5. \A s, q \in Req : s # q /\ answer'[s] = "committed" /\ answer'[q] = "committed"
           => arg[s] # arg[q]
    BY <2>2, <2>3, <2>4 DEF Truth, CommitAnswersTrue
  <2>6. QED
    BY <1>2, <2>3, <2>4, <2>5 DEF CommitAnswersTrue
<1>6. QED
  BY <1>3, <1>4, <1>5 DEF Truth

LEMMA TruthRun ==
    ASSUME Shape, Truth, NEW r \in Req, Run(r)
    PROVE  Truth'
<1>1. /\ pc[r] = "run" /\ arg[r] \in Txn /\ owner[arg[r]] = Identity(r)
      /\ UNCHANGED <<owner, arg>> /\ pc' = [pc EXCEPT ![r] = "done"]
      /\ \E a \in {"ok", "refused"} : answer' = [answer EXCEPT ![r] = a]
  BY DEF Run, RunStatement, RunLost, RunMongo, Leave, Goto, Say, table, Shape, ArgIsTxn, Life,
         ClaimsOwned, Claims
<1>2. owner[arg[r]] # NoOwner /\ (owner[arg[r]][2] \in MongoConn <=> IsMongo(r))
  BY <1>1, IdentityIsOwner DEF IsMongo, Identity
<1>3. Pending'
  BY <1>1 DEF Truth, Pending, Shape, Typed, Proc
<1>4. LinkTells' /\ \A x \in Txn : db[x] \in {"committed", "rolledback"} => db'[x] = db[x]
  <2>1. CASE RunStatement(r)
    <3>1. /\ link[arg[r]] # "lost" /\ ~IsMongo(r) /\ UNCHANGED <<closed, db>>
          /\ link' = link \/ link' = [link EXCEPT ![arg[r]] = "aborted"]
      BY <2>1 DEF RunStatement, State
    <3>2. db[arg[r]] = "open" /\ ~closed[arg[r]]
      BY <1>1, <1>2, <3>1 DEF Truth, LinkTells, Shape, Typed, Life, ListedOnce
    <3>3. QED
      BY <1>1, <1>2, <3>1, <3>2 DEF Truth, LinkTells, Shape, Typed
  <2>2. CASE RunLost(r)
    BY <1>1, <1>2, <2>2, LinkEnded, DecidedStays DEF RunLost, Rollback, Truth
  <2>3. CASE RunMongo(r)
    <3>1. /\ IsMongo(r) /\ UNCHANGED <<closed, link>>
          /\ db' = db \/ (db[arg[r]] = "open" /\ db' = [db EXCEPT ![arg[r]] = "rolledback"])
      BY <2>3 DEF RunMongo
    <3>2. QED
      BY <1>1, <1>2, <3>1 DEF Truth, LinkTells, Shape, Typed
  <2>4. QED
    BY <2>1, <2>2, <2>3 DEF Run
<1>5. \A s \in Req : answer'[s] \in {"committed", "aborted"} => answer'[s] = answer[s]
  BY <1>1 DEF Shape, Typed
<1>6. CommitAnswersTrue'
  BY <1>1, <1>4, <1>5, AnswersKept DEF Truth
<1>7. QED
  BY <1>3, <1>4, <1>6 DEF Truth

LEMMA TruthSweep ==
    ASSUME Shape, Truth, NEW p \in Proc, NEW t \in Txn, Sweep(p, t)
    PROVE  Truth'
<1>1. /\ EndTransaction(t, "rolledback") /\ owner[t] # NoOwner
      /\ UNCHANGED <<owner, pc, arg, answer>>
  BY DEF Sweep, Rollback, table, Shape, Life, VictimsOut
<1>2. LinkTells' /\ \A x \in Txn : db[x] \in {"committed", "rolledback"} => db'[x] = db[x]
  BY <1>1, LinkEnded, DecidedStays DEF Truth
<1>3. QED
  BY <1>1, <1>2, AnswersKept DEF Truth, Pending

LEMMA TruthBegin ==
    ASSUME Shape, Truth, NEW r \in Req, BeginOpen(r) \/ BeginInsert(r)
    PROVE  Truth'
<1>1. CASE BeginOpen(r) /\ UNCHANGED handles
  <2>1. /\ UNCHANGED <<link, closed, db, owner, arg>> /\ pc[r] = "open"
        /\ pc' = [pc EXCEPT ![r] = "idle"] /\ answer' = [answer EXCEPT ![r] = "refused"]
    <3>1. \A t \in Txn : db[t] = "none" => db # [db EXCEPT ![t] = "open"]
      BY DEF Shape, Typed
    <3>2. QED
      BY <1>1, <3>1 DEF BeginOpen, Reply, Say, Goto, handles, table
  <2>2. QED
    BY <2>1, AnswersKept DEF Truth, Pending, LinkTells, Shape, Typed, Proc
<1>2. ASSUME NEW t \in Txn, BeginOpen(r), db[t] = "none", db' = [db EXCEPT ![t] = "open"],
             link' = [link EXCEPT ![t] = "active"], arg' = [arg EXCEPT ![r] = t],
             Move(r, "insert"), UNCHANGED closed
      PROVE  Truth'
  <2>1. /\ pc[r] = "open" /\ answer[r] = "none" /\ UNCHANGED <<answer, owner>>
        /\ pc' = [pc EXCEPT ![r] = "insert"]
    BY <1>2 DEF BeginOpen, Move, Goto, table, Truth, Pending
  <2>2. owner[t] = NoOwner /\ ~closed[t]
    BY <1>2 DEF Shape, Typed, Life, ListedOnce, Truth, LinkTells
  <2>3. Pending'
    BY <1>2, <2>1 DEF Truth, Pending, Shape, Typed, Proc
  <2>4. LinkTells'
    BY <1>2, <2>1, <2>2 DEF Truth, LinkTells, Shape, Typed
  <2>5. \A s \in Req : answer'[s] \in {"committed", "aborted"} =>
           answer'[s] = answer[s] /\ arg'[s] = arg[s]
    BY <1>2, <2>1 DEF Shape, Typed
  <2>6. \A x \in Txn : db[x] \in {"committed", "rolledback"} => db'[x] = db[x]
    BY <1>2 DEF Shape, Typed
  <2>7. QED
    BY <2>3, <2>4, <2>5, <2>6, AnswersKept DEF Truth
<1>3. CASE BeginInsert(r)
  <2>1. /\ owner' = [owner EXCEPT ![arg[r]] = Identity(r)] /\ pc[r] = "insert"
        /\ pc' = [pc EXCEPT ![r] = "idle"] /\ answer' = [answer EXCEPT ![r] = "ok"]
        /\ UNCHANGED <<link, closed, db, arg>> /\ arg[r] \in Txn /\ owner[arg[r]] = NoOwner
    BY <1>3 DEF BeginInsert, Reply, Say, Goto, handles, Shape, ArgIsTxn, Life, ListedOnce
  <2>2. LinkTells'
    BY <2>1, IdentityIsOwner DEF Truth, LinkTells, Shape, Typed
  <2>3. Pending' /\ CommitAnswersTrue'
    BY <2>1, AnswersKept DEF Truth, Pending, Shape, Typed, Proc
  <2>4. QED
    BY <2>2, <2>3 DEF Truth
<1>4. QED
  BY <1>1, <1>2, <1>3 DEF BeginOpen

\* The steps that touch no transaction: a new call forgets the last answer, and
\* those that answer one say nothing of a commit.
LEMMA TruthOther ==
    ASSUME Shape, Truth, NEW p \in Proc,
           \/ SweptSql(p) \/ SweptMongo(p) \/ Collect(p) \/ (p = Reaper /\ ReaperTick)
           \/ (p = Closer /\ Shutdown)
           \/ /\ p \in Req
              /\ \/ Request(p) \/ RejectBody(p) \/ Lock(p) \/ Quit(p) \/ GetEntry(p)
                 \/ Done(p) \/ Drop(p) \/ DeleteConnection(p) \/ BeginCount(p) \/ BeginRoute(p)
    PROVE  Truth'
<1>1. UNCHANGED <<link, closed, db, owner>>
  BY DEF SweptSql, SweptMongo, Collect, TakeOut, ReaperTick, Shutdown, Request, Arrive,
         RejectBody, Lock, Quit, GetEntry, Entry, EntryExpired, EntryNotFound, Done, Drop,
         DeleteConnection, BeginCount, BeginRoute, Locally, table, handles
<1>2. /\ \A q \in Proc \ {p} : pc'[q] = pc[q]
      /\ \A s \in Req \ {p} : arg'[s] = arg[s] /\ answer'[s] = answer[s]
  BY DEF Shape, Typed, SweptSql, SweptMongo, Collect, TakeOut, ReaperTick, Shutdown, Request,
         Arrive, RejectBody, Lock, Quit, GetEntry, Entry, EntryExpired, EntryNotFound, Done,
         Drop, DeleteConnection, BeginCount, BeginRoute, Reply, Move, Say, Goto, Locally, Proc
<1>3. p \in Req =>
         \/ answer'[p] \in {"none", "ok", "refused", "stopping"}
            /\ (pc'[p] \notin {"idle", "done"} => answer'[p] = "none")
         \/ UNCHANGED <<answer, arg>> /\ (pc'[p] \notin {"idle", "done"} => pc[p] \notin {"idle", "done"})
  <2>1. CASE Request(p) /\ p \in Req
    BY <2>1 DEF Request, Arrive, Say, Goto, Shape, Typed
  <2>2. CASE (RejectBody(p) \/ Quit(p)) /\ p \in Req
    BY <2>2 DEF RejectBody, Quit, Say, Goto, Shape, Typed, Proc
  <2>3. CASE (SweptSql(p) \/ SweptMongo(p) \/ BeginCount(p) \/ BeginRoute(p)
                 \/ DeleteConnection(p) \/ EntryNotFound(p)) /\ p \in Req
    <3>1. /\ arg' = arg /\ pc[p] \notin {"idle", "done"}
          /\ Reply(p, "ok") \/ Reply(p, "refused") \/ \E l \in PC : Move(p, l)
      BY <2>3 DEF SweptSql, SweptMongo, BeginCount, BeginRoute, DeleteConnection, EntryNotFound,
         Locally, PC
    <3>2. QED
      BY <2>3, <3>1 DEF Reply, Move, Say, Goto, Shape, Typed, Proc
  <2>4. CASE (Collect(p) \/ EntryExpired(p) \/ Entry(p) \/ Lock(p) \/ Drop(p)) /\ p \in Req
    BY <2>4 DEF Collect, TakeOut, EntryExpired, Entry, Lock, Drop, Move
  <2>5. CASE Done(p) /\ p \in Req
    BY <2>5 DEF Done, Move, Goto, Shape, Typed, Proc
  <2>6. CASE p \in {Reaper, Closer}
    BY <2>6, ProcessAssumption
  <2>7. QED
    BY <2>1, <2>2, <2>3, <2>4, <2>5, <2>6 DEF GetEntry
<1>4. \A s \in Req : answer'[s] \in {"committed", "aborted"} =>
         answer'[s] = answer[s] /\ arg'[s] = arg[s]
  BY <1>2, <1>3
<1>5. Pending'
  BY <1>2, <1>3, <1>4 DEF Truth, Pending, Proc
<1>6. QED
  BY <1>1, <1>4, <1>5, AnswersKept DEF Truth, LinkTells

LEMMA TruthOutside ==
    ASSUME Shape, Truth,
           (\E t \in Txn : LoseConnection(t) \/ IdleTimePasses(t)) \/ UNCHANGED vars
    PROVE  Truth'
<1>1. UNCHANGED <<owner, closed, pc, arg, answer>>
  BY DEF LoseConnection, IdleTimePasses, vars, table, handles, world
<1>2. /\ LinkTells' /\ \A x \in Txn : db[x] \in {"committed", "rolledback"} => db'[x] = db[x]
  <2>1. CASE \E t \in Txn : LoseConnection(t)
    BY <1>1, <2>1 DEF LoseConnection, Truth, LinkTells, Shape, Typed
  <2>2. CASE UNCHANGED <<link, db>>
    BY <1>1, <2>2 DEF Truth, LinkTells
  <2>3. QED
    BY <2>1, <2>2 DEF IdleTimePasses, vars, handles
<1>3. QED
  BY <1>1, <1>2, AnswersKept DEF Truth, Pending

\* finishTransaction: a commit answered 204 is in the database, one answered
\* TXN_ROLLED_BACK is not, and one commit of a transaction at most is answered 204.
THEOREM CommitsAnswerTrue == Spec => []CommitAnswersTrue
<1>1. Init => Truth
  BY DEF Init, Truth, Pending, LinkTells, CommitAnswersTrue, Proc
<1>2. Shape /\ Truth /\ [Next]_vars => Truth'
  <2> SUFFICES ASSUME Shape, Truth, [Next]_vars PROVE Truth'
    OBVIOUS
  <2>1. ASSUME NEW r \in Req, Proceed(r) PROVE Truth'
    BY <2>1, TruthBegin, TruthRun, TruthFinish, TruthOther DEF Proceed, Begin, End, Proc
  <2>2. ASSUME NEW p \in Proc, Sweeping(p) PROVE Truth'
    BY <2>2, TruthSweep, TruthOther DEF Sweeping
  <2>3. ASSUME NEW r \in Req, Request(r) \/ RejectBody(r) \/ Lock(r) \/ Quit(r)
        PROVE  Truth'
    BY <2>3, TruthOther DEF Proc
  <2>4. CASE ReaperTick \/ Shutdown
    BY <2>4, TruthOther DEF Proc
  <2>5. QED
    BY <2>1, <2>2, <2>3, <2>4, TruthOutside DEF Next, Stopped
<1>3. QED
  BY <1>1, <1>2, ShapeHolds, PTL DEF Spec, Truth

-----------------------------------------------------------------------------
(* The refinement of TxnLedger *)

Stages == [t \in Txn |-> Stage(t)]

LEMMA LedgerInit == Init => Ledger!Init
BY DEF Init, Ledger!Init, Stage

LEMMA StagesKept ==
    ASSUME UNCHANGED <<txns, owner>>
    PROVE  Stages' = Stages
BY DEF Stages, Stage

\* A step that moves no entry and decides no transaction.
LEMMA LedgerStutter ==
    ASSUME UNCHANGED <<txns, owner, db>>
    PROVE  UNCHANGED Ledger!vars
BY StagesKept DEF Ledger!vars, Stages

\* Entries taken out of a table, all of them listed until then.
LEMMA LedgerDelist ==
    ASSUME Shape, NEW ts \in SUBSET txns, txns' = txns \ ts, UNCHANGED <<owner, db>>
    PROVE  Ledger!Next
<1>1. ts \in SUBSET Txn /\ \A t \in txns : owner[t] # NoOwner
  BY DEF Shape, Typed, Life, ListedOnce
<1>2. \A t \in ts : Stages[t] = "listed"
  BY <1>1 DEF Stages, Stage
<1>3. Stages' = [t \in Txn |-> IF t \in ts THEN "delisted" ELSE Stages[t]]
  BY <1>1 DEF Stages, Stage
<1>4. QED
  BY <1>1, <1>2, <1>3 DEF Ledger!Next, Ledger!Delist, Stages

\* The end of a transaction decides it at most once: a commit, when no request
\* can find it any more, or a rollback.
LEMMA LedgerEnd ==
    ASSUME Shape, NEW t \in Txn, NEW fate \in {"committed", "rolledback"},
           EndTransaction(t, fate), UNCHANGED <<txns, owner>>,
           fate = "committed" => t \notin txns /\ owner[t] # NoOwner
    PROVE  Ledger!Next \/ UNCHANGED Ledger!vars
<1>1. Stages' = Stages
  BY StagesKept
<1>2. CASE db' = db
  BY <1>1, <1>2 DEF Ledger!vars, Stages
<1>3. CASE db' # db
  <2>1. /\ db[t] = "open"
        /\ \/ db' = [db EXCEPT ![t] = "rolledback"]
           \/ db' = [db EXCEPT ![t] = "committed"] /\ fate = "committed"
    BY <1>3 DEF EndTransaction, handles, Shape, Typed
  <2>2. CASE db' = [db EXCEPT ![t] = "rolledback"]
    BY <1>1, <2>1, <2>2 DEF Ledger!Next, Ledger!Discard, Stages
  <2>3. CASE db' = [db EXCEPT ![t] = "committed"] /\ fate = "committed"
    <3>1. Stages[t] = "delisted"
      BY <2>3 DEF Stages, Stage
    <3>2. QED
      BY <1>1, <2>1, <2>3, <3>1 DEF Ledger!Next, Ledger!Commit, Stages
  <2>4. QED
    BY <2>1, <2>2, <2>3
<1>4. QED
  BY <1>2, <1>3

LEMMA LedgerRun ==
    ASSUME Shape, NEW r \in Req, Run(r)
    PROVE  Ledger!Next \/ UNCHANGED Ledger!vars
<1>1. arg[r] \in Txn /\ owner[arg[r]] # NoOwner
  BY IdentityIsOwner
  DEF Run, RunStatement, RunLost, RunMongo, Shape, ArgIsTxn, Life, ClaimsOwned, Claims
<1>2. CASE RunStatement(r)
  BY <1>2, LedgerStutter DEF RunStatement, table
<1>3. CASE RunLost(r)
  <2>1. /\ txns' = txns \ {arg[r]} /\ owner' = owner
        /\ EndTransaction(arg[r], "rolledback")
    BY <1>3 DEF RunLost, Without, Rollback
  <2>2. CASE arg[r] \notin txns
    <3>1. txns' = txns
      BY <2>1, <2>2
    <3>2. QED
      BY <1>1, <2>1, <3>1, LedgerEnd
  <2>3. CASE arg[r] \in txns
    <3>1. CASE db' = db
      BY <2>1, <2>3, <3>1, LedgerDelist
    <3>2. CASE db' # db
      <4>1. db[arg[r]] = "open" /\ db' = [db EXCEPT ![arg[r]] = "rolledback"]
        BY <1>1, <2>1, <3>2 DEF EndTransaction, handles, Shape, Typed
      <4>2. Stages[arg[r]] = "listed" /\ Stages' = [Stages EXCEPT ![arg[r]] = "delisted"]
        BY <1>1, <2>1, <2>3 DEF Stages, Stage
      <4>3. QED
        BY <1>1, <4>1, <4>2 DEF Ledger!Next, Ledger!Discard, Stages
    <3>3. QED
      BY <3>1, <3>2
  <2>4. QED
    BY <2>2, <2>3
<1>4. CASE RunMongo(r)
  <2>1. /\ UNCHANGED <<txns, owner>>
        /\ db' = db \/ (db[arg[r]] = "open" /\ db' = [db EXCEPT ![arg[r]] = "rolledback"])
    BY <1>4 DEF RunMongo, table
  <2>2. QED
    BY <1>1, <2>1, StagesKept, LedgerStutter DEF Ledger!Next, Ledger!Discard, Stages
<1>5. QED
  BY <1>2, <1>3, <1>4 DEF Run

LEMMA LedgerFinish ==
    ASSUME Shape, NEW r \in Req,
           FinishLost(r) \/ FinishCommit(r) \/ FinishRollback(r) \/ FinishMongo(r)
    PROVE  Ledger!Next \/ UNCHANGED Ledger!vars
<1>1. PICK fate \in {"committed", "rolledback"}, a \in Answer : Finish(r, fate, a)
  BY FinishCases
<1>2. arg[r] \in Txn /\ arg[r] \notin txns /\ owner[arg[r]] # NoOwner
  BY FinishCases, IdentityIsOwner
  DEF Shape, ArgIsTxn, Life, ClaimsOwned, FinishingOut, Claims
<1>3. EndTransaction(arg[r], fate) /\ UNCHANGED <<txns, owner>>
  BY <1>1 DEF Finish, table
<1>4. QED
  BY <1>2, <1>3, LedgerEnd

LEMMA LedgerBegin ==
    ASSUME Shape, NEW r \in Req, BeginOpen(r) \/ BeginInsert(r)
    PROVE  Ledger!Next \/ UNCHANGED Ledger!vars
<1>1. CASE BeginOpen(r)
  <2>1. UNCHANGED <<txns, owner>>
    BY <1>1 DEF BeginOpen, table
  <2>2. CASE UNCHANGED handles
    BY <2>1, <2>2, LedgerStutter DEF handles
  <2>3. ASSUME NEW t \in Txn, db[t] = "none", db' = [db EXCEPT ![t] = "open"]
        PROVE  Ledger!Next
    BY <2>1, <2>3, StagesKept DEF Ledger!Next, Ledger!Open, Stages
  <2>4. QED
    BY <1>1, <2>2, <2>3 DEF BeginOpen
<1>2. CASE BeginInsert(r)
  <2>1. /\ arg[r] \in Txn /\ owner[arg[r]] = NoOwner /\ db[arg[r]] # "none"
        /\ arg[r] \notin txns
    BY <1>2 DEF BeginInsert, Shape, ArgIsTxn, Life, ListedOnce
  <2>2. /\ db' = db /\ txns' = txns \cup {arg[r]}
        /\ owner' = [owner EXCEPT ![arg[r]] = Identity(r)]
    BY <1>2 DEF BeginInsert, handles
  <2>3. Stages[arg[r]] = "unlisted" /\ Stages' = [Stages EXCEPT ![arg[r]] = "listed"]
    BY <2>1, <2>2 DEF Stages, Stage, Shape, Typed
  <2>4. QED
    BY <2>1, <2>2, <2>3 DEF Ledger!Next, Ledger!List, Stages
<1>3. QED
  BY <1>1, <1>2

LEMMA LedgerTakeOut ==
    ASSUME Shape,
           \/ \E p \in Proc : Collect(p)
           \/ \E r \in Req : EntryExpired(r) \/ Drop(r)
    PROVE  Ledger!Next
<1>1. PICK ts : txns' = txns \ ts /\ UNCHANGED <<owner, db>>
  BY DEF Collect, EntryExpired, TakeOut, Drop, Without, handles
<1>2. txns' = txns \ (ts \cap txns)
  BY <1>1
<1>3. QED
  BY <1>1, <1>2, LedgerDelist

LEMMA LedgerNext ==
    ASSUME Shape, [Next]_vars
    PROVE  Ledger!Next \/ UNCHANGED Ledger!vars
<1>1. ASSUME NEW p \in Proc, NEW t \in Txn, Sweep(p, t)
      PROVE  Ledger!Next \/ UNCHANGED Ledger!vars
  BY <1>1, LedgerEnd DEF Sweep, Rollback, table
<1>2. ASSUME NEW t \in Txn, LoseConnection(t)
      PROVE  Ledger!Next
  <2>1. /\ db[t] = "open" /\ db' = [db EXCEPT ![t] = "rolledback"]
        /\ UNCHANGED <<txns, owner>>
    BY <1>2 DEF LoseConnection, table
  <2>2. QED
    BY <2>1, StagesKept DEF Ledger!Next, Ledger!Discard, Stages
<1>3. ASSUME NEW r \in Req,
             \/ Request(r) \/ RejectBody(r) \/ Lock(r) \/ Quit(r) \/ Entry(r)
             \/ EntryNotFound(r) \/ Done(r) \/ DeleteConnection(r)
             \/ BeginCount(r) \/ BeginRoute(r)
      PROVE  UNCHANGED Ledger!vars
  BY <1>3, LedgerStutter
  DEF Request, Arrive, RejectBody, Lock, Quit, Entry, EntryNotFound, Done, DeleteConnection,
      BeginCount, BeginRoute, Locally, table, handles
<1>4. CASE \/ \E p \in Proc : SweptSql(p) \/ SweptMongo(p)
           \/ ReaperTick \/ Shutdown \/ UNCHANGED vars
           \/ \E t \in Txn : IdleTimePasses(t)
  BY <1>4, LedgerStutter
  DEF SweptSql, SweptMongo, ReaperTick, Shutdown, IdleTimePasses, Locally, table, handles, vars
<1>5. QED
  BY <1>1, <1>2, <1>3, <1>4, LedgerRun, LedgerFinish, LedgerBegin, LedgerTakeOut
  DEF Next, Proceed, Begin, GetEntry, End, Sweeping, Stopped

\* The tables of manual transactions keep the ledger's promise: an id is listed
\* once and delisted once, its transaction decided once, and committed only when
\* no request can find it any more.
THEOREM LedgerIsImplemented == Spec => ImplementsLedger
<1>1. Shape /\ [Next]_vars => [Ledger!Next]_(Ledger!vars)
  BY LedgerNext
<1>2. QED
  BY LedgerInit, <1>1, ShapeHolds, PTL DEF Spec, ImplementsLedger, Ledger!Spec
-----------------------------------------------------------------------------
(* The limit of open transactions *)

\* The requests of one user on one table, those of them that have counted
\* and not inserted, and the entries they count.
Mates(s)   == {r \in Req : user[r] = user[s] /\ (IsMongo(r) <=> IsMongo(s))}
Openers(s) == {r \in Mates(s) : Opening(r)}
Own(s)     == OfUser(user[s]) \cap Listed(s)

\* For each of the two tables, its begins pass the limit by less than their
\* number; begins on the other table do not matter to it.
Overrun ==
    \A s \in Req :
        Cardinality(Own(s)) + Cardinality(Openers(s)) < PerUser + Cardinality(Mates(s))

\* These sets are finite, and who counts or opens is one of the mates.
LEMMA OverrunSets ==
    ASSUME Shape, NEW s \in Req
    PROVE  /\ IsFiniteSet(Own(s)) /\ IsFiniteSet(Openers(s)) /\ IsFiniteSet(Mates(s))
           /\ Cardinality(Own(s)) \in Nat /\ Cardinality(Openers(s)) \in Nat
           /\ Cardinality(Mates(s)) \in Nat
           /\ Openers(s) \subseteq Mates(s) /\ s \in Mates(s)
<1>1. Own(s) \subseteq Txn
  BY DEF Own, OfUser, Shape, Typed
<1>2. Mates(s) \subseteq Req /\ Openers(s) \subseteq Mates(s) /\ s \in Mates(s)
  BY DEF Mates, Openers
<1>3. IsFiniteSet(Own(s)) /\ IsFiniteSet(Mates(s))
  BY <1>1, <1>2, FS_Subset, ProcessAssumption
<1>4. IsFiniteSet(Openers(s))
  BY <1>2, <1>3, FS_Subset
<1>5. QED
  BY <1>2, <1>3, <1>4, FS_CardinalityType

\* No entry, no opener: there is room for the first of the mates.
LEMMA OverrunInit == Init => Overrun
<1> SUFFICES ASSUME Init, NEW s \in Req
             PROVE  Cardinality(Own(s)) + Cardinality(Openers(s))
                        < PerUser + Cardinality(Mates(s))
  BY DEF Overrun
<1>1. Own(s) = {} /\ Openers(s) = {}
  BY DEF Init, Own, OfUser, Openers, Mates, Opening, Proc
<1>2. Cardinality(Mates(s)) \in Nat
  BY OverrunSets, ShapeInit
<1>3. QED
  BY <1>1, <1>2, FS_EmptySet, LimitAssumption

\* What lists nothing and starts no begin leaves the overrun as it is.
LEMMA OverrunKept ==
    ASSUME Shape, Overrun, txns' \subseteq txns, owner' = owner,
           \A r \in Req : Opening(r)' => Opening(r)
    PROVE  Overrun'
<1> SUFFICES ASSUME NEW s \in Req
             PROVE  Cardinality(Own(s)') + Cardinality(Openers(s)')
                        < PerUser + Cardinality(Mates(s))
  BY DEF Overrun, Mates
<1>1. Own(s)' \subseteq Own(s)
  BY DEF Own, OfUser, Listed, MongoEntries
<1>2. Openers(s)' \subseteq Openers(s)
  BY DEF Openers, Mates
<1>3. /\ Cardinality(Own(s)') <= Cardinality(Own(s)) /\ Cardinality(Own(s)') \in Nat
      /\ Cardinality(Openers(s)') <= Cardinality(Openers(s))
      /\ Cardinality(Openers(s)') \in Nat
  BY <1>1, <1>2, OverrunSets, FS_Subset, FS_CardinalityType
<1>4. QED
  BY <1>3, OverrunSets, LimitAssumption DEF Overrun

\* A begin that counted below the limit is one more of the openers, who are
\* no more than the mates.
LEMMA OverrunCount ==
    ASSUME Shape, Overrun, NEW r \in Req, BeginCount(r), ~AtLimit(r)
    PROVE  Overrun'
<1>1. UNCHANGED <<txns, owner>> /\ pc[r] = "count" /\ pc' = [pc EXCEPT ![r] = "route"]
  BY DEF BeginCount, Move, Goto, Locally, table
<1>2. \A q \in Req : Opening(q)' <=> Opening(q) \/ q = r
  BY <1>1 DEF Opening, Shape, Typed, Proc
<1> SUFFICES ASSUME NEW s \in Req
             PROVE  Cardinality(Own(s)') + Cardinality(Openers(s)')
                        < PerUser + Cardinality(Mates(s))
  BY DEF Overrun, Mates
<1>3. Own(s)' = Own(s)
  BY <1>1 DEF Own, OfUser, Listed, MongoEntries
<1>4. CASE r \in Mates(s)
  <2>1. Openers(s)' \subseteq Mates(s)
    BY DEF Openers, Mates
  <2>2. Cardinality(Openers(s)') <= Cardinality(Mates(s)) /\ Cardinality(Openers(s)') \in Nat
    BY <2>1, OverrunSets, FS_Subset, FS_CardinalityType
  <2>3. Own(s) = OfUser(user[r]) \cap Listed(r)
    BY <1>4 DEF Own, Mates, Listed
  <2>4. ~(Cardinality(Own(s)) >= PerUser)
    BY <2>3 DEF AtLimit
  <2>5. QED
    BY <1>3, <2>2, <2>4, OverrunSets, LimitAssumption
<1>5. CASE r \notin Mates(s)
  <2>1. Openers(s)' = Openers(s)
    BY <1>2, <1>5 DEF Openers, Mates
  <2>2. QED
    BY <1>3, <2>1 DEF Overrun
<1>6. QED
  BY <1>4, <1>5

\* A begin that inserts is an opener no longer, and its entry one more.
LEMMA OverrunInsert ==
    ASSUME Shape, Overrun, NEW r \in Req, BeginInsert(r)
    PROVE  Overrun'
<1> DEFINE t == arg[r]
<1>1. /\ t \in Txn /\ t \notin txns /\ pc[r] = "insert"
      /\ txns' = txns \cup {t} /\ owner' = [owner EXCEPT ![t] = Identity(r)]
      /\ pc' = [pc EXCEPT ![r] = "idle"]
  BY DEF Shape, ArgIsTxn, Life, ListedOnce, BeginInsert, Reply, Goto
<1>2. \A q \in Req : Opening(q)' <=> Opening(q) /\ q # r
  BY <1>1 DEF Opening, Shape, Typed, Proc
<1>3. /\ \A x \in txns : owner'[x] = owner[x]
      /\ owner'[t] = <<user[r], connection[r]>>
  BY <1>1 DEF Shape, Typed, Identity
<1> SUFFICES ASSUME NEW s \in Req
             PROVE  Cardinality(Own(s)') + Cardinality(Openers(s)')
                        < PerUser + Cardinality(Mates(s))
  BY DEF Overrun, Mates
<1>4. CASE r \in Mates(s)
  <2>1. Own(s)' = Own(s) \cup {t} /\ t \notin Own(s)
    <3>1. t \notin Own(s)
      BY <1>1 DEF Own, OfUser
    <3>2. \A x : x \in Own(s)' <=> x \in Own(s) \/ x = t
      BY <1>1, <1>3, <1>4 DEF Own, OfUser, Listed, MongoEntries, Mates, IsMongo
    <3>3. QED
      BY <3>1, <3>2
  <2>2. Openers(s)' = Openers(s) \ {r} /\ r \in Openers(s)
    BY <1>1, <1>2, <1>4 DEF Openers, Opening, Mates
  <2>3. Cardinality(Own(s)') = Cardinality(Own(s)) + 1
    BY <2>1, OverrunSets, FS_AddElement
  <2>4. Cardinality(Openers(s)') = Cardinality(Openers(s)) - 1
    BY <2>2, OverrunSets, FS_RemoveElement
  <2>5. QED
    BY <2>3, <2>4, OverrunSets, LimitAssumption DEF Overrun
<1>5. CASE r \notin Mates(s)
  <2>1. Own(s)' = Own(s)
    <3>1. \A x : x \in Own(s)' <=> x \in Own(s)
      BY <1>1, <1>3, <1>5 DEF Own, OfUser, Listed, MongoEntries, Mates, IsMongo
    <3>2. QED
      BY <3>1
  <2>2. Openers(s)' = Openers(s)
    BY <1>2, <1>5 DEF Openers, Mates
  <2>3. QED
    BY <2>1, <2>2 DEF Overrun
<1>6. QED
  BY <1>4, <1>5

\* Every other step moves a process to where nobody has a begin under way, or
\* goes on with one.
LEMMA OverrunMoved ==
    ASSUME Shape, Overrun, NEW p \in Proc, NEW l, Goto(p, l),
           l \in {"route", "open", "insert"} => pc[p] \in {"route", "open", "insert"},
           txns' \subseteq txns, owner' = owner
    PROVE  Overrun'
<1>1. \A r \in Req : Opening(r)' => Opening(r)
  BY DEF Opening, Goto, Shape, Typed, Proc
<1>2. QED
  BY <1>1, OverrunKept

LEMMA OverrunOther ==
    ASSUME Shape, Overrun, Next,
           ~ \E r \in Req : BeginInsert(r) \/ (BeginCount(r) /\ ~AtLimit(r))
    PROVE  Overrun'
<1>1. ASSUME NEW r \in Req,
             \/ Request(r) \/ RejectBody(r) \/ Lock(r) \/ GetEntry(r) \/ Run(r) \/ Done(r)
             \/ DeleteConnection(r) \/ Drop(r) \/ (BeginCount(r) /\ AtLimit(r))
      PROVE  Overrun'
  <2>1. /\ \E l \in {"collect", "delete", "claim", "done", "run", "drop", "lock", "sweep",
                     "idle", "finish"} : Goto(r, l)
        /\ txns' \subseteq txns /\ owner' = owner
    BY <1>1 DEF Request, Arrive, RejectBody, Lock, GetEntry, Entry, EntryExpired, TakeOut,
       Without, EntryNotFound, Run, RunStatement, RunLost, RunMongo, Leave, Done,
       DeleteConnection, Drop, BeginCount, Reply, Move, Locally, table
  <2>2. QED
    BY <2>1, OverrunMoved DEF Proc
<1>2. ASSUME NEW r \in Req, BeginRoute(r) \/ BeginOpen(r) PROVE Overrun'
  <2>1. /\ \E l \in {"idle", "open", "insert"} : Goto(r, l)
        /\ pc[r] \in {"route", "open"} /\ txns' = txns /\ owner' = owner
    BY <1>2 DEF BeginRoute, BeginOpen, Reply, Move, Locally, table
  <2>2. QED
    BY <2>1, OverrunMoved DEF Proc
<1>3. ASSUME NEW r \in Req,
             FinishLost(r) \/ FinishCommit(r) \/ FinishRollback(r) \/ FinishMongo(r)
      PROVE  Overrun'
  <2>1. Goto(r, "done") /\ txns' = txns /\ owner' = owner
    BY <1>3, FinishCases DEF Finish, Leave, table
  <2>2. QED
    BY <2>1, OverrunMoved DEF Proc
<1>4. ASSUME NEW p \in Proc, Collect(p) \/ SweptSql(p) \/ SweptMongo(p) PROVE Overrun'
  <2>1. /\ \E l \in {"sweep", "sweepMongo", "idle", "collectMongo", "closed", "count"} : Goto(p, l)
        /\ txns' \subseteq txns /\ owner' = owner
    BY <1>4 DEF Collect, TakeOut, Without, SweptSql, SweptMongo, Reply, Move, Locally, table
  <2>2. QED
    BY <2>1, OverrunMoved
<1>5. CASE ReaperTick \/ Shutdown
  <2>1. /\ \E p \in {Reaper, Closer} : Goto(p, "collect")
        /\ txns' = txns /\ owner' = owner
    BY <1>5 DEF ReaperTick, Shutdown, Move, Locally, table
  <2>2. QED
    BY <2>1, OverrunMoved DEF Proc
<1>6. CASE \/ \E p \in Proc, t \in Txn : Sweep(p, t)
           \/ \E t \in Txn : LoseConnection(t) \/ IdleTimePasses(t)
           \/ \E r \in Req : Quit(r)
           \/ Stopped
  <2>1. UNCHANGED <<pc, txns, owner>>
    BY <1>6 DEF Sweep, LoseConnection, IdleTimePasses, Quit, Stopped, table, vars
  <2>2. QED
    BY <2>1, OverrunKept DEF Opening
<1>7. QED
  BY <1>1, <1>2, <1>3, <1>4, <1>5, <1>6 DEF Next, Proceed, Begin, Sweeping, End

\* Begins that overlap pass the limit of open transactions by less than their
\* own number: counting and inserting are two critical sections of the table
\* (beginTransaction, mongoBeginTransaction).
THEOREM OverrunIsBounded == Spec => []OverrunBounded
<1>1. Shape /\ Overrun /\ [Next]_vars => Overrun'
  <2> SUFFICES ASSUME Shape, Overrun, [Next]_vars PROVE Overrun'
    OBVIOUS
  <2>1. CASE \E r \in Req : BeginInsert(r) \/ (BeginCount(r) /\ ~AtLimit(r))
    BY <2>1, OverrunInsert, OverrunCount
  <2>2. CASE UNCHANGED vars
    BY <2>2, OverrunKept DEF vars, table, Opening
  <2>3. QED
    BY <2>1, <2>2, OverrunOther
<1>2. Shape /\ Overrun => OverrunBounded
  <2> SUFFICES ASSUME Shape, Overrun, NEW s \in Req
               PROVE  Cardinality(OfUser(user[s]) \cap Listed(s))
                        + Cardinality({r \in Req : user[r] = user[s] /\ Opening(r)})
                      < PerUser + Cardinality({r \in Req : user[r] = user[s]})
    BY DEF OverrunBounded
  <2> DEFINE all    == {r \in Req : user[r] = user[s]}
             begins == {r \in Req : user[r] = user[s] /\ Opening(r)}
             others == all \ Mates(s)
             late   == begins \ Mates(s)
  <2>1. /\ all = Mates(s) \cup others /\ Mates(s) \cap others = {}
        /\ begins = Openers(s) \cup late /\ Openers(s) \cap late = {}
        /\ late \subseteq others /\ others \subseteq Req
    BY DEF Mates, Openers
  <2> HIDE DEF all, begins, others, late
  <2>2. IsFiniteSet(others) /\ IsFiniteSet(late) /\ Cardinality(late) <= Cardinality(others)
    BY <2>1, FS_Subset, ProcessAssumption
  <2>3. Cardinality(all) = Cardinality(Mates(s)) + Cardinality(others)
    <3>1. Cardinality(Mates(s) \cup others)
              = Cardinality(Mates(s)) + Cardinality(others) - Cardinality(Mates(s) \cap others)
      BY <2>2, OverrunSets, FS_Union
    <3>2. Cardinality(Mates(s) \cap others) = 0
      BY <2>1, FS_EmptySet
    <3>3. QED
      BY <2>1, <2>2, <3>1, <3>2, OverrunSets, FS_CardinalityType
  <2>4. Cardinality(begins) = Cardinality(Openers(s)) + Cardinality(late)
    <3>1. Cardinality(Openers(s) \cup late)
              = Cardinality(Openers(s)) + Cardinality(late) - Cardinality(Openers(s) \cap late)
      BY <2>2, OverrunSets, FS_Union
    <3>2. Cardinality(Openers(s) \cap late) = 0
      BY <2>1, FS_EmptySet
    <3>3. QED
      BY <2>1, <2>2, <3>1, <3>2, OverrunSets, FS_CardinalityType
  <2>5. Cardinality(others) \in Nat /\ Cardinality(late) \in Nat
    BY <2>2, FS_CardinalityType
  <2>6. Cardinality(Own(s)) + Cardinality(Openers(s)) < PerUser + Cardinality(Mates(s))
    BY DEF Overrun
  <2>7. Cardinality(Own(s)) + Cardinality(begins) < PerUser + Cardinality(all)
    BY <2>2, <2>3, <2>4, <2>5, <2>6, OverrunSets, LimitAssumption
  <2>8. QED
    BY <2>7 DEF Own, begins, all
<1>3. QED
  BY <1>1, <1>2, OverrunInit, ShapeHolds, PTL DEF Spec
=============================================================================
