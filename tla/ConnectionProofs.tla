-------------------------- MODULE ConnectionProofs --------------------------
(***************************************************************************)
(* What a saved connection and its pools promise, for every number of      *)
(* requests, callers, pools, nodes and edits.                              *)
(*                                                                         *)
(* Pools (OvertakenIsNotStored, NoneLeaked, SharedIsWanted): the entry     *)
(* opening[v] is what a setup has to show for itself: as long as it names  *)
(* the setup nothing overtook it and there is no pool for its settings,    *)
(* and a setup that it does not name was overtaken.  A pool that its       *)
(* opener has not stored yet is nobody else's, and what an Invalidate took *)
(* out of the map is kept by the request that closes it.                   *)
(*                                                                         *)
(* Saves (SecretsAreThere, NoSecretIsLeft): what an update replaced stays  *)
(* in the store, out of every other request's reach, until the update can  *)
(* no longer put the old row back.  Nodes (OneRefresh, SentWhereVerified): *)
(* a lock that is not the connection's is held only when the row is gone   *)
(* for good, and a healthy node was asked at its own address.              *)
(***************************************************************************)
EXTENDS PoolManager, Connections, TLAPS

Stage == {"idle", "row", "database", "wait", "setup", "store", "use", "discard",
          "edit", "delete", "invalidate", "closing", "answered", "failed", "refused"}

PoolTypeOK ==
    /\ row \in Version \cup {Gone}
    /\ pools \in [Version -> Pool \cup {None}]
    /\ opening \in [Version -> Req \cup {None}]
    /\ open \subseteq Pool
    /\ pc \in [Req -> Stage]
    /\ key \in [Req -> Version \cup {None}]
    /\ pool \in [Req -> Pool \cup {None}]
    /\ opener \in [Req -> Req \cup {None}]
    /\ doomed \in [Req -> SUBSET Pool]
    /\ overtaken \subseteq Req \cup Pool

\* What a request holds at each stage.
Stages ==
    \A r \in Req :
        /\ pc[r] \in {"database", "wait", "setup", "store"} => key[r] \in Version
        /\ pc[r] \in {"idle", "row", "database", "setup"} => pool[r] = None
        /\ pc[r] \in {"idle", "row", "database"} => r \notin overtaken
        /\ pc[r] = "discard" => pool[r] # None
        /\ pc[r] # "closing" => doomed[r] = {}
        /\ opener[r] # None => pc[r] = "wait"

\* opening names the setups that nothing overtook, and no others.
Pending ==
    /\ \A v \in Version : opening[v] # None =>
          /\ pools[v] = None
          /\ opening[v] \in InSetup /\ key[opening[v]] = v /\ opening[v] \notin overtaken
    /\ \A r \in InSetup : r \notin overtaken => opening[key[r]] = r

\* A pool that is not stored yet is its opener's alone.
Unshared ==
    \A r \in Req : pc[r] \in {"store", "discard"} /\ pool[r] # None =>
        /\ \A v \in Version : pools[v] # pool[r]
        /\ \A q \in Req : q # r => pool[q] # pool[r]

\* A pool is overtaken with its setup.
Marked == \A r \in Req : pc[r] = "store" /\ pool[r] \in overtaken => r \in overtaken

PoolInv == PoolTypeOK /\ Stages /\ Pending /\ Unshared /\ Marked /\ OvertakenIsNotStored /\ NoneLeaked

-----------------------------------------------------------------------------
\* A manager that has opened nothing (NewManager).
LEMMA InitInv == Init => PoolInv
  <1> SUFFICES ASSUME Init PROVE PoolInv
    OBVIOUS
  <1> USE PoolAssumption
  <1>1. PoolTypeOK
    BY DEF Init, PoolTypeOK, Stage, Version
  <1>2. Stages /\ Marked
    BY DEF Init, Stages, Marked
  <1>3. Pending /\ Unshared
    BY DEF Init, Pending, Unshared, InSetup
  <1>4. OvertakenIsNotStored /\ NoneLeaked
    BY DEF Init, OvertakenIsNotStored, NoneLeaked
  <1> QED
    BY <1>1, <1>2, <1>3, <1>4 DEF PoolInv

\* A request reads the settings (authorizedConnection).
LEMMA ReadRowInv ==
    ASSUME PoolInv, NEW r \in Req, ReadRow(r)
    PROVE  PoolInv'
  <1> USE PoolAssumption DEF PoolInv, PoolTypeOK, ReadRow, Goto, held, map, call
  <1>1. PoolTypeOK'
    BY DEF Stage
  <1>2. Stages'
    BY DEF Stages
  <1>3. Pending'
    BY DEF Pending, InSetup
  <1>4. Unshared'
    BY DEF Unshared
  <1>5. Marked'
    BY DEF Marked
  <1>6. OvertakenIsNotStored'
    BY DEF OvertakenIsNotStored
  <1>7. NoneLeaked'
    BY DEF NoneLeaked
  <1> QED
    BY <1>1, <1>2, <1>3, <1>4, <1>5, <1>6, <1>7 DEF PoolInv

\* A closed manager refuses (Manager.database).
LEMMA RefuseInv ==
    ASSUME PoolInv, NEW r \in Req, Refuse(r)
    PROVE  PoolInv'
  <1> USE PoolAssumption DEF PoolInv, PoolTypeOK, Refuse, Goto, held, map, call
  <1>1. PoolTypeOK'
    BY DEF Stage
  <1>2. Stages'
    BY DEF Stages
  <1>3. Pending'
    BY DEF Pending, InSetup
  <1>4. Unshared'
    BY DEF Unshared
  <1>5. Marked'
    BY DEF Marked
  <1>6. OvertakenIsNotStored'
    BY DEF OvertakenIsNotStored
  <1>7. NoneLeaked'
    BY DEF NoneLeaked
  <1> QED
    BY <1>1, <1>2, <1>3, <1>4, <1>5, <1>6, <1>7 DEF PoolInv

\* A request shares a pool (Manager.database).
LEMMA ShareInv ==
    ASSUME PoolInv, NEW r \in Req, Share(r)
    PROVE  PoolInv'
  <1> USE PoolAssumption DEF PoolInv, PoolTypeOK, Share, Goto, held, map, call
  <1>1. PoolTypeOK'
    BY DEF Stage, Stages
  <1>2. Stages'
    BY DEF Stages
  <1>3. Pending'
    BY DEF Pending, InSetup
  <1>4. Unshared'
    BY DEF Unshared, Stages
  <1>5. Marked'
    BY DEF Marked
  <1>6. OvertakenIsNotStored'
    BY DEF OvertakenIsNotStored
  <1>7. NoneLeaked'
    BY DEF NoneLeaked
  <1> QED
    BY <1>1, <1>2, <1>3, <1>4, <1>5, <1>6, <1>7 DEF PoolInv

\* A request waits for a setup (Manager.database).
LEMMA JoinSetupInv ==
    ASSUME PoolInv, NEW r \in Req, JoinSetup(r)
    PROVE  PoolInv'
  <1> USE PoolAssumption DEF PoolInv, PoolTypeOK, JoinSetup, Goto, held, map, call, Alone
  <1>1. PoolTypeOK'
    BY DEF Stage, Stages
  <1>2. Stages'
    BY DEF Stages
  <1>3. Pending'
    BY DEF Pending, InSetup
  <1>4. Unshared'
    BY DEF Unshared
  <1>5. Marked'
    BY DEF Marked
  <1>6. OvertakenIsNotStored'
    BY DEF OvertakenIsNotStored
  <1>7. NoneLeaked'
    BY DEF NoneLeaked
  <1> QED
    BY <1>1, <1>2, <1>3, <1>4, <1>5, <1>6, <1>7 DEF PoolInv

\* A request begins a setup (Manager.database).
LEMMA BeginSetupInv ==
    ASSUME PoolInv, NEW r \in Req, BeginSetup(r)
    PROVE  PoolInv'
  <1> USE PoolAssumption DEF PoolInv, PoolTypeOK, BeginSetup, Goto, held, map, call, Alone
  <1>1. PoolTypeOK'
    BY DEF Stage
  <1>2. Stages'
    BY DEF Stages
  <1>3. Pending'
    BY DEF Pending, Stages, InSetup
  <1>4. Unshared'
    BY DEF Unshared
  <1>5. Marked'
    BY DEF Marked
  <1>6. OvertakenIsNotStored'
    BY DEF OvertakenIsNotStored
  <1>7. NoneLeaked'
    BY DEF NoneLeaked
  <1> QED
    BY <1>1, <1>2, <1>3, <1>4, <1>5, <1>6, <1>7 DEF PoolInv

\* A pool is opened, or not (openPool).
LEMMA SetupInv ==
    ASSUME PoolInv, NEW r \in Req, Setup(r)
    PROVE  PoolInv'
  <1> USE PoolAssumption DEF PoolInv, PoolTypeOK, Setup, Spare, Goto, held, map, call
  <1>1. PoolTypeOK'
    BY DEF Stage
  <1>2. Stages'
    BY DEF Stages
  <1>3. Pending'
    BY DEF Pending, InSetup
  <1>4. Unshared'
    BY DEF Unshared, Stages
  <1>5. Marked'
    BY DEF Marked, Stages
  <1>6. OvertakenIsNotStored'
    BY DEF OvertakenIsNotStored
  <1>7. NoneLeaked'
    BY DEF NoneLeaked
  <1> QED
    BY <1>1, <1>2, <1>3, <1>4, <1>5, <1>6, <1>7 DEF PoolInv

\* A setup ends (Manager.database).
LEMMA StoreInv ==
    ASSUME PoolInv, NEW r \in Req, Store(r)
    PROVE  PoolInv'
  <1> USE PoolAssumption DEF PoolInv, PoolTypeOK, Store, Succeeds, StillWanted, Given, Waiters, held, map, call
  <1>1. PoolTypeOK'
    BY DEF Stage
  <1>2. Stages'
    BY DEF Stages
  <1>3. Pending'
    BY DEF Pending, Stages, InSetup
  <1>4. Unshared'
    BY DEF Unshared
  <1>5. Marked'
    BY DEF Marked
  <1>6. OvertakenIsNotStored'
    BY DEF OvertakenIsNotStored, Pending, Marked
  <1>7. NoneLeaked'
    BY DEF NoneLeaked, Stages, Pending
  <1> QED
    BY <1>1, <1>2, <1>3, <1>4, <1>5, <1>6, <1>7 DEF PoolInv

\* A pool that is not wanted any more is closed (Manager.database).
LEMMA DiscardInv ==
    ASSUME PoolInv, NEW r \in Req, Discard(r)
    PROVE  PoolInv'
  <1> USE PoolAssumption DEF PoolInv, PoolTypeOK, Discard, ClosedBy, Goto, held, map, call
  <1>1. PoolTypeOK'
    BY DEF Stage
  <1>2. Stages'
    BY DEF Stages
  <1>3. Pending'
    BY DEF Pending, InSetup
  <1>4. Unshared'
    BY DEF Unshared
  <1>5. Marked'
    BY DEF Marked
  <1>6. OvertakenIsNotStored'
    BY DEF OvertakenIsNotStored
  <1>7. NoneLeaked'
    BY DEF NoneLeaked
  <1> QED
    BY <1>1, <1>2, <1>3, <1>4, <1>5, <1>6, <1>7 DEF PoolInv

\* A statement runs (Manager.Execute).
LEMMA UseInv ==
    ASSUME PoolInv, NEW r \in Req, Use(r)
    PROVE  PoolInv'
  <1> USE PoolAssumption DEF PoolInv, PoolTypeOK, Use, Goto, held, map, call
  <1>1. PoolTypeOK'
    BY DEF Stage
  <1>2. Stages'
    BY DEF Stages
  <1>3. Pending'
    BY DEF Pending, InSetup
  <1>4. Unshared'
    BY DEF Unshared
  <1>5. Marked'
    BY DEF Marked
  <1>6. OvertakenIsNotStored'
    BY DEF OvertakenIsNotStored
  <1>7. NoneLeaked'
    BY DEF NoneLeaked
  <1> QED
    BY <1>1, <1>2, <1>3, <1>4, <1>5, <1>6, <1>7 DEF PoolInv

\* The settings are edited (updateConnection).
LEMMA EditInv ==
    ASSUME PoolInv, NEW r \in Req, Edit(r)
    PROVE  PoolInv'
  <1> USE PoolAssumption DEF PoolInv, PoolTypeOK, Edit, Goto, held, map, call
  <1>1. PoolTypeOK'
    BY DEF Stage
  <1>2. Stages'
    BY DEF Stages
  <1>3. Pending'
    BY DEF Pending, InSetup
  <1>4. Unshared'
    BY DEF Unshared
  <1>5. Marked'
    BY DEF Marked
  <1>6. OvertakenIsNotStored'
    BY DEF OvertakenIsNotStored
  <1>7. NoneLeaked'
    BY DEF NoneLeaked
  <1> QED
    BY <1>1, <1>2, <1>3, <1>4, <1>5, <1>6, <1>7 DEF PoolInv

\* The connection is deleted (deleteConnection).
LEMMA DeleteInv ==
    ASSUME PoolInv, NEW r \in Req, Delete(r)
    PROVE  PoolInv'
  <1> USE PoolAssumption DEF PoolInv, PoolTypeOK, Delete, Goto, held, map, call
  <1>1. PoolTypeOK'
    BY DEF Stage
  <1>2. Stages'
    BY DEF Stages
  <1>3. Pending'
    BY DEF Pending, InSetup
  <1>4. Unshared'
    BY DEF Unshared
  <1>5. Marked'
    BY DEF Marked
  <1>6. OvertakenIsNotStored'
    BY DEF OvertakenIsNotStored
  <1>7. NoneLeaked'
    BY DEF NoneLeaked
  <1> QED
    BY <1>1, <1>2, <1>3, <1>4, <1>5, <1>6, <1>7 DEF PoolInv

\* All pools are taken out of the map (Manager.Invalidate, Manager.Close).
LEMMA InvalidateInv ==
    ASSUME PoolInv, NEW r \in Req, Invalidate(r)
    PROVE  PoolInv'
  <1> USE PoolAssumption DEF PoolInv, PoolTypeOK, Invalidate, Goto, held, map, call
  <1>1. PoolTypeOK'
    <2>1. {pools[v] : v \in Version} \ {None} \subseteq Pool /\ InSetup \subseteq Req
      BY DEF InSetup
    <2>2. doomed' \in [Req -> SUBSET Pool] /\ overtaken' \subseteq Req \cup Pool
      BY <2>1
    <2>3. pc' \in [Req -> Stage]
      BY DEF Stage
    <2> QED
      BY <2>2, <2>3
  <1>2. Stages'
    BY DEF Stages, InSetup
  <1>3. Pending'
    BY DEF Pending, InSetup
  <1>4. Unshared'
    BY DEF Unshared
  <1>5. Marked'
    BY DEF Marked, InSetup
  <1>6. OvertakenIsNotStored'
    BY DEF OvertakenIsNotStored
  <1>7. NoneLeaked'
    BY DEF NoneLeaked, Stages
  <1> QED
    BY <1>1, <1>2, <1>3, <1>4, <1>5, <1>6, <1>7 DEF PoolInv

\* A pool that was taken out is closed (Manager.Invalidate).
LEMMA ClosePoolInv ==
    ASSUME PoolInv, NEW r \in Req, NEW p \in Pool, ClosePool(r, p)
    PROVE  PoolInv'
  <1> USE PoolAssumption DEF PoolInv, PoolTypeOK, ClosePool, Goto, held, map, call
  <1>1. PoolTypeOK'
    OBVIOUS
  <1>2. Stages'
    BY DEF Stages
  <1>3. Pending'
    BY DEF Pending, InSetup
  <1>4. Unshared'
    BY DEF Unshared
  <1>5. Marked'
    BY DEF Marked
  <1>6. OvertakenIsNotStored'
    BY DEF OvertakenIsNotStored
  <1>7. NoneLeaked'
    BY DEF NoneLeaked
  <1> QED
    BY <1>1, <1>2, <1>3, <1>4, <1>5, <1>6, <1>7 DEF PoolInv

\* All that were taken out are closed (Manager.Invalidate).
LEMMA InvalidatedInv ==
    ASSUME PoolInv, NEW r \in Req, Invalidated(r)
    PROVE  PoolInv'
  <1> USE PoolAssumption DEF PoolInv, PoolTypeOK, Invalidated, Goto, held, map, call
  <1>1. PoolTypeOK'
    BY DEF Stage
  <1>2. Stages'
    BY DEF Stages
  <1>3. Pending'
    BY DEF Pending, InSetup
  <1>4. Unshared'
    BY DEF Unshared
  <1>5. Marked'
    BY DEF Marked
  <1>6. OvertakenIsNotStored'
    BY DEF OvertakenIsNotStored
  <1>7. NoneLeaked'
    BY DEF NoneLeaked
  <1> QED
    BY <1>1, <1>2, <1>3, <1>4, <1>5, <1>6, <1>7 DEF PoolInv

\* A request ends.
LEMMA ReturnInv ==
    ASSUME PoolInv, NEW r \in Req, Return(r)
    PROVE  PoolInv'
  <1> USE PoolAssumption DEF PoolInv, PoolTypeOK, Return, Goto, held, map, call
  <1>1. PoolTypeOK'
    BY DEF Stage
  <1>2. Stages'
    BY DEF Stages
  <1>3. Pending'
    BY DEF Pending, InSetup
  <1>4. Unshared'
    BY DEF Unshared
  <1>5. Marked'
    BY DEF Marked
  <1>6. OvertakenIsNotStored'
    BY DEF OvertakenIsNotStored
  <1>7. NoneLeaked'
    BY DEF NoneLeaked
  <1> QED
    BY <1>1, <1>2, <1>3, <1>4, <1>5, <1>6, <1>7 DEF PoolInv

\* A request arrives.
LEMMA ArriveInv ==
    ASSUME PoolInv, NEW r \in Req, NEW o \in AllCalls, Arrive(r, o)
    PROVE  PoolInv'
  <1> USE PoolAssumption DEF PoolInv, PoolTypeOK, Arrive, Starts, Goto, held, map, call
  <1>1. PoolTypeOK'
    BY DEF Stage
  <1>2. Stages'
    BY DEF Stages
  <1>3. Pending'
    BY DEF Pending, InSetup
  <1>4. Unshared'
    BY DEF Unshared
  <1>5. Marked'
    BY DEF Marked
  <1>6. OvertakenIsNotStored'
    BY DEF OvertakenIsNotStored
  <1>7. NoneLeaked'
    BY DEF NoneLeaked
  <1> QED
    BY <1>1, <1>2, <1>3, <1>4, <1>5, <1>6, <1>7 DEF PoolInv

-----------------------------------------------------------------------------
\* A step of one request.
LEMMA ProceedInv ==
    ASSUME PoolInv, NEW r \in Req, Proceed(r)
    PROVE  PoolInv'
  <1>1. CASE Connect(r)
    BY <1>1, ReadRowInv, RefuseInv, ShareInv, JoinSetupInv, BeginSetupInv, SetupInv, StoreInv, DiscardInv, UseInv
       DEF Connect
  <1>2. CASE Drop(r)
    BY <1>2, InvalidateInv, InvalidatedInv, ClosePoolInv DEF Drop
  <1> QED
    BY <1>1, <1>2, EditInv, DeleteInv, ReturnInv DEF Proceed

\* Nothing that stands still changes.
LEMMA StutterInv ==
    ASSUME PoolInv, UNCHANGED vars
    PROVE  PoolInv'
  BY DEF PoolInv, PoolTypeOK, Stages, Pending, Unshared, Marked, OvertakenIsNotStored, NoneLeaked, InSetup,
         vars, map, call, held

\* Every step keeps the invariant.
LEMMA StepInv == PoolInv /\ [Next]_vars => PoolInv'
  <1> SUFFICES ASSUME PoolInv, [Next]_vars PROVE PoolInv'
    OBVIOUS
  <1>1. ASSUME NEW r \in Req, Proceed(r) PROVE PoolInv'
    BY <1>1, ProceedInv
  <1>2. ASSUME NEW r \in Req, NEW o \in AllCalls, Arrive(r, o) PROVE PoolInv'
    BY <1>2, ArriveInv
  <1>3. CASE Stopped \/ UNCHANGED vars
    BY <1>3, StutterInv DEF Stopped
  <1> QED
    BY <1>1, <1>2, <1>3 DEF Next

\* Settings that have a pool are not set up, one of two setups for one settings
\* is overtaken, and nobody uses a pool that its opener closes.
LEMMA InvShares == PoolInv => SharedIsWanted
  <1> SUFFICES ASSUME PoolInv PROVE SharedIsWanted
    OBVIOUS
  <1>1. \A v \in Version : opening[v] # None => pools[v] = None
    BY DEF PoolInv, Pending
  <1>2. \A r, q \in InSetup : key[r] = key[q] /\ r # q => r \in overtaken \/ q \in overtaken
    BY DEF PoolInv, Pending
  <1>3. \A r, q \in Req : pc[r] = "discard" /\ pc[q] = "use" => pool[r] # pool[q]
    BY DEF PoolInv, Stages, Unshared
  <1> QED
    BY <1>1, <1>2, <1>3 DEF SharedIsWanted

-----------------------------------------------------------------------------
\* PoolInv is an invariant of Manager.database, Invalidate and Close.
LEMMA AlwaysInv == Spec => []PoolInv
  BY InitInv, StepInv, PTL DEF Spec

\* A pool whose setup was overtaken by an Invalidate or Close is never in the
\* map ("database connection was invalidated during setup").
THEOREM NeverStored == Spec => []OvertakenIsNotStored
  <1>1. PoolInv => OvertakenIsNotStored
    BY DEF PoolInv
  <1> QED
    BY <1>1, AlwaysInv, PTL

\* Every open pool is in the map or with the request that will store or close
\* it, whatever edits, deletions and the shutdown overlap its setup.
THEOREM NeverLeaked == Spec => []NoneLeaked
  <1>1. PoolInv => NoneLeaked
    BY DEF PoolInv
  <1> QED
    BY <1>1, AlwaysInv, PTL

\* Pools are shared: there is one wanted setup for a settings and none beside a
\* pool, and nobody is given a pool that is about to be closed.
THEOREM WantedIsShared == Spec => []SharedIsWanted
  BY InvShares, AlwaysInv, PTL

-----------------------------------------------------------------------------
(* The types of a saved connection *)

Row     == [addr: Addr, secret: [Slot -> (Request \X Slot) \cup {Absent}]]
NodeId  == Request \X ({1} \cup 1..MaxNodes)
Node    == [addr: Addr, role: {"primary", "secondary", "unknown"}, health: {"healthy", "unreachable", "unknown"},
            fresh: BOOLEAN, asked: Addr \cup {Absent}]
List    == UNION {[ids -> Node] : ids \in SUBSET NodeId}
Change  == [kind: {"none", "create", "update", "delete"},
            pc: {"new", "make", "list", "nodes", "undo", "delete", "drop", "forget", "done"},
            read: Row \cup {Absent}, write: Row \cup {Absent}, list: List \cup {Absent}, drop: SUBSET (Request \X Slot)]
Want    == {"primary", "secondary", "either", Absent}
Sent    == [node: NodeId, addr: Addr, asked: Addr \cup {Absent}, role: {"primary", "secondary", "unknown"}]
Seek    == [pc: {"idle", "lock", "wait", "probe", "reread"}, want: Want, lock: Nat, list: List, sent: Sent \cup {Absent}]

\* Where a request may stand, and what it then holds.
Stands(e) ==
    /\ saving[e].pc \in {"make", "list", "nodes", "undo"} => saving[e].write \in Row /\ saving[e].kind \in {"create", "update"}
    /\ saving[e].pc = "nodes" => saving[e].list \in List
    /\ saving[e].pc = "delete" => saving[e].kind = "delete"
    /\ saving[e].pc # "drop" => saving[e].drop = {}
    /\ saving[e].pc = "new" => saving[e] = Idle

ConnectionsTypeOK ==
    /\ saved \in Row \cup {Absent} /\ secrets \subseteq Request \X Slot /\ nodes \in List
    /\ lock \in Nat /\ locks \in Nat
    /\ saving \in [Request -> Change] /\ routing \in [Caller -> Seek]
    /\ fails \in Nat /\ stale \in BOOLEAN /\ torn \in BOOLEAN /\ left \in BOOLEAN /\ misled \subseteq NodeId
    /\ \A e \in Request : Stands(e)

LEMMA ListFacts == ASSUME NEW list \in List PROVE DOMAIN list \subseteq NodeId /\ \A n \in DOMAIN list : list[n] \in Node
<1>1. PICK ids \in SUBSET NodeId : list \in [ids -> Node]
  BY DEF List
<1> QED BY <1>1

LEMMA IsList == ASSUME NEW ids \in SUBSET NodeId, NEW f \in [ids -> Node] PROVE f \in List
BY DEF List

LEMMA NoNodesIsList == NoNodes \in List
<1>1. NoNodes \in [{} -> Node]
  BY DEF NoNodes
<1> QED BY <1>1, IsList

LEMMA NewNode ==
    /\ \A addr \in Addr : Unknown(addr) \in Node
    /\ \A node : \A addr \in Addr : Moved(node, addr) \in Node
BY DEF Unknown, Moved, Node

LEMMA GivenAreLists == ASSUME ConnectionsTypeOK, NEW e \in Request, NEW list \in GivenLists(e) PROVE list \in List
<1> DEFINE ids == DOMAIN nodes \cup ({e} \X (1..MaxNodes))
<1>1. ids \subseteq NodeId
  <2>1. DOMAIN nodes \subseteq NodeId
    BY ListFacts DEF ConnectionsTypeOK
  <2>2. {e} \X (1..MaxNodes) \subseteq NodeId
    BY DEF NodeId
  <2> QED BY <2>1, <2>2
<1> HIDE DEF ids
<1>2. PICK at \in UNION {[some -> Addr] : some \in SUBSET ids \ {{}}} : list = [n \in DOMAIN at |-> Unknown(at[n])]
  BY DEF GivenLists, ids
<1>3. PICK some \in SUBSET ids : at \in [some -> Addr]
  BY <1>2
<1>4. list \in [some -> Node]
  BY <1>2, <1>3, NewNode
<1> QED BY <1>1, <1>3, <1>4, IsList

\* What a request that begins is.
LEMMA BeginTypes ==
    ASSUME ConnectionsTypeOK, NEW e \in Request, NEW kind, NEW to, NEW write \in Row \cup {Absent}, NEW list \in List \cup {Absent},
           Begin(e, kind, to, write, list),
           \/ kind \in {"create", "update"} /\ to = "make" /\ write \in Row
           \/ kind = "delete" /\ to = "delete"
    PROVE  ConnectionsTypeOK'
<1> DEFINE new == [kind |-> kind, pc |-> to, read |-> saved, write |-> write, list |-> list, drop |-> {}]
<1>1. new \in Change
  BY DEF Change, ConnectionsTypeOK
<1>2. saving' \in [Request -> Change] /\ saving'[e] = new /\ \A f \in Request \ {e} : saving'[f] = saving[f]
  BY <1>1 DEF Begin, ConnectionsTypeOK
<1>3. ASSUME NEW f \in Request PROVE Stands(f)'
  <2>1. CASE f = e
    BY <1>2, <2>1 DEF Stands
  <2>2. CASE f # e
    BY <1>2, <2>2 DEF Stands, ConnectionsTypeOK
  <2> QED BY <2>1, <2>2
<1>4. left' \in BOOLEAN
  BY DEF Begin, ConnectionsTypeOK
<1> QED BY <1>2, <1>3, <1>4 DEF Begin, ConnectionsTypeOK

\* What a request that goes on is: the others stay.
LEMMA GoOnIs ==
    ASSUME ConnectionsTypeOK, NEW e \in Request, NEW to, NEW drop, GoOn(e, to, drop)
    PROVE  /\ DOMAIN saving' = Request
           /\ \A f \in Request \ {e} : saving'[f] = saving[f]
           /\ saving'[e].pc = to /\ saving'[e].kind = saving[e].kind
           /\ to # "done" => /\ saving'[e].read = saving[e].read /\ saving'[e].write = saving[e].write
                             /\ saving'[e].list = saving[e].list /\ saving'[e].drop = drop
           /\ to = "done" => /\ saving'[e].read = Absent /\ saving'[e].write = Absent
                             /\ saving'[e].list = Absent /\ saving'[e].drop = {}
           /\ to \in {"list", "nodes", "undo", "drop", "forget", "done"} /\ drop \subseteq Request \X Slot => saving' \in [Request -> Change]
<1>1. saving[e] \in Change /\ saving \in [Request -> Change]
  BY DEF ConnectionsTypeOK
<1>2. saving' = [saving EXCEPT ![e] = Onto(e, to, drop)]
  BY DEF GoOn
<1>3. saving'[e] = Onto(e, to, drop) /\ \A f \in Request \ {e} : saving'[f] = saving[f]
  BY <1>1, <1>2
<1>4. CASE to = "done"
  <2>1. Onto(e, to, drop) = [kind |-> saving[e].kind, pc |-> "done", read |-> Absent, write |-> Absent, list |-> Absent, drop |-> {}]
    BY <1>4 DEF Onto, Idle
  <2> QED BY <1>1, <1>2, <1>3, <1>4, <2>1 DEF Change
<1>5. CASE to # "done"
  <2>1. Onto(e, to, drop) = [kind |-> saving[e].kind, pc |-> to, read |-> saving[e].read, write |-> saving[e].write,
                           list |-> saving[e].list, drop |-> drop]
    BY <1>1, <1>5 DEF Onto, Change
  <2> QED BY <1>1, <1>2, <1>3, <1>5, <2>1 DEF Change
<1> QED BY <1>4, <1>5

LEMMA DeleteSecretsIs ==
    ASSUME ConnectionsTypeOK, NEW e \in Request, NEW ids \in SUBSET (Request \X Slot), DeleteSecrets(e, ids)
    PROVE  /\ saving' \in [Request -> Change]
           /\ \A f \in Request \ {e} : saving'[f] = saving[f]
           /\ saving'[e].pc \in {"drop", "done"} /\ saving'[e].kind = saving[e].kind /\ saving'[e].drop = ids
           /\ saving'[e].read \in {saving[e].read, Absent} /\ saving'[e].write \in {saving[e].write, Absent}
           /\ saving'[e].list \in {saving[e].list, Absent}
           /\ saving'[e].pc = "done" => saving'[e].read = Absent /\ saving'[e].write = Absent /\ ids = {}
           /\ saving'[e].pc = "drop" => saving'[e].write = saving[e].write /\ saving'[e].read = saving[e].read
<1>1. CASE ids = {}
  <2>1. GoOn(e, "done", {})
    BY <1>1 DEF DeleteSecrets
  <2> QED BY <1>1, <2>1, GoOnIs
<1>2. CASE ids # {}
  <2>1. GoOn(e, "drop", ids)
    BY <1>2 DEF DeleteSecrets
  <2> QED BY <1>2, <2>1, GoOnIs
<1> QED BY <1>1, <1>2

LEMMA MadeTypes ==
    ASSUME ConnectionsTypeOK, NEW e \in Request
    PROVE  /\ Made(e) \subseteq Request \X Slot /\ Replaced(e) \subseteq Request \X Slot /\ Named(saved) \subseteq Request \X Slot
           /\ Named(saving[e].read) \subseteq Request \X Slot /\ Named(saving[e].write) \subseteq Request \X Slot
<1>1. ASSUME NEW r \in Row \cup {Absent} PROVE Named(r) \subseteq Request \X Slot
  <2>1. CASE r = Absent
    BY <2>1 DEF Named
  <2>2. CASE r # Absent
    BY <2>2 DEF Named, Row
  <2> QED BY <2>1, <2>2
<1>2. saving[e].read \in Row \cup {Absent} /\ saving[e].write \in Row \cup {Absent} /\ saved \in Row \cup {Absent}
  BY DEF ConnectionsTypeOK, Change
<1> QED BY <1>1, <1>2 DEF Made, Replaced

LEMMA OthersStand ==
    ASSUME ConnectionsTypeOK, NEW e \in Request, \A f \in Request \ {e} : saving'[f] = saving[f], Stands(e)'
    PROVE  \A f \in Request : Stands(f)'
<1> SUFFICES ASSUME NEW f \in Request, f # e PROVE Stands(f)'
  OBVIOUS
<1>1. Stands(f) /\ saving'[f] = saving[f]
  BY DEF ConnectionsTypeOK
<1> QED BY <1>1 DEF Stands

LEMMA CreateTypes == ASSUME ConnectionsTypeOK, NEW e \in Request, CreateConnection(e) PROVE ConnectionsTypeOK'
<1>1. PICK addr \in Addr, asked \in SUBSET Optional, list \in GivenLists(e) :
        Begin(e, "create", "make",
              [addr |-> addr, secret |-> [s \in Slot |-> IF s \in asked \cup {"password"} THEN <<e, s>> ELSE Absent]], list)
  BY DEF CreateConnection
<1>2. list \in List
  BY GivenAreLists
<1>3. [addr |-> addr, secret |-> [s \in Slot |-> IF s \in asked \cup {"password"} THEN <<e, s>> ELSE Absent]] \in Row
  BY DEF Row
<1> QED BY <1>1, <1>2, <1>3, BeginTypes

\* What an update asks for: every secret it writes is one it read, or its own.
LEMMA UpdateAsks ==
    ASSUME ConnectionsTypeOK, NEW e \in Request, UpdateConnection(e)
    PROVE  \E write \in Row, list \in List \cup {Absent} :
              /\ Begin(e, "update", "make", write, list)
              /\ Named(write) \subseteq Named(saved) \cup ({e} \X Slot)
<1>1. PICK addr \in Addr, ask \in [Slot -> {"keep", "text", "empty"}], list \in GivenLists(e) \cup {Absent} :
        Begin(e, "update", "make",
              [addr |-> addr,
               secret |-> [s \in Slot |-> CASE ask[s] = "keep"  -> saved.secret[s]
                                            [] ask[s] = "text"  -> <<e, s>>
                                            [] ask[s] = "empty" -> Absent]], list)
  BY DEF UpdateConnection
<1> DEFINE secret == [s \in Slot |-> CASE ask[s] = "keep"  -> saved.secret[s]
                                       [] ask[s] = "text"  -> <<e, s>>
                                       [] ask[s] = "empty" -> Absent]
           write == [addr |-> addr, secret |-> secret]
<1>2. list \in List \cup {Absent}
  BY GivenAreLists
<1>3. saved \in Row /\ saved # Absent
  BY DEF UpdateConnection, ConnectionsTypeOK
<1>4. ASSUME NEW s \in Slot PROVE secret[s] \in {saved.secret[s], <<e, s>>, Absent}
  BY ask[s] \in {"keep", "text", "empty"}
<1>5. secret \in [Slot -> (Request \X Slot) \cup {Absent}]
  BY <1>3, <1>4 DEF Row
<1>6. write \in Row
  BY <1>5 DEF Row
<1>7. Named(write) \subseteq Named(saved) \cup ({e} \X Slot)
  <2> SUFFICES ASSUME NEW x \in Named(write) PROVE x \in Named(saved) \cup ({e} \X Slot)
    OBVIOUS
  <2>1. PICK s \in Slot : x = secret[s] /\ x # Absent
    BY DEF Named
  <2> QED BY <1>3, <1>4, <2>1 DEF Named
<1> QED BY <1>1, <1>2, <1>6, <1>7

LEMMA BeginDeleteTypes == ASSUME ConnectionsTypeOK, NEW e \in Request, DeleteConnection(e) PROVE ConnectionsTypeOK'
BY BeginTypes DEF DeleteConnection

LEMMA StoreSecretTypes == ASSUME ConnectionsTypeOK, NEW e \in Request, StoreSecret(e) PROVE ConnectionsTypeOK'
<1>1. PICK x \in Unmade(e) :
        \/ secrets' = secrets \cup {x} /\ UNCHANGED <<saving, fails>>
        \/ Fail /\ DeleteSecrets(e, Made(e) \cap secrets) /\ UNCHANGED secrets
  BY DEF StoreSecret
<1>2. x \in Request \X Slot
  BY MadeTypes DEF Unmade
<1>3. CASE secrets' = secrets \cup {x} /\ UNCHANGED <<saving, fails>>
  BY <1>2, <1>3 DEF StoreSecret, ConnectionsTypeOK, Stands
<1>4. CASE Fail /\ DeleteSecrets(e, Made(e) \cap secrets) /\ UNCHANGED secrets
  <2>1. Made(e) \cap secrets \in SUBSET (Request \X Slot)
    BY MadeTypes
  <2>2. Stands(e)' /\ saving' \in [Request -> Change] /\ \A f \in Request \ {e} : saving'[f] = saving[f]
    BY <1>4, <2>1, DeleteSecretsIs DEF Stands
  <2>3. \A f \in Request : Stands(f)'
    BY <2>2, OthersStand
  <2> QED BY <1>4, <2>2, <2>3 DEF StoreSecret, Fail, ConnectionsTypeOK
<1> QED BY <1>1, <1>3, <1>4

LEMMA WriteRowTypes == ASSUME ConnectionsTypeOK, NEW e \in Request, WriteRow(e) PROVE ConnectionsTypeOK'
<1>1. saving[e] \in Change /\ Stands(e) /\ saving[e].pc = "make"
  BY DEF WriteRow, ConnectionsTypeOK
<1>2. CASE /\ saved' = saving[e].write /\ stale' = (stale \/ saved # saving[e].read)
           /\ GoOn(e, IF saving[e].list = Absent THEN "list" ELSE "nodes", {}) /\ UNCHANGED fails
  <2>1. saved' \in Row
    BY <1>1, <1>2 DEF Stands
  <2>2. /\ saving' \in [Request -> Change] /\ \A f \in Request \ {e} : saving'[f] = saving[f]
        /\ saving'[e].pc = IF saving[e].list = Absent THEN "list" ELSE "nodes"
        /\ saving'[e].kind = saving[e].kind /\ saving'[e].write = saving[e].write /\ saving'[e].list = saving[e].list /\ saving'[e].drop = {}
    BY <1>1, <1>2, GoOnIs
  <2>3. Stands(e)'
    BY <1>1, <2>2 DEF Stands, Change
  <2>4. \A f \in Request : Stands(f)'
    BY <2>2, <2>3, OthersStand
  <2> QED BY <1>2, <2>1, <2>2, <2>4 DEF WriteRow, ConnectionsTypeOK
<1>3. CASE /\ IF saving[e].kind = "update" /\ saved = Absent THEN UNCHANGED fails ELSE Fail
           /\ DeleteSecrets(e, Made(e)) /\ UNCHANGED <<saved, stale>>
  <2>1. Stands(e)' /\ saving' \in [Request -> Change] /\ \A f \in Request \ {e} : saving'[f] = saving[f]
    BY <1>3, MadeTypes, DeleteSecretsIs DEF Stands
  <2>2. \A f \in Request : Stands(f)'
    BY <2>1, OthersStand
  <2>3. fails' \in Nat
    BY <1>3 DEF Fail, ConnectionsTypeOK
  <2> QED BY <1>3, <2>1, <2>2, <2>3 DEF WriteRow, ConnectionsTypeOK
<1> QED BY <1>2, <1>3 DEF WriteRow

LEMMA ListNodesTypes == ASSUME ConnectionsTypeOK, NEW e \in Request, ListNodes(e) PROVE ConnectionsTypeOK'
<1>1. saving[e] \in Change /\ Stands(e) /\ saving[e].pc = "list" /\ saving[e].write.addr \in Addr
  BY DEF ListNodes, ConnectionsTypeOK, Stands, Row
<1> DEFINE one == [n \in DOMAIN nodes |-> Moved(nodes[n], saving[e].write.addr)]
           new == [n \in {<<e, 1>>} |-> Unknown(saving[e].write.addr)]
<1>2. one \in List
  <2>1. DOMAIN nodes \subseteq NodeId
    BY ListFacts DEF ConnectionsTypeOK
  <2>2. one \in [DOMAIN nodes -> Node]
    BY <1>1, NewNode
  <2> QED BY <2>1, <2>2, IsList
<1>3. new \in List
  <2>1. {<<e, 1>>} \subseteq NodeId
    BY DEF NodeId
  <2>2. new \in [{<<e, 1>>} -> Node]
    BY <1>1, NewNode
  <2> QED BY <2>1, <2>2, IsList
<1>4. nodes \in List
  BY DEF ConnectionsTypeOK
<1>5. \E list \in List : saving' = [saving EXCEPT ![e].pc = "nodes", ![e].list = list]
  <2>1. CASE saving' = [saving EXCEPT ![e].pc = "nodes", ![e].list = new]
    BY <1>3, <2>1
  <2>2. CASE saving' = [saving EXCEPT ![e].pc = "nodes", ![e].list = CASE Cardinality(DOMAIN nodes) = 0 -> new
                                                                        [] Cardinality(DOMAIN nodes) = 1 -> one
                                                                        [] OTHER -> nodes]
    <3>1. (CASE Cardinality(DOMAIN nodes) = 0 -> new [] Cardinality(DOMAIN nodes) = 1 -> one [] OTHER -> nodes) \in List
      BY <1>2, <1>3, <1>4
    <3> QED BY <2>2, <3>1
  <2> QED BY <2>1, <2>2 DEF ListNodes
<1>6. PICK list \in List : saving' = [saving EXCEPT ![e].pc = "nodes", ![e].list = list]
  BY <1>5
<1>7. /\ saving' \in [Request -> Change] /\ \A f \in Request \ {e} : saving'[f] = saving[f]
      /\ saving'[e] = [saving[e] EXCEPT !.pc = "nodes", !.list = list]
  BY <1>1, <1>6 DEF ConnectionsTypeOK, Change
<1>8. Stands(e)'
  BY <1>1, <1>7 DEF Stands, Change
<1>9. \A f \in Request : Stands(f)'
  BY <1>7, <1>8, OthersStand
<1>10. fails' \in Nat
  BY DEF ListNodes, Fail, ConnectionsTypeOK
<1> QED BY <1>7, <1>9, <1>10 DEF ListNodes, ConnectionsTypeOK

LEMMA ReplaceNodesTypes == ASSUME ConnectionsTypeOK, NEW e \in Request, ReplaceNodes(e) PROVE ConnectionsTypeOK'
<1>1. saving[e] \in Change /\ Stands(e) /\ saving[e].pc = "nodes" /\ saving[e].list \in List
  BY DEF ReplaceNodes, ConnectionsTypeOK, Stands
<1>2. nodes' \in List /\ fails' \in Nat
  BY <1>1 DEF ReplaceNodes, Fail, ConnectionsTypeOK
<1>3. Stands(e)' /\ saving' \in [Request -> Change] /\ \A f \in Request \ {e} : saving'[f] = saving[f]
  <2>1. CASE DeleteSecrets(e, IF saving[e].kind = "update" THEN Replaced(e) ELSE {})
    <3>1. (IF saving[e].kind = "update" THEN Replaced(e) ELSE {}) \in SUBSET (Request \X Slot)
      BY MadeTypes
    <3> QED BY <2>1, <3>1, DeleteSecretsIs DEF Stands
  <2>2. CASE GoOn(e, "undo", {})
    BY <1>1, <2>2, GoOnIs DEF Stands
  <2> QED BY <2>1, <2>2 DEF ReplaceNodes
<1>4. \A f \in Request : Stands(f)'
  BY <1>3, OthersStand
<1> QED BY <1>2, <1>3, <1>4 DEF ReplaceNodes, ConnectionsTypeOK

LEMMA UndoTypes == ASSUME ConnectionsTypeOK, NEW e \in Request, Undo(e) PROVE ConnectionsTypeOK'
<1>1. Stands(e)' /\ saving' \in [Request -> Change] /\ \A f \in Request \ {e} : saving'[f] = saving[f]
  BY MadeTypes, DeleteSecretsIs DEF Undo, Stands
<1>2. \A f \in Request : Stands(f)'
  BY <1>1, OthersStand
<1>3. saving[e].read \in Row \cup {Absent}
  BY DEF ConnectionsTypeOK, Change
<1>4. saved' \in Row \cup {Absent} /\ nodes' \in List
  BY <1>3, NoNodesIsList DEF Undo, ConnectionsTypeOK
<1>5. fails' \in Nat
  BY DEF Undo, Fail, ConnectionsTypeOK
<1>6. stale' \in BOOLEAN /\ torn' \in BOOLEAN
  BY Zenon DEF Undo, ConnectionsTypeOK
<1> QED BY <1>1, <1>2, <1>4, <1>5, <1>6 DEF Undo, ConnectionsTypeOK

LEMMA DeleteRowTypes == ASSUME ConnectionsTypeOK, NEW e \in Request, DeleteRow(e) PROVE ConnectionsTypeOK'
<1>1. saving[e].pc = "delete" /\ Stands(e)
  BY DEF DeleteRow, ConnectionsTypeOK
<1>2. Stands(e)' /\ saving' \in [Request -> Change] /\ \A f \in Request \ {e} : saving'[f] = saving[f]
  <2>1. CASE GoOn(e, "drop", Named(saving[e].read))
    BY <2>1, MadeTypes, GoOnIs DEF Stands
  <2>2. CASE GoOn(e, "done", {})
    BY <2>2, GoOnIs DEF Stands
  <2> QED BY <2>1, <2>2 DEF DeleteRow
<1>3. \A f \in Request : Stands(f)'
  BY <1>2, OthersStand
<1>4. saved' \in Row \cup {Absent} /\ nodes' \in List /\ fails' \in Nat
  BY NoNodesIsList DEF DeleteRow, Fail, ConnectionsTypeOK
<1> QED BY <1>2, <1>3, <1>4 DEF DeleteRow, ConnectionsTypeOK

LEMMA DropSecretTypes == ASSUME ConnectionsTypeOK, NEW e \in Request, DropSecret(e) PROVE ConnectionsTypeOK'
<1>1. PICK x \in saving[e].drop :
        /\ LET rest == saving[e].drop \ {x}
           IN  GoOn(e, IF rest # {} THEN "drop" ELSE IF saving[e].kind = "delete" THEN "forget" ELSE "done", rest)
        /\ \/ secrets' = secrets \ {x} /\ UNCHANGED <<fails, left>>
           \/ Fail /\ left' = TRUE /\ UNCHANGED secrets
  BY DEF DropSecret
<1> DEFINE rest == saving[e].drop \ {x}
           to == IF rest # {} THEN "drop" ELSE IF saving[e].kind = "delete" THEN "forget" ELSE "done"
<1>2. rest \subseteq Request \X Slot
  BY DEF ConnectionsTypeOK, Change
<1>3. GoOn(e, to, rest) /\ to \in {"drop", "forget", "done"} /\ (to # "drop" => rest = {})
  BY <1>1
<1> HIDE DEF rest, to
<1>4. Stands(e)' /\ saving' \in [Request -> Change] /\ \A f \in Request \ {e} : saving'[f] = saving[f]
  <2>1. /\ saving' \in [Request -> Change] /\ \A f \in Request \ {e} : saving'[f] = saving[f]
        /\ saving'[e].pc = to /\ (to # "drop" => saving'[e].drop = {})
    BY <1>2, <1>3, GoOnIs
  <2> QED BY <1>3, <2>1 DEF Stands
<1>5. \A f \in Request : Stands(f)'
  BY <1>4, OthersStand
<1>6. \/ secrets' = secrets \ {x} /\ UNCHANGED <<fails, left>>
      \/ Fail /\ left' = TRUE /\ UNCHANGED secrets
  BY <1>1
<1>7. secrets' \subseteq Request \X Slot
  BY <1>6 DEF ConnectionsTypeOK
<1>8. fails' \in Nat
  BY <1>6 DEF Fail, ConnectionsTypeOK
<1>9. left' \in BOOLEAN
  BY <1>6 DEF ConnectionsTypeOK
<1> QED BY <1>4, <1>5, <1>7, <1>8, <1>9 DEF DropSecret, ConnectionsTypeOK

LEMMA ForgetLockTypes == ASSUME ConnectionsTypeOK, NEW e \in Request, ForgetLock(e) PROVE ConnectionsTypeOK'
<1>1. Stands(e)' /\ saving' \in [Request -> Change] /\ \A f \in Request \ {e} : saving'[f] = saving[f]
  BY GoOnIs DEF ForgetLock, Stands
<1>2. \A f \in Request : Stands(f)'
  BY <1>1, OthersStand
<1> QED BY <1>1, <1>2 DEF ForgetLock, ConnectionsTypeOK

LEMMA AgedIsList == ASSUME NEW list \in List \cup {Absent} PROVE Aged(list) \in List \cup {Absent} /\ (list \in List => Aged(list) \in List)
<1>1. CASE list = Absent
  BY <1>1 DEF Aged
<1>2. CASE list # Absent
  <2>1. DOMAIN list \subseteq NodeId /\ \A n \in DOMAIN list : list[n] \in Node
    BY <1>2, ListFacts
  <2>2. [n \in DOMAIN list |-> [list[n] EXCEPT !.fresh = FALSE]] \in [DOMAIN list -> Node]
    BY <2>1 DEF Node
  <2> QED BY <1>2, <2>1, <2>2, IsList DEF Aged
<1> QED BY <1>1, <1>2

\* Aging touches the lists only.
LEMMA AgeIs ==
    ASSUME ConnectionsTypeOK, Age
    PROVE  \A e \in Request : /\ saving'[e] \in Change /\ saving'[e].list = Aged(saving[e].list)
                              /\ saving'[e].kind = saving[e].kind /\ saving'[e].pc = saving[e].pc
                              /\ saving'[e].read = saving[e].read /\ saving'[e].write = saving[e].write
                              /\ saving'[e].drop = saving[e].drop
                              /\ (saving[e].list = Absent => saving'[e] = saving[e])
<1> SUFFICES ASSUME NEW e \in Request
             PROVE  /\ saving'[e] \in Change /\ saving'[e].list = Aged(saving[e].list)
                    /\ saving'[e].kind = saving[e].kind /\ saving'[e].pc = saving[e].pc
                    /\ saving'[e].read = saving[e].read /\ saving'[e].write = saving[e].write
                    /\ saving'[e].drop = saving[e].drop
                    /\ (saving[e].list = Absent => saving'[e] = saving[e])
  OBVIOUS
<1>1. saving[e] \in Change
  BY DEF ConnectionsTypeOK
<1>2. saving'[e] = [saving[e] EXCEPT !.list = Aged(saving[e].list)]
  BY DEF Age
<1>3. Aged(saving[e].list) \in List \cup {Absent} /\ (saving[e].list = Absent => Aged(saving[e].list) = Absent)
  BY <1>1, AgedIsList DEF Change, Aged
<1> QED BY <1>1, <1>2, <1>3 DEF Change

LEMMA AgeTypes == ASSUME ConnectionsTypeOK, Age PROVE ConnectionsTypeOK'
<1>1. saving' \in [Request -> Change]
  <2>1. saving' = [e \in Request |-> [saving[e] EXCEPT !.list = Aged(saving[e].list)]]
    BY DEF Age
  <2> QED BY <2>1, AgeIs
<1>2. ASSUME NEW e \in Request PROVE Stands(e)'
  <2>1. Stands(e) /\ saving[e] \in Change
    BY DEF ConnectionsTypeOK
  <2>2. saving[e].pc = "nodes" => saving'[e].list \in List
    BY <2>1, AgeIs, AgedIsList DEF Stands, Change
  <2>3. saving[e].pc = "new" => saving'[e] = Idle
    BY <2>1, AgeIs DEF Stands, Idle
  <2> QED BY <2>1, <2>2, <2>3, AgeIs DEF Stands
<1>3. nodes' \in List
  BY AgedIsList DEF Age, ConnectionsTypeOK
<1> QED BY <1>1, <1>2, <1>3 DEF Age, ConnectionsTypeOK

\* A crash ends what was begun and changes no row.
LEMMA CrashIs ==
    ASSUME ConnectionsTypeOK, Crash
    PROVE  /\ saving' \in [Request -> Change]
           /\ \A e \in Request :
                 /\ saving[e].pc \in {"new", "done"} => saving'[e] = saving[e]
                 /\ saving[e].pc \notin {"new", "done"} =>
                       saving'[e] = [kind |-> saving[e].kind, pc |-> "done", read |-> Absent, write |-> Absent, list |-> Absent, drop |-> {}]
<1>1. saving \in [Request -> Change]
  BY DEF ConnectionsTypeOK
<1>2. saving' = [e \in Request |-> IF Busy(e) THEN Onto(e, "done", {}) ELSE saving[e]]
  BY DEF Crash
<1>3. ASSUME NEW e \in Request
      PROVE  Onto(e, "done", {}) = [kind |-> saving[e].kind, pc |-> "done", read |-> Absent, write |-> Absent, list |-> Absent, drop |-> {}]
  BY DEF Onto, Idle
<1>4. \A e \in Request : Onto(e, "done", {}) \in Change
  BY <1>1, <1>3 DEF Change
<1> QED BY <1>1, <1>2, <1>3, <1>4 DEF Busy

LEMMA CrashTypes == ASSUME ConnectionsTypeOK, Crash PROVE ConnectionsTypeOK'
<1>1. ASSUME NEW e \in Request PROVE Stands(e)'
  <2>1. Stands(e) /\ saving[e] \in Change
    BY DEF ConnectionsTypeOK
  <2>2. CASE saving[e].pc \in {"new", "done"}
    BY <2>1, <2>2, CrashIs DEF Stands
  <2>3. CASE saving[e].pc \notin {"new", "done"}
    BY <2>3, CrashIs DEF Stands
  <2> QED BY <2>2, <2>3
<1>2. routing' \in [Caller -> Seek]
  BY NoNodesIsList DEF Crash, Seek, Want
<1>3. fails' \in Nat /\ left' \in BOOLEAN /\ lock' \in Nat
  BY DEF Crash, Fail, ConnectionsTypeOK
<1> QED BY <1>1, <1>2, <1>3, CrashIs DEF Crash, ConnectionsTypeOK

LEMMA UpdateTypes == ASSUME ConnectionsTypeOK, NEW e \in Request, UpdateConnection(e) PROVE ConnectionsTypeOK'
<1>1. PICK write \in Row : \E list \in List \cup {Absent} : Begin(e, "update", "make", write, list)
  BY UpdateAsks
<1>2. PICK list \in List \cup {Absent} : Begin(e, "update", "make", write, list)
  BY <1>1
<1> QED BY <1>2, BeginTypes

\* What a caller does touches no row and no request.
LEMMA CallersStand ==
    ASSUME ConnectionsTypeOK, UnchangedByCallers, nodes' \in List, lock' \in Nat, locks' \in Nat,
           routing' \in [Caller -> Seek], misled' \subseteq NodeId
    PROVE  ConnectionsTypeOK'
<1>1. \A e \in Request : Stands(e)'
  BY DEF UnchangedByCallers, ConnectionsTypeOK, Stands
<1> QED BY <1>1 DEF UnchangedByCallers, ConnectionsTypeOK

\* What a caller has sent: to a node that is fresh, or nothing.
LEMMA SendIs ==
    ASSUME ConnectionsTypeOK, NEW c \in Caller, NEW want \in Want, NEW to \in {"idle", "lock"}, Send(c, want, to)
    PROVE  /\ routing' \in [Caller -> Seek]
           /\ \A d \in Caller \ {c} : routing'[d] = routing[d]
           /\ routing'[c].pc \in {"idle", "lock"} /\ routing'[c].want = want /\ routing'[c].lock = 0
           /\ \/ routing'[c].sent = Absent
              \/ \E n \in FreshNode(want) :
                    routing'[c].sent = [node |-> n, addr |-> nodes[n].addr, asked |-> nodes[n].asked, role |-> nodes[n].role]
<1>1. routing \in [Caller -> Seek]
  BY DEF ConnectionsTypeOK
<1>2. CASE \E n \in FreshNode(want) :
             routing' = [routing EXCEPT ![c] = [pc |-> "idle", want |-> want, lock |-> 0, list |-> NoNodes,
                                          sent |-> [node |-> n, addr |-> nodes[n].addr, asked |-> nodes[n].asked, role |-> nodes[n].role]]]
  <2>1. PICK n \in FreshNode(want) :
             routing' = [routing EXCEPT ![c] = [pc |-> "idle", want |-> want, lock |-> 0, list |-> NoNodes,
                                          sent |-> [node |-> n, addr |-> nodes[n].addr, asked |-> nodes[n].asked, role |-> nodes[n].role]]]
    BY <1>2
  <2> DEFINE it == [node |-> n, addr |-> nodes[n].addr, asked |-> nodes[n].asked, role |-> nodes[n].role]
             new == [pc |-> "idle", want |-> want, lock |-> 0, list |-> NoNodes, sent |-> it]
  <2>2. n \in NodeId /\ nodes[n] \in Node
    BY ListFacts DEF FreshNode, ConnectionsTypeOK
  <2>3. it \in Sent
    BY <2>2 DEF Sent, Node
  <2>4. new \in Seek
    BY <2>3, NoNodesIsList DEF Seek
  <2>5. routing' = [routing EXCEPT ![c] = new]
    BY <2>1
  <2>6. routing'[c] = new /\ routing' \in [Caller -> Seek] /\ \A d \in Caller \ {c} : routing'[d] = routing[d]
    BY <1>1, <2>4, <2>5
  <2> QED BY <2>6
<1>3. CASE routing' = [routing EXCEPT ![c] = [pc |-> to, want |-> want, lock |-> 0, list |-> NoNodes, sent |-> Absent]]
  <2> DEFINE new == [pc |-> to, want |-> want, lock |-> 0, list |-> NoNodes, sent |-> Absent]
  <2>1. new \in Seek
    BY NoNodesIsList DEF Seek
  <2>2. routing'[c] = new /\ routing' \in [Caller -> Seek] /\ \A d \in Caller \ {c} : routing'[d] = routing[d]
    BY <1>1, <1>3, <2>1
  <2> QED BY <2>2
<1> QED BY <1>2, <1>3 DEF Send

LEMMA RouteNodeIs ==
    ASSUME ConnectionsTypeOK, NEW c \in Caller, RouteNode(c)
    PROVE  /\ routing' \in [Caller -> Seek]
           /\ \A d \in Caller \ {c} : routing'[d] = routing[d]
           /\ routing'[c].pc \in {"idle", "lock"} /\ routing'[c].lock \in {0, routing[c].lock}
           /\ \/ routing'[c].sent = Absent
              \/ \E n \in FreshNode(routing'[c].want) :
                    routing'[c].sent = [node |-> n, addr |-> nodes[n].addr, asked |-> nodes[n].asked, role |-> nodes[n].role]
<1>1. routing \in [Caller -> Seek] /\ routing[c] \in Seek
  BY DEF ConnectionsTypeOK
<1>2. CASE \E want \in {"primary", "secondary", "either"} : Send(c, want, "lock")
  <2>1. PICK want \in {"primary", "secondary", "either"} : Send(c, want, "lock")
    BY <1>2
  <2>2. want \in Want
    BY DEF Want
  <2> QED BY <2>1, <2>2, SendIs
<1>3. CASE routing' = [routing EXCEPT ![c].pc = "lock", ![c].want = Absent, ![c].sent = Absent]
  <2>1. routing'[c] = [pc |-> "lock", want |-> Absent, lock |-> routing[c].lock, list |-> routing[c].list, sent |-> Absent]
    BY <1>1, <1>3 DEF Seek
  <2>2. routing'[c] \in Seek
    BY <1>1, <2>1 DEF Seek, Want
  <2>3. routing' \in [Caller -> Seek] /\ \A d \in Caller \ {c} : routing'[d] = routing[d]
    BY <1>1, <1>3, <2>2
  <2> QED BY <2>1, <2>3
<1> QED BY <1>2, <1>3 DEF RouteNode

LEMMA RouteNodeTypes == ASSUME ConnectionsTypeOK, NEW c \in Caller, RouteNode(c) PROVE ConnectionsTypeOK'
BY RouteNodeIs, CallersStand DEF RouteNode, ConnectionsTypeOK

LEMMA TopologyLockTypes == ASSUME ConnectionsTypeOK, NEW c \in Caller, ConnectionTopologyLock(c) PROVE ConnectionsTypeOK'
<1>1. lock' \in Nat /\ locks' \in Nat
  BY DEF ConnectionTopologyLock, ConnectionsTypeOK
<1>2. routing' \in [Caller -> Seek]
  BY <1>1 DEF ConnectionTopologyLock, ConnectionsTypeOK, Seek
<1> QED BY <1>1, <1>2, CallersStand DEF ConnectionTopologyLock, ConnectionsTypeOK

LEMMA ReadNodesTypes == ASSUME ConnectionsTypeOK, NEW c \in Caller, ReadNodes(c) PROVE ConnectionsTypeOK'
<1>1. routing' \in [Caller -> Seek]
  BY DEF ReadNodes, After, ConnectionsTypeOK, Seek
<1> QED BY <1>1, CallersStand DEF ReadNodes, ConnectionsTypeOK

LEMMA SmallerList == ASSUME NEW list \in List, NEW n PROVE [m \in DOMAIN list \ {n} |-> list[m]] \in List
<1>1. [m \in DOMAIN list \ {n} |-> list[m]] \in [DOMAIN list \ {n} -> Node] /\ DOMAIN list \ {n} \subseteq NodeId
  BY ListFacts
<1> QED BY <1>1, IsList

\* A list in which node n has answered at an address.
Answered(list, n, role, addr) ==
    [list EXCEPT ![n].role = role, ![n].health = IF role = "unknown" THEN "unreachable" ELSE "healthy",
                 ![n].fresh = TRUE, ![n].asked = addr]

LEMMA AnsweredNode ==
    ASSUME NEW list \in List, NEW n \in DOMAIN list, NEW role \in {"primary", "secondary", "unknown"}, NEW addr \in Addr
    PROVE  /\ Answered(list, n, role, addr) \in List
           /\ DOMAIN Answered(list, n, role, addr) = DOMAIN list
           /\ \A m \in DOMAIN list \ {n} : Answered(list, n, role, addr)[m] = list[m]
           /\ Answered(list, n, role, addr)[n].role = role
           /\ Answered(list, n, role, addr)[n].health = (IF role = "unknown" THEN "unreachable" ELSE "healthy")
           /\ Answered(list, n, role, addr)[n].addr = list[n].addr
           /\ Answered(list, n, role, addr)[n].asked = addr
<1> DEFINE new == [list EXCEPT ![n].role = role, ![n].health = IF role = "unknown" THEN "unreachable" ELSE "healthy",
                               ![n].fresh = TRUE, ![n].asked = addr]
<1>1. list \in [DOMAIN list -> Node] /\ DOMAIN list \subseteq NodeId /\ list[n] \in Node
  <2>1. PICK ids \in SUBSET NodeId : list \in [ids -> Node]
    BY DEF List
  <2> QED BY <2>1
<1>2. new \in [DOMAIN list -> Node] /\ \A m \in DOMAIN list \ {n} : new[m] = list[m]
  BY <1>1 DEF Node
<1>3. new[n].role = role /\ new[n].health = (IF role = "unknown" THEN "unreachable" ELSE "healthy")
  BY <1>1 DEF Node
<1>4. new[n].addr = list[n].addr /\ new[n].asked = addr
  BY <1>1 DEF Node
<1>5. new \in List
  BY <1>1, <1>2, IsList
<1>6. Answered(list, n, role, addr) = new
  BY DEF Answered
<1> HIDE DEF new
<1> QED BY <1>2, <1>3, <1>4, <1>5, <1>6

\* What a probe does: nothing, or its node has answered.
LEMMA ProbeNodeIs ==
    ASSUME ConnectionsTypeOK, NEW c \in Caller, ProbeNode(c)
    PROVE  /\ routing' \in [Caller -> Seek]
           /\ \A d \in Caller : routing'[d].sent = routing[d].sent /\ routing'[d].want = routing[d].want
           /\ \/ UNCHANGED <<nodes, misled>>
              \/ \E n \in DOMAIN nodes : \E role \in {"primary", "secondary", "unknown"}, addr \in Addr :
                    /\ nodes' = Answered(nodes, n, role, addr)
                    /\ misled' = IF nodes[n].addr = addr THEN misled ELSE misled \cup {n}
<1>1. routing[c] \in Seek /\ routing[c].list \in List /\ routing \in [Caller -> Seek]
  BY DEF ConnectionsTypeOK, Seek
<1>2. PICK n \in DOMAIN routing[c].list :
          /\ routing' = [routing EXCEPT ![c].list = [m \in DOMAIN routing[c].list \ {n} |-> routing[c].list[m]]]
          /\ \/ UNCHANGED <<nodes, misled>>
             \/ \E role \in {"primary", "secondary", "unknown"} :
                   /\ n \in DOMAIN nodes
                   /\ nodes' = [nodes EXCEPT ![n].role = role, ![n].health = IF role = "unknown" THEN "unreachable" ELSE "healthy",
                                             ![n].fresh = TRUE, ![n].asked = routing[c].list[n].addr]
                   /\ misled' = IF nodes[n].addr = routing[c].list[n].addr THEN misled ELSE misled \cup {n}
  BY DEF ProbeNode
<1>3. [m \in DOMAIN routing[c].list \ {n} |-> routing[c].list[m]] \in List
  BY <1>1, SmallerList
<1>4. routing' \in [Caller -> Seek]
  BY <1>1, <1>2, <1>3 DEF Seek
<1>5. routing'[c] = [routing[c] EXCEPT !.list = [m \in DOMAIN routing[c].list \ {n} |-> routing[c].list[m]]]
      /\ \A d \in Caller \ {c} : routing'[d] = routing[d]
  BY <1>1, <1>2
<1>6. routing'[c].sent = routing[c].sent /\ routing'[c].want = routing[c].want
  BY <1>1, <1>5 DEF Seek
<1>7. routing[c].list[n].addr \in Addr
  BY <1>1, ListFacts DEF Node
<1>8. \/ UNCHANGED <<nodes, misled>>
      \/ \E role \in {"primary", "secondary", "unknown"} :
            /\ n \in DOMAIN nodes
            /\ nodes' = Answered(nodes, n, role, routing[c].list[n].addr)
            /\ misled' = IF nodes[n].addr = routing[c].list[n].addr THEN misled ELSE misled \cup {n}
  BY <1>2 DEF Answered
<1> QED BY <1>4, <1>5, <1>6, <1>7, <1>8

LEMMA ProbeNodeTypes == ASSUME ConnectionsTypeOK, NEW c \in Caller, ProbeNode(c) PROVE ConnectionsTypeOK'
<1>1. nodes \in List /\ DOMAIN nodes \subseteq NodeId
  BY ListFacts DEF ConnectionsTypeOK
<1>2. nodes' \in List /\ misled' \subseteq NodeId
  <2>1. CASE UNCHANGED <<nodes, misled>>
    BY <2>1 DEF ConnectionsTypeOK
  <2>2. ASSUME NEW n \in DOMAIN nodes, NEW role \in {"primary", "secondary", "unknown"}, NEW addr \in Addr,
               nodes' = Answered(nodes, n, role, addr), misled' = IF nodes[n].addr = addr THEN misled ELSE misled \cup {n}
        PROVE  nodes' \in List /\ misled' \subseteq NodeId
    BY <1>1, <2>2, AnsweredNode DEF ConnectionsTypeOK
  <2> QED BY <2>1, <2>2, ProbeNodeIs
<1> QED BY <1>2, ProbeNodeIs, CallersStand DEF ProbeNode, ConnectionsTypeOK

LEMMA FinishRefreshTypes == ASSUME ConnectionsTypeOK, NEW c \in Caller, FinishRefresh(c) PROVE ConnectionsTypeOK'
<1>1. routing[c] \in Seek /\ routing \in [Caller -> Seek] /\ After(c) \in {"idle", "reread"}
  BY DEF After, ConnectionsTypeOK
<1>2. [routing[c] EXCEPT !.pc = After(c), !.lock = 0, !.list = NoNodes] \in Seek
  BY <1>1, NoNodesIsList DEF Seek
<1>3. routing' \in [Caller -> Seek]
  BY <1>1, <1>2 DEF FinishRefresh
<1> QED BY <1>3, CallersStand DEF FinishRefresh, ConnectionsTypeOK

LEMMA RouteAgainTypes == ASSUME ConnectionsTypeOK, NEW c \in Caller, RouteAgain(c) PROVE ConnectionsTypeOK'
<1>1. routing[c].want \in Want
  BY DEF ConnectionsTypeOK, Seek
<1>2. routing' \in [Caller -> Seek]
  BY <1>1, SendIs DEF RouteAgain
<1> QED BY <1>2, CallersStand DEF RouteAgain, ConnectionsTypeOK

LEMMA ConnectionsTypesStep == ConnectionsTypeOK /\ [ConnectionsNext]_connectionVars => ConnectionsTypeOK'
<1> SUFFICES ASSUME ConnectionsTypeOK, [ConnectionsNext]_connectionVars PROVE ConnectionsTypeOK'
  OBVIOUS
<1>1. CASE UNCHANGED connectionVars
  BY <1>1 DEF connectionVars, ConnectionsTypeOK, Stands
<1>2. ASSUME NEW e \in Request,
             \/ CreateConnection(e) \/ UpdateConnection(e) \/ DeleteConnection(e)
             \/ StoreSecret(e) \/ WriteRow(e) \/ ListNodes(e) \/ ReplaceNodes(e) \/ Undo(e)
             \/ DeleteRow(e) \/ DropSecret(e) \/ ForgetLock(e)
      PROVE  ConnectionsTypeOK'
  BY <1>2, CreateTypes, UpdateTypes, BeginDeleteTypes, StoreSecretTypes, WriteRowTypes, ListNodesTypes, ReplaceNodesTypes,
     UndoTypes, DeleteRowTypes, DropSecretTypes, ForgetLockTypes
<1>3. ASSUME NEW c \in Caller,
             \/ RouteNode(c) \/ ConnectionTopologyLock(c) \/ ReadNodes(c) \/ ProbeNode(c)
             \/ FinishRefresh(c) \/ RouteAgain(c)
      PROVE  ConnectionsTypeOK'
  BY <1>3, RouteNodeTypes, TopologyLockTypes, ReadNodesTypes, ProbeNodeTypes, FinishRefreshTypes, RouteAgainTypes
<1> QED BY <1>1, <1>2, <1>3, AgeTypes, CrashTypes DEF ConnectionsNext

LEMMA ConnectionsInitTypes == ConnectionsInit => ConnectionsTypeOK
<1> SUFFICES ASSUME ConnectionsInit PROVE ConnectionsTypeOK
  OBVIOUS
<1>1. saving \in [Request -> Change] /\ \A e \in Request : saving[e] = Idle
  BY DEF ConnectionsInit, Idle, Change
<1>2. \A e \in Request : Stands(e)
  BY <1>1 DEF Stands, Idle
<1>3. routing \in [Caller -> Seek]
  BY NoNodesIsList DEF ConnectionsInit, Seek, Want
<1> QED BY <1>1, <1>2, <1>3, NoNodesIsList DEF ConnectionsInit, ConnectionsTypeOK

\* Every reachable state is well formed: a request that is to write has a row
\* to write, one that replaces the nodes has a list, and only one that deletes
\* secrets has secrets to delete (createConnection, updateConnection, deleteConnection).
THEOREM ConnectionsTypes == ConnectionsSpec => []ConnectionsTypeOK
BY ConnectionsInitTypes, ConnectionsTypesStep, PTL DEF ConnectionsSpec

-----------------------------------------------------------------------------
(* One refresh at a time *)

\* The connection was there: its id is never used again.
WasThere == \E e \in Request : saving[e].kind = "create" /\ saving[e].pc # "make"

OneCreate ==
    /\ \A e, f \in Request : saving[e].kind = "create" /\ saving[f].kind = "create" => e = f
    /\ \A e, f \in Request : saving[e].kind = "create" /\ saving[e].pc = "make" /\ f # e => saving[f].pc = "new"
    /\ (\A e \in Request : saving[e].kind # "create") => \A e \in Request : saving[e].pc = "new"
    /\ \A e \in Request : saving[e].kind = "create" /\ saving[e].pc = "make" => saved = Absent
    /\ (\A e \in Request : saving[e].kind # "create") => saved = Absent

\* A request that is under way goes on; the others stay.
Goes(e) ==
    /\ saving[e].pc # "new" /\ saving'[e].pc \notin {"new", "make"} /\ saving'[e].kind = saving[e].kind
    /\ \A f \in Request \ {e} : saving'[f] = saving[f]
    /\ \/ saving'[e].read = saving[e].read /\ saving'[e].write = saving[e].write
       \/ saving'[e].read = Absent /\ saving'[e].write = Absent
    /\ saving'[e].pc = "done" => saving'[e].read = Absent /\ saving'[e].write = Absent

LEMMA DeleteSecretsGoes ==
    ASSUME ConnectionsTypeOK, NEW e \in Request, NEW ids \in SUBSET (Request \X Slot), DeleteSecrets(e, ids), saving[e].pc # "new"
    PROVE  Goes(e) /\ saving'[e].pc \in {"drop", "done"} /\ saving'[e].drop = ids
BY DeleteSecretsIs DEF Goes

LEMMA GoOnGoes ==
    ASSUME ConnectionsTypeOK, NEW e \in Request, NEW to, NEW drop, GoOn(e, to, drop), saving[e].pc # "new", to \notin {"new", "make"}
    PROVE  Goes(e) /\ saving'[e].pc = to /\ saving'[e].drop = IF to = "done" THEN {} ELSE drop
<1>1. /\ \A f \in Request \ {e} : saving'[f] = saving[f]
      /\ saving'[e].pc = to /\ saving'[e].kind = saving[e].kind
      /\ to # "done" => saving'[e].read = saving[e].read /\ saving'[e].write = saving[e].write /\ saving'[e].drop = drop
      /\ to = "done" => saving'[e].read = Absent /\ saving'[e].write = Absent /\ saving'[e].drop = {}
  BY GoOnIs
<1> QED BY <1>1 DEF Goes

\* How a secret that could not be stored, and every later step, goes on.
LEMMA StoreSecretGoes ==
    ASSUME ConnectionsTypeOK, NEW e \in Request, StoreSecret(e)
    PROVE  /\ saving[e].pc = "make" /\ UNCHANGED saved
           /\ \/ UNCHANGED saving /\ \E x \in Made(e) : secrets' = secrets \cup {x}
              \/ Goes(e) /\ saving'[e].drop = Made(e) \cap secrets /\ saving'[e].pc \in {"drop", "done"} /\ UNCHANGED secrets
<1>1. PICK x \in Unmade(e) :
        \/ secrets' = secrets \cup {x} /\ UNCHANGED <<saving, fails>>
        \/ Fail /\ DeleteSecrets(e, Made(e) \cap secrets) /\ UNCHANGED secrets
  BY DEF StoreSecret
<1>2. CASE secrets' = secrets \cup {x} /\ UNCHANGED <<saving, fails>>
  BY <1>2 DEF StoreSecret, Unmade
<1>3. CASE Fail /\ DeleteSecrets(e, Made(e) \cap secrets) /\ UNCHANGED secrets
  <2>1. Made(e) \cap secrets \in SUBSET (Request \X Slot)
    BY MadeTypes
  <2>2. saving[e].pc = "make" /\ UNCHANGED saved
    BY DEF StoreSecret
  <2> QED BY <1>3, <2>1, <2>2, DeleteSecretsGoes
<1> QED BY <1>1, <1>2, <1>3

LEMMA WriteRowGoes ==
    ASSUME ConnectionsTypeOK, NEW e \in Request, WriteRow(e)
    PROVE  /\ saving[e].pc = "make" /\ Unmade(e) = {} /\ UNCHANGED <<secrets, torn>> /\ Goes(e)
           /\ \/ /\ saving[e].kind = "create" \/ saved # Absent
                 /\ saved' = saving[e].write /\ saved' \in Row
                 /\ stale' = (stale \/ saved # saving[e].read)
                 /\ saving'[e].pc \in {"list", "nodes"} /\ saving'[e].drop = {}
                 /\ saving'[e].read = saving[e].read /\ saving'[e].write = saving[e].write
              \/ /\ saving'[e].pc \in {"drop", "done"} /\ saving'[e].drop = Made(e)
                 /\ UNCHANGED <<saved, stale>>
<1>1. saving[e].pc = "make" /\ Unmade(e) = {} /\ UNCHANGED <<secrets, torn>>
  BY DEF WriteRow
<1>2. CASE /\ saving[e].kind = "create" \/ saved # Absent
           /\ saved' = saving[e].write /\ stale' = (stale \/ saved # saving[e].read)
           /\ GoOn(e, IF saving[e].list = Absent THEN "list" ELSE "nodes", {}) /\ UNCHANGED fails
  <2> DEFINE to == IF saving[e].list = Absent THEN "list" ELSE "nodes"
  <2>1. GoOn(e, to, {}) /\ to \in {"list", "nodes"}
    BY <1>2
  <2> HIDE DEF to
  <2>2. Goes(e) /\ saving'[e].pc = to /\ saving'[e].drop = {} /\ saving'[e].read = saving[e].read /\ saving'[e].write = saving[e].write
    BY <1>1, <2>1, GoOnGoes, GoOnIs
  <2>3. saving[e].write \in Row
    BY <1>1 DEF ConnectionsTypeOK, Stands
  <2> QED BY <1>1, <1>2, <2>1, <2>2, <2>3
<1>3. CASE DeleteSecrets(e, Made(e)) /\ UNCHANGED <<saved, stale>>
  BY <1>1, <1>3, MadeTypes, DeleteSecretsGoes
<1> QED BY <1>2, <1>3 DEF WriteRow

LEMMA ListNodesGoes ==
    ASSUME ConnectionsTypeOK, NEW e \in Request, ListNodes(e)
    PROVE  /\ saving[e].pc = "list" /\ saving'[e].pc = "nodes" /\ saving'[e].drop = {} /\ Goes(e)
           /\ saving'[e].read = saving[e].read /\ saving'[e].write = saving[e].write
           /\ UNCHANGED <<saved, secrets, stale, torn>>
<1>1. saving[e] \in Change /\ saving[e].pc = "list" /\ saving[e].drop = {} /\ saving \in [Request -> Change]
  BY DEF ListNodes, ConnectionsTypeOK, Stands
<1>2. \E list : saving' = [saving EXCEPT ![e].pc = "nodes", ![e].list = list]
  BY DEF ListNodes
<1>3. PICK list : saving' = [saving EXCEPT ![e].pc = "nodes", ![e].list = list]
  BY <1>2
<1>4. saving'[e] = [saving[e] EXCEPT !.pc = "nodes", !.list = list] /\ \A f \in Request \ {e} : saving'[f] = saving[f]
  BY <1>1, <1>3
<1> QED BY <1>1, <1>4 DEF ListNodes, Goes, Change

LEMMA ReplaceNodesGoes ==
    ASSUME ConnectionsTypeOK, NEW e \in Request, ReplaceNodes(e)
    PROVE  /\ saving[e].pc = "nodes" /\ Goes(e) /\ UNCHANGED <<saved, secrets, stale, torn>>
           /\ \/ /\ saved # Absent /\ saving'[e].pc \in {"drop", "done"}
                 /\ saving'[e].drop = IF saving[e].kind = "update" THEN Replaced(e) ELSE {}
              \/ /\ saving'[e].pc = "undo" /\ saving'[e].drop = {}
                 /\ saving'[e].read = saving[e].read /\ saving'[e].write = saving[e].write
<1>1. saving[e].pc = "nodes" /\ UNCHANGED <<saved, secrets, stale, torn>>
  BY DEF ReplaceNodes
<1>2. CASE saved # Absent /\ DeleteSecrets(e, IF saving[e].kind = "update" THEN Replaced(e) ELSE {})
  <2>1. (IF saving[e].kind = "update" THEN Replaced(e) ELSE {}) \in SUBSET (Request \X Slot)
    BY MadeTypes
  <2> QED BY <1>1, <1>2, <2>1, DeleteSecretsGoes
<1>3. CASE GoOn(e, "undo", {})
  BY <1>1, <1>3, GoOnGoes, GoOnIs
<1> QED BY <1>2, <1>3 DEF ReplaceNodes

LEMMA UndoGoes ==
    ASSUME ConnectionsTypeOK, NEW e \in Request, Undo(e)
    PROVE  /\ saving[e].pc = "undo" /\ Goes(e) /\ saving'[e].pc \in {"drop", "done"} /\ saving'[e].drop = Made(e)
           /\ UNCHANGED secrets
           /\ \/ saved # Absent /\ saved' = saving[e].read /\ stale' = (stale \/ saved # saving[e].write) /\ UNCHANGED torn
              \/ saved = Absent /\ UNCHANGED <<saved, stale, torn>>
              \/ saved # Absent /\ torn' = TRUE /\ UNCHANGED <<saved, stale>>
<1>1. saving[e].pc = "undo" /\ UNCHANGED secrets
  BY DEF Undo
<1>2. Goes(e) /\ saving'[e].pc \in {"drop", "done"} /\ saving'[e].drop = Made(e)
  BY <1>1, MadeTypes, DeleteSecretsGoes DEF Undo
<1> QED BY <1>1, <1>2 DEF Undo

LEMMA DeleteRowGoes ==
    ASSUME ConnectionsTypeOK, NEW e \in Request, DeleteRow(e)
    PROVE  /\ saving[e].pc = "delete" /\ saving[e].kind = "delete" /\ Goes(e) /\ UNCHANGED <<secrets, stale, torn>>
           /\ \/ saved' = Absent /\ saving'[e].pc = "drop" /\ saving'[e].drop = Named(saving[e].read)
              \/ UNCHANGED saved /\ saving'[e].pc = "done" /\ saving'[e].drop = {}
<1>1. saving[e].pc = "delete" /\ saving[e].kind = "delete"
  BY DEF DeleteRow, ConnectionsTypeOK, Stands
<1>2. CASE saved' = Absent /\ GoOn(e, "drop", Named(saving[e].read))
  BY <1>1, <1>2, GoOnGoes DEF DeleteRow
<1>3. CASE UNCHANGED saved /\ GoOn(e, "done", {})
  BY <1>1, <1>3, GoOnGoes DEF DeleteRow
<1> QED BY <1>2, <1>3 DEF DeleteRow

LEMMA DropSecretGoes ==
    ASSUME ConnectionsTypeOK, NEW e \in Request, DropSecret(e)
    PROVE  /\ saving[e].pc = "drop" /\ Goes(e) /\ UNCHANGED <<saved, stale, torn>>
           /\ saving'[e].pc \in {"drop", "forget", "done"} /\ (saving'[e].pc = "forget" => saving[e].kind = "delete")
           /\ \E x \in saving[e].drop : /\ saving'[e].drop = saving[e].drop \ {x}
                                        /\ \/ secrets' = secrets \ {x} /\ UNCHANGED left
                                           \/ left' = TRUE /\ UNCHANGED secrets
<1>1. PICK x \in saving[e].drop :
        /\ LET rest == saving[e].drop \ {x}
           IN  GoOn(e, IF rest # {} THEN "drop" ELSE IF saving[e].kind = "delete" THEN "forget" ELSE "done", rest)
        /\ \/ secrets' = secrets \ {x} /\ UNCHANGED left
           \/ left' = TRUE /\ UNCHANGED secrets
  BY DEF DropSecret
<1> DEFINE rest == saving[e].drop \ {x}
           to == IF rest # {} THEN "drop" ELSE IF saving[e].kind = "delete" THEN "forget" ELSE "done"
<1>2. GoOn(e, to, rest) /\ to \in {"drop", "forget", "done"} /\ (to = "forget" => saving[e].kind = "delete") /\ (to = "done" => rest = {})
  BY <1>1
<1>3. saving[e].pc = "drop" /\ UNCHANGED <<saved, stale, torn>>
  BY DEF DropSecret
<1> HIDE DEF to
<1>4. Goes(e) /\ saving'[e].pc = to /\ saving'[e].drop = IF to = "done" THEN {} ELSE rest
  BY <1>2, <1>3, GoOnGoes
<1> QED BY <1>1, <1>2, <1>3, <1>4

LEMMA ForgetLockGoes ==
    ASSUME ConnectionsTypeOK, NEW e \in Request, ForgetLock(e)
    PROVE  saving[e].pc = "forget" /\ Goes(e) /\ saving'[e].pc = "done" /\ saving'[e].drop = {} /\ UNCHANGED <<saved, secrets, stale, torn>>
BY GoOnGoes DEF ForgetLock

LEMMA OneCreateGoes == ASSUME OneCreate, NEW e \in Request, Goes(e) PROVE OneCreate' /\ WasThere'
<1>1. \A f \in Request : saving'[f].kind = saving[f].kind
  BY DEF Goes
<1>2. PICK f \in Request : saving[f].kind = "create"
  BY DEF OneCreate, Goes
<1>3. \A g \in Request : saving[g].kind = "create" => g = f
  BY <1>2 DEF OneCreate
<1>4. saving'[f].pc # "make"
  BY <1>2 DEF OneCreate, Goes
<1> QED BY <1>1, <1>2, <1>3, <1>4 DEF OneCreate, WasThere

\* What a request that begins reads and asks for.
Begins(e) ==
    /\ saving[e] = Idle /\ UNCHANGED <<saved, secrets, stale, torn>>
    /\ \A f \in Request \ {e} : saving'[f] = saving[f]
    /\ saving'[e].read = saved /\ saving'[e].drop = {}
    /\ Named(saving'[e].write) \subseteq Named(saved) \cup ({e} \X Slot)
    /\ \/ saved = Absent /\ saving'[e].kind = "create" /\ saving'[e].pc = "make" /\ \A f \in Request : saving[f].kind # "create"
       \/ saved # Absent /\ saving'[e].kind = "update" /\ saving'[e].pc = "make"
       \/ saved # Absent /\ saving'[e].kind = "delete" /\ saving'[e].pc = "delete"

LEMMA BeginIs ==
    ASSUME ConnectionsTypeOK, NEW e \in Request, NEW kind, NEW to, NEW write, NEW list, Begin(e, kind, to, write, list)
    PROVE  /\ saving[e] = Idle /\ UNCHANGED <<saved, secrets, stale, torn>>
           /\ \A f \in Request \ {e} : saving'[f] = saving[f]
           /\ saving'[e] = [kind |-> kind, pc |-> to, read |-> saved, write |-> write, list |-> list, drop |-> {}]
BY DEF Begin, ConnectionsTypeOK, Stands

LEMMA CreateBegins == ASSUME ConnectionsTypeOK, OneCreate, NEW e \in Request, CreateConnection(e) PROVE Begins(e)
<1>1. PICK addr \in Addr, asked \in SUBSET Optional, list \in GivenLists(e) :
        Begin(e, "create", "make",
              [addr |-> addr, secret |-> [s \in Slot |-> IF s \in asked \cup {"password"} THEN <<e, s>> ELSE Absent]], list)
  BY DEF CreateConnection
<1> DEFINE secret == [s \in Slot |-> IF s \in asked \cup {"password"} THEN <<e, s>> ELSE Absent]
           write == [addr |-> addr, secret |-> secret]
<1>2. \A f \in Request : saving[f].kind # "create"
  BY DEF CreateConnection
<1>3. saved = Absent
  BY <1>2 DEF OneCreate
<1>4. Named(write) \subseteq {e} \X Slot
  <2> SUFFICES ASSUME NEW x \in Named(write) PROVE x \in {e} \X Slot
    OBVIOUS
  <2>1. PICK s \in Slot : x = secret[s] /\ x # Absent
    BY DEF Named
  <2> QED BY <2>1
<1> HIDE DEF write
<1>5. Begin(e, "create", "make", write, list)
  BY <1>1 DEF write
<1>6. /\ saving[e] = Idle /\ UNCHANGED <<saved, secrets, stale, torn>>
      /\ \A f \in Request \ {e} : saving'[f] = saving[f]
      /\ saving'[e] = [kind |-> "create", pc |-> "make", read |-> saved, write |-> write, list |-> list, drop |-> {}]
  BY <1>5, BeginIs
<1> QED BY <1>2, <1>3, <1>4, <1>6 DEF Begins

LEMMA UpdateBegins == ASSUME ConnectionsTypeOK, NEW e \in Request, UpdateConnection(e) PROVE Begins(e)
<1>1. PICK write \in Row : \E list \in List \cup {Absent} :
              /\ Begin(e, "update", "make", write, list)
              /\ Named(write) \subseteq Named(saved) \cup ({e} \X Slot)
  BY UpdateAsks
<1>2. PICK list \in List \cup {Absent} :
              /\ Begin(e, "update", "make", write, list)
              /\ Named(write) \subseteq Named(saved) \cup ({e} \X Slot)
  BY <1>1
<1>3. saved # Absent
  BY DEF UpdateConnection
<1>4. /\ saving[e] = Idle /\ UNCHANGED <<saved, secrets, stale, torn>>
      /\ \A f \in Request \ {e} : saving'[f] = saving[f]
      /\ saving'[e] = [kind |-> "update", pc |-> "make", read |-> saved, write |-> write, list |-> list, drop |-> {}]
  BY <1>2, BeginIs
<1> QED BY <1>2, <1>3, <1>4 DEF Begins

LEMMA DeleteBegins == ASSUME ConnectionsTypeOK, NEW e \in Request, DeleteConnection(e) PROVE Begins(e)
<1>1. Begin(e, "delete", "delete", Absent, Absent) /\ saved # Absent
  BY DEF DeleteConnection
<1>2. Named(Absent) = {}
  BY DEF Named
<1>3. /\ saving[e] = Idle /\ UNCHANGED <<saved, secrets, stale, torn>>
      /\ \A f \in Request \ {e} : saving'[f] = saving[f]
      /\ saving'[e] = [kind |-> "delete", pc |-> "delete", read |-> saved, write |-> Absent, list |-> Absent, drop |-> {}]
  BY <1>1, BeginIs
<1> QED BY <1>1, <1>2, <1>3 DEF Begins

LEMMA OneCreateBegins == ASSUME OneCreate, NEW e \in Request, Begins(e) PROVE OneCreate' /\ (WasThere => WasThere')
<1>1. saving[e].kind = "none" /\ saving[e].pc = "new" /\ UNCHANGED saved
  BY DEF Begins, Idle
<1>2. CASE saved = Absent /\ saving'[e].kind = "create" /\ saving'[e].pc = "make" /\ \A f \in Request : saving[f].kind # "create"
  <2>1. \A f \in Request : saving[f].pc = "new"
    BY <1>2 DEF OneCreate
  <2> QED BY <1>1, <1>2, <2>1 DEF OneCreate, WasThere, Begins
<1>3. CASE saved # Absent /\ saving'[e].kind # "create" /\ saving'[e].pc # "new"
  <2>1. PICK f \in Request : saving[f].kind = "create" /\ saving[f].pc # "make" /\ f # e
    BY <1>1, <1>3 DEF OneCreate
  <2>2. saving'[f] = saving[f]
    BY <2>1 DEF Begins
  <2>3. \A g \in Request : saving'[g].kind = "create" => g = f
    BY <1>3, <2>1 DEF OneCreate, Begins
  <2> QED BY <1>1, <2>1, <2>2, <2>3 DEF OneCreate, WasThere
<1> QED BY <1>2, <1>3 DEF Begins

\* A connection whose row is gone does not come back.
GoneForGood == saved = Absent /\ WasThere

LockStands ==
    /\ lock <= locks
    /\ \A c \in Caller :
          /\ routing[c].lock <= locks
          /\ routing[c].pc \in {"wait", "probe"} => routing[c].lock # 0 /\ (routing[c].lock = lock \/ GoneForGood)
    /\ \A e \in Request : saving[e].pc = "forget" \/ (saving[e].pc = "drop" /\ saving[e].kind = "delete") => GoneForGood

LockInv == OneCreate /\ LockStands /\ OneRefresh

\* Any step of a request.
RequestNext(e) ==
    \/ CreateConnection(e) \/ UpdateConnection(e) \/ DeleteConnection(e)
    \/ StoreSecret(e) \/ WriteRow(e) \/ ListNodes(e) \/ ReplaceNodes(e) \/ Undo(e)
    \/ DeleteRow(e) \/ DropSecret(e) \/ ForgetLock(e)

LEMMA OneCreateRequest ==
    ASSUME ConnectionsTypeOK, OneCreate, NEW e \in Request, RequestNext(e)
    PROVE  OneCreate' /\ (GoneForGood => GoneForGood')
<1>1. CASE Begins(e)
  <2>1. OneCreate' /\ (WasThere => WasThere') /\ UNCHANGED saved
    BY <1>1, OneCreateBegins DEF Begins
  <2> QED BY <2>1 DEF GoneForGood
<1>2. CASE UNCHANGED <<saving, saved>>
  BY <1>2 DEF OneCreate, GoneForGood, WasThere
<1>3. CASE Goes(e) /\ UNCHANGED saved
  BY <1>3, OneCreateGoes DEF GoneForGood
<1>4. CASE WriteRow(e)
  <2>1. GoneForGood => saved' = saved
    <3>1. saving[e].pc = "make" /\ (saving[e].kind = "create" \/ saved # Absent \/ UNCHANGED saved)
      BY <1>4, WriteRowGoes
    <3>2. saving[e].kind = "create" => ~WasThere
      BY <3>1 DEF OneCreate, WasThere
    <3> QED BY <3>1, <3>2 DEF GoneForGood
  <2> QED BY <1>4, <2>1, WriteRowGoes, OneCreateGoes DEF GoneForGood
<1>5. CASE Undo(e)
  BY <1>5, UndoGoes, OneCreateGoes DEF GoneForGood
<1>6. CASE DeleteRow(e)
  BY <1>6, DeleteRowGoes, OneCreateGoes DEF GoneForGood
<1> QED BY <1>1, <1>2, <1>3, <1>4, <1>5, <1>6, CreateBegins, UpdateBegins, DeleteBegins, StoreSecretGoes, ListNodesGoes,
           ReplaceNodesGoes, DropSecretGoes, ForgetLockGoes DEF RequestNext

\* A delete that cleans up has deleted the row.
LEMMA CleansUpGone ==
    ASSUME ConnectionsTypeOK, LockInv, NEW e \in Request, RequestNext(e)
    PROVE  \A f \in Request : saving'[f].pc = "forget" \/ (saving'[f].pc = "drop" /\ saving'[f].kind = "delete") => GoneForGood'
<1>1. GoneForGood => GoneForGood'
  BY OneCreateRequest DEF LockInv
<1>2. \A f \in Request \ {e} : saving'[f] = saving[f]
  BY CreateBegins, UpdateBegins, DeleteBegins, StoreSecretGoes, WriteRowGoes, ListNodesGoes, ReplaceNodesGoes, UndoGoes,
     DeleteRowGoes, DropSecretGoes, ForgetLockGoes DEF RequestNext, Begins, Goes, LockInv
<1>3. saving'[e].pc = "forget" \/ (saving'[e].pc = "drop" /\ saving'[e].kind = "delete") => GoneForGood \/ GoneForGood'
  <2>1. CASE Begins(e)
    BY <2>1 DEF Begins
  <2>2. CASE UNCHANGED saving
    BY <2>2 DEF LockInv, LockStands
  <2>3. CASE Goes(e) /\ saving[e].pc \in {"make", "list", "nodes", "undo"} /\ saving'[e].pc # "forget"
    BY <2>3 DEF Goes, ConnectionsTypeOK, Stands
  <2>4. CASE DeleteRow(e)
    <3>1. Goes(e) /\ (saved' = Absent \/ saving'[e].pc = "done")
      BY <2>4, DeleteRowGoes
    <3>2. WasThere'
      BY <3>1, OneCreateGoes DEF LockInv
    <3> QED BY <3>1, <3>2 DEF GoneForGood
  <2>5. CASE DropSecret(e)
    BY <2>5, DropSecretGoes DEF Goes, LockInv, LockStands
  <2>6. CASE ForgetLock(e)
    BY <2>6, ForgetLockGoes
  <2> QED BY <2>1, <2>2, <2>3, <2>4, <2>5, <2>6, CreateBegins, UpdateBegins, DeleteBegins, StoreSecretGoes, WriteRowGoes,
             ListNodesGoes, ReplaceNodesGoes, UndoGoes DEF RequestNext, LockInv
<1> QED BY <1>1, <1>2, <1>3 DEF LockInv, LockStands

LEMMA LockRequest == ASSUME ConnectionsTypeOK, LockInv, NEW e \in Request, RequestNext(e) PROVE LockInv'
<1>1. OneCreate' /\ (GoneForGood => GoneForGood')
  BY OneCreateRequest DEF LockInv
<1>2. UNCHANGED <<routing, locks>> /\ (UNCHANGED lock \/ (lock' = 0 /\ GoneForGood))
  <2>1. CASE ForgetLock(e)
    BY <2>1 DEF ForgetLock, LockInv, LockStands
  <2>2. CASE UNCHANGED lock
    BY <2>2 DEF RequestNext, CreateConnection, UpdateConnection, DeleteConnection, Begin, StoreSecret, WriteRow, ListNodes,
                ReplaceNodes, Undo, DeleteRow, DropSecret, ForgetLock
  <2> QED BY <2>1, <2>2 DEF RequestNext, CreateConnection, UpdateConnection, DeleteConnection, Begin, StoreSecret, WriteRow,
                            ListNodes, ReplaceNodes, Undo, DeleteRow, DropSecret
<1>3. OneRefresh'
  BY <1>2 DEF LockInv, OneRefresh
<1>4. lock' <= locks'
  BY <1>2 DEF LockInv, LockStands, ConnectionsTypeOK
<1> QED BY <1>1, <1>2, <1>3, <1>4, CleansUpGone DEF LockInv, LockStands

LEMMA LockCaller ==
    ASSUME ConnectionsTypeOK, LockInv, NEW c \in Caller, UnchangedByCallers,
           \/ RouteNode(c) \/ ConnectionTopologyLock(c) \/ ReadNodes(c) \/ ProbeNode(c) \/ FinishRefresh(c) \/ RouteAgain(c)
    PROVE  LockInv'
<1>1. OneCreate' /\ (GoneForGood => GoneForGood')
  BY DEF UnchangedByCallers, LockInv, OneCreate, GoneForGood, WasThere
<1>2. \A e \in Request : saving'[e].pc = "forget" \/ (saving'[e].pc = "drop" /\ saving'[e].kind = "delete") => GoneForGood'
  BY <1>1 DEF UnchangedByCallers, LockInv, LockStands
<1>3. routing \in [Caller -> Seek] /\ routing[c] \in Seek /\ lock \in Nat /\ locks \in Nat /\ routing[c].lock <= locks
  BY DEF ConnectionsTypeOK, LockInv, LockStands
<1>4. CASE /\ UNCHANGED <<lock, locks>> /\ \A d \in Caller \ {c} : routing'[d] = routing[d]
           /\ routing'[c].pc \notin {"wait", "probe"} /\ routing'[c].lock \in {0, routing[c].lock}
  <2>1. routing'[c].lock <= locks
    BY <1>3, <1>4
  <2>2. OneRefresh'
    BY <1>4 DEF LockInv, OneRefresh
  <2> QED BY <1>1, <1>2, <1>4, <2>1, <2>2 DEF LockInv, LockStands
<1>5. CASE ConnectionTopologyLock(c)
  <2>1. routing'[c].pc = "wait" /\ routing'[c].lock = lock' /\ \A d \in Caller \ {c} : routing'[d] = routing[d]
    BY <1>3, <1>5 DEF ConnectionTopologyLock, Seek
  <2>2. lock' # 0 /\ lock' <= locks' /\ locks <= locks' /\ (lock # 0 => lock' = lock)
    BY <1>3, <1>5 DEF ConnectionTopologyLock, LockInv, LockStands
  <2>3. locks' \in Nat
    BY <1>3, <1>5 DEF ConnectionTopologyLock
  <2>4. ASSUME NEW d \in Caller
        PROVE  routing'[d].lock <= locks' /\ (routing'[d].pc \in {"wait", "probe"} => routing'[d].lock # 0 /\ (routing'[d].lock = lock' \/ GoneForGood'))
    <3>1. CASE d = c
      BY <2>1, <2>2, <3>1
    <3>2. CASE d # c
      <4>1. routing'[d] = routing[d] /\ routing[d].lock \in Nat
        BY <1>3, <2>1, <3>2 DEF Seek
      <4>2. routing[d].lock <= locks
        BY DEF LockInv, LockStands
      <4>3. routing'[d].lock <= locks'
        BY <1>3, <2>2, <2>3, <4>1, <4>2
      <4>4. routing[d].pc \in {"wait", "probe"} => routing[d].lock # 0 /\ (routing[d].lock = lock \/ GoneForGood)
        BY DEF LockInv, LockStands
      <4> QED BY <1>1, <2>2, <4>1, <4>3, <4>4
    <3> QED BY <3>1, <3>2
  <2>5. OneRefresh'
    BY <2>1 DEF LockInv, OneRefresh
  <2> QED BY <1>1, <1>2, <2>2, <2>4, <2>5 DEF LockInv, LockStands
<1>6. CASE ReadNodes(c) /\ saved # Absent /\ routing' = [routing EXCEPT ![c].pc = "probe", ![c].list = nodes]
  <2>1. routing'[c].pc = "probe" /\ routing'[c].lock = routing[c].lock /\ \A d \in Caller \ {c} : routing'[d] = routing[d]
    BY <1>3, <1>6 DEF Seek
  <2>2. UNCHANGED <<lock, locks>> /\ routing[c].pc = "wait" /\ Free(routing[c].lock)
    BY <1>6 DEF ReadNodes
  <2>3. \A d \in Caller : routing[d].pc \in {"wait", "probe"} => routing[d].lock = lock
    BY <1>6 DEF LockInv, LockStands, GoneForGood
  <2>4. \A d \in Caller : routing[d].pc # "probe"
    BY <2>2, <2>3 DEF Free
  <2>5. OneRefresh'
    BY <2>1, <2>4 DEF OneRefresh
  <2> QED BY <1>1, <1>2, <2>1, <2>2, <2>5 DEF LockInv, LockStands
<1>7. CASE ReadNodes(c) /\ routing' = [routing EXCEPT ![c].pc = After(c), ![c].lock = 0]
  <2>1. routing'[c].pc \in {"idle", "reread"} /\ routing'[c].lock = 0 /\ \A d \in Caller \ {c} : routing'[d] = routing[d]
    BY <1>3, <1>7 DEF After, Seek
  <2> QED BY <1>4, <1>7, <2>1 DEF ReadNodes
<1>8. CASE ProbeNode(c)
  <2>1. UNCHANGED <<lock, locks>> /\ \A d \in Caller \ {c} : routing'[d] = routing[d]
    BY <1>3, <1>8 DEF ProbeNode
  <2>2. routing'[c].pc = routing[c].pc /\ routing'[c].lock = routing[c].lock
    <3>1. \E list : routing' = [routing EXCEPT ![c].list = list]
      BY <1>8 DEF ProbeNode
    <3>2. PICK list : routing' = [routing EXCEPT ![c].list = list]
      BY <3>1
    <3>3. routing'[c] = [routing[c] EXCEPT !.list = list]
      BY <1>3, <3>2
    <3> QED BY <1>3, <3>3 DEF Seek
  <2>3. OneRefresh'
    BY <2>1, <2>2 DEF LockInv, OneRefresh
  <2> QED BY <1>1, <1>2, <2>1, <2>2, <2>3 DEF LockInv, LockStands
<1>9. CASE FinishRefresh(c)
  <2>1. routing'[c].pc \in {"idle", "reread"} /\ routing'[c].lock = 0 /\ \A d \in Caller \ {c} : routing'[d] = routing[d]
    BY <1>3, <1>9 DEF FinishRefresh, After, Seek
  <2> QED BY <1>4, <1>9, <2>1 DEF FinishRefresh
<1>10. CASE RouteNode(c)
  BY <1>4, <1>10, RouteNodeIs DEF RouteNode
<1>11. CASE RouteAgain(c)
  <2>1. routing[c].want \in Want
    BY <1>3 DEF Seek
  <2> QED BY <1>4, <1>11, <2>1, SendIs DEF RouteAgain
<1> QED BY <1>5, <1>6, <1>7, <1>8, <1>9, <1>10, <1>11 DEF ReadNodes

LEMMA LockStep == ConnectionsTypeOK /\ LockInv /\ [ConnectionsNext]_connectionVars => LockInv'
<1> SUFFICES ASSUME ConnectionsTypeOK, LockInv, [ConnectionsNext]_connectionVars PROVE LockInv'
  OBVIOUS
<1>1. CASE UNCHANGED connectionVars
  BY <1>1 DEF connectionVars, LockInv, OneCreate, LockStands, OneRefresh, GoneForGood, WasThere
<1>2. ASSUME NEW e \in Request, RequestNext(e) PROVE LockInv'
  BY <1>2, LockRequest
<1>3. ASSUME NEW c \in Caller,
             \/ RouteNode(c) \/ ConnectionTopologyLock(c) \/ ReadNodes(c) \/ ProbeNode(c) \/ FinishRefresh(c) \/ RouteAgain(c)
      PROVE  LockInv'
  <2>1. UnchangedByCallers
    BY <1>3 DEF RouteNode, ConnectionTopologyLock, ReadNodes, ProbeNode, FinishRefresh, RouteAgain
  <2> QED BY <1>3, <2>1, LockCaller
<1>4. CASE Age
  <2>1. \A e \in Request : saving'[e].kind = saving[e].kind /\ saving'[e].pc = saving[e].pc
    BY <1>4, AgeIs
  <2>2. UNCHANGED <<saved, lock, locks, routing>>
    BY <1>4 DEF Age
  <2>3. OneCreate' /\ (GoneForGood => GoneForGood')
    BY <2>1, <2>2 DEF LockInv, OneCreate, GoneForGood, WasThere
  <2> QED BY <2>1, <2>2, <2>3 DEF LockInv, LockStands, OneRefresh
<1>5. CASE Crash
  <2>1. \A e \in Request : /\ saving'[e].kind = saving[e].kind /\ saving'[e].pc \in {"new", "done"}
                           /\ (saving'[e].pc = "new" <=> saving[e].pc = "new")
    BY <1>5, CrashIs
  <2>2. UNCHANGED <<saved, locks>> /\ lock' = 0
    BY <1>5 DEF Crash
  <2>3. OneCreate'
    BY <2>1, <2>2 DEF LockInv, OneCreate
  <2>4. \A c \in Caller : routing'[c].pc = "idle" /\ routing'[c].lock = 0
    BY <1>5 DEF Crash
  <2>5. lock' <= locks' /\ \A c \in Caller : routing'[c].lock <= locks'
    BY <2>2, <2>4 DEF ConnectionsTypeOK
  <2> QED BY <2>1, <2>3, <2>4, <2>5 DEF LockInv, LockStands, OneRefresh
<1> QED BY <1>1, <1>2, <1>3, <1>4, <1>5 DEF ConnectionsNext, RequestNext

LEMMA LockInit == ConnectionsInit => LockInv
BY DEF ConnectionsInit, Idle, LockInv, OneCreate, LockStands, OneRefresh

\* The row of a connection that is gone for good stays gone.
LEMMA StaysGone == ConnectionsTypeOK /\ LockInv /\ [ConnectionsNext]_connectionVars => (GoneForGood => saved' = Absent)
<1> SUFFICES ASSUME ConnectionsTypeOK, LockInv, [ConnectionsNext]_connectionVars, GoneForGood PROVE saved' = Absent
  OBVIOUS
<1>1. CASE UNCHANGED saved
  BY <1>1 DEF GoneForGood
<1>2. ASSUME NEW e \in Request, RequestNext(e) PROVE saved' = Absent
  BY <1>2, OneCreateRequest DEF LockInv, GoneForGood
<1> QED BY <1>1, <1>2 DEF ConnectionsNext, RequestNext, connectionVars, RouteNode, ConnectionTopologyLock, ReadNodes, ProbeNode,
           FinishRefresh, RouteAgain, UnchangedByCallers, Age, Crash

\* A connection that deleteConnection deleted, or whose creation was taken
\* back, stays gone: no update that was under way writes its row again.
THEOREM DeletedStaysDeleted == ConnectionsSpec => StaysDeleted
<1>1. ConnectionsTypeOK /\ LockInv /\ [ConnectionsNext]_connectionVars =>
        [saved = Absent /\ (\E e \in Request : saving[e].kind = "create" /\ saving[e].pc # "make") => saved' = Absent]_connectionVars
  BY StaysGone DEF GoneForGood, WasThere
<1> QED BY <1>1, ConnectionsTypes, LockInit, LockStep, PTL DEF ConnectionsSpec, StaysDeleted

\* Two refreshes of refreshConnectionTopology never probe a connection at the
\* same time, also when deleteConnection forgets its lock while one holds it.
THEOREM OneRefreshAtATime == ConnectionsSpec => []OneRefresh
<1>1. LockInv => OneRefresh
  BY DEF LockInv
<1> QED BY <1>1, ConnectionsTypes, LockInit, LockStep, PTL DEF ConnectionsSpec

-----------------------------------------------------------------------------
(* The secrets of the row *)

\* Secrets that only request e makes.
Own(e) == {e} \X Slot

LEMMA OwnApart == \A e, f \in Request : e # f => Own(e) \cap Own(f) = {}
BY DEF Own

LEMMA NamedAbsent == Named(Absent) = {}
BY DEF Named

\* A request that has not written its row yet: nothing names what it makes.
Unseen(f) ==
    saving[f].pc \in {"new", "make"} =>
        \A x \in Own(f) : /\ x \notin Named(saved)
                          /\ \A e \in Request : x \notin Named(saving[e].read) /\ x \notin saving[e].drop
                          /\ saving[f].pc = "new" => x \notin secrets

Writes(e) ==
    /\ Named(saving[e].write) \subseteq Named(saving[e].read) \cup Own(e)
    /\ Named(saving[e].read) \cap Own(e) = {}
    /\ saving[e].kind = "create" => saving[e].read = Absent

\* An update whose row is written: it still may put the old one back.
MayPutBack(e) == saving[e].kind = "update" /\ saving[e].pc \in {"list", "nodes", "undo"}

Kept(f) ==
    /\ Replaced(f) \subseteq secrets /\ Replaced(f) \cap Named(saved) = {}
    /\ \A e \in Request : saving[e].drop \cap Replaced(f) = {}
    /\ \A e \in Request : MayPutBack(e) /\ e # f => Replaced(e) \cap Replaced(f) = {}

InUse ==
    ~stale /\ ~torn =>
        /\ Named(saved) \subseteq secrets
        /\ \A e \in Request : saving[e].drop \cap Named(saved) = {}
        /\ saved # Absent => \A f \in Request : MayPutBack(f) => Kept(f)

SecretInv == OneCreate /\ (\A e \in Request : Unseen(e) /\ Writes(e)) /\ InUse

LEMMA SecretBegins == ASSUME SecretInv, NEW e \in Request, Begins(e) PROVE SecretInv'
<1>1. saving[e].pc = "new" /\ UNCHANGED <<saved, secrets, stale, torn>> /\ \A f \in Request \ {e} : saving'[f] = saving[f]
  BY DEF Begins, Idle
<1>2. saving'[e].read = saved /\ saving'[e].drop = {} /\ Named(saving'[e].write) \subseteq Named(saved) \cup Own(e)
  BY DEF Begins, Own
<1>3. saving'[e].pc \in {"make", "delete"} /\ (saving'[e].kind = "create" => saved = Absent)
  BY DEF Begins
<1>4. \A f \in Request : Unseen(f)'
  BY <1>1, <1>2, <1>3 DEF SecretInv, Unseen, Own
<1>5. \A f \in Request : Writes(f)'
  <2>1. Named(saved) \cap Own(e) = {}
    BY <1>1 DEF SecretInv, Unseen
  <2>2. Writes(e)'
    BY <1>2, <1>3, <2>1 DEF Writes, Own
  <2> QED BY <1>1, <2>2 DEF SecretInv, Writes, Own
<1>6. InUse'
  <2>1. \A f \in Request : MayPutBack(f)' => MayPutBack(f) /\ f # e /\ Replaced(f)' = Replaced(f)
    BY <1>1, <1>3 DEF MayPutBack, Replaced
  <2>2. \A f \in Request : MayPutBack(f) => f # e
    BY <1>1 DEF MayPutBack
  <2>3. \A f \in Request : MayPutBack(f)' /\ Kept(f) => Kept(f)'
    BY <1>1, <1>2, <2>1 DEF Kept
  <2> QED BY <1>1, <1>2, <2>1, <2>3 DEF SecretInv, InUse
<1> QED BY <1>4, <1>5, <1>6, OneCreateBegins DEF SecretInv

\* What a step of a request that goes on owes to the others.
LEMMA GoesUnseen ==
    ASSUME SecretInv, NEW e \in Request, Goes(e), secrets' \subseteq secrets,
           \A f \in Request \ {e} : saving[f].pc \in {"new", "make"} => Own(f) \cap (Named(saved') \cup saving'[e].drop) = {}
    PROVE  OneCreate' /\ \A f \in Request : Unseen(f)' /\ Writes(f)'
<1>1. \A f \in Request : saving'[f].pc \in {"new", "make"} => f # e /\ saving'[f] = saving[f]
  BY DEF Goes
<1>2. \A g \in Request : saving'[g].read \in {saving[g].read, Absent}
  BY DEF Goes
<1>3. ASSUME NEW f \in Request, saving'[f].pc \in {"new", "make"}, NEW x \in Own(f)
      PROVE  /\ x \notin Named(saved')
             /\ \A g \in Request : x \notin Named(saving'[g].read) /\ x \notin saving'[g].drop
             /\ saving'[f].pc = "new" => x \notin secrets'
  <2>1. f # e /\ saving'[f] = saving[f] /\ saving[f].pc \in {"new", "make"}
    BY <1>1, <1>3
  <2>2. \A g \in Request : x \notin Named(saving[g].read) /\ x \notin saving[g].drop
    BY <2>1 DEF SecretInv, Unseen
  <2>3. x \notin Named(saved') /\ x \notin saving'[e].drop
    BY <2>1
  <2>4. \A g \in Request : x \notin Named(saving'[g].read)
    BY <1>2, <2>2, NamedAbsent
  <2>5. \A g \in Request : x \notin saving'[g].drop
    BY <2>2, <2>3 DEF Goes
  <2>6. saving[f].pc = "new" => x \notin secrets
    BY <2>1 DEF SecretInv, Unseen
  <2> QED BY <2>1, <2>3, <2>4, <2>5, <2>6
<1>4. \A f \in Request : Unseen(f)'
  BY <1>3 DEF Unseen, Own
<1>5. \A f \in Request : Writes(f)'
  <2>1. Writes(e)'
    BY NamedAbsent DEF Goes, SecretInv, Writes, Own
  <2> QED BY <2>1 DEF Goes, SecretInv, Writes, Own
<1> QED BY <1>4, <1>5, OneCreateGoes DEF SecretInv

\* A step that writes no row, drops nothing that is in use and ends no less.
LEMMA GoesInUse ==
    ASSUME SecretInv, NEW e \in Request, Goes(e), UNCHANGED <<saved, secrets, stale, torn>>,
           ~stale /\ ~torn => saving'[e].drop \cap Named(saved) = {},
           ~stale /\ ~torn /\ saved # Absent => \A f \in Request : MayPutBack(f) /\ f # e => saving'[e].drop \cap Replaced(f) = {},
           saving'[e].pc \in {"list", "nodes", "undo"} => /\ saving[e].pc \in {"list", "nodes", "undo"} /\ saving'[e].drop = {}
                                                          /\ saving'[e].read = saving[e].read /\ saving'[e].write = saving[e].write
    PROVE  InUse'
<1>1. \A f \in Request : MayPutBack(f)' => MayPutBack(f) /\ Replaced(f)' = Replaced(f)
  <2>1. MayPutBack(e)' => MayPutBack(e) /\ Replaced(e)' = Replaced(e)
    BY DEF MayPutBack, Replaced, Goes
  <2>2. \A f \in Request \ {e} : MayPutBack(f)' => MayPutBack(f) /\ Replaced(f)' = Replaced(f)
    BY DEF MayPutBack, Replaced, Goes
  <2> QED BY <2>1, <2>2
<1>2. ASSUME ~stale, ~torn, saved # Absent, NEW f \in Request, MayPutBack(f)' PROVE Kept(f)'
  <2>1. MayPutBack(f) /\ Replaced(f)' = Replaced(f) /\ Kept(f)
    BY <1>1, <1>2 DEF SecretInv, InUse
  <2>2. saving'[e].drop \cap Replaced(f) = {}
    BY <1>2, <2>1 DEF MayPutBack
  <2>3. \A g \in Request : saving'[g].drop \cap Replaced(f) = {}
    BY <2>1, <2>2 DEF Kept, Goes
  <2>4. \A g \in Request : MayPutBack(g)' /\ g # f => Replaced(g)' \cap Replaced(f) = {}
    BY <1>1, <2>1 DEF Kept
  <2> QED BY <2>1, <2>3, <2>4 DEF Kept
<1>3. ASSUME ~stale, ~torn PROVE \A g \in Request : saving'[g].drop \cap Named(saved) = {}
  BY <1>3 DEF SecretInv, InUse, Goes
<1> QED BY <1>2, <1>3 DEF SecretInv, InUse

LEMMA MadeIsOwn == ASSUME SecretInv, NEW e \in Request
                   PROVE  /\ Made(e) \subseteq Own(e) /\ Made(e) = Named(saving[e].write) \cap Own(e)
                          /\ Replaced(e) \subseteq Named(saving[e].read) /\ Replaced(e) \cap Named(saving[e].write) = {}
BY DEF Made, Own, Replaced

\* What a request that has not written its row may delete: its own.
LEMMA GivesUp ==
    ASSUME SecretInv, NEW e \in Request, Goes(e), UNCHANGED <<saved, secrets, stale, torn>>, saving[e].pc = "make",
           saving'[e].drop \subseteq Made(e), saving'[e].pc \in {"drop", "done"}
    PROVE  SecretInv'
<1>1. saving'[e].drop \subseteq Own(e)
  BY MadeIsOwn
<1>2. \A x \in Own(e) : x \notin Named(saved) /\ \A f \in Request : x \notin Named(saving[f].read)
  BY DEF SecretInv, Unseen
<1>3. \A f \in Request \ {e} : saving[f].pc \in {"new", "make"} => Own(f) \cap (Named(saved') \cup saving'[e].drop) = {}
  <2>1. \A f \in Request \ {e} : saving[f].pc \in {"new", "make"} => Own(f) \cap Named(saved) = {}
    BY DEF SecretInv, Unseen
  <2> QED BY <1>1, <2>1, OwnApart
<1>4. \A f \in Request : saving'[e].drop \cap Replaced(f) = {}
  BY <1>1, <1>2, MadeIsOwn
<1> QED BY <1>1, <1>2, <1>3, <1>4, GoesUnseen, GoesInUse DEF SecretInv

LEMMA StoreSecretKeeps == ASSUME ConnectionsTypeOK, SecretInv, NEW e \in Request, StoreSecret(e) PROVE SecretInv'
<1>1. CASE UNCHANGED saving /\ \E x \in Made(e) : secrets' = secrets \cup {x}
  <2>1. PICK x \in Made(e) : secrets' = secrets \cup {x}
    BY <1>1
  <2>2. saving[e].pc = "make" /\ UNCHANGED <<saved, stale, torn, saving>>
    BY <1>1 DEF StoreSecret
  <2>3. x \in Own(e)
    BY MadeIsOwn
  <2>4. \A f \in Request : Unseen(f)'
    BY <2>1, <2>2, <2>3, OwnApart DEF SecretInv, Unseen, Own
  <2>5. \A f \in Request : MayPutBack(f)' = MayPutBack(f) /\ Replaced(f)' = Replaced(f)
    BY <2>2 DEF MayPutBack, Replaced
  <2>6. \A f \in Request : Kept(f) => Kept(f)'
    BY <2>1, <2>2, <2>5 DEF Kept
  <2>7. InUse'
    BY <2>1, <2>2, <2>5, <2>6 DEF SecretInv, InUse
  <2>8. OneCreate' /\ \A f \in Request : Writes(f)'
    BY <2>2 DEF SecretInv, OneCreate, Writes, Own
  <2> QED BY <2>4, <2>7, <2>8 DEF SecretInv
<1>2. CASE Goes(e) /\ saving'[e].drop = Made(e) \cap secrets /\ saving'[e].pc \in {"drop", "done"} /\ UNCHANGED secrets
  BY <1>2, StoreSecretGoes, GivesUp DEF StoreSecret
<1> QED BY <1>1, <1>2, StoreSecretGoes

LEMMA WriteRowKeeps == ASSUME ConnectionsTypeOK, SecretInv, NEW e \in Request, WriteRow(e) PROVE SecretInv'
<1>1. saving[e].pc = "make" /\ Unmade(e) = {} /\ UNCHANGED <<secrets, torn>> /\ Goes(e)
  BY WriteRowGoes
<1>2. CASE saving'[e].pc \in {"drop", "done"} /\ saving'[e].drop = Made(e) /\ UNCHANGED <<saved, stale>>
  BY <1>1, <1>2, GivesUp
<1>3. CASE /\ saving[e].kind = "create" \/ saved # Absent
           /\ saved' = saving[e].write /\ saved' \in Row
           /\ stale' = (stale \/ saved # saving[e].read)
           /\ saving'[e].pc \in {"list", "nodes"} /\ saving'[e].drop = {}
           /\ saving'[e].read = saving[e].read /\ saving'[e].write = saving[e].write
  <2>1. Named(saved') \subseteq Named(saving[e].read) \cup Own(e) /\ Made(e) \subseteq secrets
    BY <1>1, <1>3 DEF SecretInv, Writes, Unmade
  <2>2. \A f \in Request \ {e} : saving[f].pc \in {"new", "make"} => Own(f) \cap (Named(saved') \cup saving'[e].drop) = {}
    <3>1. \A f \in Request \ {e} : saving[f].pc \in {"new", "make"} => Own(f) \cap Named(saving[e].read) = {}
      BY DEF SecretInv, Unseen
    <3> QED BY <1>3, <2>1, <3>1, OwnApart
  <2>3. OneCreate' /\ \A f \in Request : Unseen(f)' /\ Writes(f)'
    BY <1>1, <2>2, GoesUnseen
  <2>4. \A x \in Own(e) : x \notin Named(saved) /\ \A f \in Request : x \notin Named(saving[f].read) /\ x \notin saving[f].drop
    BY <1>1 DEF SecretInv, Unseen
  <2>5. ASSUME ~stale', ~torn' PROVE ~stale /\ ~torn /\ saved = saving[e].read
    BY <1>1, <1>3, <2>5
  <2>6. ASSUME ~stale', ~torn' PROVE Named(saved') \subseteq secrets
    <3>1. Named(saved) \subseteq secrets
      BY <2>5, <2>6 DEF SecretInv, InUse
    <3>2. Named(saved') \cap Own(e) \subseteq Made(e)
      BY <1>3, MadeIsOwn
    <3> QED BY <2>1, <2>5, <2>6, <3>1, <3>2
  <2>7. ASSUME ~stale', ~torn' PROVE \A g \in Request : saving'[g].drop \cap Named(saved') = {}
    <3>1. \A g \in Request : saving[g].drop \cap Named(saved) = {}
      BY <2>5, <2>7 DEF SecretInv, InUse
    <3>2. \A g \in Request : saving[g].drop \cap Own(e) = {}
      BY <2>4
    <3>3. \A g \in Request : saving[g].drop \cap Named(saved') = {}
      BY <2>1, <2>5, <2>7, <3>1, <3>2
    <3> QED BY <1>1, <1>3, <3>3 DEF Goes
  <2>8. \A f \in Request : Replaced(f)' = Replaced(f)
    BY <1>1, <1>3 DEF Replaced, Goes
  <2>9. \A f \in Request \ {e} : MayPutBack(f)' = MayPutBack(f)
    BY <1>1 DEF MayPutBack, Goes
  <2>10. ASSUME ~stale', ~torn', NEW f \in Request, MayPutBack(f)' PROVE Kept(f)'
    <3>1. saved # Absent
      <4>1. CASE saving[e].kind = "create"
        <5>1. \A g \in Request \ {e} : saving[g].pc = "new"
          BY <1>1, <4>1 DEF SecretInv, OneCreate
        <5>2. ~MayPutBack(f)
          BY <1>1, <5>1 DEF MayPutBack
        <5>3. f = e
          BY <2>9, <2>10, <5>2
        <5> QED BY <1>1, <2>10, <4>1, <5>3 DEF MayPutBack, Goes
      <4> QED BY <1>3, <4>1
    <3>2. \A g \in Request : MayPutBack(g) => Kept(g)
      BY <2>5, <2>10, <3>1 DEF SecretInv, InUse
    <3>3. /\ Replaced(e) \subseteq Named(saved) /\ Replaced(e) \cap Named(saved') = {} /\ Named(saved) \subseteq secrets
          /\ \A g \in Request : saving[g].drop \cap Named(saved) = {}
      BY <1>3, <2>5, <2>10, MadeIsOwn DEF SecretInv, InUse
    <3>4. CASE f = e
      <4>1. \A g \in Request \ {e} : MayPutBack(g) => Replaced(g) \cap Named(saved) = {}
        BY <3>2 DEF Kept
      <4>2. \A g \in Request : saving'[g].drop \cap Replaced(e) = {}
        BY <1>1, <1>3, <3>3 DEF Goes
      <4>3. \A g \in Request \ {e} : MayPutBack(g)' => Replaced(g)' \cap Replaced(e) = {}
        BY <2>8, <2>9, <3>3, <4>1
      <4> QED BY <1>1, <2>8, <3>3, <3>4, <4>2, <4>3 DEF Kept
    <3>5. CASE f # e
      <4>1. Kept(f)
        BY <2>9, <2>10, <3>2, <3>5
      <4>2. Replaced(f) \cap Named(saved') = {}
        <5>1. Replaced(f) \cap Own(e) = {}
          BY <2>4, MadeIsOwn
        <5>2. Replaced(f) \cap Named(saved) = {}
          BY <4>1 DEF Kept
        <5> QED BY <2>1, <2>5, <2>10, <5>1, <5>2
      <4>3. \A g \in Request : saving'[g].drop \cap Replaced(f) = {}
        BY <1>1, <1>3, <4>1 DEF Kept, Goes
      <4>4. \A g \in Request : MayPutBack(g)' /\ g # f => Replaced(g) \cap Replaced(f) = {}
        <5>1. Replaced(e) \cap Replaced(f) = {}
          BY <3>3, <4>1 DEF Kept
        <5>2. \A g \in Request \ {e} : MayPutBack(g)' /\ g # f => Replaced(g) \cap Replaced(f) = {}
          BY <2>9, <4>1 DEF Kept
        <5> QED BY <5>1, <5>2
      <4> QED BY <1>1, <2>8, <4>1, <4>2, <4>3, <4>4 DEF Kept
    <3> QED BY <3>4, <3>5
  <2> QED BY <1>1, <2>3, <2>6, <2>7, <2>10 DEF SecretInv, InUse
<1> QED BY <1>2, <1>3, WriteRowGoes

LEMMA ReplaceNodesKeeps == ASSUME ConnectionsTypeOK, SecretInv, NEW e \in Request, ReplaceNodes(e) PROVE SecretInv'
<1>1. saving[e].pc = "nodes" /\ Goes(e) /\ UNCHANGED <<saved, secrets, stale, torn>>
  BY ReplaceNodesGoes
<1>2. \A f \in Request \ {e} : saving[f].pc \in {"new", "make"} => Own(f) \cap Named(saved) = {} /\ Own(f) \cap Named(saving[e].read) = {}
  BY DEF SecretInv, Unseen
<1>3. CASE saved # Absent /\ saving'[e].pc \in {"drop", "done"} /\ saving'[e].drop = IF saving[e].kind = "update" THEN Replaced(e) ELSE {}
  <2>1. saving'[e].drop \subseteq Named(saving[e].read)
    BY <1>3, MadeIsOwn
  <2>2. OneCreate' /\ \A f \in Request : Unseen(f)' /\ Writes(f)'
    BY <1>1, <1>2, <2>1, GoesUnseen
  <2>3. ~stale /\ ~torn /\ saving'[e].drop # {} => Kept(e) /\ saving'[e].drop = Replaced(e)
    BY <1>1, <1>3 DEF SecretInv, InUse, MayPutBack
  <2>4. ~stale /\ ~torn => saving'[e].drop \cap Named(saved) = {}
    BY <2>3 DEF Kept
  <2>5. ~stale /\ ~torn => \A f \in Request : MayPutBack(f) /\ f # e => saving'[e].drop \cap Replaced(f) = {}
    BY <2>3 DEF Kept
  <2>6. InUse'
    BY <1>1, <1>3, <2>4, <2>5, GoesInUse
  <2> QED BY <2>2, <2>6 DEF SecretInv
<1>4. CASE /\ saving'[e].pc = "undo" /\ saving'[e].drop = {}
           /\ saving'[e].read = saving[e].read /\ saving'[e].write = saving[e].write
  <2>1. OneCreate' /\ \A f \in Request : Unseen(f)' /\ Writes(f)'
    BY <1>1, <1>2, <1>4, GoesUnseen
  <2>2. InUse'
    BY <1>1, <1>4, GoesInUse
  <2> QED BY <2>1, <2>2 DEF SecretInv
<1> QED BY <1>3, <1>4, ReplaceNodesGoes

LEMMA UndoKeeps == ASSUME ConnectionsTypeOK, SecretInv, NEW e \in Request, Undo(e) PROVE SecretInv'
<1>1. saving[e].pc = "undo" /\ Goes(e) /\ saving'[e].pc \in {"drop", "done"} /\ saving'[e].drop = Made(e) /\ UNCHANGED secrets
  BY UndoGoes
<1>2. \A f \in Request \ {e} : saving[f].pc \in {"new", "make"} => Own(f) \cap Named(saved) = {} /\ Own(f) \cap Named(saving[e].read) = {}
  BY DEF SecretInv, Unseen
<1>3. saved' \in {saved, saving[e].read}
  BY UndoGoes
<1>4. OneCreate' /\ \A f \in Request : Unseen(f)' /\ Writes(f)'
  BY <1>1, <1>2, <1>3, OwnApart, MadeIsOwn, GoesUnseen
<1>5. CASE saved # Absent /\ saved' = saving[e].read /\ stale' = (stale \/ saved # saving[e].write) /\ UNCHANGED torn
  <2>1. CASE stale' \/ torn
    BY <1>4, <1>5, <2>1 DEF SecretInv, InUse
  <2>2. CASE ~stale' /\ ~torn
    <3>1. ~stale /\ ~torn /\ saved = saving[e].write
      BY <1>5, <2>2
    <3>2. CASE saving[e].kind = "create"
      <4>1. saved' = Absent
        BY <1>5, <3>2 DEF SecretInv, Writes
      <4> QED BY <1>4, <4>1, NamedAbsent DEF SecretInv, InUse
    <3>3. CASE saving[e].kind # "create"
      <4>1. saving[e].kind = "update"
        BY <1>1, <3>3 DEF ConnectionsTypeOK, Stands
      <4>2. MayPutBack(e) /\ \A f \in Request : MayPutBack(f) => Kept(f)
        BY <1>1, <1>5, <3>1, <4>1 DEF MayPutBack, SecretInv, InUse
      <4>3. Named(saved') \subseteq Named(saved) \cup Replaced(e)
        BY <1>5, <3>1 DEF Replaced
      <4>4. Named(saved') \subseteq secrets
        BY <3>1, <4>2, <4>3 DEF SecretInv, InUse, Kept
      <4>5. \A g \in Request : saving[g].drop \cap Named(saved') = {}
        BY <3>1, <4>2, <4>3 DEF SecretInv, InUse, Kept
      <4>6. Made(e) \cap Named(saved') = {} /\ Made(e) \subseteq Named(saved)
        BY <1>5, <3>1, MadeIsOwn DEF SecretInv, Writes
      <4>7. \A g \in Request : saving'[g].drop \cap Named(saved') = {}
        BY <1>1, <4>5, <4>6 DEF Goes
      <4>8. \A f \in Request : MayPutBack(f)' => MayPutBack(f) /\ f # e /\ Replaced(f)' = Replaced(f)
        BY <1>1 DEF MayPutBack, Replaced, Goes
      <4>9. ASSUME NEW f \in Request, MayPutBack(f)' PROVE Kept(f)'
        <5>1. MayPutBack(f) /\ f # e /\ Replaced(f)' = Replaced(f) /\ Kept(f)
          BY <4>2, <4>8, <4>9
        <5>2. Replaced(f) \cap Named(saved') = {}
          BY <4>2, <4>3, <5>1 DEF Kept
        <5>3. \A g \in Request : saving'[g].drop \cap Replaced(f) = {}
          <6>1. Made(e) \cap Replaced(f) = {}
            BY <4>6, <5>1 DEF Kept
          <6> QED BY <1>1, <5>1, <6>1 DEF Kept, Goes
        <5>4. \A g \in Request : MayPutBack(g)' /\ g # f => Replaced(g)' \cap Replaced(f) = {}
          BY <4>8, <5>1 DEF Kept
        <5> QED BY <1>1, <5>1, <5>2, <5>3, <5>4 DEF Kept
      <4> QED BY <1>1, <1>4, <4>4, <4>7, <4>9 DEF SecretInv, InUse
    <3> QED BY <3>2, <3>3
  <2> QED BY <1>5, <2>1, <2>2
<1>6. CASE saved = Absent /\ UNCHANGED <<saved, stale, torn>>
  <2>1. InUse'
    BY <1>1, <1>6, NamedAbsent, GoesInUse
  <2> QED BY <1>4, <2>1 DEF SecretInv
<1>7. CASE torn'
  BY <1>4, <1>7 DEF SecretInv, InUse
<1> QED BY <1>5, <1>6, <1>7, UndoGoes

LEMMA DeleteRowKeeps == ASSUME ConnectionsTypeOK, SecretInv, NEW e \in Request, DeleteRow(e) PROVE SecretInv'
<1>1. saving[e].pc = "delete" /\ Goes(e) /\ UNCHANGED <<secrets, stale, torn>>
  BY DeleteRowGoes
<1>2. \A f \in Request \ {e} : saving[f].pc \in {"new", "make"} => Own(f) \cap Named(saved) = {} /\ Own(f) \cap Named(saving[e].read) = {}
  BY DEF SecretInv, Unseen
<1>3. CASE saved' = Absent /\ saving'[e].pc = "drop" /\ saving'[e].drop = Named(saving[e].read)
  <2>1. OneCreate' /\ \A f \in Request : Unseen(f)' /\ Writes(f)'
    BY <1>1, <1>2, <1>3, NamedAbsent, GoesUnseen
  <2>2. InUse'
    BY <1>3, NamedAbsent DEF InUse
  <2> QED BY <2>1, <2>2 DEF SecretInv
<1>4. CASE UNCHANGED saved /\ saving'[e].pc = "done" /\ saving'[e].drop = {}
  <2>1. OneCreate' /\ \A f \in Request : Unseen(f)' /\ Writes(f)'
    BY <1>1, <1>2, <1>4, GoesUnseen
  <2>2. InUse'
    BY <1>1, <1>4, GoesInUse
  <2> QED BY <2>1, <2>2 DEF SecretInv
<1> QED BY <1>3, <1>4, DeleteRowGoes

LEMMA DropSecretKeeps == ASSUME ConnectionsTypeOK, SecretInv, NEW e \in Request, DropSecret(e) PROVE SecretInv'
<1>1. /\ saving[e].pc = "drop" /\ Goes(e) /\ UNCHANGED <<saved, stale, torn>>
      /\ saving'[e].pc \in {"drop", "forget", "done"}
  BY DropSecretGoes
<1>2. PICK x \in saving[e].drop : /\ saving'[e].drop = saving[e].drop \ {x}
                                  /\ secrets' = secrets \ {x} \/ UNCHANGED secrets
  BY DropSecretGoes
<1>3. secrets' \subseteq secrets /\ saving'[e].drop \subseteq saving[e].drop /\ secrets \ {x} \subseteq secrets'
  BY <1>2
<1>4. \A f \in Request : saving[f].pc \in {"new", "make"} => Own(f) \cap Named(saved) = {} /\ Own(f) \cap saving[e].drop = {}
  BY DEF SecretInv, Unseen
<1>5. OneCreate' /\ \A f \in Request : Unseen(f)' /\ Writes(f)'
  BY <1>1, <1>3, <1>4, GoesUnseen
<1>6. \A f \in Request : MayPutBack(f)' => MayPutBack(f) /\ Replaced(f)' = Replaced(f)
  <2>1. ~MayPutBack(e)'
    BY <1>1 DEF MayPutBack
  <2> QED BY <1>1, <2>1 DEF MayPutBack, Replaced, Goes
<1>7. \A g \in Request : saving'[g].drop \subseteq saving[g].drop
  BY <1>1, <1>3 DEF Goes
<1>8. ASSUME NEW f \in Request, MayPutBack(f)', Kept(f) PROVE Kept(f)'
  <2>1. x \notin Replaced(f)
    BY <1>2, <1>8 DEF Kept
  <2> QED BY <1>1, <1>3, <1>6, <1>7, <1>8, <2>1 DEF Kept
<1>9. ASSUME ~stale, ~torn PROVE x \notin Named(saved)
  BY <1>2, <1>9 DEF SecretInv, InUse
<1>10. InUse'
  BY <1>1, <1>3, <1>6, <1>7, <1>8, <1>9 DEF SecretInv, InUse
<1> QED BY <1>5, <1>10 DEF SecretInv

\* Steps of a request that write no row and drop nothing.
LEMMA QuietKeeps ==
    ASSUME ConnectionsTypeOK, SecretInv, NEW e \in Request, Goes(e), UNCHANGED <<saved, secrets, stale, torn>>, saving'[e].drop = {},
           saving'[e].pc \in {"list", "nodes", "undo"} => /\ saving[e].pc \in {"list", "nodes", "undo"}
                                                          /\ saving'[e].read = saving[e].read /\ saving'[e].write = saving[e].write
    PROVE  SecretInv'
<1>1. \A f \in Request \ {e} : saving[f].pc \in {"new", "make"} => Own(f) \cap (Named(saved') \cup saving'[e].drop) = {}
  BY DEF SecretInv, Unseen
<1> QED BY <1>1, GoesUnseen, GoesInUse DEF SecretInv

LEMMA SecretRequest == ASSUME ConnectionsTypeOK, SecretInv, NEW e \in Request, RequestNext(e) PROVE SecretInv'
<1>1. CASE CreateConnection(e) \/ UpdateConnection(e) \/ DeleteConnection(e)
  <2>1. Begins(e)
    BY <1>1, CreateBegins, UpdateBegins, DeleteBegins DEF SecretInv
  <2> QED BY <2>1, SecretBegins
<1>2. CASE ListNodes(e)
  BY <1>2, ListNodesGoes, QuietKeeps
<1>3. CASE ForgetLock(e)
  BY <1>3, ForgetLockGoes, QuietKeeps
<1> QED BY <1>1, <1>2, <1>3, StoreSecretKeeps, WriteRowKeeps, ReplaceNodesKeeps, UndoKeeps, DeleteRowKeeps, DropSecretKeeps
        DEF RequestNext

\* A step after which every request names and drops what it did, or nothing any more.
LEMMA SecretStays ==
    ASSUME SecretInv, OneCreate', UNCHANGED <<saved, secrets, stale, torn>>,
           \A e \in Request :
              /\ saving'[e].kind = saving[e].kind /\ (saving'[e].pc = saving[e].pc \/ saving'[e].pc = "done")
              /\ \/ saving'[e].pc = saving[e].pc /\ saving'[e].read = saving[e].read /\ saving'[e].write = saving[e].write
                    /\ saving'[e].drop = saving[e].drop
                 \/ saving'[e].read = Absent /\ saving'[e].write = Absent /\ saving'[e].drop = {}
    PROVE  SecretInv'
<1>1. \A e \in Request : saving'[e].read \in {saving[e].read, Absent} /\ saving'[e].drop \subseteq saving[e].drop
  OBVIOUS
<1>2. \A f \in Request : Unseen(f)'
  <2> SUFFICES ASSUME NEW f \in Request, saving'[f].pc \in {"new", "make"}, NEW x \in Own(f)
               PROVE  /\ x \notin Named(saved')
                      /\ \A e \in Request : x \notin Named(saving'[e].read) /\ x \notin saving'[e].drop
                      /\ saving'[f].pc = "new" => x \notin secrets'
    BY DEF Unseen, Own
  <2>1. saving'[f].pc = saving[f].pc
    OBVIOUS
  <2>2. /\ x \notin Named(saved) /\ \A e \in Request : x \notin Named(saving[e].read) /\ x \notin saving[e].drop
        /\ saving[f].pc = "new" => x \notin secrets
    BY <2>1 DEF SecretInv, Unseen
  <2> QED BY <1>1, <2>1, <2>2, NamedAbsent
<1>3. ASSUME NEW e \in Request PROVE Writes(e)'
  <2>1. Writes(e)
    BY DEF SecretInv
  <2>2. CASE saving'[e].read = saving[e].read /\ saving'[e].write = saving[e].write
    BY <2>1, <2>2 DEF Writes, Own
  <2>3. CASE saving'[e].read = Absent /\ saving'[e].write = Absent
    BY <2>3, NamedAbsent DEF Writes, Own
  <2> QED BY <2>2, <2>3
<1>4. \A f \in Request : MayPutBack(f)' => MayPutBack(f) /\ (Replaced(f)' = Replaced(f) \/ Replaced(f)' = {})
  <2> SUFFICES ASSUME NEW f \in Request, MayPutBack(f)' PROVE MayPutBack(f) /\ (Replaced(f)' = Replaced(f) \/ Replaced(f)' = {})
    OBVIOUS
  <2>1. saving'[f].kind = saving[f].kind /\ saving'[f].pc = saving[f].pc
    BY DEF MayPutBack
  <2>2. MayPutBack(f)
    BY <2>1 DEF MayPutBack
  <2>3. CASE saving'[f].read = saving[f].read /\ saving'[f].write = saving[f].write
    BY <2>2, <2>3 DEF Replaced
  <2>4. CASE saving'[f].read = Absent
    BY <2>2, <2>4, NamedAbsent DEF Replaced
  <2> QED BY <2>3, <2>4
<1>5. ASSUME NEW f \in Request, MayPutBack(f)', Kept(f) PROVE Kept(f)'
  <2>1. Replaced(f)' \subseteq Replaced(f) /\ \A e \in Request : MayPutBack(e)' => MayPutBack(e) /\ Replaced(e)' \subseteq Replaced(e)
    BY <1>4, <1>5
  <2>2. \A e \in Request : saving'[e].drop \cap Replaced(f)' = {}
    BY <1>1, <1>5, <2>1 DEF Kept
  <2>3. \A e \in Request : MayPutBack(e)' /\ e # f => Replaced(e)' \cap Replaced(f)' = {}
    BY <1>5, <2>1 DEF Kept
  <2> QED BY <1>5, <2>1, <2>2, <2>3 DEF Kept
<1>6. InUse'
  BY <1>1, <1>4, <1>5 DEF SecretInv, InUse
<1> QED BY <1>2, <1>3, <1>6 DEF SecretInv

LEMMA OneCreateStays ==
    ASSUME OneCreate, UNCHANGED saved, \A e \in Request : /\ saving'[e].kind = saving[e].kind
                                                          /\ saving'[e].pc = saving[e].pc \/ (saving'[e].pc = "done" /\ saving[e].pc # "new")
    PROVE  OneCreate'
BY DEF OneCreate

LEMMA SecretStep == ConnectionsTypeOK /\ SecretInv /\ [ConnectionsNext]_connectionVars => SecretInv'
<1> SUFFICES ASSUME ConnectionsTypeOK, SecretInv, [ConnectionsNext]_connectionVars PROVE SecretInv'
  OBVIOUS
<1>1. CASE UNCHANGED <<saved, secrets, saving, stale, torn>>
  <2>1. OneCreate'
    BY <1>1 DEF SecretInv, OneCreate
  <2> QED BY <1>1, <2>1, SecretStays
<1>2. ASSUME NEW e \in Request, RequestNext(e) PROVE SecretInv'
  BY <1>2, SecretRequest
<1>3. ASSUME NEW c \in Caller,
             \/ RouteNode(c) \/ ConnectionTopologyLock(c) \/ ReadNodes(c) \/ ProbeNode(c) \/ FinishRefresh(c) \/ RouteAgain(c)
      PROVE  SecretInv'
  BY <1>1, <1>3 DEF RouteNode, ConnectionTopologyLock, ReadNodes, ProbeNode, FinishRefresh, RouteAgain, UnchangedByCallers
<1>4. CASE Age
  <2>1. UNCHANGED <<saved, secrets, stale, torn>>
    BY <1>4 DEF Age
  <2>2. \A e \in Request : /\ saving'[e].kind = saving[e].kind /\ saving'[e].pc = saving[e].pc /\ saving'[e].read = saving[e].read
                           /\ saving'[e].write = saving[e].write /\ saving'[e].drop = saving[e].drop
    BY <1>4, AgeIs
  <2>3. OneCreate'
    BY <2>1, <2>2, OneCreateStays DEF SecretInv
  <2> QED BY <2>1, <2>2, <2>3, SecretStays
<1>5. CASE Crash
  <2>1. UNCHANGED <<saved, secrets, stale, torn>>
    BY <1>5 DEF Crash
  <2>2. \A e \in Request :
           \/ saving'[e] = saving[e]
           \/ /\ saving'[e].kind = saving[e].kind /\ saving'[e].pc = "done" /\ saving[e].pc # "new"
              /\ saving'[e].read = Absent /\ saving'[e].write = Absent /\ saving'[e].drop = {}
    BY <1>5, CrashIs
  <2>3. OneCreate'
    BY <2>1, <2>2, OneCreateStays DEF SecretInv
  <2> QED BY <2>1, <2>2, <2>3, SecretStays
<1> QED BY <1>1, <1>2, <1>3, <1>4, <1>5 DEF ConnectionsNext, RequestNext, connectionVars

LEMMA SecretInit == ConnectionsInit => SecretInv
<1> SUFFICES ASSUME ConnectionsInit PROVE SecretInv
  OBVIOUS
<1>1. saved = Absent /\ secrets = {} /\ \A e \in Request : saving[e] = Idle
  BY DEF ConnectionsInit
<1>2. OneCreate
  BY <1>1 DEF OneCreate, Idle
<1>3. \A e \in Request : Unseen(e) /\ Writes(e)
  BY <1>1, NamedAbsent DEF Unseen, Writes, Idle
<1>4. InUse
  BY <1>1, NamedAbsent DEF InUse
<1> QED BY <1>2, <1>3, <1>4 DEF SecretInv

\* The row never names a secret that the store does not hold, wherever a call
\* of createConnection, updateConnection or deleteConnection fails or the
\* process stops, whatever requests overlap; a lost update and a save that
\* could not be taken back apart.
THEOREM SecretsOfTheRow == ConnectionsSpec => []SecretsAreThere
<1>1. SecretInv => SecretsAreThere
  BY DEF SecretInv, InUse, SecretsAreThere
<1> QED BY <1>1, ConnectionsTypes, SecretInit, SecretStep, PTL DEF ConnectionsSpec

-----------------------------------------------------------------------------
(* Where statements are sent *)

\* What is known of a node that is healthy: its own address said so, or a
\* probe of another address spoke for it.
Verified(n, node) == node.health = "healthy" => node.role # "unknown" /\ (node.asked = node.addr \/ n \in misled)

ListVerified(list) == \A n \in DOMAIN list : Verified(n, list[n])

\* A request that has a list of nodes to write.
Lists(e) == saving[e].list # Absent \/ saving[e].pc = "nodes"

NodesVerified == ListVerified(nodes) /\ \A e \in Request : Lists(e) => ListVerified(saving[e].list)

SentInv == NodesVerified /\ SentWhereVerified

LEMMA UnknownIsVerified == \A n, addr : Verified(n, Unknown(addr))
BY DEF Verified, Unknown

LEMMA NoNodesVerified == ListVerified(NoNodes)
BY DEF ListVerified, NoNodes

LEMMA GivenVerified == ASSUME NEW e \in Request, NEW list \in GivenLists(e) PROVE ListVerified(list)
<1>1. PICK at : list = [n \in DOMAIN at |-> Unknown(at[n])]
  BY DEF GivenLists
<1> QED BY <1>1, UnknownIsVerified DEF ListVerified

LEMMA BeginLists ==
    ASSUME ConnectionsTypeOK, NEW e \in Request, CreateConnection(e) \/ UpdateConnection(e) \/ DeleteConnection(e)
    PROVE  /\ UNCHANGED nodes /\ \A f \in Request \ {e} : saving'[f] = saving[f]
           /\ saving'[e].list \in GivenLists(e) \cup {Absent} /\ saving'[e].pc \in {"make", "delete"}
<1>1. \E kind, write : \E to \in {"make", "delete"}, list \in GivenLists(e) \cup {Absent} : Begin(e, kind, to, write, list)
  <2>1. CASE CreateConnection(e)
    BY <2>1, Zenon DEF CreateConnection
  <2>2. CASE UpdateConnection(e)
    BY <2>2, Zenon DEF UpdateConnection
  <2>3. CASE DeleteConnection(e)
    BY <2>3 DEF DeleteConnection
  <2> QED BY <2>1, <2>2, <2>3
<1>2. PICK kind, write : \E to \in {"make", "delete"}, list \in GivenLists(e) \cup {Absent} : Begin(e, kind, to, write, list)
  BY <1>1
<1>3. PICK to \in {"make", "delete"}, list \in GivenLists(e) \cup {Absent} : Begin(e, kind, to, write, list)
  BY <1>2
<1>4. saving'[e] = [kind |-> kind, pc |-> to, read |-> saved, write |-> write, list |-> list, drop |-> {}]
      /\ \A f \in Request \ {e} : saving'[f] = saving[f]
  BY <1>3, BeginIs
<1> QED BY <1>3, <1>4 DEF Begin

\* Of the steps of a request that go on only ListNodes makes a list.
ListsLess == \A f \in Request : Lists(f)' => Lists(f) /\ saving'[f].list = saving[f].list

LEMMA GoOnList ==
    ASSUME ConnectionsTypeOK, NEW e \in Request, NEW to, NEW drop, GoOn(e, to, drop), to = "nodes" => saving[e].list # Absent
    PROVE  ListsLess
<1>1. \A f \in Request \ {e} : saving'[f] = saving[f]
  BY GoOnIs
<1>2. Lists(e)' => Lists(e) /\ saving'[e].list = saving[e].list
  <2>1. CASE to = "done"
    BY <2>1, GoOnIs DEF Lists
  <2>2. CASE to # "done"
    <3>1. saving'[e].list = saving[e].list /\ saving'[e].pc = to
      BY <2>2, GoOnIs
    <3> QED BY <3>1 DEF Lists
  <2> QED BY <2>1, <2>2
<1> QED BY <1>1, <1>2 DEF ListsLess, Lists

LEMMA DeleteSecretsList ==
    ASSUME ConnectionsTypeOK, NEW e \in Request, NEW ids, DeleteSecrets(e, ids)
    PROVE  ListsLess
BY GoOnList DEF DeleteSecrets

LEMMA ListStays ==
    ASSUME ConnectionsTypeOK, NEW e \in Request,
           \/ StoreSecret(e) \/ WriteRow(e) \/ ReplaceNodes(e) \/ Undo(e) \/ DeleteRow(e) \/ DropSecret(e) \/ ForgetLock(e)
    PROVE  ListsLess
<1>1. CASE UNCHANGED saving
  BY <1>1 DEF ListsLess, Lists
<1>2. CASE \E ids : DeleteSecrets(e, ids)
  BY <1>2, DeleteSecretsList
<1>3. CASE \E to, drop : GoOn(e, to, drop) /\ (to = "nodes" => saving[e].list # Absent)
  BY <1>3, GoOnList
<1>4. CASE StoreSecret(e)
  BY <1>1, <1>2, <1>4 DEF StoreSecret
<1>5. CASE WriteRow(e)
  <2>1. CASE GoOn(e, IF saving[e].list = Absent THEN "list" ELSE "nodes", {})
    <3>1. CASE saving[e].list = Absent
      BY <2>1, <3>1, GoOnList
    <3>2. CASE saving[e].list # Absent
      BY <2>1, <3>2, GoOnList
    <3> QED BY <3>1, <3>2
  <2> QED BY <1>2, <1>5, <2>1 DEF WriteRow
<1>6. CASE ReplaceNodes(e)
  <2>1. DeleteSecrets(e, IF saving[e].kind = "update" THEN Replaced(e) ELSE {}) \/ GoOn(e, "undo", {})
    BY <1>6 DEF ReplaceNodes
  <2> QED BY <2>1, DeleteSecretsList, GoOnList
<1>7. CASE Undo(e)
  BY <1>2, <1>7 DEF Undo
<1>8. CASE DeleteRow(e)
  <2>1. GoOn(e, "drop", Named(saving[e].read)) \/ GoOn(e, "done", {})
    BY <1>8 DEF DeleteRow
  <2> QED BY <2>1, GoOnList
<1>9. CASE DropSecret(e)
  <2>1. PICK x \in saving[e].drop :
            GoOn(e, IF saving[e].drop \ {x} # {} THEN "drop" ELSE IF saving[e].kind = "delete" THEN "forget" ELSE "done", saving[e].drop \ {x})
    BY <1>9 DEF DropSecret
  <2> DEFINE to == IF saving[e].drop \ {x} # {} THEN "drop" ELSE IF saving[e].kind = "delete" THEN "forget" ELSE "done"
  <2>2. GoOn(e, to, saving[e].drop \ {x}) /\ to # "nodes"
    BY <2>1
  <2> HIDE DEF to
  <2> QED BY <2>2, GoOnList
<1>10. CASE ForgetLock(e)
  BY <1>10, GoOnList DEF ForgetLock
<1> QED BY <1>4, <1>5, <1>6, <1>7, <1>8, <1>9, <1>10

\* The nodes of a request's step are the ones there were, its list, or none.
LEMMA NodesOfRequest ==
    ASSUME ConnectionsTypeOK, NEW e \in Request, RequestNext(e)
    PROVE  /\ UNCHANGED <<routing, misled>>
           /\ nodes' \in {nodes, NoNodes} \/ (saving[e].pc = "nodes" /\ nodes' = saving[e].list)
BY DEF RequestNext, CreateConnection, UpdateConnection, DeleteConnection, Begin, StoreSecret, WriteRow, ListNodes, ReplaceNodes,
       Undo, DeleteRow, DropSecret, ForgetLock

LEMMA SentRequest == ASSUME ConnectionsTypeOK, SentInv, NEW e \in Request, RequestNext(e) PROVE SentInv'
<1>1. UNCHANGED <<routing, misled>>
  BY NodesOfRequest
<1>2. \A list : ListVerified(list) => ListVerified(list)'
  BY <1>1 DEF ListVerified, Verified
<1>3. ListVerified(nodes')
  <2>1. CASE nodes' \in {nodes, NoNodes}
    BY <2>1, NoNodesVerified DEF SentInv, NodesVerified
  <2>2. CASE saving[e].pc = "nodes" /\ nodes' = saving[e].list
    BY <2>2 DEF SentInv, NodesVerified, Lists
  <2> QED BY <2>1, <2>2, NodesOfRequest
<1>4. \A f \in Request : Lists(f)' => ListVerified(saving'[f].list)
  <2>1. CASE CreateConnection(e) \/ UpdateConnection(e) \/ DeleteConnection(e)
    <3>1. saving'[e].pc # "nodes"
      BY <2>1, BeginLists
    <3>2. Lists(e)' => ListVerified(saving'[e].list)
      BY <2>1, <3>1, BeginLists, GivenVerified DEF Lists
    <3> QED BY <2>1, <3>2, BeginLists DEF SentInv, NodesVerified, Lists
  <2>2. CASE ListNodes(e)
    <3> DEFINE one == [n \in DOMAIN nodes |-> Moved(nodes[n], saving[e].write.addr)]
               new == [n \in {<<e, 1>>} |-> Unknown(saving[e].write.addr)]
    <3>1. ListVerified(one) /\ ListVerified(new) /\ ListVerified(nodes)
      BY UnknownIsVerified DEF ListVerified, Moved, SentInv, NodesVerified
    <3>2. \E list : saving' = [saving EXCEPT ![e].pc = "nodes", ![e].list = list] /\ list \in {one, new, nodes}
      BY <2>2 DEF ListNodes
    <3> HIDE DEF one, new
    <3>3. PICK list : saving' = [saving EXCEPT ![e].pc = "nodes", ![e].list = list] /\ list \in {one, new, nodes}
      BY <3>2
    <3>4. saving \in [Request -> Change] /\ saving[e] \in Change
      BY DEF ConnectionsTypeOK
    <3>5. saving'[e].list = list /\ \A f \in Request \ {e} : saving'[f] = saving[f]
      BY <3>3, <3>4 DEF Change
    <3> QED BY <3>1, <3>3, <3>5 DEF SentInv, NodesVerified, Lists
  <2>3. CASE \/ StoreSecret(e) \/ WriteRow(e) \/ ReplaceNodes(e) \/ Undo(e) \/ DeleteRow(e) \/ DropSecret(e) \/ ForgetLock(e)
    BY <2>3, ListStays DEF SentInv, NodesVerified, ListsLess
  <2> QED BY <2>1, <2>2, <2>3 DEF RequestNext
<1>5. SentWhereVerified'
  BY <1>1 DEF SentInv, SentWhereVerified
<1>6. NodesVerified'
  BY <1>2, <1>3, <1>4 DEF NodesVerified
<1> QED BY <1>5, <1>6 DEF SentInv

\* What a statement is sent to is as its role and its probe say.
LEMMA SentIsVerified ==
    ASSUME NodesVerified, NEW want, NEW n \in FreshNode(want)
    PROVE  /\ nodes[n].asked = nodes[n].addr \/ n \in misled
           /\ nodes[n].role = want \/ (want = "either" /\ nodes[n].role # "unknown")
BY DEF NodesVerified, ListVerified, Verified, FreshNode

LEMMA SentCaller ==
    ASSUME SentInv, NEW c \in Caller, UNCHANGED <<nodes, saving, misled>>, \A d \in Caller \ {c} : routing'[d] = routing[d],
           \/ routing'[c].sent = Absent
           \/ routing'[c].sent = routing[c].sent /\ routing'[c].want = routing[c].want
           \/ \E n \in FreshNode(routing'[c].want) :
                    routing'[c].sent = [node |-> n, addr |-> nodes[n].addr, asked |-> nodes[n].asked, role |-> nodes[n].role]
    PROVE  SentInv'
<1>1. NodesVerified'
  BY DEF SentInv, NodesVerified, Lists, ListVerified, Verified
<1>2. ASSUME NEW d \in Caller, routing'[d].sent # Absent
      PROVE  /\ routing'[d].sent.asked = routing'[d].sent.addr \/ routing'[d].sent.node \in misled
             /\ routing'[d].sent.role = routing'[d].want \/ (routing'[d].want = "either" /\ routing'[d].sent.role # "unknown")
  <2>1. CASE routing'[d].sent = routing[d].sent /\ routing'[d].want = routing[d].want
    BY <1>2, <2>1 DEF SentInv, SentWhereVerified
  <2>2. CASE \E n \in FreshNode(routing'[d].want) :
                    routing'[d].sent = [node |-> n, addr |-> nodes[n].addr, asked |-> nodes[n].asked, role |-> nodes[n].role]
    BY <2>2, SentIsVerified DEF SentInv
  <2> QED BY <1>2, <2>1, <2>2
<1> QED BY <1>1, <1>2 DEF SentInv, SentWhereVerified

LEMMA SentProbe == ASSUME ConnectionsTypeOK, SentInv, NEW c \in Caller, ProbeNode(c) PROVE SentInv'
<1>1. UNCHANGED saving /\ \A d \in Caller : routing'[d].sent = routing[d].sent /\ routing'[d].want = routing[d].want
  BY ProbeNodeIs DEF ProbeNode, UnchangedByCallers
<1>2. CASE UNCHANGED <<nodes, misled>>
  BY <1>1, <1>2 DEF SentInv, NodesVerified, Lists, ListVerified, Verified, SentWhereVerified
<1>3. ASSUME NEW n \in DOMAIN nodes, NEW role \in {"primary", "secondary", "unknown"}, NEW addr \in Addr,
             nodes' = Answered(nodes, n, role, addr), misled' = IF nodes[n].addr = addr THEN misled ELSE misled \cup {n}
      PROVE  SentInv'
  <2>1. misled \subseteq misled' /\ (nodes[n].addr # addr => n \in misled')
    BY <1>3
  <2>2. nodes \in List
    BY DEF ConnectionsTypeOK
  <2>3. /\ DOMAIN nodes' = DOMAIN nodes /\ \A m \in DOMAIN nodes \ {n} : nodes'[m] = nodes[m]
        /\ nodes'[n].role = role /\ nodes'[n].health = (IF role = "unknown" THEN "unreachable" ELSE "healthy")
        /\ nodes'[n].addr = nodes[n].addr /\ nodes'[n].asked = addr
    BY <1>3, <2>2, AnsweredNode
  <2>4. ASSUME NEW m \in DOMAIN nodes PROVE Verified(m, nodes[m])'
    <3>1. CASE m = n
      BY <2>1, <2>3, <3>1 DEF Verified
    <3>2. CASE m # n
      BY <2>1, <2>3, <3>2 DEF SentInv, NodesVerified, ListVerified, Verified
    <3> QED BY <3>1, <3>2
  <2>5. ListVerified(nodes)'
    BY <2>3, <2>4 DEF ListVerified, Verified
  <2>6. \A e \in Request : Lists(e)' => ListVerified(saving[e].list)'
    BY <1>1, <2>1 DEF SentInv, NodesVerified, Lists, ListVerified, Verified
  <2>7. SentWhereVerified'
    BY <1>1, <2>1 DEF SentInv, SentWhereVerified
  <2> QED BY <2>5, <2>6, <2>7 DEF SentInv, NodesVerified
<1> QED BY <1>2, <1>3, ProbeNodeIs

LEMMA AgedVerified == ASSUME NEW list \in List \cup {Absent}, list # Absent, ListVerified(list) PROVE ListVerified(Aged(list))
<1>1. DOMAIN list \subseteq NodeId /\ \A n \in DOMAIN list : list[n] \in Node
  BY ListFacts
<1>2. DOMAIN Aged(list) = DOMAIN list /\ \A n \in DOMAIN list : Aged(list)[n] = [list[n] EXCEPT !.fresh = FALSE]
  BY DEF Aged
<1>3. ASSUME NEW n \in DOMAIN list PROVE Verified(n, Aged(list)[n])
  BY <1>1, <1>2, <1>3 DEF ListVerified, Verified, Node
<1> QED BY <1>2, <1>3 DEF ListVerified

LEMMA SentStep == ConnectionsTypeOK /\ SentInv /\ [ConnectionsNext]_connectionVars => SentInv'
<1> SUFFICES ASSUME ConnectionsTypeOK, SentInv, [ConnectionsNext]_connectionVars PROVE SentInv'
  OBVIOUS
<1>1. CASE UNCHANGED connectionVars
  BY <1>1 DEF connectionVars, SentInv, NodesVerified, Lists, ListVerified, Verified, SentWhereVerified
<1>2. ASSUME NEW e \in Request, RequestNext(e) PROVE SentInv'
  BY <1>2, SentRequest
<1>3. ASSUME NEW c \in Caller, RouteNode(c) \/ ConnectionTopologyLock(c) \/ ReadNodes(c) \/ FinishRefresh(c) \/ RouteAgain(c) PROVE SentInv'
  <2>1. UNCHANGED <<nodes, saving, misled>>
    BY <1>3 DEF RouteNode, ConnectionTopologyLock, ReadNodes, FinishRefresh, RouteAgain, UnchangedByCallers
  <2>2. routing \in [Caller -> Seek] /\ routing[c] \in Seek /\ routing[c].want \in Want
    BY DEF ConnectionsTypeOK, Seek
  <2>3. CASE RouteNode(c)
    BY <2>1, <2>3, RouteNodeIs, SentCaller
  <2>4. CASE RouteAgain(c)
    <3>1. Send(c, routing[c].want, "idle")
      BY <2>4 DEF RouteAgain
    <3>2. /\ \A d \in Caller \ {c} : routing'[d] = routing[d]
          /\ routing'[c].want = routing[c].want
          /\ \/ routing'[c].sent = Absent
             \/ \E n \in FreshNode(routing[c].want) :
                   routing'[c].sent = [node |-> n, addr |-> nodes[n].addr, asked |-> nodes[n].asked, role |-> nodes[n].role]
      BY <2>2, <3>1, SendIs
    <3> QED BY <2>1, <3>2, SentCaller
  <2>5. CASE ConnectionTopologyLock(c) \/ ReadNodes(c) \/ FinishRefresh(c)
    <3>1. \/ routing' = [routing EXCEPT ![c].pc = "wait", ![c].lock = lock']
          \/ routing' = [routing EXCEPT ![c].pc = "probe", ![c].list = nodes]
          \/ routing' = [routing EXCEPT ![c].pc = After(c), ![c].lock = 0]
          \/ routing' = [routing EXCEPT ![c].pc = After(c), ![c].lock = 0, ![c].list = NoNodes]
      BY <2>5 DEF ConnectionTopologyLock, ReadNodes, FinishRefresh
    <3>2. /\ \A d \in Caller \ {c} : routing'[d] = routing[d]
          /\ \/ routing'[c] = [routing[c] EXCEPT !.pc = "wait", !.lock = lock']
             \/ routing'[c] = [routing[c] EXCEPT !.pc = "probe", !.list = nodes]
             \/ routing'[c] = [routing[c] EXCEPT !.pc = After(c), !.lock = 0]
             \/ routing'[c] = [routing[c] EXCEPT !.pc = After(c), !.lock = 0, !.list = NoNodes]
      BY <2>2, <3>1
    <3>3. /\ routing'[c].sent = routing[c].sent /\ routing'[c].want = routing[c].want
          /\ \A d \in Caller \ {c} : routing'[d] = routing[d]
      BY <2>2, <3>2 DEF Seek
    <3> QED BY <2>1, <3>3, SentCaller
  <2> QED BY <1>3, <2>3, <2>4, <2>5
<1>4. CASE Age
  <2>1. UNCHANGED <<routing, misled>> /\ nodes' = Aged(nodes) /\ \A e \in Request : saving'[e].list = Aged(saving[e].list)
    BY <1>4, AgeIs DEF Age
  <2>2. \A list : ListVerified(list) => ListVerified(list)'
    BY <2>1 DEF ListVerified, Verified
  <2>3. ListVerified(nodes')
    <3>1. nodes \in List /\ ListVerified(nodes)
      BY DEF ConnectionsTypeOK, SentInv, NodesVerified
    <3>2. CASE nodes = Absent
      BY <2>1, <3>1, <3>2 DEF Aged
    <3> QED BY <2>1, <3>1, <3>2, AgedVerified
  <2>4. ASSUME NEW e \in Request, Lists(e)' PROVE ListVerified(saving'[e].list)
    <3>1. saving[e].list \in List \cup {Absent} /\ saving'[e].list = Aged(saving[e].list) /\ saving'[e].pc = saving[e].pc
      BY <1>4, <2>1, AgeIs DEF ConnectionsTypeOK, Change
    <3>2. CASE saving[e].list = Absent
      BY <2>4, <3>1, <3>2 DEF Aged, Lists, SentInv, NodesVerified
    <3>3. CASE saving[e].list # Absent
      BY <3>1, <3>3, AgedVerified DEF SentInv, NodesVerified, Lists
    <3> QED BY <3>2, <3>3
  <2>5. SentWhereVerified'
    BY <2>1 DEF SentInv, SentWhereVerified
  <2>6. NodesVerified'
    BY <2>2, <2>3, <2>4 DEF NodesVerified
  <2> QED BY <2>5, <2>6 DEF SentInv
<1>5. CASE Crash
  <2>1. UNCHANGED <<nodes, misled>> /\ \A c \in Caller : routing'[c].sent = Absent
    BY <1>5 DEF Crash
  <2>2. \A e \in Request : Lists(e)' => Lists(e) /\ saving'[e].list = saving[e].list
    BY <1>5, CrashIs DEF Lists
  <2>3. NodesVerified'
    BY <2>1, <2>2 DEF SentInv, NodesVerified, ListVerified, Verified
  <2> QED BY <2>1, <2>3 DEF SentInv, SentWhereVerified
<1> QED BY <1>1, <1>2, <1>3, <1>4, <1>5, SentProbe DEF ConnectionsNext, RequestNext

LEMMA SentInit == ConnectionsInit => SentInv
<1> SUFFICES ASSUME ConnectionsInit PROVE SentInv
  OBVIOUS
<1>1. nodes = NoNodes /\ (\A e \in Request : ~Lists(e)) /\ \A c \in Caller : routing[c].sent = Absent
  BY DEF ConnectionsInit, Idle, Lists
<1> QED BY <1>1, NoNodesVerified DEF SentInv, NodesVerified, SentWhereVerified

\* routeNode sends a statement only to an address that was probed and has the
\* role, also after updateConnection moved the node; a node whose move a probe
\* overlapped apart.
THEOREM StatementsGoWhereVerified == ConnectionsSpec => []SentWhereVerified
<1>1. SentInv => SentWhereVerified
  BY DEF SentInv
<1> QED BY <1>1, ConnectionsTypes, SentInit, SentStep, PTL DEF ConnectionsSpec

-----------------------------------------------------------------------------
(* What is left in the store *)

\* A secret that a request under way is still to name or to delete.
Owes(e, x) ==
    \/ saving[e].pc \in {"make", "list", "nodes", "undo"} /\ x \in Named(saving[e].read) \cup Named(saving[e].write)
    \/ x \in saving[e].drop

\* A request that is alone knows the row.
Knows(e) ==
    /\ saving[e].pc \in {"make", "delete"} => saved = saving[e].read
    /\ saving[e].pc \in {"list", "nodes", "undo"} => saved = saving[e].write

LeftInv ==
    ~left =>
        /\ \A e, f \in Request : Busy(e) /\ Busy(f) => e = f
        /\ \A e \in Request : Knows(e)
        /\ ~torn => \A x \in secrets \ Named(saved) : \E e \in Request : Owes(e, x)

LEMMA IdleOwesNothing == ASSUME ConnectionsTypeOK, NEW e \in Request, ~Busy(e), NEW x PROVE ~Owes(e, x)
BY DEF ConnectionsTypeOK, Stands, Busy, Owes

LEMMA AloneOwes ==
    ASSUME ConnectionsTypeOK, LeftInv, ~left, ~torn, NEW e \in Request, Busy(e)
    PROVE  \A x \in secrets \ Named(saved) : Owes(e, x)
<1> SUFFICES ASSUME NEW x \in secrets \ Named(saved) PROVE Owes(e, x)
  OBVIOUS
<1>1. PICK f \in Request : Owes(f, x)
  BY DEF LeftInv
<1>2. Busy(f)
  BY <1>1, IdleOwesNothing
<1> QED BY <1>1, <1>2 DEF LeftInv

LEMMA LeftBegins == ASSUME ConnectionsTypeOK, LeftInv, NEW e \in Request, Begins(e), left' = (left \/ \E f \in Request : Busy(f)) PROVE LeftInv'
<1> SUFFICES ASSUME ~left' PROVE LeftInv'
  BY DEF LeftInv
<1>1. ~left /\ \A f \in Request : ~Busy(f)
  OBVIOUS
<1>2. UNCHANGED <<saved, secrets, torn>> /\ (\A f \in Request \ {e} : saving'[f] = saving[f]) /\ saving'[e].read = saved
      /\ saving'[e].pc \in {"make", "delete"}
  BY DEF Begins
<1>3. \A f \in Request : Busy(f)' => f = e
  BY <1>1, <1>2 DEF Busy
<1>4. \A f \in Request : Knows(f)'
  <2>1. Knows(e)'
    BY <1>2 DEF Knows
  <2>2. \A f \in Request \ {e} : Knows(f)'
    BY <1>1, <1>2 DEF LeftInv, Knows
  <2> QED BY <2>1, <2>2
<1>5. ~torn => secrets \subseteq Named(saved)
  BY <1>1, IdleOwesNothing DEF LeftInv
<1> QED BY <1>2, <1>3, <1>4, <1>5 DEF LeftInv

LEMMA LeftGoes ==
    ASSUME ConnectionsTypeOK, LeftInv, NEW e \in Request, Goes(e), saving[e].pc # "done", ~left' => ~left /\ Knows(e)',
           ~left' /\ ~torn' => \A x \in secrets' \ Named(saved') : Owes(e, x)'
    PROVE  LeftInv'
<1> SUFFICES ASSUME ~left' PROVE LeftInv'
  BY DEF LeftInv
<1>1. \A f \in Request \ {e} : saving'[f] = saving[f] /\ ~Busy(f)
  BY DEF Goes, LeftInv, Busy
<1>2. \A f \in Request \ {e} : ~Busy(f)' /\ Knows(f)'
  BY <1>1 DEF Busy, Knows
<1> QED BY <1>2 DEF LeftInv

\* What a request that gives up leaves: its own secrets, which it deletes.
LEMMA LeftGivesUp ==
    ASSUME ConnectionsTypeOK, SecretInv, LeftInv, NEW e \in Request, Goes(e), UNCHANGED <<saved, secrets, torn, left>>, saving[e].pc = "make",
           saving'[e].drop = Made(e) \cap secrets, saving'[e].pc \in {"drop", "done"}
    PROVE  LeftInv'
<1>1. Knows(e)'
  BY DEF Knows
<1>2. ASSUME ~left, ~torn, NEW x \in secrets \ Named(saved) PROVE x \in Made(e)
  <2>1. Owes(e, x)
    BY <1>2, AloneOwes DEF Busy
  <2>2. x \in Named(saving[e].read) \cup Named(saving[e].write) /\ saved = saving[e].read
    BY <1>2, <2>1 DEF Owes, ConnectionsTypeOK, Stands, LeftInv, Knows
  <2> QED BY <1>2, <2>2, MadeIsOwn DEF SecretInv, Writes
<1> QED BY <1>1, <1>2, LeftGoes DEF Owes

LEMMA LeftStoreSecret == ASSUME ConnectionsTypeOK, SecretInv, LeftInv, NEW e \in Request, StoreSecret(e) PROVE LeftInv'
<1>1. saving[e].pc = "make" /\ UNCHANGED <<saved, torn, left>>
  BY DEF StoreSecret
<1>2. CASE UNCHANGED saving /\ \E x \in Made(e) : secrets' = secrets \cup {x}
  <2>1. PICK x \in Made(e) : secrets' = secrets \cup {x}
    BY <1>2
  <2>2. Owes(e, x)
    BY <1>1, MadeIsOwn DEF Owes
  <2>3. \A f \in Request : Knows(f)' = Knows(f) /\ Busy(f)' = Busy(f) /\ \A y : Owes(f, y)' = Owes(f, y)
    BY <1>1, <1>2 DEF Knows, Busy, Owes
  <2> QED BY <1>1, <2>1, <2>2, <2>3 DEF LeftInv
<1>3. CASE Goes(e) /\ saving'[e].drop = Made(e) \cap secrets /\ saving'[e].pc \in {"drop", "done"} /\ UNCHANGED secrets
  BY <1>1, <1>3, LeftGivesUp
<1> QED BY <1>2, <1>3, StoreSecretGoes

LEMMA LeftWriteRow == ASSUME ConnectionsTypeOK, SecretInv, LeftInv, NEW e \in Request, WriteRow(e) PROVE LeftInv'
<1>1. saving[e].pc = "make" /\ Unmade(e) = {} /\ UNCHANGED <<secrets, torn, left>> /\ Goes(e)
  BY WriteRowGoes DEF WriteRow
<1>2. CASE saving'[e].pc \in {"drop", "done"} /\ saving'[e].drop = Made(e) /\ UNCHANGED <<saved, stale>>
  <2>1. Made(e) = Made(e) \cap secrets
    BY <1>1 DEF Unmade
  <2> QED BY <1>1, <1>2, <2>1, LeftGivesUp
<1>3. CASE /\ saved' = saving[e].write /\ saving'[e].pc \in {"list", "nodes"}
           /\ saving'[e].read = saving[e].read /\ saving'[e].write = saving[e].write
  <2>1. Knows(e)'
    BY <1>3 DEF Knows
  <2>2. ASSUME ~left, ~torn, NEW x \in secrets PROVE x \in Named(saving[e].read) \cup Named(saving[e].write)
    <3>1. saved = saving[e].read
      BY <1>1, <2>2 DEF LeftInv, Knows
    <3>2. x \notin Named(saved) => Owes(e, x)
      BY <1>1, <2>2, AloneOwes DEF Busy
    <3> QED BY <1>1, <3>1, <3>2 DEF Owes, ConnectionsTypeOK, Stands
  <2>3. ~left /\ ~torn => \A x \in secrets : Owes(e, x)'
    BY <1>3, <2>2 DEF Owes
  <2> QED BY <1>1, <2>1, <2>3, LeftGoes
<1> QED BY <1>2, <1>3, WriteRowGoes

\* What is left over a row that is written: what it replaced.
LEMMA LeftIsReplaced ==
    ASSUME ConnectionsTypeOK, LeftInv, ~left, ~torn, NEW e \in Request, saving[e].pc \in {"list", "nodes", "undo"}
    PROVE  saved = saving[e].write /\ secrets \ Named(saved) \subseteq Replaced(e)
<1>1. saved = saving[e].write
  BY DEF LeftInv, Knows
<1>2. \A x \in secrets \ Named(saved) : Owes(e, x)
  BY AloneOwes DEF Busy
<1>3. saving[e].drop = {}
  BY DEF ConnectionsTypeOK, Stands
<1> QED BY <1>1, <1>2, <1>3 DEF Owes, Replaced

LEMMA LeftListNodes == ASSUME ConnectionsTypeOK, SecretInv, LeftInv, NEW e \in Request, ListNodes(e) PROVE LeftInv'
<1>1. /\ saving[e].pc = "list" /\ saving'[e].pc = "nodes" /\ Goes(e) /\ UNCHANGED <<saved, secrets, torn, left>>
      /\ saving'[e].read = saving[e].read /\ saving'[e].write = saving[e].write
  BY ListNodesGoes DEF ListNodes
<1>2. ~left' => Knows(e)'
  BY <1>1 DEF Knows, LeftInv
<1>3. ~left /\ ~torn => \A x \in secrets \ Named(saved) : Owes(e, x)'
  BY <1>1, LeftIsReplaced DEF Owes, Replaced
<1> QED BY <1>1, <1>2, <1>3, LeftGoes

LEMMA LeftReplaceNodes == ASSUME ConnectionsTypeOK, SecretInv, LeftInv, NEW e \in Request, ReplaceNodes(e) PROVE LeftInv'
<1>1. saving[e].pc = "nodes" /\ Goes(e) /\ UNCHANGED <<saved, secrets, torn, left>>
  BY ReplaceNodesGoes DEF ReplaceNodes
<1>2. ~left /\ ~torn => secrets \ Named(saved) \subseteq Replaced(e)
  BY <1>1, LeftIsReplaced
<1>3. CASE saving'[e].pc \in {"drop", "done"} /\ saving'[e].drop = IF saving[e].kind = "update" THEN Replaced(e) ELSE {}
  <2>1. saving[e].kind # "update" => Replaced(e) = {}
    <3>1. saving[e].kind \in {"create", "update"}
      BY <1>1 DEF ConnectionsTypeOK, Stands
    <3> QED BY <3>1, NamedAbsent DEF SecretInv, Writes, Replaced
  <2>2. Knows(e)'
    BY <1>3 DEF Knows
  <2>3. Replaced(e) \subseteq saving'[e].drop
    BY <1>3, <2>1
  <2> QED BY <1>1, <1>2, <2>2, <2>3, LeftGoes DEF Owes
<1>4. CASE saving'[e].pc = "undo" /\ saving'[e].read = saving[e].read /\ saving'[e].write = saving[e].write
  <2>1. ~left' => Knows(e)'
    BY <1>1, <1>4 DEF Knows, LeftInv
  <2>2. ~left /\ ~torn => \A x \in secrets \ Named(saved) : Owes(e, x)'
    BY <1>2, <1>4 DEF Owes, Replaced
  <2> QED BY <1>1, <2>1, <2>2, LeftGoes
<1> QED BY <1>3, <1>4, ReplaceNodesGoes

LEMMA LeftUndo == ASSUME ConnectionsTypeOK, SecretInv, LeftInv, NEW e \in Request, Undo(e) PROVE LeftInv'
<1>1. /\ saving[e].pc = "undo" /\ Goes(e) /\ saving'[e].pc \in {"drop", "done"} /\ saving'[e].drop = Made(e)
      /\ UNCHANGED <<secrets, left>>
  BY UndoGoes DEF Undo
<1>2. Knows(e)'
  BY <1>1 DEF Knows
<1>3. CASE saved # Absent /\ saved' = saving[e].read /\ UNCHANGED torn
  <2>1. ~left /\ ~torn => secrets \subseteq Named(saving[e].read) \cup Named(saving[e].write)
    BY <1>1, LeftIsReplaced DEF Replaced
  <2>2. Named(saving[e].write) \subseteq Named(saving[e].read) \cup Made(e)
    BY MadeIsOwn DEF SecretInv, Writes
  <2> QED BY <1>1, <1>2, <1>3, <2>1, <2>2, LeftGoes DEF Owes
<1>4. CASE saved = Absent
  <2>1. saving[e].write # Absent
    BY <1>1, AbsentIsNoRow DEF ConnectionsTypeOK, Stands, Row
  <2>2. left \/ torn
    BY <1>1, <1>4, <2>1, LeftIsReplaced
  <2>3. UNCHANGED torn
    BY <1>4, UndoGoes
  <2> QED BY <1>1, <1>2, <2>2, <2>3, LeftGoes
<1>5. CASE torn'
  BY <1>1, <1>2, <1>5, LeftGoes
<1> QED BY <1>3, <1>4, <1>5, UndoGoes

LEMMA LeftDeleteRow == ASSUME ConnectionsTypeOK, SecretInv, LeftInv, NEW e \in Request, DeleteRow(e) PROVE LeftInv'
<1>1. saving[e].pc = "delete" /\ Goes(e) /\ UNCHANGED <<secrets, torn, left>> /\ saving[e].drop = {}
  BY DeleteRowGoes DEF DeleteRow, ConnectionsTypeOK, Stands
<1>2. ~left /\ ~torn => saved = saving[e].read /\ secrets \subseteq Named(saved)
  BY <1>1, AloneOwes DEF LeftInv, Knows, Busy, Owes
<1>3. Knows(e)'
  BY DeleteRowGoes DEF Knows
<1>4. CASE saved' = Absent /\ saving'[e].drop = Named(saving[e].read)
  BY <1>1, <1>2, <1>3, <1>4, LeftGoes DEF Owes
<1>5. CASE UNCHANGED saved
  BY <1>1, <1>2, <1>3, <1>5, LeftGoes
<1> QED BY <1>4, <1>5, DeleteRowGoes

LEMMA LeftDropSecret == ASSUME ConnectionsTypeOK, SecretInv, LeftInv, NEW e \in Request, DropSecret(e) PROVE LeftInv'
<1>1. /\ saving[e].pc = "drop" /\ Goes(e) /\ UNCHANGED <<saved, torn>>
      /\ saving'[e].pc \in {"drop", "forget", "done"}
  BY DropSecretGoes
<1>2. PICK x \in saving[e].drop : /\ saving'[e].drop = saving[e].drop \ {x}
                                  /\ \/ secrets' = secrets \ {x} /\ UNCHANGED left
                                     \/ left' = TRUE /\ UNCHANGED secrets
  BY DropSecretGoes
<1>3. Knows(e)'
  BY <1>1 DEF Knows
<1>4. CASE left'
  BY <1>4 DEF LeftInv
<1>5. CASE secrets' = secrets \ {x} /\ UNCHANGED left
  <2>1. ~left /\ ~torn => secrets \ Named(saved) \subseteq saving[e].drop
    BY <1>1, AloneOwes DEF Busy, Owes
  <2>2. ~left /\ ~torn => \A y \in secrets' \ Named(saved) : Owes(e, y)'
    BY <1>2, <1>5, <2>1 DEF Owes
  <2> QED BY <1>1, <1>3, <1>5, <2>2, LeftGoes
<1> QED BY <1>2, <1>4, <1>5

LEMMA LeftForgetLock == ASSUME ConnectionsTypeOK, SecretInv, LeftInv, NEW e \in Request, ForgetLock(e) PROVE LeftInv'
<1>1. saving[e].pc = "forget" /\ Goes(e) /\ saving'[e].pc = "done" /\ UNCHANGED <<saved, secrets, torn, left>> /\ saving[e].drop = {}
  BY ForgetLockGoes DEF ForgetLock, ConnectionsTypeOK, Stands
<1>2. Knows(e)'
  BY <1>1 DEF Knows
<1>3. ~left /\ ~torn => secrets \subseteq Named(saved)
  BY <1>1, AloneOwes DEF Busy, Owes
<1> QED BY <1>1, <1>2, <1>3, LeftGoes

LEMMA LeftStep == ConnectionsTypeOK /\ SecretInv /\ LeftInv /\ [ConnectionsNext]_connectionVars => LeftInv'
<1> SUFFICES ASSUME ConnectionsTypeOK, SecretInv, LeftInv, [ConnectionsNext]_connectionVars PROVE LeftInv'
  OBVIOUS
<1>1. CASE UNCHANGED <<saved, secrets, saving, torn, left>>
  BY <1>1 DEF LeftInv, Busy, Knows, Owes
<1>2. ASSUME NEW e \in Request, RequestNext(e) PROVE LeftInv'
  <2>1. CASE CreateConnection(e) \/ UpdateConnection(e) \/ DeleteConnection(e)
    <3>1. Begins(e)
      BY <2>1, CreateBegins, UpdateBegins, DeleteBegins DEF SecretInv
    <3>2. left' = (left \/ \E f \in Request : Busy(f))
      BY <2>1 DEF CreateConnection, UpdateConnection, DeleteConnection, Begin
    <3> QED BY <3>1, <3>2, LeftBegins
  <2> QED BY <1>2, <2>1, LeftStoreSecret, LeftWriteRow, LeftListNodes, LeftReplaceNodes, LeftUndo, LeftDeleteRow, LeftDropSecret,
             LeftForgetLock DEF RequestNext
<1>3. ASSUME NEW c \in Caller,
             \/ RouteNode(c) \/ ConnectionTopologyLock(c) \/ ReadNodes(c) \/ ProbeNode(c) \/ FinishRefresh(c) \/ RouteAgain(c)
      PROVE  LeftInv'
  BY <1>1, <1>3 DEF RouteNode, ConnectionTopologyLock, ReadNodes, ProbeNode, FinishRefresh, RouteAgain, UnchangedByCallers
<1>4. CASE Age
  <2>1. UNCHANGED <<saved, secrets, torn, left>>
    BY <1>4 DEF Age
  <2>2. \A e \in Request : /\ saving'[e].pc = saving[e].pc /\ saving'[e].read = saving[e].read
                           /\ saving'[e].write = saving[e].write /\ saving'[e].drop = saving[e].drop
    BY <1>4, AgeIs
  <2>3. \A e \in Request : Busy(e)' = Busy(e) /\ Knows(e)' = Knows(e) /\ \A x : Owes(e, x)' = Owes(e, x)
    BY <2>1, <2>2 DEF Busy, Knows, Owes
  <2> QED BY <2>1, <2>3 DEF LeftInv
<1>5. CASE Crash
  <2>1. UNCHANGED <<saved, secrets, torn>> /\ left' = (left \/ \E e \in Request : Busy(e))
    BY <1>5 DEF Crash
  <2>2. ~left' => ~left /\ \A e \in Request : saving'[e] = saving[e]
    BY <1>5, <2>1, CrashIs DEF Busy
  <2>3. ~left' => \A e \in Request : Busy(e)' = Busy(e) /\ Knows(e)' = Knows(e) /\ \A x : Owes(e, x)' = Owes(e, x)
    BY <2>1, <2>2 DEF Busy, Knows, Owes
  <2> QED BY <2>1, <2>2, <2>3 DEF LeftInv
<1> QED BY <1>1, <1>2, <1>3, <1>4, <1>5 DEF ConnectionsNext, RequestNext, connectionVars

LEMMA LeftInit == ConnectionsInit => LeftInv
BY DEF ConnectionsInit, Idle, LeftInv, Busy, Knows, Owes

\* Requests that do not overlap and whose cleanup does not fail leave no secret
\* behind that no row names, however many calls of the store failed.
THEOREM StoreIsClean == ConnectionsSpec => []NoSecretIsLeft
<1>1. ConnectionsTypeOK /\ LeftInv => NoSecretIsLeft
  BY IdleOwesNothing DEF LeftInv, NoSecretIsLeft
<1> QED BY <1>1, ConnectionsTypes, SecretInit, SecretStep, LeftInit, LeftStep, PTL DEF ConnectionsSpec

=============================================================================
