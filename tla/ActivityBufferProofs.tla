-------------------------- MODULE ActivityBufferProofs ------------------------
(***************************************************************************)
(* Proofs about ActivityBuffer, for any requests, records, capacity of the *)
(* queue and size of a batch.  Each clause of the inductive invariant is a *)
(* definition of its own, and each has a lemma that every step keeps it.   *)
(***************************************************************************)
EXTENDS ActivityBuffer, FiniteSetTheorems, SequenceTheorems, TLAPS

Item  == Record \cup Req \cup {None}
Entry == [id : Record, prev : Record \cup {None}]

TypeOK ==
    /\ queue \in Seq(Item) /\ batch \in Seq(Item)
    /\ writer \in {"receive", "collect", "store", "write", "retry", "release", "done"}
    /\ closer \in {"open", "locking", "draining", "cancelled", "closed", "left"}
    /\ writing \subseteq Proc
    /\ head \in [Proc -> Record \cup {None}]
    /\ rows \in Seq(Entry)
    /\ pc \in [Req -> {"idle", "enqueue", "room", "direct", "write", "flush",
                       "barrier", "wait", "flushed", "unflushed"}]
    /\ rec \in [Req -> Record \cup {None}]
    /\ made \in 0..MaxRecord
    /\ accepted \subseteq Record /\ abandoned \subseteq Record
    /\ purged \subseteq Record
    /\ due \in [Req -> SUBSET Record]

\* What the writer still has to store of its batch.
Hand == IF writer \in {"collect", "store", "write", "retry"} THEN ToSet(batch) ELSE {}

\* A record that a request holds is its own, and in no other place yet.
Fresh ==
    /\ accepted \cup Stored(rows) \cup purged \subseteq 1..made
    /\ \A r \in Req :
           /\ pc[r] \in {"enqueue", "room", "direct", "write"} <=> rec[r] # None
           /\ rec[r] # None =>
                /\ rec[r] \in 1..made
                /\ rec[r] \notin accepted \cup Stored(rows) \cup purged
                /\ \A s \in Req : rec[s] = rec[r] => s = r

\* A record is queued once, accepted when it is queued, and the writer has
\* an empty batch when it receives.
QueuedOnce ==
    /\ (ToSet(queue) \cup ToSet(batch)) \cap Record \subseteq accepted
    /\ \A i, j \in DOMAIN queue : queue[i] \in Record /\ queue[i] = queue[j] => i = j
    /\ \A i, j \in DOMAIN batch : batch[i] \in Record /\ batch[i] = batch[j] => i = j
    /\ ToSet(queue) \cap ToSet(batch) \cap Record = {}
    /\ writer \in {"receive", "done"} => batch = <<>>

\* What was accepted is stored, or was, or is in hand, or was given up.
Accounted ==
    /\ accepted \subseteq Stored(rows) \cup purged \cup abandoned \cup ToSet(queue) \cup Hand
    /\ abandoned # {} => Cancelled

\* No entry of R is there twice.
Single(R) == \A i, j \in DOMAIN R : R[i].id = R[j].id => i = j

\* No entry is stored twice, or stored again later.
StoredOnce ==
    /\ Single(rows)
    /\ Stored(rows) \cap purged = {}
    /\ (ToSet(queue) \cup Hand) \cap (Stored(rows) \cup purged) = {}

\* What is queued before place k, and what the queue does not hold any longer.
Before(q, k) == {q[i] : i \in 1..(k - 1)}
Covered == Stored(rows) \cup purged \cup abandoned \cup Hand

\* A barrier stands for a read that waits, behind what the read is due.
Barriers ==
    /\ (ToSet(queue) \cup ToSet(batch)) \cap Req \subseteq {r \in Req : pc[r] = "wait"}
    /\ \A r \in Req : pc[r] \in {"flush", "barrier"} => due[r] \subseteq accepted
    /\ \A r \in ToSet(batch) \cap Req : due[r] \subseteq Covered
    /\ \A k \in DOMAIN queue :
           queue[k] \in Req => due[queue[k]] \subseteq Covered \cup Before(queue, k)

\* Who writes is alone, and its head is the table's.
OneWriter ==
    /\ \A p, q \in writing : p = q
    /\ Writer \in writing <=> writer = "write"
    /\ \A r \in Req : r \in writing <=> pc[r] = "write"
    /\ \A p \in writing : head[p] = ChainHead(rows)

\* The writer ends after the queue was closed, with nothing left in it.
Ends ==
    /\ Closed => Readers = {}
    /\ writer = "done" => Closed /\ queue = <<>>
    /\ closer = "closed" => writer = "done"

IInv ==
    /\ TypeOK /\ Fresh /\ QueuedOnce /\ Accounted /\ StoredOnce
    /\ Barriers /\ FlushCovers /\ OneWriter /\ Ends /\ ChainUnforked

-----------------------------------------------------------------------------
(* What is left of a sequence *)

\* Every nonempty set of numbers has a least one: the intervals from 0 to its
\* members are well ordered by inclusion.
LEMMA Least ==
    ASSUME NEW T \in SUBSET Nat, T # {}
    PROVE  \E x \in T : \A y \in T : x <= y
<1> DEFINE U == {0..n : n \in T}
<1>1. U \subseteq FiniteSubsetsOf(Nat) /\ U # {}
  <2>1. ASSUME NEW n \in T PROVE 0..n \in FiniteSubsetsOf(Nat)
    <3>1. IsFiniteSet(0..n) BY FS_Interval
    <3>2. 0..n \in SUBSET Nat OBVIOUS
    <3> QED BY <3>1, <3>2 DEF FiniteSubsetsOf
  <2>2. PICK n \in T : TRUE OBVIOUS
  <2>3. 0..n \in U BY <2>2
  <2> QED BY <2>1, <2>3
<1>2. PICK u \in U : \A v \in U : ~ (<<v, u>> \in StrictSubsetOrdering(Nat))
  <2> HIDE DEF U
  <2> QED BY <1>1, WFMin, FS_StrictSubsetOrderingWellFounded, Zenon
<1>3. PICK x \in T : u = 0..x BY <1>2
<1>4. ASSUME NEW y \in T, y < x PROVE FALSE
  <2>1. 0..y \in U /\ 0..y \subseteq 0..x /\ 0..y # 0..x
    <3>1. x \in 0..x /\ x \notin 0..y BY <1>4
    <3> QED BY <1>4, <3>1
  <2>2. 0..y \in SUBSET Nat /\ 0..x \in SUBSET Nat OBVIOUS
  <2>3. <<0..y, u>> \in StrictSubsetOrdering(Nat)
    BY <2>1, <2>2, <1>3 DEF StrictSubsetOrdering
  <2> QED BY <2>1, <2>3, <1>2
<1> QED BY <1>4

\* f lists the numbers of K, each one time, from the least to the greatest.
Lists(f, m, K) ==
    /\ f \in [1..m -> K]
    /\ \A i, j \in 1..m : i < j => f[i] < f[j]
    /\ \A k \in K : \E i \in 1..m : f[i] = k

\* A list of the numbers below n goes on with n.
LEMMA ListGrows ==
    ASSUME NEW n \in Nat \ {0}, NEW J \in SUBSET (1..(n - 1)), NEW m \in Nat,
           NEW f, Lists(f, m, J)
    PROVE  \E g : Lists(g, m + 1, J \cup {n})
<1> DEFINE g == [i \in 1..(m + 1) |-> IF i = m + 1 THEN n ELSE f[i]]
<1>1. ASSUME NEW i \in 1..m PROVE g[i] = f[i] /\ f[i] \in J /\ f[i] \in 1..(n - 1)
  <2>1. f[i] \in J BY DEF Lists
  <2>2. i \in 1..(m + 1) /\ i # m + 1 OBVIOUS
  <2> QED BY <2>1, <2>2
<1>2. g[m + 1] = n /\ 1..(m + 1) = 1..m \cup {m + 1} OBVIOUS
<1>3. g \in [1..(m + 1) -> J \cup {n}] BY <1>1, <1>2
<1> HIDE DEF g
<1>4. ASSUME NEW i \in 1..(m + 1), NEW j \in 1..(m + 1), i < j PROVE g[i] < g[j]
  <2>1. i \in 1..m BY <1>4
  <2>2. CASE j = m + 1 BY <1>1, <1>2, <2>1, <2>2
  <2>3. CASE j \in 1..m BY <1>1, <1>4, <2>1, <2>3 DEF Lists
  <2> QED BY <2>2, <2>3
<1>5. ASSUME NEW k \in J \cup {n} PROVE \E i \in 1..(m + 1) : g[i] = k
  <2>1. CASE k = n BY <1>2, <2>1
  <2>2. CASE k \in J
    <3>1. PICK i \in 1..m : f[i] = k BY <2>2 DEF Lists
    <3> QED BY <1>1, <1>2, <3>1
  <2> QED BY <2>1, <2>2
<1>6. Lists(g, m + 1, J \cup {n}) BY <1>3, <1>4, <1>5 DEF Lists
<1> QED BY <1>6

\* Any numbers up to n can be listed.
LEMMA Listed ==
    ASSUME NEW n \in Nat, NEW K \in SUBSET (1..n)
    PROVE  \E m \in Nat : \E f : Lists(f, m, K)
<1> DEFINE Bad == {k \in Nat : \E J \in SUBSET (1..k) :
                       ~ \E m \in Nat : \E f : Lists(f, m, J)}
<1>1. SUFFICES ASSUME Bad # {} PROVE FALSE OBVIOUS
<1>2. PICK k \in Bad : \A j \in Bad : k <= j
  <2>1. Bad \in SUBSET Nat OBVIOUS
  <2> HIDE DEF Bad
  <2> QED BY <1>1, <2>1, Least
<1>3. PICK J \in SUBSET (1..k) : ~ \E m \in Nat : \E f : Lists(f, m, J)
  OBVIOUS
<1>4. k # 0
  <2>1. SUFFICES ASSUME k = 0 PROVE FALSE OBVIOUS
  <2>2. J = {} BY <2>1
  <2>3. Lists(<<>>, 0, J) BY <2>2 DEF Lists
  <2> QED BY <1>3, <2>3
<1>5. \A I \in SUBSET (1..(k - 1)) : \E m \in Nat : \E f : Lists(f, m, I)
  <2>1. k - 1 \in Nat /\ k - 1 \notin Bad BY <1>2, <1>4
  <2> QED BY <2>1
<1>6. CASE k \notin J
  <2>1. J \in SUBSET (1..(k - 1)) BY <1>6
  <2> QED BY <1>3, <1>5, <2>1
<1>7. CASE k \in J
  <2>1. J \ {k} \in SUBSET (1..(k - 1)) /\ (J \ {k}) \cup {k} = J BY <1>7
  <2>2. PICK m \in Nat : \E f : Lists(f, m, J \ {k}) BY <1>5, <2>1
  <2>3. PICK f : Lists(f, m, J \ {k}) BY <2>2
  <2>4. \E g : Lists(g, m + 1, J)
    <3>1. k \in Nat \ {0} BY <1>4
    <3> HIDE DEF Bad
    <3>2. \E g : Lists(g, m + 1, (J \ {k}) \cup {k}) BY <2>1, <2>3, <3>1, ListGrows
    <3> QED BY <2>1, <3>2
  <2> QED BY <1>3, <2>4
<1> QED BY <1>6, <1>7

\* InOrder lists the places it is given.
LEMMA Ordered ==
    ASSUME NEW n \in Nat, NEW at \in SUBSET (1..n)
    PROVE  Cardinality(at) \in Nat /\ Lists(InOrder(at), Cardinality(at), at)
<1>1. PICK m \in Nat : \E f : Lists(f, m, at) BY Listed
<1>2. PICK f : Lists(f, m, at) BY <1>1
<1>3. f \in Surjection(1..m, at) BY <1>2 DEF Lists, Surjection
<1>4. f \in Injection(1..m, at)
  <2>1. ASSUME NEW i \in 1..m, NEW j \in 1..m, f[i] = f[j] PROVE i = j
    <3>1. f[i] \in 1..n /\ f[j] \in 1..n BY <1>2 DEF Lists
    <3>2. i < j => f[i] < f[j] BY <1>2 DEF Lists
    <3>3. j < i => f[j] < f[i] BY <1>2 DEF Lists
    <3> QED BY <2>1, <3>1, <3>2, <3>3
  <2> QED BY <1>2, <2>1 DEF Lists, Injection, IsInjective
<1>5. Cardinality(at) = m
  BY <1>3, <1>4, FS_CountingElements DEF ExistsBijection, Bijection
<1>6. \A i, j \in DOMAIN f : i < j => f[i] < f[j] BY <1>2 DEF Lists
<1>7. /\ InOrder(at) \in Surjection(1..m, at)
      /\ \A i, j \in DOMAIN InOrder(at) : i < j => InOrder(at)[i] < InOrder(at)[j]
  BY <1>3, <1>5, <1>6 DEF InOrder
<1> QED BY <1>5, <1>7 DEF Lists, Surjection

\* Select keeps the order, and all that lies at the places.
LEMMA Selection ==
    ASSUME NEW X, NEW s \in Seq(X), NEW at \in SUBSET (DOMAIN s)
    PROVE  /\ Select(s, at) \in Seq(X)
           /\ ToSet(Select(s, at)) = {s[i] : i \in at}
           /\ DOMAIN Select(s, at) = 1..Cardinality(at) /\ Cardinality(at) \in Nat
           /\ \A i \in DOMAIN Select(s, at) :
                  /\ Select(s, at)[i] = s[InOrder(at)[i]]
                  /\ InOrder(at)[i] \in at
           /\ Lists(InOrder(at), Cardinality(at), at)
<1>1. Len(s) \in Nat /\ DOMAIN s = 1..Len(s) /\ at \in SUBSET (1..Len(s)) OBVIOUS
<1>2. Cardinality(at) \in Nat /\ Lists(InOrder(at), Cardinality(at), at)
  BY <1>1, Ordered
<1>3. DOMAIN Select(s, at) = 1..Cardinality(at) BY DEF Select
<1>4. ASSUME NEW i \in 1..Cardinality(at)
      PROVE  /\ Select(s, at)[i] = s[InOrder(at)[i]] /\ InOrder(at)[i] \in at
             /\ Select(s, at)[i] \in X
  <2>1. InOrder(at)[i] \in at BY <1>2 DEF Lists
  <2> QED BY <1>1, <2>1 DEF Select
<1>5. Select(s, at) \in Seq(X)
  <2>1. Select(s, at) \in [1..Cardinality(at) -> X] BY <1>4 DEF Select
  <2> QED BY <1>2, <2>1
<1>6. ToSet(Select(s, at)) = {s[i] : i \in at}
  <2>1. ASSUME NEW i \in at PROVE \E j \in DOMAIN Select(s, at) : Select(s, at)[j] = s[i]
    <3>1. PICK j \in 1..Cardinality(at) : InOrder(at)[j] = i BY <1>2 DEF Lists
    <3> QED BY <1>3, <1>4, <3>1
  <2>2. ASSUME NEW j \in DOMAIN Select(s, at)
        PROVE  \E i \in at : Select(s, at)[j] = s[i]
    BY <1>3, <1>4
  <2> QED BY <2>1, <2>2 DEF ToSet
<1> QED BY <1>2, <1>3, <1>4, <1>5, <1>6

\* A list has each number one time, and nothing between two neighbours.
EachOnce(f, m) == \A i, j \in 1..m : f[i] = f[j] => i = j
Neighbours(f, m, K) ==
    /\ \A i \in 1..m : f[i] - 1 \in K => i > 1 /\ f[i - 1] = f[i] - 1
    /\ \A i \in 1..m : f[i] = 1 => i = 1

\* A list tells its places apart, and puts two numbers in a row side by side.
LEMMA ListFacts ==
    ASSUME NEW K, K \subseteq Nat \ {0}, NEW m, m \in Nat, NEW f, Lists(f, m, K)
    PROVE  EachOnce(f, m) /\ Neighbours(f, m, K)
<1>1. \A i \in 1..m : f[i] \in K /\ f[i] \in Nat \ {0} BY DEF Lists
<1>2. \A i, j \in 1..m : i < j => f[i] < f[j] BY DEF Lists
<1>3. ASSUME NEW i \in 1..m, NEW j \in 1..m, f[i] = f[j] PROVE i = j
  <2>1. ~ i < j /\ ~ j < i BY <1>1, <1>2, <1>3
  <2> QED BY <2>1
<1>4. ASSUME NEW i \in 1..m, f[i] - 1 \in K PROVE i > 1 /\ f[i - 1] = f[i] - 1
  <2>1. PICK j \in 1..m : f[j] = f[i] - 1 BY <1>4 DEF Lists
  <2>2. f[j] < f[i] /\ f[i] \in Nat /\ f[j] \in Nat BY <1>1, <2>1
  <2>3. j # i /\ ~ i < j BY <1>2, <2>2
  <2>4. j < i BY <2>3
  <2>5. CASE j # i - 1
    <3>1. i - 1 \in 1..m /\ j < i - 1 /\ i - 1 < i BY <2>4, <2>5
    <3>2. f[j] < f[i - 1] /\ f[i - 1] < f[i] BY <1>2, <3>1
    <3>3. f[i - 1] \in Nat BY <1>1, <3>1
    <3> QED BY <2>1, <2>2, <3>2, <3>3
  <2> QED BY <2>1, <2>4, <2>5
<1>5. ASSUME NEW i \in 1..m, f[i] = 1 PROVE i = 1
  <2>1. SUFFICES ASSUME i # 1 PROVE FALSE OBVIOUS
  <2>2. 1 \in 1..m /\ 1 < i BY <2>1
  <2>3. f[1] < f[i] /\ f[1] \in Nat \ {0} BY <1>1, <1>2, <2>2
  <2> QED BY <1>5, <2>3
<1> QED BY <1>3, <1>4, <1>5 DEF EachOnce, Neighbours

\* The records of a batch, each as often as it is there.
LEMMA RecordsOf ==
    ASSUME NEW s \in Seq(Item)
    PROVE  /\ Records(s) \in Seq(Record)
           /\ ToSet(Records(s)) = ToSet(s) \cap Record
           /\ (\A i, j \in DOMAIN s : s[i] \in Record /\ s[i] = s[j] => i = j)
                => \A i, j \in DOMAIN Records(s) : Records(s)[i] = Records(s)[j] => i = j
<1> DEFINE at == {i \in DOMAIN s : s[i] \in Record}
<1>1. at \in SUBSET (DOMAIN s) OBVIOUS
<1>2. Records(s) = Select(s, at) BY DEF Records
<1>3. \A i \in at : i \in DOMAIN s /\ s[i] \in Record OBVIOUS
<1>4. {s[i] : i \in at} = ToSet(s) \cap Record BY DEF ToSet
<1> HIDE DEF at
<1>5. /\ Records(s) \in Seq(Item)
      /\ ToSet(Records(s)) = {s[i] : i \in at}
      /\ DOMAIN Records(s) = 1..Cardinality(at) /\ Cardinality(at) \in Nat
      /\ \A i \in DOMAIN Records(s) :
             Records(s)[i] = s[InOrder(at)[i]] /\ InOrder(at)[i] \in at
      /\ Lists(InOrder(at), Cardinality(at), at)
  BY <1>1, <1>2, Selection
<1>6. Records(s) \in Seq(Record)
  <2>1. Len(Records(s)) \in Nat /\ Records(s) = [i \in 1..Len(Records(s)) |-> Records(s)[i]]
        /\ DOMAIN Records(s) = 1..Len(Records(s))
    BY <1>5
  <2>2. \A i \in 1..Len(Records(s)) : Records(s)[i] \in Record BY <1>3, <1>5, <2>1
  <2>3. Records(s) \in [1..Len(Records(s)) -> Record] BY <2>1, <2>2
  <2> QED BY <2>1, <2>3
<1>7. ASSUME \A i, j \in DOMAIN s : s[i] \in Record /\ s[i] = s[j] => i = j,
             NEW i \in DOMAIN Records(s), NEW j \in DOMAIN Records(s),
             Records(s)[i] = Records(s)[j]
      PROVE  i = j
  <2>1. InOrder(at)[i] = InOrder(at)[j] BY <1>3, <1>5, <1>7
  <2>2. at \subseteq Nat \ {0} BY <1>1
  <2>3. EachOnce(InOrder(at), Cardinality(at)) BY <1>5, <2>2, ListFacts
  <2> QED BY <1>5, <1>7, <2>1, <2>3 DEF EachOnce
<1> QED BY <1>4, <1>5, <1>6, <1>7

-----------------------------------------------------------------------------
(* The table's chain *)

\* No two entries chain from the same one, and one that does not chain from
\* its predecessor chains from one of P.
Unforked(R)  == \A i, j \in DOMAIN R : R[i].prev = R[j].prev => i = j
Linked(R, P) == \A i \in Breaks(R) : R[i].prev \in P

\* What a table holds are records.
LEMMA StoredRecords ==
    ASSUME NEW R \in Seq(Entry)
    PROVE  Stored(R) \subseteq Record
<1>1. ASSUME NEW i \in DOMAIN R PROVE R[i].id \in Record
  <2>1. R[i] \in Entry OBVIOUS
  <2> QED BY <2>1 DEF Entry
<1> QED BY <1>1 DEF Stored

\* An entry that chains from its predecessor, unless that is none.
LEMMA LinkedTo ==
    ASSUME NEW R \in Seq(Entry), NEW P, Linked(R, P), NEW i \in DOMAIN R
    PROVE  R[i].prev \in P \/ R[i].prev = Preceding(R, i)
  BY DEF Linked, Breaks

\* Entries are known apart by what precedes them.
LEMMA PrecedingOnce ==
    ASSUME NEW R \in Seq(Entry), Single(R), NEW i \in DOMAIN R, NEW j \in DOMAIN R,
           Preceding(R, i) = Preceding(R, j)
    PROVE  i = j
<1>1. \A k \in DOMAIN R : k # 1 => k - 1 \in DOMAIN R /\ R[k - 1].id \in Record
  <2>1. ASSUME NEW k \in DOMAIN R, k # 1 PROVE k - 1 \in DOMAIN R /\ R[k - 1].id \in Record
    <3>1. k - 1 \in DOMAIN R BY <2>1
    <3>2. R[k - 1] \in Entry BY <3>1
    <3> QED BY <3>1, <3>2 DEF Entry
  <2> QED BY <2>1
<1>2. None \notin Record BY BufferAssumption DEF Record
<1>3. CASE i = 1 \/ j = 1 BY <1>1, <1>2, <1>3 DEF Preceding
<1>4. CASE i # 1 /\ j # 1
  <2>1. R[i - 1].id = R[j - 1].id BY <1>4 DEF Preceding
  <2>2. i - 1 = j - 1 BY <1>1, <1>4, <2>1 DEF Single
  <2> QED BY <2>2
<1> QED BY <1>3, <1>4

\* Of two sequences, one behind the other.
LEMMA Joined ==
    ASSUME NEW E, NEW s \in Seq(E), NEW t \in Seq(E)
    PROVE  /\ s \o t \in Seq(E) /\ Len(s \o t) = Len(s) + Len(t)
           /\ \A i \in 1..Len(s) : (s \o t)[i] = s[i]
           /\ \A i \in 1..Len(t) : (s \o t)[Len(s) + i] = t[i]
  OBVIOUS

\* Where the entries of a batch come to lie: in new, behind those of R.
Follow(new, R, items) ==
    /\ new \in Seq(Entry) /\ Len(new) = Len(R) + Len(items)
    /\ \A i \in 1..Len(R) : new[i] = R[i]
    /\ \A i \in 1..Len(items) :
           /\ new[Len(R) + i].id = items[i]
           /\ i = 1 => new[Len(R) + i].prev = ChainHead(R)
           /\ i # 1 => new[Len(R) + i].prev = items[i - 1]

\* A batch chained from the head of the table goes on where the table ends.
LEMMA Batched ==
    ASSUME NEW R \in Seq(Entry), NEW items \in Seq(Record),
           NEW late, late = Chained(ChainHead(R), items), NEW new, new = R \o late
    PROVE  Follow(new, R, items)
<1>1. ChainHead(R) \in Record \cup {None}
  <2>1. CASE R = <<>> BY <2>1 DEF ChainHead
  <2>2. CASE R # <<>>
    <3>1. Len(R) \in DOMAIN R /\ R[Len(R)] \in Entry BY <2>2
    <3> QED BY <2>2, <3>1 DEF ChainHead, Entry
  <2> QED BY <2>1, <2>2
<1>2. late \in Seq(Entry) /\ Len(late) = Len(items)
  <2>1. ASSUME NEW i \in 1..Len(items), i # 1 PROVE items[i - 1] \in Record
    BY <2>1
  <2>2. late \in [1..Len(items) -> Entry] BY <1>1, <2>1 DEF Chained, Entry
  <2> QED BY SMTT(30), <2>2
<1>3. ASSUME NEW i \in 1..Len(items)
      PROVE  /\ late[i].id = items[i]
             /\ i = 1 => late[i].prev = ChainHead(R)
             /\ i # 1 => late[i].prev = items[i - 1]
  BY DEF Chained
<1>4. new \in Seq(Entry) /\ Len(new) = Len(R) + Len(late) BY <1>2, Joined
<1>5. ASSUME NEW i \in 1..Len(R) PROVE new[i] = R[i] BY <1>2, <1>5, Joined
<1>6. ASSUME NEW i \in 1..Len(late) PROVE new[Len(R) + i] = late[i]
  BY <1>2, <1>6, Joined
<1>7. ASSUME NEW i \in 1..Len(items) PROVE new[Len(R) + i] = late[i]
  BY <1>2, <1>6
<1> QED BY <1>2, <1>3, <1>4, <1>5, <1>7 DEF Follow

\* A batch that is appended goes on with the chain.
LEMMA Appending ==
    ASSUME NEW R \in Seq(Entry), NEW P, P \subseteq Record,
           P \cap Stored(R) = {}, Single(R), Unforked(R), Linked(R, P),
           NEW items \in Seq(Record),
           \A i, j \in DOMAIN items : items[i] = items[j] => i = j,
           ToSet(items) \cap (Stored(R) \cup P) = {},
           NEW late, late = Chained(ChainHead(R), items), NEW new, new = R \o late
    PROVE  /\ new \in Seq(Entry) /\ Stored(new) = Stored(R) \cup ToSet(items)
           /\ Single(new) /\ Unforked(new) /\ Linked(new, P)
<1> DEFINE N == Len(R)  M == Len(items)
<1>1. N \in Nat /\ M \in Nat /\ DOMAIN R = 1..N /\ DOMAIN items = 1..M OBVIOUS
<1>2. /\ new \in Seq(Entry) /\ Len(new) = Len(R) + Len(items)
      /\ \A i \in 1..Len(R) : new[i] = R[i]
      /\ \A i \in 1..Len(items) :
            /\ new[Len(R) + i].id = items[i]
            /\ i = 1 => new[Len(R) + i].prev = ChainHead(R)
            /\ i # 1 => new[Len(R) + i].prev = items[i - 1]
  <2>1. Follow(new, R, items) BY Batched
  <2> QED BY <2>1 DEF Follow
<1>5. new \in Seq(Entry) /\ \A i \in 1..N : new[i] = R[i] BY <1>2
<1>6. DOMAIN new = 1..(N + M)
  <2>1. DOMAIN new = 1..Len(new) BY <1>2
  <2> QED BY <1>2, <2>1
<1>4. /\ \A i \in 1..M : new[N + i].id = items[i]
      /\ \A i \in 1..M : i = 1 => new[N + i].prev = ChainHead(R)
      /\ \A i \in 1..M : i # 1 => new[N + i].prev = items[i - 1]
  BY <1>2, Zenon
<1> HIDE DEF N, M
<1>7. ASSUME NEW k \in DOMAIN new, k \in 1..N PROVE new[k] = R[k] /\ k \in DOMAIN R
  BY <1>1, <1>5, <1>7
<1>8. ASSUME NEW k \in DOMAIN new, k \notin 1..N
      PROVE  /\ k - N \in 1..M /\ new[k].id = items[k - N]
             /\ k - N # 1 => new[k].prev = items[(k - N) - 1]
             /\ k - N = 1 => new[k].prev = ChainHead(R)
  <2>1. k - N \in 1..M /\ k = N + (k - N) BY <1>1, <1>6, <1>8
  <2> QED BY <1>4, <2>1
<1>9. ASSUME NEW k \in DOMAIN new, k \notin 1..N PROVE new[k].prev = Preceding(new, k)
  <2>1. k \in Nat \ {0} /\ k > N /\ k # 1 => k - 1 \in DOMAIN new
    BY <1>1, <1>6, <1>9
  <2>2. CASE k - N # 1
    <3>1. k - 1 \in DOMAIN new /\ k - 1 \notin 1..N /\ (k - 1) - N = (k - N) - 1 /\ k # 1
      BY <1>1, <1>9, <2>1, <2>2
    <3>2. new[k - 1].id = items[(k - N) - 1] BY <1>8, <3>1
    <3>3. new[k].prev = items[(k - N) - 1] BY <1>8, <1>9, <2>2
    <3>4. Preceding(new, k) = new[k - 1].id BY <3>1 DEF Preceding
    <3> QED BY <3>2, <3>3, <3>4, Zenon
  <2>3. CASE k - N = 1 /\ N = 0
    <3>1. R = <<>> /\ k = 1 BY <1>1, <2>1, <2>3 DEF N
    <3>2. new[k].prev = ChainHead(R) BY <1>8, <1>9, <2>3
    <3> QED BY <3>1, <3>2 DEF Preceding, ChainHead
  <2>4. CASE k - N = 1 /\ N # 0
    <3>1. R # <<>> /\ N \in 1..N /\ k - 1 = N /\ k # 1 BY <1>1, <2>1, <2>4 DEF N
    <3>2. new[N].id = R[N].id BY <1>5, <3>1
    <3>3. new[k].prev = ChainHead(R) BY <1>8, <1>9, <2>4
    <3>4. ChainHead(R) = R[N].id BY <3>1 DEF ChainHead, N
    <3>5. Preceding(new, k) = new[N].id BY <3>1 DEF Preceding
    <3> QED BY <3>2, <3>3, <3>4, <3>5, Zenon
  <2> QED BY <1>1, <2>2, <2>3, <2>4
<1>10. ASSUME NEW k \in DOMAIN new
       PROVE  IF k \in 1..N THEN new[k].id \in Stored(R) ELSE new[k].id \in ToSet(items)
  <2>1. CASE k \in 1..N BY <1>7, <2>1 DEF Stored
  <2>2. CASE k \notin 1..N
    <3>1. k - N \in DOMAIN items /\ new[k].id = items[k - N] BY <1>1, <1>8, <2>2
    <3> QED BY <2>2, <3>1 DEF ToSet
  <2> QED BY <2>1, <2>2
<1>11. Stored(new) = Stored(R) \cup ToSet(items)
  <2>1. Stored(new) \subseteq Stored(R) \cup ToSet(items)
    <3>1. ASSUME NEW x \in Stored(new) PROVE x \in Stored(R) \cup ToSet(items)
      <4>1. PICK k \in DOMAIN new : x = new[k].id BY DEF Stored
      <4> QED BY <1>10, <4>1
    <3> QED BY <3>1
  <2>2. ASSUME NEW x \in Stored(R) PROVE x \in Stored(new)
    <3>1. PICK i \in DOMAIN R : x = R[i].id BY DEF Stored
    <3>2. i \in DOMAIN new /\ new[i] = R[i] BY <1>1, <1>5, <1>6
    <3> QED BY <3>1, <3>2 DEF Stored
  <2>3. ASSUME NEW x \in ToSet(items) PROVE x \in Stored(new)
    <3>1. PICK i \in DOMAIN items : x = items[i] BY DEF ToSet
    <3>2. N + i \in DOMAIN new /\ i \in 1..M BY <1>1, <1>6
    <3>3. new[N + i].id = items[i] BY <1>4, <3>2
    <3> QED BY <3>1, <3>2, <3>3 DEF Stored
  <2> QED BY <2>1, <2>2, <2>3
<1>12. Single(new)
  <2>1. SUFFICES ASSUME NEW i \in DOMAIN new, NEW j \in DOMAIN new, new[i].id = new[j].id
                 PROVE  i = j
    BY DEF Single
  <2>2. CASE i \in 1..N /\ j \in 1..N BY <1>7, <2>1, <2>2 DEF Single
  <2>3. CASE i \notin 1..N /\ j \notin 1..N
    <3>1. /\ i - N \in DOMAIN items /\ j - N \in DOMAIN items
          /\ items[i - N] = items[j - N]
      BY <1>1, <1>8, <2>1, <2>3
    <3>2. i - N = j - N BY <3>1
    <3> QED BY <1>1, <1>6, <3>2
  <2>4. CASE ~ (i \in 1..N <=> j \in 1..N) BY <1>10, <2>1, <2>4
  <2> QED BY <2>2, <2>3, <2>4
<1>13. ASSUME NEW k \in DOMAIN new, k \in 1..N PROVE Preceding(new, k) = Preceding(R, k)
  <2>1. k = 1 \/ (k - 1 \in DOMAIN new /\ k - 1 \in 1..N) BY <1>1, <1>6, <1>13
  <2> QED BY <1>7, <2>1 DEF Preceding
<1>14. Linked(new, P)
  <2>1. SUFFICES ASSUME NEW k \in DOMAIN new, new[k].prev # Preceding(new, k)
                 PROVE  new[k].prev \in P
    BY DEF Linked, Breaks
  <2>2. k \in 1..N BY <1>9, <2>1
  <2>3. k \in DOMAIN R /\ R[k].prev = new[k].prev /\ R[k].prev # Preceding(R, k)
    BY <1>7, <1>13, <2>1, <2>2
  <2> QED BY <2>3 DEF Linked, Breaks
<1>15. ASSUME NEW i \in DOMAIN new, i \in 1..N, NEW j \in DOMAIN new, j \notin 1..N
       PROVE  new[i].prev # new[j].prev
  <2>1. j # 1 /\ j - 1 \in DOMAIN new /\ i # j BY <1>1, <1>6, <1>15
  <2>2. new[j].prev = Preceding(new, j) BY <1>9, <1>15
  <2>3. Preceding(new, j) = new[j - 1].id BY <2>1 DEF Preceding
  <2>4. new[j - 1].id \notin P BY <1>10, <2>1
  <2>5. Preceding(new, i) # Preceding(new, j) BY <1>5, <1>12, <2>1, PrecedingOnce
  <2>6. new[i].prev \in P \/ new[i].prev = Preceding(new, i)
    BY <1>5, <1>14, LinkedTo
  <2> QED BY <2>2, <2>3, <2>4, <2>5, <2>6
<1>16. Unforked(new)
  <2>1. SUFFICES ASSUME NEW i \in DOMAIN new, NEW j \in DOMAIN new, new[i].prev = new[j].prev
                 PROVE  i = j
    BY DEF Unforked
  <2>2. CASE i \in 1..N /\ j \in 1..N BY <1>7, <2>1, <2>2 DEF Unforked
  <2>3. CASE i \notin 1..N /\ j \notin 1..N
    <3>1. Preceding(new, i) = Preceding(new, j) BY <1>9, <2>1, <2>3
    <3> QED BY <1>5, <1>12, <3>1, PrecedingOnce
  <2>4. CASE ~ (i \in 1..N <=> j \in 1..N) BY <1>15, <2>1, <2>4
  <2> QED BY <2>2, <2>3, <2>4
<1> QED BY <1>5, <1>11, <1>12, <1>14, <1>16

\* What retention leaves is a chain from which the entries are missing that
\* it removed.
LEMMA Keeping ==
    ASSUME NEW R \in Seq(Entry), NEW P, Single(R), Unforked(R), Linked(R, P),
           NEW old, NEW new, new = Kept(R, old)
    PROVE  /\ new \in Seq(Entry) /\ Stored(new) = Stored(R) \ old
           /\ Single(new) /\ Unforked(new) /\ Linked(new, P \cup (Stored(R) \cap old))
<1> DEFINE at == {i \in DOMAIN R : R[i].id \notin old}
           f  == InOrder(at)
           m  == Cardinality(at)
<1>1. at \in SUBSET (DOMAIN R) /\ \A i \in DOMAIN R : i \in at <=> R[i].id \notin old
  OBVIOUS
<1>2. new = Select(R, at) BY DEF Kept
<1> HIDE DEF at
<1>3. /\ Select(R, at) \in Seq(Entry) /\ m \in Nat
      /\ DOMAIN Select(R, at) = 1..m
      /\ \A i \in DOMAIN Select(R, at) : Select(R, at)[i] = R[f[i]] /\ f[i] \in at
      /\ Lists(f, m, at)
      /\ ToSet(Select(R, at)) = {R[i] : i \in at}
  BY <1>1, Selection
<1>4. EachOnce(f, m) /\ Neighbours(f, m, at)
  <2>1. at \subseteq Nat \ {0} BY <1>1
  <2> QED BY <1>3, <2>1, ListFacts
<1> HIDE DEF f, m
<1>5. new \in Seq(Entry) /\ DOMAIN new = 1..m BY <1>2, <1>3
<1>6. ASSUME NEW i \in 1..m
      PROVE  f[i] \in DOMAIN R /\ new[i] = R[f[i]] /\ R[f[i]].id \notin old
  BY <1>1, <1>2, <1>3
<1>7. ASSUME NEW i \in 1..m, NEW j \in 1..m, f[i] = f[j] PROVE i = j
  BY <1>4, <1>7 DEF EachOnce
<1>8. Stored(new) = Stored(R) \ old
  <2>1. ASSUME NEW x \in Stored(new) PROVE x \in Stored(R) \ old
    <3>1. PICK i \in 1..m : x = new[i].id BY <1>5 DEF Stored
    <3> QED BY <1>6, <3>1 DEF Stored
  <2>2. ASSUME NEW x \in Stored(R) \ old PROVE x \in Stored(new)
    <3>1. PICK k \in DOMAIN R : x = R[k].id BY DEF Stored
    <3>2. k \in at BY <1>1, <3>1
    <3>3. PICK i \in 1..m : f[i] = k BY <1>3, <3>2 DEF Lists
    <3> QED BY <1>5, <1>6, <3>1, <3>3 DEF Stored
  <2> QED BY <2>1, <2>2
<1>9. Single(new) BY <1>5, <1>6, <1>7 DEF Single
<1>10. Unforked(new) BY <1>5, <1>6, <1>7 DEF Unforked
<1>11. ASSUME NEW i \in 1..m, new[i].prev # Preceding(new, i)
       PROVE  new[i].prev \in P \cup (Stored(R) \cap old)
  <2>1. PICK k : k = f[i] OBVIOUS
  <2>2. k \in DOMAIN R /\ new[i] = R[k] BY <1>6, <2>1
  <2>3. CASE R[k].prev # Preceding(R, k) BY <2>2, <2>3 DEF Linked, Breaks
  <2>4. CASE R[k].prev = Preceding(R, k) /\ k = 1
    <3>1. i = 1 BY <1>4, <2>1, <2>4 DEF Neighbours
    <3> QED BY <1>11, <2>2, <2>4, <3>1 DEF Preceding
  <2>5. CASE R[k].prev = Preceding(R, k) /\ k # 1
    <3>1. k - 1 \in DOMAIN R /\ R[k].prev = R[k - 1].id BY <2>2, <2>5 DEF Preceding
    <3>2. CASE k - 1 \in at
      <4>1. i > 1 /\ f[i - 1] = k - 1 BY <1>4, <2>1, <3>2 DEF Neighbours
      <4>2. i - 1 \in 1..m /\ i # 1 BY <1>3, <4>1
      <4>3. new[i - 1] = R[k - 1] BY <1>6, <4>1, <4>2
      <4> QED BY <1>11, <2>2, <3>1, <4>2, <4>3 DEF Preceding
    <3>3. CASE k - 1 \notin at BY <1>1, <2>2, <3>1, <3>3 DEF Stored
    <3> QED BY <3>2, <3>3
  <2> QED BY <2>3, <2>4, <2>5
<1>12. Linked(new, P \cup (Stored(R) \cap old)) BY <1>5, <1>11 DEF Linked, Breaks
<1> QED BY <1>5, <1>8, <1>9, <1>10, <1>12

-----------------------------------------------------------------------------
(* The queue and the batch *)

\* Records, requests and None are told apart.
LEMMA Apart ==
    /\ None \notin Record /\ None \notin Req /\ None \notin Proc
    /\ Req \cap Record = {} /\ Writer \in Proc /\ Writer \notin Req /\ Req \subseteq Proc
  BY BufferAssumption DEF Record, Proc

\* An item that is put at the end.
LEMMA Put ==
    ASSUME NEW s \in Seq(Item), NEW x \in Item, NEW t, t = Append(s, x)
    PROVE  /\ t \in Seq(Item) /\ DOMAIN t = DOMAIN s \cup {Len(s) + 1}
           /\ Len(s) + 1 \notin DOMAIN s /\ t[Len(s) + 1] = x
           /\ \A i \in DOMAIN s : t[i] = s[i] /\ 1..(i - 1) \subseteq DOMAIN s
           /\ 1..(Len(s) + 1 - 1) = DOMAIN s /\ Len(s) \in Nat
           /\ ToSet(t) = ToSet(s) \cup {x}
<1>1. t \in Seq(Item) /\ Len(t) = Len(s) + 1 /\ Len(s) \in Nat OBVIOUS
<1>2. /\ DOMAIN t = DOMAIN s \cup {Len(s) + 1} /\ t[Len(s) + 1] = x
      /\ Len(s) + 1 \notin DOMAIN s
  BY <1>1
<1>3. \A i \in DOMAIN s : t[i] = s[i] OBVIOUS
<1>4. (\A i \in DOMAIN s : 1..(i - 1) \subseteq DOMAIN s) /\ 1..(Len(s) + 1 - 1) = DOMAIN s
  BY <1>1
<1>5. ToSet(t) = ToSet(s) \cup {x} BY <1>2, <1>3 DEF ToSet
<1> QED BY <1>1, <1>2, <1>3, <1>4, <1>5

\* The item at the front that is taken off.
LEMMA Taken ==
    ASSUME NEW s \in Seq(Item), s # <<>>
    PROVE  /\ Head(s) \in Item /\ Tail(s) \in Seq(Item) /\ Head(s) = s[1]
           /\ 1 \in DOMAIN s
           /\ \A i \in DOMAIN Tail(s) : i + 1 \in DOMAIN s /\ Tail(s)[i] = s[i + 1] /\ i \in Nat
           /\ \A i \in DOMAIN s : i # 1 => i - 1 \in DOMAIN Tail(s) /\ s[i] = Tail(s)[i - 1]
           /\ ToSet(s) = ToSet(Tail(s)) \cup {Head(s)}
<1>1. /\ Head(s) \in Item /\ Tail(s) \in Seq(Item) /\ Head(s) = s[1]
      /\ 1 \in DOMAIN s
  OBVIOUS
<1>2. \A i \in DOMAIN Tail(s) : i + 1 \in DOMAIN s /\ Tail(s)[i] = s[i + 1] /\ i \in Nat
  OBVIOUS
<1>3. \A i \in DOMAIN s : i # 1 => i - 1 \in DOMAIN Tail(s) /\ s[i] = Tail(s)[i - 1]
  OBVIOUS
<1>4. ToSet(s) = ToSet(Tail(s)) \cup {Head(s)}
  <2>1. ASSUME NEW x \in ToSet(s) PROVE x \in ToSet(Tail(s)) \cup {Head(s)}
    <3>1. PICK i \in DOMAIN s : x = s[i] BY DEF ToSet
    <3>2. CASE i = 1 BY <1>1, <3>1, <3>2
    <3>3. CASE i # 1 BY <1>3, <3>1, <3>3 DEF ToSet
    <3> QED BY <3>2, <3>3
  <2>2. ASSUME NEW x \in ToSet(Tail(s)) PROVE x \in ToSet(s)
    <3>1. PICK i \in DOMAIN Tail(s) : x = Tail(s)[i] BY DEF ToSet
    <3> QED BY <1>2, <3>1 DEF ToSet
  <2>3. Head(s) \in ToSet(s) BY <1>1 DEF ToSet
  <2> QED BY <2>1, <2>2, <2>3
<1> QED BY <1>1, <1>2, <1>3, <1>4

\* The barriers of W that are let go.
Without(t, s, W) ==
    /\ t \in Seq(Item) /\ DOMAIN t = DOMAIN s
    /\ ToSet(t) \cap Record = ToSet(s) \cap Record
    /\ ToSet(t) \cap Req = (ToSet(s) \cap Req) \ W
    /\ \A i \in DOMAIN s : (t[i] \in Record \/ t[i] \in Req) => t[i] = s[i]
    /\ \A i \in DOMAIN s : s[i] \in Record => t[i] = s[i]

\* The barriers of W are blanked out, and nothing else.
LEMMA LetGo ==
    ASSUME NEW s \in Seq(Item), NEW W, W \cap Record \cap ToSet(s) = {}, NEW t,
           t = [i \in DOMAIN s |-> IF s[i] \in W THEN None ELSE s[i]]
    PROVE  Without(t, s, W)
<1>1. Len(s) \in Nat /\ DOMAIN s = 1..Len(s) /\ \A i \in DOMAIN s : s[i] \in Item
  OBVIOUS
<1>2. DOMAIN t = DOMAIN s /\ \A i \in DOMAIN s : t[i] = IF s[i] \in W THEN None ELSE s[i]
  OBVIOUS
<1>3. t \in Seq(Item)
  <2>1. t \in [1..Len(s) -> Item] BY <1>1 DEF Item
  <2> QED BY <1>1, <2>1
<1>4. \A i \in DOMAIN s : s[i] \in Record => t[i] = s[i]
  BY <1>2 DEF ToSet
<1>5. \A i \in DOMAIN s : (t[i] \in Record \/ t[i] \in Req) => t[i] = s[i] /\ t[i] \notin W
  BY <1>2, Apart
<1>6. \A i \in DOMAIN s : s[i] \in Req /\ s[i] \notin W => t[i] = s[i]
  BY <1>2
<1>7. ToSet(t) \cap Record = ToSet(s) \cap Record
  BY <1>2, <1>4, <1>5 DEF ToSet
<1>8. ToSet(t) \cap Req = (ToSet(s) \cap Req) \ W
  BY <1>2, <1>5, <1>6 DEF ToSet
<1> QED BY <1>2, <1>3, <1>4, <1>5, <1>7, <1>8 DEF Without

-----------------------------------------------------------------------------
(* Writes *)

\* A transaction that commits goes on with the chain.
LEMMA Committing ==
    ASSUME IInv, NEW p \in writing, NEW items \in Seq(Record), Commit(p, items),
           \A i, j \in DOMAIN items : items[i] = items[j] => i = j,
           ToSet(items) \cap (Stored(rows) \cup purged) = {}
    PROVE  /\ rows' \in Seq(Entry) /\ Stored(rows') = Stored(rows) \cup ToSet(items)
           /\ Single(rows') /\ Unforked(rows') /\ Linked(rows', purged)
           /\ writing' = {} /\ head' \in [Proc -> Record \cup {None}]
<1>1. rows' = rows \o Chained(ChainHead(rows), items)
  BY DEF IInv, OneWriter, Commit, EndWrite
<1>2. rows \in Seq(Entry) /\ purged \subseteq Record BY DEF IInv, TypeOK
<1>3. Single(rows) /\ Unforked(rows) /\ Linked(rows, purged) /\ purged \cap Stored(rows) = {}
  BY DEF IInv, StoredOnce, ChainUnforked, Unforked, Linked
<1>4. /\ rows' \in Seq(Entry) /\ Stored(rows') = Stored(rows) \cup ToSet(items)
      /\ Single(rows') /\ Unforked(rows') /\ Linked(rows', purged)
  BY ZenonT(30), <1>1, <1>2, <1>3, Appending
<1>5. writing' = {} BY DEF IInv, OneWriter, Commit, EndWrite
<1>6. head' \in [Proc -> Record \cup {None}] BY DEF IInv, TypeOK, Commit, EndWrite
<1> QED BY <1>4, <1>5, <1>6

\* One that does not leaves the table as it is.
LEMMA RollingBack ==
    ASSUME IInv, NEW p \in writing, NEW items, Rollback(p, items)
    PROVE  rows' = rows /\ writing' = {} /\ head' \in [Proc -> Record \cup {None}]
  BY DEF IInv, TypeOK, OneWriter, Rollback, EndWrite, Unwritten

\* One that begins has the head of the table.
LEMMA Beginning ==
    ASSUME IInv, NEW p \in Proc, BeginWrite(p)
    PROVE  /\ rows' = rows /\ writing' = {p} /\ head'[p] = ChainHead(rows)
           /\ head' \in [Proc -> Record \cup {None}]
<1>1. ChainHead(rows) \in Record \cup {None}
  <2>1. CASE rows = <<>> BY <2>1 DEF ChainHead
  <2>2. CASE rows # <<>>
    <3>1. rows[Len(rows)] \in Entry BY <2>2 DEF IInv, TypeOK
    <3> QED BY <2>2, <3>1 DEF ChainHead, Entry
  <2> QED BY <2>1, <2>2
<1> QED BY <1>1 DEF IInv, TypeOK, BeginWrite, MayWrite

\* What the writer's transaction stores.
LEMMA BatchRecords ==
    ASSUME IInv
    PROVE  /\ Records(batch) \in Seq(Record)
           /\ ToSet(Records(batch)) = ToSet(batch) \cap Record
           /\ \A i, j \in DOMAIN Records(batch) :
                  Records(batch)[i] = Records(batch)[j] => i = j
           /\ HasData <=> ToSet(batch) \cap Record # {}
<1>1. /\ Records(batch) \in Seq(Record)
      /\ ToSet(Records(batch)) = ToSet(batch) \cap Record
      /\ (\A i, j \in DOMAIN batch : batch[i] \in Record /\ batch[i] = batch[j] => i = j)
           => \A i, j \in DOMAIN Records(batch) :
                  Records(batch)[i] = Records(batch)[j] => i = j
  <2>1. batch \in Seq(Item) BY DEF IInv, TypeOK
  <2> QED BY <2>1, RecordsOf
<1>2. \A i, j \in DOMAIN batch : batch[i] \in Record /\ batch[i] = batch[j] => i = j
  BY DEF IInv, QueuedOnce
<1>3. Records(batch) # <<>> <=> ToSet(Records(batch)) # {}
  <2>1. CASE Records(batch) = <<>> BY <2>1 DEF ToSet
  <2>2. CASE Records(batch) # <<>>
    <3>1. 1 \in DOMAIN Records(batch) BY <1>1, <2>2
    <3> QED BY <2>2, <3>1 DEF ToSet
  <2> QED BY <2>1, <2>2
<1> QED BY <1>1, <1>2, <1>3 DEF HasData

\* The writer's transaction.
LEMMA BatchCommits ==
    ASSUME IInv, CommitBatch
    PROVE  /\ rows' \in Seq(Entry)
           /\ Stored(rows') = Stored(rows) \cup (ToSet(batch) \cap Record)
           /\ Single(rows') /\ Unforked(rows') /\ Linked(rows', purged)
           /\ writing' = {} /\ head' \in [Proc -> Record \cup {None}]
<1>1. Writer \in writing /\ Hand = ToSet(batch)
  BY DEF IInv, OneWriter, CommitBatch, Hand
<1>2. ToSet(Records(batch)) \cap (Stored(rows) \cup purged) = {}
  BY <1>1, BatchRecords DEF IInv, StoredOnce
<1>3. Commit(Writer, Records(batch)) BY DEF CommitBatch
<1> QED BY <1>1, <1>2, <1>3, BatchRecords, Committing

\* A direct write: it is stored, or not.
LEMMA DirectWrites ==
    ASSUME IInv, NEW r \in Req, WriteDirect(r)
    PROVE  /\ rows' \in Seq(Entry)
           /\ rows' = rows \/ Stored(rows') = Stored(rows) \cup {rec[r]}
           /\ Single(rows') /\ Unforked(rows') /\ Linked(rows', purged)
           /\ writing' = {} /\ head' \in [Proc -> Record \cup {None}]
           /\ rec[r] \in Record /\ rec[r] \notin accepted
<1>1. r \in writing BY DEF IInv, OneWriter, WriteDirect
<1>2. /\ rec[r] \in Record /\ rec[r] \notin accepted \cup Stored(rows) \cup purged
  BY DEF IInv, TypeOK, Fresh, WriteDirect
<1>3. CASE Commit(r, <<rec[r]>>)
  <2>1. <<rec[r]>> \in Seq(Record) /\ DOMAIN <<rec[r]>> = {1} BY <1>2
  <2>2. ToSet(<<rec[r]>>) = {rec[r]} BY DEF ToSet
  <2>3. /\ \A i, j \in DOMAIN <<rec[r]>> : <<rec[r]>>[i] = <<rec[r]>>[j] => i = j
        /\ ToSet(<<rec[r]>>) \cap (Stored(rows) \cup purged) = {}
    BY <1>2, <2>1, <2>2
  <2> QED BY <1>1, <1>2, <1>3, <2>1, <2>2, <2>3, Committing
<1>4. CASE Rollback(r, <<rec[r]>>)
  <2>1. rows' = rows /\ writing' = {} /\ head' \in [Proc -> Record \cup {None}]
    BY <1>1, <1>4, RollingBack
  <2> QED BY <1>2, <2>1
      DEF IInv, TypeOK, StoredOnce, ChainUnforked, Unforked, Linked
<1> QED BY <1>3, <1>4 DEF WriteDirect

\* Retention.
LEMMA Purging ==
    ASSUME IInv, NEW n \in Record, Purge(n)
    PROVE  /\ rows' \in Seq(Entry)
           /\ Stored(rows') = Stored(rows) \ (1..n)
           /\ purged' = purged \cup (Stored(rows) \cap (1..n))
           /\ Single(rows') /\ Unforked(rows') /\ Linked(rows', purged')
           /\ writing = {}
<1>1. rows' = Kept(rows, 1..n) /\ purged' = purged \cup (Stored(rows) \cap (1..n))
      /\ writing = {}
  BY DEF Purge, MayWrite
<1>2. rows \in Seq(Entry) /\ Single(rows) /\ Unforked(rows) /\ Linked(rows, purged)
  BY DEF IInv, TypeOK, StoredOnce, ChainUnforked, Unforked, Linked
<1> QED BY <1>1, <1>2, Keeping

-----------------------------------------------------------------------------
(* The steps *)

\* What only moves the request that takes it.
Moves(r) == EnqueueNot(r) \/ EnqueueGivesUp(r) \/ BarrierNot(r) \/ BarrierShutdown(r)

\* What only moves a request, case by case.
LEMMA Moving ==
    ASSUME NEW r \in Req, Moves(r)
    PROVE  /\ UNCHANGED <<queue, batch, writer, closer, table, rec, due, history>>
           /\ \/ /\ pc[r] \in {"enqueue", "room"}
                 /\ pc' = [pc EXCEPT ![r] = "direct"]
              \/ /\ pc[r] = "enqueue" /\ ~Closed
                 /\ pc' = [pc EXCEPT ![r] = "room"]
              \/ /\ pc[r] \in {"flush", "barrier"} /\ Shutdown
                 /\ pc' = [pc EXCEPT ![r] = "flushed"]
              \/ /\ pc[r] = "flush" /\ ~Closed
                 /\ pc' = [pc EXCEPT ![r] = "barrier"]
<1>1. CASE EnqueueNot(r) BY <1>1 DEF EnqueueNot, Goto
<1>2. CASE EnqueueGivesUp(r) BY <1>2 DEF EnqueueGivesUp, Goto
<1>3. CASE BarrierNot(r)
  <2>1. Closed => Shutdown BY DEF Closed, Shutdown
  <2> QED BY <1>3, <2>1 DEF BarrierNot, Goto
<1>4. CASE BarrierShutdown(r) BY <1>4 DEF BarrierShutdown, Goto
<1> QED BY <1>1, <1>2, <1>3, <1>4 DEF Moves

\* What only moves Close.
Closes == CloseBegins \/ CloseQueue \/ CloseDrained \/ CloseDeadline \/ CloseLeaves

\* What only moves Close, case by case.
LEMMA Closing ==
    ASSUME Closes
    PROVE  /\ UNCHANGED <<queue, batch, writer, table, calls, history>>
           /\ \/ closer = "open" /\ closer' = "locking"
              \/ closer = "locking" /\ closer' = "draining" /\ Readers = {}
              \/ closer \in {"draining", "cancelled"} /\ closer' = "closed" /\ writer = "done"
              \/ closer = "draining" /\ closer' = "cancelled"
              \/ closer = "cancelled" /\ closer' = "left"
  BY DEF Closes, CloseBegins, CloseQueue, CloseDrained, CloseDeadline, CloseLeaves,
         NoReaders, Drained

\* What only moves the writer.
Turns == Collected \/ BeginBatch \/ FailBatch \/ RetryBatch \/ Abandon \/ Finish

\* Every step is one of these.
LEMMA Steps ==
    ASSUME Next
    PROVE  \/ \E r \in Req :
                  \/ Arrive(r)
                  \/ Send(r, "enqueue") /\ ~Closed
                  \/ Send(r, "room")
                  \/ SendBarrier(r, "flush") /\ ~Closed
                  \/ SendBarrier(r, "barrier")
                  \/ Moves(r) \/ FlushTimesOut(r) \/ List(r)
                  \/ BeginDirect(r) \/ WriteDirect(r)
           \/ Receive \/ CollectMore \/ CommitBatch \/ Release \/ Turns
           \/ Closes
           \/ \E n \in Record : Purge(n)
           \/ UNCHANGED vars
  BY DEF Next, Call, Timer, Run, Close, Stopped, Moves, Turns, Closes, Enqueue,
         EnqueueRoom, EnqueueBarrier, BarrierRoom

\* A request is in one place.
Places == {"idle", "enqueue", "room", "direct", "write", "flush", "barrier",
           "wait", "flushed", "unflushed"}

\* What answers a request changes nothing of another.
LEMMA Answering ==
    ASSUME TypeOK, NEW r \in Req, Answered(r)
    PROVE  /\ pc' \in [Req -> Places] /\ pc'[r] = "idle"
           /\ rec' \in [Req -> Record \cup {None}] /\ rec'[r] = None
           /\ due' \in [Req -> SUBSET Record] /\ due'[r] = {}
           /\ \A s \in Req \ {r} : pc'[s] = pc[s] /\ rec'[s] = rec[s] /\ due'[s] = due[s]
  BY DEF TypeOK, Answered, Goto, Places

\* A request that moves leaves the others where they are.
LEMMA Going ==
    ASSUME TypeOK, NEW r \in Req, NEW l \in Places, pc' = [pc EXCEPT ![r] = l]
    PROVE  /\ pc' \in [Req -> Places] /\ pc'[r] = l
           /\ \A s \in Req \ {r} : pc'[s] = pc[s]
  BY DEF TypeOK, Places

\* A request's record that is queued, or its barrier.
LEMMA Sending ==
    ASSUME TypeOK, NEW r \in Req, NEW from, Send(r, from), from \in {"enqueue", "room"}, Fresh
    PROVE  /\ rec[r] \in Record /\ queue' = Append(queue, rec[r])
           /\ queue' \in Seq(Item) /\ ToSet(queue') = ToSet(queue) \cup {rec[r]}
           /\ accepted' = accepted \cup {rec[r]} /\ Answered(r) /\ pc[r] = from
           /\ UNCHANGED <<batch, writer, closer, table, made, abandoned, purged>>
<1>1. rec[r] \in Record /\ rec[r] \in Item BY DEF Send, Fresh, TypeOK, Item
<1>2. queue' = Append(queue, rec[r]) /\ queue \in Seq(Item) BY DEF Send, TypeOK
<1>3. queue' \in Seq(Item) /\ ToSet(queue') = ToSet(queue) \cup {rec[r]}
  BY <1>1, <1>2, Put
<1> QED BY <1>1, <1>2, <1>3 DEF Send

\* A barrier goes to the end of the queue, and its read waits.
LEMMA SendingBarrier ==
    ASSUME TypeOK, NEW r \in Req, NEW from, SendBarrier(r, from)
    PROVE  /\ queue' = Append(queue, r) /\ r \in Item
           /\ queue' \in Seq(Item) /\ ToSet(queue') = ToSet(queue) \cup {r}
           /\ pc[r] = from /\ pc' = [pc EXCEPT ![r] = "wait"]
           /\ UNCHANGED <<batch, writer, closer, table, rec, due, history>>
<1>1. r \in Item BY DEF Item
<1>2. queue' = Append(queue, r) /\ queue \in Seq(Item) BY DEF SendBarrier, TypeOK
<1>3. queue' \in Seq(Item) /\ ToSet(queue') = ToSet(queue) \cup {r}
  BY <1>1, <1>2, Put
<1> QED BY <1>1, <1>2, <1>3 DEF SendBarrier, Goto

\* A read that does not wait any longer leaves the queue and the batch.
LEMMA Leaving ==
    ASSUME TypeOK, NEW r \in Req, NEW s, s \in Seq(Item), NEW t, t = ReplaceAll(s, r, None)
    PROVE  Without(t, s, {r})
<1>1. t = [i \in DOMAIN s |-> IF s[i] \in {r} THEN None ELSE s[i]]
  <2>1. DOMAIN s = 1..Len(s) OBVIOUS
  <2> QED BY <2>1 DEF ReplaceAll
<1>2. {r} \cap Record \cap ToSet(s) = {} BY Apart
<1> QED BY <1>1, <1>2, LetGo

\* The item the writer takes.
LEMMA Receiving ==
    ASSUME TypeOK, Receive \/ CollectMore
    PROVE  /\ queue # <<>> /\ Head(queue) \in Item /\ Head(queue) = queue[1]
           /\ queue' = Tail(queue) /\ queue' \in Seq(Item)
           /\ ToSet(queue) = ToSet(queue') \cup {Head(queue)}
           /\ UNCHANGED <<closer, table, calls, history>>
  BY Taken DEF TypeOK, Receive, CollectMore

\* The batch with that item.
LEMMA Collecting ==
    ASSUME TypeOK, QueuedOnce
    PROVE  /\ Receive => /\ batch' = <<Head(queue)>> /\ batch = <<>> /\ Hand = {}
                         /\ writer = "receive" /\ writer' = "collect"
                         /\ batch' \in Seq(Item) /\ ToSet(batch') = {Head(queue)}
                         /\ Hand' = {Head(queue)}
           /\ CollectMore => /\ batch' = Append(batch, Head(queue)) /\ Hand = ToSet(batch)
                             /\ writer = "collect" /\ writer' = writer
                             /\ batch' \in Seq(Item)
                             /\ ToSet(batch') = ToSet(batch) \cup {Head(queue)}
                             /\ Hand' = ToSet(batch) \cup {Head(queue)}
<1>1. ASSUME Receive
      PROVE  /\ batch' = <<Head(queue)>> /\ batch = <<>> /\ Hand = {}
             /\ writer = "receive" /\ writer' = "collect"
             /\ batch' \in Seq(Item) /\ ToSet(batch') = {Head(queue)}
             /\ Hand' = {Head(queue)}
  <2>1. /\ batch' = <<Head(queue)>> /\ batch = <<>> /\ Head(queue) \in Item
        /\ writer = "receive" /\ writer' = "collect"
    BY <1>1, Receiving DEF Receive, QueuedOnce
  <2>2. batch' \in Seq(Item) /\ DOMAIN batch' = {1} /\ batch'[1] = Head(queue) BY <2>1
  <2>3. ToSet(batch') = {Head(queue)} BY <2>2 DEF ToSet
  <2> QED BY <2>1, <2>2, <2>3 DEF Hand
<1>2. ASSUME CollectMore
      PROVE  /\ batch' = Append(batch, Head(queue)) /\ Hand = ToSet(batch)
             /\ writer = "collect" /\ writer' = writer
             /\ batch' \in Seq(Item)
             /\ ToSet(batch') = ToSet(batch) \cup {Head(queue)}
             /\ Hand' = ToSet(batch) \cup {Head(queue)}
  <2>1. /\ batch' = Append(batch, Head(queue)) /\ Head(queue) \in Item
        /\ writer = "collect" /\ writer' = writer /\ batch \in Seq(Item)
    BY <1>2, Receiving DEF CollectMore, TypeOK
  <2>2. batch' \in Seq(Item) /\ ToSet(batch') = ToSet(batch) \cup {Head(queue)}
    BY <2>1, Put
  <2> QED BY <2>1, <2>2 DEF Hand
<1> QED BY <1>1, <1>2

\* The reads behind the batch go on, and no barrier of theirs is left.
LEMMA Releasing ==
    ASSUME IInv, Release
    PROVE  /\ Without(queue', queue, ToSet(batch))
           /\ batch' = <<>> /\ ToSet(batch') = {} /\ Hand = {} /\ Hand' = {}
           /\ writer = "release" /\ writer' = "receive"
           /\ pc' = [r \in Req |-> IF r \in ToSet(batch) THEN "flushed" ELSE pc[r]]
           /\ UNCHANGED <<closer, table, rec, due, history>>
<1>1. ToSet(batch) \cap Record \cap ToSet(queue) = {} /\ queue \in Seq(Item)
  BY DEF IInv, QueuedOnce, TypeOK
<1>2. queue' = [i \in DOMAIN queue |-> IF queue[i] \in ToSet(batch) THEN None ELSE queue[i]]
  BY DEF Release, Behind
<1>3. /\ batch' = <<>> /\ Hand = {} /\ Hand' = {}
      /\ writer = "release" /\ writer' = "receive"
      /\ pc' = [r \in Req |-> IF r \in ToSet(batch) THEN "flushed" ELSE pc[r]]
      /\ UNCHANGED <<closer, table, rec, due, history>>
  BY DEF Release, Behind, Hand
<1>4. ToSet(batch') = {} BY <1>3 DEF ToSet
<1> QED BY <1>1, <1>2, <1>3, <1>4, LetGo

\* The writer goes on with its batch.
LEMMA Turning ==
    ASSUME IInv, Turns
    PROVE  /\ UNCHANGED <<queue, batch, closer, rows, calls, made, accepted, purged>>
           /\ head' \in [Proc -> Record \cup {None}]
           /\ \/ /\ writer = "collect" /\ UNCHANGED <<writing, head, abandoned>>
                 /\ \/ writer' = "store" /\ Hand' = Hand
                    \/ /\ writer' = "release" /\ Hand' = {}
                       /\ ToSet(batch) \cap Record = {}
              \/ /\ writer = "store" /\ writer' = "write" /\ Hand' = Hand
                 /\ writing = {} /\ writing' = {Writer} /\ UNCHANGED abandoned
                 /\ head'[Writer] = ChainHead(rows)
              \/ /\ writer = "write" /\ writer' = "retry" /\ Hand' = Hand
                 /\ writing' = {} /\ UNCHANGED abandoned
              \/ /\ writer = "retry" /\ writer' = "store" /\ Hand' = Hand
                 /\ UNCHANGED <<writing, head, abandoned>>
              \/ /\ writer \in {"write", "retry"} /\ writer' = "release" /\ Hand' = {}
                 /\ Hand = ToSet(batch) /\ Cancelled
                 /\ abandoned' = abandoned \cup (ToSet(batch) \cap Record)
                 /\ \/ writer = "write" /\ writing' = {}
                    \/ writer = "retry" /\ UNCHANGED <<writing, head>>
              \/ /\ writer = "receive" /\ writer' = "done" /\ Closed /\ queue = <<>>
                 /\ Hand = {} /\ Hand' = {} /\ UNCHANGED <<writing, head, abandoned>>
<1>1. head \in [Proc -> Record \cup {None}] /\ (writer = "write" => Writer \in writing)
  BY DEF IInv, TypeOK, OneWriter
<1>2. CASE Collected
  BY <1>1, <1>2, BatchRecords DEF Collected, Hand, table, calls, history
<1>3. CASE BeginBatch
  <2>1. BeginWrite(Writer) /\ Writer \in Proc BY <1>3, Apart DEF BeginBatch
  <2>2. rows' = rows /\ writing' = {Writer} /\ head'[Writer] = ChainHead(rows)
        /\ head' \in [Proc -> Record \cup {None}]
    BY <2>1, Beginning
  <2> QED BY <1>3, <2>1, <2>2
      DEF BeginBatch, BeginWrite, MayWrite, Hand, calls, history
<1>4. CASE FailBatch
  <2>1. rows' = rows /\ writing' = {} /\ head' \in [Proc -> Record \cup {None}]
    BY <1>1, <1>4, RollingBack DEF FailBatch
  <2> QED BY <1>4, <2>1 DEF FailBatch, AfterFailure, Hand, calls, history
<1>5. CASE RetryBatch
  BY <1>1, <1>5 DEF RetryBatch, Hand, table, calls, history
<1>6. CASE Abandon
  <2>1. /\ rows' = rows /\ head' \in [Proc -> Record \cup {None}]
        /\ \/ writer = "write" /\ writing' = {}
           \/ writer = "retry" /\ UNCHANGED <<writing, head>>
    <3>1. CASE writer = "write" /\ Rollback(Writer, Records(batch))
      BY <1>1, <3>1, RollingBack
    <3>2. CASE writer = "retry" /\ UNCHANGED table BY <1>1, <3>2 DEF table
    <3> QED BY <1>6, <3>1, <3>2 DEF Abandon
  <2>2. abandoned' = abandoned \cup (ToSet(batch) \cap Record)
    BY <1>6, BatchRecords DEF Abandon
  <2>3. /\ Cancelled /\ writer' = "release"
        /\ UNCHANGED <<queue, batch, closer, calls, made, accepted, purged>>
    BY <1>6 DEF Abandon
  <2>4. Hand = ToSet(batch) /\ Hand' = {} BY <2>1, <2>3 DEF Hand
  <2> QED BY <2>1, <2>2, <2>3, <2>4 DEF calls
<1>7. CASE Finish BY <1>1, <1>7 DEF Finish, Hand, table, calls, history
<1> QED BY <1>2, <1>3, <1>4, <1>5, <1>6, <1>7 DEF Turns

-----------------------------------------------------------------------------
(* Every step keeps the invariant *)

\* Every step keeps the types.
LEMMA TypeOKNext ==
    ASSUME IInv, Next
    PROVE  TypeOK'
<1> USE DEF TypeOK, Places
<1>0. TypeOK /\ Fresh /\ QueuedOnce BY DEF IInv
<1>1. ASSUME NEW r \in Req, Arrive(r) PROVE TypeOK'
  <2>1. /\ made' \in 0..MaxRecord /\ rec' \in [Req -> Record \cup {None}]
        /\ due' \in [Req -> SUBSET Record]
    <3>1. made < MaxRecord => made + 1 \in 0..MaxRecord /\ made + 1 \in Record
      BY <1>0, BufferAssumption DEF Record
    <3>2. CASE UNCHANGED due BY <1>0, <1>1, <3>1, <3>2 DEF Arrive
    <3>3. CASE UNCHANGED <<rec, made>> BY <1>0, <1>1, <3>3 DEF Arrive
    <3> QED BY <1>1, <3>2, <3>3 DEF Arrive
  <2> QED BY <1>0, <1>1, <2>1 DEF Arrive, Goto, table
<1>2. ASSUME NEW r \in Req, Send(r, "enqueue") \/ Send(r, "room") PROVE TypeOK'
  BY <1>0, <1>2, Sending, Answering DEF table
<1>3. ASSUME NEW r \in Req, SendBarrier(r, "flush") \/ SendBarrier(r, "barrier")
      PROVE  TypeOK'
  BY <1>0, <1>3, SendingBarrier DEF table, history
<1>4. ASSUME NEW r \in Req, Moves(r) PROVE TypeOK'
  BY <1>0, <1>4, Moving DEF table, history
<1>5. ASSUME NEW r \in Req, FlushTimesOut(r) PROVE TypeOK'
  <2>1. queue' \in Seq(Item) /\ batch' \in Seq(Item)
    <3>1. Without(queue', queue, {r}) /\ Without(batch', batch, {r})
      BY <1>0, <1>5, Leaving DEF FlushTimesOut
    <3> QED BY <3>1 DEF Without
  <2> QED BY <1>0, <1>5, <2>1 DEF FlushTimesOut, Goto, table, history
<1>6. ASSUME NEW r \in Req, List(r) PROVE TypeOK'
  BY <1>0, <1>6, Answering DEF List, table, history
<1>7. ASSUME NEW r \in Req, BeginDirect(r) PROVE TypeOK'
  <2>1. /\ rows' = rows /\ writing' = {r} /\ head' \in [Proc -> Record \cup {None}]
        /\ r \in Proc
    BY <1>7, Apart, Beginning DEF BeginDirect
  <2> QED BY <1>0, <1>7, <2>1 DEF BeginDirect, Goto, history
<1>8. ASSUME NEW r \in Req, WriteDirect(r) PROVE TypeOK'
  <2>1. /\ rows' \in Seq(Entry) /\ writing' = {} /\ head' \in [Proc -> Record \cup {None}]
    BY <1>8, DirectWrites
  <2> QED BY <1>0, <1>8, <2>1, Answering DEF WriteDirect, history
<1>9. CASE Receive \/ CollectMore
  BY <1>0, <1>9, Receiving, Collecting DEF table, calls, history
<1>10. CASE CommitBatch
  BY <1>0, <1>10, BatchCommits DEF CommitBatch, calls, history
<1>11. CASE Release
  <2>1. queue' \in Seq(Item) BY <1>11, Releasing DEF Without
  <2>2. /\ batch' = <<>> /\ writer' = "receive"
        /\ pc' = [r \in Req |-> IF r \in ToSet(batch) THEN "flushed" ELSE pc[r]]
        /\ UNCHANGED <<closer, table, rec, due, history>>
    BY <1>11, Releasing
  <2>3. pc' \in [Req -> Places] BY <1>0, <2>2
  <2> QED BY <1>0, <2>1, <2>2, <2>3 DEF table, history
<1>12. CASE Turns
  <2>1. abandoned' \subseteq Record /\ writing' \subseteq Proc BY <1>0, <1>12, Turning, Apart
  <2>2. writer' \in {"receive", "collect", "store", "write", "retry", "release", "done"}
        /\ head' \in [Proc -> Record \cup {None}]
        /\ UNCHANGED <<queue, batch, closer, rows, calls, made, accepted, purged>>
    BY <1>12, Turning
  <2> QED BY <1>0, <2>1, <2>2 DEF calls
<1>13. CASE Closes BY <1>0, <1>13, Closing DEF table, calls, history
<1>14. ASSUME NEW n \in Record, Purge(n) PROVE TypeOK'
  <2>1. rows' \in Seq(Entry) /\ purged' = purged \cup (Stored(rows) \cap (1..n))
    BY <1>14, Purging
  <2>2. Stored(rows) \subseteq Record BY <1>0, StoredRecords
  <2> QED BY <1>0, <1>14, <2>1, <2>2 DEF Purge, calls
<1>15. CASE UNCHANGED vars BY <1>0, <1>15 DEF vars, table, calls, history
<1> QED BY <1>1, <1>2, <1>3, <1>4, <1>5, <1>6, <1>7, <1>8, <1>9, <1>10, <1>11,
           <1>12, <1>13, <1>14, <1>15, Steps

\* A record is its request's until it is accepted or stored.
Holding == {"enqueue", "room", "direct", "write"}

\* Where no request takes or leaves a record, each one's is still its own.
LEMMA StaysFresh ==
    ASSUME Fresh, UNCHANGED <<made, rec>>,
           \A r \in Req : pc'[r] \in Holding <=> pc[r] \in Holding,
           accepted' \cup Stored(rows') \cup purged'
               \subseteq accepted \cup Stored(rows) \cup purged
    PROVE  Fresh'
  BY DEF Fresh, Holding

\* A request's own record goes into the table or into the queue.
LEMMA LeavesFresh ==
    ASSUME TypeOK, Fresh, NEW r \in Req, rec[r] # None, UNCHANGED made, Answered(r),
           accepted' \cup Stored(rows') \cup purged'
               \subseteq accepted \cup Stored(rows) \cup purged \cup {rec[r]}
    PROVE  Fresh'
<1>1. /\ pc'[r] = "idle" /\ rec'[r] = None
      /\ \A s \in Req \ {r} : pc'[s] = pc[s] /\ rec'[s] = rec[s]
  BY Answering
<1>2. rec[r] \in 1..made BY DEF Fresh
<1>3. accepted' \cup Stored(rows') \cup purged' \subseteq 1..made'
  BY <1>2 DEF Fresh
<1>4. ASSUME NEW s \in Req
      PROVE  /\ pc'[s] \in Holding <=> rec'[s] # None
             /\ rec'[s] # None =>
                  /\ rec'[s] \in 1..made'
                  /\ rec'[s] \notin accepted' \cup Stored(rows') \cup purged'
                  /\ \A t \in Req : rec'[t] = rec'[s] => t = s
  <2>1. CASE s = r BY <1>1, <2>1 DEF Holding
  <2>2. CASE s # r
    <3>1. rec[s] # None => rec[s] # rec[r] /\ rec[s] \in 1..made BY <2>2 DEF Fresh
    <3> QED BY <1>1, <2>2, <3>1 DEF Fresh, Holding
  <2> QED BY <2>1, <2>2
<1> QED BY <1>3, <1>4 DEF Fresh, Holding

\* Every step leaves each record with the one request that holds it.
LEMMA FreshNext ==
    ASSUME IInv, Next
    PROVE  Fresh'
<1>0. TypeOK /\ Fresh /\ QueuedOnce /\ Barriers BY DEF IInv
<1>1. ASSUME NEW r \in Req, Arrive(r) PROVE Fresh'
  <2>1. UNCHANGED <<rows, accepted, purged>> /\ pc[r] = "idle" /\ made \in Nat
    BY <1>0, <1>1 DEF Arrive, table, TypeOK
  <2>2. CASE /\ made' = made + 1 /\ rec' = [rec EXCEPT ![r] = made + 1]
             /\ Goto(r, "enqueue")
    <3>1. /\ pc'[r] = "enqueue" /\ rec'[r] = made + 1
          /\ \A s \in Req \ {r} : pc'[s] = pc[s] /\ rec'[s] = rec[s]
      BY <1>0, <2>2 DEF Goto, TypeOK
    <3>2. 1..made \subseteq 1..made' /\ made + 1 \in 1..made' /\ made + 1 \notin 1..made
      BY <2>1, <2>2
    <3>3. made + 1 # None BY <2>1, BufferAssumption
    <3>4. accepted' \cup Stored(rows') \cup purged' \subseteq 1..made
      BY <1>0, <2>1 DEF Fresh
    <3>5. ASSUME NEW s \in Req
          PROVE  /\ pc'[s] \in Holding <=> rec'[s] # None
                 /\ rec'[s] # None =>
                      /\ rec'[s] \in 1..made'
                      /\ rec'[s] \notin accepted' \cup Stored(rows') \cup purged'
                      /\ \A t \in Req : rec'[t] = rec'[s] => t = s
      <4>1. CASE s = r
        <5>1. \A t \in Req \ {r} : rec'[t] # made + 1
          BY <1>0, <3>1, <3>2, <3>3 DEF Fresh
        <5> QED BY <3>1, <3>2, <3>3, <3>4, <4>1, <5>1 DEF Holding
      <4>2. CASE s # r
        <5>1. rec[s] # None => rec[s] # made + 1 BY <1>0, <3>2 DEF Fresh
        <5> QED BY <1>0, <2>1, <3>1, <3>2, <4>2, <5>1 DEF Fresh, Holding
      <4> QED BY <4>1, <4>2
    <3> QED BY <3>2, <3>4, <3>5 DEF Fresh, Holding
  <2>3. CASE Goto(r, "flush") /\ UNCHANGED <<rec, made>>
    <3>1. \A s \in Req : pc'[s] \in Holding <=> pc[s] \in Holding
      BY <1>0, <2>1, <2>3 DEF Goto, TypeOK, Holding
    <3> QED BY <1>0, <2>1, <2>3, <3>1, StaysFresh
  <2> QED BY <1>1, <2>2, <2>3 DEF Arrive
<1>2. ASSUME NEW r \in Req, Send(r, "enqueue") \/ Send(r, "room") PROVE Fresh'
  <2>1. /\ rec[r] \in Record /\ accepted' = accepted \cup {rec[r]} /\ Answered(r)
        /\ UNCHANGED <<table, made, purged>>
    BY <1>0, <1>2, Sending
  <2>2. rec[r] # None BY <2>1, Apart
  <2>3. accepted' \cup Stored(rows') \cup purged'
            \subseteq accepted \cup Stored(rows) \cup purged \cup {rec[r]}
    BY <2>1 DEF table
  <2> QED BY <1>0, <2>1, <2>2, <2>3, LeavesFresh
<1>3. ASSUME NEW r \in Req, SendBarrier(r, "flush") \/ SendBarrier(r, "barrier")
      PROVE  Fresh'
  <2>1. /\ pc[r] \notin Holding /\ pc' = [pc EXCEPT ![r] = "wait"]
        /\ UNCHANGED <<table, rec, history>>
    BY <1>0, <1>3, SendingBarrier DEF Holding
  <2>2. \A s \in Req : pc'[s] \in Holding <=> pc[s] \in Holding
    BY <1>0, <2>1 DEF TypeOK, Holding
  <2> QED BY <1>0, <2>1, <2>2, StaysFresh DEF table, history
<1>4. ASSUME NEW r \in Req, Moves(r) PROVE Fresh'
  <2>1. \A s \in Req : pc'[s] \in Holding <=> pc[s] \in Holding
    BY <1>0, <1>4, Moving DEF TypeOK, Holding
  <2> QED BY <1>0, <1>4, <2>1, Moving, StaysFresh DEF table, history
<1>5. ASSUME NEW r \in Req, FlushTimesOut(r) PROVE Fresh'
  <2>1. \A s \in Req : pc'[s] \in Holding <=> pc[s] \in Holding
    BY <1>0, <1>5 DEF FlushTimesOut, Goto, TypeOK, Holding
  <2> QED BY <1>0, <1>5, <2>1, StaysFresh DEF FlushTimesOut, table, history
<1>6. ASSUME NEW r \in Req, List(r) PROVE Fresh'
  <2>1. pc[r] \notin Holding /\ Answered(r) /\ UNCHANGED <<table, history>>
    BY <1>6 DEF List, Holding
  <2>2. rec[r] = None BY <1>0, <2>1 DEF Fresh, Holding
  <2>3. \A s \in Req : rec'[s] = rec[s] /\ (pc'[s] \in Holding <=> pc[s] \in Holding)
    BY <1>0, <2>1, <2>2, Answering DEF Holding
  <2>4. rec' = rec
    BY <1>0, <2>1, <2>3, Answering DEF TypeOK
  <2> QED BY <1>0, <2>1, <2>3, <2>4, StaysFresh DEF table, history
<1>7. ASSUME NEW r \in Req, BeginDirect(r) PROVE Fresh'
  <2>1. /\ pc[r] = "direct" /\ pc' = [pc EXCEPT ![r] = "write"]
        /\ UNCHANGED <<rows, rec, history>>
    BY <1>7 DEF BeginDirect, BeginWrite, Goto
  <2>2. \A s \in Req : pc'[s] \in Holding <=> pc[s] \in Holding
    BY <1>0, <2>1 DEF TypeOK, Holding
  <2> QED BY <1>0, <2>1, <2>2, StaysFresh DEF history
<1>8. ASSUME NEW r \in Req, WriteDirect(r) PROVE Fresh'
  <2>1. /\ rec[r] \in Record
        /\ rows' = rows \/ Stored(rows') = Stored(rows) \cup {rec[r]}
    BY <1>8, DirectWrites
  <2>2. rec[r] # None BY <2>1, Apart
  <2>3. Answered(r) /\ UNCHANGED history BY <1>8 DEF WriteDirect
  <2>4. accepted' \cup Stored(rows') \cup purged'
            \subseteq accepted \cup Stored(rows) \cup purged \cup {rec[r]}
    BY <2>1, <2>3 DEF history
  <2> QED BY <1>0, <2>2, <2>3, <2>4, LeavesFresh DEF history
<1>9. CASE Receive \/ CollectMore
  BY <1>0, <1>9, Receiving, StaysFresh DEF table, calls, history
<1>10. CASE CommitBatch
  <2>1. Stored(rows') = Stored(rows) \cup (ToSet(batch) \cap Record)
    BY <1>10, BatchCommits
  <2>2. UNCHANGED <<calls, history>> BY <1>10 DEF CommitBatch
  <2>3. ToSet(batch) \cap Record \subseteq accepted BY <1>0 DEF QueuedOnce
  <2> QED BY <1>0, <2>1, <2>2, <2>3, StaysFresh DEF calls, history
<1>11. CASE Release
  <2>1. /\ pc' = [r \in Req |-> IF r \in ToSet(batch) THEN "flushed" ELSE pc[r]]
        /\ UNCHANGED <<table, rec, history>>
    BY <1>11, Releasing
  <2>2. \A r \in Req : pc'[r] \in Holding <=> pc[r] \in Holding
    BY <1>0, <2>1 DEF Barriers, Holding
  <2> QED BY <1>0, <2>1, <2>2, StaysFresh DEF table, history
<1>12. CASE Turns
  BY <1>0, <1>12, Turning, StaysFresh DEF calls
<1>13. CASE Closes BY <1>0, <1>13, Closing, StaysFresh DEF table, calls, history
<1>14. ASSUME NEW n \in Record, Purge(n) PROVE Fresh'
  <2>1. /\ Stored(rows') = Stored(rows) \ (1..n)
        /\ purged' = purged \cup (Stored(rows) \cap (1..n))
    BY <1>14, Purging
  <2>2. UNCHANGED <<calls, made, accepted>> BY <1>14 DEF Purge
  <2> QED BY <1>0, <2>1, <2>2, StaysFresh DEF calls
<1>15. CASE UNCHANGED vars BY <1>0, <1>15, StaysFresh DEF vars, table, calls, history
<1> QED BY <1>1, <1>2, <1>3, <1>4, <1>5, <1>6, <1>7, <1>8, <1>9, <1>10, <1>11,
           <1>12, <1>13, <1>14, <1>15, Steps

\* A sequence has each record one time.
Distinct(s) == \A i, j \in DOMAIN s : s[i] \in Record /\ s[i] = s[j] => i = j

\* It stays so with a record that was not there, and with a barrier.
LEMMA PutDistinct ==
    ASSUME NEW s \in Seq(Item), Distinct(s), NEW x \in Item,
           x \notin ToSet(s) \cap Record
    PROVE  Distinct(Append(s, x))
<1> DEFINE t == Append(s, x)
<1>1. /\ DOMAIN t = DOMAIN s \cup {Len(s) + 1} /\ t[Len(s) + 1] = x
      /\ \A i \in DOMAIN s : t[i] = s[i]
  BY Put
<1> HIDE DEF t
<1>2. SUFFICES ASSUME NEW i \in DOMAIN t, NEW j \in DOMAIN t, t[i] \in Record, t[i] = t[j]
               PROVE  i = j
  BY DEF t, Distinct
<1>3. CASE i \in DOMAIN s /\ j \in DOMAIN s BY <1>1, <1>2, <1>3 DEF Distinct
<1>4. CASE i \in DOMAIN s /\ j = Len(s) + 1 BY <1>1, <1>2, <1>4 DEF ToSet
<1>5. CASE j \in DOMAIN s /\ i = Len(s) + 1 BY <1>1, <1>2, <1>5 DEF ToSet
<1> QED BY <1>1, <1>3, <1>4, <1>5

\* And without its first item, which is then elsewhere.
LEMMA TakenDistinct ==
    ASSUME NEW s \in Seq(Item), s # <<>>, Distinct(s)
    PROVE  Distinct(Tail(s)) /\ Head(s) \notin ToSet(Tail(s)) \cap Record
<1>1. /\ Head(s) = s[1] /\ 1 \in DOMAIN s
      /\ \A i \in DOMAIN Tail(s) :
             i + 1 \in DOMAIN s /\ Tail(s)[i] = s[i + 1] /\ i \in Nat
      /\ \A i \in DOMAIN Tail(s) : i # 0
  BY Taken
<1>2. ASSUME NEW i \in DOMAIN Tail(s), NEW j \in DOMAIN Tail(s),
             Tail(s)[i] \in Record, Tail(s)[i] = Tail(s)[j]
      PROVE  i = j
  <2>1. /\ i + 1 \in DOMAIN s /\ j + 1 \in DOMAIN s
        /\ s[i + 1] \in Record /\ s[i + 1] = s[j + 1] /\ i \in Nat /\ j \in Nat
    BY <1>1, <1>2
  <2>2. i + 1 = j + 1 BY <2>1 DEF Distinct
  <2> QED BY <2>1, <2>2
<1>3. ASSUME NEW i \in DOMAIN Tail(s), Tail(s)[i] = Head(s), Head(s) \in Record
      PROVE  FALSE
  <2>1. i + 1 \in DOMAIN s /\ s[i + 1] = s[1] /\ s[1] \in Record /\ i \in Nat /\ i # 0
    BY <1>1, <1>3
  <2>2. i + 1 = 1 BY <1>1, <2>1 DEF Distinct
  <2> QED BY <2>1, <2>2
<1> QED BY <1>2, <1>3 DEF Distinct, ToSet

\* And without barriers.
LEMMA WithoutDistinct ==
    ASSUME NEW s, NEW t, NEW W, Without(t, s, W), Distinct(s)
    PROVE  Distinct(t)
  BY DEF Without, Distinct

\* What leaves queue and batch alone queues nothing twice.
LEMMA StaysQueued ==
    ASSUME QueuedOnce, UNCHANGED <<queue, batch>>, accepted \subseteq accepted',
           writer' \in {"receive", "done"} => writer \in {"receive", "done"}
    PROVE  QueuedOnce'
  BY DEF QueuedOnce

\* No step queues a record twice, or one that was not accepted.
LEMMA QueuedOnceNext ==
    ASSUME IInv, Next
    PROVE  QueuedOnce'
<1>0. /\ TypeOK /\ Fresh /\ QueuedOnce /\ queue \in Seq(Item) /\ batch \in Seq(Item)
      /\ Distinct(queue) /\ Distinct(batch)
  BY DEF IInv, TypeOK, QueuedOnce, Distinct
<1>1. ASSUME NEW r \in Req, Arrive(r) PROVE QueuedOnce'
  BY <1>0, <1>1, StaysQueued DEF Arrive
<1>2. ASSUME NEW r \in Req, Send(r, "enqueue") \/ Send(r, "room") PROVE QueuedOnce'
  <2>1. /\ rec[r] \in Record /\ queue' = Append(queue, rec[r])
        /\ ToSet(queue') = ToSet(queue) \cup {rec[r]}
        /\ accepted' = accepted \cup {rec[r]}
        /\ UNCHANGED <<batch, writer>>
    BY <1>0, <1>2, Sending
  <2>2. rec[r] \notin accepted /\ rec[r] \in Item BY <1>0, <2>1, Apart DEF Fresh, Item
  <2>3. rec[r] \notin ToSet(queue) \cap Record /\ rec[r] \notin ToSet(batch) \cap Record
    BY <1>0, <2>2 DEF QueuedOnce
  <2>4. Distinct(queue') BY <1>0, <2>1, <2>2, <2>3, PutDistinct
  <2> QED BY <1>0, <2>1, <2>3, <2>4 DEF QueuedOnce, Distinct
<1>3. ASSUME NEW r \in Req, SendBarrier(r, "flush") \/ SendBarrier(r, "barrier")
      PROVE  QueuedOnce'
  <2>1. /\ queue' = Append(queue, r) /\ r \in Item /\ r \notin Record
        /\ ToSet(queue') = ToSet(queue) \cup {r}
        /\ UNCHANGED <<batch, writer, history>>
    BY <1>0, <1>3, SendingBarrier, Apart
  <2>2. Distinct(queue') BY <1>0, <2>1, PutDistinct
  <2> QED BY <1>0, <2>1, <2>2 DEF QueuedOnce, Distinct, history
<1>4. ASSUME NEW r \in Req, Moves(r) PROVE QueuedOnce'
  BY <1>0, <1>4, Moving, StaysQueued DEF history
<1>5. ASSUME NEW r \in Req, FlushTimesOut(r) PROVE QueuedOnce'
  <2>1. Without(queue', queue, {r}) /\ Without(batch', batch, {r})
    BY <1>0, <1>5, Leaving DEF FlushTimesOut
  <2>2. Distinct(queue') /\ Distinct(batch') BY <1>0, <2>1, WithoutDistinct
  <2>3. /\ ToSet(queue') \cap Record = ToSet(queue) \cap Record
        /\ ToSet(batch') \cap Record = ToSet(batch) \cap Record
    BY <2>1 DEF Without
  <2>4. UNCHANGED <<writer, accepted>> BY <1>5 DEF FlushTimesOut, history
  <2>5. batch = <<>> => batch' = <<>>
    <3>1. SUFFICES ASSUME batch = <<>> PROVE batch' = <<>> OBVIOUS
    <3>2. DOMAIN batch' = {} /\ batch' \in Seq(Item) BY <2>1, <3>1 DEF Without
    <3> QED BY <3>2
  <2> QED BY <1>0, <2>2, <2>3, <2>4, <2>5 DEF QueuedOnce, Distinct
<1>6. ASSUME NEW r \in Req, List(r) PROVE QueuedOnce'
  BY <1>0, <1>6, StaysQueued DEF List, history
<1>7. ASSUME NEW r \in Req, BeginDirect(r) PROVE QueuedOnce'
  BY <1>0, <1>7, StaysQueued DEF BeginDirect, history
<1>8. ASSUME NEW r \in Req, WriteDirect(r) PROVE QueuedOnce'
  BY <1>0, <1>8, StaysQueued DEF WriteDirect, history
<1>9. CASE Receive \/ CollectMore
  <2>1. /\ queue # <<>> /\ Head(queue) \in Item
        /\ queue' = Tail(queue) /\ UNCHANGED history
        /\ ToSet(queue) = ToSet(queue') \cup {Head(queue)}
    BY <1>0, <1>9, Receiving
  <2>2. Distinct(queue') /\ Head(queue) \notin ToSet(queue') \cap Record
    BY <1>0, <2>1, TakenDistinct
  <2>3. /\ Distinct(batch') /\ ToSet(batch') \subseteq ToSet(batch) \cup {Head(queue)}
        /\ writer' = "collect"
    <3>1. CASE Receive
      <4>1. /\ batch' = <<Head(queue)>> /\ writer' = "collect"
            /\ ToSet(batch') = {Head(queue)}
        BY <1>0, <3>1, Collecting
      <4>2. \A i, j \in DOMAIN batch' : i = j BY <4>1
      <4> QED BY <4>1, <4>2 DEF Distinct
    <3>2. CASE CollectMore
      <4>1. /\ batch' = Append(batch, Head(queue)) /\ writer' = "collect"
            /\ ToSet(batch') = ToSet(batch) \cup {Head(queue)}
        BY <1>0, <3>2, Collecting
      <4>2. Head(queue) \notin ToSet(batch) \cap Record
        BY <1>0, <2>1 DEF QueuedOnce
      <4>3. Distinct(batch') BY <1>0, <2>1, <4>1, <4>2, PutDistinct
      <4> QED BY <4>1, <4>3
    <3> QED BY <1>9, <3>1, <3>2
  <2>4. ToSet(queue') \cap ToSet(batch') \cap Record = {}
    BY <1>0, <2>1, <2>2, <2>3 DEF QueuedOnce
  <2>5. (ToSet(queue') \cup ToSet(batch')) \cap Record \subseteq accepted'
    BY <1>0, <2>1, <2>3 DEF QueuedOnce, history
  <2> QED BY <2>2, <2>3, <2>4, <2>5 DEF QueuedOnce, Distinct
<1>10. CASE CommitBatch
  BY <1>0, <1>10, StaysQueued DEF CommitBatch, history
<1>11. CASE Release
  <2>1. /\ Without(queue', queue, ToSet(batch)) /\ batch' = <<>> /\ ToSet(batch') = {}
        /\ UNCHANGED history
    BY <1>11, Releasing
  <2>2. Distinct(queue') BY <1>0, <2>1, WithoutDistinct
  <2>3. ToSet(queue') \cap Record = ToSet(queue) \cap Record BY <2>1 DEF Without
  <2>4. DOMAIN batch' = {} BY <2>1
  <2> QED BY <1>0, <2>1, <2>2, <2>3, <2>4 DEF QueuedOnce, Distinct, history
<1>12. CASE Turns
  BY <1>0, <1>12, Turning, StaysQueued
<1>13. CASE Closes BY <1>0, <1>13, Closing, StaysQueued DEF history
<1>14. ASSUME NEW n \in Record, Purge(n) PROVE QueuedOnce'
  BY <1>0, <1>14, StaysQueued DEF Purge
<1>15. CASE UNCHANGED vars BY <1>0, <1>15, StaysQueued DEF vars, history
<1> QED BY <1>1, <1>2, <1>3, <1>4, <1>5, <1>6, <1>7, <1>8, <1>9, <1>10, <1>11,
           <1>12, <1>13, <1>14, <1>15, Steps

\* The records that are stored, were, or are in hand.
Somewhere == (Stored(rows) \cup purged \cup abandoned \cup ToSet(queue) \cup Hand) \cap Record

\* What takes nothing away from anywhere loses no record.
LEMMA StaysAccounted ==
    ASSUME TypeOK, Accounted, UNCHANGED accepted, Somewhere \subseteq Somewhere',
           abandoned' # {} => Cancelled'
    PROVE  Accounted'
  BY DEF TypeOK, Accounted, Somewhere

\* No step loses an accepted record, but that of a cancelled writer.
LEMMA AccountedNext ==
    ASSUME IInv, Next
    PROVE  Accounted'
<1>0. /\ TypeOK /\ Fresh /\ QueuedOnce /\ Accounted
      /\ (abandoned # {} => Cancelled) /\ accepted \subseteq Record
  BY DEF IInv, Accounted, TypeOK
<1>1. ASSUME NEW r \in Req, Arrive(r) PROVE Accounted'
  <2>1. UNCHANGED <<queue, batch, writer, closer, rows, accepted, abandoned, purged>>
    BY <1>1 DEF Arrive, table
  <2>2. Hand' = Hand BY <2>1 DEF Hand
  <2> QED BY <1>0, <2>1, <2>2 DEF Accounted, Cancelled
<1>2. ASSUME NEW r \in Req, Send(r, "enqueue") \/ Send(r, "room") PROVE Accounted'
  <2>1. /\ ToSet(queue') = ToSet(queue) \cup {rec[r]}
        /\ accepted' = accepted \cup {rec[r]}
        /\ UNCHANGED <<batch, writer, closer, rows, abandoned, purged>>
    BY <1>0, <1>2, Sending DEF table
  <2>2. Hand' = Hand BY <2>1 DEF Hand
  <2> QED BY <1>0, <2>1, <2>2 DEF Accounted, Cancelled
<1>3. ASSUME NEW r \in Req, SendBarrier(r, "flush") \/ SendBarrier(r, "barrier")
      PROVE  Accounted'
  <2>1. /\ ToSet(queue') = ToSet(queue) \cup {r}
        /\ UNCHANGED <<batch, writer, closer, rows, history>>
    BY <1>0, <1>3, SendingBarrier DEF table
  <2>2. Hand' = Hand BY <2>1 DEF Hand
  <2> QED BY <1>0, <2>1, <2>2 DEF Accounted, Cancelled, history
<1>4. ASSUME NEW r \in Req, Moves(r) PROVE Accounted'
  <2>1. UNCHANGED <<queue, batch, writer, closer, rows, history>>
    BY <1>4, Moving DEF table
  <2>2. Hand' = Hand BY <2>1 DEF Hand
  <2> QED BY <1>0, <2>1, <2>2 DEF Accounted, Cancelled, history
<1>5. ASSUME NEW r \in Req, FlushTimesOut(r) PROVE Accounted'
  <2>1. Without(queue', queue, {r}) /\ Without(batch', batch, {r})
    BY <1>0, <1>5, Leaving DEF FlushTimesOut, TypeOK
  <2>2. /\ ToSet(queue') \cap Record = ToSet(queue) \cap Record
        /\ ToSet(batch') \cap Record = ToSet(batch) \cap Record
    BY <2>1 DEF Without
  <2>3. UNCHANGED <<writer, closer, rows, history>> BY <1>5 DEF FlushTimesOut, table
  <2>4. Hand' \cap Record = Hand \cap Record BY <2>2, <2>3 DEF Hand
  <2>5. Somewhere' = Somewhere BY <2>2, <2>3, <2>4 DEF Somewhere, history
  <2> QED BY <1>0, <2>3, <2>5, StaysAccounted DEF history, Cancelled
<1>6. ASSUME NEW r \in Req, List(r) PROVE Accounted'
  <2>1. UNCHANGED <<queue, batch, writer, closer, rows, history>>
    BY <1>6 DEF List, table
  <2>2. Hand' = Hand BY <2>1 DEF Hand
  <2> QED BY <1>0, <2>1, <2>2 DEF Accounted, Cancelled, history
<1>7. ASSUME NEW r \in Req, BeginDirect(r) PROVE Accounted'
  <2>1. UNCHANGED <<queue, batch, writer, closer, rows, history>>
    BY <1>7 DEF BeginDirect, BeginWrite
  <2>2. Hand' = Hand BY <2>1 DEF Hand
  <2> QED BY <1>0, <2>1, <2>2 DEF Accounted, Cancelled, history
<1>8. ASSUME NEW r \in Req, WriteDirect(r) PROVE Accounted'
  <2>1. Stored(rows) \subseteq Stored(rows') BY <1>8, DirectWrites
  <2>2. UNCHANGED <<queue, batch, writer, closer, history>> BY <1>8 DEF WriteDirect
  <2>3. Hand' = Hand BY <2>2 DEF Hand
  <2> QED BY <1>0, <2>1, <2>2, <2>3 DEF Accounted, Cancelled, history
<1>9. CASE Receive \/ CollectMore
  <2>1. /\ ToSet(queue) = ToSet(queue') \cup {Head(queue)}
        /\ UNCHANGED <<closer, table, history>>
    BY <1>0, <1>9, Receiving
  <2>2. Hand' = Hand \cup {Head(queue)} BY <1>0, <1>9, Collecting
  <2> QED BY <1>0, <2>1, <2>2 DEF Accounted, Cancelled, table, history
<1>10. CASE CommitBatch
  <2>1. Stored(rows') = Stored(rows) \cup (ToSet(batch) \cap Record)
    BY <1>10, BatchCommits
  <2>2. UNCHANGED <<queue, closer, history>> /\ Hand = ToSet(batch)
    BY <1>10 DEF CommitBatch, Hand
  <2> QED BY <1>0, <2>1, <2>2 DEF Accounted, Cancelled, history
<1>11. CASE Release
  <2>1. ToSet(queue') \cap Record = ToSet(queue) \cap Record /\ Hand = {}
        /\ UNCHANGED <<closer, table, history>>
    BY <1>11, Releasing DEF Without
  <2>2. Somewhere \subseteq Somewhere' BY <2>1 DEF Somewhere, table, history
  <2> QED BY <1>0, <2>1, <2>2, StaysAccounted DEF Cancelled, history
<1>12. CASE Turns
  <2>1. /\ UNCHANGED <<queue, closer, rows, accepted, purged>>
        /\ abandoned \subseteq abandoned'
        /\ Hand \cap Record \subseteq Hand' \cup abandoned'
        /\ abandoned' = abandoned \/ Cancelled
    BY <1>12, Turning DEF Hand
  <2>2. Somewhere \subseteq Somewhere' BY <2>1 DEF Somewhere
  <2> QED BY <1>0, <2>1, <2>2, StaysAccounted DEF Cancelled
<1>13. CASE Closes
  <2>1. UNCHANGED <<queue, batch, writer, table, history>> /\ (Cancelled => Cancelled')
    BY <1>13, Closing DEF Cancelled
  <2>2. Hand' = Hand BY <2>1 DEF Hand
  <2> QED BY <1>0, <2>1, <2>2 DEF Accounted, table, history
<1>14. ASSUME NEW n \in Record, Purge(n) PROVE Accounted'
  <2>1. /\ Stored(rows') = Stored(rows) \ (1..n)
        /\ purged' = purged \cup (Stored(rows) \cap (1..n))
    BY <1>14, Purging
  <2>2. UNCHANGED <<queue, batch, writer, closer, accepted, abandoned>> BY <1>14 DEF Purge
  <2>3. Hand' = Hand BY <2>2 DEF Hand
  <2> QED BY <1>0, <2>1, <2>2, <2>3 DEF Accounted, Cancelled
<1>15. CASE UNCHANGED vars
  <2>1. UNCHANGED <<queue, batch, writer, closer, rows, history>>
    BY <1>15 DEF vars, table
  <2>2. Hand' = Hand BY <2>1 DEF Hand
  <2> QED BY <1>0, <2>1, <2>2 DEF Accounted, Cancelled, history
<1> QED BY <1>1, <1>2, <1>3, <1>4, <1>5, <1>6, <1>7, <1>8, <1>9, <1>10, <1>11,
           <1>12, <1>13, <1>14, <1>15, Steps

\* The records in hand.
Queued == (ToSet(queue) \cup Hand) \cap Record

\* Nothing is stored twice where the table stays and the queue gets nothing.
LEMMA StaysStored ==
    ASSUME TypeOK, TypeOK', StoredOnce, UNCHANGED <<rows, purged>>, Queued' \subseteq Queued
    PROVE  StoredOnce'
<1>1. Stored(rows) \subseteq Record /\ purged \subseteq Record
  BY StoredRecords DEF TypeOK
<1> QED BY <1>1 DEF StoredOnce, Queued, Single, Stored

\* No step stores a record twice, or one that is still in hand.
LEMMA StoredOnceNext ==
    ASSUME IInv, Next
    PROVE  StoredOnce'
<1>0. /\ TypeOK /\ TypeOK' /\ Fresh /\ QueuedOnce /\ StoredOnce
      /\ Stored(rows) \subseteq Record /\ purged \subseteq Record
  BY TypeOKNext, StoredRecords DEF IInv, TypeOK
<1>1. ASSUME NEW r \in Req, Arrive(r) PROVE StoredOnce'
  <2>1. UNCHANGED <<queue, batch, writer, rows, purged>> BY <1>1 DEF Arrive, table
  <2> QED BY <1>0, <2>1, StaysStored DEF Queued, Hand
<1>2. ASSUME NEW r \in Req, Send(r, "enqueue") \/ Send(r, "room") PROVE StoredOnce'
  <2>1. /\ rec[r] \in Record /\ ToSet(queue') = ToSet(queue) \cup {rec[r]}
        /\ UNCHANGED <<batch, writer, rows, purged>>
    BY <1>0, <1>2, Sending DEF table
  <2>2. rec[r] \notin Stored(rows) \cup purged BY <1>0, <2>1, Apart DEF Fresh
  <2>3. Hand' = Hand BY <2>1 DEF Hand
  <2> QED BY <1>0, <2>1, <2>2, <2>3 DEF StoredOnce, Single, Stored
<1>3. ASSUME NEW r \in Req, SendBarrier(r, "flush") \/ SendBarrier(r, "barrier")
      PROVE  StoredOnce'
  <2>1. /\ ToSet(queue') = ToSet(queue) \cup {r} /\ r \notin Record
        /\ UNCHANGED <<batch, writer, rows, purged>>
    BY <1>0, <1>3, SendingBarrier, Apart DEF table, history
  <2>2. Hand' = Hand BY <2>1 DEF Hand
  <2> QED BY <1>0, <2>1, <2>2, StaysStored DEF Queued
<1>4. ASSUME NEW r \in Req, Moves(r) PROVE StoredOnce'
  <2>1. UNCHANGED <<queue, batch, writer, rows, purged>>
    BY <1>4, Moving DEF table, history
  <2> QED BY <1>0, <2>1, StaysStored DEF Queued, Hand
<1>5. ASSUME NEW r \in Req, FlushTimesOut(r) PROVE StoredOnce'
  <2>1. Without(queue', queue, {r}) /\ Without(batch', batch, {r})
    BY <1>0, <1>5, Leaving DEF FlushTimesOut, TypeOK
  <2>2. /\ ToSet(queue') \cap Record = ToSet(queue) \cap Record
        /\ ToSet(batch') \cap Record = ToSet(batch) \cap Record
    BY <2>1 DEF Without
  <2>3. UNCHANGED <<writer, rows, purged>> BY <1>5 DEF FlushTimesOut, table, history
  <2>4. Hand' \cap Record = Hand \cap Record BY <2>2, <2>3 DEF Hand
  <2> QED BY <1>0, <2>2, <2>3, <2>4, StaysStored DEF Queued
<1>6. ASSUME NEW r \in Req, List(r) PROVE StoredOnce'
  <2>1. UNCHANGED <<queue, batch, writer, rows, purged>>
    BY <1>6 DEF List, table, history
  <2> QED BY <1>0, <2>1, StaysStored DEF Queued, Hand
<1>7. ASSUME NEW r \in Req, BeginDirect(r) PROVE StoredOnce'
  <2>1. UNCHANGED <<queue, batch, writer, rows, purged>>
    BY <1>7 DEF BeginDirect, BeginWrite, history
  <2> QED BY <1>0, <2>1, StaysStored DEF Queued, Hand
<1>8. ASSUME NEW r \in Req, WriteDirect(r) PROVE StoredOnce'
  <2>1. /\ rows' = rows \/ Stored(rows') = Stored(rows) \cup {rec[r]}
        /\ Single(rows') /\ rec[r] \in Record /\ rec[r] \notin accepted
    BY <1>8, DirectWrites
  <2>2. UNCHANGED <<queue, batch, writer, history>> BY <1>8 DEF WriteDirect
  <2>3. Hand' = Hand /\ Hand \subseteq ToSet(batch) BY <2>2 DEF Hand
  <2>4. rec[r] \notin ToSet(queue) \cup Hand
    BY <1>0, <2>1, <2>3 DEF QueuedOnce
  <2>5. rec[r] \notin purged BY <1>0, <2>1, Apart DEF Fresh
  <2>6. Stored(rows') \subseteq Stored(rows) \cup {rec[r]} BY <2>1
  <2> QED BY <1>0, <2>1, <2>2, <2>3, <2>4, <2>5, <2>6 DEF StoredOnce, history
<1>9. CASE Receive \/ CollectMore
  <2>1. /\ ToSet(queue) = ToSet(queue') \cup {Head(queue)}
        /\ UNCHANGED <<table, history>>
    BY <1>0, <1>9, Receiving
  <2>2. Hand' = Hand \cup {Head(queue)} BY <1>0, <1>9, Collecting
  <2> QED BY <1>0, <2>1, <2>2, StaysStored DEF Queued, table, history
<1>10. CASE CommitBatch
  <2>1. /\ Stored(rows') = Stored(rows) \cup (ToSet(batch) \cap Record)
        /\ Single(rows')
    BY <1>10, BatchCommits
  <2>2. /\ UNCHANGED <<queue, batch, history>> /\ Hand = ToSet(batch) /\ Hand' = {}
    BY <1>10 DEF CommitBatch, Hand
  <2> QED BY <1>0, <2>1, <2>2 DEF StoredOnce, QueuedOnce, history
<1>11. CASE Release
  <2>1. /\ ToSet(queue') \cap Record = ToSet(queue) \cap Record /\ Hand' = {}
        /\ UNCHANGED <<table, history>>
    BY <1>11, Releasing DEF Without
  <2> QED BY <1>0, <2>1, StaysStored DEF Queued, table, history
<1>12. CASE Turns
  <2>1. UNCHANGED <<queue, rows, purged>> /\ Hand' \subseteq Hand
    BY <1>12, Turning
  <2> QED BY <1>0, <2>1, StaysStored DEF Queued
<1>13. CASE Closes
  <2>1. UNCHANGED <<queue, batch, writer, rows, purged>>
    BY <1>13, Closing DEF table, history
  <2> QED BY <1>0, <2>1, StaysStored DEF Queued, Hand
<1>14. ASSUME NEW n \in Record, Purge(n) PROVE StoredOnce'
  <2>1. /\ Stored(rows') = Stored(rows) \ (1..n) /\ Single(rows')
        /\ purged' = purged \cup (Stored(rows) \cap (1..n))
    BY <1>14, Purging
  <2>2. UNCHANGED <<queue, batch, writer>> BY <1>14 DEF Purge
  <2>3. Hand' = Hand BY <2>2 DEF Hand
  <2> QED BY <1>0, <2>1, <2>2, <2>3 DEF StoredOnce
<1>15. CASE UNCHANGED vars
  <2>1. UNCHANGED <<queue, batch, writer, rows, purged>>
    BY <1>15 DEF vars, table, history
  <2> QED BY <1>0, <2>1, StaysStored DEF Queued, Hand
<1> QED BY <1>1, <1>2, <1>3, <1>4, <1>5, <1>6, <1>7, <1>8, <1>9, <1>10, <1>11,
           <1>12, <1>13, <1>14, <1>15, Steps

\* What comes before an item, when another is put behind it, the first one
\* is taken, or barriers are let go.
LEMMA PutBefore ==
    ASSUME NEW s \in Seq(Item), NEW x \in Item
    PROVE  /\ \A k \in DOMAIN s : Before(Append(s, x), k) = Before(s, k)
           /\ Before(Append(s, x), Len(s) + 1) = ToSet(s)
<1> DEFINE t == Append(s, x)
<1>1. /\ \A i \in DOMAIN s : t[i] = s[i] /\ 1..(i - 1) \subseteq DOMAIN s
      /\ 1..(Len(s) + 1 - 1) = DOMAIN s
  BY Put
<1> HIDE DEF t
<1>2. \A k \in DOMAIN s : Before(t, k) = Before(s, k) BY <1>1 DEF Before
<1>3. Before(t, Len(s) + 1) = ToSet(s) BY <1>1 DEF Before, ToSet
<1> QED BY <1>2, <1>3 DEF t

\* What lay before a place lies before it, but for the head that was taken.
LEMMA TakenBefore ==
    ASSUME NEW s \in Seq(Item), s # <<>>, NEW k \in DOMAIN Tail(s)
    PROVE  /\ k + 1 \in DOMAIN s /\ s[k + 1] = Tail(s)[k]
           /\ Before(s, k + 1) = Before(Tail(s), k) \cup {Head(s)}
<1>1. /\ Head(s) = s[1] /\ 1 \in DOMAIN s
      /\ \A i \in DOMAIN Tail(s) :
             i + 1 \in DOMAIN s /\ Tail(s)[i] = s[i + 1] /\ i \in Nat
      /\ \A i \in DOMAIN s : i # 1 => i - 1 \in DOMAIN Tail(s) /\ s[i] = Tail(s)[i - 1]
  BY Taken
<1>2. 1..(k - 1) \subseteq DOMAIN Tail(s) /\ k \in Nat /\ k # 0 OBVIOUS
<1>3. ASSUME NEW y \in Before(s, k + 1) PROVE y \in Before(Tail(s), k) \cup {Head(s)}
  <2>1. PICK i \in 1..(k + 1 - 1) : y = s[i] BY DEF Before
  <2>2. CASE i = 1 BY <1>1, <2>1, <2>2
  <2>3. CASE i # 1
    <3>1. i - 1 \in 1..(k - 1) /\ (i - 1) + 1 = i BY <1>2, <2>3
    <3>2. Tail(s)[i - 1] = s[i] BY <1>1, <1>2, <3>1
    <3> QED BY <2>1, <3>1, <3>2 DEF Before
  <2> QED BY <2>2, <2>3
<1>4. ASSUME NEW y \in Before(Tail(s), k) PROVE y \in Before(s, k + 1)
  <2>1. PICK i \in 1..(k - 1) : y = Tail(s)[i] BY DEF Before
  <2>2. i + 1 \in 1..(k + 1 - 1) /\ Tail(s)[i] = s[i + 1] BY <1>1, <1>2
  <2> QED BY <2>1, <2>2 DEF Before
<1>5. Head(s) \in Before(s, k + 1)
  <2>1. 1 \in 1..(k + 1 - 1) BY <1>2
  <2> QED BY <1>1, <2>1 DEF Before
<1> QED BY <1>1, <1>3, <1>4, <1>5

\* What is blanked out are barriers: the records before a place remain.
LEMMA WithoutBefore ==
    ASSUME NEW s, NEW t, s \in Seq(Item), NEW W, Without(t, s, W), NEW k \in DOMAIN s
    PROVE  Before(s, k) \cap Record \subseteq Before(t, k)
<1>1. 1..(k - 1) \subseteq DOMAIN s OBVIOUS
<1> QED BY <1>1 DEF Before, Without

\* A read keeps what it is due, and what covers it does not shrink.
LEMMA StaysBehind ==
    ASSUME TypeOK, Barriers, UNCHANGED <<queue, batch>>, accepted \subseteq accepted',
           Covered \cap Record \subseteq Covered',
           \A r \in Req : pc[r] = "wait" => pc'[r] = "wait" /\ due'[r] = due[r],
           \A r \in Req : pc'[r] \in {"flush", "barrier"} =>
               \/ pc[r] \in {"flush", "barrier"} /\ due'[r] = due[r]
               \/ due'[r] = accepted
    PROVE  Barriers'
<1>1. \A r \in Req : due[r] \subseteq Record BY DEF TypeOK
<1>2. (ToSet(queue') \cup ToSet(batch')) \cap Req \subseteq {r \in Req : pc'[r] = "wait"}
  BY DEF Barriers
<1>3. \A r \in Req : pc'[r] \in {"flush", "barrier"} => due'[r] \subseteq accepted'
  BY DEF Barriers
<1>4. \A r \in ToSet(batch') \cap Req : due'[r] \subseteq Covered'
  BY <1>1 DEF Barriers
<1>5. ASSUME NEW k \in DOMAIN queue', queue'[k] \in Req
      PROVE  due'[queue'[k]] \subseteq Covered' \cup Before(queue', k)
  <2>1. queue[k] \in ToSet(queue) \cap Req BY <1>5 DEF ToSet
  <2>2. due'[queue[k]] = due[queue[k]] BY <2>1 DEF Barriers
  <2>3. due[queue[k]] \subseteq Covered \cup Before(queue, k) BY <1>5 DEF Barriers
  <2> QED BY <1>1, <1>5, <2>2, <2>3
<1> QED BY <1>2, <1>3, <1>4, <1>5 DEF Barriers

\* What is in the table or was, or is in the writer's hands, only grows.
LEMMA CoveredGrows ==
    ASSUME IInv, Next
    PROVE  Covered \cap Record \subseteq Covered'
<1>0. TypeOK /\ QueuedOnce BY DEF IInv
<1>1. CASE UNCHANGED <<batch, writer, rows, purged, abandoned>>
  BY <1>1 DEF Covered, Hand
<1>2. ASSUME NEW r \in Req,
             \/ Arrive(r)
             \/ Send(r, "enqueue")
             \/ Send(r, "room")
             \/ SendBarrier(r, "flush")
             \/ SendBarrier(r, "barrier")
             \/ Moves(r)
             \/ List(r)
             \/ BeginDirect(r)
      PROVE  Covered \cap Record \subseteq Covered'
  <2>1. UNCHANGED <<batch, writer, rows, purged, abandoned>>
    BY <1>2, Moving
    DEF Arrive, Send, SendBarrier, List, BeginDirect, BeginWrite, table, history
  <2> QED BY <1>1, <2>1
<1>3. ASSUME NEW r \in Req, FlushTimesOut(r) PROVE Covered \cap Record \subseteq Covered'
  <2>1. Without(batch', batch, {r})
    BY <1>0, <1>3, Leaving DEF FlushTimesOut, TypeOK
  <2>2. ToSet(batch') \cap Record = ToSet(batch) \cap Record BY <2>1 DEF Without
  <2>3. UNCHANGED <<writer, rows, purged, abandoned>>
    BY <1>3 DEF FlushTimesOut, table, history
  <2>4. Hand' \cap Record = Hand \cap Record BY <2>2, <2>3 DEF Hand
  <2> QED BY <2>3, <2>4 DEF Covered
<1>4. ASSUME NEW r \in Req, WriteDirect(r) PROVE Covered \cap Record \subseteq Covered'
  <2>1. Stored(rows) \subseteq Stored(rows') BY <1>4, DirectWrites
  <2>2. UNCHANGED <<batch, writer, history>> BY <1>4 DEF WriteDirect
  <2>3. Hand' = Hand BY <2>2 DEF Hand
  <2> QED BY <2>1, <2>2, <2>3 DEF Covered, history
<1>5. CASE Receive \/ CollectMore
  <2>1. Hand' = Hand \cup {Head(queue)} /\ UNCHANGED <<table, history>>
    BY <1>0, <1>5, Receiving, Collecting
  <2> QED BY <2>1 DEF Covered, table, history
<1>6. CASE CommitBatch
  <2>1. Stored(rows') = Stored(rows) \cup (ToSet(batch) \cap Record)
    BY <1>6, BatchCommits
  <2>2. UNCHANGED history /\ Hand = ToSet(batch) BY <1>6 DEF CommitBatch, Hand
  <2> QED BY <2>1, <2>2 DEF Covered, history
<1>7. CASE Release
  <2>1. Hand = {} /\ UNCHANGED <<table, history>> BY <1>7, Releasing
  <2> QED BY <2>1 DEF Covered, table, history
<1>8. CASE Turns
  <2>1. /\ UNCHANGED <<rows, purged>> /\ abandoned \subseteq abandoned'
        /\ Hand \cap Record \subseteq Hand' \cup abandoned'
    BY <1>8, Turning DEF Hand
  <2> QED BY <2>1 DEF Covered
<1>9. CASE Closes
  <2>1. UNCHANGED <<batch, writer, rows, purged, abandoned>>
    BY <1>9, Closing DEF table, history
  <2> QED BY <1>1, <2>1
<1>10. ASSUME NEW n \in Record, Purge(n) PROVE Covered \cap Record \subseteq Covered'
  <2>1. /\ Stored(rows') = Stored(rows) \ (1..n)
        /\ purged' = purged \cup (Stored(rows) \cap (1..n))
    BY <1>10, Purging
  <2>2. UNCHANGED <<batch, writer, abandoned>> BY <1>10 DEF Purge
  <2>3. Hand' = Hand BY <2>2 DEF Hand
  <2> QED BY <2>1, <2>2, <2>3 DEF Covered
<1>11. CASE UNCHANGED vars
  <2>1. UNCHANGED <<batch, writer, rows, purged, abandoned>>
    BY <1>11 DEF vars, table, history
  <2> QED BY <1>1, <2>1
<1> QED BY <1>2, <1>3, <1>4, <1>5, <1>6, <1>7, <1>8, <1>9, <1>10, <1>11, Steps

\* Every step leaves a barrier behind what its read is due.
LEMMA BarriersNext ==
    ASSUME IInv, Next
    PROVE  Barriers'
<1>0. /\ TypeOK /\ Fresh /\ QueuedOnce /\ Barriers /\ Accounted
      /\ queue \in Seq(Item) /\ batch \in Seq(Item)
      /\ \A r \in Req : due[r] \subseteq Record
  BY DEF IInv, TypeOK
<1>c. Covered \cap Record \subseteq Covered' BY CoveredGrows
<1>1. ASSUME NEW r \in Req, Arrive(r) PROVE Barriers'
  <2>1. /\ pc[r] = "idle" /\ UNCHANGED <<queue, batch, accepted>>
        /\ \A s \in Req \ {r} : pc'[s] = pc[s] /\ due'[s] = due[s]
        /\ pc'[r] = "enqueue" \/ due'[r] = accepted
    BY <1>0, <1>1 DEF Arrive, Goto, TypeOK
  <2> QED BY <1>0, <1>c, <2>1, StaysBehind
<1>2. ASSUME NEW r \in Req, Send(r, "enqueue") \/ Send(r, "room") PROVE Barriers'
  <2>1. /\ rec[r] \in Item /\ rec[r] \notin Req /\ pc[r] \in {"enqueue", "room"}
        /\ queue' = Append(queue, rec[r])
        /\ ToSet(queue') = ToSet(queue) \cup {rec[r]}
        /\ accepted' = accepted \cup {rec[r]}
        /\ Answered(r) /\ UNCHANGED batch
    BY <1>0, <1>2, Sending, Apart DEF Item
  <2>2. /\ pc'[r] = "idle"
        /\ \A s \in Req \ {r} : pc'[s] = pc[s] /\ due'[s] = due[s]
    BY <1>0, <2>1, Answering
  <2>3. \A s \in Req : pc[s] = "wait" => pc'[s] = "wait" /\ due'[s] = due[s]
    BY <2>1, <2>2
  <2>4. /\ DOMAIN queue' = DOMAIN queue \cup {Len(queue) + 1}
        /\ queue'[Len(queue) + 1] = rec[r]
        /\ \A i \in DOMAIN queue : queue'[i] = queue[i]
    BY <1>0, <2>1, Put
  <2>5. \A k \in DOMAIN queue : Before(queue', k) = Before(queue, k)
    BY <1>0, <2>1, PutBefore
  <2>6. ASSUME NEW k \in DOMAIN queue', queue'[k] \in Req
        PROVE  due'[queue'[k]] \subseteq Covered' \cup Before(queue', k)
    <3>1. k \in DOMAIN queue /\ queue'[k] = queue[k] BY <2>1, <2>4, <2>6
    <3>2. queue[k] \in ToSet(queue) \cap Req BY <2>6, <3>1 DEF ToSet
    <3>3. due'[queue[k]] = due[queue[k]] BY <1>0, <2>3, <3>2 DEF Barriers
    <3>4. due[queue[k]] \subseteq Covered \cup Before(queue, k)
      BY <1>0, <3>1, <3>2 DEF Barriers
    <3> QED BY <1>0, <1>c, <2>5, <3>1, <3>2, <3>3, <3>4
  <2>7. (ToSet(queue') \cup ToSet(batch')) \cap Req \subseteq {s \in Req : pc'[s] = "wait"}
    BY <1>0, <2>1, <2>3 DEF Barriers
  <2>8. \A s \in Req : pc'[s] \in {"flush", "barrier"} => due'[s] \subseteq accepted'
    BY <1>0, <2>1, <2>2 DEF Barriers
  <2>9. \A s \in ToSet(batch') \cap Req : due'[s] \subseteq Covered'
    BY <1>0, <1>c, <2>1, <2>3 DEF Barriers
  <2> QED BY <2>6, <2>7, <2>8, <2>9 DEF Barriers
<1>3. ASSUME NEW r \in Req, SendBarrier(r, "flush") \/ SendBarrier(r, "barrier")
      PROVE  Barriers'
  <2>1. /\ r \in Item /\ pc[r] \in {"flush", "barrier"}
        /\ queue' = Append(queue, r) /\ ToSet(queue') = ToSet(queue) \cup {r}
        /\ pc' = [pc EXCEPT ![r] = "wait"] /\ UNCHANGED <<batch, due, accepted>>
    BY <1>0, <1>3, SendingBarrier DEF history
  <2>2. pc'[r] = "wait" /\ \A s \in Req \ {r} : pc'[s] = pc[s]
    BY <1>0, <2>1 DEF TypeOK
  <2>3. /\ DOMAIN queue' = DOMAIN queue \cup {Len(queue) + 1}
        /\ queue'[Len(queue) + 1] = r
        /\ \A i \in DOMAIN queue : queue'[i] = queue[i]
    BY <1>0, <2>1, Put
  <2>4. /\ \A k \in DOMAIN queue : Before(queue', k) = Before(queue, k)
        /\ Before(queue', Len(queue) + 1) = ToSet(queue)
    BY <1>0, <2>1, PutBefore
  <2>5. due[r] \subseteq Covered \cup ToSet(queue)
    BY <1>0, <2>1 DEF Barriers, Accounted, Covered
  <2>6. ASSUME NEW k \in DOMAIN queue', queue'[k] \in Req
        PROVE  due'[queue'[k]] \subseteq Covered' \cup Before(queue', k)
    <3>1. CASE k \in DOMAIN queue
      <4>1. queue[k] \in Req /\ due[queue[k]] \subseteq Covered \cup Before(queue, k)
        BY <1>0, <2>3, <2>6, <3>1 DEF Barriers
      <4> QED BY <1>0, <1>c, <2>1, <2>3, <2>4, <3>1, <4>1
    <3>2. CASE k = Len(queue) + 1
      BY <1>0, <1>c, <2>1, <2>3, <2>4, <2>5, <3>2
    <3> QED BY <2>3, <3>1, <3>2
  <2>7. (ToSet(queue') \cup ToSet(batch')) \cap Req \subseteq {s \in Req : pc'[s] = "wait"}
    BY <1>0, <2>1, <2>2 DEF Barriers
  <2>8. \A s \in Req : pc'[s] \in {"flush", "barrier"} => due'[s] \subseteq accepted'
    BY <1>0, <2>1, <2>2 DEF Barriers
  <2>9. \A s \in ToSet(batch') \cap Req : due'[s] \subseteq Covered'
    BY <1>0, <1>c, <2>1 DEF Barriers
  <2> QED BY <2>6, <2>7, <2>8, <2>9 DEF Barriers
<1>4. ASSUME NEW r \in Req, Moves(r) PROVE Barriers'
  <2>1. /\ UNCHANGED <<queue, batch, due, accepted>> /\ pc[r] # "wait"
        /\ pc'[r] \in {"flush", "barrier"} => pc[r] \in {"flush", "barrier"}
        /\ \A s \in Req \ {r} : pc'[s] = pc[s]
    BY <1>0, <1>4, Moving DEF TypeOK, history
  <2> QED BY <1>0, <1>c, <2>1, StaysBehind
<1>5. ASSUME NEW r \in Req, FlushTimesOut(r) PROVE Barriers'
  <2>1. Without(queue', queue, {r}) /\ Without(batch', batch, {r})
    BY <1>0, <1>5, Leaving DEF FlushTimesOut
  <2>2. /\ pc'[r] = "unflushed" /\ \A s \in Req \ {r} : pc'[s] = pc[s]
        /\ UNCHANGED <<due, accepted>>
    BY <1>0, <1>5 DEF FlushTimesOut, Goto, TypeOK, history
  <2>3. /\ ToSet(queue') \cap Req = (ToSet(queue) \cap Req) \ {r}
        /\ ToSet(batch') \cap Req = (ToSet(batch) \cap Req) \ {r}
        /\ DOMAIN queue' = DOMAIN queue
        /\ \A i \in DOMAIN queue : queue'[i] \in Req => queue'[i] = queue[i]
    BY <2>1 DEF Without
  <2>4. (ToSet(queue') \cup ToSet(batch')) \cap Req \subseteq {s \in Req : pc'[s] = "wait"}
    BY <1>0, <2>2, <2>3 DEF Barriers
  <2>5. \A s \in Req : pc'[s] \in {"flush", "barrier"} => due'[s] \subseteq accepted'
    BY <1>0, <2>2 DEF Barriers
  <2>6. \A s \in ToSet(batch') \cap Req : due'[s] \subseteq Covered'
    BY <1>0, <1>c, <2>2, <2>3 DEF Barriers
  <2>7. ASSUME NEW k \in DOMAIN queue', queue'[k] \in Req
        PROVE  due'[queue'[k]] \subseteq Covered' \cup Before(queue', k)
    <3>1. k \in DOMAIN queue /\ queue'[k] = queue[k] BY <2>3, <2>7
    <3>2. due[queue[k]] \subseteq Covered \cup Before(queue, k)
      BY <1>0, <2>7, <3>1 DEF Barriers
    <3>3. Before(queue, k) \cap Record \subseteq Before(queue', k)
      BY <1>0, <2>1, <3>1, WithoutBefore
    <3> QED BY <1>0, <1>c, <2>2, <2>7, <3>1, <3>2, <3>3
  <2> QED BY <2>4, <2>5, <2>6, <2>7 DEF Barriers
<1>6. ASSUME NEW r \in Req, List(r) PROVE Barriers'
  <2>1. /\ UNCHANGED <<queue, batch, accepted>> /\ pc[r] # "wait" /\ Answered(r)
    BY <1>6 DEF List, history
  <2>2. pc'[r] = "idle" /\ \A s \in Req \ {r} : pc'[s] = pc[s] /\ due'[s] = due[s]
    BY <1>0, <2>1, Answering
  <2> QED BY <1>0, <1>c, <2>1, <2>2, StaysBehind
<1>7. ASSUME NEW r \in Req, BeginDirect(r) PROVE Barriers'
  <2>1. /\ UNCHANGED <<queue, batch, due, accepted>> /\ pc[r] = "direct"
        /\ pc'[r] = "write" /\ \A s \in Req \ {r} : pc'[s] = pc[s]
    BY <1>0, <1>7 DEF BeginDirect, Goto, TypeOK, history
  <2> QED BY <1>0, <1>c, <2>1, StaysBehind
<1>8. ASSUME NEW r \in Req, WriteDirect(r) PROVE Barriers'
  <2>1. UNCHANGED <<queue, batch, accepted>> /\ pc[r] # "wait" /\ Answered(r)
    BY <1>8 DEF WriteDirect, history
  <2>2. pc'[r] = "idle" /\ \A s \in Req \ {r} : pc'[s] = pc[s] /\ due'[s] = due[s]
    BY <1>0, <2>1, Answering
  <2> QED BY <1>0, <1>c, <2>1, <2>2, StaysBehind
<1>9. CASE Receive \/ CollectMore
  <2>1. /\ queue # <<>> /\ queue' = Tail(queue) /\ Head(queue) = queue[1]
        /\ ToSet(queue) = ToSet(queue') \cup {Head(queue)}
        /\ UNCHANGED <<table, calls, history>>
    BY <1>0, <1>9, Receiving
  <2>2. /\ ToSet(batch') \subseteq ToSet(batch) \cup {Head(queue)}
        /\ Hand' = Hand \cup {Head(queue)}
    BY <1>0, <1>9, Collecting
  <2>3. Covered' = Covered \cup {Head(queue)} BY <2>1, <2>2 DEF Covered, table, history
  <2>4. Head(queue) \in Req => due[Head(queue)] \subseteq Covered
    <3>1. 1 \in DOMAIN queue /\ Before(queue, 1) = {} BY <1>0, <2>1, Taken DEF Before
    <3> QED BY <1>0, <2>1, <3>1 DEF Barriers
  <2>5. ASSUME NEW k \in DOMAIN queue', queue'[k] \in Req
        PROVE  due'[queue'[k]] \subseteq Covered' \cup Before(queue', k)
    <3>1. /\ k + 1 \in DOMAIN queue /\ queue[k + 1] = queue'[k]
          /\ Before(queue, k + 1) = Before(queue', k) \cup {Head(queue)}
      BY <1>0, <2>1, TakenBefore
    <3>2. due[queue[k + 1]] \subseteq Covered \cup Before(queue, k + 1)
      BY <1>0, <2>5, <3>1 DEF Barriers
    <3>3. due' = due BY <2>1 DEF calls
    <3> QED BY <2>3, <3>1, <3>2, <3>3
  <2>6. (ToSet(queue') \cup ToSet(batch')) \cap Req \subseteq {s \in Req : pc'[s] = "wait"}
    BY <1>0, <2>1, <2>2 DEF Barriers, calls
  <2>7. \A s \in Req : pc'[s] \in {"flush", "barrier"} => due'[s] \subseteq accepted'
    BY <1>0, <2>1 DEF Barriers, calls, history
  <2>8. \A s \in ToSet(batch') \cap Req : due'[s] \subseteq Covered'
    BY <1>0, <2>1, <2>2, <2>3, <2>4 DEF Barriers, calls
  <2> QED BY <2>5, <2>6, <2>7, <2>8 DEF Barriers
<1>10. CASE CommitBatch
  <2>1. UNCHANGED <<queue, batch, pc, due, accepted>>
    BY <1>10 DEF CommitBatch, calls, history
  <2> QED BY <1>0, <1>c, <2>1, StaysBehind
<1>11. CASE Release
  <2>1. /\ Without(queue', queue, ToSet(batch)) /\ ToSet(batch') = {}
        /\ pc' = [r \in Req |-> IF r \in ToSet(batch) THEN "flushed" ELSE pc[r]]
        /\ UNCHANGED <<due, accepted>>
    BY <1>11, Releasing DEF history
  <2>2. /\ ToSet(queue') \cap Req = (ToSet(queue) \cap Req) \ ToSet(batch)
        /\ DOMAIN queue' = DOMAIN queue
        /\ \A i \in DOMAIN queue : queue'[i] \in Req => queue'[i] = queue[i]
    BY <2>1 DEF Without
  <2>3. (ToSet(queue') \cup ToSet(batch')) \cap Req \subseteq {s \in Req : pc'[s] = "wait"}
    BY <1>0, <2>1, <2>2 DEF Barriers
  <2>4. \A s \in Req : pc'[s] \in {"flush", "barrier"} => due'[s] \subseteq accepted'
    BY <1>0, <2>1 DEF Barriers
  <2>5. ASSUME NEW k \in DOMAIN queue', queue'[k] \in Req
        PROVE  due'[queue'[k]] \subseteq Covered' \cup Before(queue', k)
    <3>1. k \in DOMAIN queue /\ queue'[k] = queue[k] BY <2>2, <2>5
    <3>2. due[queue[k]] \subseteq Covered \cup Before(queue, k)
      BY <1>0, <2>5, <3>1 DEF Barriers
    <3>3. Before(queue, k) \cap Record \subseteq Before(queue', k)
      BY <1>0, <2>1, <3>1, WithoutBefore
    <3> QED BY <1>0, <1>c, <2>1, <2>5, <3>1, <3>2, <3>3
  <2> QED BY <2>1, <2>3, <2>4, <2>5 DEF Barriers
<1>12. CASE Turns
  <2>1. UNCHANGED <<queue, batch, pc, due, accepted>> BY <1>12, Turning DEF calls
  <2> QED BY <1>0, <1>c, <2>1, StaysBehind
<1>13. CASE Closes
  <2>1. UNCHANGED <<queue, batch, pc, due, accepted>> BY <1>13, Closing DEF calls, history
  <2> QED BY <1>0, <1>c, <2>1, StaysBehind
<1>14. ASSUME NEW n \in Record, Purge(n) PROVE Barriers'
  <2>1. UNCHANGED <<queue, batch, pc, due, accepted>> BY <1>14 DEF Purge, calls
  <2> QED BY <1>0, <1>c, <2>1, StaysBehind
<1>15. CASE UNCHANGED vars
  <2>1. UNCHANGED <<queue, batch, pc, due, accepted>> BY <1>15 DEF vars, calls, history
  <2> QED BY <1>0, <1>c, <2>1, StaysBehind
<1> QED BY <1>1, <1>2, <1>3, <1>4, <1>5, <1>6, <1>7, <1>8, <1>9, <1>10, <1>11,
           <1>12, <1>13, <1>14, <1>15, Steps

\* A barrier comes back when what its read is due is stored.
LEMMA FlushCoversNext ==
    ASSUME IInv, Next
    PROVE  FlushCovers'
<1>0. /\ TypeOK /\ FlushCovers /\ Barriers /\ Accounted
  BY DEF IInv
<1>1. Stored(rows) \cup purged \subseteq Stored(rows') \cup purged'
  <2>1. CASE UNCHANGED <<rows, purged>> BY <2>1
  <2>2. ASSUME NEW r \in Req, WriteDirect(r)
        PROVE  Stored(rows) \cup purged \subseteq Stored(rows') \cup purged'
    BY <2>2, DirectWrites DEF WriteDirect, history
  <2>3. CASE CommitBatch BY <2>3, BatchCommits DEF CommitBatch, history
  <2>4. ASSUME NEW n \in Record, Purge(n)
        PROVE  Stored(rows) \cup purged \subseteq Stored(rows') \cup purged'
    BY <2>4, Purging
  <2>5. ASSUME NEW r \in Req,
               \/ Arrive(r)
               \/ Send(r, "enqueue")
               \/ Send(r, "room")
               \/ SendBarrier(r, "flush")
               \/ SendBarrier(r, "barrier")
               \/ Moves(r)
               \/ FlushTimesOut(r)
               \/ List(r)
               \/ BeginDirect(r)
        PROVE  UNCHANGED <<rows, purged>>
    BY <2>5, Moving DEF Arrive, Send, SendBarrier, FlushTimesOut, List, BeginDirect,
                        BeginWrite, table, history
  <2>6. ASSUME Receive \/ CollectMore \/ Release \/ Turns \/ Closes \/ UNCHANGED vars
        PROVE  UNCHANGED <<rows, purged>>
    BY <1>0, <2>6, Receiving, Releasing, Turning, Closing DEF vars, table, history
  <2> QED BY <2>1, <2>2, <2>3, <2>4, <2>5, <2>6, Steps
<1>2. Shutdown => Shutdown'
  <2>1. CASE closer' = closer BY <2>1 DEF Shutdown
  <2>2. CASE Closes BY <2>2, Closing DEF Shutdown
  <2>3. ASSUME NEW r \in Req,
               \/ Arrive(r)
               \/ Send(r, "enqueue")
               \/ Send(r, "room")
               \/ SendBarrier(r, "flush")
               \/ SendBarrier(r, "barrier")
               \/ Moves(r)
               \/ FlushTimesOut(r)
               \/ List(r)
               \/ BeginDirect(r)
               \/ WriteDirect(r)
        PROVE  closer' = closer
    BY <2>3, Moving DEF Arrive, Send, SendBarrier, FlushTimesOut, List, BeginDirect,
                        WriteDirect
  <2>4. ASSUME Receive \/ CollectMore \/ CommitBatch \/ Release \/ Turns \/ UNCHANGED vars
        PROVE  closer' = closer
    BY <1>0, <2>4, Receiving, Releasing, Turning DEF CommitBatch, vars
  <2>5. \A n \in Record : Purge(n) => closer' = closer BY DEF Purge
  <2> QED BY <2>1, <2>2, <2>3, <2>4, <2>5, Steps
<1>3. ASSUME NEW r \in Req, pc'[r] = "flushed", ~Shutdown'
      PROVE  \/ pc[r] = "flushed" /\ due'[r] = due[r]
             \/ due'[r] \subseteq Stored(rows') \cup purged'
  <2>1. ASSUME NEW s \in Req, Arrive(s) PROVE pc[r] = "flushed" /\ due'[r] = due[r]
    BY <1>0, <1>3, <2>1 DEF Arrive, Goto, TypeOK
  <2>2. ASSUME NEW s \in Req, Answered(s) PROVE pc[r] = "flushed" /\ due'[r] = due[r]
    BY <1>0, <1>3, <2>2, Answering
  <2>3. ASSUME NEW s \in Req, SendBarrier(s, "flush") \/ SendBarrier(s, "barrier")
        PROVE  pc[r] = "flushed" /\ due'[r] = due[r]
    BY <1>0, <1>3, <2>3 DEF SendBarrier, Goto, TypeOK
  <2>4. ASSUME NEW s \in Req, Moves(s) PROVE pc[r] = "flushed" /\ due'[r] = due[r]
    BY <1>0, <1>2, <1>3, <2>4, Moving DEF TypeOK
  <2>5. ASSUME NEW s \in Req, FlushTimesOut(s) \/ BeginDirect(s)
        PROVE  pc[r] = "flushed" /\ due'[r] = due[r]
    BY <1>0, <1>3, <2>5 DEF FlushTimesOut, BeginDirect, Goto, TypeOK
  <2>6. ASSUME Receive \/ CollectMore \/ CommitBatch \/ Turns \/ Closes \/ UNCHANGED vars
        PROVE  pc[r] = "flushed" /\ due'[r] = due[r]
    BY <1>0, <1>3, <2>6, Receiving, Turning, Closing DEF CommitBatch, calls, vars
  <2>7. ASSUME Release
        PROVE  \/ pc[r] = "flushed" /\ due'[r] = due[r]
               \/ due'[r] \subseteq Stored(rows') \cup purged'
    <3>1. /\ pc'[r] = IF r \in ToSet(batch) THEN "flushed" ELSE pc[r]
          /\ due' = due /\ rows' = rows /\ purged' = purged /\ Hand = {}
      BY <2>7, Releasing DEF table, history
    <3>2. CASE r \in ToSet(batch)
      <4>1. due[r] \subseteq Covered BY <1>0, <3>2 DEF Barriers
      <4>2. abandoned = {} BY <1>0, <1>2, <1>3 DEF Accounted, Cancelled, Shutdown
      <4> QED BY <3>1, <4>1, <4>2 DEF Covered
    <3>3. CASE r \notin ToSet(batch) BY <1>3, <3>1, <3>3
    <3> QED BY <3>2, <3>3
  <2>8. ASSUME NEW n \in Record, Purge(n) PROVE pc[r] = "flushed" /\ due'[r] = due[r]
    BY <1>3, <2>8 DEF Purge, calls
  <2>9. ASSUME NEW s \in Req,
               \/ Send(s, "enqueue")
               \/ Send(s, "room")
               \/ List(s)
               \/ WriteDirect(s)
        PROVE  Answered(s)
    BY <2>9 DEF Send, List, WriteDirect
  <2> QED BY <2>1, <2>2, <2>3, <2>4, <2>5, <2>6, <2>7, <2>8, <2>9, Steps
<1>4. ASSUME NEW r \in Req, pc'[r] = "flushed", ~Shutdown'
      PROVE  due'[r] \subseteq Stored(rows') \cup purged'
  <2>1. CASE pc[r] = "flushed" /\ due'[r] = due[r]
    <3>1. due[r] \subseteq Stored(rows) \cup purged
      BY <1>0, <1>2, <1>4, <2>1 DEF FlushCovers
    <3> QED BY <1>1, <2>1, <3>1
  <2> QED BY <1>3, <1>4, <2>1
<1> QED BY <1>4 DEF FlushCovers

\* Who is in the middle of a transaction stays there, with the table as it was.
LEMMA StaysAlone ==
    ASSUME OneWriter, UNCHANGED <<writing, head, rows>>,
           writer' = "write" <=> writer = "write",
           \A r \in Req : pc'[r] = "write" <=> pc[r] = "write"
    PROVE  OneWriter'
  BY DEF OneWriter

\* No two transactions meet, and the head one has read stays the table's.
LEMMA OneWriterNext ==
    ASSUME IInv, Next
    PROVE  OneWriter'
<1>0. TypeOK /\ QueuedOnce /\ Barriers /\ OneWriter BY DEF IInv
<1>1. ASSUME NEW r \in Req,
             \/ Arrive(r)
             \/ Send(r, "enqueue")
             \/ Send(r, "room")
             \/ SendBarrier(r, "flush")
             \/ SendBarrier(r, "barrier")
             \/ Moves(r)
             \/ FlushTimesOut(r)
             \/ List(r)
      PROVE  OneWriter'
  <2>1. UNCHANGED <<writing, head, rows, writer>>
    BY <1>1, Moving DEF Arrive, Send, SendBarrier, FlushTimesOut, List, table
  <2>2. /\ pc[r] # "write" /\ pc'[r] # "write"
        /\ \A s \in Req \ {r} : pc'[s] = pc[s]
    BY <1>0, <1>1, Moving
    DEF Arrive, Send, SendBarrier, FlushTimesOut, List, Answered, Goto, TypeOK
  <2> QED BY <1>0, <2>1, <2>2, StaysAlone
<1>2. ASSUME NEW r \in Req, BeginDirect(r) PROVE OneWriter'
  <2>1. /\ writing = {} /\ BeginWrite(r) /\ UNCHANGED writer /\ r \in Proc
        /\ r # Writer /\ pc'[r] = "write" /\ \A s \in Req \ {r} : pc'[s] = pc[s]
    BY <1>0, <1>2, Apart DEF BeginDirect, BeginWrite, MayWrite, Goto, TypeOK
  <2>2. rows' = rows /\ writing' = {r} /\ head'[r] = ChainHead(rows)
    BY <2>1, Beginning
  <2> QED BY <1>0, <2>1, <2>2 DEF OneWriter
<1>3. ASSUME NEW r \in Req, WriteDirect(r) PROVE OneWriter'
  <2>1. /\ pc[r] = "write" /\ Answered(r) /\ UNCHANGED writer /\ writing' = {}
    BY <1>3, DirectWrites DEF WriteDirect
  <2>2. r \in writing /\ \A s \in Req \ {r} : pc[s] # "write"
    BY <1>0, <2>1 DEF OneWriter
  <2>3. writer # "write" BY <1>0, <2>2, Apart DEF OneWriter
  <2>4. \A s \in Req : pc'[s] # "write" BY <1>0, <2>1, <2>2, Answering
  <2> QED BY <2>1, <2>3, <2>4 DEF OneWriter
<1>4. CASE Receive \/ CollectMore
  BY <1>0, <1>4, Receiving, Collecting, StaysAlone DEF table, calls
<1>5. ASSUME writer = "write", writing' = {}, writer' # "write", UNCHANGED calls
      PROVE  OneWriter'
  <2>1. \A s \in Req : pc[s] # "write" BY <1>0, <1>5, Apart DEF OneWriter
  <2> QED BY <1>5, <2>1 DEF OneWriter, calls
<1>6. CASE CommitBatch
  <2>1. writing' = {} BY <1>6, BatchCommits
  <2> QED BY <1>5, <1>6, <2>1 DEF CommitBatch
<1>7. CASE Release
  <2>1. /\ pc' = [r \in Req |-> IF r \in ToSet(batch) THEN "flushed" ELSE pc[r]]
        /\ writer = "release" /\ writer' = "receive" /\ UNCHANGED table
    BY <1>7, Releasing
  <2>2. \A r \in Req : pc'[r] = "write" <=> pc[r] = "write"
    BY <1>0, <2>1 DEF Barriers
  <2> QED BY <1>0, <2>1, <2>2, StaysAlone DEF table
<1>8. CASE Turns
  <2>1. UNCHANGED <<rows, calls>> BY <1>8, Turning
  <2>2. CASE UNCHANGED <<writing, head>> /\ writer # "write" /\ writer' # "write"
    BY <1>0, <2>1, <2>2, StaysAlone DEF calls
  <2>3. CASE /\ writing = {} /\ writing' = {Writer} /\ writer' = "write"
             /\ head'[Writer] = ChainHead(rows)
    BY <1>0, <2>1, <2>3, Apart DEF OneWriter, calls
  <2>4. CASE writer = "write" /\ writing' = {} /\ writer' # "write"
    BY <1>5, <2>1, <2>4
  <2> QED BY <1>8, <2>2, <2>3, <2>4, Turning
<1>9. CASE Closes BY <1>0, <1>9, Closing, StaysAlone DEF table, calls
<1>10. ASSUME NEW n \in Record, Purge(n) PROVE OneWriter'
  BY <1>0, <1>10 DEF Purge, MayWrite, OneWriter, calls
<1>11. CASE UNCHANGED vars BY <1>0, <1>11, StaysAlone DEF vars, table, calls
<1> QED BY <1>1, <1>2, <1>3, <1>4, <1>6, <1>7, <1>8, <1>9, <1>10, <1>11, Steps

\* The writer ends last, and nobody waits for room once the queue is closed.
LEMMA EndsNext ==
    ASSUME IInv, Next
    PROVE  Ends'
<1>0. TypeOK /\ QueuedOnce /\ Barriers /\ Ends BY DEF IInv
<1>1. ASSUME NEW r \in Req,
             \/ Arrive(r)
             \/ List(r)
             \/ BeginDirect(r)
             \/ WriteDirect(r)
      PROVE  Ends'
  <2>1. UNCHANGED <<queue, writer, closer>>
    BY <1>1 DEF Arrive, List, BeginDirect, WriteDirect
  <2>2. \A s \in Req : pc'[s] \in {"room", "barrier"} => pc[s] \in {"room", "barrier"}
    BY <1>0, <1>1 DEF Arrive, List, BeginDirect, WriteDirect, Answered, Goto, TypeOK
  <2> QED BY <1>0, <2>1, <2>2 DEF Ends, Closed, Readers
<1>2. ASSUME NEW r \in Req,
             \/ Send(r, "enqueue") /\ ~Closed
             \/ Send(r, "room")
             \/ SendBarrier(r, "flush") /\ ~Closed
             \/ SendBarrier(r, "barrier")
      PROVE  Ends'
  <2>1. ~Closed /\ writer # "done"
    BY <1>0, <1>2 DEF Ends, Readers, Send, SendBarrier
  <2>2. UNCHANGED <<writer, closer>> BY <1>2 DEF Send, SendBarrier
  <2> QED BY <1>0, <2>1, <2>2 DEF Ends, Closed
<1>3. ASSUME NEW r \in Req, Moves(r) PROVE Ends'
  <2>1. UNCHANGED <<queue, writer, closer>> BY <1>3, Moving
  <2>2. Closed => \A s \in Req :
            pc'[s] \in {"room", "barrier"} => pc[s] \in {"room", "barrier"}
    BY <1>0, <1>3, Moving DEF TypeOK
  <2> QED BY <1>0, <2>1, <2>2 DEF Ends, Closed, Readers
<1>4. ASSUME NEW r \in Req, FlushTimesOut(r) PROVE Ends'
  <2>1. Without(queue', queue, {r}) BY <1>0, <1>4, Leaving DEF FlushTimesOut, TypeOK
  <2>2. queue = <<>> => queue' = <<>>
    <3>1. SUFFICES ASSUME queue = <<>> PROVE queue' = <<>> OBVIOUS
    <3>2. DOMAIN queue' = {} /\ queue' \in Seq(Item) BY <2>1, <3>1 DEF Without
    <3> QED BY <3>2
  <2>3. UNCHANGED <<writer, closer>> BY <1>4 DEF FlushTimesOut
  <2>4. \A s \in Req : pc'[s] \in {"room", "barrier"} => pc[s] \in {"room", "barrier"}
    BY <1>0, <1>4 DEF FlushTimesOut, Goto, TypeOK
  <2> QED BY <1>0, <2>2, <2>3, <2>4 DEF Ends, Closed, Readers
<1>5. CASE Receive \/ CollectMore
  <2>1. writer \in {"receive", "collect"} /\ writer' # "done" BY <1>0, <1>5, Collecting
  <2>2. UNCHANGED <<closer, pc>> BY <1>0, <1>5, Receiving DEF calls
  <2> QED BY <1>0, <2>1, <2>2 DEF Ends, Closed, Readers
<1>6. CASE CommitBatch
  BY <1>0, <1>6 DEF CommitBatch, calls, Ends, Closed, Readers
<1>7. CASE Release
  <2>1. /\ pc' = [r \in Req |-> IF r \in ToSet(batch) THEN "flushed" ELSE pc[r]]
        /\ writer = "release" /\ writer' = "receive" /\ UNCHANGED closer
    BY <1>7, Releasing
  <2> QED BY <1>0, <2>1 DEF Ends, Closed, Readers
<1>8. CASE Turns
  <2>1. UNCHANGED <<queue, closer, pc>> BY <1>8, Turning DEF calls
  <2>2. writer' = "done" => Closed /\ queue = <<>> BY <1>8, Turning
  <2>3. writer # "done" BY <1>8, Turning
  <2> QED BY <1>0, <2>1, <2>2, <2>3 DEF Ends, Closed, Readers
<1>9. CASE Closes
  <2>1. UNCHANGED <<queue, writer, pc>> BY <1>9, Closing DEF calls
  <2> QED BY <1>0, <1>9, <2>1, Closing DEF Ends, Closed, Readers
<1>10. ASSUME NEW n \in Record, Purge(n) PROVE Ends'
  BY <1>0, <1>10 DEF Purge, calls, Ends, Closed, Readers
<1>11. CASE UNCHANGED vars BY <1>0, <1>11 DEF vars, calls, Ends, Closed, Readers
<1> QED BY <1>1, <1>2, <1>3, <1>4, <1>5, <1>6, <1>7, <1>8, <1>9, <1>10, <1>11, Steps

\* Every step goes on with the chain from its head, or shortens it.
LEMMA ChainUnforkedNext ==
    ASSUME IInv, Next
    PROVE  ChainUnforked'
<1>0. TypeOK /\ QueuedOnce BY DEF IInv
<1>1. CASE UNCHANGED <<rows, purged>>
  BY <1>1 DEF IInv, ChainUnforked, Breaks, Preceding
<1>2. ASSUME Unforked(rows'), Linked(rows', purged') PROVE ChainUnforked'
  BY <1>2 DEF ChainUnforked, Unforked, Linked
<1>3. ASSUME NEW r \in Req, WriteDirect(r) PROVE ChainUnforked'
  BY <1>2, <1>3, DirectWrites DEF WriteDirect, history
<1>4. CASE CommitBatch BY <1>2, <1>4, BatchCommits DEF CommitBatch, history
<1>5. ASSUME NEW n \in Record, Purge(n) PROVE ChainUnforked' BY <1>2, <1>5, Purging
<1>6. ASSUME NEW r \in Req,
             \/ Arrive(r)
             \/ Send(r, "enqueue")
             \/ Send(r, "room")
             \/ SendBarrier(r, "flush")
             \/ SendBarrier(r, "barrier")
             \/ Moves(r)
             \/ FlushTimesOut(r)
             \/ List(r)
             \/ BeginDirect(r)
      PROVE  UNCHANGED <<rows, purged>>
  BY <1>6, Moving DEF Arrive, Send, SendBarrier, FlushTimesOut, List, BeginDirect,
                      BeginWrite, table, history
<1>7. ASSUME Receive \/ CollectMore \/ Release \/ Turns \/ Closes \/ UNCHANGED vars
      PROVE  UNCHANGED <<rows, purged>>
  BY <1>0, <1>7, Receiving, Releasing, Turning, Closing DEF vars, table, history
<1> QED BY <1>1, <1>3, <1>4, <1>5, <1>6, <1>7, Steps
-----------------------------------------------------------------------------
(* The theorems *)

\* The clauses hold where the buffer starts.
LEMMA Starts == Init => IInv
<1> SUFFICES ASSUME Init PROVE IInv OBVIOUS
<1> USE DEF Init
<1>1. ToSet(queue) = {} /\ ToSet(batch) = {} /\ Stored(rows) = {} /\ DOMAIN rows = {}
  BY DEF ToSet, Stored
<1>2. TypeOK
  <2>1. MaxRecord \in Nat BY BufferAssumption
  <2>2. queue \in Seq(Item) /\ batch \in Seq(Item) /\ rows \in Seq(Entry) OBVIOUS
  <2> QED BY <2>1, <2>2 DEF TypeOK
<1>3. Fresh
  <2>1. \A r \in Req : rec[r] = None /\ pc[r] = "idle" OBVIOUS
  <2> QED BY <1>1, <2>1 DEF Fresh
<1>4. QueuedOnce /\ Accounted /\ StoredOnce
  BY <1>1 DEF QueuedOnce, Accounted, StoredOnce, Single
<1>5. Barriers /\ FlushCovers BY <1>1 DEF Barriers, FlushCovers
<1>6. OneWriter
  <2>1. Writer \notin writing /\ writer # "write" /\ \A r \in Req : pc[r] # "write"
    OBVIOUS
  <2> QED BY <2>1 DEF OneWriter
<1>7. Ends /\ ChainUnforked
  BY <1>1 DEF Ends, Closed, Readers, ChainUnforked, Breaks
<1> QED BY <1>2, <1>3, <1>4, <1>5, <1>6, <1>7 DEF IInv

\* Where nothing changes, the clauses stay as they are.
LEMMA Stutters == ASSUME IInv, UNCHANGED vars PROVE IInv'
<1> USE DEF vars, table, calls, history
<1>1. TypeOK' /\ Fresh' /\ QueuedOnce' /\ Accounted' /\ StoredOnce'
  BY DEF IInv, TypeOK, Fresh, QueuedOnce, Accounted, Hand, Cancelled, StoredOnce, Single
<1>2. Barriers' /\ FlushCovers'
  BY DEF IInv, Barriers, Covered, Hand, FlushCovers, Shutdown
<1>3. OneWriter' /\ Ends' /\ ChainUnforked'
  BY DEF IInv, OneWriter, Ends, Closed, Readers, ChainUnforked
<1> QED BY <1>1, <1>2, <1>3 DEF IInv

\* The clauses hold always.
THEOREM Holds == Spec => []IInv
<1>1. IInv /\ [Next]_vars => IInv'
  <2>1. ASSUME IInv, Next PROVE IInv'
    BY <2>1, TypeOKNext, FreshNext, QueuedOnceNext, AccountedNext, StoredOnceNext,
       BarriersNext, FlushCoversNext, OneWriterNext, EndsNext, ChainUnforkedNext DEF IInv
  <2> QED BY <2>1, Stutters
<1> QED BY <1>1, Starts, PTL DEF Spec

\* The buffer's queue and batch hold records and barriers, every row is an
\* entry, and the program counters are those of the code.
THEOREM TypeCorrect == Spec => []TypeOK
<1>1. IInv => TypeOK BY DEF IInv
<1> QED BY <1>1, Holds, PTL

\* A table where no record is twice has as many records as rows.
LEMMA AsManyRecords ==
    ASSUME rows \in Seq(Entry), Single(rows)
    PROVE  Cardinality(Stored(rows)) = Len(rows)
<1> DEFINE f == [i \in 1..Len(rows) |-> rows[i].id]
<1>1. Len(rows) \in Nat /\ DOMAIN rows = 1..Len(rows) OBVIOUS
<1>2. f \in Bijection(1..Len(rows), Stored(rows))
  <2>1. f \in Surjection(1..Len(rows), Stored(rows)) BY <1>1 DEF Surjection, Stored
  <2>2. f \in Injection(1..Len(rows), Stored(rows))
    BY <1>1, <2>1 DEF Injection, IsInjective, Surjection, Single
  <2> QED BY <2>1, <2>2 DEF Bijection
<1> HIDE DEF f
<1> QED BY <1>1, <1>2, FS_CountingElements DEF ExistsBijection

\* "It never drops a record": what was queued is stored or still in hand, one
\* time, through the writer's failures and retries, direct writes, retention
\* and Close (Buffered.run and store).
THEOREM RecordsKeptOnce == Spec => []KeptOnce
<1>1. IInv => KeptOnce
  <2>1. InHand = ToSet(queue) \cup Hand BY DEF InHand, Hand
  <2> SUFFICES ASSUME IInv PROVE KeptOnce OBVIOUS
  <2>2. Cardinality(Stored(rows)) = Len(rows)
    BY AsManyRecords DEF IInv, TypeOK, StoredOnce
  <2>3. Stored(rows) \cap (purged \cup InHand) = {} BY <2>1 DEF IInv, StoredOnce
  <2>4. accepted \subseteq Stored(rows) \cup purged \cup abandoned \cup InHand
    BY <2>1 DEF IInv, Accounted
  <2> QED BY <2>2, <2>3, <2>4 DEF KeptOnce, IInv, Accounted
<1> QED BY <1>1, Holds, PTL

\* A read whose barrier came back sees what had been accepted before it
\* (FlushContext), in however many batches the writer stores it.
THEOREM FlushesCover == Spec => []FlushCovers
<1>1. IInv => FlushCovers BY DEF IInv
<1> QED BY <1>1, Holds, PTL

\* A Close that saw the writer end leaves nothing behind but what the writer
\* gave up, and no request sends on the closed channel (Buffered.Close).
THEOREM ClosedStoresAll == Spec => []ClosedMeansStored
<1>1. IInv => ClosedMeansStored
  <2> SUFFICES ASSUME IInv PROVE ClosedMeansStored OBVIOUS
  <2>1. ASSUME closer = "closed"
        PROVE  accepted \subseteq Stored(rows) \cup purged \cup abandoned
    <3>1. writer = "done" /\ queue = <<>> BY <2>1 DEF IInv, Ends
    <3>2. Hand = {} /\ ToSet(queue) = {} BY <3>1 DEF Hand, ToSet
    <3> QED BY <3>2 DEF IInv, Accounted
  <2> QED BY <2>1 DEF ClosedMeansStored, IInv, Ends
<1> QED BY <1>1, Holds, PTL

\* The chain of hashes does not fork, and breaks only where retention removed
\* an entry (WriteActivity, PurgeActivity).
THEOREM ChainNeverForks == Spec => []ChainUnforked
<1>1. IInv => ChainUnforked BY DEF IInv
<1> QED BY <1>1, Holds, PTL
=============================================================================
