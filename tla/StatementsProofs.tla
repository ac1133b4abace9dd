-------------------------- MODULE StatementsProofs ---------------------------
(***************************************************************************)
(* Proofs about Statements: what is recorded, what a backup's state says,  *)
(* what a read-only connection lets through, and what a restore leaves of  *)
(* the rows, for every set of requests, configurations, policies and keys. *)
(*                                                                         *)
(* The inductive invariant IInv follows a call through its stages          *)
(* (Proceeding), and ties it to the backup it made (Booked, Owned,         *)
(* Distinct).  None of it looks at the rows.  RowsInv, inductive beside    *)
(* it, does: it says of every backup where the table still is as the       *)
(* backup left it (Standing, Pending, Partial).                            *)
(***************************************************************************)
EXTENDS Statements, FiniteSetTheorems, SequenceTheorems, TLAPS

CallFields ==
    {"pc", "who", "path", "stmt", "ask", "intx", "cleared", "bid", "told", "out", "rec",
     "reached", "wrote", "streamed", "todo"}

Stages == {"judge", "capture", "run", "stream", "restore", "finish", "answered"}

\* What a call that ran can answer.
Ends == {"ok", "error", "truncated"}

Recorded(c) ==
    /\ c.rec <= 1
    /\ c.reached \/ (c.out = "denied" /\ c.path # "deferred") => c.rec = 1

\* A statement on its way, by its stage.
Proceeds(c) ==
    /\ c.pc # "restore" /\ c.stmt \in conf.stmts
    /\ conf.engine \in SqlEngines => c.path \in {"live", "deferred"}
    /\ c.bid \in 0..Len(backups)
    /\ c.pc \in {"judge", "capture"} => c.bid = 0
    /\ c.told => c.bid # 0
    /\ c.pc \in {"judge", "capture", "run", "stream"} => c.rec = 0 /\ c.reached = FALSE
    /\ c.pc = "finish" => c.rec = 0 /\ c.out \in Ends
    /\ c.pc = "answered" => Recorded(c) /\ (c.bid # 0 => c.out \in Ends)

\* A restore is judged as the write it is, and no review clears it.
Restores(c) ==
    /\ c.pc \in {"judge", "restore", "answered"}
    /\ IsWrite(c.stmt.kind) /\ c.cleared = FALSE /\ c.intx = FALSE

\* What is past the policies of a read-only connection was cleared, or does
\* not write.
Guarded(c) ==
    conf.readOnly /\ c.pc \in {"capture", "run", "stream", "restore"} =>
        c.cleared \/ ~IsWrite(c.stmt.kind)

Sound(c) ==
    /\ DOMAIN c = CallFields /\ c.pc \in Stages
    /\ IF c.path = "restore" THEN Restores(c) ELSE Proceeds(c)
    /\ Guarded(c)

Asked(r) == calls[r].pc # "idle"

Proceeding == DOMAIN calls = Req /\ \A r \in Req : Asked(r) => Sound(calls[r])

BookFields ==
    {"id", "by", "engine", "kind", "keys", "cols", "puts", "before", "state", "stmt", "hit",
     "touched", "open", "stray"}

Later(bks, i) == {j \in i + 1 .. Len(bks) : bks[j].by = bks[i].by}

IsBook(b) == DOMAIN b = BookFields /\ b.state \in {"kept", "pruned", "removed", "discarded"}

IsList(s) == Len(s) \in Nat /\ s = [i \in 1..Len(s) |-> s[i]]

\* A backup that was pushed out has at least Keep newer ones of its owner.
Booked ==
    /\ IsList(backups)
    /\ \A i \in 1..Len(backups) : IsBook(backups[i])
    /\ \A i \in 1..Len(backups) :
         backups[i].state = "pruned" => Cardinality(Later(backups, i)) >= Keep

\* The call that made backup i.
Made(r, i) == Asked(r) /\ calls[r].path # "restore" /\ calls[r].bid = i

Distinct ==
    \A i \in 1..Len(backups) : \A r, q \in Req : Made(r, i) /\ Made(q, i) => r = q

Owned ==
    \A i \in 1..Len(backups) : \A r \in Req : Made(r, i) =>
        LET c == calls[r]
        IN  /\ backups[i].state = "discarded" => c.pc = "answered" /\ c.out = "error"
            /\ c.pc = "answered" /\ c.out = "error" /\ (c.streamed => c.path = "deferred") =>
                   backups[i].state # "kept" \/ backups[i].stray
            /\ ~c.told => backups[i].stray

IInv == conf \in Confs /\ Proceeding /\ Booked /\ Distinct /\ Owned

-----------------------------------------------------------------------------
\* The operators that make a call.

\* An answer changes the stage, the outcome and the count of records.
LEMMA Answering ==
    ASSUME NEW c, DOMAIN c = CallFields, NEW out, NEW recorded
    PROVE  LET d == Answer(c, out, recorded)
           IN  /\ DOMAIN d = CallFields /\ d.pc = "answered" /\ d.out = out
               /\ d.rec = c.rec + (IF recorded THEN 1 ELSE 0)
               /\ d.path = c.path /\ d.stmt = c.stmt /\ d.cleared = c.cleared
               /\ d.intx = c.intx /\ d.bid = c.bid /\ d.told = c.told
               /\ d.reached = c.reached /\ d.streamed = c.streamed
  BY DEF Answer, CallFields

-----------------------------------------------------------------------------
\* Backups.

\* A function over 1..n is a list of n.
LEMMA Listed ==
    ASSUME NEW n \in Nat, NEW f, f = [i \in 1..n |-> f[i]]
    PROVE  Len(f) = n /\ IsList(f)
<1> DEFINE S == {f[i] : i \in 1..n}
<1>1. f \in [1..n -> S]
  <2>1. \A i \in 1..n : f[i] \in S OBVIOUS
  <2> QED BY <2>1
<1>2. f \in Seq(S) BY <1>1, SeqDef
<1>3. Len(f) \in Nat /\ DOMAIN f = 1..Len(f) BY <1>2, LenProperties
<1>4. 1..n = 1..Len(f) BY <1>1, <1>3
<1>5. n = Len(f) BY <1>3, <1>4
<1> QED BY <1>5 DEF IsList

\* What comes later in a list is finite, and as many as any part of it.
LEMMA LaterCounts ==
    ASSUME NEW bks, Len(bks) \in Nat, NEW i \in Nat, NEW part \in SUBSET Later(bks, i)
    PROVE  /\ Cardinality(part) \in Nat /\ Cardinality(Later(bks, i)) \in Nat
           /\ Cardinality(part) <= Cardinality(Later(bks, i))
<1>1. IsFiniteSet(i + 1 .. Len(bks)) BY FS_Interval
<1>2. Later(bks, i) \subseteq i + 1 .. Len(bks) BY DEF Later
<1>3. IsFiniteSet(Later(bks, i)) BY <1>1, <1>2, FS_Subset
<1>4. IsFiniteSet(part) /\ Cardinality(part) <= Cardinality(Later(bks, i))
  BY <1>3, FS_Subset
<1> QED BY <1>3, <1>4, FS_CardinalityType

\* A step that keeps the list and its owners, and pushes nothing out without
\* Keep newer ones, keeps Booked.
LEMMA Bookkeeping ==
    ASSUME Booked, IsList(backups'), Len(backups) <= Len(backups'),
           \A i \in 1..Len(backups') : IsBook(backups'[i]),
           \A i \in 1..Len(backups) : backups'[i].by = backups[i].by,
           \A i \in 1..Len(backups') :
               backups'[i].state = "pruned" =>
                   \/ i \in 1..Len(backups) /\ backups[i].state = "pruned"
                   \/ Cardinality(Later(backups', i)) >= Keep
    PROVE  Booked'
<1>1. SUFFICES ASSUME NEW i \in 1..Len(backups), backups[i].state = "pruned"
               PROVE  Cardinality(Later(backups', i)) >= Keep
  BY DEF Booked, IsList, IsBook, Later
<1>2. Cardinality(Later(backups, i)) >= Keep BY <1>1 DEF Booked
<1>3. Later(backups, i) \subseteq Later(backups', i) BY DEF Later, Booked, IsList
<1>4. Len(backups) \in Nat /\ Len(backups') \in Nat BY DEF Booked, IsList
<1>5. /\ Cardinality(Later(backups, i)) \in Nat
      /\ Cardinality(Later(backups', i)) \in Nat
      /\ Cardinality(Later(backups, i)) <= Cardinality(Later(backups', i))
  BY <1>3, <1>4, LaterCounts
<1> QED BY <1>2, <1>5, StatementsAssumption

\* A new backup is the last of the list, and the oldest ones go.
LEMMA Creating ==
    ASSUME Booked, NEW b, IsBook(b), b.state = "kept", backups' = Create(backups, b)
    PROVE  /\ Booked' /\ Len(backups') = Len(backups) + 1
           /\ \A i \in 1..Len(backups) :
                  backups'[i].state \in {backups[i].state, "pruned"}
           /\ backups'[Len(backups) + 1].state \in {"kept", "pruned"}
           /\ \A i \in 1..Len(backups) : backups'[i].stray = backups[i].stray
           /\ backups'[Len(backups) + 1].stray = b.stray
<1> DEFINE all  == Append(backups, b)
           mine == {i \in 1..Len(all) : all[i].state = "kept" /\ all[i].by = b.by}
           Over(i) == i \in mine /\ Cardinality({j \in mine : j > i}) >= Keep
           n == Len(backups) + 1
           S == {backups[i] : i \in 1..Len(backups)} \cup {b}
<1>1. /\ Len(backups) \in Nat /\ backups = [i \in 1..Len(backups) |-> backups[i]]
      /\ \A i \in 1..Len(backups) : IsBook(backups[i])
  BY DEF Booked, IsList
<1>2. backups \in Seq(S)
  <2>1. backups \in [1..Len(backups) -> S] BY <1>1
  <2> QED BY <1>1, <2>1, SeqDef
<1>3. /\ Len(all) = n /\ all[n] = b
      /\ \A i \in 1..Len(backups) : all[i] = backups[i]
  BY <1>1, <1>2, AppendProperties
<1>4. \A i \in 1..n : IsBook(all[i])
  BY <1>1, <1>3
<1>5. backups' = [i \in 1..n |->
          IF Over(i) THEN [all[i] EXCEPT !.state = "pruned"] ELSE all[i]]
  BY <1>3 DEF Create
<1> HIDE DEF all, mine, Over
<1>6. \A i \in 1..n :
        /\ IsBook(backups'[i]) /\ backups'[i].by = all[i].by
        /\ backups'[i].stray = all[i].stray
        /\ backups'[i].state \in {all[i].state, "pruned"}
        /\ backups'[i].state = "pruned" => Over(i) \/ all[i].state = "pruned"
  BY <1>4, <1>5 DEF IsBook, BookFields
<1>7. n \in Nat /\ Len(backups') = n /\ IsList(backups')
  <2>1. backups' = [i \in 1..n |-> backups'[i]] BY <1>5
  <2> QED BY <1>1, <2>1, Listed
<1>8. ASSUME NEW i \in 1..n, Over(i) PROVE Cardinality(Later(backups', i)) >= Keep
  <2>1. {j \in mine : j > i} \subseteq Later(backups', i)
    <3> SUFFICES ASSUME NEW j \in mine, j > i PROVE j \in Later(backups', i)
      OBVIOUS
    <3>1. /\ i \in 1..n /\ all[i].by = b.by /\ j \in 1..n /\ all[j].by = b.by
          /\ i + 1 <= j
      BY <1>1, <1>3, <1>8 DEF mine, Over
    <3> QED BY <1>6, <1>7, <3>1 DEF Later
  <2>2. /\ Cardinality({j \in mine : j > i}) \in Nat
        /\ Cardinality(Later(backups', i)) \in Nat
        /\ Cardinality({j \in mine : j > i}) <= Cardinality(Later(backups', i))
    BY <1>7, <2>1, LaterCounts
  <2> QED BY <1>8, <2>2, StatementsAssumption DEF Over
<1>9. Booked'
  <2>1. \A i \in 1..n : backups'[i].state = "pruned" =>
            \/ i \in 1..Len(backups) /\ backups[i].state = "pruned"
            \/ Cardinality(Later(backups', i)) >= Keep
    BY <1>1, <1>3, <1>6, <1>8
  <2> QED BY <1>1, <1>3, <1>6, <1>7, <2>1, Bookkeeping
<1> QED BY <1>1, <1>3, <1>6, <1>7, <1>9

\* So is one that is stored while the oldest stay.
LEMMA Appending ==
    ASSUME Booked, NEW b, IsBook(b), b.state = "kept", backups' = Append(backups, b)
    PROVE  /\ Booked' /\ Len(backups') = Len(backups) + 1
           /\ \A i \in 1..Len(backups) : backups'[i] = backups[i]
           /\ backups'[Len(backups) + 1] = b
<1> DEFINE n == Len(backups) + 1
           S == {backups[i] : i \in 1..Len(backups)} \cup {b}
<1>1. /\ Len(backups) \in Nat /\ backups = [i \in 1..Len(backups) |-> backups[i]]
      /\ \A i \in 1..Len(backups) : IsBook(backups[i])
  BY DEF Booked, IsList
<1>2. backups \in Seq(S)
  <2>1. backups \in [1..Len(backups) -> S] BY <1>1
  <2> QED BY <1>1, <2>1, SeqDef
<1>3. /\ backups' \in Seq(S \cup {b}) /\ Len(backups') = n /\ backups'[n] = b
      /\ \A i \in 1..Len(backups) : backups'[i] = backups[i]
  BY <1>1, <1>2, AppendProperties
<1>4. IsList(backups')
  BY <1>1, <1>3, LenProperties DEF IsList
<1>5. \A i \in 1..n : IsBook(backups'[i]) BY <1>1, <1>3
<1>6. \A i \in 1..n : backups'[i].state = "pruned" =>
          i \in 1..Len(backups) /\ backups[i].state = "pruned"
  BY <1>1, <1>3
<1>7. Booked' BY <1>1, <1>3, <1>4, <1>5, <1>6, Bookkeeping
<1> QED BY <1>3, <1>7

\* A step that leaves every backup with its owner and its state.
Kept ==
    /\ IsList(backups') /\ Len(backups') = Len(backups)
    /\ \A i \in 1..Len(backups) :
         /\ IsBook(backups'[i]) /\ backups'[i].by = backups[i].by
         /\ backups'[i].state = backups[i].state /\ backups'[i].stray = backups[i].stray

\* A step that takes one backup that is kept to another state.
Restates(i, state) ==
    /\ IsList(backups') /\ Len(backups') = Len(backups)
    /\ i \in 1..Len(backups) /\ backups[i].state = "kept" /\ backups'[i].state = state
    /\ \A j \in 1..Len(backups) :
         /\ IsBook(backups'[j]) /\ backups'[j].by = backups[j].by
         /\ backups'[j].stray = backups[j].stray
         /\ j # i => backups'[j].state = backups[j].state

\* A step that fails to do so.
Strays(i) ==
    /\ IsList(backups') /\ Len(backups') = Len(backups)
    /\ i \in 1..Len(backups) /\ backups'[i].stray = TRUE
    /\ \A j \in 1..Len(backups) :
         /\ IsBook(backups'[j]) /\ backups'[j].by = backups[j].by
         /\ backups'[j].state = backups[j].state
         /\ j # i => backups'[j].stray = backups[j].stray

\* Backups that do not change are kept as they are.
LEMMA Unchanging ==
    ASSUME Booked, UNCHANGED backups
    PROVE  Kept
  BY DEF Booked, Kept, IsList

\* What a write means to the backups moves none of them.
LEMMA Noting ==
    ASSUME Booked, NEW own, NEW changed, backups' = Noted(backups, own, changed)
    PROVE  Kept
<1>1. Len(backups) \in Nat /\ \A i \in 1..Len(backups) : IsBook(backups[i])
  BY DEF Booked, IsList
<1>2. \A i \in 1..Len(backups) :
        /\ IsBook(backups'[i]) /\ backups'[i].by = backups[i].by
        /\ backups'[i].state = backups[i].state /\ backups'[i].stray = backups[i].stray
  BY <1>1 DEF Noted, IsBook, BookFields
<1>3. backups' = [i \in 1..Len(backups) |-> backups'[i]] BY DEF Noted
<1> QED BY <1>1, <1>2, <1>3, Listed DEF Kept

\* The end of a transaction closes its backups.
LEMMA Closing ==
    ASSUME Booked,
           Undone \/ backups' = [i \in 1..Len(backups) |-> [backups[i] EXCEPT !.open = FALSE]]
    PROVE  Kept
<1>1. Len(backups) \in Nat /\ \A i \in 1..Len(backups) : IsBook(backups[i])
  BY DEF Booked, IsList
<1>2. \A i \in 1..Len(backups) :
        /\ IsBook(backups'[i]) /\ backups'[i].by = backups[i].by
        /\ backups'[i].state = backups[i].state /\ backups'[i].stray = backups[i].stray
  <2>1. CASE Undone
    BY <1>1, <2>1 DEF Undone, IsBook, BookFields
  <2>2. CASE backups' = [i \in 1..Len(backups) |-> [backups[i] EXCEPT !.open = FALSE]]
    BY <1>1, <2>2 DEF IsBook, BookFields
  <2> QED BY <2>1, <2>2
<1>3. backups' = [i \in 1..Len(backups) |-> backups'[i]] BY DEF Undone
<1> QED BY <1>1, <1>2, <1>3, Listed DEF Kept

\* A backup that is kept is deleted by its owner, or discarded.
LEMMA Restating ==
    ASSUME Booked, NEW i \in 1..Len(backups), backups[i].state = "kept",
           NEW state \in {"removed", "discarded"},
           backups' = [backups EXCEPT ![i].state = state]
    PROVE  Restates(i, state)
<1>1. /\ Len(backups) \in Nat /\ backups = [j \in 1..Len(backups) |-> backups[j]]
      /\ \A j \in 1..Len(backups) : IsBook(backups[j])
  BY DEF Booked, IsList
<1>2. backups'[i] = [backups[i] EXCEPT !.state = state]
  BY <1>1
<1>3. \A j \in 1..Len(backups) : j # i => backups'[j] = backups[j]
  BY <1>1
<1>4. \A j \in 1..Len(backups) : /\ IsBook(backups'[j]) /\ backups'[j].by = backups[j].by
                                 /\ backups'[j].stray = backups[j].stray
  BY <1>1, <1>2, <1>3 DEF IsBook, BookFields
<1>5. backups'[i].state = state BY <1>1, <1>2 DEF IsBook, BookFields
<1>6. backups' = [j \in 1..Len(backups) |-> backups'[j]] BY <1>1
<1> QED BY <1>1, <1>3, <1>4, <1>5, <1>6, Listed DEF Restates

\* Or the store fails to discard it.
LEMMA Straying ==
    ASSUME Booked, NEW i \in 1..Len(backups), backups' = [backups EXCEPT ![i].stray = TRUE]
    PROVE  Strays(i)
<1>1. /\ Len(backups) \in Nat /\ backups = [j \in 1..Len(backups) |-> backups[j]]
      /\ \A j \in 1..Len(backups) : IsBook(backups[j])
  BY DEF Booked, IsList
<1>2. backups'[i] = [backups[i] EXCEPT !.stray = TRUE] BY <1>1
<1>3. \A j \in 1..Len(backups) : j # i => backups'[j] = backups[j] BY <1>1
<1>4. \A j \in 1..Len(backups) : /\ IsBook(backups'[j]) /\ backups'[j].by = backups[j].by
                                 /\ backups'[j].state = backups[j].state
  BY <1>1, <1>2, <1>3 DEF IsBook, BookFields
<1>5. backups'[i].stray = TRUE BY <1>1, <1>2 DEF IsBook, BookFields
<1>6. backups' = [j \in 1..Len(backups) |-> backups'[j]] BY <1>1
<1> QED BY <1>1, <1>3, <1>4, <1>5, <1>6, Listed DEF Strays

\* None of these steps pushes a backup out or adds one.
LEMMA StayBooked ==
    ASSUME Booked, Kept \/ \E i \in 1..Len(backups) :
                              \/ \E state \in {"removed", "discarded"} : Restates(i, state)
                              \/ Strays(i)
    PROVE  Booked' /\ Len(backups') = Len(backups)
<1>1. CASE Kept
  BY <1>1, Bookkeeping DEF Kept, Booked, IsList
<1>2. ASSUME NEW i \in 1..Len(backups), NEW state \in {"removed", "discarded"},
             Restates(i, state)
      PROVE  Booked' /\ Len(backups') = Len(backups)
  <2>1. \A j \in 1..Len(backups') :
          backups'[j].state = "pruned" => backups[j].state = "pruned"
    BY <1>2 DEF Restates
  <2> QED BY <1>2, <2>1, Bookkeeping DEF Restates, Booked, IsList
<1>3. ASSUME NEW i \in 1..Len(backups), Strays(i)
      PROVE  Booked' /\ Len(backups') = Len(backups)
  <2>1. \A j \in 1..Len(backups') :
          backups'[j].state = "pruned" => backups[j].state = "pruned"
    BY <1>3 DEF Strays
  <2> QED BY <1>3, <2>1, Bookkeeping DEF Strays, Booked, IsList
<1> QED BY <1>1, <1>2, <1>3

-----------------------------------------------------------------------------
\* The policies.

\* Some number of a set of them is the least.
LEMMA FirstRule ==
    ASSUME NEW hits \in SUBSET (1..10), hits # {}
    PROVE  \E i \in hits : \A j \in hits : i <= j
<1>1. PICK a \in hits : TRUE OBVIOUS
<1> QED BY <1>1

\* A statement that writes passes a read-only connection only when a review
\* cleared it: whichever rule refuses first, no name of a rule is "allow".
LEMMA Refusing ==
    ASSUME NEW in, in.readOnly, ~in.cleared, IsWrite(in.stmt.kind)
    PROVE  Evaluate(in) # "allow"
<1> DEFINE rules == Guardrails(in)
           hits  == {i \in DOMAIN rules : rules[i][2]}
<1>1. DOMAIN rules = 1..10 /\ rules[10][2]
  <2>1. DOMAIN rules = 1..10 BY DEF Guardrails
  <2>2. rules[10] = <<"read_only_role", in.readOnly /\ IsWrite(in.stmt.kind) /\ ~in.cleared>>
    BY DEF Guardrails
  <2>3. rules[10][2] = (in.readOnly /\ IsWrite(in.stmt.kind) /\ ~in.cleared) BY <2>2
  <2> QED BY <2>1, <2>3
<1>2. \A i \in 1..10 : rules[i][1] # "allow" BY DEF Guardrails
<1> HIDE DEF rules
<1>3. 10 \in hits /\ hits \subseteq 1..10 BY <1>1
<1>4. (CHOOSE i \in hits : \A j \in hits : i <= j) \in hits BY <1>3, FirstRule
<1> HIDE DEF hits
<1>5. Evaluate(in) = rules[CHOOSE i \in hits : \A j \in hits : i <= j][1]
  BY <1>3 DEF Evaluate, rules, hits
<1> QED BY <1>2, <1>3, <1>4, <1>5

\* What a read-only connection allows was cleared or is not judged as a write,
\* under any overrides and any custom policies: those can only refuse.
LEMMA Allowing ==
    ASSUME NEW c, Decision(c) = "allow", conf.readOnly
    PROVE  c.cleared \/ ~IsWrite(c.stmt.kind)
<1>1. Evaluate(Input(c)) = "allow" BY DEF Decision, CustomDecision
<1>2. /\ Input(c).readOnly = conf.readOnly /\ Input(c).cleared = c.cleared
      /\ Input(c).stmt = c.stmt
  BY DEF Input
<1> QED BY <1>1, <1>2, Refusing

-----------------------------------------------------------------------------
\* The steps of a call.

\* It has made no backup, as far as the backups go.
Anew(c) == c.path = "restore" \/ c.bid = 0

\* It goes on with the backup it has.
Onward(c, d) ==
    /\ c.pc \notin {"idle", "answered"} /\ d.pc # "answered"
    /\ d.path = c.path /\ d.bid = c.bid /\ d.told = c.told

\* Its backup is the newest; it is told of it, or the store failed.
Makes(c, d) ==
    /\ Booked' /\ Len(backups') = Len(backups) + 1
    /\ \A i \in 1..Len(backups) : /\ backups'[i].state \in {backups[i].state, "pruned"}
                                  /\ backups'[i].stray = backups[i].stray
    /\ backups'[Len(backups) + 1].state \in {"kept", "pruned"}
    /\ d.told \/ backups'[Len(backups) + 1].stray
    /\ d.bid = Len(backups) + 1 /\ d.pc = "run"

\* It is answered, and its backup goes when it answers with an error, unless the
\* store fails.
Finishes(c, d) ==
    /\ c.pc = "finish" /\ d.pc = "answered"
    /\ d.path = c.path /\ d.bid = c.bid /\ d.told = c.told
    /\ d.out = c.out /\ d.streamed = c.streamed
    /\ IF Discards(c) /\ backups[c.bid].state = "kept"
       THEN Restates(c.bid, "discarded") \/ Strays(c.bid) ELSE Kept

\* What every step of the call of r keeps, and the four things it may do.
Moves(r) ==
    /\ conf' = conf /\ DOMAIN calls' = Req
    /\ \A q \in Req \ {r} : calls'[q] = calls[q]
    /\ calls'[r].pc # "idle" /\ Sound(calls[r])'
    /\ \/ Kept /\ (Anew(calls'[r]) \/ Onward(calls[r], calls'[r]))
       \/ Makes(calls[r], calls'[r])
       \/ Finishes(calls[r], calls'[r])

\* A step of one call is a step of no other.
LEMMA Setting ==
    ASSUME IInv, NEW r \in Req, NEW c, calls' = [calls EXCEPT ![r] = c]
    PROVE  /\ DOMAIN calls' = Req /\ calls'[r] = c
           /\ \A q \in Req \ {r} : calls'[q] = calls[q]
  BY DEF IInv, Proceeding

\* What is known of a call that is under way.
LEMMA UnderWay ==
    ASSUME IInv, NEW r \in Req, calls[r].pc \notin {"idle", "answered"}
    PROVE  Sound(calls[r])
  BY DEF IInv, Proceeding, Asked

\* The request for statement s, which may be refused before it is judged.
Requests(r, who, path, s, ask, intx, recorded) ==
    /\ LET c == NewCall(who, path, s, ask, intx)
       IN  Set(r, c) \/ Set(r, Answer(c, "refused", recorded))
    /\ intx => txn # None
    /\ conf.engine \in SqlEngines => path \in {"live", "deferred"}

\* Whichever way a statement arrives, it is such a request.
LEMMA Requesting ==
    ASSUME IInv, NEW r \in Req,
           Submit(r) \/ SubmitDeferred(r) \/ SubmitCassandra(r) \/ SubmitDocument(r)
    PROVE  \E who, ask, intx : \E path \in {"live", "deferred", "cassandra", "documents"} :
              \E s \in conf.stmts, recorded \in BOOLEAN :
                 Requests(r, who, path, s, ask, intx, recorded)
<1>1. CASE Submit(r)
  <2>1. PICK who \in Users, s \in conf.stmts, intx \in (IF txn = None THEN {FALSE} ELSE BOOLEAN) :
          \E ask \in Asks(s) : Requests(r, who, "live", s, ask, intx, TRUE)
    BY <1>1 DEF Submit, Requests
  <2> QED BY <2>1
<1>2. CASE SubmitDeferred(r)
  <2>1. \E who \in Users, s \in conf.stmts : Requests(r, who, "deferred", s, FALSE, FALSE, FALSE)
    BY <1>2 DEF SubmitDeferred, Requests
  <2> QED BY <2>1
<1>3. CASE SubmitCassandra(r)
  <2>1. \E who \in Users, s \in conf.stmts : \E ask \in Asks(s) :
          Requests(r, who, "cassandra", s, ask, FALSE, FALSE)
    BY <1>3 DEF SubmitCassandra, Requests, SqlEngines
  <2> QED BY <2>1
<1>4. CASE SubmitDocument(r)
  <2>1. \E who \in Users, s \in conf.stmts : \E ask \in Asks(s) :
          Requests(r, who, "documents", s, ask, FALSE, FALSE)
    BY <1>4 DEF SubmitDocument, Requests
  <2> QED BY <2>1
<1> QED BY <1>1, <1>2, <1>3, <1>4

\* A new statement that is judged next, or refused at once.
LEMMA Submitting ==
    ASSUME IInv, NEW r \in Req,
           Submit(r) \/ SubmitDeferred(r) \/ SubmitCassandra(r) \/ SubmitDocument(r)
    PROVE  Moves(r)
<1>1. Booked /\ Len(backups) \in Nat BY DEF IInv, Booked, IsList
<1>2. UNCHANGED <<conf, txn, backups>>
  BY DEF Submit, SubmitDeferred, SubmitCassandra, SubmitDocument, Arrives
<1>3. PICK who, ask, intx :
        \E path \in {"live", "deferred", "cassandra", "documents"} :
            \E s \in conf.stmts, recorded \in BOOLEAN : Requests(r, who, path, s, ask, intx, recorded)
  BY Requesting
<1>5. PICK path \in {"live", "deferred", "cassandra", "documents"},
           s \in conf.stmts, recorded \in BOOLEAN : Requests(r, who, path, s, ask, intx, recorded)
  BY <1>3
<1> DEFINE c == NewCall(who, path, s, ask, intx)
<1>6. /\ DOMAIN c = CallFields /\ c.pc = "judge" /\ c.path = path /\ c.stmt = s
      /\ c.intx = intx /\ c.bid = 0 /\ c.told = FALSE /\ c.rec = 0 /\ c.reached = FALSE
  BY DEF NewCall, CallFields
<1> HIDE DEF c
<1>7. CASE Set(r, c)
  <2>1. /\ DOMAIN calls' = Req /\ calls'[r] = c
        /\ \A q \in Req \ {r} : calls'[q] = calls[q]
    BY <1>7, Setting DEF Set
  <2>2. Sound(calls[r])'
    BY <1>1, <1>2, <1>6, <1>5, <2>1 DEF Requests, Sound, Stages, Proceeds, Guarded
  <2> QED BY <1>1, <1>2, <1>6, <2>1, <2>2, Unchanging DEF Moves, Anew
<1>8. CASE Set(r, Answer(c, "refused", recorded))
  <2> DEFINE d == Answer(c, "refused", recorded)
  <2>1. /\ DOMAIN calls' = Req /\ calls'[r] = d
        /\ \A q \in Req \ {r} : calls'[q] = calls[q]
    BY <1>8, Setting DEF Set
  <2>2. /\ DOMAIN d = CallFields /\ d.pc = "answered" /\ d.out = "refused"
        /\ d.rec \in {0, 1} /\ d.path = path /\ d.stmt = s
        /\ d.bid = 0 /\ d.told = FALSE /\ d.reached = FALSE
    BY <1>6, Answering
  <2> HIDE DEF d
  <2>3. Sound(calls[r])'
    BY <1>1, <1>2, <1>5, <2>1, <2>2 DEF Requests, Sound, Stages, Proceeds, Guarded, Recorded
  <2> QED BY <1>1, <1>2, <2>1, <2>2, <2>3, Unchanging DEF Moves, Anew
<1> QED BY <1>7, <1>8, <1>5 DEF Requests, c

\* A restore, judged as an INSERT or an UPDATE, or answered at once.
LEMMA AskingToRestore ==
    ASSUME IInv, NEW r \in Req, SubmitRestore(r)
    PROVE  Moves(r)
<1>1. Booked /\ UNCHANGED <<conf, txn, backups>> BY DEF IInv, SubmitRestore, Arrives
<1>2. PICK who \in Users : \E i \in Reachable(who) :
        \/ Set(r, NewRestore(who, i))
        \/ Set(r, Answer(NewRestore(who, i), "nothing", FALSE))
  BY DEF SubmitRestore
<1>3. PICK i \in Reachable(who) : \/ Set(r, NewRestore(who, i))
                                 \/ Set(r, Answer(NewRestore(who, i), "nothing", FALSE))
  BY <1>2
<1> DEFINE c == NewCall(who, "restore", RestoreStatement(backups[i]), FALSE, FALSE)
           d == NewRestore(who, i)
<1>4. /\ DOMAIN c = CallFields /\ c.pc = "judge" /\ c.path = "restore"
      /\ c.stmt = RestoreStatement(backups[i]) /\ c.intx = FALSE
  BY DEF NewCall, CallFields
<1>5. IsWrite(c.stmt.kind)
  <2>1. RestoreStatement(backups[i]).kind = RestoreKind(conf.engine, backups[i])
    BY DEF RestoreStatement, NosqlStatement
  <2> QED BY <1>4, <2>1 DEF RestoreKind, IsWrite
<1> HIDE DEF c
<1>6. /\ DOMAIN d = CallFields /\ d.pc = "judge" /\ d.path = "restore"
      /\ d.stmt = c.stmt /\ d.intx = FALSE /\ d.cleared = FALSE
  BY <1>4 DEF NewRestore, CallFields, c
<1> HIDE DEF d
<1>7. PICK e \in {d, Answer(d, "nothing", FALSE)} : calls' = [calls EXCEPT ![r] = e]
  BY <1>3 DEF Set, d
<1>8. /\ DOMAIN e = CallFields /\ e.pc \in {"judge", "answered"} /\ e.path = "restore"
      /\ e.stmt = c.stmt /\ e.intx = FALSE /\ e.cleared = FALSE
  <2> DEFINE f == Answer(d, "nothing", FALSE)
  <2>1. /\ DOMAIN f = CallFields /\ f.pc = "answered" /\ f.path = d.path
        /\ f.stmt = d.stmt /\ f.intx = d.intx /\ f.cleared = d.cleared
    BY <1>6 DEF Answer, CallFields
  <2>2. e = d \/ e = f BY <1>7
  <2> HIDE DEF f
  <2>3. CASE e = d BY <1>6, <2>3
  <2>4. CASE e = f BY <1>6, <2>1, <2>4
  <2> QED BY <2>2, <2>3, <2>4
<1>9. /\ DOMAIN calls' = Req /\ calls'[r] = e
      /\ \A q \in Req \ {r} : calls'[q] = calls[q]
  BY <1>7, Setting
<1>10. Sound(calls[r])'
  BY <1>5, <1>8, <1>9 DEF Sound, Stages, Restores, Guarded, IsWrite
<1> QED BY <1>1, <1>8, <1>9, <1>10, Unchanging DEF Moves, Anew

\* A call that is answered before it reached the database.
LEMMA Dismissing ==
    ASSUME IInv, NEW r \in Req, NEW out, NEW recorded \in BOOLEAN,
           calls[r].pc \in {"judge", "capture"},
           calls' = [calls EXCEPT ![r] = Answer(calls[r], out, recorded)],
           out = "denied" /\ calls[r].path \notin {"deferred", "restore"} => recorded,
           UNCHANGED <<conf, backups>>
    PROVE  Moves(r)
<1> DEFINE c == calls[r]
           d == Answer(c, out, recorded)
<1>1. Sound(c) BY UnderWay
<1>2. /\ DOMAIN d = CallFields /\ d.pc = "answered" /\ d.out = out
      /\ d.rec = c.rec + (IF recorded THEN 1 ELSE 0)
      /\ d.path = c.path /\ d.stmt = c.stmt /\ d.cleared = c.cleared
      /\ d.intx = c.intx /\ d.bid = c.bid /\ d.told = c.told /\ d.reached = c.reached
  BY <1>1, Answering DEF Sound
<1>3. /\ DOMAIN calls' = Req /\ calls'[r] = d
      /\ \A q \in Req \ {r} : calls'[q] = calls[q]
  BY Setting
<1> HIDE DEF d
<1>4. Sound(calls[r])'
  BY <1>1, <1>2, <1>3 DEF Sound, Stages, Proceeds, Restores, Guarded, Recorded
<1>5. Anew(d) BY <1>1, <1>2 DEF Sound, Proceeds, Anew
<1>6. Booked BY DEF IInv
<1> QED BY <1>2, <1>3, <1>4, <1>5, <1>6, Unchanging DEF Moves

\* A call that goes on, its fields as they were.
LEMMA Advancing ==
    ASSUME IInv, NEW r \in Req, NEW stage \in {"capture", "run", "restore"},
           calls[r].pc \in {"judge", "capture"},
           calls' = [calls EXCEPT ![r] = [calls[r] EXCEPT !.pc = stage]],
           stage = "restore" <=> calls[r].path = "restore",
           conf.readOnly => calls[r].cleared \/ ~IsWrite(calls[r].stmt.kind),
           UNCHANGED <<conf, backups>>
    PROVE  Moves(r)
<1> DEFINE c == calls[r]
           d == [c EXCEPT !.pc = stage]
<1>1. Sound(c) BY UnderWay
<1>2. /\ DOMAIN d = CallFields /\ d.pc = stage /\ d.rec = c.rec
      /\ d.path = c.path /\ d.stmt = c.stmt /\ d.cleared = c.cleared
      /\ d.intx = c.intx /\ d.bid = c.bid /\ d.told = c.told /\ d.reached = c.reached
  BY <1>1 DEF Sound, CallFields
<1>3. /\ DOMAIN calls' = Req /\ calls'[r] = d
      /\ \A q \in Req \ {r} : calls'[q] = calls[q]
  BY Setting
<1> HIDE DEF d
<1>4. Sound(calls[r])'
  BY <1>1, <1>2, <1>3 DEF Sound, Stages, Proceeds, Restores, Guarded
<1>5. Anew(d) BY <1>1, <1>2 DEF Sound, Proceeds, Anew
<1>6. Booked BY DEF IInv
<1> QED BY <1>1, <1>2, <1>3, <1>4, <1>5, <1>6, Unchanging DEF Moves

\* The verdict.
LEMMA Judging ==
    ASSUME IInv, NEW r \in Req, Judge(r)
    PROVE  Moves(r)
<1> DEFINE c == calls[r]
           allowed == Decision(c) = "allow"
<1>1. c.pc = "judge" /\ Sound(c) /\ UNCHANGED <<conf, txn, backups>>
  BY UnderWay DEF Judge
<1>2. \/ ~allowed /\ Set(r, Answer(c, "denied", c.path # "deferred"))
      \/ allowed /\ Unsafe(c) /\ Set(r, Answer(c, "denied", c.path = "live"))
      \/ allowed /\ ~c.intx /\ Set(r, Answer(c, "unreachable", FALSE))
      \/ allowed /\ ~Unsafe(c)
           /\ Set(r, [c EXCEPT !.pc = IF c.path = "restore" THEN "restore" ELSE "capture"])
  BY DEF Judge
<1>3. CASE ~allowed /\ Set(r, Answer(c, "denied", c.path # "deferred"))
  <2>1. (c.path # "deferred") \in BOOLEAN OBVIOUS
  <2> QED BY <1>1, <1>3, <2>1, Dismissing DEF Set
<1>4. CASE allowed /\ Unsafe(c) /\ Set(r, Answer(c, "denied", c.path = "live"))
  <2>1. (c.path = "live") \in BOOLEAN OBVIOUS
  <2>2. c.path # "restore" => c.path \in {"live", "deferred"}
    BY <1>1, <1>4 DEF Unsafe, Sound, Proceeds
  <2> QED BY <1>1, <1>4, <2>1, <2>2, Dismissing DEF Set
<1>5. CASE allowed /\ ~c.intx /\ Set(r, Answer(c, "unreachable", FALSE))
  BY <1>1, <1>5, Dismissing DEF Set
<1>6. CASE allowed
           /\ Set(r, [c EXCEPT !.pc = IF c.path = "restore" THEN "restore" ELSE "capture"])
  <2>1. conf.readOnly => c.cleared \/ ~IsWrite(c.stmt.kind) BY <1>6, Allowing
  <2>2. CASE c.path = "restore" BY <1>1, <1>6, <2>1, <2>2, Advancing DEF Set
  <2>3. CASE c.path # "restore" BY <1>1, <1>6, <2>1, <2>3, Advancing DEF Set
  <2> QED BY <2>2, <2>3
<1> QED BY <1>2, <1>3, <1>4, <1>5, <1>6

\* No backup: it could not be read, or there is too much of it.
LEMMA Skipping ==
    ASSUME IInv, NEW r \in Req, Skip(r) \/ Block(r)
    PROVE  Moves(r)
<1>1. calls[r].pc = "capture" /\ UNCHANGED <<conf, backups>> BY DEF Skip, Block
<1>2. Sound(calls[r]) BY <1>1, UnderWay
<1>3. calls[r].path # "restore" BY <1>1, <1>2 DEF Sound, Restores
<1>4. CASE Skip(r)
  <2>1. conf.readOnly => calls[r].cleared \/ ~IsWrite(calls[r].stmt.kind)
    BY <1>1, <1>2 DEF Sound, Guarded
  <2> QED BY <1>1, <1>3, <1>4, <2>1, Advancing DEF Skip, Set
<1>5. CASE Block(r)
  <2>1. (calls[r].path = "deferred") \in BOOLEAN OBVIOUS
  <2> QED BY <1>1, <1>5, <2>1, Dismissing DEF Block, Set
<1> QED BY <1>4, <1>5

\* The store has one backup more, and the call goes on with it.
LEMMA Keeping ==
    ASSUME IInv, NEW r \in Req, calls[r].pc = "capture", UNCHANGED conf,
           NEW d, calls' = [calls EXCEPT ![r] = d], DOMAIN d = CallFields, d.pc = "run",
           d.rec = calls[r].rec, d.path = calls[r].path, d.stmt = calls[r].stmt,
           d.cleared = calls[r].cleared, d.reached = calls[r].reached,
           d.bid = Len(backups) + 1,
           Booked', Len(backups') = Len(backups) + 1,
           \A i \in 1..Len(backups) : /\ backups'[i].state \in {backups[i].state, "pruned"}
                                     /\ backups'[i].stray = backups[i].stray,
           backups'[Len(backups) + 1].state \in {"kept", "pruned"},
           d.told \/ backups'[Len(backups) + 1].stray
    PROVE  Moves(r)
<1> DEFINE c == calls[r]
<1>1. Sound(c) /\ Booked BY UnderWay DEF IInv
<1>2. c.path # "restore" BY <1>1 DEF Sound, Restores
<1>3. /\ DOMAIN calls' = Req /\ calls'[r] = d
      /\ \A q \in Req \ {r} : calls'[q] = calls[q]
  BY Setting
<1>4. Len(backups) \in Nat BY <1>1 DEF Booked, IsList
<1>5. Sound(calls[r])'
  BY <1>1, <1>2, <1>3, <1>4 DEF Sound, Stages, Proceeds, Guarded
<1> QED BY <1>3, <1>5 DEF Moves, Makes

\* With a backup, or without one because none is wanted.
LEMMA Capturing ==
    ASSUME IInv, NEW r \in Req, Capture(r) \/ CaptureUntold(r)
    PROVE  Moves(r)
<1> DEFINE c == calls[r]
<1>1. c.pc = "capture" /\ UNCHANGED conf BY DEF Capture, CaptureUntold
<1>2. Sound(c) /\ Booked BY <1>1, UnderWay DEF IInv
<1>3. c.path # "restore" BY <1>1, <1>2 DEF Sound, Restores
<1>4. CASE UNCHANGED backups /\ Set(r, [c EXCEPT !.pc = "run"])
  <2>1. conf.readOnly => c.cleared \/ ~IsWrite(c.stmt.kind)
    BY <1>1, <1>2 DEF Sound, Guarded
  <2> QED BY <1>1, <1>3, <1>4, <2>1, Advancing DEF Set
<1>5. CASE /\ backups' = Create(backups, NewBackup(c))
           /\ Set(r, [c EXCEPT !.pc = "run", !.bid = NewBackup(c).id, !.told = TRUE])
  <2> DEFINE b == NewBackup(c)
             d == [c EXCEPT !.pc = "run", !.bid = b.id, !.told = TRUE]
  <2>1. IsBook(b) /\ b.state = "kept" /\ b.id = Len(backups) + 1
    BY DEF NewBackup, Backup, IsBook, BookFields
  <2> HIDE DEF b
  <2>2. /\ Booked' /\ Len(backups') = Len(backups) + 1
        /\ \A i \in 1..Len(backups) : /\ backups'[i].state \in {backups[i].state, "pruned"}
                                      /\ backups'[i].stray = backups[i].stray
        /\ backups'[Len(backups) + 1].state \in {"kept", "pruned"}
    BY <1>2, <1>5, <2>1, Creating DEF b
  <2>3. /\ DOMAIN d = CallFields /\ d.pc = "run" /\ d.rec = c.rec
        /\ d.path = c.path /\ d.stmt = c.stmt /\ d.cleared = c.cleared
        /\ d.bid = Len(backups) + 1 /\ d.told = TRUE /\ d.reached = c.reached
    BY <1>2, <2>1 DEF Sound, CallFields
  <2>4. calls' = [calls EXCEPT ![r] = d] BY <1>5 DEF Set, b
  <2> HIDE DEF d
  <2> QED BY <1>1, <2>2, <2>3, <2>4, Keeping
<1>6. CASE CaptureUntold(r)
  <2> DEFINE b == [NewBackup(c) EXCEPT !.stray = TRUE]
             d == [c EXCEPT !.pc = "run", !.bid = b.id]
  <2>1. IsBook(b) /\ b.state = "kept" /\ b.id = Len(backups) + 1 /\ b.stray = TRUE
    BY DEF NewBackup, Backup, IsBook, BookFields
  <2>2. backups' = Append(backups, b) /\ Set(r, d) BY <1>6 DEF CaptureUntold
  <2> HIDE DEF b
  <2>3. /\ Booked' /\ Len(backups') = Len(backups) + 1
        /\ \A i \in 1..Len(backups) : backups'[i] = backups[i]
        /\ backups'[Len(backups) + 1] = b
    BY <1>2, <2>1, <2>2, Appending
  <2>4. /\ DOMAIN d = CallFields /\ d.pc = "run" /\ d.rec = c.rec
        /\ d.path = c.path /\ d.stmt = c.stmt /\ d.cleared = c.cleared
        /\ d.bid = Len(backups) + 1 /\ d.reached = c.reached
    BY <1>2, <2>1 DEF Sound, CallFields
  <2>5. calls' = [calls EXCEPT ![r] = d] BY <2>2 DEF Set
  <2> HIDE DEF d
  <2> QED BY <1>1, <2>1, <2>3, <2>4, <2>5, Keeping
<1> QED BY <1>4, <1>5, <1>6 DEF Capture

-----------------------------------------------------------------------------
\* The statement runs, and is answered.

\* The database answers a statement, or begins to send its rows.
LEMMA Running ==
    ASSUME IInv, NEW r \in Req, Run(r) \/ Open(r) \/ Stream(r)
    PROVE  Moves(r)
<1> DEFINE c == calls[r]
<1>1. c.pc \in {"run", "stream"} /\ UNCHANGED conf BY DEF Run, Open, Stream
<1>2. Sound(c) /\ Booked BY <1>1, UnderWay DEF IInv
<1>3. c.path # "restore" BY <1>1, <1>2 DEF Sound, Restores
<1>4. ASSUME NEW o, Apply(c, o), Set(r, Ended(c, o)) \/ Set(r, Truncated(c, o))
      PROVE  Moves(r)
  <2>1. PICK d \in {Ended(c, o), Truncated(c, o)} : calls' = [calls EXCEPT ![r] = d]
    BY <1>4 DEF Set
  <2>2. /\ DOMAIN d = CallFields /\ d.pc = "finish" /\ d.out \in Ends
        /\ d.rec = c.rec /\ d.path = c.path /\ d.stmt = c.stmt
        /\ d.cleared = c.cleared /\ d.bid = c.bid /\ d.told = c.told
        /\ d.streamed = c.streamed /\ d.reached = TRUE
    BY <1>2, <2>1 DEF Sound, Ended, Truncated, CallFields, Ends
  <2>3. /\ DOMAIN calls' = Req /\ calls'[r] = d
        /\ \A q \in Req \ {r} : calls'[q] = calls[q]
    BY <2>1, Setting
  <2>4. Kept BY <1>2, <1>4, Noting DEF Apply
  <2>5. Sound(calls[r])'
    BY <1>1, <1>2, <1>3, <2>2, <2>3, <2>4 DEF Sound, Stages, Proceeds, Guarded, Kept
  <2> QED BY <1>1, <2>2, <2>3, <2>4, <2>5 DEF Moves, Onward
<1>5. ASSUME Set(r, [c EXCEPT !.pc = "stream", !.streamed = TRUE]),
             UNCHANGED <<txn, backups>>
      PROVE  Moves(r)
  <2> DEFINE d == [c EXCEPT !.pc = "stream", !.streamed = TRUE]
  <2>1. /\ DOMAIN d = CallFields /\ d.pc = "stream" /\ d.rec = c.rec
        /\ d.path = c.path /\ d.stmt = c.stmt /\ d.cleared = c.cleared
        /\ d.bid = c.bid /\ d.told = c.told /\ d.reached = c.reached
    BY <1>2 DEF Sound, CallFields
  <2>2. /\ DOMAIN calls' = Req /\ calls'[r] = d
        /\ \A q \in Req \ {r} : calls'[q] = calls[q]
    BY <1>5, Setting DEF Set
  <2> HIDE DEF d
  <2>3. Sound(calls[r])'
    BY <1>1, <1>2, <1>3, <1>5, <2>1, <2>2 DEF Sound, Stages, Proceeds, Guarded
  <2> QED BY <1>1, <1>2, <1>5, <2>1, <2>2, <2>3, Unchanging DEF Moves, Onward
<1>6. CASE Run(r) BY <1>4, <1>6 DEF Run
<1>7. CASE Open(r) BY <1>4, <1>5, <1>7 DEF Open
<1>8. CASE Stream(r) BY <1>4, <1>8 DEF Stream
<1> QED BY <1>6, <1>7, <1>8

\* The answer, and what becomes of the backup.
LEMMA Finishing ==
    ASSUME IInv, NEW r \in Req, Finish(r)
    PROVE  Moves(r)
<1> DEFINE c == calls[r]
           d == Answer(c, c.out, TRUE)
<1>1. c.pc = "finish" /\ UNCHANGED conf BY DEF Finish
<1>2. Sound(c) /\ Booked BY <1>1, UnderWay DEF IInv
<1>3. Len(backups) \in Nat BY <1>2 DEF Booked, IsList
<1>4. c.path # "restore" /\ c.bid \in 0..Len(backups)
  BY <1>1, <1>2 DEF Sound, Restores, Proceeds
<1>5. /\ DOMAIN d = CallFields /\ d.pc = "answered" /\ d.out = c.out
      /\ d.rec = c.rec + 1
      /\ d.path = c.path /\ d.stmt = c.stmt /\ d.bid = c.bid /\ d.told = c.told
      /\ d.streamed = c.streamed
  BY <1>2 DEF Sound, Answer, CallFields
<1>6. /\ DOMAIN calls' = Req /\ calls'[r] = d
      /\ \A q \in Req \ {r} : calls'[q] = calls[q]
  BY Setting DEF Finish, Set
<1> HIDE DEF d
<1>7. IF Discards(c) /\ backups[c.bid].state = "kept"
      THEN Restates(c.bid, "discarded") \/ Strays(c.bid) ELSE Kept
  <2>1. CASE Discards(c) /\ backups[c.bid].state = "kept"
    <3>1. c.bid # 0 BY <1>2, <1>4, <2>1 DEF Discards, Sound, Proceeds
    <3>2. c.bid \in 1..Len(backups) BY <1>3, <1>4, <3>1
    <3>3. \/ backups' = [backups EXCEPT ![c.bid].state = "discarded"]
          \/ backups' = [backups EXCEPT ![c.bid].stray = TRUE]
      BY <2>1 DEF Finish, Discarded
    <3> QED BY <1>2, <2>1, <3>2, <3>3, Restating, Straying
  <2>2. CASE ~(Discards(c) /\ backups[c.bid].state = "kept")
    BY <1>2, <2>2, Unchanging DEF Finish
  <2> QED BY <2>1, <2>2
<1>8. Len(backups') = Len(backups) BY <1>7 DEF Restates, Strays, Kept
<1>9. Sound(calls[r])'
  BY <1>1, <1>2, <1>4, <1>5, <1>6, <1>8
  DEF Sound, Stages, Proceeds, Guarded, Recorded, Ends
<1>10. Finishes(c, d) BY <1>1, <1>5, <1>7 DEF Finishes
<1> QED BY <1>1, <1>5, <1>6, <1>9, <1>10 DEF Moves

\* A part of a restore, whatever comes of it.
LEMMA PuttingBack ==
    ASSUME IInv, NEW r \in Req, calls[r].pc = "restore", NEW d, NEW new, Restored(r, d, new),
           DOMAIN d = CallFields, d.pc \in {"restore", "answered"},
           d.path = calls[r].path, d.stmt = calls[r].stmt, d.cleared = calls[r].cleared,
           d.intx = calls[r].intx, UNCHANGED conf
    PROVE  Moves(r)
<1>1. Sound(calls[r]) /\ Booked BY UnderWay DEF IInv
<1>2. calls[r].path = "restore" /\ Restores(calls[r]) BY <1>1 DEF Sound, Proceeds
<1>3. /\ DOMAIN calls' = Req /\ calls'[r] = d
      /\ \A q \in Req \ {r} : calls'[q] = calls[q]
  BY Setting DEF Restored, Set
<1>4. Sound(calls[r])'
  BY <1>1, <1>2, <1>3 DEF Sound, Stages, Restores, Guarded
<1>5. Kept
  <2> DEFINE noted == Noted(backups, 0, ChangedKeys(rows, new))
  <2>1. Len(backups) \in Nat /\ \A i \in 1..Len(backups) : IsBook(backups[i])
    BY <1>1 DEF Booked, IsList
  <2>2. /\ noted = [i \in 1..Len(backups) |-> noted[i]]
        /\ \A i \in 1..Len(backups) :
             /\ IsBook(noted[i]) /\ noted[i].by = backups[i].by
             /\ noted[i].state = backups[i].state /\ noted[i].stray = backups[i].stray
    BY <2>1 DEF Noted, IsBook, BookFields
  <2> HIDE DEF noted
  <2>3. backups' = [noted EXCEPT ![d.bid] = backups[d.bid]]
    BY DEF Restored, noted
  <2>4. backups' = [i \in 1..Len(backups) |-> backups'[i]] BY <2>2, <2>3
  <2>5. \A i \in 1..Len(backups) : backups'[i] \in {noted[i], backups[i]}
    BY <2>2, <2>3
  <2>6. \A i \in 1..Len(backups) :
          /\ IsBook(backups'[i]) /\ backups'[i].by = backups[i].by
          /\ backups'[i].state = backups[i].state /\ backups'[i].stray = backups[i].stray
    BY <2>1, <2>2, <2>5
  <2> QED BY <2>1, <2>4, <2>6, Listed DEF Kept
<1> QED BY <1>2, <1>3, <1>4, <1>5 DEF Moves, Anew, Restores

\* A restore goes on by a part, or ends.
LEMMA Restoring ==
    ASSUME IInv, NEW r \in Req, RestoreSql(r) \/ RestorePart(r)
    PROVE  Moves(r)
<1> DEFINE c == calls[r]
           b == backups[c.bid]
<1>1. c.pc = "restore" /\ UNCHANGED conf BY DEF RestoreSql, RestorePart
<1>2. DOMAIN c = CallFields BY <1>1, UnderWay DEF Sound
<1>3. ASSUME NEW out, NEW recorded, NEW new, Restored(r, Answer(c, out, recorded), new)
      PROVE  Moves(r)
  BY <1>1, <1>2, <1>3, Answering, PuttingBack
<1>4. CASE RestoreSql(r)
  BY <1>3, <1>4 DEF RestoreSql
<1>5. ASSUME NEW ks PROVE LET d == [c EXCEPT !.todo = @ \ ks]
                          IN  /\ DOMAIN d = CallFields /\ d.pc = c.pc /\ d.path = c.path
                              /\ d.stmt = c.stmt /\ d.cleared = c.cleared /\ d.intx = c.intx
  BY <1>2 DEF CallFields
<1>6. CASE RestorePart(r)
  <2>1. PICK ks \in SUBSET c.todo :
          \/ LET d == [c EXCEPT !.todo = @ \ ks]
             IN  Restored(r, IF d.todo = {} THEN Answer(d, "ok", TRUE) ELSE d, PartRestore(b, ks))
          \/ Restored(r, Answer(c, "error", TRUE), PartRestore(b, ks))
          \/ Restored(r, Answer(c, IF PartCollides(b, ks) THEN "collides" ELSE "error", TRUE), rows)
    BY <1>6 DEF RestorePart
  <2> DEFINE d == [c EXCEPT !.todo = @ \ ks]
             e == IF d.todo = {} THEN Answer(d, "ok", TRUE) ELSE d
  <2>2. CASE Restored(r, e, PartRestore(b, ks))
    <3>1. /\ DOMAIN d = CallFields /\ d.pc = c.pc /\ d.path = c.path
          /\ d.stmt = c.stmt /\ d.cleared = c.cleared /\ d.intx = c.intx
      BY <1>5
    <3> HIDE DEF d
    <3>2. /\ DOMAIN e = CallFields /\ e.pc \in {"restore", "answered"} /\ e.path = c.path
          /\ e.stmt = c.stmt /\ e.cleared = c.cleared /\ e.intx = c.intx
      BY <1>1, <3>1 DEF Answer, CallFields
    <3> HIDE DEF e
    <3> QED BY <1>1, <2>2, <3>2, PuttingBack
  <2> QED BY <1>3, <2>1, <2>2
<1> QED BY <1>4, <1>6

-----------------------------------------------------------------------------
\* The inductive invariant.

\* The steps of the call of r.
CallStep(r) ==
    \/ Submit(r) \/ SubmitDeferred(r) \/ SubmitCassandra(r) \/ SubmitDocument(r) \/ Judge(r)
    \/ Skip(r) \/ Block(r) \/ Capture(r) \/ CaptureUntold(r)
    \/ Run(r) \/ Open(r) \/ Stream(r) \/ Finish(r)
    \/ SubmitRestore(r) \/ RestoreSql(r) \/ RestorePart(r)

\* Every step of a call is of one of the four kinds.
LEMMA Moving ==
    ASSUME IInv, NEW r \in Req, CallStep(r)
    PROVE  Moves(r)
  BY Submitting, AskingToRestore, Judging, Skipping, Capturing, Running, Finishing, Restoring
  DEF CallStep

\* A call whose step it is not stays sound as the backups grow.
LEMMA StaysSound ==
    ASSUME Booked, Booked', conf' = conf, Len(backups) <= Len(backups'),
           NEW r \in Req, Sound(calls[r]), calls'[r] = calls[r]
    PROVE  Sound(calls[r])'
<1>1. Len(backups) \in Nat /\ Len(backups') \in Nat BY DEF Booked, IsList
<1>2. calls[r].bid \in 0..Len(backups) => calls[r].bid \in 0..Len(backups') BY <1>1
<1> QED BY <1>2 DEF Sound, Proceeds, Restores, Guarded, Recorded

\* Backups only grow in number, and stay booked.
LEMMA MovesBook ==
    ASSUME IInv, NEW r \in Req, Moves(r)
    PROVE  Booked' /\ Len(backups) <= Len(backups') /\ Len(backups) \in Nat
<1>1. Booked /\ Len(backups) \in Nat BY DEF IInv, Booked, IsList
<1>2. CASE Kept BY <1>1, <1>2, StayBooked
<1>3. CASE Makes(calls[r], calls'[r]) BY <1>1, <1>3 DEF Makes
<1>4. CASE Finishes(calls[r], calls'[r])
  <2>1. CASE Kept BY <1>1, <2>1, StayBooked
  <2>2. CASE Restates(calls[r].bid, "discarded") \/ Strays(calls[r].bid)
    <3>1. calls[r].bid \in 1..Len(backups) BY <2>2 DEF Restates, Strays
    <3> QED BY <1>1, <2>2, <3>1, StayBooked
  <2> QED BY <1>4, <2>1, <2>2 DEF Finishes
<1> QED BY <1>2, <1>3, <1>4 DEF Moves

\* Calls stay sound.
LEMMA MovesProceed ==
    ASSUME IInv, NEW r \in Req, Moves(r)
    PROVE  Proceeding'
<1>1. Booked /\ Booked' /\ Len(backups) <= Len(backups') BY MovesBook DEF IInv
<1>2. ASSUME NEW q \in Req, Asked(q)' PROVE Sound(calls[q])'
  <2>1. CASE q = r BY <2>1 DEF Moves
  <2>2. CASE q # r
    <3>1. calls'[q] = calls[q] /\ conf' = conf BY <2>2 DEF Moves
    <3>2. Sound(calls[q]) BY <1>2, <3>1 DEF IInv, Proceeding, Asked
    <3> QED BY <1>1, <3>1, <3>2, StaysSound
  <2> QED BY <2>1, <2>2
<1> QED BY <1>2 DEF Proceeding, Moves

\* No two calls have the same backup: a new one is nobody's yet.
LEMMA MovesDistinct ==
    ASSUME IInv, NEW r \in Req, Moves(r)
    PROVE  Distinct'
<1>1. Len(backups) \in Nat BY MovesBook
<1>2. ASSUME NEW q \in Req, Asked(q), calls[q].path # "restore"
      PROVE  calls[q].bid \in 0..Len(backups)
  BY <1>2 DEF IInv, Proceeding, Sound, Proceeds
<1>3. \A q \in Req \ {r}, i \in Nat : Made(q, i)' <=> Made(q, i)
  BY DEF Moves, Made, Asked
<1>4. CASE Kept /\ Anew(calls'[r])
  <2>1. \A i \in 1..Len(backups) : ~Made(r, i)' BY <1>4 DEF Anew, Made
  <2> QED BY <1>1, <1>3, <1>4, <2>1 DEF Kept, IInv, Distinct
<1>5. CASE \/ Kept /\ Onward(calls[r], calls'[r])
           \/ Finishes(calls[r], calls'[r])
  <2>1. Len(backups') = Len(backups) BY <1>5 DEF Kept, Finishes, Restates, Strays
  <2>2. \A i \in Nat : Made(r, i)' => Made(r, i)
    BY <1>5 DEF Onward, Finishes, Made, Asked
  <2>3. \A q \in Req, i \in Nat : Made(q, i)' => Made(q, i) BY <1>3, <2>2
  <2> QED BY <1>1, <2>1, <2>3 DEF IInv, Distinct
<1>6. CASE Makes(calls[r], calls'[r])
  <2>1. Len(backups') = Len(backups) + 1 /\ calls'[r].bid = Len(backups) + 1
    BY <1>6 DEF Makes
  <2>2. \A i \in 1..Len(backups) : ~Made(r, i)' BY <1>1, <2>1 DEF Made
  <2>3. \A q \in Req \ {r} : ~Made(q, Len(backups) + 1) BY <1>1, <1>2 DEF Made
  <2> QED BY <1>1, <1>3, <2>1, <2>2, <2>3 DEF IInv, Distinct
<1> QED BY <1>4, <1>5, <1>6 DEF Moves

\* What a backup says of the call that made it.
Owns(r, i) ==
    LET c == calls[r]
    IN  /\ backups[i].state = "discarded" => c.pc = "answered" /\ c.out = "error"
        /\ c.pc = "answered" /\ c.out = "error" /\ (c.streamed => c.path = "deferred") =>
               backups[i].state # "kept" \/ backups[i].stray
        /\ ~c.told => backups[i].stray

\* Only the call that made a backup discards it, and only with an error.
LEMMA MovesOwned ==
    ASSUME IInv, NEW r \in Req, Moves(r)
    PROVE  Owned'
<1>1. Len(backups) \in Nat BY MovesBook
<1>2. \A q \in Req, i \in 1..Len(backups) : Made(q, i) => Owns(q, i)
  BY DEF IInv, Owned, Owns
<1>3. \A q \in Req \ {r} : calls'[q] = calls[q] BY DEF Moves
<1>4. SUFFICES ASSUME NEW i \in 1..Len(backups'), NEW q \in Req, Made(q, i)'
               PROVE  Owns(q, i)'
  BY DEF Owned, Owns
<1>5. CASE Kept /\ (Anew(calls'[r]) \/ Onward(calls[r], calls'[r]))
  <2>1. /\ i \in 1..Len(backups) /\ backups'[i].state = backups[i].state
        /\ backups'[i].stray = backups[i].stray
    BY <1>5 DEF Kept
  <2>2. CASE q # r
    BY <1>2, <1>3, <1>4, <2>1, <2>2 DEF Made, Asked, Owns
  <2>3. CASE q = r
    <3>1. Onward(calls[r], calls'[r]) BY <1>1, <1>4, <1>5, <2>1, <2>3 DEF Anew, Made
    <3>2. Made(r, i) BY <1>4, <2>3, <3>1 DEF Onward, Made, Asked
    <3> QED BY <1>2, <2>1, <2>3, <3>1, <3>2 DEF Onward, Owns
  <2> QED BY <2>2, <2>3
<1>6. CASE Makes(calls[r], calls'[r])
  <2>1. /\ Len(backups') = Len(backups) + 1 /\ calls'[r].bid = Len(backups) + 1
        /\ calls'[r].pc = "run"
        /\ backups'[Len(backups) + 1].state \in {"kept", "pruned"}
        /\ calls'[r].told \/ backups'[Len(backups) + 1].stray
        /\ \A j \in 1..Len(backups) : /\ backups'[j].state \in {backups[j].state, "pruned"}
                                      /\ backups'[j].stray = backups[j].stray
    BY <1>6 DEF Makes
  <2>2. CASE q = r BY <1>4, <2>1, <2>2 DEF Made, Owns
  <2>3. CASE q # r
    <3>1. Made(q, i) /\ calls'[q] = calls[q] BY <1>3, <1>4, <2>3 DEF Made, Asked
    <3>2. calls[q].bid \in 0..Len(backups)
      BY <3>1 DEF Made, IInv, Proceeding, Sound, Proceeds
    <3>3. i \in 1..Len(backups) BY <1>1, <3>1, <3>2 DEF Made
    <3> QED BY <1>2, <2>1, <3>1, <3>3 DEF Owns
  <2> QED BY <2>2, <2>3
<1>7. CASE Finishes(calls[r], calls'[r])
  <2>1. i \in 1..Len(backups) BY <1>7 DEF Finishes, Kept, Restates, Strays
  <2>2. Made(q, i) BY <1>3, <1>4, <1>7 DEF Finishes, Made, Asked
  <2>3. CASE q = r
    <3>1. calls[r].bid = i /\ i # 0 /\ calls[r].pc = "finish" BY <2>1, <2>2, <2>3, <1>7 DEF Made, Finishes
    <3>2. backups[i].state # "discarded" BY <1>2, <2>1, <2>2, <2>3, <3>1 DEF Owns
    <3>3. CASE Discards(calls[r]) /\ backups[i].state = "kept"
      <4>1. \/ backups'[i].state = "discarded"
            \/ backups'[i].state = "kept" /\ backups'[i].stray
        BY <1>7, <3>1, <3>3 DEF Finishes, Restates, Strays
      <4> QED BY <1>7, <2>3, <3>3, <4>1 DEF Finishes, Discards, Owns
    <3>4. CASE ~(Discards(calls[r]) /\ backups[i].state = "kept")
      <4>1. backups'[i].state = backups[i].state /\ backups'[i].stray = backups[i].stray
        BY <1>7, <2>1, <3>1, <3>4 DEF Finishes, Kept
      <4>2. ~calls[r].told => backups[i].stray BY <1>2, <2>1, <2>2, <2>3 DEF Owns
      <4> QED BY <1>7, <2>3, <3>1, <3>2, <3>4, <4>1, <4>2 DEF Finishes, Discards, Owns
    <3> QED BY <3>3, <3>4
  <2>4. CASE q # r
    <3>1. calls[r].path # "restore" /\ calls[r].pc # "idle"
      BY <1>7 DEF Finishes, IInv, Proceeding, Asked, Sound, Restores
    <3>2. calls[r].bid # i
      BY <2>1, <2>2, <2>4, <3>1 DEF Made, Asked, IInv, Distinct
    <3>3. backups'[i].state = backups[i].state /\ backups'[i].stray = backups[i].stray
      BY <1>7, <2>1, <3>2 DEF Finishes, Kept, Restates, Strays
    <3> QED BY <1>2, <1>3, <2>1, <2>2, <2>4, <3>3 DEF Owns
  <2> QED BY <2>3, <2>4
<1> QED BY <1>5, <1>6, <1>7 DEF Moves

\* The steps that are nobody's call leave the calls alone; a backup that is
\* deleted was kept.
LEMMA Surroundings ==
    ASSUME IInv, DeleteBackup \/ Begin \/ Commit \/ Rollback \/ Edit \/ SetPolicies \/ Approve
                   \/ UNCHANGED svars
    PROVE  /\ conf' = conf /\ calls' = calls
           /\ Kept \/ \E i \in 1..Len(backups) : Restates(i, "removed")
<1>1. Booked BY DEF IInv
<1>2. conf' = conf /\ calls' = calls
  BY DEF DeleteBackup, Begin, Commit, Rollback, Edit, SetPolicies, Approve, svars
<1>3. Kept \/ \E i \in 1..Len(backups) : Restates(i, "removed")
  <2>1. CASE DeleteBackup
    <3>1. PICK i \in 1..Len(backups) :
            backups[i].state = "kept" /\ backups' = [backups EXCEPT ![i].state = "removed"]
      BY <2>1 DEF DeleteBackup
    <3> QED BY <1>1, <3>1, Restating
  <2>2. CASE Commit \/ Rollback BY <1>1, <2>2, Closing, Unchanging DEF Commit, Rollback
  <2>3. CASE Edit BY <1>1, <2>3, Noting DEF Edit
  <2>4. CASE Begin \/ SetPolicies \/ Approve \/ UNCHANGED svars
    BY <1>1, <2>4, Unchanging DEF Begin, SetPolicies, Approve, svars
  <2> QED BY <2>1, <2>2, <2>3, <2>4
<1> QED BY <1>2, <1>3

\* A crash ends every call.
LEMMA Crashing ==
    ASSUME IInv, Crash
    PROVE  IInv'
<1>1. conf' = conf /\ txn' = None /\ calls' = [r \in Req |-> Idle] BY DEF Crash
<1>2. \A r \in Req : calls'[r].pc = "idle" BY <1>1 DEF Idle
<1>3. Kept BY Closing, Unchanging DEF Crash, IInv
<1>4. Booked' BY <1>3, StayBooked DEF IInv
<1>5. DOMAIN calls' = Req BY <1>1
<1> QED BY <1>1, <1>2, <1>4, <1>5
    DEF IInv, Proceeding, Asked, Distinct, Owned, Made

\* No call, no transaction and no backup.
LEMMA IInvInit ==
    ASSUME StatementsInit
    PROVE  IInv
<1>1. conf \in Confs /\ txn = None /\ backups = <<>> /\ calls = [r \in Req |-> Idle]
  BY DEF StatementsInit
<1>2. DOMAIN calls = Req /\ \A r \in Req : calls[r].pc = "idle" BY <1>1 DEF Idle
<1>3. Len(backups) = 0 BY <1>1
<1>4. backups = [i \in 1..Len(backups) |-> backups[i]]
  <2>1. 1..Len(backups) = {} BY <1>3
  <2>2. DOMAIN backups = {} BY <1>1
  <2> QED BY <1>1, <2>1, <2>2
<1> QED BY <1>1, <1>2, <1>3, <1>4
    DEF IInv, Proceeding, Asked, Booked, IsList, Distinct, Owned, Made

\* Every step keeps the inductive invariant.
LEMMA IInvNext ==
    ASSUME IInv, [StatementsNext]_svars
    PROVE  IInv'
<1>1. ASSUME NEW r \in Req, CallStep(r) PROVE IInv'
  <2>1. Moves(r) BY <1>1, Moving
  <2> QED BY <2>1, MovesBook, MovesProceed, MovesDistinct, MovesOwned DEF IInv, Moves
<1>2. CASE Crash BY <1>2, Crashing
<1>3. CASE DeleteBackup \/ Begin \/ Commit \/ Rollback \/ Edit \/ SetPolicies \/ Approve
             \/ UNCHANGED svars
  <2>1. /\ conf' = conf /\ calls' = calls
        /\ Kept \/ \E i \in 1..Len(backups) : Restates(i, "removed")
    BY <1>3, Surroundings
  <2>2. Booked' /\ Len(backups') = Len(backups) BY <2>1, StayBooked DEF IInv
  <2>3. Len(backups) \in Nat BY DEF IInv, Booked, IsList
  <2>4. Proceeding'
    BY <2>1, <2>2, <2>3, StaysSound DEF IInv, Proceeding, Asked
  <2>5. Distinct' BY <2>1, <2>2 DEF IInv, Distinct, Made, Asked
  <2>6. \A i \in 1..Len(backups) : /\ backups'[i].state \in {backups[i].state, "removed"}
                                   /\ backups'[i].stray = backups[i].stray
    BY <2>1 DEF Kept, Restates
  <2>7. Owned' BY <2>1, <2>2, <2>6 DEF IInv, Owned, Made, Asked
  <2> QED BY <2>1, <2>2, <2>4, <2>5, <2>7 DEF IInv
<1> QED BY <1>1, <1>2, <1>3 DEF StatementsNext, CallStep

\* The inductive invariant holds in every state.
THEOREM StatementsInvariant == StatementsSpec => []IInv
<1>1. StatementsInit => IInv BY IInvInit
<1>2. IInv /\ [StatementsNext]_svars => IInv' BY IInvNext
<1> QED BY <1>1, <1>2, PTL DEF StatementsSpec

-----------------------------------------------------------------------------
\* Every statement that was sent to the database has exactly one record once it
\* is answered: whatever path it took and however it ended (query.go:229, 268,
\* 277, stream.go:147).
THEOREM RecordedOnce == StatementsSpec => []RanIsRecorded
<1>1. IInv => RanIsRecorded
  BY DEF IInv, Proceeding, Asked, Sound, Proceeds, Recorded, RanIsRecorded
<1> QED BY <1>1, StatementsInvariant, PTL

\* A backup that an answer announced is stored unless somebody removed it or
\* Keep newer ones of its owner pushed it out, and an error leaves none; one that
\* was not announced, or is left of an error, the store failed to remove
\* (query.go:226, 267, escalation.go:116, rowbackup.go:555, store/rowbackups.go:33).
THEOREM BackupsAsAnswered == StatementsSpec => []BackupMatchesAnswer
<1>1. IInv => BackupMatchesAnswer
  <2> SUFFICES ASSUME IInv, NEW r \in Req, calls[r].pc = "answered",
                      calls[r].path # "restore", calls[r].bid # 0
               PROVE  LET c == calls[r]
                          b == backups[c.bid]
                      IN  /\ c.told /\ c.out = "ok" =>
                               \/ b.state \in {"kept", "removed"}
                               \/ b.state = "pruned"
                                    /\ Cardinality({i \in c.bid + 1 .. Len(backups) : backups[i].by = b.by}) >= Keep
                          /\ ~c.told => b.stray
                          /\ c.out = "error" /\ (c.streamed => c.path = "deferred") => b.state # "kept" \/ b.stray
                          /\ c.out \notin {"denied", "blocked", "unreachable"}
    BY DEF BackupMatchesAnswer
  <2> DEFINE c == calls[r]
             b == backups[c.bid]
  <2>1. c.bid \in 1..Len(backups) /\ c.out \in Ends
    BY DEF IInv, Proceeding, Asked, Sound, Proceeds, Booked, IsList
  <2>2. Made(r, c.bid) BY DEF Made, Asked
  <2>3. /\ b.state = "discarded" => c.out = "error"
        /\ c.out = "error" /\ (c.streamed => c.path = "deferred") => b.state # "kept" \/ b.stray
        /\ ~c.told => b.stray
    BY <2>1, <2>2 DEF IInv, Owned
  <2>4. /\ b.state \in {"kept", "pruned", "removed", "discarded"}
        /\ b.state = "pruned" => Cardinality(Later(backups, c.bid)) >= Keep
    BY <2>1 DEF IInv, Booked, IsBook
  <2> QED BY <2>1, <2>3, <2>4 DEF Later, Ends
<1> QED BY <1>1, StatementsInvariant, PTL

-----------------------------------------------------------------------------
\* What a read-only connection lets through.

\* A statement that is not judged as a write changes nothing, on any engine.
LEMMA Reading ==
    ASSUME IInv, NEW r \in Req, calls[r].pc \in {"run", "stream"},
           ~IsWrite(calls[r].stmt.kind), NEW o \in Outcomes(calls[r]), Apply(calls[r], o)
    PROVE  rows' = rows
<1> DEFINE c == calls[r]
           s == c.stmt
           t == Seen(c)
<1>1. Sound(c) BY UnderWay
<1>2. c.path # "restore" /\ s \in conf.stmts /\ conf \in Confs
  BY <1>1 DEF Sound, Restores, Proceeds, IInv
<1>3. Effects(conf.engine, t, s) = {Done(t, {})}
  <2>1. s.kind \notin {"insert", "update", "delete", "ddl"} BY DEF IsWrite
  <2>2. CASE conf.engine \in SqlEngines
    <3>1. SqlExecute(conf.engine, t, s) = {Done(t, {})} BY <2>1 DEF SqlExecute
    <3>2. conf.engine # "cassandra" BY <2>2 DEF SqlEngines
    <3> QED BY <2>2, <3>1, <3>2 DEF Effects
  <2>3. CASE conf.engine = "cassandra"
    <3>1. CassandraExecute(t, s) = {Done(t, {})} BY <2>1 DEF CassandraExecute
    <3>2. conf.engine \notin SqlEngines BY <2>3 DEF SqlEngines
    <3> QED BY <2>3, <3>1, <3>2 DEF Effects
  <2>4. CASE conf.engine \notin SqlEngines \cup {"cassandra"}
    <3>1. s.call = "read" BY <1>2, <2>4, StatementsAssumption
    <3>2. DocumentEffects(t, s) = {Done(t, {})} BY <3>1 DEF DocumentEffects
    <3> QED BY <2>4, <3>2 DEF Effects
  <2> QED BY <2>2, <2>3, <2>4
<1>4. \A e \in {Done(t, {}), Failed(t, {}), [Done(t, {}) EXCEPT !.ok = FALSE]} : e.rows = t
  BY DEF Done, Failed
<1>5. CASE c.intx /\ Postgres /\ txn.aborted
  <2>1. o.rows = rows BY <1>5 DEF Outcomes, Failed
  <2> QED BY <1>5, <2>1 DEF Apply, Seen
<1>6. CASE ~(c.intx /\ Postgres /\ txn.aborted)
  <2>1. o \in {Done(t, {}), Failed(t, {}), [Done(t, {}) EXCEPT !.ok = FALSE]}
    BY <1>3, <1>6 DEF Outcomes
  <2>2. o.rows = t BY <1>4, <2>1
  <2> QED BY <2>2 DEF Apply
<1> QED BY <1>5, <1>6

\* On a read-only connection a call that has come past the policies without a
\* review changes nothing.
LEMMA ReadingOnly ==
    ASSUME IInv, NEW r \in Req, CallStep(r), conf.readOnly, rows' # rows
    PROVE  calls[r] # calls'[r] /\ calls[r].pc # "idle" /\ calls[r].cleared
<1> DEFINE c == calls[r]
<1>1. Run(r) \/ Open(r) \/ Stream(r) \/ RestoreSql(r) \/ RestorePart(r)
  BY DEF CallStep, Submit, SubmitDeferred, SubmitCassandra, SubmitDocument, Arrives, Judge,
     Skip, Block, Capture, CaptureUntold, Finish, SubmitRestore
<1>2. c.pc \in {"run", "stream", "restore"}
  BY <1>1 DEF Run, Open, Stream, RestoreSql, RestorePart
<1>3. Sound(c) BY <1>2, UnderWay
<1>4. c.cleared \/ ~IsWrite(c.stmt.kind) BY <1>2, <1>3 DEF Sound, Guarded
<1>5. CASE RestoreSql(r) \/ RestorePart(r)
  <2>1. Restores(c) BY <1>3, <1>5 DEF RestoreSql, RestorePart, Sound, Proceeds
  <2> QED BY <1>4, <2>1 DEF Restores
<1>6. CASE Run(r) \/ Open(r) \/ Stream(r)
  <2>1. c.pc \in {"run", "stream"} BY <1>6 DEF Run, Open, Stream
  <2>2. CASE UNCHANGED rows BY <2>2
  <2>3. ASSUME NEW o, Apply(c, o), o \in Outcomes(c),
               Set(r, Ended(c, o)) \/ Set(r, Truncated(c, o))
        PROVE  calls[r] # calls'[r] /\ calls[r].pc # "idle" /\ calls[r].cleared
    <3>1. c.cleared BY <1>4, <2>1, <2>3, Reading
    <3>2. \A d \in {Ended(c, o), Truncated(c, o)} : d.pc = "finish"
      BY <1>3 DEF Sound, CallFields, Ended, Truncated
    <3>3. calls'[r] \in {Ended(c, o), Truncated(c, o)} BY <2>3, Setting DEF Set
    <3> QED BY <2>1, <3>1, <3>2, <3>3
  <2>4. CASE Open(r)
    <3>1. ASSUME Apply(c, Failed(Seen(c), {})) PROVE rows' = rows
      BY <3>1 DEF Apply, Failed
    <3> QED BY <2>4, <3>1 DEF Open
  <2>5. CASE Run(r) BY <2>3, <2>5 DEF Run
  <2>6. CASE Stream(r) BY <2>3, <2>6 DEF Stream
  <2> QED BY <1>6, <2>4, <2>5, <2>6
<1> QED BY <1>1, <1>5, <1>6

\* On a read-only connection nothing a caller sends without a review changes a
\* row: not a script, not a data-changing WITH behind a SELECT, not a restore,
\* on any engine and under any policies (policy.go:104).
THEOREM ReadOnlyIsKept == StatementsSpec => ReadOnlyNeverWrites
<1> DEFINE Excused ==
             conf.readOnly /\ rows' # rows =>
                 \/ calls' = calls
                 \/ txn # None /\ txn' = None
                 \/ \E r \in Req : calls[r] # calls'[r] /\ calls[r].pc # "idle" /\ calls[r].cleared
<1>1. IInv /\ [StatementsNext]_svars => [Excused]_svars
  <2> SUFFICES ASSUME IInv, StatementsNext, conf.readOnly, rows' # rows
               PROVE  \/ calls' = calls
                      \/ txn # None /\ txn' = None
                      \/ \E r \in Req : calls[r] # calls'[r] /\ calls[r].pc # "idle" /\ calls[r].cleared
    OBVIOUS
  <2>1. CASE \E r \in Req : CallStep(r) BY <2>1, ReadingOnly
  <2>2. CASE Commit \/ Rollback \/ Crash BY <2>2 DEF Commit, Rollback, Crash
  <2>3. CASE DeleteBackup \/ Begin \/ Edit \/ SetPolicies \/ Approve
    BY <2>3 DEF DeleteBackup, Begin, Edit, SetPolicies, Approve
  <2> QED BY <2>1, <2>2, <2>3 DEF StatementsNext, CallStep
<1>2. StatementsSpec => [][Excused]_svars
  BY <1>1, StatementsInvariant, PTL DEF StatementsSpec
<1> QED BY <1>2 DEF ReadOnlyNeverWrites

-----------------------------------------------------------------------------
\* What the database does with a statement, as far as the rows go.

\* The engines whose tables have columns.
Tabular == SqlEngines \cup {"cassandra"}

\* A statement writes columns of the table.
Fits(s) == s.cols \subseteq Columns /\ s.val \in 0..1

\* The table has a first key, and its rows are rows.
LEMMA FirstKey == First \in Key
  BY RowBackupAssumption DEF First

\* A key that is present has a row.
LEMMA PresentRow ==
    ASSUME NEW t \in Table, NEW k \in Present(t)
    PROVE  t[k] \in Row
  BY DEF Present, Table

\* A filter matches rows that are there.
LEMMA MatchedPresent ==
    ASSUME NEW t, NEW s
    PROVE  Matched(t, s) \subseteq Present(t)
  BY DEF Matched

\* A fresh row is a row, whatever is written to its first column.
LEMMA FreshRow == Fresh \in Row /\ \A v \in 0..1 : [Fresh EXCEPT !.a = v] \in Row
  BY DEF Fresh, Row, Columns

\* Putting a row, writing columns, removing rows, and refreshing a column make
\* a table of a table.
LEMMA PuttingRow ==
    ASSUME NEW t \in Table, NEW k, NEW row \in Row \cup {Absent}
    PROVE  WithRow(t, k, row) \in Table
  BY DEF WithRow, Table

LEMMA WritingRows ==
    ASSUME NEW t \in Table, NEW ks \in SUBSET Present(t), NEW s, Fits(s)
    PROVE  Written(t, ks, s) \in Table /\ \A k \in ks : Written(t, ks, s)[k] \in Row
<1> DEFINE row(k) == [c \in Columns |-> IF c \in s.cols THEN s.val ELSE t[k][c]]
<1>1. ASSUME NEW k \in ks PROVE row(k) \in Row
  <2>1. t[k] \in Row BY PresentRow
  <2>2. \A c \in Columns : (IF c \in s.cols THEN s.val ELSE t[k][c]) \in 0..1
    BY <2>1 DEF Row, Fits
  <2> QED BY <2>2 DEF Row
<1> HIDE DEF row
<1>2. Written(t, ks, s) = [k \in Key |-> IF k \in ks THEN row(k) ELSE t[k]] BY DEF Written, row
<1> QED BY <1>1, <1>2 DEF Table, Present

LEMMA RemovingRows ==
    ASSUME NEW t \in Table, NEW ks
    PROVE  Without(t, ks) \in Table
  BY DEF Without, Table

\* A statement chooses rows that are there.
LEMMA ChoosingRows ==
    ASSUME NEW t, NEW s, NEW ks \in Chosen(t, s)
    PROVE  ks \subseteq Present(t)
  BY MatchedPresent DEF Chosen

LEMMA BumpingRows ==
    ASSUME NEW engine, NEW t \in Table, NEW ks \in SUBSET Present(t)
    PROVE  Bumped(engine, t, ks) \in Table
<1>1. ASSUME NEW k \in ks PROVE [t[k] EXCEPT !.r = 1 - t[k].r] \in Row
  <2>1. t[k] \in [Columns -> 0..1] BY PresentRow DEF Row
  <2>2. t[k].r \in 0..1 BY <2>1 DEF Columns
  <2>3. 1 - t[k].r \in 0..1 BY <2>2
  <2> QED BY <2>1, <2>3 DEF Row
<1> DEFINE row(k) == [t[k] EXCEPT !.r = 1 - t[k].r]
<1>2. Bumped(engine, t, ks) =
        [k \in Key |-> IF k \in ks /\ Refreshed(engine) # {} THEN row(k) ELSE t[k]]
  BY DEF Bumped
<1>3. \A k \in ks : row(k) \in Row BY <1>1
<1> HIDE DEF row
<1> QED BY <1>2, <1>3 DEF Table

\* Outcomes are tables.
Outcome(o) == DOMAIN o = {"rows", "hit", "ok"} /\ o.rows \in Table

\* So are all of a set.
Leaves(e) == \A o \in e : Outcome(o)

\* What leaves a table leaves one, with or without an error.
LEMMA OneTable ==
    ASSUME NEW t \in Table, NEW ks
    PROVE  Outcome(Done(t, ks)) /\ Outcome(Failed(t, ks))
  BY DEF Done, Failed, Outcome

\* A statement of a SQL engine leaves a table.
LEMMA SqlLeaves ==
    ASSUME NEW engine, NEW t \in Table, NEW s, Fits(s)
    PROVE  Leaves(SqlExecute(engine, t, s))
<1>1. CASE s.kind = "delete"
  <2>1. SqlExecute(engine, t, s) = {Done(Without(t, ks), ks) : ks \in Chosen(t, s)}
    BY <1>1 DEF SqlExecute
  <2> QED BY <2>1, RemovingRows, OneTable DEF Leaves
<1>2. CASE s.kind = "update" /\ s.moves
  <2> DEFINE u == WithRow(WithRow(t, OtherKey(First), t[First]), First, Absent)
  <2>1. t[First] \in Row \cup {Absent} BY FirstKey DEF Table
  <2>2. u \in Table BY <2>1, PuttingRow
  <2> HIDE DEF u
  <2>3. SqlExecute(engine, t, s) \subseteq
          {Done(t, {}), Failed(t, {}), Done(u, {First, OtherKey(First)})}
    BY <1>2 DEF SqlExecute, u
  <2> QED BY <2>2, <2>3, OneTable DEF Leaves
<1>3. CASE s.kind = "update" /\ ~s.moves
  <2>1. SqlExecute(engine, t, s) =
          {Done(Bumped(engine, Written(t, ks, s), ks), ks) : ks \in Chosen(t, s)}
    BY <1>3 DEF SqlExecute
  <2>2. ASSUME NEW ks \in Chosen(t, s)
        PROVE  Bumped(engine, Written(t, ks, s), ks) \in Table
    <3>1. ks \in SUBSET Present(t) BY ChoosingRows
    <3>2. Written(t, ks, s) \in Table BY <3>1, WritingRows
    <3>3. ks \subseteq Present(Written(t, ks, s))
      BY <3>1, WritingRows, RowBackupAssumption DEF Present
    <3> QED BY <3>2, <3>3, BumpingRows
  <2> QED BY <2>1, <2>2, OneTable DEF Leaves
<1>4. CASE s.kind = "insert"
  <2>1. SqlExecute(engine, t, s) = MongoInsertOne(t) BY <1>4 DEF SqlExecute
  <2>2. WithRow(t, First, Fresh) \in Table BY FreshRow, PuttingRow
  <2>3. MongoInsertOne(t) \subseteq {Failed(t, {}), Done(WithRow(t, First, Fresh), {First})}
    BY DEF MongoInsertOne
  <2> QED BY <2>1, <2>2, <2>3, OneTable DEF Leaves
<1>5. CASE s.kind \notin {"delete", "update", "insert"}
  <2>1. SqlExecute(engine, t, s) = {Done(t, {})} BY <1>5 DEF SqlExecute
  <2> QED BY <2>1, OneTable DEF Leaves
<1> QED BY <1>1, <1>2, <1>3, <1>4, <1>5

\* What an UPDATE of rows named by key makes of one.
Upserted(t, s, k) ==
    [c \in Columns |-> IF c \in s.cols THEN s.val ELSE IF t[k] = Absent THEN 0 ELSE t[k][c]]

\* It is a row.
LEMMA UpsertedRow ==
    ASSUME NEW t \in Table, NEW s, Fits(s), NEW k \in Key
    PROVE  Upserted(t, s, k) \in Row
<1>1. \A c \in Columns :
        (IF c \in s.cols THEN s.val ELSE IF t[k] = Absent THEN 0 ELSE t[k][c]) \in 0..1
  BY DEF Table, Row, Fits
<1> QED BY <1>1 DEF Upserted, Row

\* So do a statement of Cassandra, and the calls of the document engines.
LEMMA CassandraLeaves ==
    ASSUME NEW t \in Table, NEW s, Fits(s)
    PROVE  Leaves(CassandraExecute(t, s))
<1>1. CASE s.kind = "delete"
  <2>1. CassandraExecute(t, s) = {Done(Without(t, Matched(t, s)), Matched(t, s))}
    BY <1>1 DEF CassandraExecute
  <2> QED BY <2>1, RemovingRows, OneTable DEF Leaves
<1>2. CASE s.kind \in {"update", "insert"}
  <2> DEFINE u == [k \in Key |-> IF s.picks = "one" => k = First THEN Upserted(t, s, k) ELSE t[k]]
             ks == {k \in Key : s.picks = "one" => k = First}
  <2>1. CassandraExecute(t, s) = {Done(u, ks)}
    BY <1>2 DEF CassandraExecute, Upserted
  <2>2. u \in Table BY UpsertedRow DEF Table
  <2> HIDE DEF u, ks
  <2> QED BY <2>1, <2>2, OneTable DEF Leaves
<1>3. CASE s.kind \notin {"delete", "update", "insert"}
  <2>1. CassandraExecute(t, s) = {Done(t, {})} BY <1>3 DEF CassandraExecute
  <2> QED BY <2>1, OneTable DEF Leaves
<1> QED BY <1>1, <1>2, <1>3

\* A pipeline, a batch: any of the keys may be written.
LEMMA FillingRows ==
    ASSUME NEW t \in Table, NEW ks, NEW row \in Row
    PROVE  [k \in Key |-> IF k \in ks THEN row ELSE t[k]] \in Table
  BY DEF Table

LEMMA MongoLeaves ==
    ASSUME NEW t \in Table, NEW s, Fits(s)
    PROVE  /\ Leaves(MongoUpdateOne(t, s)) /\ Leaves(MongoDeleteOne(t, s))
           /\ Leaves(MongoInsertOne(t)) /\ Leaves(MongoInsertDocuments(t))
<1>1. Leaves(MongoUpdateOne(t, s))
  <2>1. \A k \in Matched(t, s) : Written(t, {k}, s) \in Table
    BY MatchedPresent, WritingRows
  <2> QED BY <2>1, OneTable DEF MongoUpdateOne, Leaves
<1>2. Leaves(MongoDeleteOne(t, s))
  BY RemovingRows, OneTable DEF MongoDeleteOne, Leaves
<1>3. Leaves(MongoInsertOne(t))
  BY FreshRow, PuttingRow, OneTable DEF MongoInsertOne, Leaves
<1>4. Leaves(MongoInsertDocuments(t))
  <2>1. ASSUME NEW o \in MongoInsertDocuments(t) PROVE Outcome(o)
    <3>1. PICK free \in SUBSET Key :
            LET ks == {k \in free : t[k] = Absent}
                u  == [k \in Key |-> IF k \in ks THEN Fresh ELSE t[k]]
            IN  o = IF ks = Key THEN Done(u, ks) ELSE Failed(u, ks)
      BY <2>1 DEF MongoInsertDocuments
    <3> DEFINE ks == {k \in free : t[k] = Absent}
               u  == [k \in Key |-> IF k \in ks THEN Fresh ELSE t[k]]
    <3>2. o \in {Done(u, ks), Failed(u, ks)} BY <3>1
    <3> HIDE DEF ks
    <3>3. u \in Table BY FreshRow, FillingRows
    <3> HIDE DEF u
    <3> QED BY <3>2, <3>3, OneTable
  <2> QED BY <2>1 DEF Leaves
<1> QED BY <1>1, <1>2, <1>3, <1>4

LEMMA RedisLeaves ==
    ASSUME NEW t \in Table, NEW s, Fits(s)
    PROVE  /\ Leaves(RedisSetKey(t, s)) /\ Leaves(RedisHashField(t, s))
           /\ Leaves(RedisPipeline(t, s)) /\ Leaves(RedisDeleteKey(t))
<1> DEFINE row == [Fresh EXCEPT !.a = s.val]
<1>0. row \in Row BY FreshRow DEF Fits
<1>1. Leaves(RedisSetKey(t, s))
  BY <1>0, PuttingRow, OneTable DEF RedisSetKey, Leaves
<1>2. Leaves(RedisHashField(t, s))
  <2> DEFINE old == IF t[First] = Absent THEN Fresh ELSE t[First]
             set == [old EXCEPT !.a = s.val]
             both == [set EXCEPT !.r = 1]
  <2>1. old \in Row BY FirstKey, FreshRow DEF Table
  <2> HIDE DEF old
  <2>2. set \in Row BY <2>1 DEF Row, Fits
  <2> HIDE DEF set
  <2>3. both \in Row BY <2>2 DEF Row
  <2> HIDE DEF both
  <2>4. RedisHashField(t, s) = {Done(WithRow(t, First, both), {First}), Failed(WithRow(t, First, set), {First})}
    BY DEF RedisHashField, both, set, old
  <2> QED BY <2>2, <2>3, <2>4, PuttingRow, OneTable DEF Leaves
<1>3. Leaves(RedisPipeline(t, s))
  <2>1. ASSUME NEW o \in RedisPipeline(t, s) PROVE Outcome(o)
    <3>1. PICK ks \in SUBSET Key :
            LET u == [k \in Key |-> IF k \in ks THEN row ELSE t[k]]
            IN  o = IF ks = Key THEN Done(u, ks) ELSE Failed(u, ks)
      BY <2>1 DEF RedisPipeline
    <3> DEFINE u == [k \in Key |-> IF k \in ks THEN row ELSE t[k]]
    <3>2. o \in {Done(u, ks), Failed(u, ks)} BY <3>1
    <3> HIDE DEF row
    <3>3. u \in Table BY <1>0, FillingRows
    <3> HIDE DEF u
    <3> QED BY <3>2, <3>3, OneTable
  <2> QED BY <2>1 DEF Leaves
<1>4. Leaves(RedisDeleteKey(t))
  BY RemovingRows, OneTable DEF RedisDeleteKey, Leaves
<1> QED BY <1>1, <1>2, <1>3, <1>4

LEMMA ElasticsearchLeaves ==
    ASSUME NEW t \in Table, NEW s, Fits(s)
    PROVE  /\ Leaves(ElasticsearchPut(t, s)) /\ Leaves(ElasticsearchBulkPut(t, s))
           /\ Leaves(ElasticsearchMerge(t, s)) /\ Leaves(ElasticsearchDrop(t))
<1> DEFINE row == [Fresh EXCEPT !.a = s.val]
<1>0. row \in Row BY FreshRow DEF Fits
<1>1. Leaves(ElasticsearchPut(t, s))
  BY <1>0, PuttingRow, OneTable DEF ElasticsearchPut, Leaves
<1>2. Leaves(ElasticsearchBulkPut(t, s))
  <2>1. ASSUME NEW ks \in SUBSET Key
        PROVE  [k \in Key |-> IF k \in ks THEN row ELSE t[k]] \in Table
    BY <1>0, FillingRows
  <2> HIDE DEF row
  <2>2. ElasticsearchBulkPut(t, s) =
          {Done([k \in Key |-> IF k \in ks THEN row ELSE t[k]], ks) : ks \in SUBSET Key}
    BY DEF ElasticsearchBulkPut, row
  <2> QED BY <2>1, <2>2, OneTable DEF Leaves
<1>3. Leaves(ElasticsearchMerge(t, s))
  <2>1. t[First] # Absent => Written(t, {First}, s) \in Table
    BY FirstKey, WritingRows DEF Present
  <2> QED BY <2>1, OneTable DEF ElasticsearchMerge, Leaves
<1>4. Leaves(ElasticsearchDrop(t))
  BY RemovingRows, OneTable DEF ElasticsearchDrop, Leaves
<1> QED BY <1>1, <1>2, <1>3, <1>4

\* Whatever is asked, a table is left.
LEMMA EffectsLeave ==
    ASSUME NEW engine, NEW t \in Table, NEW s, Fits(s),
           engine \notin Tabular => s.call \in Calls
    PROVE  Leaves(Effects(engine, t, s))
<1>1. CASE engine \in SqlEngines
  BY <1>1, SqlLeaves DEF Effects, SqlEngines
<1>2. CASE engine = "cassandra"
  BY <1>2, CassandraLeaves DEF Effects, SqlEngines
<1>3. CASE engine \notin Tabular
  <2>1. Effects(engine, t, s) = DocumentEffects(t, s)
    BY <1>3 DEF Effects, Tabular
  <2>2. Leaves({Done(t, {})}) BY OneTable DEF Leaves
  <2>3. \/ DocumentEffects(t, s) = {Done(t, {})}
        \/ DocumentEffects(t, s) \in {MongoUpdateOne(t, s), MongoDeleteOne(t, s), MongoInsertOne(t),
                                      MongoInsertDocuments(t)}
        \/ DocumentEffects(t, s) \in {RedisSetKey(t, s), RedisHashField(t, s), RedisPipeline(t, s),
                                      RedisDeleteKey(t)}
        \/ DocumentEffects(t, s) \in {ElasticsearchPut(t, s), ElasticsearchBulkPut(t, s),
                                      ElasticsearchMerge(t, s), ElasticsearchDrop(t)}
    BY <1>3 DEF DocumentEffects, Calls
  <2> QED BY <2>1, <2>2, <2>3, MongoLeaves, RedisLeaves, ElasticsearchLeaves
<1> QED BY <1>1, <1>2, <1>3 DEF Tabular

\* A row k of t that is still there in u, its columns outside cols as they were.
Stays(t, u, k, cols) == u[k] # Absent /\ \A col \in Columns \ cols : u[k][col] = t[k][col]

\* An UPDATE removes no row, and writes what it names and what the engine
\* refreshes.
LEMMA UpdateStays ==
    ASSUME NEW engine \in Tabular, NEW t \in Table, NEW s, Fits(s), s.kind = "update", ~s.moves,
           NEW o \in Effects(engine, t, s), NEW k \in Key, t[k] # Absent
    PROVE  Stays(t, o.rows, k, s.cols \cup Refreshed(engine))
<1>0. t[k] \in Row BY DEF Table
<1>1. CASE engine \in SqlEngines
  <2>1. PICK ks \in Chosen(t, s) : o = Done(Bumped(engine, Written(t, ks, s), ks), ks)
    BY <1>1 DEF Effects, SqlExecute, SqlEngines
  <2> DEFINE u == Written(t, ks, s)
             row == [c \in Columns |-> IF c \in s.cols THEN s.val ELSE t[k][c]]
  <2>2. ks \in SUBSET Present(t) BY ChoosingRows
  <2>3. u \in Table /\ u[k] = IF k \in ks THEN row ELSE t[k]
    BY <2>2, WritingRows DEF Written
  <2>4. u[k] \in Row BY <1>0, <2>2, <2>3, WritingRows
  <2>5. \A col \in Columns \ s.cols : u[k][col] = t[k][col] BY <2>3
  <2> HIDE DEF u
  <2>6. o.rows[k] = IF k \in ks /\ Refreshed(engine) # {} THEN [u[k] EXCEPT !.r = 1 - u[k].r] ELSE u[k]
    BY <2>1 DEF Done, Bumped, u
  <2>7. CASE Refreshed(engine) = {}
    BY <2>4, <2>5, <2>6, <2>7, RowBackupAssumption DEF Stays
  <2>8. CASE Refreshed(engine) # {}
    <3>1. Refreshed(engine) = {"r"} BY <2>8 DEF Refreshed
    <3>2. u[k] \in [Columns -> 0..1] BY <2>4 DEF Row
    <3>3. u[k].r \in 0..1 /\ 1 - u[k].r \in 0..1 BY <3>2 DEF Columns
    <3>4. [u[k] EXCEPT !.r = 1 - u[k].r] \in Row BY <3>2, <3>3 DEF Row
    <3>5. o.rows[k] # Absent BY <2>4, <2>6, <3>4, RowBackupAssumption
    <3>6. \A col \in Columns \ {"r"} : o.rows[k][col] = u[k][col] BY <2>6, <3>2
    <3> QED BY <2>5, <3>1, <3>5, <3>6 DEF Stays
  <2> QED BY <2>7, <2>8
<1>2. CASE engine = "cassandra"
  <2>1. o.rows[k] \in {Upserted(t, s, k), t[k]}
    BY <1>2 DEF Effects, CassandraExecute, Upserted, SqlEngines, Done
  <2>2. Upserted(t, s, k) \in Row BY UpsertedRow
  <2>3. \A col \in Columns \ s.cols : Upserted(t, s, k)[col] = t[k][col] BY DEF Upserted
  <2> QED BY <1>0, <2>1, <2>2, <2>3, RowBackupAssumption DEF Stays
<1> QED BY <1>1, <1>2 DEF Tabular

\* What hits no row of a SQL table leaves it as it is.
LEMMA NothingHit ==
    ASSUME NEW engine \in SqlEngines, NEW t \in Table, NEW s,
           NEW o \in Effects(engine, t, s), o.hit = {}
    PROVE  o.rows = t
<1>1. o \in SqlExecute(engine, t, s) BY DEF Effects, SqlEngines
<1>2. CASE s.kind = "delete"
  <2>1. PICK ks \in Chosen(t, s) : o = Done(Without(t, ks), ks)
    BY <1>1, <1>2 DEF SqlExecute
  <2> QED BY <2>1 DEF Done, Without, Table
<1>3. CASE s.kind = "update" /\ s.moves
  BY <1>1, <1>3 DEF SqlExecute, Done, Failed
<1>4. CASE s.kind = "update" /\ ~s.moves
  <2>1. PICK ks \in Chosen(t, s) : o = Done(Bumped(engine, Written(t, ks, s), ks), ks)
    BY <1>1, <1>4 DEF SqlExecute
  <2>2. ks = {} BY <2>1 DEF Done
  <2>3. Written(t, ks, s) = t BY <2>2 DEF Written, Table
  <2>4. Bumped(engine, t, ks) = t BY <2>2 DEF Bumped, Table
  <2> QED BY <2>1, <2>3, <2>4 DEF Done
<1>5. CASE s.kind = "insert"
  BY <1>1, <1>5 DEF SqlExecute, MongoInsertOne, Done, Failed
<1>6. CASE s.kind \notin {"delete", "update", "insert"}
  BY <1>1, <1>6 DEF SqlExecute, Done
<1> QED BY <1>2, <1>3, <1>4, <1>5, <1>6

-----------------------------------------------------------------------------
\* What is known of the rows.

\* A backup holds rows of the table, and says what it was taken for.
Faithful(b) ==
    /\ b.engine = conf.engine /\ b.stmt \in conf.stmts /\ Target(conf.engine, b.stmt)
    /\ b.kind = BackupKind(b.stmt) /\ b.cols = BackupColumns(conf.engine, b.stmt)
    /\ b.puts = b.cols \ conf.idents
    /\ b.keys \subseteq Key /\ b.before \in [b.keys -> Row \cup {Absent}]
    /\ conf.engine \in Tabular => \A k \in b.keys : b.before[k] # Absent

\* The table is a table, a call inside the transaction has one, and every backup
\* is faithful.
Typed ==
    /\ rows \in Table
    /\ txn # None => conf.engine \in SqlEngines /\ txn \in Transactions
    /\ \A r \in Req : Busy(r) /\ calls[r].intx => txn # None
    /\ \A i \in 1..Len(backups) : Faithful(backups[i])

\* The statement that backup i was taken for has yet to run.
Writes(r, i) == calls[r].pc \in {"run", "stream"} /\ calls[r].bid = i

\* Its backup is as it was taken.
Awaited(r, i) ==
    /\ backups[i].hit = {} /\ backups[i].stmt = calls[r].stmt
    /\ backups[i].open <=> calls[r].intx

\* So is every backup whose statement has yet to run.
Unwritten == \A i \in 1..Len(backups) : \A r \in Req : Writes(r, i) => Awaited(r, i)

\* A restore on its way.
Undoes(c) == c.pc \notin {"idle", "answered"} /\ c.path = "restore"

\* It has the keys of its backup left to put back: all of them on a SQL engine,
\* which does it in one transaction.  reached says that the write took place.
UndoesAll(r) ==
    /\ calls[r].bid \in 1..Len(backups)
    /\ calls[r].todo \subseteq backups[calls[r].bid].keys
    /\ conf.engine \in SqlEngines => calls[r].todo = backups[calls[r].bid].keys
    /\ calls[r].reached => \A q \in Req : ~Writes(q, calls[r].bid)

\* So has every restore on its way.
Undoing == \A r \in Req : Undoes(calls[r]) => UndoesAll(r)

\* A backup whose statement has yet to run, or has changed something.
Counts(i) == backups[i].hit # {} \/ \E r \in Req : Writes(r, i)

\* A backup of some of the columns.
Narrow(b) == conf.engine \in Tabular /\ b.kind = "update" /\ b.stmt.listed /\ ~b.stmt.moves

\* What it leaves out is in the table as it was, where nobody else wrote.
Standing ==
    \A i \in 1..Len(backups) : Narrow(backups[i]) /\ Counts(i) =>
        \A k \in backups[i].keys \ backups[i].touched :
            Stays(backups[i].before, rows, k, backups[i].cols)

\* What the transaction would take back of the rows of others is touched.
Pending ==
    \A i \in 1..Len(backups) : Locked /\ ~backups[i].open =>
        \A k \in Key \ backups[i].touched : rows[k] = txn.undo[k]

\* What a restore has put back is back, where nobody else wrote.
Partial ==
    \A r \in Req : Undoes(calls[r]) /\ calls[r].reached /\ backups[calls[r].bid].hit # {} =>
        LET b == backups[calls[r].bid]
        IN  \A k \in b.keys \ (calls[r].todo \cup b.touched) : rows[k] = b.before[k]

\* What is known of the rows, in every state.
RowsInv == Typed /\ Unwritten /\ Undoing /\ Standing /\ Pending /\ Partial

-----------------------------------------------------------------------------
\* Steps that leave the rows, and what the backups say of them, alone.

\* A backup d that holds what b held.
Held(b, d) ==
    /\ d.engine = b.engine /\ d.kind = b.kind /\ d.keys = b.keys /\ d.cols = b.cols
    /\ d.puts = b.puts /\ d.before = b.before /\ d.stmt = b.stmt /\ d.open = b.open

\* It says the same of the rows too.
Same(b, d) == Held(b, d) /\ d.hit = b.hit /\ d.touched = b.touched

\* A call that does not make a backup: it has the one it had, or none; a
\* restore is the one it was, or begins.
GoesOn(c, d) ==
    /\ d.pc \notin {"idle", "answered"} /\ d.intx =>
           txn # None \/ (c.pc \notin {"idle", "answered"} /\ c.intx)
    /\ d.pc \in {"run", "stream"} /\ d.bid # 0 =>
           c.pc \in {"run", "stream"} /\ d.bid = c.bid /\ d.stmt = c.stmt /\ d.intx = c.intx
    /\ Undoes(d) =>
           \/ Undoes(c) /\ d.bid = c.bid /\ d.todo = c.todo /\ d.reached = c.reached
           \/ /\ d.bid \in 1..Len(backups) /\ d.todo = backups[d.bid].keys
              /\ d.reached = (backups[d.bid].hit # {})

\* The transaction goes on, if aborted by a read.
TxnGoesOn == txn' = txn \/ (txn # None /\ txn' = [txn EXCEPT !.aborted = TRUE])

\* A step after which the rows are what they were, and every call goes on.
Quiet ==
    /\ conf' = conf /\ rows' = rows
    /\ \/ TxnGoesOn
       \/ conf.tx /\ txn' = [undo |-> rows, wrote |-> FALSE, aborted |-> FALSE]
    /\ Len(backups') = Len(backups)
    /\ \A i \in 1..Len(backups) : Same(backups[i], backups'[i])
    /\ \A r \in Req : GoesOn(calls[r], calls'[r])

\* Such a step keeps what is known of the rows.
LEMMA QuietSteps ==
    ASSUME conf \in Confs, Len(backups) \in Nat, RowsInv, Quiet
    PROVE  RowsInv'
<1>1. Typed'
  <2>1. /\ txn' # None => conf'.engine \in SqlEngines /\ txn' \in Transactions
        /\ txn # None => txn' # None
    <3>1. CASE txn' = txn BY <3>1 DEF RowsInv, Typed, Quiet
    <3>2. CASE conf.tx /\ txn' = [undo |-> rows, wrote |-> FALSE, aborted |-> FALSE]
      <4>1. txn' \in Transactions BY <3>2 DEF RowsInv, Typed, Transactions
      <4> QED BY <3>2, <4>1, StatementsAssumption DEF Quiet
    <3>3. CASE txn # None /\ txn' = [txn EXCEPT !.aborted = TRUE]
      <4>1. txn' \in Transactions BY <3>3 DEF RowsInv, Typed, Transactions
      <4> QED BY <3>3, <4>1, StatementsAssumption DEF RowsInv, Typed, Quiet
    <3> QED BY <3>1, <3>2, <3>3 DEF Quiet, TxnGoesOn
  <2>3. ASSUME NEW r \in Req, Busy(r)', calls'[r].intx PROVE txn' # None
    BY <2>1, <2>3 DEF RowsInv, Typed, Quiet, GoesOn, Busy
  <2>2. \A i \in 1..Len(backups') : Faithful(backups[i])'
    BY DEF RowsInv, Typed, Quiet, Same, Held, Faithful
  <2> QED BY <2>1, <2>2, <2>3 DEF RowsInv, Typed, Quiet
<1>2. \A i \in 1..Len(backups) : \A r \in Req : Writes(r, i)' =>
        Writes(r, i) /\ calls'[r].stmt = calls[r].stmt /\ calls'[r].intx = calls[r].intx
  BY DEF Quiet, GoesOn, Writes
<1>3. Unwritten' BY <1>2 DEF RowsInv, Unwritten, Awaited, Quiet, Same, Held
<1>4. Undoing'
  <2> SUFFICES ASSUME NEW r \in Req, Undoes(calls[r])' PROVE UndoesAll(r)'
    BY DEF Undoing
  <2> DEFINE i == calls'[r].bid
  <2>1. CASE Undoes(calls[r]) /\ calls'[r].bid = calls[r].bid /\ calls'[r].todo = calls[r].todo
               /\ calls'[r].reached = calls[r].reached
    <3>1. UndoesAll(r) BY <2>1 DEF RowsInv, Undoing
    <3>2. i \in 1..Len(backups) /\ Same(backups[i], backups'[i]) BY <2>1, <3>1 DEF UndoesAll, Quiet
    <3> QED BY <1>2, <2>1, <3>1, <3>2 DEF UndoesAll, Quiet, Same, Held
  <2>2. CASE /\ i \in 1..Len(backups) /\ calls'[r].todo = backups[i].keys
             /\ calls'[r].reached = (backups[i].hit # {})
    <3>1. Same(backups[i], backups'[i]) BY <2>2 DEF Quiet
    <3>2. calls'[r].reached => \A q \in Req : ~Writes(q, i)
      BY <2>2 DEF RowsInv, Unwritten, Awaited
    <3> QED BY <1>2, <2>2, <3>1, <3>2 DEF UndoesAll, Quiet, Same, Held
  <2> QED BY <2>1, <2>2 DEF Quiet, GoesOn, Undoes
<1>5. Standing'
  <2>1. \A i \in 1..Len(backups) : Counts(i)' => Counts(i)
    BY <1>2 DEF Counts, Quiet, Same
  <2> QED BY <2>1 DEF RowsInv, Standing, Quiet, Same, Held, Narrow, Stays
<1>6. Pending'
  <2>1. Locked' => Locked /\ txn'.undo = txn.undo
    <3>1. CASE txn # None /\ txn' = [txn EXCEPT !.aborted = TRUE]
      <4>1. txn'.wrote = txn.wrote /\ txn'.undo = txn.undo
        BY <3>1 DEF RowsInv, Typed, Transactions
      <4> QED BY <3>1, <4>1 DEF Locked
    <3> QED BY <3>1 DEF Quiet, TxnGoesOn, Locked
  <2> QED BY <2>1 DEF RowsInv, Pending, Quiet, Same, Held
<1>7. Partial'
  <2> SUFFICES ASSUME NEW r \in Req, Undoes(calls'[r]), calls'[r].reached,
                      backups'[calls'[r].bid].hit # {},
                      NEW k \in backups'[calls'[r].bid].keys
                                  \ (calls'[r].todo \cup backups'[calls'[r].bid].touched)
               PROVE  rows'[k] = backups'[calls'[r].bid].before[k]
    BY DEF Partial, Undoes
  <2>1. calls'[r].bid \in 1..Len(backups) BY <1>4 DEF Undoing, UndoesAll, Undoes, Quiet
  <2>2. Same(backups[calls'[r].bid], backups'[calls'[r].bid]) BY <2>1 DEF Quiet
  <2>3. /\ Undoes(calls[r]) /\ calls'[r].bid = calls[r].bid /\ calls'[r].todo = calls[r].todo
        /\ calls'[r].reached = calls[r].reached
    <3>1. calls'[r].todo # backups[calls'[r].bid].keys BY <2>2 DEF Same, Held
    <3>2. GoesOn(calls[r], calls'[r]) BY DEF Quiet
    <3> QED BY <3>1, <3>2 DEF GoesOn
  <2> DEFINE b == backups[calls[r].bid]
             d == backups'[calls[r].bid]
  <2>4. d.hit = b.hit /\ d.touched = b.touched /\ d.keys = b.keys /\ d.before = b.before
    BY <2>2, <2>3 DEF Same, Held
  <2> HIDE DEF b, d
  <2>5. calls[r].reached /\ b.hit # {} /\ k \in b.keys \ (calls[r].todo \cup b.touched)
    BY <2>3, <2>4 DEF d
  <2>6. rows[k] = b.before[k] BY <2>3, <2>5 DEF RowsInv, Partial, b
  <2> QED BY <2>3, <2>4, <2>6 DEF Quiet, d
<1> QED BY <1>1, <1>3, <1>4, <1>5, <1>6, <1>7 DEF RowsInv

-----------------------------------------------------------------------------
\* The steps that change rows.

\* A call of the invariants, with what is assumed of its statement.
LEMMA FitStatement ==
    ASSUME conf \in Confs, NEW s \in conf.stmts
    PROVE  Fits(s) /\ (conf.engine \notin Tabular => s.call \in Calls)
  BY StatementsAssumption DEF Fits, Tabular

\* What a call sees is a table.
LEMMA SeenTable ==
    ASSUME Typed, NEW c
    PROVE  Seen(c) \in Table
  BY DEF Typed, Seen, Committed, Locked, Transactions

\* What an outcome may be, the ok of its answer left open.
LEMMA Outcoming ==
    ASSUME Typed, conf \in Confs, NEW c, c.stmt \in conf.stmts, NEW o \in Outcomes(c)
    PROVE  \/ o.rows = Seen(c) /\ o.hit = {}
           \/ \E e \in Effects(conf.engine, Seen(c), c.stmt) : o.rows = e.rows /\ o.hit = e.hit
<1> DEFINE E == Effects(conf.engine, Seen(c), c.stmt)
<1>1. Seen(c) \in Table BY SeenTable
<1>2. Leaves(E) BY <1>1, FitStatement, EffectsLeave
<1> HIDE DEF E
<1>3. \A e \in E : [e EXCEPT !.ok = FALSE].rows = e.rows /\ [e EXCEPT !.ok = FALSE].hit = e.hit
  BY <1>2 DEF Leaves, Outcome
<1>4. CASE c.intx /\ Postgres /\ txn.aborted
  BY <1>4 DEF Outcomes, Failed, Seen
<1>5. CASE ~(c.intx /\ Postgres /\ txn.aborted)
  <2>1. o \in E \cup {Failed(Seen(c), {})} \cup {[e EXCEPT !.ok = FALSE] : e \in E}
    BY <1>5 DEF Outcomes, E
  <2>2. CASE o = Failed(Seen(c), {}) BY <2>2 DEF Failed
  <2>3. CASE o \in E BY <2>3 DEF E
  <2>4. CASE o \in {[e EXCEPT !.ok = FALSE] : e \in E} BY <1>3, <2>4 DEF E
  <2> QED BY <2>1, <2>2, <2>3, <2>4
<1> QED BY <1>4, <1>5

\* It leaves a table; on a SQL engine, the one it saw when it hit nothing; and an
\* UPDATE leaves every row, with the columns it does not write.
LEMMA OutcomeFacts ==
    ASSUME Typed, conf \in Confs, NEW c, c.stmt \in conf.stmts, NEW o \in Outcomes(c)
    PROVE  /\ o.rows \in Table
           /\ conf.engine \in SqlEngines /\ o.hit = {} => o.rows = Seen(c)
           /\ conf.engine \in Tabular /\ c.stmt.kind = "update" /\ ~c.stmt.moves =>
                  \A k \in Key : Seen(c)[k] # Absent =>
                      Stays(Seen(c), o.rows, k, c.stmt.cols \cup Refreshed(conf.engine))
<1>1. Seen(c) \in Table BY SeenTable
<1>2. Fits(c.stmt) BY FitStatement
<1>3. CASE o.rows = Seen(c) BY <1>1, <1>3 DEF Stays
<1>4. ASSUME NEW e \in Effects(conf.engine, Seen(c), c.stmt), o.rows = e.rows, o.hit = e.hit
      PROVE  /\ o.rows \in Table
             /\ conf.engine \in SqlEngines /\ o.hit = {} => o.rows = Seen(c)
             /\ conf.engine \in Tabular /\ c.stmt.kind = "update" /\ ~c.stmt.moves =>
                    \A k \in Key : Seen(c)[k] # Absent =>
                        Stays(Seen(c), o.rows, k, c.stmt.cols \cup Refreshed(conf.engine))
  <2>1. e.rows \in Table BY <1>1, FitStatement, EffectsLeave DEF Leaves, Outcome
  <2>2. conf.engine \in SqlEngines /\ e.hit = {} => e.rows = Seen(c)
    BY <1>1, NothingHit
  <2>3. ASSUME conf.engine \in Tabular, c.stmt.kind = "update", ~c.stmt.moves,
               NEW k \in Key, Seen(c)[k] # Absent
        PROVE  Stays(Seen(c), e.rows, k, c.stmt.cols \cup Refreshed(conf.engine))
    BY <1>1, <1>2, <2>3, UpdateStays
  <2> QED BY <1>4, <2>1, <2>2, <2>3
<1> QED BY <1>3, <1>4, Outcoming

\* A narrow backup holds what its statement and the engine write.
LEMMA NarrowColumns ==
    ASSUME conf \in Confs, NEW b, Faithful(b), Narrow(b)
    PROVE  /\ b.cols = b.stmt.cols \cup Refreshed(conf.engine)
           /\ b.stmt.kind = "update" /\ ~b.stmt.moves
<1>1. b.stmt.command \in {"update", "delete"}
        /\ (conf.engine \in SqlEngines => b.stmt.simple)
  BY DEF Faithful, Narrow, Target, SqlTarget, CassandraTarget, Tabular, SqlEngines
<1>2. b.stmt.kind = b.stmt.command
  BY <1>1, StatementsAssumption DEF Faithful, Narrow, Tabular
<1>3. b.stmt.kind = "update" /\ b.stmt.command = "update"
  BY <1>1, <1>2 DEF Faithful, Narrow, BackupKind
<1>4. WrittenColumns(conf.engine, b.stmt) = b.stmt.cols /\ WrittenColumns("cassandra", b.stmt) = b.stmt.cols
  BY <1>3 DEF Narrow, WrittenColumns
<1>5. BackupColumns(conf.engine, b.stmt) = b.stmt.cols \cup Refreshed(conf.engine)
  BY <1>4 DEF Narrow, Tabular, SqlEngines, BackupColumns, SqlColumns, CassandraColumns, Refreshed
<1> QED BY <1>3, <1>5 DEF Faithful, Narrow

\* Every backup but one learns of what changes.
Noticed(own) ==
    /\ Len(backups') = Len(backups)
    /\ \A i \in 1..Len(backups) :
         /\ Held(backups[i], backups'[i])
         /\ i # own => /\ backups'[i].hit = backups[i].hit
                       /\ backups'[i].touched = backups[i].touched \cup ChangedKeys(rows, rows')

\* What a write means to the backups, told for each.
LEMMA NotedNoticed ==
    ASSUME Booked, NEW own, backups' = Noted(backups, own, ChangedKeys(rows, rows'))
    PROVE  /\ Noticed(own)
           /\ own \in 1..Len(backups) => /\ backups'[own].hit = ChangedKeys(rows, rows')
                                         /\ backups'[own].touched = backups[own].touched
<1>1. Len(backups) \in Nat /\ \A i \in 1..Len(backups) : DOMAIN backups[i] = BookFields
  BY DEF Booked, IsList, IsBook
<1>2. Len(backups') = Len(backups) BY Noting DEF Kept
<1>3. \A i \in 1..Len(backups) :
        backups'[i] = IF i = own THEN [backups[i] EXCEPT !.hit = ChangedKeys(rows, rows')]
                      ELSE [backups[i] EXCEPT !.touched = @ \cup ChangedKeys(rows, rows')]
  BY DEF Noted
<1>4. ASSUME NEW i \in 1..Len(backups), NEW ch
      PROVE  /\ LET d == [backups[i] EXCEPT !.hit = ch]
                IN  Held(backups[i], d) /\ d.hit = ch /\ d.touched = backups[i].touched
             /\ LET d == [backups[i] EXCEPT !.touched = @ \cup ch]
                IN  Held(backups[i], d) /\ d.hit = backups[i].hit
                    /\ d.touched = backups[i].touched \cup ch
  BY <1>1 DEF Held, BookFields
<1>5. \A i \in 1..Len(backups) :
        /\ Held(backups[i], backups'[i])
        /\ i # own => /\ backups'[i].hit = backups[i].hit
                      /\ backups'[i].touched = backups[i].touched \cup ChangedKeys(rows, rows')
        /\ i = own => /\ backups'[i].hit = ChangedKeys(rows, rows')
                      /\ backups'[i].touched = backups[i].touched
  <2> SUFFICES ASSUME NEW i \in 1..Len(backups)
               PROVE  /\ Held(backups[i], backups'[i])
                      /\ i # own => /\ backups'[i].hit = backups[i].hit
                                    /\ backups'[i].touched =
                                         backups[i].touched \cup ChangedKeys(rows, rows')
                      /\ i = own => /\ backups'[i].hit = ChangedKeys(rows, rows')
                                    /\ backups'[i].touched = backups[i].touched
    OBVIOUS
  <2> DEFINE ch == ChangedKeys(rows, rows')
             d == [backups[i] EXCEPT !.hit = ch]
             e == [backups[i] EXCEPT !.touched = @ \cup ch]
  <2>1. CASE i = own
    <3>1. backups'[i] = d BY <1>3, <2>1
    <3> HIDE DEF ch
    <3>2. Held(backups[i], d) /\ d.hit = ch /\ d.touched = backups[i].touched
      BY <1>4
    <3> HIDE DEF d
    <3> QED BY <2>1, <3>1, <3>2 DEF ch
  <2>2. CASE i # own
    <3>1. backups'[i] = e BY <1>3, <2>2
    <3> HIDE DEF ch
    <3>2. Held(backups[i], e) /\ e.hit = backups[i].hit /\ e.touched = backups[i].touched \cup ch
      BY <1>4
    <3> HIDE DEF e
    <3> QED BY <2>2, <3>1, <3>2 DEF ch
  <2> QED BY <2>1, <2>2
<1> QED BY <1>2, <1>5 DEF Noticed

\* What a backup was not told of stayed as it was.
LEMMA NotTouched ==
    ASSUME NEW own, Noticed(own), NEW i \in 1..Len(backups), i # own,
           NEW k \in Key, k \notin backups'[i].touched
    PROVE  rows'[k] = rows[k] /\ k \notin backups[i].touched
  BY DEF Noticed, ChangedKeys

-----------------------------------------------------------------------------
\* A statement runs.

\* The statement of r has run, with one of its outcomes.
Applied(r) ==
    /\ conf' = conf /\ calls[r].pc \in {"run", "stream"}
    /\ calls'[r].pc = "finish" /\ calls'[r].path = calls[r].path /\ calls'[r].intx = calls[r].intx
    /\ \A q \in Req \ {r} : calls'[q] = calls[q]
    /\ \E o \in Outcomes(calls[r]) :
         (o.hit # {} => Unlocked(calls[r])) /\ Apply(calls[r], o)

\* It changes rows only as it sees them, and nothing an open transaction holds.
LEMMA AppliedRows ==
    ASSUME IInv, RowsInv, NEW r \in Req, Applied(r)
    PROVE  /\ rows' \in Table
           /\ Locked /\ ~calls[r].intx => rows' = rows
           /\ conf.engine \in Tabular /\ calls[r].stmt.kind = "update" /\ ~calls[r].stmt.moves =>
                  \A k \in Key : rows[k] # Absent =>
                      Stays(rows, rows', k, calls[r].stmt.cols \cup Refreshed(conf.engine))
<1> DEFINE c == calls[r]
<1>1. c.stmt \in conf.stmts /\ conf \in Confs /\ Typed
  BY UnderWay DEF Applied, Sound, Restores, Proceeds, IInv, RowsInv
<1>2. PICK o \in Outcomes(c) : (o.hit # {} => Unlocked(c)) /\ Apply(c, o) BY DEF Applied
<1>3. rows' = IF o.rows = Seen(c) THEN rows ELSE o.rows BY <1>2 DEF Apply
<1>4. /\ o.rows \in Table
      /\ conf.engine \in SqlEngines /\ o.hit = {} => o.rows = Seen(c)
      /\ conf.engine \in Tabular /\ c.stmt.kind = "update" /\ ~c.stmt.moves =>
             \A k \in Key : Seen(c)[k] # Absent =>
                 Stays(Seen(c), o.rows, k, c.stmt.cols \cup Refreshed(conf.engine))
  BY <1>1, OutcomeFacts
<1>5. Locked /\ ~c.intx => rows' = rows
  BY <1>1, <1>2, <1>3, <1>4 DEF Typed, Unlocked, Locked
<1>6. rows' # rows => Seen(c) = rows BY <1>5 DEF Seen, Committed
<1>7. \A k \in Key : rows[k] # Absent => Stays(rows, rows, k, c.stmt.cols \cup Refreshed(conf.engine))
  BY DEF Stays
<1>8. rows' # rows => rows' = o.rows BY <1>3
<1> QED BY <1>1, <1>3, <1>4, <1>5, <1>6, <1>7, <1>8 DEF Typed

\* The transaction it is inside remembers the rows from before its first write.
LEMMA AppliedTxn ==
    ASSUME IInv, RowsInv, NEW r \in Req, Applied(r)
    PROVE  IF calls[r].intx
           THEN /\ txn # None /\ txn' # None /\ txn' \in Transactions
                /\ txn'.undo = IF txn.wrote THEN txn.undo ELSE rows
           ELSE txn' = txn
<1> DEFINE c == calls[r]
<1>1. CASE ~c.intx BY <1>1 DEF Applied, Apply
<1>2. CASE c.intx
  <2>1. txn # None /\ txn \in Transactions /\ rows \in Table
    BY <1>2 DEF RowsInv, Typed, Busy, Applied
  <2>2. PICK o : Apply(c, o) BY DEF Applied
  <2>3. txn' = [txn EXCEPT !.wrote = @ \/ rows' # rows,
                           !.undo = IF txn.wrote THEN @ ELSE rows,
                           !.aborted = @ \/ (Postgres /\ ~o.ok)]
    BY <1>2, <2>2 DEF Apply
  <2>4. txn' = [undo |-> IF txn.wrote THEN txn.undo ELSE rows,
                wrote |-> txn.wrote \/ rows' # rows,
                aborted |-> txn.aborted \/ (Postgres /\ ~o.ok)]
    BY <2>1, <2>3 DEF Transactions
  <2>5. txn' \in Transactions BY <2>1, <2>4 DEF Transactions
  <2>6. txn'.undo = IF txn.wrote THEN txn.undo ELSE rows BY <2>4
  <2> QED BY <1>2, <2>1, <2>5, <2>6, StatementsAssumption
<1> QED BY <1>1, <1>2

\* The backup it was taken for learns what it changed, the others what was touched.
LEMMA AppliedBackups ==
    ASSUME IInv, RowsInv, NEW r \in Req, Applied(r)
    PROVE  /\ Noticed(calls[r].bid)
           /\ calls[r].bid \in 1..Len(backups) =>
                  /\ backups'[calls[r].bid].hit = ChangedKeys(rows, rows')
                  /\ backups'[calls[r].bid].touched = backups[calls[r].bid].touched
  BY NotedNoticed DEF Applied, Apply, IInv

\* It keeps what is known of the rows.
LEMMA AppliedSteps ==
    ASSUME IInv, RowsInv, NEW r \in Req, Applied(r)
    PROVE  RowsInv'
<1> DEFINE c == calls[r]
           j == c.bid
<1>1. /\ Sound(c) /\ c.path # "restore" /\ Len(backups) \in Nat /\ j \in 0..Len(backups)
      /\ conf \in Confs /\ conf' = conf
  BY UnderWay DEF Applied, Sound, Restores, Proceeds, IInv, Booked, IsList
<1>2. /\ rows' \in Table
      /\ Locked /\ ~c.intx => rows' = rows
      /\ conf.engine \in Tabular /\ c.stmt.kind = "update" /\ ~c.stmt.moves =>
             \A k \in Key : rows[k] # Absent =>
                 Stays(rows, rows', k, c.stmt.cols \cup Refreshed(conf.engine))
  BY AppliedRows
<1>3. /\ Noticed(j)
      /\ j \in 1..Len(backups) => /\ backups'[j].hit = ChangedKeys(rows, rows')
                                  /\ backups'[j].touched = backups[j].touched
  BY AppliedBackups
<1>4. IF c.intx
      THEN /\ txn # None /\ txn' # None /\ txn' \in Transactions
           /\ txn'.undo = IF txn.wrote THEN txn.undo ELSE rows
      ELSE txn' = txn
  BY AppliedTxn
<1>5. Len(backups') = Len(backups) BY <1>3 DEF Noticed
<1>6. j \in 1..Len(backups) => Writes(r, j) BY DEF Writes, Applied
<1>7. \A i \in 1..Len(backups) : \A q \in Req :
        Writes(q, i)' => q # r /\ i # j /\ Writes(q, i) /\ calls'[q] = calls[q]
  <2> SUFFICES ASSUME NEW i \in 1..Len(backups), NEW q \in Req, Writes(q, i)'
               PROVE  q # r /\ i # j /\ Writes(q, i) /\ calls'[q] = calls[q]
    OBVIOUS
  <2>1. q # r BY DEF Writes, Applied
  <2>2. calls'[q] = calls[q] /\ Writes(q, i) BY <2>1 DEF Writes, Applied
  <2>3. Sound(calls[q]) /\ calls[q].path # "restore"
    BY <2>2, UnderWay DEF Writes, Sound, Restores
  <2>4. Made(q, i) BY <2>2, <2>3 DEF Made, Asked, Writes
  <2>5. i = j => Made(r, i) BY <1>1 DEF Made, Asked, Applied
  <2> QED BY <2>1, <2>2, <2>4, <2>5 DEF IInv, Distinct
<1>8. \A q \in Req : Undoes(calls[q])' => q # r /\ Undoes(calls[q]) /\ calls'[q] = calls[q]
  BY <1>1 DEF Undoes, Applied
<1>9. Typed'
  <2>1. txn' # None => conf'.engine \in SqlEngines /\ txn' \in Transactions
    BY <1>1, <1>4 DEF RowsInv, Typed
  <2>2. \A q \in Req : Busy(q)' /\ calls'[q].intx => txn' # None
    BY <1>4 DEF RowsInv, Typed, Busy, Applied
  <2>3. \A i \in 1..Len(backups') : Faithful(backups[i])'
    BY <1>1, <1>3, <1>5 DEF RowsInv, Typed, Noticed, Held, Faithful
  <2> QED BY <1>2, <2>1, <2>2, <2>3 DEF Typed
<1>10. Unwritten'
  BY <1>3, <1>5, <1>7 DEF RowsInv, Unwritten, Awaited, Noticed, Held
<1>11. Undoing'
  <2> SUFFICES ASSUME NEW q \in Req, Undoes(calls[q])' PROVE UndoesAll(q)'
    BY DEF Undoing
  <2>1. calls'[q] = calls[q] /\ UndoesAll(q) BY <1>8 DEF RowsInv, Undoing
  <2>2. Held(backups[calls[q].bid], backups'[calls[q].bid])
    BY <1>3, <2>1 DEF UndoesAll, Noticed
  <2> QED BY <1>1, <1>5, <1>7, <2>1, <2>2 DEF UndoesAll, Held
<1>12. Standing'
  <2> SUFFICES ASSUME NEW i \in 1..Len(backups), Narrow(backups[i])', Counts(i)',
                      NEW k \in backups'[i].keys \ backups'[i].touched
               PROVE  Stays(backups'[i].before, rows', k, backups'[i].cols)
    BY <1>5 DEF Standing, Stays
  <2>1. Held(backups[i], backups'[i]) /\ Faithful(backups[i])
    BY <1>3 DEF Noticed, RowsInv, Typed
  <2>2. Narrow(backups[i]) /\ k \in backups[i].keys /\ k \in Key
    BY <1>1, <2>1 DEF Narrow, Held, Faithful
  <2>3. CASE i # j
    <3>1. rows'[k] = rows[k] /\ k \notin backups[i].touched BY <1>3, <2>2, <2>3, NotTouched
    <3>2. Counts(i) BY <1>3, <1>7, <2>3 DEF Counts, Noticed
    <3>3. Stays(backups[i].before, rows, k, backups[i].cols)
      BY <2>2, <3>1, <3>2 DEF RowsInv, Standing
    <3> QED BY <2>1, <3>1, <3>3 DEF Held, Stays
  <2>4. CASE i = j
    <3>1. Counts(i) BY <1>6, <2>4 DEF Counts
    <3>2. Stays(backups[i].before, rows, k, backups[i].cols)
      BY <1>3, <2>2, <2>4, <3>1 DEF RowsInv, Standing
    <3>3. backups[i].stmt = c.stmt BY <1>6, <2>4 DEF RowsInv, Unwritten, Awaited
    <3>4. /\ backups[i].cols = c.stmt.cols \cup Refreshed(conf.engine)
          /\ c.stmt.kind = "update" /\ ~c.stmt.moves /\ conf.engine \in Tabular
      BY <1>1, <2>1, <2>2, <3>3, NarrowColumns DEF Narrow
    <3>5. Stays(rows, rows', k, backups[i].cols) BY <1>2, <2>2, <3>2, <3>4 DEF Stays
    <3> QED BY <2>1, <3>2, <3>5 DEF Held, Stays
  <2> QED BY <2>3, <2>4
<1>13. Pending'
  <2> SUFFICES ASSUME NEW i \in 1..Len(backups), Locked', ~backups'[i].open,
                      NEW k \in Key \ backups'[i].touched
               PROVE  rows'[k] = txn'.undo[k]
    BY <1>5 DEF Pending
  <2>1. Held(backups[i], backups'[i]) BY <1>3 DEF Noticed
  <2>2. CASE c.intx
    <3>1. i # j BY <1>6, <2>1, <2>2 DEF RowsInv, Unwritten, Awaited, Held
    <3>2. rows'[k] = rows[k] /\ k \notin backups[i].touched BY <1>3, <3>1, NotTouched
    <3> QED BY <1>4, <2>1, <2>2, <3>2 DEF RowsInv, Pending, Held, Locked
  <2>3. CASE ~c.intx
    <3>1. Locked /\ txn' = txn /\ rows' = rows BY <1>2, <1>4, <2>3 DEF Locked
    <3>2. k \notin backups[i].touched BY <1>3 DEF Noticed
    <3> QED BY <2>1, <3>1, <3>2 DEF RowsInv, Pending, Held
  <2> QED BY <2>2, <2>3
<1>14. Partial'
  <2> SUFFICES ASSUME NEW q \in Req, Undoes(calls[q])', calls'[q].reached,
                      backups'[calls'[q].bid].hit # {},
                      NEW k \in backups'[calls'[q].bid].keys
                                  \ (calls'[q].todo \cup backups'[calls'[q].bid].touched)
               PROVE  rows'[k] = backups'[calls'[q].bid].before[k]
    BY DEF Partial
  <2> DEFINE i == calls[q].bid
  <2>1. calls'[q] = calls[q] /\ Undoes(calls[q]) /\ UndoesAll(q)
    BY <1>8 DEF RowsInv, Undoing
  <2>2. i \in 1..Len(backups) /\ i # j BY <1>6, <2>1 DEF UndoesAll
  <2>3. Held(backups[i], backups'[i]) /\ backups'[i].hit = backups[i].hit
    BY <1>3, <2>2 DEF Noticed
  <2>4. k \in Key BY <2>1, <2>2, <2>3 DEF RowsInv, Typed, Faithful, Held
  <2>5. rows'[k] = rows[k] /\ k \notin backups[i].touched
    BY <1>3, <2>1, <2>2, <2>4, NotTouched
  <2> QED BY <2>1, <2>3, <2>5 DEF RowsInv, Partial, Held
<1> QED BY <1>9, <1>10, <1>11, <1>12, <1>13, <1>14 DEF RowsInv

-----------------------------------------------------------------------------
\* A backup is put back, or a part of it.

\* The backup of an UPDATE of columns is laid over the rows that are there.
Overlays(b) == conf.engine \in Tabular /\ b.kind = "update"

\* Any other backup puts whole rows back.
PutBack(b, ks) == IF Overlays(b) THEN Overlay(rows, b, ks) ELSE Reinsert(rows, b, ks)

\* A backup of all the columns.
LEMMA WideColumns ==
    ASSUME NEW b, Faithful(b), Overlays(b), ~Narrow(b)
    PROVE  Columns \subseteq b.cols
<1>1. ~b.stmt.listed \/ b.stmt.moves BY DEF Overlays, Narrow
<1>2. WrittenColumns(conf.engine, b.stmt) = Columns /\ WrittenColumns("cassandra", b.stmt) = Columns
  BY <1>1 DEF WrittenColumns
<1> QED BY <1>2 DEF Overlays, Tabular, SqlEngines, BackupColumns, SqlColumns, CassandraColumns, Faithful

\* What an overlay makes of a row.
Overlaid(b, k) ==
    [c \in Columns |-> IF c \in b.puts THEN b.before[k][c]
                       ELSE IF rows[k] = Absent THEN 0 ELSE rows[k][c]]

\* It is a row.
LEMMA OverlaidRow ==
    ASSUME rows \in Table, NEW b, Faithful(b), Overlays(b), NEW k \in b.keys
    PROVE  Overlaid(b, k) \in Row
<1>1. b.before[k] \in Row /\ rows[k] \in Row \cup {Absent}
  BY DEF Faithful, Overlays, Table
<1>2. \A c \in Columns : (IF c \in b.puts THEN b.before[k][c]
                          ELSE IF rows[k] = Absent THEN 0 ELSE rows[k][c]) \in 0..1
  BY <1>1 DEF Row
<1> QED BY <1>2 DEF Overlaid, Row

\* Putting keys back touches no other row.
LEMMA PutBackRows ==
    ASSUME rows \in Table, NEW b, Faithful(b), NEW ks \in SUBSET b.keys
    PROVE  /\ PutBack(b, ks) \in Table
           /\ \A k \in Key \ ks : PutBack(b, ks)[k] = rows[k]
           /\ ~Overlays(b) => \A k \in ks : PutBack(b, ks)[k] = b.before[k]
           /\ Overlays(b) => \A k \in ks : PutBack(b, ks)[k] = Overlaid(b, k)
<1>1. b.keys \subseteq Key BY DEF Faithful
<1>2. CASE Overlays(b)
  <2>1. PutBack(b, ks) = [k \in Key |-> IF k \notin ks THEN rows[k] ELSE Overlaid(b, k)]
    BY <1>2 DEF PutBack, Overlay, Overlaid
  <2>2. \A k \in ks : Overlaid(b, k) \in Row BY <1>2, OverlaidRow
  <2> QED BY <1>1, <1>2, <2>1, <2>2 DEF Table
<1>3. CASE ~Overlays(b)
  <2>1. PutBack(b, ks) = [k \in Key |-> IF k \in ks THEN b.before[k] ELSE rows[k]]
    BY <1>3 DEF PutBack, Reinsert
  <2>2. \A k \in ks : b.before[k] \in Row \cup {Absent} BY DEF Faithful
  <2> QED BY <1>1, <1>3, <2>1, <2>2 DEF Table
<1> QED BY <1>2, <1>3

\* A row that is as backup b holds it, the identity columns of an UPDATE apart.
PutRight(b, k, row) ==
    IF b.kind = "delete" \/ conf.idents = {} THEN row = b.before[k]
    ELSE row # Absent /\ \A col \in Columns \ conf.idents : row[col] = b.before[k][col]

\* Only SQL tables have such columns.
LEMMA IdentityColumns ==
    ASSUME conf \in Confs
    PROVE  conf.idents # {} => conf.engine \in SqlEngines
  BY StatementsAssumption

\* Where what it leaves out is as it was, the row is as it was.
LEMMA PutBackUndoes ==
    ASSUME conf \in Confs, rows \in Table, NEW b, Faithful(b), NEW ks \in SUBSET b.keys,
           NEW k \in ks, Narrow(b) => Stays(b.before, rows, k, b.cols)
    PROVE  PutRight(b, k, PutBack(b, ks)[k])
<1>1. CASE ~Overlays(b)
  <2>1. b.kind \in {"delete", "update"} BY DEF Faithful, BackupKind
  <2>2. b.kind = "delete" \/ conf.idents = {}
    BY <1>1, <2>1, IdentityColumns DEF Overlays, Tabular
  <2> QED BY <1>1, <2>2, PutBackRows DEF PutRight
<1>2. CASE Overlays(b)
  <2>1. b.before[k] \in Row BY <1>2 DEF Faithful, Overlays
  <2>2. \A c \in Columns \ conf.idents : Overlaid(b, k)[c] = b.before[k][c]
    <3> SUFFICES ASSUME NEW c \in Columns \ conf.idents
                 PROVE  Overlaid(b, k)[c] = b.before[k][c]
      OBVIOUS
    <3>1. CASE c \in b.puts BY <3>1 DEF Overlaid
    <3>2. CASE c \notin b.puts
      <4>1. c \notin b.cols BY <3>2 DEF Faithful
      <4>2. Stays(b.before, rows, k, b.cols) BY <1>2, <4>1, WideColumns
      <4> QED BY <3>2, <4>1, <4>2 DEF Overlaid, Stays
    <3> QED BY <3>1, <3>2
  <2>3. Overlaid(b, k) \in Row BY <1>2, OverlaidRow
  <2>4. conf.idents = {} => Overlaid(b, k) = b.before[k] BY <2>1, <2>2, <2>3 DEF Row
  <2>5. PutBack(b, ks)[k] = Overlaid(b, k) BY <1>2, PutBackRows
  <2>6. b.kind # "delete" BY <1>2 DEF Overlays
  <2> QED BY <2>2, <2>3, <2>4, <2>5, <2>6, RowBackupAssumption DEF PutRight
<1> QED BY <1>1, <1>2

\* The rows of an UPDATE stay, with what it leaves out.
LEMMA PutBackStays ==
    ASSUME rows \in Table, NEW b, Faithful(b), Overlays(b), NEW ks \in SUBSET b.keys,
           NEW k \in Key, rows[k] # Absent
    PROVE  Stays(rows, PutBack(b, ks), k, b.cols)
<1>1. CASE k \in ks
  <2>1. PutBack(b, ks)[k] = Overlaid(b, k) BY <1>1, PutBackRows
  <2>2. Overlaid(b, k) # Absent BY <1>1, OverlaidRow, RowBackupAssumption
  <2>3. \A col \in Columns \ b.cols : Overlaid(b, k)[col] = rows[k][col]
    BY DEF Overlaid, Faithful
  <2> QED BY <2>1, <2>2, <2>3 DEF Stays
<1>2. CASE k \notin ks
  BY <1>2, PutBackRows DEF Stays
<1> QED BY <1>1, <1>2

\* A step of the restore of r, over the keys ks.
Puts(r, ks) ==
    /\ conf' = conf /\ txn' = txn /\ ~Locked
    /\ calls[r].pc = "restore" /\ calls'[r].pc \in {"restore", "answered"}
    /\ calls'[r].path = calls[r].path /\ calls'[r].bid = calls[r].bid
    /\ calls'[r].reached = calls[r].reached /\ calls'[r].intx = calls[r].intx
    /\ \A q \in Req \ {r} : calls'[q] = calls[q]
    /\ ks \subseteq calls[r].todo
    /\ rows' = rows \/ rows' = PutBack(backups[calls[r].bid], ks)
    /\ conf.engine \in SqlEngines /\ rows' # rows =>
           LET b == backups[calls[r].bid]
           IN  ks = b.keys /\ (Overlays(b) => b.keys \subseteq Present(rows))
    /\ calls'[r].pc = "restore" =>
           /\ conf.engine \notin SqlEngines /\ calls'[r].todo = calls[r].todo \ ks
           /\ rows' = PutBack(backups[calls[r].bid], ks)
    /\ calls'[r].pc = "answered" /\ calls'[r].out \in {"ok", "nothing"} =>
           calls[r].todo \subseteq ks /\ rows' = PutBack(backups[calls[r].bid], ks)
    /\ backups' = [Noted(backups, 0, ChangedKeys(rows, rows'))
                     EXCEPT ![calls[r].bid] = backups[calls[r].bid]]

\* Its own backup learns nothing.
LEMMA PutsNoticed ==
    ASSUME Booked, NEW own \in 1..Len(backups),
           backups' = [Noted(backups, 0, ChangedKeys(rows, rows')) EXCEPT ![own] = backups[own]]
    PROVE  Noticed(own) /\ backups'[own] = backups[own]
<1> DEFINE noted == Noted(backups, 0, ChangedKeys(rows, rows'))
<1>1. Len(backups) \in Nat /\ \A i \in 1..Len(backups) : DOMAIN backups[i] = BookFields
  BY DEF Booked, IsList, IsBook
<1>2. /\ noted = [i \in 1..Len(backups) |-> noted[i]]
      /\ \A i \in 1..Len(backups) :
           noted[i] = [backups[i] EXCEPT !.touched = @ \cup ChangedKeys(rows, rows')]
  BY <1>1 DEF Noted
<1> HIDE DEF noted
<1>3. backups' = [noted EXCEPT ![own] = backups[own]] BY DEF noted
<1>4. backups'[own] = backups[own] /\ \A i \in 1..Len(backups) : i # own => backups'[i] = noted[i]
  BY <1>2, <1>3
<1>5. Len(backups') = Len(backups)
  <2>1. backups' = [i \in 1..Len(backups) |-> backups'[i]] BY <1>2, <1>3
  <2> QED BY <1>1, <2>1, Listed
<1>6. ASSUME NEW i \in 1..Len(backups), i # own
      PROVE  /\ Held(backups[i], backups'[i]) /\ backups'[i].hit = backups[i].hit
             /\ backups'[i].touched = backups[i].touched \cup ChangedKeys(rows, rows')
  <2>1. backups'[i] = [backups[i] EXCEPT !.touched = @ \cup ChangedKeys(rows, rows')]
    BY <1>2, <1>4, <1>6
  <2> QED BY <1>1, <2>1 DEF Held, BookFields
<1>7. Held(backups[own], backups'[own]) BY <1>4 DEF Held
<1> QED BY <1>4, <1>5, <1>6, <1>7 DEF Noticed

\* It keeps what is known of the rows: its part is back, and others learn of it.
LEMMA PutsSteps ==
    ASSUME IInv, RowsInv, NEW r \in Req, NEW ks, Puts(r, ks)
    PROVE  RowsInv'
<1> DEFINE c == calls[r]
           j == c.bid
           b == backups[j]
           u == PutBack(b, ks)
<1>1. /\ Undoes(c) /\ UndoesAll(r) /\ conf \in Confs /\ Len(backups) \in Nat /\ Booked
  BY UnderWay DEF Puts, Sound, Proceeds, Undoes, RowsInv, Undoing, IInv, Booked, IsList
<1>2. j \in 1..Len(backups) /\ Faithful(b) /\ ks \in SUBSET b.keys /\ rows \in Table
  BY <1>1 DEF UndoesAll, RowsInv, Typed, Puts
<1>3. Noticed(j) /\ backups'[j] = b BY <1>1, <1>2, PutsNoticed DEF Puts
<1>4. /\ Len(backups') = Len(backups) /\ conf' = conf /\ txn' = txn /\ ~Locked
      /\ rows' \in {rows, u} /\ calls'[r].bid = j
  BY <1>3 DEF Noticed, Puts
<1>5. u \in Table /\ \A k \in Key \ ks : u[k] = rows[k] BY <1>2, PutBackRows
<1>6. conf.engine \notin SqlEngines =>
        \A k \in ks : (Narrow(b) => Stays(b.before, rows, k, b.cols)) => u[k] = b.before[k]
  BY <1>1, <1>2, PutBackUndoes, IdentityColumns DEF PutRight
<1>7. Overlays(b) => \A k \in Key : rows[k] # Absent => Stays(rows, u, k, b.cols)
  BY <1>2, PutBackStays
<1> HIDE DEF u
<1>8. \A i \in 1..Len(backups) : \A q \in Req :
        Writes(q, i)' => Writes(q, i) /\ calls'[q] = calls[q]
  BY DEF Writes, Puts
<1>9. \A q \in Req : Undoes(calls[q])' => Undoes(calls[q]) /\ UndoesAll(q)
  BY <1>1 DEF Undoes, Puts, RowsInv, Undoing
<1>10. Typed'
  <2>1. \A q \in Req : Busy(q)' /\ calls'[q].intx => txn' # None
    BY DEF RowsInv, Typed, Busy, Puts
  <2>2. \A i \in 1..Len(backups') : Faithful(backups[i])'
    BY <1>3, <1>4 DEF RowsInv, Typed, Noticed, Held, Faithful
  <2> QED BY <1>2, <1>4, <1>5, <2>1, <2>2 DEF RowsInv, Typed
<1>11. Unwritten'
  BY <1>3, <1>4, <1>8 DEF RowsInv, Unwritten, Awaited, Noticed, Held
<1>12. Undoing'
  <2> SUFFICES ASSUME NEW q \in Req, Undoes(calls[q])' PROVE UndoesAll(q)'
    BY DEF Undoing
  <2>1. UndoesAll(q) /\ calls'[q].bid = calls[q].bid /\ calls'[q].reached = calls[q].reached
    BY <1>9 DEF Puts
  <2>2. Held(backups[calls[q].bid], backups'[calls[q].bid])
    BY <1>3, <2>1 DEF UndoesAll, Noticed
  <2>3. CASE q # r
    <3>1. calls'[q] = calls[q] BY <2>3 DEF Puts
    <3> QED BY <1>4, <1>8, <2>1, <2>2, <3>1 DEF UndoesAll, Held
  <2>4. CASE q = r
    <3>1. conf.engine \notin SqlEngines /\ calls'[q].todo = calls[q].todo \ ks
      BY <2>4 DEF Puts, Undoes
    <3> QED BY <1>4, <1>8, <2>1, <2>2, <3>1 DEF UndoesAll, Held
  <2> QED BY <2>3, <2>4
<1>13. Standing'
  <2> SUFFICES ASSUME NEW i \in 1..Len(backups), Narrow(backups[i])', Counts(i)',
                      NEW k \in backups'[i].keys \ backups'[i].touched
               PROVE  Stays(backups'[i].before, rows', k, backups'[i].cols)
    BY <1>4 DEF Standing, Stays
  <2>1. Held(backups[i], backups'[i]) /\ Faithful(backups[i])
    BY <1>3 DEF Noticed, RowsInv, Typed
  <2>2. Narrow(backups[i]) /\ k \in backups[i].keys /\ k \in Key
    BY <1>4, <2>1 DEF Narrow, Held, Faithful
  <2>3. backups'[i].hit = backups[i].hit BY <1>3 DEF Noticed
  <2>4. Counts(i) BY <1>8, <2>3 DEF Counts
  <2>5. CASE i # j
    <3>1. rows'[k] = rows[k] /\ k \notin backups[i].touched BY <1>3, <2>2, <2>5, NotTouched
    <3>2. Stays(backups[i].before, rows, k, backups[i].cols)
      BY <2>2, <2>4, <3>1 DEF RowsInv, Standing
    <3> QED BY <2>1, <3>1, <3>2 DEF Held, Stays
  <2>6. CASE i = j
    <3>1. Stays(b.before, rows, k, b.cols)
      BY <1>3, <2>2, <2>4, <2>6 DEF RowsInv, Standing
    <3>2. Overlays(b) BY <2>2, <2>6 DEF Narrow, Overlays
    <3>3. Stays(rows, rows', k, b.cols) BY <1>4, <1>7, <2>2, <3>1, <3>2 DEF Stays
    <3> QED BY <1>3, <2>6, <3>1, <3>3 DEF Stays
  <2> QED BY <2>5, <2>6
<1>14. Pending' BY <1>4 DEF Pending, Locked
<1>15. Partial'
  <2> SUFFICES ASSUME NEW q \in Req, Undoes(calls[q])', calls'[q].reached,
                      backups'[calls'[q].bid].hit # {},
                      NEW k \in backups'[calls'[q].bid].keys
                                  \ (calls'[q].todo \cup backups'[calls'[q].bid].touched)
               PROVE  rows'[k] = backups'[calls'[q].bid].before[k]
    BY DEF Partial
  <2> DEFINE i == calls[q].bid
  <2>1. /\ Undoes(calls[q]) /\ UndoesAll(q) /\ calls'[q].bid = i /\ calls[q].reached
        /\ i \in 1..Len(backups)
    BY <1>9 DEF Puts, UndoesAll
  <2>2. Held(backups[i], backups'[i]) /\ backups'[i].hit = backups[i].hit
    BY <1>3, <2>1 DEF Noticed
  <2>3. k \in Key /\ k \in backups[i].keys
    BY <2>1, <2>2 DEF RowsInv, Typed, Faithful, Held
  <2>4. CASE i # j
    <3>1. q # r BY <2>4
    <3>2. rows'[k] = rows[k] /\ k \notin backups[i].touched
      BY <1>3, <2>1, <2>3, <2>4, NotTouched
    <3>3. calls'[q] = calls[q] BY <3>1 DEF Puts
    <3> QED BY <2>1, <2>2, <3>2, <3>3 DEF RowsInv, Partial, Held
  <2>6. conf.engine \notin SqlEngines BY <1>4, <1>12 DEF Undoing, UndoesAll
  <2>5. CASE i = j
    <3>1. k \in b.keys \ b.touched /\ b.hit # {} BY <1>3, <2>1, <2>5
    <3>2. Narrow(b) => Stays(b.before, rows, k, b.cols)
      BY <1>2, <3>1 DEF RowsInv, Standing, Counts
    <3>3. k \in ks => u[k] = b.before[k] BY <1>6, <2>6, <3>2
    <3>4. k \notin calls[q].todo => rows[k] = b.before[k]
      BY <2>1, <2>5, <3>1 DEF RowsInv, Partial
    <3>5. CASE q = r
      <4>1. calls'[r].todo = c.todo \ ks /\ rows' = u BY <3>5 DEF Puts, Undoes, u
      <4> QED BY <1>3, <1>5, <2>1, <2>3, <2>5, <3>3, <3>4, <3>5, <4>1
    <3>6. CASE q # r
      <4>1. k \notin calls[q].todo BY <3>6 DEF Puts
      <4> QED BY <1>3, <1>4, <1>5, <2>1, <2>3, <2>5, <3>3, <3>4, <4>1
    <3> QED BY <3>5, <3>6
  <2> QED BY <2>4, <2>5
<1> QED BY <1>10, <1>11, <1>12, <1>13, <1>14, <1>15 DEF RowsInv

-----------------------------------------------------------------------------
\* Another client writes.
LEMMA EditSteps ==
    ASSUME IInv, RowsInv, Edit
    PROVE  RowsInv'
<1>1. /\ conf' = conf /\ txn' = txn /\ calls' = calls /\ ~Locked /\ Len(backups) \in Nat
      /\ backups' = Noted(backups, 0, ChangedKeys(rows, rows'))
  BY DEF Edit, IInv, Booked, IsList
<1>2. Noticed(0) BY <1>1, NotedNoticed DEF IInv
<1>3. rows' \in Table
  <2>1. rows \in Table BY DEF RowsInv, Typed
  <2>2. PICK k \in Key :
          \/ rows[k] # Absent /\ \E c \in {"a", "b"} : rows' = [rows EXCEPT ![k][c] = 1 - @]
          \/ rows[k] = Absent /\ rows' = [rows EXCEPT ![k] = Fresh]
          \/ rows[k] # Absent /\ rows' = [rows EXCEPT ![k] = Absent]
    BY DEF Edit
  <2>3. ASSUME rows[k] # Absent, NEW c \in {"a", "b"}, rows' = [rows EXCEPT ![k][c] = 1 - @]
        PROVE  rows' \in Table
    <3> DEFINE row == [rows[k] EXCEPT ![c] = 1 - @]
    <3>1. rows[k] \in [Columns -> 0..1] /\ c \in Columns BY <2>1, <2>3 DEF Table, Row, Columns
    <3>2. rows[k][c] \in 0..1 BY <3>1
    <3>3. 1 - rows[k][c] \in 0..1 BY <3>2
    <3>4. row \in Row BY <3>1, <3>3 DEF Row
    <3>5. rows' = [rows EXCEPT ![k] = row] BY <2>3
    <3> HIDE DEF row
    <3> QED BY <2>1, <3>4, <3>5 DEF Table
  <2>4. CASE rows' = [rows EXCEPT ![k] = Fresh] BY <2>1, <2>4, FreshRow DEF Table
  <2>5. CASE rows' = [rows EXCEPT ![k] = Absent] BY <2>1, <2>5 DEF Table
  <2> QED BY <2>2, <2>3, <2>4, <2>5
<1>4. /\ Len(backups') = Len(backups)
      /\ \A i \in 1..Len(backups) : Held(backups[i], backups'[i]) /\ backups'[i].hit = backups[i].hit
      /\ \A i \in 1..Len(backups) : \A k \in Key \ backups'[i].touched :
           rows'[k] = rows[k] /\ k \notin backups[i].touched
  <2>1. \A i \in 1..Len(backups) : i # 0 OBVIOUS
  <2>2. ASSUME NEW i \in 1..Len(backups), NEW k \in Key \ backups'[i].touched
        PROVE  rows'[k] = rows[k] /\ k \notin backups[i].touched
    BY <1>2, <2>1, NotTouched
  <2> QED BY <1>2, <2>1, <2>2 DEF Noticed
<1>5. Typed'
  <2>1. \A i \in 1..Len(backups') : Faithful(backups[i])'
    BY <1>1, <1>4 DEF RowsInv, Typed, Held, Faithful
  <2> QED BY <1>1, <1>3, <2>1 DEF RowsInv, Typed, Busy
<1>6. Unwritten' BY <1>1, <1>4 DEF RowsInv, Unwritten, Awaited, Held, Writes
<1>7. Undoing' BY <1>1, <1>4 DEF RowsInv, Undoing, UndoesAll, Undoes, Held, Writes
<1>8. Standing'
  <2> SUFFICES ASSUME NEW i \in 1..Len(backups), Narrow(backups[i])', Counts(i)',
                      NEW k \in backups'[i].keys \ backups'[i].touched
               PROVE  Stays(backups'[i].before, rows', k, backups'[i].cols)
    BY <1>4 DEF Standing, Stays
  <2>1. Held(backups[i], backups'[i]) /\ Faithful(backups[i]) BY <1>4 DEF RowsInv, Typed
  <2>2. Narrow(backups[i]) /\ k \in backups[i].keys /\ k \in Key
    BY <1>1, <2>1 DEF Narrow, Held, Faithful
  <2>3. Counts(i) BY <1>1, <1>4 DEF Counts, Writes
  <2>4. rows'[k] = rows[k] /\ k \notin backups[i].touched BY <1>4, <2>2
  <2>5. Stays(backups[i].before, rows, k, backups[i].cols)
    BY <2>2, <2>3, <2>4 DEF RowsInv, Standing
  <2> QED BY <2>1, <2>4, <2>5 DEF Held, Stays
<1>9. Pending' BY <1>1 DEF Pending, Locked
<1>10. Partial'
  <2> SUFFICES ASSUME NEW q \in Req, Undoes(calls[q])', calls'[q].reached,
                      backups'[calls'[q].bid].hit # {},
                      NEW k \in backups'[calls'[q].bid].keys
                                  \ (calls'[q].todo \cup backups'[calls'[q].bid].touched)
               PROVE  rows'[k] = backups'[calls'[q].bid].before[k]
    BY DEF Partial
  <2> DEFINE i == calls[q].bid
  <2>1. Undoes(calls[q]) /\ i \in 1..Len(backups) /\ calls'[q] = calls[q]
    BY <1>1 DEF RowsInv, Undoing, UndoesAll, Undoes
  <2>2. Held(backups[i], backups'[i]) /\ backups'[i].hit = backups[i].hit BY <1>4, <2>1
  <2>3. k \in Key /\ k \in backups[i].keys
    BY <2>1, <2>2 DEF RowsInv, Typed, Faithful, Held
  <2>4. rows'[k] = rows[k] /\ k \notin backups[i].touched BY <1>4, <2>1, <2>3
  <2> QED BY <2>1, <2>2, <2>3, <2>4 DEF RowsInv, Partial, Held
<1> QED BY <1>5, <1>6, <1>7, <1>8, <1>9, <1>10 DEF RowsInv

-----------------------------------------------------------------------------
\* The transaction ends, or the process does.

\* A backup taken outside it keeps what it knows.  One taken inside it is
\* closed, and the write it was taken for stands or is undone.
Closed(b, d) ==
    /\ d.engine = b.engine /\ d.kind = b.kind /\ d.keys = b.keys /\ d.cols = b.cols
    /\ d.puts = b.puts /\ d.before = b.before /\ d.stmt = b.stmt /\ d.touched = b.touched
    /\ ~d.open /\ d.hit \in {b.hit, {}}

\* Calls are outside it, and what it takes back of the rows is what only its own
\* backups know of.
TxnEnds ==
    /\ conf' = conf /\ txn' = None /\ Len(backups') = Len(backups) /\ rows' \in Table
    /\ \A q \in Req : calls'[q].pc # "idle" => calls'[q] = calls[q]
    /\ \A q \in Req : Busy(q)' => ~calls'[q].intx
    /\ \A i \in 1..Len(backups) :
         /\ Closed(backups[i], backups'[i])
         /\ backups'[i].hit # {} \/ ~backups[i].open =>
              \A k \in Key \ backups[i].touched : rows'[k] = rows[k]

\* Such an end keeps what is known of the rows.
LEMMA TxnEndsSteps ==
    ASSUME RowsInv, TxnEnds
    PROVE  RowsInv'
<1>1. \A i \in 1..Len(backups) : \A q \in Req :
        Writes(q, i)' => Writes(q, i) /\ calls'[q] = calls[q] /\ ~calls[q].intx /\ ~backups[i].open
  <2> SUFFICES ASSUME NEW i \in 1..Len(backups), NEW q \in Req, Writes(q, i)'
               PROVE  Writes(q, i) /\ calls'[q] = calls[q] /\ ~calls[q].intx /\ ~backups[i].open
    OBVIOUS
  <2>1. calls'[q] = calls[q] /\ Busy(q)' BY DEF Writes, Busy, TxnEnds
  <2>2. Writes(q, i) /\ ~calls[q].intx BY <2>1 DEF Writes, TxnEnds
  <2> QED BY <2>1, <2>2 DEF RowsInv, Unwritten, Awaited
<1>2. \A q \in Req : Undoes(calls[q])' => calls'[q] = calls[q] /\ Undoes(calls[q]) /\ UndoesAll(q)
  BY DEF Undoes, TxnEnds, RowsInv, Undoing
<1>3. Typed'
  <2>1. \A i \in 1..Len(backups') : Faithful(backups[i])'
    BY DEF RowsInv, Typed, TxnEnds, Closed, Faithful
  <2> QED BY <2>1 DEF RowsInv, Typed, TxnEnds
<1>4. Unwritten'
  BY <1>1 DEF RowsInv, Unwritten, Awaited, TxnEnds, Closed
<1>5. Undoing'
  <2> SUFFICES ASSUME NEW q \in Req, Undoes(calls[q])' PROVE UndoesAll(q)'
    BY DEF Undoing
  <2>1. calls'[q] = calls[q] /\ UndoesAll(q) BY <1>2
  <2>2. Closed(backups[calls[q].bid], backups'[calls[q].bid]) BY <2>1 DEF UndoesAll, TxnEnds
  <2> QED BY <1>1, <2>1, <2>2 DEF UndoesAll, Closed, TxnEnds
<1>6. Standing'
  <2> SUFFICES ASSUME NEW i \in 1..Len(backups), Narrow(backups[i])', Counts(i)',
                      NEW k \in backups'[i].keys \ backups'[i].touched
               PROVE  Stays(backups'[i].before, rows', k, backups'[i].cols)
    BY DEF Standing, Stays, TxnEnds
  <2>1. Closed(backups[i], backups'[i]) /\ Faithful(backups[i])
    BY DEF TxnEnds, RowsInv, Typed
  <2>2. Narrow(backups[i]) /\ k \in backups[i].keys /\ k \in Key /\ k \notin backups[i].touched
    BY <2>1 DEF Narrow, Closed, Faithful, TxnEnds
  <2>3. Counts(i) BY <1>1, <2>1 DEF Counts, Closed
  <2>4. rows'[k] = rows[k] BY <1>1, <2>2 DEF Counts, TxnEnds
  <2>5. Stays(backups[i].before, rows, k, backups[i].cols)
    BY <2>2, <2>3 DEF RowsInv, Standing
  <2> QED BY <2>1, <2>4, <2>5 DEF Closed, Stays
<1>7. Pending' BY DEF Pending, Locked, TxnEnds
<1>8. Partial'
  <2> SUFFICES ASSUME NEW q \in Req, Undoes(calls[q])', calls'[q].reached,
                      backups'[calls'[q].bid].hit # {},
                      NEW k \in backups'[calls'[q].bid].keys
                                  \ (calls'[q].todo \cup backups'[calls'[q].bid].touched)
               PROVE  rows'[k] = backups'[calls'[q].bid].before[k]
    BY DEF Partial
  <2> DEFINE i == calls[q].bid
  <2>1. calls'[q] = calls[q] /\ Undoes(calls[q]) /\ i \in 1..Len(backups) BY <1>2 DEF UndoesAll
  <2>2. Closed(backups[i], backups'[i]) BY <2>1 DEF TxnEnds
  <2>3. k \in Key /\ k \in backups[i].keys /\ k \notin backups[i].touched
    BY <2>1, <2>2 DEF RowsInv, Typed, Faithful, Closed
  <2>4. rows'[k] = rows[k] BY <2>1, <2>3 DEF TxnEnds
  <2> QED BY <2>1, <2>2, <2>3, <2>4 DEF RowsInv, Partial, Closed
<1> QED BY <1>3, <1>4, <1>5, <1>6, <1>7, <1>8 DEF RowsInv

\* What an undone transaction takes back is what it wrote.
LEMMA UndoneRows ==
    ASSUME RowsInv, txn # None, Undone
    PROVE  /\ rows' \in Table
           /\ \A i \in 1..Len(backups) : ~backups[i].open =>
                \A k \in Key \ backups[i].touched : rows'[k] = rows[k]
  BY DEF RowsInv, Typed, Transactions, Undone, Pending, Locked

\* It closes its backups, and says that their writes did not take place.
LEMMA UndoneCloses ==
    ASSUME Booked, Undone
    PROVE  /\ Len(backups') = Len(backups)
           /\ \A i \in 1..Len(backups) :
                Closed(backups[i], backups'[i]) /\ (backups[i].open => backups'[i].hit = {})
<1>1. Len(backups') = Len(backups) BY Closing DEF Kept
<1>2. \A i \in 1..Len(backups) : DOMAIN backups[i] = BookFields BY DEF Booked, IsBook
<1>3. \A i \in 1..Len(backups) :
        backups'[i] = IF backups[i].open THEN [backups[i] EXCEPT !.open = FALSE, !.hit = {}]
                      ELSE backups[i]
  BY DEF Undone
<1> QED BY <1>1, <1>2, <1>3 DEF Closed, BookFields

\* A commit, a rollback and a crash end it.
LEMMA Ending ==
    ASSUME IInv, RowsInv, Commit \/ Rollback \/ Crash
    PROVE  RowsInv'
<1>1. Booked /\ Len(backups) \in Nat /\ DOMAIN calls = Req
  BY DEF IInv, Booked, IsList, Proceeding
<1>2. \A q \in Req : calls'[q].pc # "idle" => calls'[q] = calls[q]
  BY DEF Commit, Rollback, Crash, Idle
<1>3. \A q \in Req : Busy(q)' => ~calls'[q].intx
  BY DEF Commit, Rollback, Crash, Idle, NoneInside, Busy
<1>4. conf' = conf /\ txn' = None BY DEF Commit, Rollback, Crash
<1>5. CASE Undone /\ txn # None
  <2>1. TxnEnds BY <1>2, <1>3, <1>4, <1>5, <1>1, UndoneRows, UndoneCloses DEF TxnEnds
  <2> QED BY <2>1, TxnEndsSteps
<1>6. CASE txn # None /\ rows' = rows
             /\ backups' = [i \in 1..Len(backups) |-> [backups[i] EXCEPT !.open = FALSE]]
  <2>1. Len(backups') = Len(backups) BY <1>1, <1>6, Closing DEF Kept
  <2>2. \A i \in 1..Len(backups) : backups'[i] = [backups[i] EXCEPT !.open = FALSE] BY <1>6
  <2>3. \A i \in 1..Len(backups) : DOMAIN backups[i] = BookFields BY <1>1 DEF Booked, IsBook
  <2>4. \A i \in 1..Len(backups) : Closed(backups[i], backups'[i])
    BY <2>2, <2>3 DEF Closed, BookFields
  <2>5. TxnEnds BY <1>2, <1>3, <1>4, <1>6, <2>1, <2>4 DEF TxnEnds, RowsInv, Typed
  <2> QED BY <2>5, TxnEndsSteps
<1>7. CASE Crash /\ txn = None /\ UNCHANGED <<rows, backups>>
  <2>1. Quiet
    <3>1. \A i \in 1..Len(backups) : Same(backups[i], backups'[i]) BY <1>7 DEF Same, Held
    <3>2. \A q \in Req : GoesOn(calls[q], calls'[q]) BY <1>7 DEF Crash, Idle, GoesOn, Undoes
    <3> QED BY <1>4, <1>7, <3>1, <3>2 DEF Quiet, TxnGoesOn
  <2> QED BY <1>1, <2>1, QuietSteps DEF IInv
<1> QED BY <1>5, <1>6, <1>7 DEF Commit, Rollback, Crash

-----------------------------------------------------------------------------
\* A backup is taken.

\* A new backup changes the others in what became of them only.
LEMMA CreatedLast ==
    ASSUME Booked, NEW b, DOMAIN b = BookFields, backups' = Create(backups, b)
    PROVE  /\ \A i \in 1..Len(backups) : Same(backups[i], backups'[i])
           /\ Same(b, backups'[Len(backups) + 1])
<1> DEFINE all  == Append(backups, b)
           n    == Len(backups) + 1
           S    == {backups[i] : i \in 1..Len(backups)} \cup {b}
           mine == {i \in 1..Len(all) : all[i].state = "kept" /\ all[i].by = b.by}
           Over(i) == i \in mine /\ Cardinality({j \in mine : j > i}) >= Keep
<1>1. /\ Len(backups) \in Nat /\ backups = [i \in 1..Len(backups) |-> backups[i]]
      /\ \A i \in 1..Len(backups) : DOMAIN backups[i] = BookFields
  BY DEF Booked, IsList, IsBook
<1>2. backups \in Seq(S)
  <2>1. backups \in [1..Len(backups) -> S] BY <1>1
  <2> QED BY <1>1, <2>1, SeqDef
<1>3. /\ Len(all) = n /\ all[n] = b
      /\ \A i \in 1..Len(backups) : all[i] = backups[i]
  BY <1>1, <1>2, AppendProperties
<1>4. backups' = [i \in 1..n |->
          IF Over(i) THEN [all[i] EXCEPT !.state = "pruned"] ELSE all[i]]
  BY <1>3 DEF Create
<1> HIDE DEF all, mine, Over
<1>5. \A i \in 1..n : DOMAIN all[i] = BookFields BY <1>1, <1>3
<1>6. \A i \in 1..n : Same(all[i], backups'[i]) BY <1>4, <1>5 DEF Same, Held, BookFields
<1> QED BY <1>1, <1>3, <1>6

\* A backup as it is taken: faithful, and telling where the table is past what
\* it saw.
Taken(c, b) ==
    /\ DOMAIN b = BookFields /\ Faithful(b) /\ b.stmt = c.stmt /\ b.open = c.intx
    /\ b.hit = {} /\ b.touched = ChangedKeys(Seen(c), rows)
    /\ \A k \in b.keys : b.before[k] = Seen(c)[k]

\* The backup a call takes is one, whether the call tells of it or not.
LEMMA Taking ==
    ASSUME Typed, conf \in Confs, NEW c, c.stmt \in conf.stmts, Wanted(c),
           NEW b \in {NewBackup(c), [NewBackup(c) EXCEPT !.stray = TRUE]}
    PROVE  Taken(c, b) /\ b.state = "kept" /\ b.id = Len(backups) + 1
<1> DEFINE t == Seen(c)
           ks == BackupKeys(conf.engine, t, c.stmt)
<1>1. t \in Table BY SeenTable
<1>2. ks \subseteq Key /\ (conf.engine \in Tabular => ks \subseteq Present(t))
  BY FirstKey, MatchedPresent DEF BackupKeys, Present, Tabular, SqlEngines
<1>3. Target(conf.engine, c.stmt) BY DEF Wanted
<1> DEFINE a == NewBackup(c)
<1>0. /\ DOMAIN a = BookFields /\ a.engine = conf.engine /\ a.stmt = c.stmt /\ a.open = c.intx
      /\ a.kind = BackupKind(c.stmt) /\ a.cols = BackupColumns(conf.engine, c.stmt)
      /\ a.puts = a.cols \ conf.idents
      /\ a.keys = ks /\ a.before = [k \in ks |-> t[k]] /\ a.hit = {}
      /\ a.touched = ChangedKeys(t, rows) /\ a.state = "kept" /\ a.id = Len(backups) + 1
  BY DEF NewBackup, Backup, BookFields, AssignedColumns
<1> HIDE DEF a, ks
<1>4. /\ DOMAIN b = BookFields /\ b.engine = conf.engine /\ b.stmt = c.stmt /\ b.open = c.intx
      /\ b.kind = BackupKind(c.stmt) /\ b.cols = BackupColumns(conf.engine, c.stmt)
      /\ b.puts = b.cols \ conf.idents
      /\ b.keys = ks /\ b.before = [k \in ks |-> t[k]] /\ b.hit = {}
      /\ b.touched = ChangedKeys(t, rows) /\ b.state = "kept" /\ b.id = Len(backups) + 1
  <2>1. CASE b = a BY <1>0, <2>1
  <2>2. CASE b = [a EXCEPT !.stray = TRUE] BY <1>0, <2>2 DEF BookFields
  <2> QED BY <2>1, <2>2 DEF a
<1>5. b.before \in [b.keys -> Row \cup {Absent}] BY <1>1, <1>2, <1>4 DEF Table
<1>6. conf.engine \in Tabular => \A k \in b.keys : b.before[k] # Absent
  BY <1>2, <1>4 DEF Present
<1>7. Faithful(b) BY <1>2, <1>3, <1>4, <1>5, <1>6 DEF Faithful
<1> QED BY <1>4, <1>7 DEF Taken

\* The call of r has taken a backup.
Takes(r) ==
    /\ conf' = conf /\ rows' = rows /\ txn' = txn
    /\ Len(backups') = Len(backups) + 1
    /\ \A i \in 1..Len(backups) : Same(backups[i], backups'[i])
    /\ \E b : Taken(calls[r], b) /\ Same(b, backups'[Len(backups) + 1])
    /\ calls[r].pc = "capture" /\ calls'[r].pc = "run" /\ calls'[r].bid = Len(backups) + 1
    /\ calls'[r].stmt = calls[r].stmt /\ calls'[r].intx = calls[r].intx
    /\ calls'[r].path = calls[r].path
    /\ \A q \in Req \ {r} : calls'[q] = calls[q]

\* That keeps what is known of the rows: nobody has written since.
LEMMA TakesSteps ==
    ASSUME IInv, RowsInv, NEW r \in Req, Takes(r)
    PROVE  RowsInv'
<1> DEFINE c == calls[r]
           n == Len(backups) + 1
<1>1. PICK b : Taken(c, b) /\ Same(b, backups'[n]) BY DEF Takes
<1>2. /\ Len(backups) \in Nat /\ n \in 1..n /\ 1..n = 1..Len(backups) \cup {n} /\ Len(backups') = n
      /\ \A i \in 1..Len(backups) : i # n
  BY DEF IInv, Booked, IsList, Takes
<1>3. Sound(c) /\ c.path # "restore" BY UnderWay DEF Takes, Sound, Restores
<1>4. \A i \in 1..n : \A q \in Req : Writes(q, i)' =>
        \/ i = n /\ q = r
        \/ i \in 1..Len(backups) /\ Writes(q, i) /\ calls'[q] = calls[q]
  <2> SUFFICES ASSUME NEW i \in 1..n, NEW q \in Req, Writes(q, i)', ~(i = n /\ q = r)
               PROVE  i \in 1..Len(backups) /\ Writes(q, i) /\ calls'[q] = calls[q]
    OBVIOUS
  <2>1. CASE q = r BY <2>1 DEF Writes, Takes
  <2>2. CASE q # r
    <3>1. calls'[q] = calls[q] /\ Writes(q, i) BY <2>2 DEF Takes, Writes
    <3>2. Sound(calls[q]) BY <3>1, UnderWay DEF Writes
    <3>3. calls[q].bid \in 0..Len(backups)
      BY <3>1, <3>2 DEF Sound, Restores, Proceeds, Writes
    <3>4. i = calls[q].bid BY <3>1 DEF Writes
    <3> QED BY <1>2, <3>1, <3>3, <3>4
  <2> QED BY <2>1, <2>2
<1>5. \A q \in Req : Undoes(calls[q])' =>
        q # r /\ calls'[q] = calls[q] /\ Undoes(calls[q]) /\ UndoesAll(q)
  BY <1>3 DEF Undoes, Takes, RowsInv, Undoing
<1>6. Typed'
  <2>1. ASSUME NEW i \in 1..n PROVE Faithful(backups[i])'
    <3>1. CASE i \in 1..Len(backups)
      BY <3>1 DEF RowsInv, Typed, Takes, Same, Held, Faithful
    <3>2. CASE i = n
      BY <1>1, <1>2, <3>2 DEF Taken, Takes, Same, Held, Faithful
    <3> QED BY <1>2, <3>1, <3>2
  <2>2. \A i \in 1..Len(backups') : Faithful(backups[i])' BY <1>2, <2>1
  <2>3. \A q \in Req : Busy(q)' /\ calls'[q].intx => txn' # None
    BY DEF RowsInv, Typed, Busy, Takes
  <2> QED BY <2>2, <2>3 DEF RowsInv, Typed, Takes
<1>7. Unwritten'
  <2> SUFFICES ASSUME NEW i \in 1..n, NEW q \in Req, Writes(q, i)' PROVE Awaited(q, i)'
    BY <1>2 DEF Unwritten
  <2>1. CASE i = n /\ q = r
    <3>1. backups'[n].hit = {} /\ backups'[n].stmt = c.stmt /\ backups'[n].open = c.intx
      BY <1>1 DEF Taken, Same, Held
    <3> QED BY <2>1, <3>1 DEF Awaited, Takes
  <2>2. CASE i \in 1..Len(backups) /\ Writes(q, i) /\ calls'[q] = calls[q]
    BY <2>2 DEF RowsInv, Unwritten, Awaited, Takes, Same, Held
  <2> QED BY <1>4, <2>1, <2>2
<1>8. Undoing'
  <2> SUFFICES ASSUME NEW q \in Req, Undoes(calls[q])' PROVE UndoesAll(q)'
    BY DEF Undoing
  <2>1. calls'[q] = calls[q] /\ UndoesAll(q) /\ calls[q].bid \in 1..Len(backups)
    BY <1>5 DEF UndoesAll
  <2>2. Same(backups[calls[q].bid], backups'[calls[q].bid]) BY <2>1 DEF Takes
  <2>3. \A p \in Req : Writes(p, calls[q].bid)' => Writes(p, calls[q].bid)
    BY <1>2, <1>4, <2>1
  <2> QED BY <1>2, <2>1, <2>2, <2>3 DEF UndoesAll, Same, Held, Takes, Writes
<1>9. Standing'
  <2> SUFFICES ASSUME NEW i \in 1..n, Narrow(backups[i])', Counts(i)',
                      NEW k \in backups'[i].keys \ backups'[i].touched
               PROVE  Stays(backups'[i].before, rows', k, backups'[i].cols)
    BY <1>2 DEF Standing, Stays
  <2>1. CASE i \in 1..Len(backups)
    <3>1. Same(backups[i], backups'[i]) BY <2>1 DEF Takes
    <3>2. Counts(i) BY <1>2, <1>4, <2>1, <3>1 DEF Counts, Same
    <3>3. Narrow(backups[i]) BY <3>1 DEF Narrow, Same, Held, Takes
    <3>4. Stays(backups[i].before, rows, k, backups[i].cols)
      BY <2>1, <3>1, <3>2, <3>3 DEF RowsInv, Standing, Same, Held
    <3> QED BY <3>1, <3>4 DEF Stays, Same, Held, Takes
  <2>2. CASE i = n
    <3>1. k \in b.keys /\ k \notin ChangedKeys(Seen(c), rows) /\ k \in Key
      BY <1>1, <2>2 DEF Taken, Same, Held, Faithful
    <3>2. rows[k] = b.before[k] BY <1>1, <3>1 DEF Taken, ChangedKeys
    <3>3. conf.engine \in Tabular BY DEF Narrow, Takes
    <3>4. b.before[k] # Absent BY <1>1, <3>1, <3>3 DEF Taken, Faithful
    <3> QED BY <1>1, <2>2, <3>2, <3>4 DEF Same, Held, Stays, Takes
  <2> QED BY <1>2, <2>1, <2>2
<1>10. Pending'
  <2> SUFFICES ASSUME NEW i \in 1..n, Locked', ~backups'[i].open,
                      NEW k \in Key \ backups'[i].touched
               PROVE  rows'[k] = txn'.undo[k]
    BY <1>2 DEF Pending
  <2>1. Locked BY DEF Locked, Takes
  <2>2. CASE i \in 1..Len(backups)
    BY <2>1, <2>2 DEF RowsInv, Pending, Takes, Same, Held
  <2>3. CASE i = n
    <3>1. ~c.intx /\ k \notin ChangedKeys(Seen(c), rows) BY <1>1, <2>3 DEF Taken, Same, Held
    <3>2. Seen(c) = txn.undo BY <2>1, <3>1 DEF Seen, Committed
    <3> QED BY <3>1, <3>2 DEF ChangedKeys, Takes
  <2> QED BY <1>2, <2>2, <2>3
<1>11. Partial'
  <2> SUFFICES ASSUME NEW q \in Req, Undoes(calls[q])', calls'[q].reached,
                      backups'[calls'[q].bid].hit # {},
                      NEW k \in backups'[calls'[q].bid].keys
                                  \ (calls'[q].todo \cup backups'[calls'[q].bid].touched)
               PROVE  rows'[k] = backups'[calls'[q].bid].before[k]
    BY DEF Partial
  <2>1. calls'[q] = calls[q] /\ Undoes(calls[q]) /\ calls[q].bid \in 1..Len(backups)
    BY <1>5 DEF UndoesAll
  <2>2. Same(backups[calls[q].bid], backups'[calls[q].bid]) BY <2>1 DEF Takes
  <2> QED BY <2>1, <2>2 DEF RowsInv, Partial, Same, Held, Takes
<1> QED BY <1>6, <1>7, <1>8, <1>9, <1>10, <1>11 DEF RowsInv

-----------------------------------------------------------------------------
\* Every step is one of these.

\* A call goes on, and no backup is taken.
LEMMA GoingOn ==
    ASSUME IInv, RowsInv, NEW r \in Req, NEW d, calls' = [calls EXCEPT ![r] = d],
           GoesOn(calls[r], d), UNCHANGED <<conf, rows>>, TxnGoesOn,
           Len(backups') = Len(backups),
           \A i \in 1..Len(backups) : Same(backups[i], backups'[i])
    PROVE  RowsInv'
<1>1. /\ conf \in Confs /\ Len(backups) \in Nat
      /\ calls'[r] = d /\ \A q \in Req \ {r} : calls'[q] = calls[q]
  BY Setting DEF IInv, Booked, IsList
<1>2. \A q \in Req \ {r} : GoesOn(calls[q], calls'[q]) BY <1>1 DEF GoesOn
<1>3. Quiet BY <1>1, <1>2 DEF Quiet
<1> QED BY <1>1, <1>3, QuietSteps

\* Backups that do not change say the same.
LEMMA Unmoved ==
    ASSUME UNCHANGED backups
    PROVE  /\ Len(backups') = Len(backups)
           /\ \A i \in 1..Len(backups) : Same(backups[i], backups'[i])
  BY DEF Same, Held

\* An answer goes on to nothing.
LEMMA AnsweredGoesOn ==
    ASSUME NEW c, NEW d, d.pc = "answered"
    PROVE  GoesOn(c, d)
  BY DEF GoesOn, Undoes

\* A statement arrives: it is no restore, and inside a transaction only if there
\* is one.
LEMMA SubmittingQuietly ==
    ASSUME IInv, RowsInv, NEW r \in Req,
           Submit(r) \/ SubmitDeferred(r) \/ SubmitCassandra(r) \/ SubmitDocument(r)
    PROVE  RowsInv'
<1>1. UNCHANGED <<conf, rows, txn, backups>>
  BY DEF Submit, SubmitDeferred, SubmitCassandra, SubmitDocument, Arrives
<1>2. PICK who, ask, intx :
        \E path \in {"live", "deferred", "cassandra", "documents"} :
            \E s \in conf.stmts, recorded \in BOOLEAN : Requests(r, who, path, s, ask, intx, recorded)
  BY Requesting
<1>3. PICK path \in {"live", "deferred", "cassandra", "documents"},
           s \in conf.stmts, recorded \in BOOLEAN : Requests(r, who, path, s, ask, intx, recorded)
  BY <1>2
<1> DEFINE c == NewCall(who, path, s, ask, intx)
           d == Answer(c, "refused", recorded)
<1>4. c.pc = "judge" /\ c.path = path /\ c.intx = intx /\ DOMAIN c = CallFields
  BY DEF NewCall, CallFields
<1> HIDE DEF c
<1>5. d.pc = "answered" BY <1>4 DEF Answer, CallFields
<1> HIDE DEF d
<1>6. GoesOn(calls[r], c) BY <1>3, <1>4 DEF GoesOn, Undoes, Requests
<1>7. GoesOn(calls[r], d) BY <1>5, AnsweredGoesOn
<1>8. CASE Set(r, c) BY <1>1, <1>6, <1>8, GoingOn, Unmoved DEF Set, TxnGoesOn
<1>9. CASE Set(r, Answer(c, "refused", recorded))
  BY <1>1, <1>7, <1>9, GoingOn, Unmoved DEF Set, TxnGoesOn, d
<1> QED BY <1>3, <1>8, <1>9 DEF Requests, c

\* A restore of backup i as it arrives: with the keys of its backup, or answered
\* at once when there is nothing to assign.
Arrival(i, d) ==
    /\ \/ d.pc = "judge"
       \/ d.pc = "answered" /\ d.out = "nothing" /\ conf.engine \in SqlEngines /\ EmptyPlan(backups[i])
    /\ d.path = "restore" /\ d.intx = FALSE /\ d.bid = i /\ d.todo = backups[i].keys
    /\ d.reached = (backups[i].hit # {})

LEMMA Arriving ==
    ASSUME NEW r \in Req, SubmitRestore(r)
    PROVE  \E i \in 1..Len(backups) : \E d : Set(r, d) /\ Arrival(i, d)
<1>1. PICK who \in Users : \E i \in Reachable(who) :
        Set(r, IF conf.engine \in SqlEngines /\ EmptyPlan(backups[i])
               THEN Answer(NewRestore(who, i), "nothing", FALSE) ELSE NewRestore(who, i))
  BY DEF SubmitRestore
<1>2. PICK i \in Reachable(who) :
        Set(r, IF conf.engine \in SqlEngines /\ EmptyPlan(backups[i])
               THEN Answer(NewRestore(who, i), "nothing", FALSE) ELSE NewRestore(who, i))
  BY <1>1
<1> DEFINE c == NewCall(who, "restore", RestoreStatement(backups[i]), FALSE, FALSE)
           d == NewRestore(who, i)
           e == Answer(d, "nothing", FALSE)
<1>3. DOMAIN c = CallFields /\ c.pc = "judge" /\ c.path = "restore" /\ c.intx = FALSE
  BY DEF NewCall, CallFields
<1>4. d = [c EXCEPT !.bid = i, !.todo = backups[i].keys, !.reached = backups[i].hit # {},
                    !.cleared = FALSE]
  BY DEF NewRestore
<1> HIDE DEF c, d
<1>5. /\ DOMAIN d = CallFields /\ d.pc = "judge" /\ d.path = "restore" /\ d.intx = FALSE
      /\ d.bid = i /\ d.todo = backups[i].keys /\ d.reached = (backups[i].hit # {})
  BY <1>3, <1>4 DEF CallFields
<1>6. /\ e.pc = "answered" /\ e.out = "nothing" /\ e.path = "restore" /\ e.intx = FALSE
      /\ e.bid = i /\ e.todo = backups[i].keys /\ e.reached = (backups[i].hit # {})
  BY <1>5 DEF Answer, CallFields
<1> HIDE DEF e
<1>7. i \in 1..Len(backups) BY DEF Reachable
<1>8. CASE conf.engine \in SqlEngines /\ EmptyPlan(backups[i])
  <2>1. Set(r, e) BY <1>2, <1>8 DEF d, e
  <2>2. Arrival(i, e) BY <1>6, <1>8 DEF Arrival
  <2> QED BY <1>7, <2>1, <2>2
<1>9. CASE ~(conf.engine \in SqlEngines /\ EmptyPlan(backups[i]))
  <2>1. Set(r, d) BY <1>2, <1>9 DEF d
  <2>2. Arrival(i, d) BY <1>5 DEF Arrival
  <2> QED BY <1>7, <2>1, <2>2
<1> QED BY <1>8, <1>9

\* Then it goes on from there.
LEMMA RestoreArrives ==
    ASSUME IInv, RowsInv, NEW r \in Req, SubmitRestore(r)
    PROVE  RowsInv'
<1>1. UNCHANGED <<conf, rows, txn, backups>> BY DEF SubmitRestore, Arrives
<1>2. PICK i \in 1..Len(backups) : \E d : Set(r, d) /\ Arrival(i, d) BY Arriving
<1>3. PICK d : Set(r, d) /\ Arrival(i, d) BY <1>2
<1>4. GoesOn(calls[r], d) BY <1>3 DEF Arrival, GoesOn
<1> QED BY <1>1, <1>3, <1>4, GoingOn, Unmoved DEF Set, TxnGoesOn

\* A call that is judged, goes without a backup, or begins to send rows.
LEMMA StagesQuietly ==
    ASSUME IInv, RowsInv, NEW r \in Req, NEW d,
           \/ /\ calls[r].pc = "judge"
              /\ \E stage \in {"capture", "restore"} : d = [calls[r] EXCEPT !.pc = stage]
           \/ calls[r].pc = "capture" /\ d = [calls[r] EXCEPT !.pc = "run"]
           \/ calls[r].pc = "run" /\ d = [calls[r] EXCEPT !.pc = "stream", !.streamed = TRUE],
           calls' = [calls EXCEPT ![r] = d], UNCHANGED <<conf, rows, backups>>, TxnGoesOn
    PROVE  RowsInv'
<1> DEFINE c == calls[r]
<1>1. Sound(c) BY UnderWay
<1>2. DOMAIN c = CallFields /\ (c.pc = "capture" => c.bid = 0)
  BY <1>1 DEF Sound, Restores, Proceeds
<1>3. /\ d.bid = c.bid /\ d.path = c.path /\ d.intx = c.intx /\ d.stmt = c.stmt
      /\ d.todo = c.todo /\ d.reached = c.reached
  BY <1>2 DEF CallFields
<1>4. \/ c.pc = "judge" /\ d.pc \in {"capture", "restore"}
      \/ c.pc = "capture" /\ d.pc = "run"
      \/ c.pc = "run" /\ d.pc = "stream"
  BY <1>2 DEF CallFields
<1>5. GoesOn(c, d) BY <1>2, <1>3, <1>4 DEF GoesOn, Undoes
<1> QED BY <1>5, GoingOn, Unmoved

\* The verdict, and a statement that goes on without a backup.
LEMMA JudgesQuietly ==
    ASSUME IInv, RowsInv, NEW r \in Req, Judge(r) \/ Skip(r) \/ Block(r)
    PROVE  RowsInv'
<1> DEFINE c == calls[r]
<1>1. UNCHANGED <<conf, rows, backups>> /\ TxnGoesOn
  <2>1. CASE Skip(r)
    <3>1. c.intx => txn # None BY <2>1 DEF Skip, RowsInv, Typed, Busy
    <3>2. txn' # txn => c.intx /\ txn' \in AfterFailedRead(txn) BY <2>1 DEF Skip
    <3>3. TxnGoesOn BY <3>1, <3>2 DEF AfterFailedRead, TxnGoesOn
    <3> QED BY <2>1, <3>3 DEF Skip
  <2> QED BY <2>1 DEF Judge, Block, TxnGoesOn
<1>2. ASSUME NEW out, NEW recorded, Set(r, Answer(c, out, recorded)), c.pc \in {"judge", "capture"}
      PROVE  RowsInv'
  <2>1. DOMAIN c = CallFields BY <1>2, UnderWay DEF Sound
  <2>2. Answer(c, out, recorded).pc = "answered" BY <2>1, Answering
  <2> QED BY <1>1, <1>2, <2>2, AnsweredGoesOn, GoingOn, Unmoved DEF Set
<1>3. CASE Judge(r)
  <2>1. c.pc = "judge" BY <1>3 DEF Judge
  <2>2. \/ \E out, recorded : Set(r, Answer(c, out, recorded))
        \/ \E stage \in {"capture", "restore"} : Set(r, [c EXCEPT !.pc = stage])
    BY <1>3 DEF Judge
  <2> QED BY <1>1, <1>2, <2>1, <2>2, StagesQuietly DEF Set
<1>4. CASE Skip(r) BY <1>1, <1>4, StagesQuietly DEF Skip, Set
<1>5. CASE Block(r) BY <1>2, <1>5 DEF Block
<1> QED BY <1>3, <1>4, <1>5

\* With a backup, or without one because none is wanted.
LEMMA CapturesQuietly ==
    ASSUME IInv, RowsInv, NEW r \in Req, Capture(r) \/ CaptureUntold(r)
    PROVE  RowsInv'
<1> DEFINE c == calls[r]
           n == Len(backups) + 1
<1>1. c.pc = "capture" /\ UNCHANGED <<conf, rows, txn>> BY DEF Capture, CaptureUntold
<1>2. Sound(c) /\ Booked /\ conf \in Confs BY <1>1, UnderWay DEF IInv
<1>3. DOMAIN c = CallFields /\ c.stmt \in conf.stmts
  BY <1>1, <1>2 DEF Sound, Restores, Proceeds
<1>4. CASE UNCHANGED backups /\ Set(r, [c EXCEPT !.pc = "run"])
  BY <1>1, <1>4, StagesQuietly DEF Set, TxnGoesOn
<1>5. ASSUME Wanted(c), NEW b \in {NewBackup(c), [NewBackup(c) EXCEPT !.stray = TRUE]},
             backups' = Create(backups, b) \/ backups' = Append(backups, b),
             NEW d, Set(r, d), d.pc = "run", d.bid = b.id,
             d.stmt = c.stmt, d.intx = c.intx, d.path = c.path
      PROVE  RowsInv'
  <2>1. Taken(c, b) /\ b.state = "kept" /\ b.id = n BY <1>2, <1>3, <1>5, Taking DEF RowsInv
  <2>2. IsBook(b) BY <2>1 DEF Taken, IsBook
  <2>3. /\ Len(backups') = n
        /\ \A i \in 1..Len(backups) : Same(backups[i], backups'[i])
        /\ Same(b, backups'[n])
    <3>1. CASE backups' = Create(backups, b)
      BY <1>2, <2>1, <2>2, <3>1, Creating, CreatedLast DEF IsBook
    <3>2. CASE backups' = Append(backups, b)
      BY <1>2, <2>1, <2>2, <3>2, Appending DEF Same, Held
    <3> QED BY <1>5, <3>1, <3>2
  <2>4. calls'[r] = d /\ \A q \in Req \ {r} : calls'[q] = calls[q]
    BY <1>5, Setting DEF Set
  <2>5. Takes(r) BY <1>1, <1>5, <2>1, <2>3, <2>4 DEF Takes
  <2> QED BY <2>5, TakesSteps
<1>6. CASE /\ Wanted(c) /\ backups' = Create(backups, NewBackup(c))
           /\ Set(r, [c EXCEPT !.pc = "run", !.bid = NewBackup(c).id, !.told = TRUE])
  <2> DEFINE b == NewBackup(c)
             d == [c EXCEPT !.pc = "run", !.bid = b.id, !.told = TRUE]
  <2>1. b \in {NewBackup(c), [NewBackup(c) EXCEPT !.stray = TRUE]} OBVIOUS
  <2>2. Wanted(c) /\ backups' = Create(backups, b) /\ Set(r, d) BY <1>6
  <2> HIDE DEF b
  <2>3. /\ d.pc = "run" /\ d.bid = b.id /\ d.stmt = c.stmt /\ d.intx = c.intx /\ d.path = c.path
    BY <1>3 DEF CallFields
  <2> HIDE DEF d
  <2> QED BY <1>5, <2>1, <2>2, <2>3
<1>7. CASE CaptureUntold(r)
  <2> DEFINE b == [NewBackup(c) EXCEPT !.stray = TRUE]
             d == [c EXCEPT !.pc = "run", !.bid = b.id]
  <2>1. b \in {NewBackup(c), [NewBackup(c) EXCEPT !.stray = TRUE]} OBVIOUS
  <2>2. Wanted(c) /\ backups' = Append(backups, b) /\ Set(r, d) BY <1>7 DEF CaptureUntold
  <2> HIDE DEF b
  <2>3. /\ d.pc = "run" /\ d.bid = b.id /\ d.stmt = c.stmt /\ d.intx = c.intx /\ d.path = c.path
    BY <1>3 DEF CallFields
  <2> HIDE DEF d
  <2> QED BY <1>5, <2>1, <2>2, <2>3
<1> QED BY <1>4, <1>6, <1>7 DEF Capture

\* The database answers a statement, or begins to send its rows.
LEMMA RunsRows ==
    ASSUME IInv, RowsInv, NEW r \in Req, Run(r) \/ Open(r) \/ Stream(r)
    PROVE  RowsInv'
<1> DEFINE c == calls[r]
<1>1. c.pc \in {"run", "stream"} /\ conf' = conf BY DEF Run, Open, Stream
<1>2. DOMAIN c = CallFields BY <1>1, UnderWay DEF Sound
<1>3. ASSUME NEW o \in Outcomes(c), o.hit # {} => Unlocked(c), Apply(c, o),
             Set(r, Ended(c, o)) \/ Set(r, Truncated(c, o))
      PROVE  RowsInv'
  <2>1. PICK d \in {Ended(c, o), Truncated(c, o)} : calls' = [calls EXCEPT ![r] = d]
    BY <1>3 DEF Set
  <2>2. d.pc = "finish" /\ d.path = c.path /\ d.intx = c.intx
    BY <1>2, <2>1 DEF Ended, Truncated, CallFields
  <2>3. calls'[r] = d /\ \A q \in Req \ {r} : calls'[q] = calls[q] BY <2>1, Setting
  <2>4. Applied(r) BY <1>1, <1>3, <2>2, <2>3 DEF Applied
  <2> QED BY <2>4, AppliedSteps
<1>4. CASE Run(r) BY <1>3, <1>4 DEF Run
<1>5. CASE Stream(r) BY <1>3, <1>5 DEF Stream
<1>6. CASE Open(r)
  <2> DEFINE o == Failed(Seen(c), {})
  <2>1. CASE Apply(c, o) /\ Set(r, Ended(c, o))
    <3>1. o.hit = {} BY DEF Failed
    <3>2. o \in Outcomes(c)
      <4>1. CASE c.intx /\ Postgres /\ txn.aborted BY <4>1 DEF Outcomes, Seen
      <4>2. CASE ~(c.intx /\ Postgres /\ txn.aborted) BY <4>2 DEF Outcomes
      <4> QED BY <4>1, <4>2
    <3> HIDE DEF o
    <3> QED BY <1>3, <2>1, <3>1, <3>2
  <2>2. CASE /\ Set(r, [c EXCEPT !.pc = "stream", !.streamed = TRUE])
             /\ UNCHANGED <<rows, txn, backups>>
    BY <1>6, <2>2, StagesQuietly DEF Set, Open, TxnGoesOn
  <2> QED BY <1>6, <2>1, <2>2 DEF Open
<1> QED BY <1>4, <1>5, <1>6

\* What is known of a restore on its way.
LEMMA RestoreKnown ==
    ASSUME IInv, RowsInv, NEW r \in Req, calls[r].pc = "restore"
    PROVE  /\ DOMAIN calls[r] = CallFields /\ calls[r].intx = FALSE
           /\ Undoes(calls[r]) /\ UndoesAll(r) /\ Faithful(backups[calls[r].bid])
           /\ backups[calls[r].bid].kind \in {"delete", "update"}
<1>1. Sound(calls[r]) BY UnderWay
<1>2. calls[r].path = "restore" BY <1>1 DEF Sound, Proceeds
<1>3. Undoes(calls[r]) /\ UndoesAll(r) BY <1>2 DEF Undoes, RowsInv, Undoing
<1>4. Faithful(backups[calls[r].bid]) BY <1>3 DEF UndoesAll, RowsInv, Typed
<1> QED BY <1>1, <1>2, <1>3, <1>4 DEF Sound, Restores, Faithful, BackupKind

\* What a step of a restore leaves of the call.
LEMMA RestoredCall ==
    ASSUME IInv, NEW r \in Req, NEW d, NEW new, Restored(r, d, new),
           d.bid = calls[r].bid
    PROVE  /\ rows' = new /\ calls'[r] = d /\ \A q \in Req \ {r} : calls'[q] = calls[q]
           /\ backups' = [Noted(backups, 0, ChangedKeys(rows, rows'))
                            EXCEPT ![calls[r].bid] = backups[calls[r].bid]]
  BY Setting DEF Restored, Set

\* A SQL engine puts back all the rows, or none.
LEMMA SqlPuts ==
    ASSUME IInv, RowsInv, NEW r \in Req, RestoreSql(r)
    PROVE  \E ks : Puts(r, ks)
<1> DEFINE c == calls[r]
           b == backups[c.bid]
           ks == b.keys
<1>1. /\ c.pc = "restore" /\ conf.engine \in SqlEngines /\ conf' = conf /\ txn' = txn
      /\ Unlocked(c)
  BY DEF RestoreSql
<1>2. /\ DOMAIN c = CallFields /\ c.intx = FALSE /\ UndoesAll(r)
      /\ b.kind \in {"delete", "update"}
  BY <1>1, RestoreKnown
<1>3. ~Locked /\ c.todo = ks BY <1>1, <1>2 DEF Unlocked, UndoesAll
<1>4. SqlRestore(rows, b) = PutBack(b, ks)
  BY <1>1, <1>2 DEF SqlRestore, PutBack, Overlays, Tabular
<1>5. PICK out, recorded, new :
        /\ Restored(r, Answer(c, out, recorded), new)
        /\ \/ ~SqlMissing(rows, b) /\ new = PutBack(b, ks)
           \/ out \notin {"ok", "nothing"} /\ new = rows
  <2>1. \/ ~SqlMissing(rows, b) /\ Restored(r, Answer(c, "ok", TRUE), SqlRestore(rows, b))
        \/ ~SqlMissing(rows, b) /\ Restored(r, Answer(c, "error", FALSE), SqlRestore(rows, b))
        \/ Restored(r, Answer(c, "missing", FALSE), rows)
        \/ Restored(r, Answer(c, "error", FALSE), rows)
    BY DEF RestoreSql
  <2>2. "missing" \notin {"ok", "nothing"} /\ "error" \notin {"ok", "nothing"} OBVIOUS
  <2> QED BY <1>4, <2>1, <2>2
<1> DEFINE d == Answer(c, out, recorded)
<1>6. /\ d.pc = "answered" /\ d.out = out /\ d.path = c.path /\ d.bid = c.bid
      /\ d.reached = c.reached /\ d.intx = c.intx
  BY <1>2, Answering
<1> HIDE DEF d
<1>7. Restored(r, d, new) BY <1>5 DEF d
<1>8. /\ rows' = new /\ calls'[r] = d /\ \A q \in Req \ {r} : calls'[q] = calls[q]
      /\ backups' = [Noted(backups, 0, ChangedKeys(rows, rows')) EXCEPT ![c.bid] = b]
  BY <1>6, <1>7, RestoredCall
<1>9. ~SqlMissing(rows, b) => (Overlays(b) => ks \subseteq Present(rows))
  BY DEF SqlMissing, Overlays
<1>10. Puts(r, ks)
  <2>1. rows' = rows \/ rows' = PutBack(b, ks) BY <1>5, <1>8
  <2>2. rows' # rows => (Overlays(b) => ks \subseteq Present(rows)) BY <1>5, <1>8, <1>9
  <2>3. calls'[r].out \in {"ok", "nothing"} => rows' = PutBack(b, ks) BY <1>5, <1>6, <1>8
  <2> QED BY <1>1, <1>3, <1>6, <1>8, <2>1, <2>2, <2>3 DEF Puts
<1> QED BY <1>10

\* The others put back a part, or stop.
LEMMA PartPuts ==
    ASSUME IInv, RowsInv, NEW r \in Req, RestorePart(r)
    PROVE  \E ks : Puts(r, ks)
<1> DEFINE c == calls[r]
           b == backups[c.bid]
<1>1. /\ c.pc = "restore" /\ conf.engine \notin SqlEngines /\ conf' = conf /\ txn' = txn
  BY DEF RestorePart
<1>2. /\ DOMAIN c = CallFields /\ c.intx = FALSE /\ UndoesAll(r)
      /\ b.kind \in {"delete", "update"}
  BY <1>1, RestoreKnown
<1>3. ~Locked BY <1>1 DEF Locked, RowsInv, Typed
<1>4. PICK ks \in SUBSET c.todo :
        \/ LET d == [c EXCEPT !.todo = @ \ ks]
           IN  Restored(r, IF d.todo = {} THEN Answer(d, "ok", TRUE) ELSE d, PartRestore(b, ks))
        \/ Restored(r, Answer(c, "error", TRUE), PartRestore(b, ks))
        \/ Restored(r, Answer(c, IF PartCollides(b, ks) THEN "collides" ELSE "error", TRUE), rows)
  BY DEF RestorePart
<1>5. PartRestore(b, ks) = PutBack(b, ks)
  BY <1>1, <1>2 DEF PartRestore, CassandraRestore, MongoRestore, KeyRestore, PutBack, Overlays, Tabular
<1>6. ASSUME NEW out, out \notin {"ok", "nothing"}, NEW new, new \in {rows, PutBack(b, ks)},
             Restored(r, Answer(c, out, TRUE), new)
      PROVE  Puts(r, ks)
  <2> DEFINE d == Answer(c, out, TRUE)
  <2>1. /\ d.pc = "answered" /\ d.out = out /\ d.path = c.path /\ d.bid = c.bid
        /\ d.reached = c.reached /\ d.intx = c.intx
    BY <1>2 DEF Answer, CallFields
  <2> HIDE DEF d
  <2>2. /\ rows' = new /\ calls'[r] = d /\ \A q \in Req \ {r} : calls'[q] = calls[q]
        /\ backups' = [Noted(backups, 0, ChangedKeys(rows, rows')) EXCEPT ![c.bid] = b]
    BY <1>6, <2>1, RestoredCall DEF d
  <2>3. /\ rows' = rows \/ rows' = PutBack(b, ks)
        /\ calls'[r].pc = "answered" /\ calls'[r].out \notin {"ok", "nothing"}
    BY <1>6, <2>1, <2>2
  <2> QED BY <1>1, <1>3, <2>1, <2>2, <2>3 DEF Puts
<1>7. ASSUME NEW d, d = [c EXCEPT !.todo = @ \ ks],
             Restored(r, IF d.todo = {} THEN Answer(d, "ok", TRUE) ELSE d, PutBack(b, ks))
      PROVE  Puts(r, ks)
  <2> DEFINE e == IF d.todo = {} THEN Answer(d, "ok", TRUE) ELSE d
  <2>1. /\ DOMAIN d = CallFields /\ d.pc = "restore" /\ d.path = c.path /\ d.bid = c.bid
        /\ d.reached = c.reached /\ d.intx = c.intx /\ d.todo = c.todo \ ks
    BY <1>1, <1>2, <1>7 DEF CallFields
  <2>2. /\ e.path = c.path /\ e.bid = c.bid /\ e.reached = c.reached /\ e.intx = c.intx
        /\ IF c.todo \ ks = {} THEN e.pc = "answered"
           ELSE e.pc = "restore" /\ e.todo = c.todo \ ks
    BY <2>1 DEF Answer, CallFields
  <2> HIDE DEF e
  <2>3. Restored(r, e, PutBack(b, ks)) BY <1>7 DEF e
  <2>4. /\ rows' = PutBack(b, ks) /\ calls'[r] = e /\ \A q \in Req \ {r} : calls'[q] = calls[q]
        /\ backups' = [Noted(backups, 0, ChangedKeys(rows, rows')) EXCEPT ![c.bid] = b]
    BY <2>2, <2>3, RestoredCall
  <2>5. /\ calls'[r].pc \in {"restore", "answered"}
        /\ calls'[r].pc = "restore" => calls'[r].todo = c.todo \ ks
        /\ calls'[r].pc = "answered" => c.todo \subseteq ks
    BY <2>2, <2>4
  <2>6. /\ calls'[r].path = c.path /\ calls'[r].bid = c.bid
        /\ calls'[r].reached = c.reached /\ calls'[r].intx = c.intx
    BY <2>2, <2>4
  <2> HIDE DEF b
  <2> QED BY <1>1, <1>3, <2>4, <2>5, <2>6 DEF Puts, b
<1>8. CASE LET d == [c EXCEPT !.todo = @ \ ks]
           IN  Restored(r, IF d.todo = {} THEN Answer(d, "ok", TRUE) ELSE d, PartRestore(b, ks))
  BY <1>5, <1>7, <1>8
<1>9. CASE Restored(r, Answer(c, "error", TRUE), PartRestore(b, ks)) BY <1>5, <1>6, <1>9
<1>10. CASE Restored(r, Answer(c, IF PartCollides(b, ks) THEN "collides" ELSE "error", TRUE), rows)
  BY <1>6, <1>10
<1> QED BY <1>4, <1>8, <1>9, <1>10

\* What became of a backup says nothing of the rows either.
LEMMA Restated ==
    ASSUME Booked, NEW i \in 1..Len(backups), NEW state,
           \/ backups' = [backups EXCEPT ![i].state = state]
           \/ backups' = [backups EXCEPT ![i].stray = TRUE]
    PROVE  /\ Len(backups') = Len(backups)
           /\ \A j \in 1..Len(backups) : Same(backups[j], backups'[j])
<1>1. /\ Len(backups) \in Nat /\ backups = [j \in 1..Len(backups) |-> backups[j]]
      /\ \A j \in 1..Len(backups) : DOMAIN backups[j] = BookFields
  BY DEF Booked, IsList, IsBook
<1>2. backups' = [j \in 1..Len(backups) |-> backups'[j]] BY <1>1
<1>3. backups'[i] \in {[backups[i] EXCEPT !.state = state], [backups[i] EXCEPT !.stray = TRUE]}
      /\ \A j \in 1..Len(backups) : j # i => backups'[j] = backups[j]
  BY <1>1
<1>4. Same(backups[i], backups'[i])
  <2>1. CASE backups'[i] = [backups[i] EXCEPT !.state = state]
    BY <1>1, <2>1 DEF Same, Held, BookFields
  <2>2. CASE backups'[i] = [backups[i] EXCEPT !.stray = TRUE]
    BY <1>1, <2>2 DEF Same, Held, BookFields
  <2> QED BY <1>3, <2>1, <2>2
<1>5. \A j \in 1..Len(backups) : j # i => Same(backups[j], backups'[j])
  BY <1>3 DEF Same, Held
<1> QED BY <1>1, <1>2, <1>4, <1>5, Listed

\* The answer of a statement says nothing of the rows.
LEMMA FinishesQuietly ==
    ASSUME IInv, RowsInv, NEW r \in Req, Finish(r)
    PROVE  RowsInv'
<1> DEFINE c == calls[r]
           d == Answer(c, c.out, TRUE)
<1>1. c.pc = "finish" /\ UNCHANGED <<conf, rows, txn>> BY DEF Finish
<1>2. Sound(c) /\ Booked BY <1>1, UnderWay DEF IInv
<1>3. d.pc = "answered" BY <1>2 DEF Sound, Answer, CallFields
<1>4. calls' = [calls EXCEPT ![r] = d] BY DEF Finish, Set
<1> HIDE DEF d
<1>5. /\ Len(backups') = Len(backups)
      /\ \A i \in 1..Len(backups) : Same(backups[i], backups'[i])
  <2>1. CASE UNCHANGED backups BY <2>1, Unmoved
  <2>2. CASE backups # backups'
    <3>1. Discards(c) /\ Discarded(c.bid) BY <2>2 DEF Finish
    <3>2. c.bid \in 1..Len(backups)
      BY <1>1, <1>2, <3>1 DEF Discards, Sound, Restores, Proceeds, Booked, IsList
    <3>3. \E state : \/ backups' = [backups EXCEPT ![c.bid].state = state]
                     \/ backups' = [backups EXCEPT ![c.bid].stray = TRUE]
      BY <3>1 DEF Discarded
    <3> QED BY <1>2, <3>2, <3>3, Restated
  <2> QED BY <2>1, <2>2
<1> QED BY <1>1, <1>3, <1>4, <1>5, AnsweredGoesOn, GoingOn DEF TxnGoesOn

\* What others do, the rows apart.
LEMMA OthersQuietly ==
    ASSUME IInv, RowsInv,
           DeleteBackup \/ Begin \/ SetPolicies \/ Approve \/ UNCHANGED svars
    PROVE  RowsInv'
<1>1. conf \in Confs /\ Booked /\ Len(backups) \in Nat BY DEF IInv, Booked, IsList
<1>2. UNCHANGED <<conf, rows, calls>>
  BY DEF DeleteBackup, Begin, SetPolicies, Approve, svars
<1>3. \/ txn' = txn
      \/ conf.tx /\ txn' = [undo |-> rows, wrote |-> FALSE, aborted |-> FALSE]
  BY DEF DeleteBackup, Begin, SetPolicies, Approve, svars
<1>4. /\ Len(backups') = Len(backups)
      /\ \A i \in 1..Len(backups) : Same(backups[i], backups'[i])
  <2>1. CASE UNCHANGED backups BY <2>1, Unmoved
  <2>2. CASE DeleteBackup
    <3>1. PICK i \in 1..Len(backups) : backups' = [backups EXCEPT ![i].state = "removed"]
      BY <2>2 DEF DeleteBackup
    <3>2. \E state : backups' = [backups EXCEPT ![i].state = state] BY <3>1
    <3> QED BY <1>1, <3>2, Restated
  <2> QED BY <2>1, <2>2 DEF Begin, SetPolicies, Approve, svars
<1>5. \A q \in Req : GoesOn(calls[q], calls'[q]) BY <1>2 DEF GoesOn
<1>6. Quiet BY <1>2, <1>3, <1>4, <1>5 DEF Quiet, TxnGoesOn
<1> QED BY <1>1, <1>6, QuietSteps

\* A table as configured, and nothing said of it yet.
LEMMA RowsInvInit ==
    ASSUME StatementsInit
    PROVE  RowsInv
<1>1. /\ conf \in Confs /\ rows = conf.rows /\ txn = None /\ backups = <<>>
      /\ calls = [r \in Req |-> Idle]
  BY DEF StatementsInit
<1>2. \A r \in Req : calls[r].pc = "idle" BY <1>1 DEF Idle
<1>3. Len(backups) = 0 /\ rows \in Table BY <1>1, StatementsAssumption
<1> QED BY <1>1, <1>2, <1>3
    DEF RowsInv, Typed, Unwritten, Undoing, Standing, Pending, Partial, Busy, Undoes, Locked

\* Every step keeps what is known of the rows.
LEMMA RowsInvNext ==
    ASSUME IInv, RowsInv, [StatementsNext]_svars
    PROVE  RowsInv'
<1>1. ASSUME NEW r \in Req, CallStep(r) PROVE RowsInv'
  <2>1. CASE Submit(r) \/ SubmitDeferred(r) \/ SubmitCassandra(r) \/ SubmitDocument(r)
    BY <2>1, SubmittingQuietly
  <2>2. CASE SubmitRestore(r) BY <2>2, RestoreArrives
  <2>3. CASE Judge(r) \/ Skip(r) \/ Block(r) BY <2>3, JudgesQuietly
  <2>4. CASE Capture(r) \/ CaptureUntold(r) BY <2>4, CapturesQuietly
  <2>5. CASE Run(r) \/ Open(r) \/ Stream(r) BY <2>5, RunsRows
  <2>6. CASE Finish(r) BY <2>6, FinishesQuietly
  <2>7. CASE RestoreSql(r) \/ RestorePart(r)
    <3>1. PICK ks : Puts(r, ks) BY <2>7, SqlPuts, PartPuts
    <3> QED BY <3>1, PutsSteps
  <2> QED BY <1>1, <2>1, <2>2, <2>3, <2>4, <2>5, <2>6, <2>7 DEF CallStep
<1>2. CASE Commit \/ Rollback \/ Crash BY <1>2, Ending
<1>3. CASE Edit BY <1>3, EditSteps
<1>4. CASE DeleteBackup \/ Begin \/ SetPolicies \/ Approve \/ UNCHANGED svars
  BY <1>4, OthersQuietly
<1> QED BY <1>1, <1>2, <1>3, <1>4 DEF StatementsNext, CallStep

\* What is known of the rows holds in every state.
THEOREM RowsInvariant == StatementsSpec => []RowsInv
<1>1. StatementsInit => RowsInv BY RowsInvInit
<1>2. IInv /\ RowsInv /\ [StatementsNext]_svars => RowsInv' BY RowsInvNext
<1> QED BY <1>1, <1>2, StatementsInvariant, PTL DEF StatementsSpec

-----------------------------------------------------------------------------
\* What a restore leaves.

\* A restore on its way is gone on with by a part of it, or ends with the process.
LEMMA RestoreStep ==
    ASSUME IInv, RowsInv, StatementsNext, NEW r \in Req, calls[r].pc = "restore",
           calls'[r] # calls[r], calls'[r].pc # "idle"
    PROVE  \E ks : Puts(r, ks)
<1>1. ~(DeleteBackup \/ Begin \/ Commit \/ Rollback \/ Edit \/ SetPolicies \/ Approve)
  BY Surroundings
<1>2. ~Crash BY DEF Crash, Idle
<1>3. PICK q \in Req : CallStep(q) BY <1>1, <1>2 DEF StatementsNext, CallStep
<1>4. q = r
  <2>1. Moves(q) BY <1>3, Moving
  <2> QED BY <2>1 DEF Moves
<1>5. RestoreSql(r) \/ RestorePart(r)
  BY <1>3, <1>4 DEF CallStep, Submit, SubmitDeferred, SubmitCassandra, SubmitDocument, SubmitRestore,
     Arrives, Busy, Judge, Skip, Block, Capture, CaptureUntold, Run, Open, Stream, Finish
<1> QED BY <1>5, SqlPuts, PartPuts

\* A call that is past its verdict stays on its path.
LEMMA PathKept ==
    ASSUME IInv, NEW r \in Req, CallStep(r), calls[r].pc \in {"capture", "run", "stream", "finish"}
    PROVE  calls'[r].path = calls[r].path
<1> DEFINE c == calls[r]
<1>1. DOMAIN c = CallFields BY UnderWay DEF Sound
<1>2. ASSUME NEW d, Set(r, d), d.path = c.path PROVE calls'[r].path = c.path
  BY <1>2, Setting DEF Set
<1>3. ASSUME NEW out, NEW recorded, Set(r, Answer(c, out, recorded))
      PROVE  calls'[r].path = c.path
  <2>1. Answer(c, out, recorded).path = c.path BY <1>1, Answering
  <2> QED BY <1>2, <1>3, <2>1
<1>4. ASSUME NEW o, Set(r, Ended(c, o)) \/ Set(r, Truncated(c, o))
      PROVE  calls'[r].path = c.path
  <2>1. Ended(c, o).path = c.path /\ Truncated(c, o).path = c.path
    BY <1>1 DEF Ended, Truncated, CallFields
  <2> QED BY <1>2, <1>4, <2>1
<1>5. ASSUME NEW stage, NEW bid, NEW told, NEW streamed,
             \/ Set(r, [c EXCEPT !.pc = stage])
             \/ Set(r, [c EXCEPT !.pc = stage, !.bid = bid])
             \/ Set(r, [c EXCEPT !.pc = stage, !.bid = bid, !.told = told])
             \/ Set(r, [c EXCEPT !.pc = stage, !.streamed = streamed])
      PROVE  calls'[r].path = c.path
  <2>1. /\ [c EXCEPT !.pc = stage].path = c.path
        /\ [c EXCEPT !.pc = stage, !.bid = bid].path = c.path
        /\ [c EXCEPT !.pc = stage, !.bid = bid, !.told = told].path = c.path
        /\ [c EXCEPT !.pc = stage, !.streamed = streamed].path = c.path
    BY <1>1 DEF CallFields
  <2> QED BY <1>2, <1>5, <2>1
<1>6. CASE Block(r) BY <1>3, <1>6 DEF Block
<1>7. CASE Finish(r) BY <1>3, <1>7 DEF Finish
<1>8. CASE Run(r) BY <1>4, <1>8 DEF Run
<1>9. CASE Stream(r) BY <1>4, <1>9 DEF Stream
<1>10. CASE Open(r) BY <1>4, <1>5, <1>10 DEF Open
<1>11. CASE Skip(r) BY <1>5, <1>11 DEF Skip
<1>12. CASE Capture(r) BY <1>5, <1>12 DEF Capture
<1>13. CASE CaptureUntold(r) BY <1>5, <1>13 DEF CaptureUntold
<1> QED BY <1>6, <1>7, <1>8, <1>9, <1>10, <1>11, <1>12, <1>13
    DEF CallStep, Submit, SubmitDeferred, SubmitCassandra, SubmitDocument, SubmitRestore,
        Arrives, Busy, Judge, RestoreSql, RestorePart

\* A restore that is answered with success was putting rows back, or had nothing
\* to assign.
LEMMA RestoreAnswered ==
    ASSUME IInv, StatementsNext, NEW r \in Req, calls'[r] # calls[r],
           calls'[r].pc = "answered", calls'[r].path = "restore",
           calls'[r].out \in {"ok", "nothing"}
    PROVE  calls[r].pc = "restore" \/ SubmitRestore(r)
<1>1. ~(DeleteBackup \/ Begin \/ Commit \/ Rollback \/ Edit \/ SetPolicies \/ Approve)
  BY Surroundings
<1>2. ~Crash BY DEF Crash, Idle
<1>3. PICK q \in Req : CallStep(q) BY <1>1, <1>2 DEF StatementsNext, CallStep
<1>4. q = r
  <2>1. Moves(q) BY <1>3, Moving
  <2> QED BY <2>1 DEF Moves
<1>5. ASSUME Submit(r) \/ SubmitDeferred(r) \/ SubmitCassandra(r) \/ SubmitDocument(r)
      PROVE  FALSE
  <2>1. PICK who, ask, intx :
          \E path \in {"live", "deferred", "cassandra", "documents"} :
              \E s \in conf.stmts, recorded \in BOOLEAN : Requests(r, who, path, s, ask, intx, recorded)
    BY <1>5, Requesting
  <2>2. PICK path \in {"live", "deferred", "cassandra", "documents"},
             s \in conf.stmts, recorded \in BOOLEAN : Requests(r, who, path, s, ask, intx, recorded)
    BY <2>1
  <2> DEFINE c == NewCall(who, path, s, ask, intx)
             d == Answer(c, "refused", recorded)
  <2>3. DOMAIN c = CallFields /\ c.path = path BY DEF NewCall, CallFields
  <2> HIDE DEF c
  <2>4. d.path = path BY <2>3, Answering
  <2> HIDE DEF d
  <2>5. calls' = [calls EXCEPT ![r] = c] \/ calls' = [calls EXCEPT ![r] = d]
    BY <2>2 DEF Requests, Set, c, d
  <2>6. calls'[r] \in {c, d} BY <2>5, Setting
  <2> QED BY <2>3, <2>4, <2>6
<1>6. ASSUME calls[r].pc \in {"capture", "run", "stream", "finish"}
      PROVE  FALSE
  <2>1. Sound(calls[r]) BY <1>6, UnderWay
  <2>2. calls[r].path # "restore" BY <1>6, <2>1 DEF Sound, Restores
  <2> QED BY <1>3, <1>4, <1>6, <2>2, PathKept
<1>7. ASSUME Judge(r)
      PROVE  FALSE
  <2> DEFINE c == calls[r]
  <2>1. DOMAIN c = CallFields BY <1>7, UnderWay DEF Sound, Judge
  <2>2. \/ \E out \in {"denied", "unreachable"}, recorded \in BOOLEAN :
             calls' = [calls EXCEPT ![r] = Answer(c, out, recorded)]
        \/ \E stage \in {"capture", "restore"} :
             calls' = [calls EXCEPT ![r] = [c EXCEPT !.pc = stage]]
    BY <1>7 DEF Judge, Set
  <2>3. ASSUME NEW out \in {"denied", "unreachable"}, NEW recorded \in BOOLEAN,
               calls' = [calls EXCEPT ![r] = Answer(c, out, recorded)]
        PROVE  FALSE
    <3>1. Answer(c, out, recorded).out = out BY <2>1, Answering
    <3> QED BY <2>3, <3>1, Setting
  <2>4. ASSUME NEW stage \in {"capture", "restore"},
               calls' = [calls EXCEPT ![r] = [c EXCEPT !.pc = stage]]
        PROVE  FALSE
    <3>1. [c EXCEPT !.pc = stage].pc = stage BY <2>1 DEF CallFields
    <3> QED BY <2>4, <3>1, Setting
  <2> QED BY <2>2, <2>3, <2>4
<1> QED BY <1>3, <1>4, <1>5, <1>6, <1>7
    DEF CallStep, Skip, Block, Capture, CaptureUntold, Run, Open, Stream, Finish,
        RestoreSql, RestorePart

\* A restore c of a write that took place, of rows nobody else changed since.
Clean(c) ==
    LET b == backups[c.bid]
    IN  c.reached /\ b.hit # {} /\ b.touched \cap b.keys = {}

\* A restore that puts rows back leaves those from before.
LEMMA PutsUndo ==
    ASSUME IInv, RowsInv, StatementsNext, NEW r \in Req,
           calls[r].pc = "restore", calls'[r] # calls[r], calls'[r].pc = "answered",
           calls'[r].out \in {"ok", "nothing"}, Clean(calls'[r]),
           NEW k \in backups[calls'[r].bid].keys
    PROVE  PutRight(backups[calls'[r].bid], k, rows'[k])
<1> DEFINE j == calls[r].bid
           b == backups[j]
<1>1. PICK ks : Puts(r, ks) BY RestoreStep
<1>2. /\ Undoes(calls[r]) /\ UndoesAll(r) /\ Faithful(b) /\ j \in 1..Len(backups)
      /\ b.keys \subseteq Key
  BY RestoreKnown DEF UndoesAll, Faithful
<1>3. rows \in Table /\ conf \in Confs BY DEF RowsInv, Typed, IInv
<1>4. /\ ks \subseteq calls[r].todo /\ calls[r].todo \subseteq ks /\ rows' = PutBack(b, ks)
      /\ calls[r].todo \subseteq b.keys /\ calls'[r].bid = j /\ calls'[r].reached = calls[r].reached
  BY <1>1, <1>2 DEF Puts, UndoesAll
<1> HIDE DEF b
<1>5. /\ k \in b.keys /\ calls[r].reached /\ b.hit # {} /\ k \notin b.touched
  BY <1>4 DEF Clean, b
<1>6. CASE k \in ks
  <2>1. Narrow(b) => Stays(b.before, rows, k, b.cols)
    BY <1>2, <1>5 DEF RowsInv, Standing, Counts, b
  <2>2. PutRight(b, k, PutBack(b, ks)[k])
    BY <1>2, <1>3, <1>4, <1>6, <2>1, PutBackUndoes DEF b
  <2> QED BY <1>4, <2>2 DEF b
<1>7. CASE k \notin ks
  <2>1. rows[k] = b.before[k] BY <1>2, <1>4, <1>5, <1>7 DEF RowsInv, Partial, b
  <2>2. rows'[k] = rows[k] BY <1>2, <1>3, <1>4, <1>5, <1>7, PutBackRows DEF b
  <2>3. conf.engine \notin SqlEngines BY <1>2, <1>4, <1>5, <1>7 DEF UndoesAll, b
  <2>4. conf.idents = {} BY <1>3, <2>3, IdentityColumns
  <2> QED BY <1>4, <2>1, <2>2, <2>4 DEF PutRight, b
<1> QED BY <1>6, <1>7

\* A restore that has nothing to assign leaves the rows of an UPDATE that are
\* still under their keys, the identity columns apart, as they were before it.
LEMMA NothingUndone ==
    ASSUME IInv, RowsInv, NEW r \in Req, SubmitRestore(r),
           calls'[r].pc = "answered", Clean(calls'[r]),
           NEW k \in backups[calls'[r].bid].keys
    PROVE  /\ calls'[r].out = "nothing" /\ backups[calls'[r].bid].kind = "update"
           /\ rows'[k] # Absent \/ conf.idents = {} =>
                  PutRight(backups[calls'[r].bid], k, rows'[k])
<1>1. PICK i \in 1..Len(backups) : \E d : Set(r, d) /\ Arrival(i, d) BY Arriving
<1>2. PICK d : Set(r, d) /\ Arrival(i, d) BY <1>1
<1> DEFINE b == backups[i]
<1>4. calls'[r] = d BY <1>2, Setting DEF Set
<1>5. /\ conf.engine \in SqlEngines /\ EmptyPlan(b) /\ d.out = "nothing" /\ d.bid = i
  BY <1>2, <1>4 DEF Arrival
<1> HIDE DEF b
<1>6. k \in b.keys /\ b.hit # {} /\ k \notin b.touched BY <1>4, <1>5 DEF Clean, b
<1>7. rows' = rows /\ Faithful(b) /\ b.kind = "update" /\ b.cols \subseteq conf.idents
  BY <1>5 DEF SubmitRestore, Arrives, RowsInv, Typed, EmptyPlan, Faithful, b
<1>8. rows[k] \in Row \cup {Absent} /\ b.before[k] \in Row
  BY <1>5, <1>6, <1>7 DEF RowsInv, Typed, Faithful, Table, Tabular
<1>9. CASE Narrow(b)
  <2>1. Stays(b.before, rows, k, b.cols) BY <1>6, <1>9 DEF RowsInv, Standing, Counts, b
  <2>2. \A col \in Columns \ conf.idents : rows[k][col] = b.before[k][col]
    BY <1>7, <2>1 DEF Stays
  <2>3. rows[k] # Absent BY <2>1 DEF Stays
  <2>4. conf.idents = {} => rows[k] = b.before[k] BY <1>8, <2>2, <2>3 DEF Row
  <2> QED BY <1>4, <1>5, <1>7, <2>2, <2>3, <2>4 DEF PutRight, b
<1>10. CASE ~Narrow(b)
  <2>1. Overlays(b) BY <1>5, <1>7 DEF Overlays, Tabular
  <2>2. Columns \subseteq conf.idents BY <1>7, <1>10, <2>1, WideColumns
  <2>3. conf.idents # {} BY <2>2 DEF Columns
  <2> QED BY <1>4, <1>5, <1>7, <2>2, <2>3 DEF PutRight, b
<1> QED BY <1>9, <1>10

\* Putting back the backup of a write that took place, over rows nobody else
\* changed since, leaves the rows from before the write, on any engine, in however
\* many parts, and whatever else goes on (rowbackup.go:392, 607): all of a row,
\* except the identity columns of an UPDATE in SQL (rowbackup.go:670); and where
\* the answer is that there was nothing to assign (rowbackup.go:674, 765), of the
\* rows that are still under their keys.
THEOREM UndoIsExact == StatementsSpec => RestoreIsUndo
<1> DEFINE Exact(r) ==
             LET c == calls'[r]
             IN  calls[r] # c /\ c.pc = "answered" /\ c.path = "restore" /\ c.out \in {"ok", "nothing"} =>
                   LET b == backups[c.bid]
                   IN  c.reached /\ b.hit # {} /\ b.touched \cap b.keys = {} =>
                         \A k \in b.keys :
                            IF b.kind = "delete" \/ conf.idents = {} THEN rows'[k] = b.before[k]
                            ELSE /\ c.out = "ok" => rows'[k] # Absent
                                 /\ rows'[k] # Absent => \A col \in Columns \ conf.idents : rows'[k][col] = b.before[k][col]
<1>1. ASSUME IInv, RowsInv, [StatementsNext]_svars, NEW r \in Req
      PROVE  Exact(r)
  <2>1. SUFFICES ASSUME calls[r] # calls'[r], calls'[r].pc = "answered", calls'[r].path = "restore",
                        calls'[r].out \in {"ok", "nothing"}, Clean(calls'[r]),
                        NEW k \in backups[calls'[r].bid].keys
                 PROVE  LET b == backups[calls'[r].bid]
                        IN  IF b.kind = "delete" \/ conf.idents = {} THEN rows'[k] = b.before[k]
                            ELSE /\ calls'[r].out = "ok" => rows'[k] # Absent
                                 /\ rows'[k] # Absent => \A col \in Columns \ conf.idents : rows'[k][col] = b.before[k][col]
    BY DEF Clean
  <2>2. StatementsNext BY <1>1, <2>1 DEF svars
  <2>3. calls[r].pc = "restore" \/ SubmitRestore(r) BY <1>1, <2>1, <2>2, RestoreAnswered
  <2>4. CASE calls[r].pc = "restore" BY <1>1, <2>1, <2>2, <2>4, PutsUndo DEF PutRight
  <2>5. CASE SubmitRestore(r) BY <1>1, <2>1, <2>5, NothingUndone DEF PutRight
  <2> QED BY <2>3, <2>4, <2>5
<1>2. IInv /\ RowsInv /\ [StatementsNext]_svars => \A r \in Req : Exact(r) BY <1>1
<1> QED BY <1>2, StatementsInvariant, RowsInvariant, PTL DEF StatementsSpec, RestoreIsUndo

\* What a step leaves of row k when it restores the UPDATE of backup b.
Spares(b, k) ==
    LET free == Columns \ (b.stmt.cols \cup Refreshed(conf.engine))
    IN  IF rows[k] = Absent THEN conf.engine = "cassandra" \/ rows'[k] = Absent
        ELSE rows'[k] # Absent /\ \A col \in free : rows'[k][col] = rows[k][col]

\* Putting back an UPDATE leaves what others wrote meanwhile to the columns it
\* did not write, and on a SQL engine never makes a row (rowbackup.go:392, 607;
\* cassandra_rowbackup.go:123).
THEOREM EditsSurvive == StatementsSpec => LaterEditsKept
<1> DEFINE Survive ==
             \A r \in Req :
               calls[r].pc = "restore" /\ calls'[r] # calls[r] /\ calls'[r].pc # "idle" =>
                  LET b == backups[calls[r].bid]
                      free == Columns \ (b.stmt.cols \cup Refreshed(conf.engine))
                  IN  conf.engine \in SqlEngines \cup {"cassandra"} /\ b.kind = "update" /\ b.stmt.listed /\ ~b.stmt.moves =>
                        \A k \in Key :
                           IF rows[k] = Absent THEN conf.engine = "cassandra" \/ rows'[k] = Absent
                           ELSE rows'[k] # Absent /\ \A col \in free : rows'[k][col] = rows[k][col]
<1>1. ASSUME IInv, RowsInv, [StatementsNext]_svars, NEW r \in Req,
             calls[r].pc = "restore", calls'[r] # calls[r], calls'[r].pc # "idle",
             conf.engine \in SqlEngines \cup {"cassandra"},
             backups[calls[r].bid].kind = "update",
             backups[calls[r].bid].stmt.listed, ~backups[calls[r].bid].stmt.moves,
             NEW k \in Key
      PROVE  Spares(backups[calls[r].bid], k)
  <2> DEFINE b == backups[calls[r].bid]
  <2>1. StatementsNext BY <1>1 DEF svars
  <2>2. PICK ks : Puts(r, ks) BY <1>1, <2>1, RestoreStep
  <2>3. Faithful(b) /\ ks \subseteq b.keys BY <1>1, <2>2, RestoreKnown DEF Puts, UndoesAll
  <2>4. rows \in Table /\ conf \in Confs BY <1>1 DEF RowsInv, Typed, IInv
  <2>5. Narrow(b) /\ Overlays(b) BY <1>1 DEF Narrow, Overlays, Tabular
  <2>6. b.cols = b.stmt.cols \cup Refreshed(conf.engine)
    BY <2>3, <2>4, <2>5, NarrowColumns
  <2>7. CASE rows' = rows BY <2>7 DEF Spares
  <2>8. CASE rows' = PutBack(b, ks) /\ rows' # rows
    <3>1. CASE rows[k] # Absent
      <4>1. Stays(rows, rows', k, b.cols)
        BY <2>3, <2>4, <2>5, <2>8, <3>1, PutBackStays
      <4> QED BY <2>6, <3>1, <4>1 DEF Stays, Spares
    <3>2. CASE rows[k] = Absent /\ conf.engine \in SqlEngines
      <4>1. k \notin ks BY <2>2, <2>5, <2>8, <3>2 DEF Puts, Present
      <4>2. rows'[k] = rows[k] BY <2>3, <2>4, <2>8, <4>1, PutBackRows
      <4> QED BY <3>2, <4>2 DEF Spares
    <3>3. CASE rows[k] = Absent /\ conf.engine = "cassandra" BY <3>3 DEF Spares
    <3> QED BY <1>1, <3>1, <3>2, <3>3
  <2> QED BY <2>2, <2>7, <2>8 DEF Puts
<1>2. IInv /\ RowsInv /\ [StatementsNext]_svars => Survive
  <2> HIDE DEF Survive
  <2> SUFFICES ASSUME IInv, RowsInv, [StatementsNext]_svars PROVE Survive OBVIOUS
  <2> QED BY <1>1 DEF Spares, Survive
<1> QED BY <1>2, StatementsInvariant, RowsInvariant, PTL DEF StatementsSpec, LaterEditsKept
==============================================================================
