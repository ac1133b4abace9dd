--------------------------- MODULE SchedulerProofs ---------------------------
(***************************************************************************)
(* What is proved of Scheduler, for any queries, inputs, bounds and number *)
(* of processes.  A time computed from a schedule is later than the time   *)
(* it was computed at: that, with the advance that comes before the start, *)
(* is why no instant starts two runs.                                      *)
(***************************************************************************)
EXTENDS Scheduler, WellFoundedInduction, FiniteSetTheorems, TLAPS

(* Arithmetic *)

\* Every nonempty set of numbers has a least one: the intervals from 0 to its
\* members are well ordered by inclusion.
LEMMA Least ==
    ASSUME NEW T \in SUBSET Nat, T # {}
    PROVE  \E x \in T : \A y \in T : x <= y
<1> DEFINE U == {0..n : n \in T}
<1>1. U \subseteq FiniteSubsetsOf(Nat) /\ U # {}
  <2>1. ASSUME NEW n \in T PROVE 0..n \in FiniteSubsetsOf(Nat)
    <3>1. IsFiniteSet(0..n) BY FS_Interval
    <3>2. 0..n \in SUBSET Nat OBVIOUS
    <3> QED BY <3>1, <3>2 DEF FiniteSubsetsOf
  <2>2. PICK n \in T : TRUE OBVIOUS
  <2>3. 0..n \in U BY <2>2
  <2> QED BY <2>1, <2>3
<1>2. PICK u \in U : \A v \in U : ~ (<<v, u>> \in StrictSubsetOrdering(Nat))
  <2> HIDE DEF U
  <2> QED BY <1>1, WFMin, FS_StrictSubsetOrderingWellFounded, Zenon
<1>3. PICK x \in T : u = 0..x BY <1>2
<1>4. ASSUME NEW y \in T, y < x PROVE FALSE
  <2>1. 0..y \in U /\ 0..y \subseteq 0..x /\ 0..y # 0..x
    <3>1. x \in 0..x /\ x \notin 0..y BY <1>4
    <3> QED BY <1>4, <3>1
  <2>2. 0..y \in SUBSET Nat /\ 0..x \in SUBSET Nat OBVIOUS
  <2>3. <<0..y, u>> \in StrictSubsetOrdering(Nat)
    BY <2>1, <2>2, <1>3 DEF StrictSubsetOrdering
  <2> QED BY <2>1, <2>3, <1>2
<1> QED BY <1>4

\* An instant lies in its day.
LEMMA Days ==
    ASSUME NEW t \in Nat, NEW d \in Nat \ {0}
    PROVE  t \div d \in Nat /\ t < (t \div d + 1) * d
  OBVIOUS

\* An instant made of a day and a time of day is in that day.
LEMMA DayOf ==
    ASSUME NEW d \in Nat \ {0}, NEW n \in Nat, NEW at \in 0..(d - 1)
    PROVE  (n * d + at) \div d = n
  OBVIOUS

\* The seven days after a day have every day of the week.
LEMMA WeekDay ==
    ASSUME NEW a \in Nat, NEW d \in 0..6
    PROVE  \E o \in 1..7 : (a + o) % 7 = d
<1>1. ASSUME NEW r \in 0..6, a % 7 = r PROVE \E o \in 1..7 : (a + o) % 7 = d
  OBVIOUS
<1> QED BY <1>1

\* A valid schedule is an interval of at least one tick, or has a time of day
\* and, if it is weekly, a day.
LEMMA ValidCases ==
    ASSUME NEW spec, ValidSpec(spec)
    PROVE  \/ spec.kind = "interval" /\ spec.every \in MinEvery..MaxEvery
           \/ spec.kind = "daily" /\ spec.at \in 0..(DayLength - 1)
           \/ /\ spec.kind = "weekly" /\ spec.at \in 0..(DayLength - 1)
              /\ spec.days # {} /\ spec.days \subseteq 0..6
  BY DEF ValidSpec

\* A schedule with a time of day has a candidate within the next eight days.
LEMMA SomeCandidate ==
    ASSUME NEW spec, ValidSpec(spec), spec.kind # "interval", NEW after \in Nat
    PROVE  /\ Candidates(spec, after) # {}
           /\ Candidates(spec, after) \in SUBSET Nat
           /\ \A t \in Candidates(spec, after) : t > after
<1> USE SchedulerAssumption
<1> DEFINE today == after \div DayLength
           At_(n) == n * DayLength + spec.at
<1>1. /\ today \in Nat /\ after < (today + 1) * DayLength
      /\ spec.at \in 0..(DayLength - 1)
      /\ spec.kind = "weekly" => spec.days # {} /\ spec.days \subseteq 0..6
  <2>1. today \in Nat /\ after < (today + 1) * DayLength BY Days
  <2> QED BY <2>1, ValidCases
<1> HIDE DEF today
<1>2. PICK o \in 1..7 :
          spec.kind = "weekly" => (today + o) % 7 \in spec.days
  <2>1. CASE spec.kind = "weekly"
    <3>1. PICK d \in 0..6 : d \in spec.days BY <1>1, <2>1
    <3>2. PICK o \in 1..7 : (today + o) % 7 = d BY <1>1, WeekDay
    <3> QED BY <3>1, <3>2
  <2> QED BY <2>1
<1>3. At_(today + o) \div DayLength = today + o
  <2>1. today + o \in Nat /\ DayLength \in Nat \ {0} BY <1>1
  <2> QED BY <2>1, <1>1, DayOf, Zenon
<1>4. At_(today + o) > after
  <2>1. (today + 1) * DayLength <= (today + o) * DayLength BY <1>1
  <2> QED BY <1>1, <2>1
<1>5. At_(today + o) \in Candidates(spec, after)
  BY <1>2, <1>3, <1>4 DEF Candidates, today
<1>6. ASSUME NEW t \in Candidates(spec, after) PROVE t \in Nat /\ t > after
  BY <1>1 DEF Candidates, today
<1> QED BY <1>5, <1>6

\* scheduleSpec.next is later than the time it starts from.
LEMMA NextIsLater ==
    ASSUME NEW spec, ValidSpec(spec), NEW after \in Nat
    PROVE  NextRun(spec, after) \in Nat /\ NextRun(spec, after) > after
<1>1. CASE spec.kind = "interval"
  BY <1>1, ValidCases, SchedulerAssumption DEF NextRun
<1>2. CASE spec.kind # "interval"
  <2> DEFINE T == Candidates(spec, after)
  <2>1. T # {} /\ T \in SUBSET Nat /\ \A t \in T : t > after
    BY <1>2, SomeCandidate
  <2> HIDE DEF T
  <2>2. Min(T) \in T BY <2>1, Least DEF Min
  <2> QED BY <1>2, <2>1, <2>2 DEF NextRun, T
<1> QED BY <1>1, <1>2

-----------------------------------------------------------------------------
(* The inductive invariant.  A run is told by the version of the query it  *)
(* was due under; what the loop holds in hand was read before, maybe, the  *)
(* row got its present version.                                            *)

GoodInputs == {in \in Inputs : Valid(in)}

Rows  == [in : GoodInputs, rev : Nat, next : Nat]
Items == [q : Query, row : Rows]
Path  == {<<>>} \cup ({in.name : in \in Inputs} \X Nat)
Tasks == [at : {"create", "execute", "write", "finish"}, q : Query,
          name : {in.name : in \in Inputs}, path : Path]
Runs  == [q : Query, status : {"running", "success", "error"}, path : Path,
          written : Nat, life : Nat, stuck : BOOLEAN]
Counts == [runs : Nat, saves : Nat, lives : Nat, faults : Nat]

TypeOK ==
    /\ now \in Nat
    /\ DOMAIN query \subseteq Query /\ query \in [DOMAIN query -> Rows]
    /\ deleted \in SUBSET Query
    /\ DOMAIN rows \subseteq Nat /\ rows \in [DOMAIN rows -> Runs]
    /\ DOMAIN files \subseteq Path /\ files \in [DOMAIN files -> SUBSET Nat]
    /\ DOMAIN partial \subseteq Path /\ partial \in [DOMAIN partial -> Nat]
    /\ server \in {"up", "closing", "waited", "closed", "down"}
    /\ loop \in [at : {"asleep", "due", "advance", "start"}, tick : Nat,
                 items : SUBSET Items, picked : SUBSET Items]
    /\ owner \in SUBSET Items
    /\ running \in SUBSET Query
    /\ DOMAIN task \subseteq Nat /\ task \in [DOMAIN task -> Tasks]
    /\ started \in SUBSET [q : Query, rev : Nat, due : Nat, run : Nat]
    /\ count \in Counts

\* What the loop has in hand: at most one item of a query, due at its tick.
InHand == loop.items \cup loop.picked

OnePass ==
    /\ loop.at # "start" => loop.picked = {}
    /\ loop.at \in {"asleep", "due"} => loop.items = {}
    /\ loop.items \cap loop.picked = {}
    /\ \A a, b \in InHand : a.q = b.q => a = b
    /\ \A a \in InHand : a.row.next <= loop.tick

\* The version about to be stored is newer than all others.
Versions ==
    /\ \A o \in owner :
        /\ o.row.rev <= count.saves
        /\ \A q \in DOMAIN query : query[q].rev < o.row.rev
        /\ \A a \in InHand : a.row.rev < o.row.rev
        /\ \A s \in started : s.rev < o.row.rev
    /\ \A q \in DOMAIN query : query[q].rev <= count.saves
    /\ \A a \in InHand : a.row.rev <= count.saves
    /\ \A s \in started : s.rev <= count.saves

\* What was started is behind the row, and behind what is in hand.
Behind(s, row) == s.rev <= row.rev /\ (s.rev = row.rev => s.due < row.next)

NeverAgain ==
    /\ \A s \in started :
        /\ s.q \in DOMAIN query => Behind(s, query[s.q])
        /\ \A a \in InHand : a.q = s.q => Behind(s, a.row)
    /\ \A a \in InHand : a.q \in DOMAIN query => a.row.rev <= query[a.q].rev
    /\ \A a \in loop.picked :
           a.q \in DOMAIN query /\ query[a.q].rev = a.row.rev =>
               a.row.next < query[a.q].next

\* scheduleRunning holds the queries of the goroutines, each of a run of its own.
OneRunEach ==
    /\ \A a, b \in DOMAIN task : task[a].q = task[b].q => a = b
    /\ \A q \in running : \E r \in DOMAIN task : task[r].q = q
    /\ \A r \in DOMAIN task : task[r].q \in running
    /\ \A r \in DOMAIN task \cup DOMAIN rows : r <= count.runs

\* A run keeps its row, the newest of its query, until the query is deleted.
RowsKept ==
    \A r \in DOMAIN task :
        /\ \A s \in DOMAIN rows : rows[s].q = task[r].q => s <= r
        /\ task[r].at = "create" => r \notin DOMAIN rows
        /\ task[r].at # "create" => r \in DOMAIN rows \/ task[r].q \in deleted
        /\ r \in DOMAIN rows => rows[r].q = task[r].q

Shown ==
    /\ server = "up" => \A r \in DOMAIN rows :
         rows[r].status = "running" /\ rows[r].life = count.lives =>
             r \in DOMAIN task \/ rows[r].stuck
    /\ \A r \in DOMAIN rows : rows[r].life <= count.lives
    /\ \A r \in DOMAIN rows : rows[r].status = "success" => r \in PutAt(files, rows[r].path)
    /\ \A r \in DOMAIN task : task[r].at = "finish" => r \in PutAt(files, task[r].path)

\* What is half-written is being written, or was when its process ended.
Written ==
    /\ \A p \in DOMAIN partial : partial[p] <= count.lives
    /\ server \in {"up", "closing", "waited"} => \A p \in DOMAIN partial :
         partial[p] = count.lives =>
             \E r \in DOMAIN task : task[r].at = "write" /\ task[r].path = p
    /\ server = "waited" => \A r \in DOMAIN task : task[r].at = "create"
    /\ server = "closed" => \A p \in DOMAIN partial : partial[p] < count.lives

IInv ==
    /\ TypeOK /\ OnePass /\ Versions /\ NeverAgain
    /\ OneRunEach /\ RowsKept /\ Shown /\ Written

-----------------------------------------------------------------------------
(* Types *)

\* What a failing statement leaves of the counts: all but its own.
SameCount ==
    /\ count' \in Counts
    /\ count'.runs = count.runs /\ count'.saves = count.saves
    /\ count'.lives = count.lives

\* A statement that fails counts as one more failure and nothing else.
LEMMA Counted ==
    ASSUME TypeOK
    PROVE  UNCHANGED count \/ StoreFails => SameCount
  BY DEF TypeOK, StoreFails, SameCount, Counts

\* A row is made of a valid input, and its next run is a time or NULL.
LEMMA RowMade ==
    ASSUME NEW in \in Inputs, Valid(in), NEW t \in Nat, NEW rev \in Nat
    PROVE  Row(in, t, rev) \in Rows /\ Row(in, t, rev).rev = rev
<1>1. NextOf(in, t) \in Nat
  <2>1. CASE in.enabled
    <3>1. ValidSpec(in.spec) BY DEF Valid
    <3> QED BY <2>1, <3>1, NextIsLater DEF NextOf
  <2>2. CASE ~in.enabled BY <2>2 DEF NextOf
  <2> QED BY <2>1, <2>2
<1> QED BY <1>1 DEF Row, Rows, GoodInputs

\* Advancing sets one next run, later than the loop's tick.
LEMMA Advancing ==
    ASSUME TypeOK, NEW item \in Items
    PROVE  LET t == NextRun(item.row.in.spec, loop.tick)
           IN  /\ t \in Nat /\ t > loop.tick
               /\ Advanced(item) = IF item.q \in DOMAIN query
                                   THEN [query EXCEPT ![item.q].next = t] ELSE query
               /\ Advanced(item) \in [DOMAIN query -> Rows]
<1> DEFINE t == NextRun(item.row.in.spec, loop.tick)
<1>1. t \in Nat /\ t > loop.tick
  <2>1. Valid(item.row.in) BY DEF Items, Rows, GoodInputs
  <2>2. ValidSpec(item.row.in.spec) BY <2>1 DEF Valid
  <2>3. loop.tick \in Nat BY DEF TypeOK
  <2> QED BY <2>2, <2>3, NextIsLater
<1> HIDE DEF t
<1>2. Advanced(item) = IF item.q \in DOMAIN query
                       THEN [query EXCEPT ![item.q].next = t] ELSE query
  BY DEF Advanced, t
<1>3. Advanced(item) \in [DOMAIN query -> Rows]
  BY <1>1, <1>2 DEF TypeOK, Rows
<1> QED BY <1>1, <1>2, <1>3 DEF t

\* A run that starts is a new one, at its first stage, of a query that has none.
LEMMA Starting ==
    ASSUME TypeOK, OneRunEach, NEW item \in Items, NEW trigger,
           StartScheduled(item, trigger)
    PROVE  LET run == count.runs + 1
           IN  /\ item.q \notin running /\ running' = running \cup {item.q}
               /\ count' = [count EXCEPT !.runs = run]
               /\ DOMAIN task' = DOMAIN task \cup {run} /\ run \notin DOMAIN task
               /\ task'[run].q = item.q /\ task'[run].at = "create"
               /\ \A r \in DOMAIN task : task'[r] = task[r]
               /\ task' \in [DOMAIN task' -> Tasks] /\ DOMAIN task' \subseteq Nat
               /\ started' = IF trigger = "schedule"
                     THEN started \cup {[q |-> item.q, rev |-> item.row.rev,
                                         due |-> item.row.next, run |-> run]}
                     ELSE started
<1> USE DEF TypeOK
<1> DEFINE run == count.runs + 1
           new == [at |-> "create", q |-> item.q, name |-> item.row.in.name,
                   path |-> <<>>]
<1>1. run \in Nat /\ run \notin DOMAIN task BY DEF OneRunEach, Counts
<1>2. new \in Tasks BY DEF Tasks, Path, Items, Rows, GoodInputs
<1>3. task' = [r \in DOMAIN task \cup {run} |-> IF r = run THEN new ELSE task[r]]
  BY DEF StartScheduled, With
<1> HIDE DEF new
<1>4. /\ DOMAIN task' = DOMAIN task \cup {run} /\ task'[run] = new
      /\ \A r \in DOMAIN task : task'[r] = task[r]
      /\ task' \in [DOMAIN task' -> Tasks] /\ DOMAIN task' \subseteq Nat
  BY <1>1, <1>2, <1>3
<1>5. new.q = item.q /\ new.at = "create" BY DEF new
<1> QED BY <1>1, <1>4, <1>5 DEF StartScheduled, Startable

\* A run that leaves takes its task and its query's place with it.
LEMMA Leaving ==
    ASSUME TypeOK, NEW r \in DOMAIN task, Leaves(r)
    PROVE  /\ running' = running \ {task[r].q}
           /\ DOMAIN task' = DOMAIN task \ {r}
           /\ \A x \in DOMAIN task \ {r} : task'[x] = task[x]
           /\ task' \in [DOMAIN task' -> Tasks] /\ DOMAIN task' \subseteq Nat
           /\ running' \in SUBSET Query
  BY DEF TypeOK, Leaves, Only

\* A run that goes on keeps all but its stage.
LEMMA Going ==
    ASSUME TypeOK, NEW r \in DOMAIN task,
           NEW stage \in {"create", "execute", "write", "finish"}, Goes(r, stage)
    PROVE  /\ running' = running /\ DOMAIN task' = DOMAIN task
           /\ task'[r] = [task[r] EXCEPT !.at = stage]
           /\ task'[r].q = task[r].q /\ task'[r].path = task[r].path
           /\ task'[r].at = stage
           /\ \A x \in DOMAIN task \ {r} : task'[x] = task[x]
           /\ task' \in [DOMAIN task' -> Tasks] /\ DOMAIN task' \subseteq Nat
  BY DEF TypeOK, Goes, Tasks

\* The last statement of a run touches its own row, if it is there; failing, it
\* leaves what the row says.
LEMMA Finishing ==
    ASSUME TypeOK, NEW r, NEW status \in {"success", "error"},
           NEW path, path \in Path, NEW n \in Nat, FinishRow(r, status, path, n)
    PROVE  /\ DOMAIN rows' = DOMAIN rows
           /\ \A s \in DOMAIN rows \ {r} : rows'[s] = rows[s]
           /\ r \in DOMAIN rows =>
                /\ rows'[r].q = rows[r].q /\ rows'[r].life = rows[r].life
                /\ \/ rows'[r].status = status /\ rows'[r].path = path
                   \/ /\ rows'[r].status = rows[r].status
                      /\ rows'[r].path = rows[r].path /\ rows'[r].stuck
           /\ rows' \in [DOMAIN rows' -> Runs]
           /\ SameCount
<1> DEFINE On(row) == rows' = IF r \in DOMAIN rows
                              THEN [rows EXCEPT ![r] = row] ELSE rows
           ended == [rows[r] EXCEPT !.status = status, !.path = path, !.written = n]
           stays == [rows[r] EXCEPT !.stuck = TRUE]
<1>1. /\ On(ended) \/ On(stays)
      /\ SameCount
  BY Counted DEF FinishRow
<1>2. CASE r \in DOMAIN rows
  <2>1. rows[r] \in Runs BY <1>2 DEF TypeOK
  <2>2. /\ ended \in Runs /\ ended.q = rows[r].q /\ ended.life = rows[r].life
        /\ ended.status = status /\ ended.path = path
    BY <2>1 DEF Runs
  <2>3. /\ stays \in Runs /\ stays.q = rows[r].q /\ stays.life = rows[r].life
        /\ stays.status = rows[r].status /\ stays.path = rows[r].path /\ stays.stuck
    BY <2>1 DEF Runs
  <2>4. PICK row : /\ rows' = [rows EXCEPT ![r] = row]
                   /\ row = ended \/ row = stays
    BY <1>1, <1>2
  <2> HIDE DEF ended, stays, On
  <2>5. /\ DOMAIN rows' = DOMAIN rows /\ rows'[r] = row
        /\ \A s \in DOMAIN rows \ {r} : rows'[s] = rows[s]
        /\ rows' \in [DOMAIN rows' -> Runs]
    BY <1>2, <2>2, <2>3, <2>4 DEF TypeOK
  <2> QED BY <1>1, <2>2, <2>3, <2>4, <2>5
<1>3. CASE r \notin DOMAIN rows
  <2>1. rows' = rows BY <1>1, <1>3
  <2> QED BY <1>1, <1>3, <2>1 DEF TypeOK
<1> QED BY <1>2, <1>3

\* The row of a run that begins.
LEMMA RowBegun ==
    ASSUME TypeOK, NEW r \in DOMAIN task
    PROVE  \A stuck \in BOOLEAN :
               /\ Begun(r, stuck) \in Runs /\ Begun(r, stuck).q = task[r].q
               /\ Begun(r, stuck).status = "running"
               /\ Begun(r, stuck).life = count.lives
               /\ Begun(r, stuck).stuck = stuck
  BY DEF Begun, TypeOK, Runs, Tasks, Path, Counts

\* Adding a row changes no other.
LEMMA RowAdded ==
    ASSUME TypeOK, NEW r \in DOMAIN task, NEW new \in Runs
    PROVE  LET added == With(rows, r, new)
           IN  /\ DOMAIN added = DOMAIN rows \cup {r} /\ added[r] = new
               /\ \A s \in DOMAIN rows \ {r} : added[s] = rows[s]
               /\ added \in [DOMAIN added -> Runs] /\ DOMAIN added \subseteq Nat
  BY DEF With, TypeOK

\* CreateScheduledRun keeps the new row, being the newest of its query, and
\* drops none of another query's.
LEMMA Creating ==
    ASSUME TypeOK, OneRunEach, RowsKept, NEW r \in DOMAIN task, CreateRun(r)
    PROVE  /\ SameCount
           /\ \/ Leaves(r) /\ UNCHANGED rows
              \/ /\ Goes(r, "execute") /\ task[r].q \in DOMAIN query /\ ~Cancelled
                 /\ r \in DOMAIN rows' /\ DOMAIN rows' \subseteq DOMAIN rows \cup {r}
                 /\ rows'[r] = Begun(r, FALSE) /\ Begun(r, FALSE) \in Runs
                 /\ \A s \in DOMAIN rows' \ {r} : rows'[s] = rows[s]
                 /\ \A s \in DOMAIN rows :
                        rows[s].q # task[r].q => s \in DOMAIN rows'
                 /\ rows' \in [DOMAIN rows' -> Runs] /\ DOMAIN rows' \subseteq Nat
<1> DEFINE added == With(rows, r, Begun(r, FALSE))
<1>0. SameCount
  <2>1. UNCHANGED count \/ StoreFails BY DEF CreateRun, Stopped
  <2> QED BY <2>1, Counted
<1>1. CASE Leaves(r) /\ UNCHANGED rows
  BY <1>0, <1>1
<1>2. CASE /\ ~Cancelled /\ task[r].q \in DOMAIN query /\ Goes(r, "execute")
           /\ rows' = Only(added, Latest(task[r].q, added))
  <2>1. /\ Goes(r, "execute") /\ rows' = Only(added, Latest(task[r].q, added))
    BY <1>2
  <2>2. /\ Begun(r, FALSE) \in Runs
        /\ DOMAIN added = DOMAIN rows \cup {r} /\ added[r] = Begun(r, FALSE)
        /\ \A s \in DOMAIN rows \ {r} : added[s] = rows[s]
        /\ added \in [DOMAIN added -> Runs] /\ DOMAIN added \subseteq Nat
    <3> DEFINE new == Begun(r, FALSE)
    <3>1. new \in Runs BY RowBegun
    <3> HIDE DEF new
    <3>2. LET all == With(rows, r, new)
          IN  /\ DOMAIN all = DOMAIN rows \cup {r} /\ all[r] = new
              /\ \A s \in DOMAIN rows \ {r} : all[s] = rows[s]
              /\ all \in [DOMAIN all -> Runs] /\ DOMAIN all \subseteq Nat
      BY <3>1, RowAdded
    <3> QED BY <3>1, <3>2 DEF new
  <2>3. Begun(r, FALSE).q = task[r].q BY RowBegun
  <2> HIDE DEF added
  <2>4. r \in Latest(task[r].q, added)
    <3>1. {s \in DOMAIN added : added[s].q = task[r].q /\ s > r} = {}
      BY <2>2 DEF RowsKept, TypeOK
    <3>2. Cardinality({}) < Kept BY FS_EmptySet, SchedulerAssumption
    <3> QED BY <2>2, <3>1, <3>2 DEF Latest
  <2>5. \A s \in DOMAIN rows : rows[s].q # task[r].q => s \in Latest(task[r].q, added)
    BY <2>2, <2>3 DEF Latest, RowsKept
  <2>6. Latest(task[r].q, added) \subseteq DOMAIN added BY DEF Latest
  <2>7. /\ DOMAIN rows' = Latest(task[r].q, added)
        /\ \A s \in DOMAIN rows' : rows'[s] = added[s]
        /\ rows' = [s \in DOMAIN rows' |-> rows'[s]]
    BY <2>1, <2>6 DEF Only
  <2> QED BY <1>0, <1>2, <2>1, <2>2, <2>4, <2>5, <2>6, <2>7
<1> QED BY <1>1, <1>2 DEF CreateRun

\* What CreateRunIsCut does: the row is there, stuck, and the run is gone.
LEMMA Cutting ==
    ASSUME TypeOK, NEW r \in DOMAIN task, CreateRunIsCut(r)
    PROVE  /\ SameCount /\ Leaves(r) /\ task[r].at = "create"
           /\ server # "waited"
           /\ DOMAIN rows' = DOMAIN rows \cup {r} /\ rows'[r] = Begun(r, TRUE)
           /\ Begun(r, TRUE) \in Runs
           /\ \A s \in DOMAIN rows \ {r} : rows'[s] = rows[s]
           /\ rows' \in [DOMAIN rows' -> Runs] /\ DOMAIN rows' \subseteq Nat
<1>1. SameCount
  <2>1. UNCHANGED count \/ StoreFails BY DEF CreateRunIsCut, Stopped
  <2> QED BY <2>1, Counted
<1>2. PICK new : new = Begun(r, TRUE) OBVIOUS
<1>3. /\ rows' = With(rows, r, new) /\ Leaves(r) /\ task[r].at = "create"
      /\ server # "waited"
  BY <1>2 DEF CreateRunIsCut, At
<1>4. new \in Runs BY <1>2, RowBegun
<1> QED BY <1>1, <1>2, <1>3, <1>4, RowAdded

\* Nothing is saved, running or written to begin with.
LEMMA TypeInit == Init => TypeOK
<1> SUFFICES ASSUME Init PROVE TypeOK OBVIOUS
<1>1. DOMAIN [q \in {} |-> 0] = {} OBVIOUS
<1> QED BY <1>1 DEF Init, InitAt, TypeOK, Asleep, Counts

\* Each step keeps the types: a next run is a time, a row is a run's.
LEMMA TypeNext ==
    ASSUME TypeOK, OneRunEach, RowsKept, Next
    PROVE  TypeOK'
<1> USE DEF store, disk, mind
<1>1. CASE Clock BY <1>1 DEF Clock, TypeOK
<1>2. ASSUME NEW q \in Query, NEW in \in Inputs, Save(q, in) PROVE TypeOK'
  <2>1. count'.saves \in Nat /\ count' \in Counts
    BY <1>2 DEF Save, TypeOK, Counts
  <2>2. Row(in, now, count'.saves) \in Rows BY <1>2, <2>1, RowMade DEF Save, TypeOK
  <2>3. owner' \in SUBSET Items BY <1>2, <2>2 DEF Save, Items
  <2> QED BY <1>2, <2>1, <2>3 DEF Save, TypeOK
<1>3. CASE Store
  <2>1. PICK item \in owner : query' = With(query, item.q, item.row)
    BY <1>3 DEF Store
  <2>2. item.q \in Query /\ item.row \in Rows BY DEF TypeOK, Items
  <2>3. query' \in [DOMAIN query' -> Rows] /\ DOMAIN query' \subseteq Query
    BY <2>1, <2>2 DEF With, TypeOK
  <2> QED BY <1>3, <2>3 DEF Store, TypeOK
<1>4. ASSUME NEW q \in Query, Delete(q) PROVE TypeOK'
  <2>1. query' \in [DOMAIN query' -> Rows] /\ DOMAIN query' \subseteq Query
    BY <1>4 DEF Delete, Only, TypeOK
  <2>2. rows' \in [DOMAIN rows' -> Runs] /\ DOMAIN rows' \subseteq Nat
    BY <1>4 DEF Delete, Only, TypeOK
  <2>3. deleted' \in SUBSET Query BY <1>4 DEF Delete, TypeOK
  <2> QED BY <1>4, <2>1, <2>2, <2>3 DEF Delete, TypeOK
<1>5. ASSUME NEW item \in Items, NEW trigger, StartScheduled(item, trigger)
      PROVE  /\ task' \in [DOMAIN task' -> Tasks] /\ DOMAIN task' \subseteq Nat
             /\ running' \in SUBSET Query
             /\ count' \in Counts
             /\ started' \in SUBSET [q : Query, rev : Nat, due : Nat, run : Nat]
  <2>1. item.q \in Query /\ item.row.rev \in Nat /\ item.row.next \in Nat
    BY DEF Items, Rows
  <2> QED BY <1>5, <2>1, Starting DEF TypeOK, Counts
<1>6. ASSUME NEW q \in Query, RunNow(q) PROVE TypeOK'
  <2>1. [q |-> q, row |-> query[q]] \in Items BY <1>6 DEF RunNow, Items, TypeOK
  <2> QED BY <1>6, <1>5, <2>1 DEF RunNow, TypeOK
<1>7. CASE StartDue
  <2>1. loop' \in [at : {"asleep", "due", "advance", "start"}, tick : Nat,
                   items : SUBSET Items, picked : SUBSET Items]
    BY <1>7 DEF StartDue, NextItem, TypeOK
  <2>2. PICK item \in loop.picked :
             \/ StartScheduled(item, "schedule")
             \/ UNCHANGED <<count, mind, started>>
    BY <1>7 DEF StartDue
  <2>3. item \in Items BY DEF TypeOK
  <2> QED BY <1>7, <1>5, <2>1, <2>2, <2>3 DEF StartDue, TypeOK
<1>8. CASE Wake
  <2>0. PICK t : loop' = [loop EXCEPT !.at = "due", !.tick = t] /\ t \in Nat
    <3>1. PICK t \in ((loop.tick + 1)..now) \union ({MaxTime} \intersect {now}) :
               loop' = [loop EXCEPT !.at = "due", !.tick = t]
      BY <1>8 DEF Wake
    <3>2. t \in Nat BY DEF TypeOK
    <3> QED BY <3>1, <3>2
  <2>1. loop' \in [at : {"asleep", "due", "advance", "start"}, tick : Nat,
                   items : SUBSET Items, picked : SUBSET Items]
    BY <2>0 DEF TypeOK
  <2> QED BY <1>8, <2>1 DEF Wake, TypeOK
<1>9. CASE ReadDue
  <2>1. {[q |-> q, row |-> query[q]] : q \in DueQueries(loop.tick)} \in SUBSET Items
    BY DEF DueQueries, Items, TypeOK
  <2>2. loop' \in [at : {"asleep", "due", "advance", "start"}, tick : Nat,
                   items : SUBSET Items, picked : SUBSET Items]
    BY <1>9, <2>1 DEF ReadDue, NextItem, TypeOK
  <2>3. count' \in Counts
    <3>1. UNCHANGED count \/ StoreFails BY <1>9 DEF ReadDue, Stopped
    <3> QED BY <3>1, Counted DEF SameCount
  <2> QED BY <1>9, <2>2, <2>3 DEF ReadDue, TypeOK
<1>10. CASE Advance
  <2>1. PICK item \in loop.items :
          LET rest == [loop EXCEPT !.items = @ \ {item}, !.picked = {item}]
          IN  /\ query' = query \/ query' = Advanced(item)
              /\ loop' = NextItem(rest) \/ loop' = [rest EXCEPT !.at = "start"]
              /\ UNCHANGED count \/ StoreFails
    BY <1>10 DEF Advance, Stopped
  <2>2. item \in Items BY DEF TypeOK
  <2>3. query' \in [DOMAIN query' -> Rows] /\ DOMAIN query' \subseteq Query
    BY <2>1, <2>2, Advancing DEF TypeOK
  <2>4. loop' \in [at : {"asleep", "due", "advance", "start"}, tick : Nat,
                   items : SUBSET Items, picked : SUBSET Items]
    <3> DEFINE rest == [loop EXCEPT !.items = @ \ {item}, !.picked = {item}]
    <3>1. rest \in [at : {"asleep", "due", "advance", "start"}, tick : Nat,
                    items : SUBSET Items, picked : SUBSET Items]
      BY <2>2 DEF TypeOK
    <3>2. loop' = NextItem(rest) \/ loop' = [rest EXCEPT !.at = "start"] BY <2>1
    <3> HIDE DEF rest
    <3> QED BY <3>1, <3>2 DEF NextItem
  <2>5. count' \in Counts
    <3>1. UNCHANGED count \/ StoreFails BY <1>10 DEF Advance, Stopped
    <3> QED BY <3>1, Counted DEF SameCount
  <2> QED BY <1>10, <2>3, <2>4, <2>5 DEF Advance, TypeOK
<1>11. ASSUME NEW r, CreateRun(r) PROVE TypeOK'
  <2>1. r \in DOMAIN task BY <1>11 DEF CreateRun, At
  <2> QED BY <1>11, <2>1, Creating, Leaving, Going DEF CreateRun, TypeOK, SameCount
<1>12. ASSUME NEW r, CreateRunIsCut(r) PROVE TypeOK'
  <2>1. r \in DOMAIN task BY <1>12 DEF CreateRunIsCut, At
  <2> QED BY <1>12, <2>1, Cutting, Leaving DEF CreateRunIsCut, TypeOK, SameCount
<1>13. ASSUME NEW r, Refuse(r) PROVE TypeOK'
  <2>1. r \in DOMAIN task /\ <<>> \in Path /\ 0 \in Nat BY <1>13 DEF Refuse, At, Path
  <2>2. rows' \in [DOMAIN rows' -> Runs] /\ DOMAIN rows' = DOMAIN rows /\ SameCount
    BY <1>13, <2>1, Finishing DEF Refuse
  <2> QED BY <1>13, <2>1, <2>2, Leaving DEF Refuse, TypeOK, SameCount
<1>14. ASSUME NEW r, OpenPartial(r) PROVE TypeOK'
  <2> DEFINE path == <<task[r].name, now>>
  <2>1. r \in DOMAIN task /\ path \in Path
    BY <1>14 DEF OpenPartial, At, Path, TypeOK, Tasks
  <2> HIDE DEF path
  <2>2. partial' = With(partial, path, count.lives)
        /\ task' = [task EXCEPT ![r] = [task[r] EXCEPT !.at = "write", !.path = path]]
    BY <1>14, <2>1 DEF OpenPartial, path, TypeOK, Tasks
  <2>3. DOMAIN partial' \subseteq Path /\ partial' \in [DOMAIN partial' -> Nat]
    BY <2>1, <2>2 DEF With, TypeOK, Counts
  <2>4. DOMAIN task' \subseteq Nat /\ task' \in [DOMAIN task' -> Tasks]
    BY ZenonT(30), <2>1, <2>2 DEF TypeOK, Tasks
  <2> QED BY <1>14, <2>3, <2>4 DEF OpenPartial, TypeOK
<1>15. ASSUME NEW r, RemovePartial(r)
       PROVE  DOMAIN partial' \subseteq Path /\ partial' \in [DOMAIN partial' -> Nat]
  BY <1>15 DEF RemovePartial, Only, TypeOK
<1>16. ASSUME NEW r, WriteResult(r) PROVE TypeOK'
  <2>1. r \in DOMAIN task /\ task[r].path \in Path
    BY <1>16 DEF WriteResult, At, TypeOK, Tasks
  <2>2. DOMAIN files' \subseteq Path /\ files' \in [DOMAIN files' -> SUBSET Nat]
    <3>1. PutAt(files, task[r].path) \cup {r} \in SUBSET Nat
      BY <2>1 DEF PutAt, TypeOK
    <3> QED BY <1>16, <2>1, <3>1 DEF WriteResult, With, TypeOK
  <2> QED BY <1>16, <1>15, <2>1, <2>2, Going DEF WriteResult, TypeOK
<1>17. ASSUME NEW r, WriteFails(r) PROVE TypeOK'
  <2>1. r \in DOMAIN task /\ <<>> \in Path /\ 0 \in Nat BY <1>17 DEF WriteFails, At, Path
  <2>2. rows' \in [DOMAIN rows' -> Runs] /\ DOMAIN rows' = DOMAIN rows /\ SameCount
    BY <1>17, <2>1, Finishing DEF WriteFails
  <2> QED BY <1>17, <1>15, <2>1, <2>2, Leaving DEF WriteFails, TypeOK, SameCount
<1>18. ASSUME NEW r, FinishRun(r) PROVE TypeOK'
  <2>1. r \in DOMAIN task /\ task[r].path \in Path
    BY <1>18 DEF FinishRun, At, TypeOK, Tasks
  <2>2. WriteRows(Result, Limit).rows \in Nat
    BY SchedulerAssumption DEF WriteRows
  <2>3. rows' \in [DOMAIN rows' -> Runs] /\ DOMAIN rows' = DOMAIN rows /\ SameCount
    BY <1>18, <2>1, <2>2, Finishing DEF FinishRun
  <2> QED BY <1>18, <2>1, <2>3, Leaving DEF FinishRun, TypeOK, SameCount
<1>19. CASE CloseBegins \/ CloseWaits
  BY <1>19 DEF CloseBegins, CloseWaits, TypeOK
<1>20. CASE CloseReturns \/ Crash
  <2>1. /\ DOMAIN task' \subseteq Nat /\ task' \in [DOMAIN task' -> Tasks]
        /\ loop' = [at |-> "asleep", tick |-> 0, items |-> {}, picked |-> {}]
        /\ owner' = {} /\ running' = {}
    BY <1>20 DEF CloseReturns, Crash, Gone, Asleep
  <2> QED BY <1>20, <2>1 DEF CloseReturns, Crash, TypeOK
<1>21. CASE Restart
  <2>1. loop' = [at |-> "due", tick |-> now, items |-> {}, picked |-> {}]
    BY <1>21 DEF Restart, Started, Asleep
  <2>2. count' \in Counts /\ server' = "up"
    BY <1>21 DEF Restart, TypeOK, Counts
  <2> QED BY <1>21, <2>1, <2>2 DEF Restart, TypeOK
<1> QED
  BY <1>1, <1>2, <1>3, <1>4, <1>6, <1>7, <1>8, <1>9, <1>10, <1>11, <1>12,
     <1>13, <1>14, <1>16, <1>17, <1>18, <1>19, <1>20, <1>21
  DEF Next, Look, Close, Task

-----------------------------------------------------------------------------
(* Once *)

\* A step of a run counts nothing but a failure.
LEMMA TaskCounts ==
    ASSUME TypeOK, NEW r, Task(r)
    PROVE  SameCount
<1>1. UNCHANGED count \/ StoreFails
  BY DEF Task, CreateRun, CreateRunIsCut, Stopped, Refuse, OpenPartial,
         WriteResult, WriteFails, FinishRun, FinishRow
<1> QED BY <1>1, Counted

\* Steps of the runs, of the clock and of Close leave the schedule alone.
LEMMA Elsewhere ==
    ASSUME TypeOK, Next
    PROVE  \/ \E q \in Query : \/ Delete(q) \/ RunNow(q)
                               \/ \E in \in Inputs : Save(q, in)
           \/ Store \/ StartDue \/ Wake \/ ReadDue \/ Advance
           \/ CloseReturns \/ Crash \/ Restart
           \/ UNCHANGED <<query, loop, owner, started>> /\ SameCount
<1>1. ASSUME NEW r, Task(r) PROVE UNCHANGED <<query, loop, owner, started>> /\ SameCount
  <2>1. UNCHANGED <<query, loop, owner, started>>
    BY <1>1 DEF Task, CreateRun, CreateRunIsCut, Refuse, OpenPartial,
                WriteResult, WriteFails, FinishRun, store
  <2> QED BY <1>1, <2>1, TaskCounts
<1>2. CASE Clock \/ CloseBegins \/ CloseWaits
  <2>1. UNCHANGED <<query, loop, owner, started, count>>
    BY <1>2 DEF Clock, CloseBegins, CloseWaits, store, mind
  <2> QED BY <2>1, Counted
<1> QED BY <1>1, <1>2 DEF Next, Look, Close

\* What the loop does with an item: it advances the row and goes on.
LEMMA Advances ==
    ASSUME TypeOK, OnePass, Advance
    PROVE  \E item \in loop.items :
             /\ item \in Items
             /\ loop'.items = loop.items \ {item}
             /\ loop'.tick = loop.tick
             /\ \/ loop'.picked = {} /\ loop'.at \in {"asleep", "advance"}
                \/ loop'.picked = {item} /\ loop'.at = "start" /\ ~Cancelled
             /\ loop'.at = "asleep" => loop'.items = {}
             /\ \/ query' = Advanced(item)
                \/ query' = query /\ loop'.picked = {}
             /\ UNCHANGED <<owner, started>> /\ SameCount
<1>1. PICK item \in loop.items :
          LET rest == [loop EXCEPT !.items = @ \ {item}, !.picked = {item}]
          IN  /\ \/ query' = Advanced(item) /\ ~Cancelled
                 \/ query' = query /\ loop' = NextItem(rest)
              /\ loop' = NextItem(rest) \/ loop' = [rest EXCEPT !.at = "start"]
              /\ UNCHANGED count \/ StoreFails
  BY DEF Advance, Stopped
<1>2. item \in Items /\ SameCount BY <1>1, Counted DEF TypeOK
<1>3. UNCHANGED <<owner, started>> BY DEF Advance
<1> DEFINE rest == [loop EXCEPT !.items = @ \ {item}, !.picked = {item}]
<1>4. CASE loop' = NextItem(rest)
  BY <1>1, <1>2, <1>3, <1>4 DEF NextItem, TypeOK
<1>5. CASE loop' = [rest EXCEPT !.at = "start"] /\ ~(loop' = NextItem(rest))
  BY <1>1, <1>2, <1>3, <1>5 DEF TypeOK
<1> QED BY <1>1, <1>4, <1>5

\* A look finds each query once, with the row it has.
LEMMA Reads ==
    ASSUME TypeOK, OnePass, ReadDue
    PROVE  /\ loop'.picked = {} /\ loop'.at \in {"asleep", "advance"}
           /\ loop'.at = "asleep" => loop'.items = {}
           /\ loop'.tick = loop.tick
           /\ \A a \in loop'.items :
                /\ a.q \in DOMAIN query /\ a.row = query[a.q]
                /\ a = [q |-> a.q, row |-> a.row] /\ a.row.next <= loop.tick
           /\ UNCHANGED <<query, owner, started>> /\ SameCount
<1> DEFINE found == {[q |-> q, row |-> query[q]] : q \in DueQueries(loop.tick)}
<1>0. UNCHANGED <<query, owner, started>> /\ SameCount
  <2>1. UNCHANGED count \/ StoreFails BY DEF ReadDue, Stopped
  <2> QED BY <2>1, Counted DEF ReadDue, store
<1>1. \/ loop' = NextItem([loop EXCEPT !.items = found])
      \/ loop' = NextItem(loop)
  BY DEF ReadDue
<1>2. ASSUME NEW a \in found
      PROVE  /\ a.q \in DOMAIN query /\ a.row = query[a.q]
             /\ a = [q |-> a.q, row |-> a.row] /\ a.row.next <= loop.tick
  BY DEF DueQueries
<1>3. loop.items = {} BY DEF OnePass, ReadDue
<1> HIDE DEF found
<1>4. \E items \in {{}, found} :
          /\ loop'.items = items /\ loop'.picked = {} /\ loop'.tick = loop.tick
          /\ loop'.at = IF items = {} THEN "asleep" ELSE "advance"
  BY <1>1, <1>3 DEF NextItem, TypeOK
<1> QED BY <1>0, <1>2, <1>4

\* A start empties the loop's hand; nothing but it adds to what was started.
LEMMA Starts ==
    ASSUME TypeOK, OnePass, OneRunEach, StartDue
    PROVE  /\ loop'.picked = {} /\ loop'.at \in {"asleep", "advance"}
           /\ loop'.at = "asleep" => loop'.items = {}
           /\ loop'.items = loop.items /\ loop'.tick = loop.tick
           /\ UNCHANGED <<query, owner>> /\ count'.saves = count.saves
           /\ \/ started' = started
              \/ \E item \in loop.picked : started' = started \cup
                   {[q |-> item.q, rev |-> item.row.rev,
                     due |-> item.row.next, run |-> count.runs + 1]}
<1>1. /\ loop' = NextItem(loop) /\ UNCHANGED <<query, owner>>
  BY DEF StartDue, store
<1>2. PICK item \in loop.picked : \/ StartScheduled(item, "schedule")
                                  \/ UNCHANGED <<count, mind, started>>
  BY DEF StartDue
<1>3. CASE StartScheduled(item, "schedule")
  <2>1. item \in Items BY DEF TypeOK
  <2> QED BY <1>1, <1>3, <2>1, Starting DEF NextItem, TypeOK, Counts
<1>4. CASE UNCHANGED <<count, mind, started>>
  BY <1>1, <1>4 DEF NextItem, TypeOK
<1> QED BY <1>2, <1>3, <1>4

\* A process that ends, or starts, has nothing in hand and nothing to store.
LEMMA Ends ==
    ASSUME TypeOK, OnePass, CloseReturns \/ Crash \/ Restart
    PROVE  /\ loop'.items = {} /\ loop'.picked = {} /\ loop'.at # "start"
           /\ owner' \subseteq owner
           /\ UNCHANGED <<query, started>>
           /\ count'.saves = count.saves /\ count'.runs = count.runs
<1>1. CASE CloseReturns \/ Crash
  BY <1>1 DEF CloseReturns, Crash, Gone, Asleep, store
<1>2. CASE Restart
  BY <1>2 DEF Restart, Started, Asleep, TypeOK, store
<1> QED BY <1>1, <1>2

\* The loop passes through what it read item by item.
LEMMA OnePassNext ==
    ASSUME TypeOK, OneRunEach, OnePass, Next
    PROVE  OnePass'
<1>1. CASE StartDue BY <1>1, Starts DEF OnePass, InHand
<1>2. CASE ReadDue BY <1>2, Reads DEF OnePass, InHand
<1>3. CASE Advance BY <1>3, Advances DEF OnePass, InHand
<1>4. CASE Wake
  <2>1. PICK t \in Nat : loop' = [loop EXCEPT !.at = "due", !.tick = t]
    <3>1. PICK t \in ((loop.tick + 1)..now) \union ({MaxTime} \intersect {now}) :
               loop' = [loop EXCEPT !.at = "due", !.tick = t]
      BY <1>4 DEF Wake
    <3>2. t \in Nat BY DEF TypeOK
    <3> QED BY <3>1, <3>2
  <2> QED BY <1>4, <2>1 DEF Wake, OnePass, InHand, TypeOK
<1>5. CASE CloseReturns \/ Crash \/ Restart BY <1>5, Ends DEF OnePass, InHand
<1>6. CASE UNCHANGED loop BY <1>6 DEF OnePass, InHand
<1> QED
  BY <1>1, <1>2, <1>3, <1>4, <1>5, <1>6, Elsewhere
  DEF Delete, RunNow, Save, Store

\* What the owner's requests do to the table.
LEMMA Owner ==
    ASSUME TypeOK
    PROVE  /\ \A q \in Query, in \in Inputs : Save(q, in) =>
                /\ count' = [count EXCEPT !.saves = @ + 1]
                /\ \A o \in owner' : o.row.rev = count.saves + 1
                /\ UNCHANGED <<query, loop, started>>
           /\ Store => \E o \in owner :
                /\ query' = With(query, o.q, o.row) /\ owner' = {}
                /\ UNCHANGED <<loop, started, count>>
           /\ \A q \in Query : Delete(q) =>
                /\ DOMAIN query' \subseteq DOMAIN query
                /\ \A p \in DOMAIN query' : query'[p] = query[p]
                /\ UNCHANGED <<loop, owner, started, count>>
<1>1. ASSUME NEW q \in Query, NEW in \in Inputs, Save(q, in)
      PROVE  /\ count' = [count EXCEPT !.saves = @ + 1]
             /\ \A o \in owner' : o.row.rev = count.saves + 1
             /\ UNCHANGED <<query, loop, started>>
  <2>1. count' = [count EXCEPT !.saves = @ + 1] /\ UNCHANGED <<query, loop, started>>
    BY <1>1 DEF Save, store
  <2>2. count'.saves = count.saves + 1 BY <2>1 DEF TypeOK
  <2>3. owner' = {[q |-> q, row |-> Row(in, now, count'.saves)]} BY <1>1 DEF Save
  <2> QED BY <2>1, <2>2, <2>3 DEF Row
<1>2. ASSUME Store
      PROVE  \E o \in owner :
                /\ query' = With(query, o.q, o.row) /\ owner' = {}
                /\ UNCHANGED <<loop, started, count>>
  BY <1>2 DEF Store
<1>3. ASSUME NEW q \in Query, Delete(q)
      PROVE  /\ DOMAIN query' \subseteq DOMAIN query
             /\ \A p \in DOMAIN query' : query'[p] = query[p]
             /\ UNCHANGED <<loop, owner, started, count>>
  BY <1>3 DEF Delete, Only
<1> QED BY <1>1, <1>2, <1>3

\* A start for the owner is not for an instant of the schedule.
LEMMA ByOwner ==
    ASSUME TypeOK, NEW q \in Query, RunNow(q)
    PROVE  UNCHANGED <<query, loop, owner, started>> /\ count'.saves = count.saves
<1>1. PICK item : StartScheduled(item, "manual")
  BY DEF RunNow
<1> QED BY <1>1 DEF RunNow, StartScheduled, TypeOK, store

\* Advancing changes no version.
LEMMA SameVersions ==
    ASSUME TypeOK, NEW item \in Items
    PROVE  /\ DOMAIN Advanced(item) = DOMAIN query
           /\ \A q \in DOMAIN query : Advanced(item)[q].rev = query[q].rev
           /\ \A q \in DOMAIN query : q # item.q => Advanced(item)[q] = query[q]
           /\ item.q \in DOMAIN query =>
                /\ Advanced(item)[item.q].next \in Nat
                /\ Advanced(item)[item.q].next > loop.tick
<1> DEFINE t == NextRun(item.row.in.spec, loop.tick)
<1>1. /\ t \in Nat /\ t > loop.tick
      /\ Advanced(item) = IF item.q \in DOMAIN query
                          THEN [query EXCEPT ![item.q].next = t] ELSE query
  BY Advancing
<1> HIDE DEF t
<1> QED BY <1>1 DEF TypeOK, Rows

\* A save takes a new version; the loop works with those it read.
LEMMA VersionsNext ==
    ASSUME TypeOK, OneRunEach, OnePass, Versions, Next
    PROVE  Versions'
<1>0. /\ \A o \in owner : o.row.rev \in Nat
      /\ \A a \in InHand : a.row.rev \in Nat
      /\ \A q \in DOMAIN query : query[q].rev \in Nat
      /\ \A s \in started : s.rev \in Nat
      /\ count.saves \in Nat
  BY DEF TypeOK, Items, Rows, InHand, Counts
<1>1. ASSUME NEW q \in Query, NEW in \in Inputs, Save(q, in) PROVE Versions'
  <2>1. /\ count'.saves = count.saves + 1
        /\ \A o \in owner' : o.row.rev = count.saves + 1
        /\ UNCHANGED <<query, loop, started>>
    BY <1>1, Owner DEF TypeOK, Counts
  <2> QED BY <1>0, <2>1 DEF Versions, InHand
<1>2. CASE Store
  <2>1. PICK o \in owner : /\ query' = With(query, o.q, o.row) /\ owner' = {}
                           /\ UNCHANGED <<loop, started, count>>
    BY <1>2, Owner
  <2>2. \A q \in DOMAIN query' : query'[q] \in {o.row} \cup {query[p] : p \in {q} \cap DOMAIN query}
    BY <2>1 DEF With
  <2>3. \A q \in DOMAIN query' : query'[q].rev <= count.saves
    BY <2>2, <1>0 DEF Versions
  <2> QED BY <2>1, <2>3 DEF Versions, InHand
<1>3. ASSUME NEW q \in Query, Delete(q) PROVE Versions'
  BY <1>3, Owner DEF Versions, InHand
<1>4. ASSUME NEW q \in Query, RunNow(q) PROVE Versions'
  BY <1>4, ByOwner DEF Versions, InHand
<1>5. CASE StartDue
  <2>1. \A s \in started' : s \in started \/ \E a \in InHand : s.rev = a.row.rev
    BY <1>5, Starts DEF InHand
  <2>2. /\ InHand' \subseteq InHand /\ UNCHANGED <<query, owner>>
        /\ count'.saves = count.saves
    BY <1>5, Starts DEF InHand
  <2> QED BY <2>1, <2>2 DEF Versions
<1>6. CASE ReadDue
  <2>1. \A a \in InHand' : a.q \in DOMAIN query /\ a.row = query[a.q]
    BY <1>6, Reads DEF InHand
  <2> QED BY <1>6, <2>1, Reads DEF Versions, SameCount
<1>7. CASE Advance
  <2>1. PICK item \in loop.items :
          /\ item \in Items /\ InHand' \subseteq InHand
          /\ query' = query \/ query' = Advanced(item)
          /\ UNCHANGED <<owner, started>> /\ count'.saves = count.saves
    BY <1>7, Advances DEF InHand, SameCount
  <2>2. DOMAIN query' = DOMAIN query
        /\ \A q \in DOMAIN query : query'[q].rev = query[q].rev
    BY <2>1, SameVersions
  <2> QED BY <2>1, <2>2 DEF Versions
<1>8. CASE Wake
  <2>1. /\ InHand' = InHand /\ UNCHANGED <<query, owner, started, count>>
    BY <1>8 DEF Wake, InHand, TypeOK, store, mind
  <2> QED BY <2>1 DEF Versions
<1>9. CASE CloseReturns \/ Crash \/ Restart
  BY <1>9, Ends DEF Versions, InHand
<1>10. CASE UNCHANGED <<query, loop, owner, started>> /\ SameCount
  BY <1>10 DEF Versions, InHand, SameCount
<1> QED
  BY <1>1, <1>2, <1>3, <1>4, <1>5, <1>6, <1>7, <1>8, <1>9, <1>10, Elsewhere

\* The row is advanced past the tick before a run of what was due starts.
LEMMA NeverAgainNext ==
    ASSUME TypeOK, OneRunEach, OnePass, Versions, NeverAgain, Next
    PROVE  NeverAgain'
<1>0. /\ \A a \in InHand : a.row.rev \in Nat /\ a.row.next \in Nat
      /\ \A q \in DOMAIN query : query[q].rev \in Nat /\ query[q].next \in Nat
      /\ \A s \in started : s.rev \in Nat /\ s.due \in Nat
      /\ loop.tick \in Nat
  BY DEF TypeOK, Items, Rows, InHand
<1>1. ASSUME NEW q \in Query, NEW in \in Inputs, Save(q, in) PROVE NeverAgain'
  <2>1. UNCHANGED <<query, loop, started>>
    BY <1>1, Owner
  <2> QED BY <2>1 DEF NeverAgain, InHand, Behind
<1>2. CASE Store
  <2>1. PICK o \in owner : /\ query' = With(query, o.q, o.row) /\ owner' = {}
                           /\ UNCHANGED <<loop, started, count>>
    BY <1>2, Owner
  <2>2. /\ \A s \in started : Behind(s, o.row)
        /\ \A a \in InHand : a.row.rev <= o.row.rev /\ a.row.rev # o.row.rev
    <3>1. o.row.rev \in Nat BY DEF TypeOK, Items, Rows
    <3> QED BY <1>0, <3>1 DEF Versions, Behind
  <2>3. \A q \in DOMAIN query' : \/ q = o.q /\ query'[q] = o.row
                                 \/ q \in DOMAIN query /\ query'[q] = query[q]
    BY <2>1 DEF With
  <2>4. loop.picked \subseteq InHand BY DEF InHand
  <2> QED BY <2>1, <2>2, <2>3, <2>4 DEF NeverAgain, InHand, Behind
<1>3. ASSUME NEW q \in Query, Delete(q) PROVE NeverAgain'
  BY <1>3, Owner DEF NeverAgain, InHand, Behind
<1>4. ASSUME NEW q \in Query, RunNow(q) PROVE NeverAgain'
  BY <1>4, ByOwner DEF NeverAgain, InHand, Behind
<1>5. CASE StartDue
  <2>1. /\ loop'.picked = {} /\ InHand' = loop.items
        /\ loop.items \subseteq InHand /\ query' = query
    BY <1>5, Starts DEF InHand
  <2>2. CASE started' = started
    BY <2>1, <2>2 DEF NeverAgain, Behind
  <2>3. CASE \E item \in loop.picked : started' = started \cup
                 {[q |-> item.q, rev |-> item.row.rev,
                   due |-> item.row.next, run |-> count.runs + 1]}
    <3>1. PICK item \in loop.picked : \A s \in started' :
               \/ s \in started
               \/ s.q = item.q /\ s.rev = item.row.rev /\ s.due = item.row.next
      BY <2>3
    <3>2. \A a \in loop.items : a.q # item.q
      BY DEF OnePass, InHand
    <3>3. /\ item \in InHand /\ item.row.rev \in Nat /\ item.row.next \in Nat
      BY <1>0 DEF InHand
    <3>4. ASSUME NEW s \in started', s \notin started
          PROVE  /\ s.q \in DOMAIN query => Behind(s, query[s.q])
                 /\ \A a \in loop.items : a.q # s.q
      BY <1>0, <3>1, <3>2, <3>3, <3>4 DEF NeverAgain, Behind
    <3> QED BY <2>1, <3>4 DEF NeverAgain, Behind
  <2> QED BY <1>5, <2>2, <2>3, Starts
<1>6. CASE ReadDue
  <2>1. /\ \A a \in InHand' : a.q \in DOMAIN query /\ a.row = query[a.q]
        /\ UNCHANGED <<query, started>> /\ loop'.picked = {}
    BY <1>6, Reads DEF InHand
  <2> QED BY <1>0, <2>1 DEF NeverAgain, Behind
<1>7. CASE Advance
  <2>1. PICK item \in loop.items :
          /\ item \in Items /\ InHand' \subseteq InHand
          /\ loop'.picked = {} \/ loop'.picked = {item}
          /\ \/ query' = Advanced(item)
             \/ query' = query /\ loop'.picked = {}
          /\ UNCHANGED <<owner, started>>
    BY <1>7, Advances DEF InHand
  <2>2. CASE query' = query /\ loop'.picked = {}
    BY <2>1, <2>2 DEF NeverAgain, Behind, InHand
  <2>3. CASE query' = Advanced(item)
    <3>1. /\ DOMAIN query' = DOMAIN query
          /\ \A q \in DOMAIN query : query'[q].rev = query[q].rev
          /\ \A q \in DOMAIN query : q # item.q => query'[q] = query[q]
          /\ item.q \in DOMAIN query =>
               query'[item.q].next \in Nat /\ query'[item.q].next > loop.tick
      BY <2>1, <2>3, SameVersions
    <3>2. /\ item \in InHand /\ item.row.next <= loop.tick
          /\ item.row.next \in Nat /\ item.row.rev \in Nat
      BY <1>0 DEF InHand, OnePass
    <3>3. ASSUME NEW s \in started, s.q \in DOMAIN query
          PROVE  Behind(s, query'[s.q])
      <4>1. CASE s.q # item.q BY <3>1, <3>3, <4>1 DEF NeverAgain
      <4>2. CASE s.q = item.q
        <5>1. s.rev <= query[s.q].rev /\ Behind(s, item.row)
              /\ item.row.rev <= query[s.q].rev
          BY <3>2, <3>3, <4>2 DEF NeverAgain, Behind
        <5>2. s.rev = query[s.q].rev => s.due < query'[s.q].next
          BY <1>0, <3>1, <3>2, <3>3, <4>2, <5>1 DEF Behind
        <5> QED BY <3>1, <3>3, <5>1, <5>2 DEF Behind
      <4> QED BY <4>1, <4>2
    <3>4. item.q \in DOMAIN query => item.row.next < query'[item.q].next
      BY <1>0, <3>1, <3>2
    <3> QED BY <2>1, <3>1, <3>3, <3>4 DEF NeverAgain, Behind
  <2> QED BY <2>1, <2>2, <2>3
<1>8. CASE Wake
  <2>1. /\ InHand' = InHand /\ loop'.picked = loop.picked
        /\ UNCHANGED <<query, started>>
    BY <1>8 DEF Wake, InHand, TypeOK, store, mind
  <2> QED BY <2>1 DEF NeverAgain, Behind
<1>9. CASE CloseReturns \/ Crash \/ Restart
  BY <1>9, Ends DEF NeverAgain, InHand, Behind
<1>10. CASE UNCHANGED <<query, loop, owner, started>>
  BY <1>10 DEF NeverAgain, InHand, Behind
<1> QED
  BY <1>1, <1>2, <1>3, <1>4, <1>5, <1>6, <1>7, <1>8, <1>9, <1>10, Elsewhere

-----------------------------------------------------------------------------
(* The list of runs *)

runState == <<task, running, rows, deleted, files, partial, server>>

\* Steps that say nothing about runs, and those that start one.
LEMMA RunSteps ==
    ASSUME TypeOK, Next
    PROVE  \/ \E q \in Query : Delete(q)
           \/ \E r : Task(r)
           \/ CloseBegins \/ CloseWaits \/ CloseReturns \/ Crash \/ Restart
           \/ /\ UNCHANGED <<rows, deleted, files, partial, server>>
              /\ \E item \in Items, trigger \in {"schedule", "manual"} :
                    StartScheduled(item, trigger)
           \/ /\ UNCHANGED runState
              /\ count'.runs = count.runs /\ count'.lives = count.lives
<1> USE DEF runState, store, mind, disk
<1>1. ASSUME NEW q \in Query, RunNow(q)
      PROVE  /\ UNCHANGED <<rows, deleted, files, partial, server>>
             /\ \E item \in Items : StartScheduled(item, "manual")
  <2>1. [q |-> q, row |-> query[q]] \in Items BY <1>1 DEF RunNow, Items, TypeOK
  <2> QED BY <1>1, <2>1 DEF RunNow
<1>2. ASSUME StartDue
      PROVE  \/ /\ UNCHANGED <<rows, deleted, files, partial, server>>
                /\ \E item \in Items : StartScheduled(item, "schedule")
             \/ UNCHANGED runState /\ UNCHANGED count
  <2>1. PICK item \in loop.picked : \/ StartScheduled(item, "schedule")
                                    \/ UNCHANGED <<count, mind, started>>
    BY <1>2 DEF StartDue
  <2>2. item \in Items BY DEF TypeOK
  <2> QED BY <1>2, <2>1, <2>2 DEF StartDue
<1>3. ASSUME NEW q \in Query, NEW in \in Inputs, Save(q, in)
      PROVE  UNCHANGED runState /\ count'.runs = count.runs /\ count'.lives = count.lives
  BY <1>3 DEF Save, TypeOK
<1>4. ASSUME Clock \/ Store \/ Wake \/ ReadDue \/ Advance
      PROVE  /\ UNCHANGED runState
             /\ count'.runs = count.runs /\ count'.lives = count.lives
  <2>1. UNCHANGED count \/ StoreFails
    BY <1>4 DEF Clock, Store, Wake, ReadDue, Advance, Stopped
  <2>2. UNCHANGED runState BY <1>4 DEF Clock, Store, Wake, ReadDue, Advance
  <2> QED BY <2>1, <2>2, Counted DEF SameCount
<1> HIDE DEF runState
<1> QED BY <1>1, <1>2, <1>3, <1>4 DEF Next, Look, Close

\* The steps of a run: it leaves, or goes on, and nobody else does.
LEMMA TaskSteps ==
    ASSUME TypeOK, OneRunEach, RowsKept, NEW r, Task(r)
    PROVE  /\ r \in DOMAIN task /\ task[r].q \in Query
           /\ UNCHANGED <<deleted, server>> /\ SameCount
           /\ \A x \in DOMAIN task \ {r} : x \in DOMAIN task' /\ task'[x] = task[x]
           /\ \/ DOMAIN task' = DOMAIN task \ {r} /\ running' = running \ {task[r].q}
              \/ /\ DOMAIN task' = DOMAIN task /\ running' = running
                 /\ task'[r].q = task[r].q /\ task'[r].at # "create"
<1>1. r \in DOMAIN task
  BY DEF Task, CreateRun, CreateRunIsCut, Refuse, OpenPartial, WriteResult,
         WriteFails, FinishRun, At
<1>2. UNCHANGED <<deleted, server>> /\ SameCount
  BY TaskCounts DEF Task, CreateRun, CreateRunIsCut, Refuse, OpenPartial,
         WriteResult, WriteFails, FinishRun, store
<1>3. task[r] \in Tasks BY <1>1 DEF TypeOK
<1>4. \/ Leaves(r)
      \/ Goes(r, "execute") \/ Goes(r, "finish")
      \/ /\ task' = [task EXCEPT ![r].at = "write", ![r].path = <<task[r].name, now>>]
         /\ running' = running
  BY DEF Task, CreateRun, CreateRunIsCut, Refuse, OpenPartial, WriteResult,
         WriteFails, FinishRun
<1>5. CASE Leaves(r) BY <1>1, <1>2, <1>3, <1>5, Leaving DEF Tasks
<1>6. CASE Goes(r, "execute") \/ Goes(r, "finish")
  BY <1>1, <1>2, <1>3, <1>6, Going DEF Tasks
<1>7. CASE /\ task' = [task EXCEPT ![r].at = "write", ![r].path = <<task[r].name, now>>]
           /\ running' = running
  BY <1>1, <1>2, <1>3, <1>7 DEF Tasks, TypeOK
<1> QED BY <1>4, <1>5, <1>6, <1>7

\* A query's place in scheduleRunning is given back by the run that took it.
LEMMA OneRunNext ==
    ASSUME TypeOK, OneRunEach, RowsKept, Next
    PROVE  OneRunEach'
<1>0. count.runs \in Nat /\ DOMAIN task \subseteq Nat /\ DOMAIN rows \subseteq Nat
  BY DEF TypeOK, Counts
<1>1. ASSUME NEW r, Task(r) PROVE OneRunEach'
  <2>1. DOMAIN rows' \subseteq DOMAIN rows \cup {r}
    <3>1. r \in DOMAIN task BY <1>1, TaskSteps
    <3>2. CASE CreateRun(r) BY <3>1, <3>2, Creating
    <3>3. CASE CreateRunIsCut(r) BY <3>1, <3>3, Cutting
    <3>4. CASE ~CreateRun(r) /\ ~CreateRunIsCut(r)
      BY <1>1, <3>4
      DEF Task, Refuse, OpenPartial, WriteResult, WriteFails, FinishRun,
          FinishRow, store
    <3> QED BY <3>2, <3>3, <3>4
  <2>2. /\ r \in DOMAIN task /\ count'.runs = count.runs
        /\ \A x \in DOMAIN task \ {r} : x \in DOMAIN task' /\ task'[x] = task[x]
    BY <1>1, TaskSteps DEF SameCount
  <2>3. CASE DOMAIN task' = DOMAIN task \ {r} /\ running' = running \ {task[r].q}
    BY <2>1, <2>2, <2>3 DEF OneRunEach
  <2>4. CASE /\ DOMAIN task' = DOMAIN task /\ running' = running
             /\ task'[r].q = task[r].q
    BY <2>1, <2>2, <2>4 DEF OneRunEach
  <2> QED BY <1>1, <2>3, <2>4, TaskSteps
<1>2. ASSUME NEW item \in Items, NEW trigger, StartScheduled(item, trigger),
             UNCHANGED rows
      PROVE  OneRunEach'
  <2>1. count'.runs = count.runs + 1 BY <1>2, Starting DEF TypeOK, Counts
  <2> QED BY <1>0, <1>2, <2>1, Starting DEF OneRunEach
<1>3. ASSUME NEW q \in Query, Delete(q) PROVE OneRunEach'
  BY <1>3 DEF Delete, Only, OneRunEach, mind
<1>4. CASE CloseBegins \/ CloseWaits
  BY <1>4 DEF CloseBegins, CloseWaits, OneRunEach, store, mind
<1>5. CASE CloseReturns \/ Crash
  BY <1>5 DEF CloseReturns, Crash, Gone, OneRunEach, store
<1>6. CASE Restart
  BY <1>6 DEF Restart, OneRunEach, store, mind, TypeOK, Counts
<1>7. CASE UNCHANGED runState /\ count'.runs = count.runs
  BY <1>7 DEF runState, OneRunEach
<1> QED BY <1>1, <1>2, <1>3, <1>4, <1>5, <1>6, <1>7, RunSteps

\* What each step of a run does to its row.
LEMMA RowSteps ==
    ASSUME TypeOK, OneRunEach, RowsKept, NEW r, Task(r)
    PROVE  /\ \A s \in DOMAIN rows' \ {r} : s \in DOMAIN rows /\ rows'[s] = rows[s]
           /\ \A s \in DOMAIN rows \ {r} :
                  rows[s].q # task[r].q => s \in DOMAIN rows'
           /\ r \in DOMAIN rows => r \in DOMAIN rows'
           /\ r \in DOMAIN task' /\ task[r].at = "create" => r \in DOMAIN rows'
           /\ r \in DOMAIN rows' =>
                \/ rows'[r] = Begun(r, FALSE) /\ r \in DOMAIN task'
                \/ rows'[r] = Begun(r, TRUE)
                \/ /\ r \in DOMAIN rows /\ rows'[r] = rows[r]
                   /\ r \in DOMAIN task'
                \/ /\ r \in DOMAIN rows /\ rows'[r].q = rows[r].q
                   /\ rows'[r].life = rows[r].life
                   /\ \/ rows'[r].status = "error"
                      \/ /\ rows'[r].status = rows[r].status /\ rows'[r].stuck
                         /\ rows'[r].path = rows[r].path
                      \/ /\ rows'[r].status = "success"
                         /\ task[r].at = "finish" /\ rows'[r].path = task[r].path
<1>1. r \in DOMAIN task /\ task[r] \in Tasks BY TaskSteps DEF TypeOK
<1>2. CASE CreateRun(r)
  <2>1. task[r].at = "create" BY <1>2 DEF CreateRun, At
  <2>2. CASE Leaves(r) /\ UNCHANGED rows
    BY <1>1, <2>1, <2>2, Leaving DEF RowsKept
  <2> QED BY <1>1, <1>2, <2>2, Creating, Going
<1>3. CASE CreateRunIsCut(r)
  <2>1. /\ DOMAIN rows' = DOMAIN rows \cup {r} /\ rows'[r] = Begun(r, TRUE)
        /\ \A s \in DOMAIN rows \ {r} : rows'[s] = rows[s]
    BY <1>1, <1>3, Cutting
  <2>2. r \notin DOMAIN task' BY <1>1, <1>3, Cutting, Leaving
  <2> QED BY <2>1, <2>2
<1>4. <<>> \in Path /\ 0 \in Nat BY DEF Path
<1>5. CASE Refuse(r) \/ WriteFails(r)
  <2>1. FinishRow(r, "error", <<>>, 0) /\ Leaves(r) BY <1>5 DEF Refuse, WriteFails
  <2>2. DOMAIN rows' = DOMAIN rows /\ \A s \in DOMAIN rows \ {r} : rows'[s] = rows[s]
    BY <1>1, <1>4, <2>1, Finishing
  <2>3. r \in DOMAIN rows' =>
            /\ rows'[r].q = rows[r].q /\ rows'[r].life = rows[r].life
            /\ \/ rows'[r].status = "error"
               \/ /\ rows'[r].status = rows[r].status /\ rows'[r].stuck
                  /\ rows'[r].path = rows[r].path
    BY <1>1, <1>4, <2>1, Finishing
  <2>4. r \notin DOMAIN task' BY <1>1, <2>1, Leaving
  <2> QED BY <2>2, <2>3, <2>4
<1>6. CASE FinishRun(r)
  <2>1. FinishRow(r, "success", task[r].path, WriteRows(Result, Limit).rows)
        /\ Leaves(r) /\ task[r].at = "finish"
    BY <1>6 DEF FinishRun, At
  <2>2. task[r].path \in Path /\ WriteRows(Result, Limit).rows \in Nat
    BY <1>1, SchedulerAssumption DEF Tasks, WriteRows
  <2>3. DOMAIN rows' = DOMAIN rows /\ \A s \in DOMAIN rows \ {r} : rows'[s] = rows[s]
    BY <1>1, <2>1, <2>2, Finishing
  <2>4. r \in DOMAIN rows' =>
            /\ rows'[r].q = rows[r].q /\ rows'[r].life = rows[r].life
            /\ \/ rows'[r].status = "success" /\ rows'[r].path = task[r].path
               \/ /\ rows'[r].status = rows[r].status /\ rows'[r].stuck
                  /\ rows'[r].path = rows[r].path
    BY <1>1, <2>1, <2>2, Finishing
  <2>5. r \notin DOMAIN task' BY <1>1, <2>1, Leaving
  <2> QED BY <2>1, <2>3, <2>4, <2>5
<1>7. CASE OpenPartial(r) \/ WriteResult(r)
  <2>1. DOMAIN task' = DOMAIN task /\ rows' = rows
    BY <1>1, <1>7 DEF OpenPartial, WriteResult, Goes, TypeOK, store
  <2>2. task[r].at \in {"execute", "write"} BY <1>7 DEF OpenPartial, WriteResult, At
  <2> QED BY <1>1, <2>1, <2>2
<1> QED BY <1>2, <1>3, <1>5, <1>6, <1>7 DEF Task

\* A row at work goes with its query only.
LEMMA RowsKeptNext ==
    ASSUME TypeOK, OneRunEach, RowsKept, Next
    PROVE  RowsKept'
<1>0. count.runs \in Nat /\ DOMAIN task \subseteq Nat /\ DOMAIN rows \subseteq Nat
  BY DEF TypeOK, Counts
<1>1. ASSUME NEW r, Task(r) PROVE RowsKept'
  <2>1. /\ r \in DOMAIN task /\ deleted' = deleted
        /\ \A x \in DOMAIN task' \ {r} : x \in DOMAIN task /\ task'[x] = task[x]
        /\ r \in DOMAIN task' => task'[r].q = task[r].q /\ task'[r].at # "create"
    BY <1>1, TaskSteps
  <2>2. \A x \in DOMAIN task \ {r} : task[x].q # task[r].q
    BY <2>1 DEF OneRunEach
  <2>3. r \in DOMAIN rows' => rows'[r].q = task[r].q
    <3>1. \A stuck \in BOOLEAN : Begun(r, stuck).q = task[r].q BY <2>1, RowBegun
    <3>2. r \in DOMAIN rows => rows[r].q = task[r].q BY <2>1 DEF RowsKept
    <3> QED BY <1>1, <3>1, <3>2, RowSteps
  <2>4. /\ \A s \in DOMAIN rows' \ {r} : s \in DOMAIN rows /\ rows'[s] = rows[s]
        /\ \A s \in DOMAIN rows \ {r} :
               rows[s].q # task[r].q => s \in DOMAIN rows'
        /\ r \in DOMAIN rows => r \in DOMAIN rows'
        /\ r \in DOMAIN task' /\ task[r].at = "create" => r \in DOMAIN rows'
    BY <1>1, RowSteps
  <2>5. ASSUME NEW x \in DOMAIN task', x # r
        PROVE  /\ \A s \in DOMAIN rows' : rows'[s].q = task'[x].q => s <= x
               /\ task'[x].at = "create" => x \notin DOMAIN rows'
               /\ task'[x].at # "create" =>
                      x \in DOMAIN rows' \/ task'[x].q \in deleted'
               /\ x \in DOMAIN rows' => rows'[x].q = task'[x].q
    BY <2>1, <2>2, <2>3, <2>4, <2>5 DEF RowsKept
  <2>6. ASSUME r \in DOMAIN task'
        PROVE  /\ \A s \in DOMAIN rows' : rows'[s].q = task'[r].q => s <= r
               /\ task'[r].at # "create"
               /\ r \in DOMAIN rows' \/ task'[r].q \in deleted'
               /\ r \in DOMAIN rows' => rows'[r].q = task'[r].q
    BY <1>0, <2>1, <2>3, <2>4, <2>6 DEF RowsKept
  <2> QED BY <2>5, <2>6 DEF RowsKept
<1>2. ASSUME NEW item \in Items, NEW trigger, StartScheduled(item, trigger),
             UNCHANGED <<rows, deleted>>
      PROVE  RowsKept'
  <2>1. \A s \in DOMAIN rows : s <= count.runs /\ s # count.runs + 1
    BY <1>0 DEF OneRunEach
  <2> QED BY <1>0, <1>2, <2>1, Starting DEF RowsKept
<1>3. ASSUME NEW q \in Query, Delete(q) PROVE RowsKept'
  <2>1. /\ DOMAIN rows' = {r \in DOMAIN rows : rows[r].q # q}
        /\ \A s \in DOMAIN rows' : rows'[s] = rows[s]
        /\ deleted' = deleted \cup {q} /\ task' = task
    BY <1>3 DEF Delete, Only, mind
  <2> QED BY <2>1 DEF RowsKept
<1>4. CASE CloseBegins \/ CloseWaits
  BY <1>4 DEF CloseBegins, CloseWaits, RowsKept, store, mind
<1>5. CASE CloseReturns \/ Crash
  BY <1>5 DEF CloseReturns, Crash, Gone, RowsKept, store
<1>6. CASE Restart
  BY <1>6 DEF Restart, RowsKept, store, mind
<1>7. CASE UNCHANGED runState
  BY <1>7 DEF runState, RowsKept
<1> QED BY <1>1, <1>2, <1>3, <1>4, <1>5, <1>6, <1>7, RunSteps

\* A row says what became of its run; what it says is on disk is.
LEMMA ShownNext ==
    ASSUME TypeOK, OneRunEach, RowsKept, Shown, Next
    PROVE  Shown'
<1>0. /\ count.lives \in Nat
      /\ \A r \in DOMAIN rows : rows[r].life \in Nat
  BY DEF TypeOK, Runs, Counts
<1>1. ASSUME NEW r, Task(r) PROVE Shown'
  <2>1. /\ r \in DOMAIN task /\ count'.lives = count.lives /\ server' = server
        /\ DOMAIN task' \subseteq DOMAIN task
        /\ \A x \in DOMAIN task \ {r} : x \in DOMAIN task' /\ task'[x] = task[x]
    BY <1>1, TaskSteps DEF SameCount
  <2>2. /\ \A path : PutAt(files, path) \subseteq PutAt(files', path)
        /\ r \in DOMAIN task' /\ task'[r].at = "finish" => r \in PutAt(files', task'[r].path)
    <3> USE DEF PutAt
    <3>0. task[r] \in Tasks BY <2>1 DEF TypeOK
    <3>1. CASE WriteResult(r)
      <4>1. files' = With(files, task[r].path, PutAt(files, task[r].path) \union {r})
        BY <3>1 DEF WriteResult
      <4>2. task'[r].path = task[r].path BY <2>1, <3>1, Going DEF WriteResult
      <4> QED BY <4>1, <4>2 DEF With
    <3>2. CASE OpenPartial(r)
      BY <2>1, <3>0, <3>2 DEF OpenPartial, TypeOK, Tasks
    <3>3. CASE CreateRun(r)
      <4>1. files' = files BY <3>3 DEF CreateRun, disk
      <4>2. r \notin DOMAIN task' \/ task'[r].at = "execute"
        <5>1. Leaves(r) \/ Goes(r, "execute")
          BY ZenonT(30), <2>1, <3>3, Creating
        <5>2. CASE Leaves(r) BY <2>1, <5>2, Leaving
        <5>3. CASE Goes(r, "execute") BY <2>1, <5>3, Going
        <5> QED BY <5>1, <5>2, <5>3
      <4> QED BY <4>1, <4>2
    <3>4. CASE CreateRunIsCut(r) \/ Refuse(r) \/ WriteFails(r) \/ FinishRun(r)
      <4>1. Leaves(r) /\ files' = files
        BY <3>4 DEF CreateRunIsCut, Refuse, WriteFails, FinishRun, disk
      <4>2. DOMAIN task' = DOMAIN task \ {r} BY <2>1, <4>1, Leaving
      <4> QED BY <4>1, <4>2
    <3> QED BY <1>1, <3>1, <3>2, <3>3, <3>4 DEF Task
  <2>3. \A x \in DOMAIN task' : task'[x].at = "finish" => x \in PutAt(files', task'[x].path)
    <3>1. ASSUME NEW x \in DOMAIN task', x # r, task'[x].at = "finish"
          PROVE  x \in PutAt(files', task'[x].path)
      <4>1. x \in PutAt(files, task[x].path) BY <2>1, <3>1 DEF Shown
      <4>2. task'[x] = task[x] BY <2>1, <3>1
      <4>3. PutAt(files, task[x].path) \subseteq PutAt(files', task'[x].path)
        BY <2>2, <4>2
      <4> QED BY <4>1, <4>3
    <3> QED BY <2>2, <3>1
  <2>4. \A s \in DOMAIN rows' \ {r} : s \in DOMAIN rows /\ rows'[s] = rows[s]
    BY <1>1, RowSteps
  <2>5. r \in DOMAIN rows' =>
          /\ rows'[r].life <= count.lives
          /\ rows'[r].status = "success" => r \in PutAt(files', rows'[r].path)
          /\ server = "up" /\ rows'[r].status = "running" /\ rows'[r].life = count.lives
                => r \in DOMAIN task' \/ rows'[r].stuck
    <3>1. task[r].at = "finish" => r \in PutAt(files', task[r].path) BY <2>1, <2>2 DEF Shown
    <3>2. CASE rows'[r] = Begun(r, FALSE) /\ r \in DOMAIN task'
      BY <1>0, <3>2 DEF Begun
    <3>3. CASE rows'[r] = Begun(r, TRUE) BY <1>0, <3>3 DEF Begun
    <3>4. CASE r \in DOMAIN rows /\ rows'[r] = rows[r] /\ r \in DOMAIN task'
      BY <2>2, <3>4 DEF Shown
    <3>5. CASE /\ r \in DOMAIN rows /\ rows'[r].life = rows[r].life
               /\ \/ rows'[r].status = "error"
                  \/ /\ rows'[r].status = rows[r].status /\ rows'[r].stuck
                     /\ rows'[r].path = rows[r].path
                  \/ /\ rows'[r].status = "success"
                     /\ task[r].at = "finish" /\ rows'[r].path = task[r].path
      BY <2>2, <3>1, <3>5 DEF Shown
    <3> QED BY <1>1, <3>2, <3>3, <3>4, <3>5, RowSteps
  <2> QED BY <2>1, <2>2, <2>3, <2>4, <2>5 DEF Shown
<1>2. ASSUME NEW item \in Items, NEW trigger, StartScheduled(item, trigger),
             UNCHANGED <<rows, files, server>>
      PROVE  Shown'
  <2>1. count'.lives = count.lives BY <1>2, Starting DEF TypeOK, Counts
  <2> QED BY <1>2, <2>1, Starting DEF Shown
<1>3. ASSUME NEW q \in Query, Delete(q) PROVE Shown'
  BY <1>3 DEF Delete, Only, Shown, mind, disk
<1>4. CASE CloseBegins \/ CloseWaits
  BY <1>4 DEF CloseBegins, CloseWaits, Shown, store, mind, disk
<1>5. CASE CloseReturns \/ Crash
  BY <1>5 DEF CloseReturns, Crash, Gone, Shown, store, disk
<1>6. CASE Restart
  <2>1. count'.lives = count.lives + 1 /\ UNCHANGED <<rows, task, files>>
    BY <1>6 DEF Restart, TypeOK, Counts, store, mind, disk
  <2>2. \A r \in DOMAIN rows : rows[r].life <= count.lives BY DEF Shown
  <2>3. \A r \in DOMAIN rows : rows[r].life < count'.lives BY <1>0, <2>1, <2>2
  <2> QED BY <1>0, <2>1, <2>3 DEF Shown
<1>7. CASE UNCHANGED runState /\ count'.lives = count.lives
  BY <1>7 DEF runState, Shown
<1> QED BY <1>1, <1>2, <1>3, <1>4, <1>5, <1>6, <1>7, RunSteps

\* What is being written has its file, and a closed server writes nothing.
LEMMA WrittenNext ==
    ASSUME TypeOK, OneRunEach, RowsKept, Written, Next
    PROVE  Written'
<1>0. /\ count.lives \in Nat
      /\ \A p \in DOMAIN partial : partial[p] \in Nat
  BY DEF TypeOK, Counts
<1>1. ASSUME NEW r, Task(r) PROVE Written'
  <2>1. /\ r \in DOMAIN task /\ count'.lives = count.lives /\ server' = server
        /\ DOMAIN task' \subseteq DOMAIN task
        /\ \A x \in DOMAIN task \ {r} : x \in DOMAIN task' /\ task'[x] = task[x]
    BY <1>1, TaskSteps DEF SameCount
  <2>2. CASE OpenPartial(r)
    <3> DEFINE path == <<task[r].name, now>>
    <3>1. /\ task[r].at = "execute" /\ ~Cancelled
          /\ partial' = With(partial, path, count.lives)
          /\ r \in DOMAIN task' /\ task'[r].at = "write" /\ task'[r].path = path
      <4>1. task[r] \in Tasks BY <2>1 DEF TypeOK
      <4> QED BY <2>1, <2>2, <4>1 DEF OpenPartial, At, TypeOK, Tasks
    <3> HIDE DEF path
    <3>2. \A p \in DOMAIN partial' : \/ p = path /\ partial'[p] = count.lives
                                     \/ p \in DOMAIN partial /\ partial'[p] = partial[p]
      BY <3>1 DEF With
    <3>3. server = "up" BY <3>1 DEF Cancelled
    <3> QED BY <1>0, <2>1, <3>1, <3>2, <3>3 DEF Written
  <2>3. CASE WriteResult(r) \/ WriteFails(r)
    <3>1. /\ task[r].at = "write" /\ DOMAIN partial' = DOMAIN partial \ {task[r].path}
          /\ \A p \in DOMAIN partial' : partial'[p] = partial[p]
      BY <2>3 DEF WriteResult, WriteFails, At, RemovePartial, Only
    <3> QED BY <2>1, <3>1 DEF Written
  <2>4. CASE CreateRun(r) \/ CreateRunIsCut(r) \/ Refuse(r) \/ FinishRun(r)
    <3>1. partial' = partial /\ task[r].at # "write"
      BY <2>4 DEF CreateRun, CreateRunIsCut, Refuse, FinishRun, At, disk
    <3>2. server = "waited" => r \notin DOMAIN task'
      <4>1. CASE CreateRun(r) /\ server = "waited"
        <5>1. Leaves(r) BY <4>1 DEF CreateRun, Cancelled
        <5> QED BY <2>1, <5>1, Leaving
      <4>2. CASE CreateRunIsCut(r) BY <2>1, <4>2, Cutting
      <4>3. CASE Refuse(r) \/ FinishRun(r)
        BY <2>1, <4>3 DEF Refuse, FinishRun, At, Written
      <4> QED BY <2>4, <4>1, <4>2, <4>3
    <3> QED BY <2>1, <3>1, <3>2 DEF Written
  <2> QED BY <1>1, <2>2, <2>3, <2>4 DEF Task
<1>2. ASSUME NEW item \in Items, NEW trigger, StartScheduled(item, trigger),
             UNCHANGED <<partial, server>>
      PROVE  Written'
  <2>1. count'.lives = count.lives BY <1>2, Starting DEF TypeOK, Counts
  <2> QED BY <1>2, <2>1, Starting DEF Written
<1>3. ASSUME NEW q \in Query, Delete(q) PROVE Written'
  BY <1>3 DEF Delete, Written, mind, disk
<1>4. CASE CloseBegins
  BY <1>4 DEF CloseBegins, Written, store, mind, disk
<1>5. CASE CloseWaits
  <2>1. DOMAIN task = {} BY <1>5 DEF CloseWaits
  <2> QED BY <1>5, <2>1 DEF CloseWaits, Written, store, mind, disk
<1>6. CASE CloseReturns
  <2>1. UNCHANGED <<partial, count>> /\ server = "waited" /\ server' = "closed"
    BY <1>6 DEF CloseReturns, disk
  <2>2. \A p \in DOMAIN partial : partial[p] # count.lives
    BY <2>1 DEF Written
  <2> QED BY <1>0, <2>1, <2>2 DEF Written
<1>7. CASE Crash
  BY <1>7 DEF Crash, Written, disk
<1>8. CASE Restart
  <2>1. count'.lives = count.lives + 1 /\ UNCHANGED <<partial, task>> /\ server' = "up"
    BY <1>8 DEF Restart, TypeOK, Counts, mind, disk
  <2>2. \A p \in DOMAIN partial : partial[p] <= count.lives BY DEF Written
  <2>3. \A p \in DOMAIN partial : partial[p] < count'.lives BY <1>0, <2>1, <2>2
  <2> QED BY <1>0, <2>1, <2>3 DEF Written
<1>9. CASE UNCHANGED runState /\ count'.lives = count.lives
  BY <1>9 DEF runState, Written
<1> QED
  BY <1>1, <1>2, <1>3, <1>4, <1>5, <1>6, <1>7, <1>8, <1>9, RunSteps

-----------------------------------------------------------------------------
(* The theorems *)

\* The inductive invariant holds to begin with.
LEMMA InductiveInit == Init => IInv
<1> SUFFICES ASSUME Init PROVE IInv OBVIOUS
<1>1. TypeOK BY TypeInit
<1>2. /\ DOMAIN query = {} /\ DOMAIN rows = {} /\ DOMAIN partial = {}
      /\ DOMAIN task = {} /\ owner = {} /\ running = {} /\ started = {}
      /\ loop.items = {} /\ loop.picked = {} /\ loop.at = "due" /\ server = "up"
  BY DEF Init, InitAt, Asleep
<1> QED
  BY <1>1, <1>2
  DEF IInv, OnePass, InHand, Versions, NeverAgain, OneRunEach, RowsKept,
      Shown, Written

\* Every step keeps it.
LEMMA InductiveNext == IInv /\ [Next]_vars => IInv'
<1> SUFFICES ASSUME IInv, [Next]_vars PROVE IInv' OBVIOUS
<1>1. CASE Next
  BY <1>1, TypeNext, OnePassNext, VersionsNext, NeverAgainNext, OneRunNext,
     RowsKeptNext, ShownNext, WrittenNext
  DEF IInv
<1>2. CASE UNCHANGED vars
  BY <1>2
  DEF IInv, vars, store, disk, mind, TypeOK, OnePass, InHand, Versions,
      NeverAgain, Behind, OneRunEach, RowsKept, Shown, Written
<1> QED BY <1>1, <1>2

\* So it always holds.
LEMMA Inductive == Spec => []IInv
  BY InductiveInit, InductiveNext, PTL DEF Spec

\* The tables and the loop keep their types: a next run, in particular, is
\* always a time or NULL, for every schedule validate lets pass.
THEOREM TypeCorrect == Spec => []TypeOK
<1>1. IInv => TypeOK BY DEF IInv
<1> QED BY <1>1, Inductive, PTL

\* What is started now is of a later instant than what was started of the same
\* version before: its item was read ahead of all of them.
LEMMA StartedOnceNext == IInv /\ StartedOnce /\ [Next]_vars => StartedOnce'
<1> SUFFICES ASSUME IInv, StartedOnce, [Next]_vars PROVE StartedOnce' OBVIOUS
<1> USE DEF IInv
<1>1. CASE UNCHANGED started BY <1>1 DEF StartedOnce
<1>2. CASE StartDue
  <2>1. CASE \E item \in loop.picked : started' = started \cup
                 {[q |-> item.q, rev |-> item.row.rev,
                   due |-> item.row.next, run |-> count.runs + 1]}
    <3>1. PICK item \in loop.picked : started' = started \cup
                   {[q |-> item.q, rev |-> item.row.rev,
                     due |-> item.row.next, run |-> count.runs + 1]}
      BY <2>1
    <3>2. item \in InHand /\ item.row.next \in Nat
      BY DEF InHand, TypeOK, Items, Rows
    <3>3. ASSUME NEW s \in started, s.q = item.q, s.rev = item.row.rev
          PROVE  s.due # item.row.next
      <4>1. s.due \in Nat /\ s.due < item.row.next
        BY <3>2, <3>3 DEF NeverAgain, Behind, TypeOK
      <4> QED BY <3>2, <4>1
    <3> QED BY <3>1, <3>3 DEF StartedOnce
  <2> QED BY <1>1, <1>2, <2>1, Starts
<1>3. CASE \E q \in Query : \/ Delete(q) \/ RunNow(q)
                           \/ \E in \in Inputs : Save(q, in)
  BY <1>1, <1>3, Owner, ByOwner
<1>4. CASE ReadDue \/ Advance \/ CloseReturns \/ Crash \/ Restart
  BY <1>1, <1>4, Reads, Advances, Ends
<1>5. CASE Store \/ Wake
  BY <1>1, <1>5 DEF Store, Wake
<1> QED BY <1>1, <1>2, <1>3, <1>4, <1>5, Elsewhere DEF vars

\* For any schedules, edits, ticks, crashes and restarts: an instant one version
\* of a query is due at starts one run at most.
THEOREM StartsOnce == Spec => []StartedOnce
<1>1. Init => StartedOnce BY DEF Init, InitAt, StartedOnce
<1>2. IInv /\ StartedOnce /\ [Next]_vars => StartedOnce' BY StartedOnceNext
<1> QED BY <1>1, <1>2, Inductive, PTL DEF Spec

\* For any number of queries, runs and processes the run list is true: of what
\* runs, of what has ended, of the files and of what a closed server left.
THEOREM RunListIsTrue == Spec => []RunsAreTrue
<1>1. IInv => RunsAreTrue
  BY DEF IInv, TypeOK, OneRunEach, RowsKept, Shown, Written, RunsAreTrue
<1> QED BY <1>1, Inductive, PTL
=============================================================================
