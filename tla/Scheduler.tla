----------------------------- MODULE Scheduler ------------------------------
(***************************************************************************)
(* Scheduled queries (api/scheduler.go, api/schedule.go,                   *)
(* store/schedules.go): a loop starts the queries that are due, the owner  *)
(* saves, deletes and starts them meanwhile, each run writes a file and a  *)
(* row, and the server closes or crashes in between.                       *)
(*                                                                         *)
(* Time is counted in ticks of the loop; an instant of the clock of file   *)
(* names is one of them.  The zone is UTC.  What a run may meet (an owner  *)
(* or a connection that is gone, a policy, a failing query) is a choice,   *)
(* and so is a failing statement of the store, MaxFaults times.            *)
(***************************************************************************)
EXTENDS Naturals, FiniteSets, FiniteSetsExt

CONSTANTS Query,        \* identifiers a saved query can get
          Inputs,       \* what the owner can submit
          DayLength,    \* ticks of a day
          MinEvery,     \* bounds of an interval
          MaxEvery,
          Late,         \* ticks after which a run counts as missed
          Kept,         \* runs kept of each query
          Result,       \* rows of a result
          Limit,        \* the policies' row cap, 0 for none
          MaxTime, MaxRuns, MaxSaves, MaxLives, MaxFaults   \* bounds

ASSUME SchedulerAssumption ==
    /\ DayLength \in Nat \ {0} /\ Late \in Nat /\ Kept \in Nat \ {0}
    /\ MinEvery \in Nat \ {0} /\ MaxEvery \in Nat /\ Result \in Nat /\ Limit \in Nat

VARIABLES now,        \* the clock
          query,      \* the table scheduled_queries, by identifier
          deleted,    \* identifiers that were deleted
          rows,       \* the table scheduled_query_runs, by run
          files,      \* the whole files of the output folder: the runs whose
                      \* results got that name, one over the other
          partial,    \* files under their .partial name, and the process that opened them
          server,     \* "up", "closing", "waited", "closed", "down"
          loop,       \* the scheduler goroutine
          owner,      \* the save the owner's request is about to store, if any
          running,    \* scheduleRunning
          task,       \* the goroutines of scheduleRuns, by run
          started,    \* history: the runs started by the schedule and what for
          count       \* history: runs, saves, processes and failures so far

store == <<query, deleted, rows>>
disk  == <<files, partial>>
mind  == <<running, task>>
vars  == <<now, store, disk, server, loop, owner, mind, started, count>>

With(f, k, v)  == [x \in DOMAIN f \union {k} |-> IF x = k THEN v ELSE f[x]]
Only(f, S)     == [x \in DOMAIN f \intersect S |-> f[x]]

Cancelled == server # "up"     \* scheduleContext

\* A statement of the store fails for a reason of its own.
StoreFails ==
    /\ count.faults < MaxFaults
    /\ count' = [count EXCEPT !.faults = @ + 1]

\* A statement does nothing, for this reason or for one of its own.
Stopped(reason) == (reason /\ UNCHANGED count) \/ StoreFails

-----------------------------------------------------------------------------
\* scheduleSpec.validate.
ValidSpec(spec) ==
    CASE spec.kind = "interval" -> spec.every \in MinEvery..MaxEvery
      [] spec.kind = "daily"    -> spec.at \in 0..(DayLength - 1)
      [] spec.kind = "weekly"   -> spec.at \in 0..(DayLength - 1) /\ spec.days # {} /\ spec.days \subseteq 0..6
      [] OTHER -> FALSE

\* Seeded fault: an instant counts as after itself.
CandidatesFrom(spec, after) ==
    {t \in {((after \div DayLength) + offset) * DayLength + spec.at : offset \in 0..8} :
        /\ t >= after
        /\ spec.kind = "weekly" => (t \div DayLength) % 7 \in spec.days}

\* scheduleSpec.next: the wall-clock times of today and the 8 days after it.
Candidates(spec, after) ==
    {t \in {((after \div DayLength) + offset) * DayLength + spec.at : offset \in 0..8} :
        /\ t > after
        /\ spec.kind = "weekly" => (t \div DayLength) % 7 \in spec.days}

NextRun(spec, after) ==
    IF spec.kind = "interval" THEN after + spec.every ELSE Min(Candidates(spec, after))

\* nextRunString; 0 stands for NULL.
NextOf(in, t) == IF in.enabled THEN NextRun(in.spec, t) ELSE 0

\* validateScheduled: one SELECT on a connection the owner can use.
Valid(in) == in.statement = "select" /\ in.reachable /\ ValidSpec(in.spec)

Row(in, t, rev) == [in |-> in, rev |-> rev, next |-> NextOf(in, t)]

DueQueries(t) == {q \in DOMAIN query : query[q].in.enabled /\ query[q].next # 0 /\ query[q].next <= t}

\* writeRows, writeInsertRows.
WriteRows(n, limit) == IF limit > 0 /\ n >= limit THEN [rows |-> limit, truncated |-> TRUE]
                                                  ELSE [rows |-> n, truncated |-> FALSE]

-----------------------------------------------------------------------------
Asleep == [at |-> "asleep", tick |-> 0, items |-> {}, picked |-> {}]

\* A process starts: the first look at what is due is at once.
Started == [Asleep EXCEPT !.at = "due", !.tick = now]

\* A process that starts at a time with the queries saved and deleted before it.
InitAt(time, saved, gone, so_far) ==
    /\ now = time /\ server = "up"
    /\ query = saved /\ deleted = gone /\ rows = [r \in {} |-> 0]
    /\ files = [p \in {} |-> 0] /\ partial = [p \in {} |-> 0]
    /\ loop = [Asleep EXCEPT !.at = "due", !.tick = time] /\ owner = {}
    /\ running = {} /\ task = [r \in {} |-> 0]
    /\ started = {} /\ count = so_far

Init == InitAt(0, [q \in {} |-> 0], {}, [runs |-> 0, saves |-> 0, lives |-> 1, faults |-> 0])

Clock ==
    /\ now < MaxTime
    /\ now' = now + 1
    /\ UNCHANGED <<store, disk, server, loop, owner, mind, started, count>>

-----------------------------------------------------------------------------
(* The owner's requests.  One at a time: it is one person's list.  A save  *)
(* or a deletion the store fails changes nothing and is left out.          *)

\* saveScheduled up to the database: the next run is computed here.
Save(q, in) ==
    /\ server = "up" /\ owner = {} /\ q \notin deleted /\ Valid(in)
    /\ count.saves < MaxSaves
    /\ count' = [count EXCEPT !.saves = @ + 1]
    /\ owner' = {[q |-> q, row |-> Row(in, now, count'.saves)]}
    /\ UNCHANGED <<now, store, disk, server, loop, mind, started>>

\* CreateScheduledQuery, UpdateScheduledQuery.
Store ==
    /\ \E item \in owner : query' = With(query, item.q, item.row)
    /\ owner' = {}
    /\ UNCHANGED <<now, deleted, rows, disk, server, loop, mind, started, count>>

\* deleteScheduled; the runs go with their query.
Delete(q) ==
    /\ server = "up" /\ owner = {} /\ q \in DOMAIN query
    /\ query' = Only(query, Query \ {q})
    /\ deleted' = deleted \union {q}
    /\ rows' = Only(rows, {r \in DOMAIN rows : rows[r].q # q})
    /\ UNCHANGED <<now, disk, server, loop, owner, mind, started, count>>

-----------------------------------------------------------------------------
(* startScheduled, by the loop or for the owner, under scheduleMu. *)

\* Seeded fault: a query that is running starts once more.
StartableTwice(q) == count.runs < MaxRuns

\* The shutdown is not ordered with the check: who got here before Close began
\* may have checked before it, too, and adds its run after Close has waited.
\* MaxRuns refuses as a shutdown would.
Startable(q) == q \notin running /\ count.runs < MaxRuns

StartScheduled(item, trigger) ==
    LET run == count.runs + 1 IN
    /\ Startable(item.q)
    /\ count' = [count EXCEPT !.runs = run]
    /\ running' = running \union {item.q}
    /\ task' = With(task, run, [at |-> "create", q |-> item.q, name |-> item.row.in.name, path |-> <<>>])
    /\ started' = IF trigger = "schedule"
                  THEN started \union {[q |-> item.q, rev |-> item.row.rev, due |-> item.row.next, run |-> run]}
                  ELSE started

\* runScheduledNow; a refusal changes nothing.
RunNow(q) ==
    /\ server = "up" /\ owner = {} /\ q \in DOMAIN query
    /\ StartScheduled([q |-> q, row |-> query[q]], "manual")
    /\ UNCHANGED <<now, store, disk, server, loop, owner>>

\* Where the loop goes on after an item.
NextItem(l) == [l EXCEPT !.picked = {}, !.at = IF l.items = {} THEN "asleep" ELSE "advance"]

StartDue ==
    /\ loop.at = "start"
    /\ \E item \in loop.picked :
         \/ StartScheduled(item, "schedule")
         \/ (~Startable(item.q) \/ Cancelled) /\ UNCHANGED <<count, mind, started>>
    /\ loop' = NextItem(loop)
    /\ UNCHANGED <<now, store, disk, server, owner>>

-----------------------------------------------------------------------------
(* scheduler, startDueSchedules. *)

\* The ticker keeps one tick for a loop that was busy, so its time may be past.
Wake ==
    /\ loop.at = "asleep" /\ server = "up"
    /\ \E t \in ((loop.tick + 1)..now) \union ({MaxTime} \intersect {now}) :
         loop' = [loop EXCEPT !.at = "due", !.tick = t]
    /\ UNCHANGED <<now, store, disk, server, owner, mind, started, count>>

\* DueScheduledQueries; if it fails the loop waits for the next tick.
ReadDue ==
    /\ loop.at = "due"
    /\ \/ /\ ~Cancelled /\ UNCHANGED count
          /\ loop' = NextItem([loop EXCEPT !.items = {[q |-> q, row |-> query[q]] : q \in DueQueries(loop.tick)}])
       \/ /\ Stopped(Cancelled) /\ loop' = NextItem(loop)
    /\ UNCHANGED <<now, store, disk, server, owner, mind, started>>

\* A run missed by more than two ticks waits for its next time, or catches up.
Skipped(row) == loop.tick > row.next + Late /\ ~row.in.catchUp

\* Seeded fault: a skipped run is not advanced.
AdvancedIfRun(item) ==
    IF item.q \in DOMAIN query /\ ~Skipped(item.row)
    THEN [query EXCEPT ![item.q].next = NextRun(item.row.in.spec, loop.tick)] ELSE query

\* SetScheduledNextRun, whatever the row holds by now.
Advanced(item) ==
    IF item.q \in DOMAIN query
    THEN [query EXCEPT ![item.q].next = NextRun(item.row.in.spec, loop.tick)] ELSE query

\* A query that cannot be advanced is passed over, and not started.
Advance ==
    /\ loop.at = "advance"
    /\ \E item \in loop.items :
         LET rest == [loop EXCEPT !.items = @ \ {item}, !.picked = {item}] IN
         /\ \A other \in loop.items : item.row.next <= other.row.next
         /\ \/ /\ ~Cancelled /\ query' = Advanced(item) /\ UNCHANGED count
               /\ loop' = IF Skipped(item.row) THEN NextItem(rest) ELSE [rest EXCEPT !.at = "start"]
            \/ /\ Stopped(Cancelled) /\ loop' = NextItem(rest) /\ UNCHANGED query
    /\ UNCHANGED <<now, deleted, rows, disk, server, owner, mind, started>>

-----------------------------------------------------------------------------
(* runScheduled, executeScheduled, writeScheduledResult: one goroutine. *)

At(r, stage) == r \in DOMAIN task /\ task[r].at = stage

Goes(r, stage) == task' = [task EXCEPT ![r].at = stage] /\ UNCHANGED running

\* The deferred calls: scheduleRunning, then scheduleRuns.
Leaves(r) == task' = Only(task, DOMAIN task \ {r}) /\ running' = running \ {task[r].q}

Latest(q, table) ==
    {r \in DOMAIN table : table[r].q = q => Cardinality({s \in DOMAIN table : table[s].q = q /\ s > r}) < Kept}

\* The row of a run that begins; stuck, for the properties: its run ended and
\* the statement that should have said so, or made it begin, failed.
Begun(r, stuck) ==
    [q |-> task[r].q, status |-> "running", path |-> <<>>, written |-> 0, life |-> count.lives, stuck |-> stuck]

\* CreateScheduledRun adds the row and drops the oldest; without it there is no run.
CreateRun(r) ==
    LET added == With(rows, r, Begun(r, FALSE)) IN
    /\ At(r, "create")
    /\ \/ /\ ~Cancelled /\ task[r].q \in DOMAIN query /\ UNCHANGED count
          /\ Goes(r, "execute") /\ rows' = Only(added, Latest(task[r].q, added))
       \/ /\ Stopped(Cancelled \/ task[r].q \notin DOMAIN query) /\ Leaves(r) /\ UNCHANGED rows
    /\ UNCHANGED <<now, query, deleted, disk, server, loop, owner, started>>

\* The shutdown comes between the two statements, or the second fails: the row
\* is there, and the run is given up.
CreateRunIsCut(r) ==
    /\ At(r, "create") /\ task[r].q \in DOMAIN query
    /\ server \in {"up", "closing"} /\ Stopped(server = "closing")
    /\ rows' = With(rows, r, Begun(r, TRUE)) /\ Leaves(r)
    /\ UNCHANGED <<now, query, deleted, disk, server, loop, owner, started>>

\* FinishScheduledRun, which no shutdown cancels; its error is only logged, and
\* the row stays as it is.
FinishRow(r, status, path, written) ==
    LET On(row) == rows' = IF r \in DOMAIN rows THEN [rows EXCEPT ![r] = row] ELSE rows IN
    \/ On([rows[r] EXCEPT !.status = status, !.path = path, !.written = written]) /\ UNCHANGED count
    \/ On([rows[r] EXCEPT !.stuck = TRUE]) /\ StoreFails

\* executeScheduled refuses, or its query or its file cannot be opened.
Refuse(r) ==
    /\ At(r, "execute")
    /\ FinishRow(r, "error", <<>>, 0) /\ Leaves(r)
    /\ UNCHANGED <<now, query, deleted, disk, server, loop, owner, started>>

\* The file of this name and second; one that is being written is not shared.
OpenPartial(r) ==
    LET path == <<task[r].name, now>> IN
    /\ At(r, "execute") /\ ~Cancelled /\ path \notin DOMAIN partial
    /\ partial' = With(partial, path, count.lives)
    /\ task' = [task EXCEPT ![r].at = "write", ![r].path = path]
    /\ UNCHANGED <<now, store, files, server, loop, owner, running, started, count>>

RemovePartial(r) == partial' = Only(partial, DOMAIN partial \ {task[r].path})

\* The runs whose results a name has had.
PutAt(folder, path) == IF path \in DOMAIN folder THEN folder[path] ELSE {}

\* The rename puts the result over what had its name.
WriteResult(r) ==
    /\ At(r, "write") /\ RemovePartial(r)
    /\ files' = With(files, task[r].path, PutAt(files, task[r].path) \union {r})
    /\ Goes(r, "finish")
    /\ UNCHANGED <<now, store, server, loop, owner, started, count>>

WriteFails(r) ==
    /\ At(r, "write") /\ RemovePartial(r)
    /\ FinishRow(r, "error", <<>>, 0) /\ Leaves(r)
    /\ UNCHANGED <<now, query, deleted, files, server, loop, owner, started>>

FinishRun(r) ==
    /\ At(r, "finish")
    /\ FinishRow(r, "success", task[r].path, WriteRows(Result, Limit).rows) /\ Leaves(r)
    /\ UNCHANGED <<now, query, deleted, disk, server, loop, owner, started>>

-----------------------------------------------------------------------------
(* Server.Close, a crash and the next start. *)

CloseBegins ==
    /\ server = "up" /\ server' = "closing"
    /\ UNCHANGED <<now, store, disk, loop, owner, mind, started, count>>

\* scheduleRuns.Wait.
CloseWaits ==
    /\ server = "closing" /\ task = [r \in {} |-> 0] /\ server' = "waited"
    /\ UNCHANGED <<now, store, disk, loop, owner, mind, started, count>>

\* What a process leaves behind is on disk.
Gone == loop' = Asleep /\ owner' = {} /\ running' = {} /\ task' = [r \in {} |-> 0]

\* loops.Wait; the store closes and the process ends.
CloseReturns ==
    /\ server = "waited" /\ loop.at = "asleep" /\ server' = "closed" /\ Gone
    /\ UNCHANGED <<now, store, disk, started, count>>

Crash ==
    /\ server \in {"up", "closing", "waited"} /\ server' = "down" /\ Gone
    /\ UNCHANGED <<now, store, disk, started, count>>

Restart ==
    /\ server \in {"closed", "down"} /\ count.lives < MaxLives
    /\ server' = "up" /\ count' = [count EXCEPT !.lives = @ + 1]
    /\ loop' = Started
    /\ UNCHANGED <<now, store, disk, owner, mind, started>>

-----------------------------------------------------------------------------
Look    == Wake \/ ReadDue \/ Advance \/ StartDue
Task(r) == CreateRun(r) \/ CreateRunIsCut(r) \/ Refuse(r) \/ OpenPartial(r)
           \/ WriteResult(r) \/ WriteFails(r) \/ FinishRun(r)
Close == CloseWaits \/ CloseReturns

Next ==
    \/ Clock \/ Look \/ Store \/ Close
    \/ \E q \in Query : Delete(q) \/ RunNow(q) \/ \E in \in Inputs : Save(q, in)
    \/ \E r \in 1..MaxRuns : Task(r)
    \/ CloseBegins \/ Crash \/ Restart

\* Goroutines run on, the clock too; a query and its file end one way or the other.
\* Of the steps that come to an end by themselves one at a time is enough.
Fairness ==
    /\ WF_vars(Look) /\ WF_vars(Close)
    /\ WF_vars(Clock \/ Store \/ \E r \in 1..MaxRuns : Task(r))

Spec == Init /\ [][Next]_vars /\ Fairness

-----------------------------------------------------------------------------
\* An instant one version of a query is due at starts one run, however late its
\* edits land and whatever process finds it due ("Advance first, so a slow or
\* failing run is never started twice", scheduler.go:60).
StartedOnce ==
    \A a, b \in started : a.q = b.q /\ a.rev = b.rev /\ a.due = b.due => a.run = b.run

\* What the run list says holds, as far as the code makes it: a query runs once
\* at a time; a run shown as running is running, unless its process has ended or
\* a statement of the store failed on it, of which the code only logs the error
\* (scheduler.go:112) and lets the row stand; a run shown as a success has put
\* its whole result under the file name it shows, where only a run of the same
\* name and second may have put another over it; a closed server has left
\* nothing half-written; and a run at work keeps its row.
RunsAreTrue ==
    /\ \A a, b \in DOMAIN task : task[a].q = task[b].q => a = b
    /\ server = "up" => \A r \in DOMAIN rows :
         rows[r].status = "running" /\ rows[r].life = count.lives => r \in DOMAIN task \/ rows[r].stuck
    /\ \A r \in DOMAIN rows : rows[r].status = "success" =>
         r \in PutAt(files, rows[r].path)
    /\ server = "closed" => \A p \in DOMAIN partial : partial[p] < count.lives
    /\ \A r \in DOMAIN task : task[r].at \in {"execute", "write", "finish"} =>
         r \in DOMAIN rows \/ task[r].q \in deleted

\* A query that is due is advanced while the server runs, and Close ends.  (A
\* store that fails for ever is not considered.)
DueIsHandled ==
    /\ \A q \in Query : q \in DueQueries(now) ~> q \notin DueQueries(now) \/ server # "up"
    /\ server = "closing" ~> server \in {"closed", "down"}
=============================================================================
