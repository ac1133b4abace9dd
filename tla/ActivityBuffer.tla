---------------------------- MODULE ActivityBuffer ---------------------------
(***************************************************************************)
(* The activity buffer (activity/activity.go): requests hand their records *)
(* to one writer through a bounded queue, the writer stores them in        *)
(* batches and retries a batch that fails, a read waits behind a barrier   *)
(* in the queue, and Close drains the queue before a deadline.  Records    *)
(* are stored in the audit chain (AuditChain), which retention shortens.   *)
(*                                                                         *)
(* A step is one operation of the queue's channel, one of the locks        *)
(* closing and auditMu, or one transaction of SQLite.  A barrier is known  *)
(* by the request that waits behind it, None once that request has left.   *)
(***************************************************************************)
EXTENDS AuditChain, SequencesExt

CONSTANTS
    Req,        \* request slots, one goroutine each
    Reading,    \* the slots in which reads arrive, too
    MaxRecord,  \* bound on the records made, which are numbered
    Capacity,   \* of the queue
    MaxBatch,
    Writer      \* the goroutine that stores what is queued

Record == 1..MaxRecord
Proc   == Req \cup {Writer}

ASSUME BufferAssumption ==
    /\ MaxRecord \in Nat /\ Reading \subseteq Req
    /\ Capacity \in Nat \ {0} /\ MaxBatch \in Nat \ {0}
    /\ Req \cap Nat = {} /\ Writer \notin Req
    /\ None \notin Nat \cup Proc

VARIABLES
    queue, batch,   \* Buffered.queue, and the records in the writer's hands
    writer,         \* where the writer stands
    closer,         \* where Close stands
    writing,        \* who is in WriteActivity, under auditMu
    head,           \* head[p]: the chain head it read
    rows,           \* the table
    pc, rec,        \* where each request stands, the record it writes
    \* History.
    made,           \* the number of records made
    accepted,       \* those that went into the queue
    abandoned,      \* those a cancelled writer gave up
    purged,         \* those retention removed
    due             \* due[r]: what had been accepted when r began to read

table   == <<writing, head, rows>>
calls   == <<pc, rec, due>>
history == <<made, accepted, abandoned, purged>>
vars    == <<queue, batch, writer, closer, table, calls, history>>

\* close(b.shutdown) comes first in Close, b.closed with the lock.
Shutdown  == closer # "open"
Closed    == closer \notin {"open", "locking"}
Cancelled == closer \in {"cancelled", "closed", "left"}

Init ==
    /\ queue = <<>> /\ batch = <<>>
    /\ writer = "receive" /\ closer = "open"
    /\ writing = {} /\ head = [p \in Proc |-> None] /\ rows = <<>>
    /\ pc = [r \in Req |-> "idle"]
    /\ rec = [r \in Req |-> None]
    /\ made = 0
    /\ accepted = {} /\ abandoned = {} /\ purged = {}
    /\ due = [r \in Req |-> {}]

Goto(r, l) == pc' = [pc EXCEPT ![r] = l]

Answered(r) ==
    /\ Goto(r, "idle")
    /\ rec' = [rec EXCEPT ![r] = None]
    /\ due' = [due EXCEPT ![r] = {}]

-----------------------------------------------------------------------------
(* The queue *)

HasRoom == Len(queue) < Capacity

\* closing.RLock: a Close that waits for the lock lets no new reader in.
MayRead == closer # "locking"

\* Those who hold closing for reading while they wait for room.
Readers == {r \in Req : pc[r] \in {"room", "barrier"}}

Arrive(r) ==
    /\ pc[r] = "idle"
    /\ \/ /\ made < MaxRecord /\ made' = made + 1
          /\ rec' = [rec EXCEPT ![r] = made + 1]
          /\ Goto(r, "enqueue")
          /\ UNCHANGED due
       \/ /\ r \in Reading
          /\ due' = [due EXCEPT ![r] = accepted]
          /\ Goto(r, "flush")
          /\ UNCHANGED <<rec, made>>
    /\ UNCHANGED <<queue, batch, writer, closer, table, accepted, abandoned, purged>>

Send(r, from) ==
    /\ pc[r] = from /\ HasRoom
    /\ queue' = Append(queue, rec[r])
    /\ accepted' = accepted \cup {rec[r]}
    /\ Answered(r)
    /\ UNCHANGED <<batch, writer, closer, table, made, abandoned, purged>>

Enqueue(r) == MayRead /\ ~Closed /\ Send(r, "enqueue")

\* Closed: it is written directly.  Full: it waits for room.
EnqueueNot(r) ==
    /\ pc[r] = "enqueue" /\ MayRead
    /\ \/ Closed /\ Goto(r, "direct")
       \/ ~Closed /\ ~HasRoom /\ Goto(r, "room")
    /\ UNCHANGED <<queue, batch, writer, closer, table, rec, due, history>>

EnqueueRoom(r) == Send(r, "room")

\* Seeded fault: only the shutdown ends the wait.
EnqueueAtShutdown(r) ==
    /\ pc[r] = "room" /\ Shutdown
    /\ Goto(r, "direct")
    /\ UNCHANGED <<queue, batch, writer, closer, table, rec, due, history>>

\* The shutdown began, or enqueueWait is over.
EnqueueGivesUp(r) ==
    /\ pc[r] = "room"
    /\ Goto(r, "direct")
    /\ UNCHANGED <<queue, batch, writer, closer, table, rec, due, history>>

-----------------------------------------------------------------------------
(* Flush, ListQueryHistory, VerifyAuditChain *)

SendBarrier(r, from) ==
    /\ pc[r] = from /\ HasRoom
    /\ queue' = Append(queue, r)
    /\ Goto(r, "wait")
    /\ UNCHANGED <<batch, writer, closer, table, rec, due, history>>

EnqueueBarrier(r) == MayRead /\ ~Closed /\ SendBarrier(r, "flush")

BarrierNot(r) ==
    /\ pc[r] = "flush" /\ MayRead
    /\ \/ Closed /\ Goto(r, "flushed")
       \/ ~Closed /\ ~HasRoom /\ Goto(r, "barrier")
    /\ UNCHANGED <<queue, batch, writer, closer, table, rec, due, history>>

BarrierRoom(r) == SendBarrier(r, "barrier")

BarrierShutdown(r) ==
    /\ pc[r] = "barrier" /\ Shutdown
    /\ Goto(r, "flushed")
    /\ UNCHANGED <<queue, batch, writer, closer, table, rec, due, history>>

\* flushBeforeReadWait is over: the read goes on without its barrier.
FlushTimesOut(r) ==
    /\ pc[r] \in {"barrier", "wait"}
    /\ queue' = ReplaceAll(queue, r, None)
    /\ batch' = ReplaceAll(batch, r, None)
    /\ Goto(r, "unflushed")
    /\ UNCHANGED <<writer, closer, table, rec, due, history>>

List(r) ==
    /\ pc[r] \in {"flushed", "unflushed"}
    /\ Answered(r)
    /\ UNCHANGED <<queue, batch, writer, closer, table, history>>

-----------------------------------------------------------------------------
(* WriteActivity: a transaction of p, who writes items *)

\* Seeded fault: two transactions overlap.
AnyTime == TRUE

MayWrite == writing = {}

\* auditMu and BEGIN IMMEDIATE; the chain head is read under both.
BeginWrite(p) ==
    /\ MayWrite
    /\ writing' = writing \cup {p}
    /\ head' = [head EXCEPT ![p] = ChainHead(rows)]
    /\ UNCHANGED rows

EndWrite(p, new) ==
    /\ writing' = writing \ {p}
    /\ head' = [head EXCEPT ![p] = None]
    /\ rows' = new

Commit(p, items) == EndWrite(p, rows \o Chained(head[p], items))

\* Seeded fault: the entry inserted before the failure stays.
HalfWritten(p, items) == rows \o Chained(head[p], SubSeq(items, 1, 1))

Unwritten(p, items) == rows

Rollback(p, items) == EndWrite(p, Unwritten(p, items))

BeginDirect(r) ==
    /\ pc[r] = "direct"
    /\ BeginWrite(r)
    /\ Goto(r, "write")
    /\ UNCHANGED <<queue, batch, writer, closer, rec, due, history>>

\* It succeeds, or fails, and the failure is logged.
WriteDirect(r) ==
    /\ pc[r] = "write"
    /\ Commit(r, <<rec[r]>>) \/ Rollback(r, <<rec[r]>>)
    /\ Answered(r)
    /\ UNCHANGED <<queue, batch, writer, closer, history>>

-----------------------------------------------------------------------------
(* The writer: Buffered.run and store *)

Records(s) == Select(s, {i \in DOMAIN s : s[i] \in Record})
HasData    == Records(batch) # <<>>

Receive ==
    /\ writer = "receive" /\ queue # <<>>
    /\ batch' = <<Head(queue)>> /\ queue' = Tail(queue)
    /\ writer' = "collect"
    /\ UNCHANGED <<closer, table, calls, history>>

CollectMore ==
    /\ writer = "collect" /\ queue # <<>> /\ Len(batch) < MaxBatch
    /\ batch' = Append(batch, Head(queue)) /\ queue' = Tail(queue)
    /\ UNCHANGED <<writer, closer, table, calls, history>>

\* The flush window is over, the batch full, or the queue closed.
Collected ==
    /\ writer = "collect"
    /\ writer' = IF HasData THEN "store" ELSE "release"
    /\ UNCHANGED <<queue, batch, closer, table, calls, history>>

BeginBatch ==
    /\ writer = "store"
    /\ BeginWrite(Writer)
    /\ writer' = "write"
    /\ UNCHANGED <<queue, batch, closer, calls, history>>

CommitBatch ==
    /\ writer = "write"
    /\ Commit(Writer, Records(batch))
    /\ writer' = "release"
    /\ UNCHANGED <<queue, batch, closer, calls, history>>

\* Seeded fault: a batch that failed is let go.
GivesUp == "release"

\* A batch that failed is kept until it is stored.
AfterFailure == "retry"

FailBatch ==
    /\ writer = "write" /\ ~Cancelled
    /\ Rollback(Writer, Records(batch))
    /\ writer' = AfterFailure
    /\ UNCHANGED <<queue, batch, closer, calls, history>>

RetryBatch ==
    /\ writer = "retry" /\ ~Cancelled
    /\ writer' = "store"
    /\ UNCHANGED <<queue, batch, closer, table, calls, history>>

\* The cancelled writer gives the batch up, when it fails or waits.
Abandon ==
    /\ Cancelled
    /\ \/ writer = "write" /\ Rollback(Writer, Records(batch))
       \/ writer = "retry" /\ UNCHANGED table
    /\ abandoned' = abandoned \cup ToSet(Records(batch))
    /\ writer' = "release"
    /\ UNCHANGED <<queue, batch, closer, calls, made, accepted, purged>>

\* Seeded fault: the barriers behind the batch are let go with it.
AllWaiting == ToSet(batch) \cup ToSet(queue)

\* The barriers in the batch, which come after all that was queued before.
Behind == ToSet(batch)

Release ==
    /\ writer = "release"
    /\ pc' = [r \in Req |-> IF r \in Behind THEN "flushed" ELSE pc[r]]
    /\ batch' = <<>>
    /\ queue' = [i \in DOMAIN queue |-> IF queue[i] \in Behind THEN None ELSE queue[i]]
    /\ writer' = "receive"
    /\ UNCHANGED <<closer, table, rec, due, history>>

\* The queue is closed, and empty.
Finish ==
    /\ writer = "receive" /\ Closed /\ queue = <<>>
    /\ writer' = "done"
    /\ UNCHANGED <<queue, batch, closer, table, calls, history>>

-----------------------------------------------------------------------------
(* Buffered.Close and retention *)

CloseBegins ==
    /\ closer = "open"
    /\ closer' = "locking"
    /\ UNCHANGED <<queue, batch, writer, table, calls, history>>

\* Seeded fault: the queue is closed under those who wait for room.
AnyReaders == TRUE

NoReaders == Readers = {}

CloseQueue ==
    /\ closer = "locking" /\ NoReaders
    /\ closer' = "draining"
    /\ UNCHANGED <<queue, batch, writer, table, calls, history>>

Drained == writer = "done"

CloseDrained ==
    /\ closer \in {"draining", "cancelled"} /\ Drained
    /\ closer' = "closed"
    /\ UNCHANGED <<queue, batch, writer, table, calls, history>>

\* Ten seconds are over, and the writer is cancelled; after one more, Close
\* does not wait for it any longer.
CloseDeadline ==
    /\ closer = "draining" /\ closer' = "cancelled"
    /\ UNCHANGED <<queue, batch, writer, table, calls, history>>

CloseLeaves ==
    /\ closer = "cancelled"
    /\ closer' = "left"
    /\ UNCHANGED <<queue, batch, writer, table, calls, history>>

\* Retention removes what was made before its cutoff.  The loop ends before
\* Close begins.
Purge(n) ==
    /\ closer = "open" /\ MayWrite
    /\ Stored(rows) \cap (1..n) # {}
    /\ rows' = Kept(rows, 1..n)
    /\ purged' = purged \cup (Stored(rows) \cap (1..n))
    /\ UNCHANGED <<queue, batch, writer, closer, writing, head, calls, made,
                   accepted, abandoned>>
-----------------------------------------------------------------------------
(* The system *)

Call(r) ==
    Enqueue(r) \/ EnqueueNot(r) \/ EnqueueRoom(r) \/ EnqueueBarrier(r)
        \/ BarrierNot(r) \/ BarrierRoom(r) \/ BarrierShutdown(r)
        \/ BeginDirect(r) \/ WriteDirect(r) \/ List(r)
Timer(r) == EnqueueGivesUp(r) \/ FlushTimesOut(r)
Run ==
    Receive \/ CollectMore \/ Collected \/ BeginBatch \/ CommitBatch \/ FailBatch
        \/ RetryBatch \/ Abandon \/ Release \/ Finish
Close == CloseQueue \/ CloseDrained \/ CloseDeadline \/ CloseLeaves

\* A buffer that was closed, with all records made, may stand still.
Stopped ==
    /\ closer \in {"closed", "left"} /\ writer = "done"
    /\ \A r \in Req : pc[r] = "idle"
    /\ UNCHANGED vars

Next ==
    \/ \E r \in Req : Arrive(r) \/ Call(r) \/ Timer(r)
    \/ Run \/ CloseBegins \/ Close
    \/ \E n \in Record : Purge(n)
    \/ Stopped

Spec == Init /\ [][Next]_vars

\* Goroutines run on, timers fire, and a statement of SQLite ends, well or
\* not: nothing says that a write ever succeeds.  A sync.Mutex and an RWMutex
\* hand over to who waits (strong fairness).
Fairness ==
    /\ \A r \in Req : SF_vars(Call(r)) /\ WF_vars(Timer(r))
    /\ SF_vars(Run)
    /\ WF_vars(Close)

FairSpec == Spec /\ Fairness

-----------------------------------------------------------------------------
(* Properties *)

InHand ==
    ToSet(queue) \cup
        IF writer \in {"collect", "store", "write", "retry"} THEN ToSet(batch) ELSE {}

\* "It never drops a record", and "a retry never stores part of it twice":
\* what was accepted is stored or still in hand, once, through failures,
\* retries, retention and shutdown.  Only the deadline of Close gives records
\* up (activity.go, store).
KeptOnce ==
    /\ accepted \subseteq Stored(rows) \cup purged \cup abandoned \cup InHand
    /\ abandoned # {} => Cancelled
    /\ Cardinality(Stored(rows)) = Len(rows)
    /\ Stored(rows) \cap (purged \cup InHand) = {}

\* A read whose flush succeeded while the buffer is open sees every record
\* accepted before it ("a statement shows up in history as soon as it has
\* run").
FlushCovers ==
    \A r \in Req : pc[r] = "flushed" /\ ~Shutdown =>
        due[r] \subseteq Stored(rows) \cup purged

\* A Close that returns because the writer is done leaves nothing behind but
\* what the writer gave up; and once the channel is closed no request is on
\* its way to send on it, which would panic ("nothing is sent on a closed
\* channel by a request that finished after shutdown began").
ClosedMeansStored ==
    /\ closer = "closed" => accepted \subseteq Stored(rows) \cup purged \cup abandoned
    /\ Closed => Readers = {}

\* However the writer and direct writes meet, the chain does not fork, and
\* an entry chains from its predecessor unless retention removed that one.
ChainUnforked ==
    /\ \A i, j \in DOMAIN rows : rows[i].prev = rows[j].prev => i = j
    /\ \A i \in Breaks(rows) : rows[i].prev \in purged

\* Writes, reads and Close are answered also when the database never takes a
\* write: nobody waits for room, or holds up a Close that waits for it, for
\* ever (activity.go, enqueue and Close).
EveryCallAnswered ==
    /\ \A r \in Req : (pc[r] # "idle") ~> (pc[r] = "idle")
    /\ (closer # "open") ~> (closer \in {"closed", "left"})

\* If the database takes a write again and again, what was accepted is stored
\* in the end, unless the writer was cancelled first.
StoredInTheEnd ==
    SF_vars(CommitBatch) =>
        \A a \in Record : (a \in accepted) ~> (a \in Stored(rows) \cup purged \/ Cancelled)

\* "The chain only grows by appending, so a break introduced by editing the
\* database directly stays detectable" (audit_verify.go).  Not what the code
\* does: retention deletes the first entries, and the next one is reported.
VerifiesUntouched == Breaks(rows) = {}
=============================================================================
