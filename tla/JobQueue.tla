------------------------------ MODULE JobQueue ------------------------------
(***************************************************************************)
(* The worker fleet of processing-service on its Redis stream: XREADGROUP, *)
(* XAUTOCLAIM, the semaphore of concurrency slots, the ack policy of       *)
(* queue/consumer.py and the job ledger of JobLedger.                      *)
(*                                                                         *)
(* A worker is one pod.  Its loop (phase) fetches messages into a batch    *)
(* and hands each to a free slot; the task in the slot runs the job.  Every*)
(* await of a task is a point where other tasks, other pods, a crash or a  *)
(* shutdown may come between two steps, so a task is a program counter and *)
(* each step between two awaits is an action.  The pipeline itself is one  *)
(* step here with three outcomes; module Pipeline opens it.                *)
(*                                                                         *)
(* Messages are numbered by their place in the stream, which is the order  *)
(* of their Redis ids and the primary key of their ledger row.             *)
(***************************************************************************)
EXTENDS JobLedger, FiniteSets

CONSTANTS
    Worker,           \* the pods
    Slot,             \* the concurrency slots of all pods
    Pod,              \* Pod[s] is the pod of slot s
    Doc,              \* the documents
    Malformed,        \* marks a message whose fields cannot be parsed
    MaxJobs,          \* bound: messages ever added to the stream
    ReadBatch,        \* settings.read_batch_size
    Disturbances,     \* the kinds of disturbance a run admits
    MaxDisturbances   \* bound: how many of them happen

ASSUME QueueAssumption ==
    /\ Pod \in [Slot -> Worker]
    /\ Malformed \notin Doc
    /\ MaxJobs \in Nat
    /\ ReadBatch \in Nat \ {0}
    /\ MaxDisturbances \in Nat
    /\ Disturbances \subseteq
         {"crash", "stop", "steal", "reply_lost", "ack_lost", "count_lost",
          "ledger_error", "dead_letter_lost", "delete", "malformed"}

\* A deployment has as many pods as its replica count, each with
\* settings.worker_concurrency slots.
ASSUME FleetAssumption == IsFiniteSet(Worker) /\ IsFiniteSet(Slot)

Job == 1 .. MaxJobs

VARIABLES
    \* Redis
    sent,        \* how many messages the stream holds
    docOf,       \* docOf[j]: the document of message j, or Malformed
    cursor,      \* the group's last-delivered message
    delivered,   \* delivered[j]: times_delivered of the pending entry
    acked,       \* the messages no longer pending
    dead,        \* the messages with a copy on the dead-letter stream
    \* Postgres
    row,         \* row[j]: the processing_jobs row of message j
    doc,         \* doc[d]: the status of the documents row of d
    \* the pods
    phase,       \* where the loop of a worker stands
    batch,       \* messages it fetched and has not dispatched
    stopping,    \* has it been told to stop?
    task,        \* task[s]: what the task in slot s is doing
    disturbed    \* number of disturbances so far

redisVars == <<sent, docOf, cursor, delivered, acked, dead>>
ledgerVars == <<row, doc>>
loopVars == <<phase, batch, stopping>>
vars == <<redisVars, ledgerVars, loopVars, task, disturbed>>

Phase == {"top", "reclaimed", "poll", "dispatch"}
PC == {"idle", "count", "loadJob", "loadDoc", "commit", "run", "dead", "ack"}

Task == [pc : PC, job : 0 .. MaxJobs, txn : Txn, tries : Counter,
         seen : JobRow, seenDoc : DocStatus]

TaskAt(pc, j, txn, tries, seen, seenDoc) ==
    [pc |-> pc, job |-> j, txn |-> txn, tries |-> tries,
     seen |-> seen, seenDoc |-> seenDoc]

Fresh(pc, j) == TaskAt(pc, j, "claim", 0, NoRow, "gone")
Idle == Fresh("idle", 0)

Busy(s) == task[s].pc # "idle"
SlotsOf(w) == {s \in Slot : Pod[s] = w}
FreeSlots(w) == {s \in SlotsOf(w) : ~Busy(s)}

\* A live pod has message j in hand: fetched, or in a task.
Held(j) == \/ \E w \in Worker : j \in batch[w]
           \/ \E s \in Slot : Busy(s) /\ task[s].job = j

Pending(j) == j <= cursor /\ j \notin acked

(***************************************************************************)
(* The environment.  Disturb(k) is one disturbance of kind k; a step that  *)
(* is none keeps the count.                                                *)
(***************************************************************************)
Disturb(kind) == /\ kind \in Disturbances
                 /\ disturbed < MaxDisturbances
                 /\ disturbed' = disturbed + 1

Calm == UNCHANGED disturbed

TypeOK ==
    /\ sent \in 0 .. MaxJobs
    /\ docOf \in [Job -> Doc \cup {Malformed}]
    /\ cursor \in 0 .. sent
    /\ delivered \in [Job -> Counter]
    /\ acked \in SUBSET Job
    /\ dead \in SUBSET Job
    /\ row \in [Job -> JobRow]
    /\ doc \in [Doc -> DocStatus]
    /\ phase \in [Worker -> Phase]
    /\ batch \in [Worker -> SUBSET Job]
    /\ stopping \in [Worker -> BOOLEAN]
    /\ task \in [Slot -> Task]
    /\ \A s \in Slot : Busy(s) => task[s].job \in Job
    /\ disturbed \in 0 .. MaxDisturbances

(***************************************************************************)
(* document-service has committed the documents row of every document      *)
(* before it publishes; no worker has started.                             *)
(***************************************************************************)
Init ==
    /\ sent = 0
    /\ docOf = [j \in Job |-> Malformed]
    /\ cursor = 0
    /\ delivered = [j \in Job |-> 0]
    /\ acked = {}
    /\ dead = {}
    /\ row = [j \in Job |-> NoRow]
    /\ doc = [d \in Doc |-> "UPLOADED"]
    /\ phase = [w \in Worker |-> "top"]
    /\ batch = [w \in Worker |-> {}]
    /\ stopping = [w \in Worker |-> FALSE]
    /\ task = [s \in Slot |-> Idle]
    /\ disturbed = 0

-----------------------------------------------------------------------------
(***************************************************************************)
(* Producers.                                                              *)
(***************************************************************************)
Enqueue(d) ==
    /\ sent < MaxJobs
    /\ sent' = sent + 1
    /\ docOf' = [docOf EXCEPT ![sent + 1] = d]
    /\ UNCHANGED <<cursor, delivered, acked, dead>>

\* document-service publishes the event of a document it has just created.
Publish(d) ==
    /\ doc[d] # "gone"
    /\ \A j \in 1 .. sent : docOf[j] # d
    /\ Enqueue(d)
    /\ Calm
    /\ UNCHANGED <<ledgerVars, loopVars, task>>

\* Some other producer adds a message without the fields a job needs.
PublishMalformed ==
    /\ Enqueue(Malformed)
    /\ Disturb("malformed")
    /\ UNCHANGED <<ledgerVars, loopVars, task>>

\* document-service deletes a document; ON DELETE CASCADE takes its jobs.
DeleteDocument(d) ==
    /\ doc[d] # "gone"
    /\ doc' = [doc EXCEPT ![d] = "gone"]
    /\ row' = [j \in Job |-> IF docOf[j] = d THEN NoRow ELSE row[j]]
    /\ Disturb("delete")
    /\ UNCHANGED <<redisVars, loopVars, task>>

-----------------------------------------------------------------------------
(***************************************************************************)
(* The worker loop: one tick reclaims when the interval is over, then      *)
(* reads as many new messages as it has free slots.                        *)
(***************************************************************************)
SkipReclaim(w) ==
    /\ phase[w] = "top" /\ ~stopping[w]
    /\ phase' = [phase EXCEPT ![w] = "poll"]
    /\ Calm
    /\ UNCHANGED <<redisVars, ledgerVars, batch, stopping, task>>

\* XAUTOCLAIM hands over pending messages whose idle time has passed the
\* threshold, whoever they were delivered to.  The threshold is meant to
\* pass only on messages nobody has in hand any more; "steal" is the
\* disturbance in which it passes on work that is still alive.
Claimed(w, S) ==
    /\ phase[w] = "top" /\ ~stopping[w]
    /\ S # {}
    /\ Cardinality(S) <= ReadBatch
    /\ \A j \in S : Pending(j)
    /\ delivered' = [j \in Job |-> IF j \in S THEN Bump(delivered[j])
                                              ELSE delivered[j]]
    /\ UNCHANGED <<sent, docOf, cursor, acked, dead, ledgerVars, stopping, task>>

Reclaim(w, S) ==
    /\ Claimed(w, S)
    /\ batch' = [batch EXCEPT ![w] = S]
    /\ phase' = [phase EXCEPT ![w] = "reclaimed"]
    /\ IF \E j \in S : Held(j) THEN Disturb("steal") ELSE Calm

\* The reply is lost: Redis has moved the messages, the loop logs an error.
ReclaimReplyLost(w, S) ==
    /\ Claimed(w, S)
    /\ \A j \in S : ~Held(j)
    /\ Disturb("reply_lost")
    /\ UNCHANGED <<batch, phase>>

\* No free slot, or nothing to read before the block time is over.
PollNothing(w) ==
    /\ phase[w] = "poll"
    /\ FreeSlots(w) = {} \/ cursor = sent
    /\ phase' = [phase EXCEPT ![w] = "top"]
    /\ Calm
    /\ UNCHANGED <<redisVars, ledgerVars, batch, stopping, task>>

\* XREADGROUP of ">" returns as many messages as there are, up to COUNT.
Fetched(w, n) ==
    /\ phase[w] = "poll"
    /\ n <= ReadBatch /\ n <= Cardinality(FreeSlots(w))
    /\ n \in {ReadBatch, Cardinality(FreeSlots(w)), sent - cursor}
    /\ cursor' = cursor + n
    /\ delivered' = [j \in Job |-> IF j \in cursor + 1 .. cursor + n
                                   THEN 1 ELSE delivered[j]]
    /\ UNCHANGED <<sent, docOf, acked, dead, ledgerVars, stopping, task>>

Read(w, n) ==
    /\ Fetched(w, n)
    /\ batch' = [batch EXCEPT ![w] = cursor + 1 .. cursor + n]
    /\ phase' = [phase EXCEPT ![w] = "dispatch"]
    /\ Calm

\* The messages are pending under this worker's name, which never sees them.
ReadReplyLost(w, n) ==
    /\ Fetched(w, n)
    /\ phase' = [phase EXCEPT ![w] = "top"]
    /\ Disturb("reply_lost")
    /\ UNCHANGED batch

\* The loop waits for a slot, starts the task of the next message and, in a
\* reclaimed batch, gives up the rest when it has been told to stop.
Dispatch(w, s) ==
    /\ phase[w] \in {"reclaimed", "dispatch"}
    /\ s \in FreeSlots(w)
    /\ \E j \in batch[w] :
         LET rest == IF phase[w] = "reclaimed" /\ stopping[w]
                     THEN {} ELSE batch[w] \ {j}
             next == IF phase[w] = "reclaimed" THEN "poll" ELSE "top"
         IN  /\ \A k \in batch[w] : j <= k
             /\ task' = [task EXCEPT ![s] = Fresh("count", j)]
             /\ batch' = [batch EXCEPT ![w] = rest]
             /\ phase' = IF rest = {} THEN [phase EXCEPT ![w] = next]
                                      ELSE phase
    /\ Calm
    /\ UNCHANGED <<redisVars, ledgerVars, stopping>>

\* Told to stop between the reply of XAUTOCLAIM and the first dispatch.
DropReclaimed(w) ==
    /\ phase[w] = "reclaimed" /\ stopping[w]
    /\ batch' = [batch EXCEPT ![w] = {}]
    /\ phase' = [phase EXCEPT ![w] = "poll"]
    /\ Calm
    /\ UNCHANGED <<redisVars, ledgerVars, stopping, task>>

-----------------------------------------------------------------------------
(***************************************************************************)
(* Shutdown, drain and crash.  A pod that is gone is replaced by one with  *)
(* no memory of what it was doing.                                         *)
(***************************************************************************)
Stop(w) ==
    /\ ~stopping[w]
    /\ stopping' = [stopping EXCEPT ![w] = TRUE]
    /\ Disturb("stop")
    /\ UNCHANGED <<redisVars, ledgerVars, phase, batch, task>>

Draining(w) == stopping[w] /\ phase[w] = "top"

\* The drain deadline cancels a straggler, whose message stays pending.
CancelTask(s) ==
    /\ Draining(Pod[s]) /\ Busy(s)
    /\ task' = [task EXCEPT ![s] = Idle]
    /\ Calm
    /\ UNCHANGED <<redisVars, ledgerVars, loopVars>>

Restart(w) ==
    /\ Draining(w)
    /\ \A s \in SlotsOf(w) : ~Busy(s)
    /\ stopping' = [stopping EXCEPT ![w] = FALSE]
    /\ Calm
    /\ UNCHANGED <<redisVars, ledgerVars, phase, batch, task>>

Crash(w) ==
    /\ phase' = [phase EXCEPT ![w] = "top"]
    /\ batch' = [batch EXCEPT ![w] = {}]
    /\ stopping' = [stopping EXCEPT ![w] = FALSE]
    /\ task' = [s \in Slot |-> IF Pod[s] = w THEN Idle ELSE task[s]]
    /\ Disturb("crash")
    /\ UNCHANGED <<redisVars, ledgerVars>>

-----------------------------------------------------------------------------
(***************************************************************************)
(* One job.                                                                *)
(***************************************************************************)
Become(s, t) == task' = [task EXCEPT ![s] = t]
Goto(s, pc) == Become(s, Fresh(pc, task[s].job))
Finish(s) == Become(s, Idle)
Begin(s, txn) ==
    Become(s, TaskAt("loadJob", task[s].job, txn, 0, NoRow, "gone"))

\* XPENDING gives the delivery count; 1 when the entry is no longer pending,
\* 0 when the call failed.  Then the event is parsed, with no await between.
CountDeliveries(s) ==
    /\ task[s].pc = "count"
    /\ LET j == task[s].job
           next == IF docOf[j] = Malformed THEN "dead" ELSE "loadJob"
           Count(n) == Become(s, TaskAt(next, j, "claim", n, NoRow, "gone"))
       IN  \/ Count(IF j \in acked THEN 1 ELSE delivered[j]) /\ Calm
           \/ Count(0) /\ Disturb("count_lost")
    /\ UNCHANGED <<redisVars, ledgerVars, loopVars>>

\* Where a transaction leads when it ends: a deferred job is not acked.
AfterDeferredIsAcked == [claim    |-> "run",
                         complete |-> "ack",
                         fail     |-> "dead",
                         requeue  |-> "ack"]

After == [claim    |-> "run",
          complete |-> "ack",
          fail     |-> "dead",
          requeue  |-> "idle"]

Continue(s) == IF After[task[s].txn] = "idle" THEN Finish(s)
                                              ELSE Goto(s, After[task[s].txn])

\* The first SELECT.  A claim that finds the job COMPLETED skips to the ack;
\* any other transaction returns at once when the row is missing.
LoadJob(s) ==
    /\ task[s].pc = "loadJob"
    /\ LET t == task[s]
           seen == row[t.job]
       IN  \/ /\ t.txn = "claim" /\ AlreadyDone(seen)
              /\ Goto(s, "ack")
           \/ /\ t.txn # "claim" /\ seen = NoRow
              /\ Continue(s)
           \/ /\ IF t.txn = "claim" THEN ~AlreadyDone(seen) ELSE seen # NoRow
              /\ Become(s, TaskAt("loadDoc", t.job, t.txn, t.tries, seen, "gone"))
    /\ Calm
    /\ UNCHANGED <<redisVars, ledgerVars, loopVars>>

LoadDocument(s) ==
    /\ task[s].pc = "loadDoc"
    /\ LET t == task[s]
       IN  Become(s, TaskAt("commit", t.job, t.txn, t.tries, t.seen,
                            doc[docOf[t.job]]))
    /\ Calm
    /\ UNCHANGED <<redisVars, ledgerVars, loopVars>>

\* A commit that raises ends the task and leaves the message un-acked.
Commit(s) ==
    /\ task[s].pc = "commit"
    /\ LET t == task[s]
           j == t.job
           d == docOf[j]
           attempt == AttemptOf(t.seen, t.tries)
       IN  IF CommitRaises(t.seen, row[j], doc[d])
           THEN Finish(s) /\ UNCHANGED ledgerVars
           ELSE /\ row' = [row EXCEPT ![j] =
                             RowAfter(t.txn, t.seen, row[j], attempt)]
                /\ doc' = [doc EXCEPT ![d] = DocAfter(t.txn, t.seenDoc, doc[d])]
                /\ IF t.txn = "claim"
                   THEN Become(s, TaskAt("run", j, "claim", attempt,
                                         NoRow, "gone"))
                   ELSE Continue(s)
    /\ Calm
    /\ UNCHANGED <<redisVars, loopVars>>

\* Postgres fails the transaction; nothing in the handler catches it.
LedgerError(s) ==
    /\ task[s].pc \in {"loadJob", "loadDoc", "commit"}
    /\ Finish(s)
    /\ Disturb("ledger_error")
    /\ UNCHANGED <<redisVars, ledgerVars, loopVars>>

\* The pipeline ends and the ack policy picks the transaction to record it.
GiveUpNever(attempt, retryable) == ~retryable

GiveUp(attempt, retryable) == ~retryable \/ attempt >= MaxAttempts

FinishPipeline(s) ==
    /\ task[s].pc = "run"
    /\ \/ Begin(s, "complete")
       \/ \E retryable \in BOOLEAN :
            Begin(s, IF GiveUp(task[s].tries, retryable) THEN "fail"
                                                         ELSE "requeue")
    /\ Calm
    /\ UNCHANGED <<redisVars, ledgerVars, loopVars>>

\* A dead-letter copy that cannot be written is logged and forgotten.
DeadLetter(s) ==
    /\ task[s].pc = "dead"
    /\ \/ dead' = dead \cup {task[s].job} /\ Calm
       \/ UNCHANGED dead /\ Disturb("dead_letter_lost")
    /\ Goto(s, "ack")
    /\ UNCHANGED <<sent, docOf, cursor, delivered, acked, ledgerVars, loopVars>>

\* So is an ack: the message stays pending and will be delivered again.
Ack(s) ==
    /\ task[s].pc = "ack"
    /\ \/ acked' = acked \cup {task[s].job} /\ Calm
       \/ UNCHANGED acked /\ Disturb("ack_lost")
    /\ Finish(s)
    /\ UNCHANGED <<sent, docOf, cursor, delivered, dead, ledgerVars, loopVars>>

-----------------------------------------------------------------------------
Produce == (\E d \in Doc : Publish(d)) \/ PublishMalformed

Loop(w) ==
    \/ SkipReclaim(w)
    \/ \E S \in SUBSET Job : Reclaim(w, S) \/ ReclaimReplyLost(w, S)
    \/ PollNothing(w)
    \/ \E n \in 1 .. (sent - cursor) : Read(w, n) \/ ReadReplyLost(w, n)
    \/ \E s \in SlotsOf(w) : Dispatch(w, s)
    \/ DropReclaimed(w)

RunTask(s) ==
    \/ CountDeliveries(s)
    \/ LoadJob(s)
    \/ LoadDocument(s)
    \/ Commit(s)
    \/ FinishPipeline(s)
    \/ DeadLetter(s)
    \/ Ack(s)

Lifecycle ==
    \/ \E w \in Worker : Stop(w) \/ Restart(w) \/ Crash(w)
    \/ \E s \in Slot : CancelTask(s) \/ LedgerError(s)
    \/ \E d \in Doc : DeleteDocument(d)

Next ==
    \/ Produce
    \/ \E w \in Worker : Loop(w)
    \/ \E s \in Slot : RunTask(s)
    \/ Lifecycle

Spec == Init /\ [][Next]_vars
=============================================================================
