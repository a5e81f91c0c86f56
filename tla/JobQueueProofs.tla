--------------------------- MODULE JobQueueProofs ---------------------------
(***************************************************************************)
(* QueueInv is an inductive invariant of JobQueue, for any number of pods, *)
(* slots, documents and messages and any attempt budget, as long as the    *)
(* reclaim threshold never passes on work in hand (ThresholdHolds) and no  *)
(* malformed message loses its dead-letter copy (RejectionsAreKept).  From *)
(* it: no job is lost, a completion is final, the two tables agree, and no *)
(* attempt is charged without a delivery.                                  *)
(*                                                                         *)
(* ChargeInv needs neither: with it, types are kept and a job is charged   *)
(* fewer than two attempts a delivery, whatever disturbs the fleet.        *)
(***************************************************************************)
EXTENDS JobQueueProps, FiniteSetTheorems, TLAPS

-----------------------------------------------------------------------------
(***************************************************************************)
(* Lemmas about the data: task records and the ledger's operators.         *)
(***************************************************************************)

\* A task built from values of the right types is a task.
LEMMA TaskAtType ==
    ASSUME NEW pc \in PC, NEW j \in 0 .. MaxJobs, NEW txn \in Txn,
           NEW tries \in Counter, NEW seen \in JobRow, NEW seenDoc \in DocStatus
    PROVE  TaskAt(pc, j, txn, tries, seen, seenDoc) \in Task
BY DEF TaskAt, Task

\* The fields of a task have their types.
LEMMA TaskFields ==
    ASSUME NEW t \in Task
    PROVE  /\ t.pc \in PC /\ t.job \in 0 .. MaxJobs /\ t.txn \in Txn
           /\ t.tries \in Counter /\ t.seen \in JobRow /\ t.seenDoc \in DocStatus
BY DEF Task

\* The constructor puts each value in its field.
LEMMA TaskAtFields ==
    ASSUME NEW pc, NEW j, NEW txn, NEW tries, NEW seen, NEW seenDoc
    PROVE  LET t == TaskAt(pc, j, txn, tries, seen, seenDoc) IN
           /\ t.pc = pc /\ t.job = j /\ t.txn = txn
           /\ t.tries = tries /\ t.seen = seen /\ t.seenDoc = seenDoc
BY DEF TaskAt

\* The missing row is a row value.
LEMMA NoRowType == NoRow \in JobRow
BY BudgetAssumption DEF NoRow, JobRow, JobStatus, Counter

\* A task that has only its place and its job.
LEMMA FreshType ==
    ASSUME NEW pc \in PC, NEW j \in 0 .. MaxJobs
    PROVE  /\ Fresh(pc, j) \in Task
           /\ Fresh(pc, j).pc = pc
           /\ Fresh(pc, j).job = j
BY BudgetAssumption, TaskAtType, TaskAtFields, NoRowType
   DEF Fresh, Txn, Counter, DocStatus

LEMMA IdleType == Idle \in Task /\ Idle.pc = "idle"
BY FreshType, QueueAssumption DEF Idle, PC

\* Counters: a bump never decreases, and stays a counter.
LEMMA BumpType ==
    ASSUME NEW n \in Counter
    PROVE  /\ Bump(n) \in Counter
           /\ Bump(n) >= n
           /\ n < Bump(n) \/ Bump(n) = AttemptCeiling
BY BudgetAssumption DEF Bump, Counter

\* The attempt a claim takes is past the row's, and within the deliveries
\* when both of its sources are.
LEMMA AttemptBound ==
    ASSUME NEW seen \in JobRow, NEW tries \in Counter, NEW n \in Counter,
           tries <= n, n >= 1, seen.attempt < n \/ n = AttemptCeiling
    PROVE  AttemptOf(seen, tries) \in Counter /\ AttemptOf(seen, tries) <= n
BY BudgetAssumption DEF AttemptOf, Larger, Bump, Counter, JobRow

-----------------------------------------------------------------------------
(***************************************************************************)
(* Steps that only let go: batches shrink, tasks end, nothing is written.  *)
(***************************************************************************)
LEMMA LetGo ==
    ASSUME QueueInv,
           UNCHANGED <<redisVars, ledgerVars>>,
           phase' \in [Worker -> Phase],
           stopping' \in [Worker -> BOOLEAN],
           disturbed' \in 0 .. MaxDisturbances,
           batch' \in [Worker -> SUBSET Job],
           task' \in [Slot -> Task],
           \A w \in Worker : batch'[w] \subseteq batch[w],
           \A s \in Slot : task'[s] = task[s] \/ task'[s] = Idle
    PROVE  QueueInv'
<1> USE DEF QueueInv
<1>1. \A s \in Slot : Busy(s)' => Busy(s) /\ task'[s] = task[s]
  BY IdleType DEF Busy
<1>2. TypeOK'
  BY <1>1 DEF TypeOK, redisVars, ledgerVars, Job
<1>3. OneHolder'
  BY <1>1 DEF OneHolder, TypeOK
<1>4. HeldIsPending'
  BY <1>1 DEF HeldIsPending, Held, Pending, redisVars, Job
<1>5. OneMessagePerDocument' /\ LedgerOK' /\ AckedIsSettled' /\ DoneIsDelivered'
  BY DEF OneMessagePerDocument, DoneIsDelivered, LedgerOK, AckedIsSettled, Settled,
         redisVars, ledgerVars, Job
<1>6. BatchesUncharged'
  BY DEF BatchesUncharged, Uncharged, redisVars, ledgerVars
<1>7. TasksOK'
  BY <1>1 DEF TasksOK, TaskOK, Uncharged, Settled, redisVars, ledgerVars
<1> QED BY <1>2, <1>3, <1>4, <1>5, <1>6, <1>7

(***************************************************************************)
(* Steps of one task that write nothing: what has to be shown is that the  *)
(* task may stand where it arrives.                                        *)
(***************************************************************************)
LEMMA TaskStep ==
    ASSUME QueueInv, NEW s \in Slot, Busy(s),
           UNCHANGED <<redisVars, ledgerVars, loopVars>>,
           disturbed' \in 0 .. MaxDisturbances,
           NEW t \in Task, Become(s, t),
           t.job = task[s].job, TaskOK(s)'
    PROVE  QueueInv'
<1> USE DEF QueueInv
<1>1. task' \in [Slot -> Task] /\ task'[s] = t
  BY DEF Become, TypeOK
<1>2. \A u \in Slot \ {s} : task'[u] = task[u]
  BY DEF Become, TypeOK
<1>3. \A u \in Slot : Busy(u)' => Busy(u) /\ task'[u].job = task[u].job
  BY <1>1, <1>2 DEF Busy
<1>4. TypeOK'
  BY <1>1, <1>3 DEF TypeOK, redisVars, ledgerVars, loopVars, Job
<1>5. OneHolder'
  BY <1>3 DEF OneHolder, loopVars
<1>6. HeldIsPending'
  BY <1>3 DEF HeldIsPending, Held, Pending, redisVars, loopVars, Job
<1>7. OneMessagePerDocument' /\ LedgerOK' /\ AckedIsSettled' /\ DoneIsDelivered'
  BY DEF OneMessagePerDocument, DoneIsDelivered, LedgerOK, AckedIsSettled, Settled,
         redisVars, ledgerVars, Job
<1>8. BatchesUncharged'
  BY DEF BatchesUncharged, Uncharged, redisVars, ledgerVars, loopVars
<1>9. TasksOK'
  BY <1>2, <1>3 DEF TasksOK, TaskOK, Uncharged, Settled, Busy,
                    redisVars, ledgerVars
<1> QED BY <1>4, <1>5, <1>6, <1>7, <1>8, <1>9

\* The end of a task that writes nothing.
LEMMA FinishStep ==
    ASSUME QueueInv, NEW s \in Slot, Finish(s),
           UNCHANGED <<redisVars, ledgerVars, loopVars>>,
           disturbed' \in 0 .. MaxDisturbances
    PROVE  QueueInv'
<1>1. task' \in [Slot -> Task] /\ \A u \in Slot : task'[u] = task[u] \/ task'[u] = Idle
  BY IdleType DEF Finish, Become, QueueInv, TypeOK
<1> QED BY <1>1, LetGo DEF QueueInv, TypeOK, loopVars

\* Both outcomes of a step leave the disturbance count in range.
LEMMA DisturbedType ==
    ASSUME TypeOK, NEW kind, Disturb(kind) \/ Calm
    PROVE  disturbed' \in 0 .. MaxDisturbances
BY QueueAssumption DEF TypeOK, Disturb, Calm

-----------------------------------------------------------------------------
(***************************************************************************)
(* One lemma per action: it preserves QueueInv.                            *)
(***************************************************************************)
LEMMA CountDeliveriesInv ==
    ASSUME QueueInv, NEW s \in Slot, CountDeliveries(s)
    PROVE  QueueInv'
<1> DEFINE j == task[s].job
           next == IF docOf[j] = Malformed THEN "dead" ELSE "loadJob"
<1> USE DEF QueueInv
<1>1. Busy(s) /\ j \in Job /\ TaskOK(s) /\ Held(j)
  BY DEF CountDeliveries, Busy, TypeOK, TasksOK, Held
<1>2. delivered[j] \in Counter /\ delivered[j] >= 1 /\ j \notin acked
  BY <1>1 DEF TypeOK, LedgerOK, HeldIsPending, Pending
<1>3. PICK n \in {0, delivered[j]} :
        Become(s, TaskAt(next, j, "claim", n, NoRow, "gone"))
  BY <1>2 DEF CountDeliveries
<1> DEFINE t == TaskAt(next, j, "claim", n, NoRow, "gone")
<1>4. t \in Task /\ t.pc = next /\ t.job = j /\ t.txn = "claim" /\ t.tries = n
  <2>1. next \in PC /\ "claim" \in Txn /\ "gone" \in DocStatus
    BY DEF PC, Txn, DocStatus
  <2>2. n \in Counter /\ j \in 0 .. MaxJobs
    BY <1>1, <1>2, BudgetAssumption, QueueAssumption DEF Counter, Job
  <2> HIDE DEF next, j
  <2> QED BY <2>1, <2>2, TaskAtType, TaskAtFields, NoRowType
<1>5. task'[s] = t
  BY <1>3 DEF Become, TypeOK
<1>6. UNCHANGED <<redisVars, ledgerVars, loopVars>>
  BY DEF CountDeliveries
<1>7. disturbed' \in 0 .. MaxDisturbances
  BY DisturbedType DEF CountDeliveries
<1>8. TaskOK(s)'
  <2>1. UNCHANGED <<docOf, delivered, row>>
    BY <1>6 DEF redisVars, ledgerVars
  <2>2. Uncharged(j)
    BY <1>1 DEF TaskOK, CountDeliveries
  <2>3. n <= delivered[j]
    BY <1>2, BudgetAssumption DEF Counter
  <2> HIDE DEF t
  <2>4. CASE docOf[j] = Malformed
    BY <1>4, <1>5, <2>1, <2>4 DEF TaskOK
  <2>5. CASE docOf[j] # Malformed
    BY <1>4, <1>5, <2>1, <2>2, <2>3, <2>5 DEF TaskOK, Uncharged
  <2> QED BY <2>4, <2>5
<1> HIDE DEF t
<1> QED BY <1>1, <1>3, <1>4, <1>6, <1>7, <1>8, TaskStep DEF t

LEMMA LoadJobInv ==
    ASSUME QueueInv, NEW s \in Slot, LoadJob(s)
    PROVE  QueueInv'
<1> DEFINE j == task[s].job
<1> USE DEF QueueInv
<1>1. Busy(s) /\ j \in Job /\ TaskOK(s) /\ task[s] \in Task
  BY DEF LoadJob, Busy, TypeOK, TasksOK
<1>2. /\ task[s].pc = "loadJob" /\ task[s].txn \in Txn /\ task[s].tries \in Counter
      /\ row[j] \in JobRow /\ docOf[j] # Malformed
  BY <1>1, TaskFields DEF LoadJob, TypeOK, TaskOK
<1>3. UNCHANGED <<redisVars, ledgerVars, loopVars>>
  BY DEF LoadJob
<1>4. disturbed' \in 0 .. MaxDisturbances
  BY DisturbedType DEF LoadJob
<1>5. CASE Finish(s)
  BY <1>3, <1>4, <1>5, FinishStep
<1>6. ASSUME NEW pc \in {"ack", "dead"}, Goto(s, pc), Settled(j)
      PROVE  QueueInv'
  <2>1. Fresh(pc, j) \in Task /\ Fresh(pc, j).pc = pc /\ Fresh(pc, j).job = j
    BY <1>1, FreshType DEF PC, Job
  <2>2. task'[s] = Fresh(pc, j)
    BY <1>6 DEF Goto, Become, TypeOK
  <2>3. TaskOK(s)'
    BY <1>2, <1>3, <1>6, <2>1, <2>2 DEF TaskOK, Settled, redisVars, ledgerVars
  <2> QED BY <1>1, <1>3, <1>4, <1>6, <2>1, <2>3, TaskStep DEF Goto
<1>7. CASE task[s].txn = "claim" /\ AlreadyDone(row[j]) /\ Goto(s, "ack")
  BY <1>2, <1>6, <1>7 DEF AlreadyDone, Settled
<1>8. CASE task[s].txn # "claim" /\ row[j] = NoRow /\ Continue(s)
  <2>1. Settled(j)
    BY <1>1, <1>2, <1>8 DEF TaskOK, Settled, NoRow
  <2>2. Finish(s) \/ Goto(s, "ack") \/ Goto(s, "dead")
    BY <1>2, <1>8 DEF Continue, After, Txn
  <2> QED BY <1>5, <1>6, <2>1, <2>2
<1>9. CASE /\ IF task[s].txn = "claim" THEN ~AlreadyDone(row[j]) ELSE row[j] # NoRow
           /\ Become(s, TaskAt("loadDoc", j, task[s].txn, task[s].tries, row[j], "gone"))
  <2> DEFINE t == TaskAt("loadDoc", j, task[s].txn, task[s].tries, row[j], "gone")
  <2>1. /\ t \in Task /\ t.pc = "loadDoc" /\ t.job = j /\ t.txn = task[s].txn
        /\ t.tries = task[s].tries /\ t.seen = row[j]
    <3>1. "loadDoc" \in PC /\ "gone" \in DocStatus /\ j \in 0 .. MaxJobs
      BY <1>1, QueueAssumption DEF PC, DocStatus, Job
    <3> HIDE DEF QueueInv, j
    <3> QED BY <1>2, <3>1, TaskAtType, TaskAtFields
  <2>2. Become(s, t) /\ task'[s] = t
    BY <1>9 DEF Become, TypeOK
  <2> HIDE DEF t
  <2>3. UNCHANGED <<docOf, delivered, row, doc>>
    BY <1>3 DEF redisVars, ledgerVars
  <2>4. TaskOK(s)'
    BY <1>1, <1>2, <1>9, <2>1, <2>2, <2>3 DEF TaskOK, Uncharged
  <2> QED BY <1>1, <1>3, <1>4, <2>1, <2>2, <2>4, TaskStep
<1> QED BY <1>7, <1>8, <1>9 DEF LoadJob

LEMMA LoadDocumentInv ==
    ASSUME QueueInv, NEW s \in Slot, LoadDocument(s)
    PROVE  QueueInv'
<1> DEFINE o == task[s]
           j == o.job
           t == TaskAt("commit", j, o.txn, o.tries, o.seen, doc[docOf[j]])
<1> USE DEF QueueInv
<1>1. Busy(s) /\ j \in Job /\ TaskOK(s) /\ o \in Task
  BY DEF LoadDocument, Busy, TypeOK, TasksOK
<1>2. o.pc = "loadDoc" /\ docOf[j] \in Doc /\ doc[docOf[j]] \in DocStatus
  BY <1>1 DEF LoadDocument, TypeOK, TaskOK
<1>3. /\ t \in Task /\ t.pc = "commit" /\ t.job = j /\ t.txn = o.txn
      /\ t.tries = o.tries /\ t.seen = o.seen /\ t.seenDoc = doc[docOf[j]]
  <2>1. "commit" \in PC /\ j \in 0 .. MaxJobs
    BY <1>1, QueueAssumption DEF PC, Job
  <2>2. o.txn \in Txn /\ o.tries \in Counter /\ o.seen \in JobRow
    BY <1>1, TaskFields
  <2> HIDE DEF QueueInv, j, o
  <2> QED BY <1>2, <2>1, <2>2, TaskAtType, TaskAtFields
<1>4. UNCHANGED <<redisVars, ledgerVars, loopVars>> /\ disturbed' \in 0 .. MaxDisturbances
  BY DisturbedType DEF LoadDocument
<1>5. Become(s, t) /\ task'[s] = t
  BY DEF LoadDocument, Become, TypeOK
<1> HIDE DEF t
<1>6. TaskOK(s)'
  <2>1. UNCHANGED <<docOf, delivered, row, doc>>
    BY <1>4 DEF redisVars, ledgerVars
  <2> QED BY <1>1, <1>2, <1>3, <1>5, <2>1 DEF TaskOK, Uncharged
<1> QED BY <1>1, <1>3, <1>4, <1>5, <1>6, TaskStep

LEMMA FinishPipelineInv ==
    ASSUME QueueInv, NEW s \in Slot, FinishPipeline(s)
    PROVE  QueueInv'
<1> DEFINE j == task[s].job
<1> USE DEF QueueInv
<1>1. Busy(s) /\ j \in Job /\ TaskOK(s) /\ task[s].pc = "run"
  BY DEF FinishPipeline, Busy, TypeOK, TasksOK
<1>2. PICK txn \in {"complete", "fail", "requeue"} : Begin(s, txn)
  BY DEF FinishPipeline
<1> DEFINE t == TaskAt("loadJob", j, txn, 0, NoRow, "gone")
<1>3. t \in Task /\ t.pc = "loadJob" /\ t.job = j /\ t.txn = txn
  <2>1. "loadJob" \in PC /\ txn \in Txn /\ "gone" \in DocStatus
    BY DEF PC, Txn, DocStatus
  <2>2. 0 \in Counter /\ j \in 0 .. MaxJobs
    BY <1>1, BudgetAssumption, QueueAssumption DEF Counter, Job
  <2> QED BY <2>1, <2>2, TaskAtType, TaskAtFields, NoRowType
<1>4. UNCHANGED <<redisVars, ledgerVars, loopVars>> /\ disturbed' \in 0 .. MaxDisturbances
  BY DisturbedType DEF FinishPipeline
<1>5. Become(s, t) /\ task'[s] = t
  BY <1>2 DEF Begin, Become, TypeOK
<1>6. TaskOK(s)'
  BY <1>1, <1>3, <1>4, <1>5 DEF TaskOK, redisVars, ledgerVars
<1> HIDE DEF t
<1> QED BY <1>1, <1>3, <1>4, <1>5, <1>6, TaskStep

\* The steps of the loop, of a shutdown and of a crash that only let go.
LEMMA LetGoInv ==
    ASSUME QueueInv,
           \/ \E w \in Worker : \/ SkipReclaim(w) \/ PollNothing(w) \/ DropReclaimed(w)
                                \/ Stop(w) \/ Restart(w) \/ Crash(w)
           \/ \E s \in Slot : CancelTask(s) \/ LedgerError(s)
    PROVE  QueueInv'
<1> USE DEF QueueInv
<1>1. ASSUME NEW s \in Slot, CancelTask(s) \/ LedgerError(s)
      PROVE  QueueInv'
  <2>1. Finish(s)
    BY <1>1 DEF CancelTask, LedgerError, Finish, Become
  <2>2. disturbed' \in 0 .. MaxDisturbances
    BY <1>1, DisturbedType DEF CancelTask, LedgerError
  <2> QED BY <1>1, <2>1, <2>2, FinishStep DEF CancelTask, LedgerError
<1>2. ASSUME NEW w \in Worker,
             \/ SkipReclaim(w) \/ PollNothing(w) \/ DropReclaimed(w)
             \/ Stop(w) \/ Restart(w) \/ Crash(w)
      PROVE  QueueInv'
  <2> USE DEF SkipReclaim, PollNothing, DropReclaimed, Stop, Restart, Crash
  <2>1. UNCHANGED <<redisVars, ledgerVars>>
    BY <1>2
  <2>2. disturbed' \in 0 .. MaxDisturbances
    BY <1>2, DisturbedType
  <2>3. /\ phase' \in [Worker -> Phase]
        /\ stopping' \in [Worker -> BOOLEAN]
    BY <1>2 DEF TypeOK, Phase
  <2>4. /\ batch' \in [Worker -> SUBSET Job]
        /\ \A v \in Worker : batch'[v] \subseteq batch[v]
    BY <1>2 DEF TypeOK
  <2>5. /\ task' \in [Slot -> Task]
        /\ \A s \in Slot : task'[s] = task[s] \/ task'[s] = Idle
    BY <1>2, IdleType DEF TypeOK
  <2> QED BY <2>1, <2>2, <2>3, <2>4, <2>5, LetGo
<1> QED BY <1>1, <1>2

\* A redelivery counts up and puts nothing else at risk.
LEMMA ClaimedInv ==
    ASSUME QueueInv, NEW w \in Worker, NEW S \in SUBSET Job, Claimed(w, S)
    PROVE  /\ delivered' \in [Job -> Counter]
           /\ LedgerOK'
           /\ \A j \in Job : Uncharged(j) => Uncharged(j)'
           /\ \A j \in S : Uncharged(j)'
           /\ \A j \in Job : delivered[j] <= delivered'[j]
<1> USE DEF QueueInv, Claimed, TypeOK
<1>1. delivered' \in [Job -> Counter]
  BY BumpType
<1>2. \A j \in Job : delivered[j] <= delivered'[j]
  BY BumpType DEF Counter
<1>3. \A j \in Job : row'[j] = row[j] /\ row[j].attempt \in Nat /\ delivered[j] \in Nat
  BY BudgetAssumption DEF ledgerVars, JobRow, Counter
<1>4. LedgerOK'
  <2> SUFFICES ASSUME NEW j \in Job
               PROVE  /\ j <= cursor => delivered'[j] >= 1
                      /\ row[j].attempt <= delivered'[j]
    BY <1>3 DEF LedgerOK, ledgerVars
  <2>1. delivered'[j] \in Nat
    BY <1>1, BudgetAssumption DEF Counter
  <2> QED BY <1>2, <1>3, <2>1 DEF LedgerOK
<1>5. \A j \in Job : delivered'[j] # delivered[j] => Uncharged(j)'
  BY <1>1, <1>3, BumpType DEF Uncharged, LedgerOK, Counter
<1>6. \A j \in S : Uncharged(j)'
  BY <1>3, BumpType DEF Uncharged, LedgerOK, Counter
<1>7. \A j \in Job : Uncharged(j) => Uncharged(j)'
  BY <1>3, <1>5 DEF Uncharged
<1> QED BY <1>1, <1>2, <1>4, <1>6, <1>7

LEMMA ReclaimInv ==
    ASSUME ThresholdHolds, QueueInv, NEW w \in Worker, NEW S \in SUBSET Job,
           Reclaim(w, S) \/ ReclaimReplyLost(w, S)
    PROVE  QueueInv'
<1>0. Claimed(w, S)
  BY DEF Reclaim, ReclaimReplyLost
<1>c. /\ delivered' \in [Job -> Counter]
      /\ LedgerOK'
      /\ \A j \in Job : Uncharged(j) => Uncharged(j)'
      /\ \A j \in S : Uncharged(j)'
      /\ \A j \in Job : delivered[j] <= delivered'[j]
  BY <1>0, ClaimedInv
<1> USE DEF QueueInv
<1>1. Claimed(w, S) /\ \A j \in S : ~Held(j) /\ Pending(j)
  BY DEF Reclaim, ReclaimReplyLost, Claimed, Disturb, ThresholdHolds
<1>2. /\ UNCHANGED <<sent, docOf, cursor, acked, dead, row, doc, stopping, task>>
      /\ disturbed' \in 0 .. MaxDisturbances
      /\ phase' \in [Worker -> Phase]
  BY <1>1, DisturbedType
     DEF Reclaim, ReclaimReplyLost, Claimed, ledgerVars, TypeOK, Phase
<1>3. /\ batch' \in [Worker -> SUBSET Job]
      /\ \A v \in Worker : batch'[v] \subseteq batch[v] \cup S
      /\ \A v \in Worker \ {w} : batch'[v] = batch[v]
  BY DEF Reclaim, ReclaimReplyLost, TypeOK
<1>4. TypeOK'
  BY <1>1, <1>2, <1>3, <1>c DEF TypeOK, Busy, Job
<1>5. OneHolder'
  BY <1>1, <1>2, <1>3 DEF OneHolder, Held, Busy, TypeOK
<1>6. HeldIsPending'
  BY <1>1, <1>2, <1>3 DEF HeldIsPending, Held, Pending, Busy, Job
<1>7. OneMessagePerDocument' /\ AckedIsSettled' /\ DoneIsDelivered'
  BY <1>2 DEF DoneIsDelivered, OneMessagePerDocument, AckedIsSettled, Settled, Job
<1>8. BatchesUncharged'
  BY <1>1, <1>3, <1>c DEF BatchesUncharged, TypeOK
<1>9. TasksOK'
  <2> SUFFICES ASSUME NEW s \in Slot, Busy(s) PROVE TaskOK(s)'
    BY <1>2 DEF TasksOK, Busy
  <2> DEFINE j == task[s].job
  <2>1. TaskOK(s) /\ j \in Job /\ task[s].tries \in Nat /\ delivered[j] \in Nat
    BY TaskFields, BudgetAssumption DEF TasksOK, TypeOK, Counter
  <2>2. Uncharged(j) => Uncharged(j)'
    BY <1>2, <1>c, <2>1 DEF Uncharged
  <2>3. delivered'[j] \in Nat /\ delivered[j] <= delivered'[j]
    BY <1>1, <2>1, <1>c, BudgetAssumption DEF Counter
  <2> QED BY <1>2, <2>1, <2>2, <2>3 DEF TaskOK, Settled, Uncharged
<1> QED BY <1>1, <1>4, <1>5, <1>6, <1>7, <1>8, <1>9, <1>c

LEMMA ReadInv ==
    ASSUME QueueInv, NEW w \in Worker, NEW n \in 1 .. (sent - cursor),
           Read(w, n) \/ ReadReplyLost(w, n)
    PROVE  QueueInv'
<1> DEFINE New == cursor + 1 .. cursor + n
<1> USE DEF QueueInv
<1>1. sent \in Nat /\ sent <= MaxJobs /\ cursor \in Nat /\ n \in Nat
      /\ cursor + n <= sent /\ New \in SUBSET Job
  BY QueueAssumption DEF TypeOK, Job
<1>2. /\ UNCHANGED <<sent, docOf, acked, dead, row, doc, stopping, task>>
      /\ cursor' = cursor + n
      /\ delivered' = [j \in Job |-> IF j \in New THEN 1 ELSE delivered[j]]
  BY DEF Read, ReadReplyLost, Fetched, ledgerVars
<1>3. disturbed' \in 0 .. MaxDisturbances /\ phase' \in [Worker -> Phase]
  BY DisturbedType DEF Read, ReadReplyLost, TypeOK, Phase
<1>4. /\ batch' \in [Worker -> SUBSET Job]
      /\ \A v \in Worker : batch'[v] \subseteq batch[v] \cup New
      /\ \A v \in Worker \ {w} : batch'[v] = batch[v]
  BY <1>1 DEF Read, ReadReplyLost, TypeOK
<1>5. \A j \in Job : Held(j) => j <= cursor
  BY DEF HeldIsPending, Pending
<1>6. \A j \in New : ~Held(j) /\ row[j] = NoRow /\ j \notin acked
  <2> SUFFICES ASSUME NEW j \in New PROVE ~Held(j) /\ row[j] = NoRow /\ j \notin acked
    OBVIOUS
  <2>1. j \in Job /\ ~(j <= cursor)
    BY <1>1
  <2>2. j \notin acked
    BY <2>1 DEF DoneIsDelivered
  <2>3. row[j] = NoRow
    BY <2>1 DEF LedgerOK
  <2>4. ~Held(j)
    BY <1>5, <2>1
  <2> QED BY <2>2, <2>3, <2>4
<1>7. TypeOK'
  BY <1>1, <1>2, <1>3, <1>4, BudgetAssumption DEF TypeOK, Busy, Job, Counter
<1>8. OneHolder'
  BY <1>2, <1>4, <1>6 DEF OneHolder, Held, Busy, TypeOK
<1>9. HeldIsPending'
  BY <1>1, <1>2, <1>4, <1>5, <1>6 DEF HeldIsPending, Held, Pending, Busy, Job
<1>10. OneMessagePerDocument' /\ AckedIsSettled' /\ DoneIsDelivered'
  BY <1>1, <1>2 DEF DoneIsDelivered, TypeOK, OneMessagePerDocument, AckedIsSettled, Settled, Job
<1>11. LedgerOK'
  BY <1>1, <1>2, <1>6, BudgetAssumption DEF LedgerOK, TypeOK, Job, Counter, NoRow
<1>12. BatchesUncharged'
  BY <1>1, <1>2, <1>4, <1>6 DEF BatchesUncharged, Uncharged, NoRow
<1>13. TasksOK'
  BY <1>1, <1>2, <1>5 DEF TasksOK, TaskOK, Uncharged, Settled, Busy, Held, TypeOK, Job
<1> QED BY <1>7, <1>8, <1>9, <1>10, <1>11, <1>12, <1>13

LEMMA DispatchInv ==
    ASSUME QueueInv, NEW w \in Worker, NEW s \in SlotsOf(w), Dispatch(w, s)
    PROVE  QueueInv'
<1> USE DEF QueueInv
<1>1. s \in Slot /\ ~Busy(s)
  BY DEF Dispatch, SlotsOf, FreeSlots
<1>2. PICK j \in batch[w], rest \in SUBSET batch[w] :
        /\ j \notin rest
        /\ task' = [task EXCEPT ![s] = Fresh("count", j)]
        /\ batch' = [batch EXCEPT ![w] = rest]
  BY DEF Dispatch
<1>3. j \in Job /\ Held(j) /\ Uncharged(j)
  BY <1>2 DEF TypeOK, Held, BatchesUncharged
<1> DEFINE t == Fresh("count", j)
<1>4. t \in Task /\ t.pc = "count" /\ t.job = j
  BY <1>3, FreshType DEF PC, Job
<1> HIDE DEF t
<1>5. task' \in [Slot -> Task] /\ task'[s] = t /\ \A u \in Slot \ {s} : task'[u] = task[u]
  BY <1>1, <1>2, <1>4 DEF TypeOK, t
<1>6. /\ UNCHANGED <<sent, docOf, cursor, delivered, acked, dead, row, doc, stopping>>
      /\ phase' \in [Worker -> Phase] /\ disturbed' \in 0 .. MaxDisturbances
  BY DEF Dispatch, Calm, redisVars, ledgerVars, TypeOK, Phase
<1>7. /\ batch' \in [Worker -> SUBSET Job] /\ batch'[w] = rest
      /\ \A v \in Worker : batch'[v] \subseteq batch[v]
  BY <1>2 DEF TypeOK
<1>8. TypeOK'
  BY <1>3, <1>4, <1>5, <1>6, <1>7 DEF TypeOK, Busy, Job
<1>9. OneHolder'
  BY <1>1, <1>2, <1>4, <1>5, <1>7 DEF OneHolder, Busy
<1>10. HeldIsPending'
  BY <1>2, <1>4, <1>5, <1>6, <1>7 DEF HeldIsPending, Held, Pending, Busy, Job
<1>11. OneMessagePerDocument' /\ AckedIsSettled' /\ DoneIsDelivered' /\ LedgerOK'
  BY <1>6 DEF OneMessagePerDocument, AckedIsSettled, Settled, DoneIsDelivered, LedgerOK, Job
<1>12. BatchesUncharged'
  BY <1>6, <1>7 DEF BatchesUncharged, Uncharged
<1>13. TasksOK'
  <2>1. TaskOK(s)'
    BY <1>3, <1>4, <1>5, <1>6 DEF TaskOK, Uncharged
  <2>2. ASSUME NEW u \in Slot \ {s}, Busy(u)' PROVE TaskOK(u)'
    BY <1>5, <1>6, <2>2 DEF TasksOK, TaskOK, Uncharged, Settled, Busy
  <2> QED BY <2>1, <2>2 DEF TasksOK
<1> QED BY <1>8, <1>9, <1>10, <1>11, <1>12, <1>13

LEMMA DeadLetterInv ==
    ASSUME RejectionsAreKept, QueueInv, NEW s \in Slot, DeadLetter(s)
    PROVE  QueueInv'
<1> DEFINE j == task[s].job
           t == Fresh("ack", j)
<1> USE DEF QueueInv
<1>1. Busy(s) /\ j \in Job /\ TaskOK(s) /\ task[s].pc = "dead" /\ Held(j)
  BY DEF DeadLetter, Busy, TypeOK, TasksOK, Held
<1>2. t \in Task /\ t.pc = "ack" /\ t.job = j
  BY <1>1, FreshType DEF PC, Job
<1>3. task' \in [Slot -> Task] /\ task'[s] = t /\ \A u \in Slot \ {s} : task'[u] = task[u]
  BY <1>2 DEF DeadLetter, Goto, Become, TypeOK
<1>4. /\ UNCHANGED <<sent, docOf, cursor, delivered, acked, row, doc, phase, batch, stopping>>
      /\ disturbed' \in 0 .. MaxDisturbances
      /\ dead' \in SUBSET Job /\ dead \subseteq dead' /\ dead' \subseteq dead \cup {j}
  BY <1>1, DisturbedType DEF DeadLetter, ledgerVars, loopVars, TypeOK
<1>5. j \in dead' \/ docOf[j] # Malformed
  <2>1. j \in 1 .. sent
    BY <1>1 DEF HeldIsPending, Pending, TypeOK, Job
  <2> QED BY <2>1 DEF DeadLetter, Disturb, RejectionsAreKept, OneMessagePerDocument
<1> HIDE DEF t
<1>6. \A u \in Slot : Busy(u)' => Busy(u) /\ task'[u].job = task[u].job
  BY <1>1, <1>2, <1>3 DEF Busy
<1>7. TypeOK' /\ OneHolder' /\ HeldIsPending'
  <2>1. TypeOK'
    BY <1>3, <1>4, <1>6 DEF TypeOK, Job
  <2>2. OneHolder'
    BY <1>4, <1>6 DEF OneHolder
  <2>3. HeldIsPending'
    BY <1>4, <1>6 DEF HeldIsPending, Held, Pending, Job
  <2> QED BY <2>1, <2>2, <2>3
<1>8. OneMessagePerDocument' /\ AckedIsSettled' /\ DoneIsDelivered' /\ LedgerOK'
  <2>1. DoneIsDelivered'
    BY <1>1, <1>4 DEF DoneIsDelivered, HeldIsPending, Pending
  <2> QED BY <1>4, <2>1
          DEF OneMessagePerDocument, AckedIsSettled, Settled, LedgerOK, Job
<1>9. BatchesUncharged'
  BY <1>4 DEF BatchesUncharged, Uncharged
<1>10. TasksOK'
  <2>1. TaskOK(s)'
    BY <1>1, <1>2, <1>3, <1>4, <1>5 DEF TaskOK, Settled
  <2>2. ASSUME NEW u \in Slot \ {s}, Busy(u)' PROVE TaskOK(u)'
    BY <1>3, <1>4, <2>2 DEF TasksOK, TaskOK, Uncharged, Settled, Busy
  <2> QED BY <2>1, <2>2 DEF TasksOK
<1> QED BY <1>7, <1>8, <1>9, <1>10

LEMMA AckInv ==
    ASSUME QueueInv, NEW s \in Slot, Ack(s)
    PROVE  QueueInv'
<1> DEFINE j == task[s].job
<1> USE DEF QueueInv
<1>1. Busy(s) /\ j \in Job /\ TaskOK(s) /\ task[s].pc = "ack" /\ Held(j)
  BY DEF Ack, Busy, TypeOK, TasksOK, Held
<1>2. task' \in [Slot -> Task] /\ task'[s] = Idle /\ \A u \in Slot \ {s} : task'[u] = task[u]
  BY IdleType DEF Ack, Finish, Become, TypeOK
<1>3. /\ UNCHANGED <<sent, docOf, cursor, delivered, dead, row, doc, phase, batch, stopping>>
      /\ disturbed' \in 0 .. MaxDisturbances
      /\ acked' \in SUBSET Job /\ acked' \subseteq acked \cup {j}
  BY <1>1, DisturbedType DEF Ack, ledgerVars, loopVars, TypeOK
<1>4. \A u \in Slot : Busy(u)' => Busy(u) /\ task'[u] = task[u] /\ task[u].job # j
  BY <1>1, <1>2, IdleType DEF Busy, OneHolder
<1>5. TypeOK'
  BY <1>2, <1>3, <1>4 DEF TypeOK, Job
<1>6. OneHolder'
  BY <1>3, <1>4 DEF OneHolder
<1>7. HeldIsPending'
  <2> SUFFICES ASSUME NEW k \in Job, Held(k)' PROVE Pending(k)'
    BY DEF HeldIsPending, Job
  <2>1. Held(k) /\ k # j
    BY <1>1, <1>3, <1>4 DEF Held, OneHolder
  <2> QED BY <1>3, <2>1 DEF HeldIsPending, Pending
<1>8. OneMessagePerDocument' /\ LedgerOK'
  BY <1>3 DEF OneMessagePerDocument, LedgerOK, Job
<1>9. AckedIsSettled' /\ DoneIsDelivered'
  BY <1>1, <1>3 DEF AckedIsSettled, Settled, DoneIsDelivered, TaskOK, HeldIsPending, Pending
<1>10. BatchesUncharged'
  BY <1>3 DEF BatchesUncharged, Uncharged
<1>11. TasksOK'
  BY <1>3, <1>4 DEF TasksOK, TaskOK, Uncharged, Settled
<1> QED BY <1>5, <1>6, <1>7, <1>8, <1>9, <1>10, <1>11

\* What a commit of the task in slot s does to the row of its own message
\* and the document of its own message, and to nothing else.
LEMMA CommitWrites ==
    ASSUME QueueInv, NEW s \in Slot, Commit(s)
    PROVE  LET t == task[s]
               j == t.job
               d == docOf[j]
               attempt == AttemptOf(t.seen, t.tries)
           IN  /\ j \in Job /\ d \in Doc /\ Busy(s) /\ TaskOK(s) /\ Held(j)
               /\ t.txn \in Txn
               /\ \/ /\ Finish(s)
                     /\ UNCHANGED ledgerVars
                  \/ /\ doc[d] # "gone" /\ t.seen = row[j] /\ t.seenDoc = doc[d]
                     /\ row' = [row EXCEPT ![j] =
                                  [status |-> JobStatusOf[t.txn],
                                   attempt |-> IF t.txn = "claim" THEN attempt
                                               ELSE row[j].attempt]]
                     /\ doc' = [doc EXCEPT ![d] = DocStatusOf[JobStatusOf[t.txn]]]
                     /\ IF t.txn = "claim"
                        THEN Become(s, TaskAt("run", j, "claim", attempt, NoRow, "gone"))
                        ELSE Continue(s)
<1> DEFINE t == task[s]
           j == t.job
           d == docOf[j]
           attempt == AttemptOf(t.seen, t.tries)
<1> USE DEF QueueInv
<1>1. /\ j \in Job /\ Busy(s) /\ TaskOK(s) /\ t \in Task /\ t.pc = "commit"
      /\ Held(j) /\ row[j] \in JobRow
  BY DEF Commit, Busy, Held, TypeOK, TasksOK
<1>2. d \in Doc /\ d # Malformed /\ t.txn \in Txn /\ doc[d] \in DocStatus
  BY <1>1, TaskFields DEF TaskOK, TypeOK
<1>3. CASE CommitRaises(t.seen, row[j], doc[d])
  BY <1>1, <1>2, <1>3 DEF Commit
<1>4. CASE ~CommitRaises(t.seen, row[j], doc[d])
  <2>1. doc[d] # "gone"
    <3>1. CASE t.seen = NoRow
      BY <1>4, <3>1 DEF CommitRaises
    <3>2. CASE t.seen # NoRow
      <4>1. row[j] # NoRow /\ row[j].status # "none"
        BY <1>1, <1>4, <3>2 DEF CommitRaises, LedgerOK
      <4>2. doc[d] = DocStatusOf[row[j].status] /\ row[j].status \in JobStatus
        BY <1>1, <4>1 DEF LedgerOK, JobRow
      <4> QED BY <4>1, <4>2 DEF DocStatusOf, JobStatus
    <3> QED BY <3>1, <3>2
  <2>2. t.seen = row[j] /\ t.seenDoc = doc[d]
    BY <1>1, <1>2, <2>1 DEF TaskOK
  <2>3. RowAfter(t.txn, t.seen, row[j], attempt) =
          [status |-> JobStatusOf[t.txn],
           attempt |-> IF t.txn = "claim" THEN attempt ELSE row[j].attempt]
    BY <2>2 DEF RowAfter, Written
  <2>4. DocAfter(t.txn, t.seenDoc, doc[d]) = DocStatusOf[JobStatusOf[t.txn]]
    BY <2>1, <2>2 DEF DocAfter, Written
  <2> QED BY <1>1, <1>2, <1>4, <2>1, <2>2, <2>3, <2>4 DEF Commit
<1> QED BY <1>3, <1>4

(***************************************************************************)
(* A step that writes the row of the message in hand and its document      *)
(* disturbs no other message, for the message is in one hand and the       *)
(* document has one message.                                               *)
(***************************************************************************)
LEMMA WriteStep ==
    ASSUME QueueInv, NEW s \in Slot, Busy(s),
           NEW st \in JobStatus \ {"none"}, NEW a \in Counter,
           docOf[task[s].job] \in Doc,
           a <= delivered[task[s].job],
           row' = [row EXCEPT ![task[s].job] = [status |-> st, attempt |-> a]],
           doc' = [doc EXCEPT ![docOf[task[s].job]] = DocStatusOf[st]],
           UNCHANGED <<redisVars, loopVars, disturbed>>,
           NEW t \in Task, Become(s, t),
           t.pc = "idle" \/ (t.job = task[s].job /\ TaskOK(s)')
    PROVE  QueueInv'
<1> DEFINE j == task[s].job
           d == docOf[j]
<1> USE DEF QueueInv
<1>1. /\ j \in Job /\ Held(j) /\ j <= cursor /\ j \notin acked
      /\ d # Malformed
  BY QueueAssumption DEF TypeOK, Busy, Held, HeldIsPending, Pending
<1>2. \A k \in Job \ {j} : docOf[k] # d
  BY <1>1 DEF OneMessagePerDocument
<1>3. DocStatusOf[st] \in DocStatus \ {"gone"}
  BY DEF JobStatus, DocStatus, DocStatusOf
<1>4. /\ row' \in [Job -> JobRow]
      /\ row'[j].status = st /\ row'[j].attempt = a
      /\ \A k \in Job \ {j} : row'[k] = row[k]
  BY <1>1 DEF TypeOK, JobRow
<1>5. /\ doc' \in [Doc -> DocStatus]
      /\ doc'[d] = DocStatusOf[st]
      /\ \A e \in Doc \ {d} : doc'[e] = doc[e]
  BY <1>3 DEF TypeOK
<1>6. \A k \in Job \ {j} : docOf[k] # Malformed => doc'[docOf[k]] = doc[docOf[k]]
  BY <1>2, <1>5 DEF TypeOK
<1>7. /\ task' \in [Slot -> Task] /\ task'[s] = t
      /\ \A u \in Slot \ {s} : task'[u] = task[u]
  BY DEF Become, TypeOK
<1>8. \A u \in Slot \ {s} : Busy(u)' => Busy(u) /\ task[u].job \in Job \ {j}
  BY <1>1, <1>7 DEF Busy, OneHolder, TypeOK
<1>9. \A u \in Slot : Busy(u)' => Busy(u) /\ task'[u].job = task[u].job
  BY <1>7, <1>8 DEF Busy
<1>10. UNCHANGED <<sent, docOf, cursor, delivered, acked, dead, phase, batch,
                   stopping, disturbed>>
  BY DEF redisVars, loopVars
<1>11. TypeOK'
  BY <1>4, <1>5, <1>7, <1>9, <1>10 DEF TypeOK, Job
<1>12. OneHolder'
  BY <1>9, <1>10 DEF OneHolder
<1>13. HeldIsPending'
  BY <1>9, <1>10 DEF HeldIsPending, Held, Pending, Job
<1>14. OneMessagePerDocument' /\ DoneIsDelivered'
  BY <1>10 DEF OneMessagePerDocument, DoneIsDelivered, Job
<1>15. LedgerOK'
  <2>1. row'[j] # NoRow /\ row'[j].status # "none"
    BY <1>4 DEF NoRow
  <2>2. ASSUME NEW k \in Job \ {j}
        PROVE  /\ row'[k].status = "none" => row'[k] = NoRow
               /\ row'[k] # NoRow => /\ k <= cursor
                                     /\ docOf[k] # Malformed
                                     /\ doc'[docOf[k]] = DocStatusOf[row'[k].status]
               /\ k <= cursor => delivered[k] >= 1
               /\ row'[k].attempt <= delivered[k]
    BY <1>4, <1>6 DEF LedgerOK
  <2>3. j <= cursor => delivered[j] >= 1
    BY <1>1 DEF LedgerOK
  <2> QED BY <1>1, <1>4, <1>5, <1>10, <2>1, <2>2, <2>3 DEF LedgerOK, Job
<1>16. BatchesUncharged'
  <2> SUFFICES ASSUME NEW w \in Worker, NEW k \in batch[w] PROVE Uncharged(k)'
    BY <1>10 DEF BatchesUncharged
  <2>1. k \in Job \ {j} /\ Uncharged(k)
    BY DEF OneHolder, TypeOK, BatchesUncharged
  <2> QED BY <1>4, <1>10, <2>1 DEF Uncharged
<1>17. TasksOK'
  <2>1. ASSUME NEW u \in Slot \ {s}, Busy(u)' PROVE TaskOK(u)'
    <3> DEFINE k == task[u].job
    <3>1. TaskOK(u) /\ k \in Job \ {j} /\ task'[u] = task[u]
      BY <1>7, <1>8, <2>1 DEF TasksOK
    <3>2. row'[k] = row[k] /\ (docOf[k] # Malformed => doc'[docOf[k]] = doc[docOf[k]])
      BY <1>4, <1>6, <3>1
    <3> HIDE DEF QueueInv
    <3> QED BY <1>10, <3>1, <3>2 DEF TaskOK, Uncharged, Settled
  <2> QED BY <1>7, <2>1 DEF TasksOK, Busy
<1>18. AckedIsSettled'
  BY <1>1, <1>4, <1>6, <1>10 DEF AckedIsSettled, Settled, TypeOK
<1> QED BY <1>11, <1>12, <1>13, <1>14, <1>15, <1>16, <1>17, <1>18

LEMMA CommitInv ==
    ASSUME QueueInv, NEW s \in Slot, Commit(s)
    PROVE  QueueInv'
<1> DEFINE o == task[s]
           j == o.job
           d == docOf[j]
           attempt == AttemptOf(o.seen, o.tries)
<1> USE DEF QueueInv
<1>1. /\ j \in Job /\ d \in Doc /\ Busy(s) /\ TaskOK(s) /\ Held(j)
      /\ o.txn \in Txn /\ o \in Task /\ o.pc = "commit"
  BY CommitWrites DEF Commit, TypeOK
<1>2. UNCHANGED <<redisVars, loopVars, disturbed>> /\ disturbed' \in 0 .. MaxDisturbances
  BY DisturbedType DEF Commit, Calm
<1>3. CASE Finish(s) /\ UNCHANGED ledgerVars
  BY <1>2, <1>3, FinishStep
<1>4. CASE /\ doc[d] # "gone" /\ o.seen = row[j] /\ o.seenDoc = doc[d]
           /\ row' = [row EXCEPT ![j] =
                        [status |-> JobStatusOf[o.txn],
                         attempt |-> IF o.txn = "claim" THEN attempt ELSE row[j].attempt]]
           /\ doc' = [doc EXCEPT ![d] = DocStatusOf[JobStatusOf[o.txn]]]
           /\ IF o.txn = "claim"
              THEN Become(s, TaskAt("run", j, "claim", attempt, NoRow, "gone"))
              ELSE Continue(s)
  <2>1. /\ row[j] \in JobRow /\ delivered[j] \in Counter /\ delivered[j] >= 1
        /\ row[j].attempt \in Counter /\ row[j].attempt <= delivered[j]
        /\ o.tries \in Counter /\ d # Malformed
    BY <1>1, TaskFields DEF TypeOK, JobRow, LedgerOK, HeldIsPending, Pending, TaskOK
  <2>2. JobStatusOf[o.txn] \in JobStatus \ {"none"}
    BY <1>1 DEF Txn, JobStatusOf, JobStatus
  <2>3. /\ row'[j].status = JobStatusOf[o.txn]
        /\ doc'[d] = DocStatusOf[JobStatusOf[o.txn]]
    BY <1>1, <1>4 DEF TypeOK
  <2>4. docOf' = docOf /\ dead' = dead
    BY <1>2 DEF redisVars
  <2>5. CASE o.txn = "claim"
    <3>1. attempt \in Counter /\ attempt <= delivered[j]
      <4>1. o.tries <= delivered[j] /\ Uncharged(j)
        BY <1>1, <2>5 DEF TaskOK
      <4> QED BY <1>4, <2>1, <4>1, AttemptBound DEF Uncharged
    <3> DEFINE t == TaskAt("run", j, "claim", attempt, NoRow, "gone")
    <3>2. t \in Task /\ t.pc = "run" /\ t.job = j
      <4>1. "run" \in PC /\ "claim" \in Txn /\ "gone" \in DocStatus /\ j \in 0 .. MaxJobs
        BY <1>1, QueueAssumption DEF PC, Txn, DocStatus, Job
      <4> HIDE DEF attempt, j
      <4> QED BY <3>1, <4>1, TaskAtType, TaskAtFields, NoRowType
    <3>3. Become(s, t) /\ task'[s] = t
      BY <1>4, <2>5 DEF Become, TypeOK
    <3> HIDE DEF t
    <3>4. TaskOK(s)'
      BY <2>1, <2>3, <2>4, <2>5, <3>2, <3>3 DEF TaskOK, JobStatusOf
    <3>5. row' = [row EXCEPT ![j] = [status |-> JobStatusOf[o.txn], attempt |-> attempt]]
      BY <1>4, <2>5
    <3> HIDE DEF attempt
    <3> QED BY <1>1, <1>2, <1>4, <2>2, <3>1, <3>2, <3>3, <3>4, <3>5, WriteStep
  <2>6. CASE o.txn # "claim"
    <3>1. row' = [row EXCEPT ![j] = [status |-> JobStatusOf[o.txn],
                                     attempt |-> row[j].attempt]]
      BY <1>4, <2>6
    <3>2. ASSUME NEW pc \in {"ack", "dead"}, Goto(s, pc), o.txn \in {"complete", "fail"}
          PROVE  QueueInv'
      <4> DEFINE t == Fresh(pc, j)
      <4>1. t \in Task /\ t.pc = pc /\ t.job = j
        BY <1>1, FreshType DEF PC, Job
      <4>2. Become(s, t) /\ task'[s] = t
        BY <3>2 DEF Goto, Become, TypeOK
      <4> HIDE DEF t
      <4>3. TaskOK(s)'
        BY <2>1, <2>3, <2>4, <3>2, <4>1, <4>2 DEF TaskOK, Settled, JobStatusOf
      <4> QED BY <1>1, <1>2, <1>4, <2>1, <2>2, <3>1, <4>1, <4>2, <4>3, WriteStep
    <3>3. CASE Finish(s)
      BY <1>1, <1>2, <1>4, <2>1, <2>2, <3>1, <3>3, IdleType, WriteStep DEF Finish
    <3> QED BY <1>1, <1>4, <2>6, <3>2, <3>3 DEF Continue, After, Txn
  <2> QED BY <2>5, <2>6
<1> QED BY <1>3, <1>4, CommitWrites

\* A new message is nobody's yet: no row, no hand, no outcome.
LEMMA PublishInv ==
    ASSUME QueueInv, NEW x \in Doc \cup {Malformed}, Enqueue(x),
           x = Malformed => "malformed" \in Disturbances,
           \A k \in 1 .. sent : docOf[k] = x => x = Malformed,
           UNCHANGED <<ledgerVars, loopVars, task>>,
           disturbed' \in 0 .. MaxDisturbances
    PROVE  QueueInv'
<1> DEFINE j == sent + 1
<1> USE DEF QueueInv
<1>1. /\ sent \in Nat /\ cursor \in Nat /\ cursor <= sent /\ j \in Job
      /\ sent' = sent + 1 /\ sent' \in 0 .. MaxJobs
  BY QueueAssumption DEF TypeOK, Enqueue, Job
<1>2. /\ UNCHANGED <<cursor, delivered, acked, dead, row, doc, phase, batch,
                      stopping, task>>
      /\ docOf' \in [Job -> Doc \cup {Malformed}] /\ docOf'[j] = x
      /\ \A k \in Job \ {j} : docOf'[k] = docOf[k]
  BY <1>1 DEF Enqueue, ledgerVars, loopVars, TypeOK
<1>3. \A k \in Job : k <= cursor => docOf'[k] = docOf[k]
  BY <1>1, <1>2 DEF Job
<1>4. TypeOK'
  BY <1>1, <1>2 DEF TypeOK, Busy, Job
<1>5. OneHolder' /\ HeldIsPending' /\ DoneIsDelivered' /\ BatchesUncharged'
  BY <1>2 DEF OneHolder, HeldIsPending, Held, Pending, DoneIsDelivered,
              BatchesUncharged, Uncharged, Busy, Job
<1>6. OneMessagePerDocument'
  <2>1. \A k \in Job : k > sent => docOf[k] = Malformed
    BY DEF OneMessagePerDocument
  <2>2. \A k \in Job \ {j} : docOf[k] = x => x = Malformed
    BY <1>1, <2>1 DEF Job
  <2>3. \A k \in Job : k > sent' => docOf'[k] = Malformed
    BY <1>1, <1>2, <2>1 DEF Job
  <2>4. \A k \in 1 .. sent' : docOf'[k] = Malformed => "malformed" \in Disturbances
    <3> SUFFICES ASSUME NEW k \in 1 .. sent', docOf'[k] = Malformed
                 PROVE  "malformed" \in Disturbances
      OBVIOUS
    <3>1. CASE k = j
      BY <1>2, <3>1
    <3>2. CASE k # j
      <4>1. k \in 1 .. sent /\ k \in Job \ {j}
        BY <1>1, <3>2, QueueAssumption DEF Job
      <4>2. docOf[k] = Malformed
        BY <1>2, <4>1
      <4> QED BY <4>1, <4>2 DEF OneMessagePerDocument
    <3> QED BY <3>1, <3>2
  <2>5. \A i, k \in Job : docOf'[i] = docOf'[k] /\ docOf'[i] # Malformed => i = k
    BY <1>1, <1>2, <2>2 DEF OneMessagePerDocument
  <2> QED BY <2>3, <2>4, <2>5 DEF OneMessagePerDocument, Job
<1>7. LedgerOK'
  BY <1>2, <1>3 DEF LedgerOK, Job
<1>8. TasksOK'
  <2> SUFFICES ASSUME NEW s \in Slot, Busy(s) PROVE TaskOK(s)'
    BY <1>2 DEF TasksOK, Busy
  <2>1. TaskOK(s) /\ task[s].job \in Job /\ task[s].job <= cursor
    BY DEF TasksOK, TypeOK, HeldIsPending, Held, Pending
  <2>2. docOf'[task[s].job] = docOf[task[s].job]
    BY <1>3, <2>1
  <2> QED BY <1>2, <2>1, <2>2 DEF TaskOK, Uncharged, Settled
<1>9. AckedIsSettled'
  BY <1>2, <1>3 DEF AckedIsSettled, Settled, DoneIsDelivered, TypeOK
<1> QED BY <1>4, <1>5, <1>6, <1>7, <1>8, <1>9

\* A deletion settles the jobs of the document, wherever they are.
LEMMA DeleteDocumentInv ==
    ASSUME QueueInv, NEW d \in Doc, DeleteDocument(d)
    PROVE  QueueInv'
<1> USE DEF QueueInv
<1>1. /\ UNCHANGED <<sent, docOf, cursor, delivered, acked, dead, phase, batch,
                      stopping, task>>
      /\ disturbed' \in 0 .. MaxDisturbances
  BY DisturbedType DEF DeleteDocument, redisVars, loopVars
<1>2. /\ doc' \in [Doc -> DocStatus] /\ doc'[d] = "gone"
      /\ \A e \in Doc \ {d} : doc'[e] = doc[e]
  BY DEF DeleteDocument, TypeOK, DocStatus
<1>3. /\ row' \in [Job -> JobRow]
      /\ \A j \in Job : row'[j] = IF docOf[j] = d THEN NoRow ELSE row[j]
  BY NoRowType DEF DeleteDocument, TypeOK
<1>4. \A j \in Job : j <= cursor => delivered[j] \in Nat /\ delivered[j] >= 1
  BY BudgetAssumption DEF LedgerOK, TypeOK, Counter
<1>5. TypeOK'
  BY <1>1, <1>2, <1>3 DEF TypeOK, Busy, Job
<1>6. OneHolder' /\ HeldIsPending' /\ DoneIsDelivered' /\ OneMessagePerDocument'
  BY <1>1 DEF OneHolder, HeldIsPending, Held, Pending, DoneIsDelivered,
              OneMessagePerDocument, Busy, Job
<1>7. \A j \in Job : j <= cursor /\ Uncharged(j) => row'[j].attempt < delivered[j]
                                                 \/ delivered[j] = AttemptCeiling
  BY <1>3, <1>4 DEF Uncharged, NoRow
<1>8. LedgerOK'
  <2> SUFFICES ASSUME NEW j \in Job
               PROVE  /\ row'[j].status = "none" => row'[j] = NoRow
                      /\ row'[j] # NoRow =>
                           /\ j <= cursor /\ docOf[j] # Malformed
                           /\ doc'[docOf[j]] = DocStatusOf[row'[j].status]
                      /\ j <= cursor => delivered[j] >= 1
                      /\ row'[j].attempt <= delivered[j]
    BY <1>1 DEF LedgerOK, Job
  <2>1. CASE docOf[j] = d
    BY <1>3, <2>1, BudgetAssumption DEF NoRow, LedgerOK, TypeOK, Counter
  <2>2. CASE docOf[j] # d
    BY <1>2, <1>3, <2>2 DEF LedgerOK, TypeOK
  <2> QED BY <2>1, <2>2
<1>9. BatchesUncharged'
  <2> SUFFICES ASSUME NEW w \in Worker, NEW j \in batch[w] PROVE Uncharged(j)'
    BY <1>1 DEF BatchesUncharged
  <2>1. j \in Job /\ j <= cursor /\ Uncharged(j)
    BY DEF BatchesUncharged, TypeOK, HeldIsPending, Held, Pending
  <2> QED BY <1>1, <1>7, <2>1 DEF Uncharged
<1>10. TasksOK'
  <2> SUFFICES ASSUME NEW s \in Slot, Busy(s) PROVE TaskOK(s)'
    BY <1>1 DEF TasksOK, Busy
  <2> DEFINE j == task[s].job
  <2>1. TaskOK(s) /\ j \in Job /\ j <= cursor
    BY DEF TasksOK, TypeOK, HeldIsPending, Held, Pending
  <2>2. Uncharged(j) => Uncharged(j)'
    BY <1>1, <1>7, <2>1 DEF Uncharged
  <2>3. CASE docOf[j] = d
    <3>1. docOf[j] # Malformed
      BY <2>3, QueueAssumption
    <3> QED BY <1>1, <1>2, <2>1, <2>2, <2>3, <3>1 DEF TaskOK, Settled, Uncharged
  <2>4. CASE docOf[j] # d
    <3>1. row'[j] = row[j] /\ (docOf[j] # Malformed => doc'[docOf[j]] = doc[docOf[j]])
      BY <1>2, <1>3, <2>1, <2>4 DEF TypeOK
    <3> QED BY <1>1, <2>1, <2>2, <3>1 DEF TaskOK, Settled, Uncharged
  <2> QED BY <2>3, <2>4
<1>11. AckedIsSettled'
  BY <1>1, <1>2, <1>3 DEF AckedIsSettled, Settled, TypeOK
<1> QED BY <1>5, <1>6, <1>8, <1>9, <1>10, <1>11

-----------------------------------------------------------------------------
(***************************************************************************)
(* The invariant.                                                          *)
(***************************************************************************)
LEMMA InitInv == Init => QueueInv
<1> SUFFICES ASSUME Init PROVE QueueInv
  OBVIOUS
<1> USE DEF Init
<1>1. \A s \in Slot : task[s] \in Task /\ ~Busy(s)
  BY IdleType DEF Busy
<1>2. TypeOK
  BY <1>1, NoRowType, QueueAssumption, BudgetAssumption
     DEF TypeOK, Counter, DocStatus, Phase, Job
<1>3. OneHolder /\ HeldIsPending /\ DoneIsDelivered /\ BatchesUncharged /\ TasksOK
  BY <1>1 DEF OneHolder, HeldIsPending, Held, DoneIsDelivered, BatchesUncharged, TasksOK
<1>4. OneMessagePerDocument /\ AckedIsSettled
  BY DEF OneMessagePerDocument, AckedIsSettled
<1>5. LedgerOK
  BY DEF LedgerOK, NoRow, Job
<1> QED BY <1>2, <1>3, <1>4, <1>5 DEF QueueInv

LEMMA NextInv ==
    ASSUME ThresholdHolds, RejectionsAreKept, QueueInv, [Next]_vars
    PROVE  QueueInv'
<1>1. CASE UNCHANGED vars
  <2>1. /\ UNCHANGED <<redisVars, ledgerVars>>
        /\ phase' = phase /\ stopping' = stopping /\ disturbed' = disturbed
        /\ batch' = batch /\ task' = task
    BY <1>1 DEF vars, loopVars
  <2> QED BY <2>1, LetGo DEF QueueInv, TypeOK
<1>2. CASE Produce
  <2>1. ASSUME NEW d \in Doc, Publish(d) PROVE QueueInv'
    BY <2>1, PublishInv, DisturbedType, QueueAssumption DEF Publish, QueueInv
  <2>2. CASE PublishMalformed
    <3>1. disturbed' \in 0 .. MaxDisturbances /\ "malformed" \in Disturbances
      BY <2>2, DisturbedType DEF PublishMalformed, Disturb, QueueInv
    <3> QED BY <2>2, <3>1, PublishInv DEF PublishMalformed
  <2> QED BY <1>2, <2>1, <2>2 DEF Produce
<1>3. ASSUME NEW w \in Worker, Loop(w) PROVE QueueInv'
  <2>1. CASE \E S \in SUBSET Job : Reclaim(w, S) \/ ReclaimReplyLost(w, S)
    BY <2>1, ReclaimInv
  <2>2. CASE \E n \in 1 .. (sent - cursor) : Read(w, n) \/ ReadReplyLost(w, n)
    BY <2>2, ReadInv
  <2>3. CASE \E s \in SlotsOf(w) : Dispatch(w, s)
    BY <2>3, DispatchInv
  <2>4. CASE SkipReclaim(w) \/ PollNothing(w) \/ DropReclaimed(w)
    BY <2>4, LetGoInv
  <2> QED BY <1>3, <2>1, <2>2, <2>3, <2>4 DEF Loop
<1>4. ASSUME NEW s \in Slot, RunTask(s) PROVE QueueInv'
  BY <1>4, CountDeliveriesInv, LoadJobInv, LoadDocumentInv, CommitInv,
     FinishPipelineInv, DeadLetterInv, AckInv DEF RunTask
<1>5. CASE Lifecycle
  BY <1>5, LetGoInv, DeleteDocumentInv DEF Lifecycle
<1> QED BY <1>1, <1>2, <1>3, <1>4, <1>5 DEF Next

(***************************************************************************)
(* In every reachable state of a fleet of any size the ledger, the stream  *)
(* and the tasks of all pods agree as QueueInv says.                       *)
(***************************************************************************)
THEOREM Invariance ==
    ASSUME ThresholdHolds, RejectionsAreKept
    PROVE  Spec => []QueueInv
BY InitInv, NextInv, PTL DEF Spec

\* A job is never lost: an acknowledged message has its outcome on record.
THEOREM NoJobIsLost ==
    ASSUME ThresholdHolds, RejectionsAreKept
    PROVE  Spec => []AckedIsSettled
BY Invariance, PTL DEF QueueInv

\* documents.status and processing_jobs.status agree.
THEOREM TablesAgree ==
    ASSUME ThresholdHolds, RejectionsAreKept
    PROVE  Spec => []DocMirrorsJob
<1>1. QueueInv => DocMirrorsJob
  BY DEF QueueInv, LedgerOK, DocMirrorsJob
<1> QED BY <1>1, Invariance, PTL

\* No attempt is charged that no delivery paid for.
THEOREM AttemptsArePaidFor ==
    ASSUME ThresholdHolds, RejectionsAreKept
    PROVE  Spec => []NoAttemptWithoutDelivery
<1>1. QueueInv => NoAttemptWithoutDelivery
  BY DEF QueueInv, LedgerOK, NoAttemptWithoutDelivery
<1> QED BY <1>1, Invariance, PTL

-----------------------------------------------------------------------------
(***************************************************************************)
(* Which steps write the ledger and the dead-letter stream, and how.       *)
(***************************************************************************)

\* What the commit of a task may turn the row of its own message into.
CommittedTo(j, st) ==
    /\ j \in 1 .. sent \ acked /\ docOf[j] \in Doc
    /\ doc[docOf[j]] # "gone" /\ doc'[docOf[j]] # "gone"
    /\ row'[j].status = st
    /\ IF st = "PROCESSING" THEN row[j].status # "COMPLETED"
                            ELSE row[j].status = "PROCESSING"
    /\ \A k \in Job \ {j} : row'[k] = row[k]
    /\ \A e \in Doc \ {docOf[j]} : doc'[e] = doc[e]

\* A commit writes nothing, or moves one job along.
LEMMA CommitMoves ==
    ASSUME QueueInv, NEW s \in Slot, Commit(s)
    PROVE  \/ UNCHANGED ledgerVars
           \/ \E j \in Job, st \in {"PROCESSING", "QUEUED", "COMPLETED", "FAILED"} :
                CommittedTo(j, st)
<1> DEFINE o == task[s]
           j == o.job
           d == docOf[j]
           st == JobStatusOf[o.txn]
<1> USE DEF QueueInv
<1>1. j \in Job /\ d \in Doc /\ TaskOK(s) /\ Held(j) /\ o.txn \in Txn /\ o.pc = "commit"
  BY CommitWrites DEF Commit
<1>2. j \in 1 .. sent \ acked
  BY <1>1 DEF HeldIsPending, Pending, TypeOK, Job
<1> SUFFICES ASSUME ~UNCHANGED ledgerVars PROVE CommittedTo(j, st) /\ st \in
                    {"PROCESSING", "QUEUED", "COMPLETED", "FAILED"}
  BY <1>1 DEF CommittedTo
<1>3. /\ doc[d] # "gone" /\ o.seen = row[j]
      /\ row'[j].status = st /\ \A k \in Job \ {j} : row'[k] = row[k]
      /\ doc'[d] = DocStatusOf[st] /\ \A e \in Doc \ {d} : doc'[e] = doc[e]
  <2>1. PICK a : /\ doc[d] # "gone" /\ o.seen = row[j]
                 /\ row' = [row EXCEPT ![j] = [status |-> st, attempt |-> a]]
                 /\ doc' = [doc EXCEPT ![d] = DocStatusOf[st]]
    BY CommitWrites
  <2> QED BY <1>1, <2>1 DEF TypeOK
<1>4. st \in {"PROCESSING", "QUEUED", "COMPLETED", "FAILED"} /\ DocStatusOf[st] # "gone"
  BY <1>1 DEF Txn, JobStatusOf, DocStatusOf
<1>5. CASE o.txn = "claim"
  <2>1. st = "PROCESSING" /\ row[j].status # "COMPLETED"
    BY <1>1, <1>3, <1>5 DEF TaskOK, AlreadyDone, JobStatusOf
  <2> QED BY <1>1, <1>2, <1>3, <1>4, <2>1 DEF CommittedTo
<1>6. CASE o.txn # "claim"
  <2>1. st # "PROCESSING" /\ row[j].status = "PROCESSING"
    BY <1>1, <1>3, <1>6, QueueAssumption DEF TaskOK, JobStatusOf, Txn
  <2> QED BY <1>1, <1>2, <1>3, <1>4, <2>1 DEF CommittedTo
<1> QED BY <1>5, <1>6

\* No other step but a deletion writes the ledger.
LEMMA LedgerWriters ==
    ASSUME QueueInv, Next
    PROVE  \/ UNCHANGED ledgerVars
           \/ \E s \in Slot : Commit(s)
           \/ \E d \in Doc : DeleteDocument(d)
BY DEF Next, Produce, Publish, PublishMalformed, Loop, SkipReclaim, Reclaim,
       ReclaimReplyLost, Claimed, PollNothing, Read, ReadReplyLost, Fetched,
       Dispatch, DropReclaimed, RunTask, CountDeliveries, LoadJob, LoadDocument,
       FinishPipeline, DeadLetter, Ack, Lifecycle, Stop, Restart, Crash,
       CancelTask, LedgerError

\* "Never silently done twice": a committed completion stays.
THEOREM CompletionIsFinal ==
    ASSUME ThresholdHolds, RejectionsAreKept
    PROVE  Spec => CompletedIsFinal
<1> DEFINE Kept == \A j \in Job : row[j].status = "COMPLETED" =>
                      row'[j].status = "COMPLETED" \/ doc'[docOf[j]] = "gone"
<1>1. QueueInv /\ [Next]_vars => [Kept]_vars
  <2> SUFFICES ASSUME QueueInv, Next, NEW j \in Job, row[j].status = "COMPLETED"
               PROVE  row'[j].status = "COMPLETED" \/ doc'[docOf[j]] = "gone"
    OBVIOUS
  <2>1. CASE UNCHANGED ledgerVars
    BY <2>1 DEF ledgerVars
  <2>2. ASSUME NEW s \in Slot, Commit(s), ~UNCHANGED ledgerVars
        PROVE  row'[j].status = "COMPLETED"
    <3>1. PICK k \in Job, st \in {"PROCESSING", "QUEUED", "COMPLETED", "FAILED"} :
            CommittedTo(k, st)
      BY <2>2, CommitMoves
    <3> QED BY <3>1 DEF CommittedTo
  <2>3. ASSUME NEW d \in Doc, DeleteDocument(d)
        PROVE  row'[j].status = "COMPLETED" \/ doc'[docOf[j]] = "gone"
    BY <2>3 DEF DeleteDocument, QueueInv, TypeOK
  <2> QED BY <2>1, <2>2, <2>3, LedgerWriters
<1> QED BY <1>1, Invariance, PTL DEF Spec, CompletedIsFinal

-----------------------------------------------------------------------------
(***************************************************************************)
(* Refinement: every step of the fleet is a step of one job in the         *)
(* contract of JobContract, or none.                                       *)
(***************************************************************************)
outcomes == [j \in Job |-> OutcomeOf(j)]

\* Steps that leave the contract's view alone.
LEMMA StutterStep ==
    ASSUME UNCHANGED <<sent, docOf, acked, dead, row, doc>>
    PROVE  UNCHANGED <<1 .. sent, outcomes, acked>>
BY DEF outcomes, OutcomeOf, Job

\* The contract's view of a step in which one job's outcome changes.
LEMMA RecordStep ==
    ASSUME UNCHANGED <<sent, docOf, acked>>, NEW j \in Job, NEW o,
           OutcomeOf(j)' = o,
           \A k \in Job \ {j} : OutcomeOf(k)' = OutcomeOf(k)
    PROVE  /\ outcomes' = [outcomes EXCEPT ![j] = o]
           /\ UNCHANGED <<1 .. sent, acked>>
BY DEF outcomes, Job

LEMMA PublishStep ==
    ASSUME QueueInv, NEW x \in Doc \cup {Malformed}, Enqueue(x),
           x \in Doc => doc[x] # "gone",
           UNCHANGED <<ledgerVars, loopVars, task>>
    PROVE  JC!ContractNext
<1> USE DEF QueueInv
<1>0. PICK j : j = sent + 1
  OBVIOUS
<1>1. /\ sent \in Nat /\ j \in Job /\ cursor <= sent /\ sent' = sent + 1
      /\ cursor \in Nat
      /\ UNCHANGED <<acked, dead, row, doc>>
  BY <1>0, QueueAssumption DEF TypeOK, Enqueue, Job, ledgerVars
<1>2. docOf'[j] = x /\ \A k \in Job \ {j} : docOf'[k] = docOf[k]
  BY <1>0, <1>1 DEF Enqueue, TypeOK
<1>3. ~(j <= cursor) /\ docOf[j] = Malformed
  BY <1>0, <1>1 DEF OneMessagePerDocument
<1>4. j \notin dead /\ row[j] = NoRow
  BY <1>1, <1>3 DEF DoneIsDelivered, LedgerOK
<1>5. OutcomeOf(j) = "none"
  BY <1>3, <1>4 DEF OutcomeOf
<1>6. OutcomeOf(j)' = "none"
  BY <1>1, <1>2, <1>4 DEF OutcomeOf, OutcomeOfStatus, NoRow
<1>7. outcomes' = outcomes
  BY <1>1, <1>2, <1>5, <1>6 DEF outcomes, OutcomeOf, Job
<1>8. (1 .. sent)' = (1 .. sent) \cup {j} /\ j \notin 1 .. sent
  BY <1>0, <1>1
<1> QED BY <1>1, <1>7, <1>8 DEF JC!ContractNext, JC!Submit, outcomes

LEMMA DeleteStep ==
    ASSUME QueueInv, NEW d \in Doc, DeleteDocument(d)
    PROVE  JC!ContractNext \/ UNCHANGED <<1 .. sent, outcomes, acked>>
<1> USE DEF QueueInv
<1>1. /\ UNCHANGED <<sent, docOf, acked, dead>>
      /\ doc'[d] = "gone" /\ \A e \in Doc \ {d} : doc'[e] = doc[e]
      /\ \A k \in Job : docOf[k] # d => row'[k] = row[k]
  BY DEF DeleteDocument, redisVars, TypeOK
<1>2. \A k \in Job : docOf[k] # d => OutcomeOf(k)' = OutcomeOf(k)
  BY <1>1 DEF OutcomeOf, TypeOK
<1>3. CASE \E j \in Job : docOf[j] = d
  <2>1. PICK j \in Job : docOf[j] = d
    BY <1>3
  <2>2. d # Malformed /\ \A k \in Job \ {j} : docOf[k] # d
    BY <2>1, QueueAssumption DEF OneMessagePerDocument
  <2>3. OutcomeOf(j)' = "void"
    BY <1>1, <2>1, <2>2 DEF OutcomeOf
  <2>4. j \in 1 .. sent
    BY <2>1, <2>2 DEF OneMessagePerDocument, TypeOK, Job
  <2>5. /\ outcomes' = [outcomes EXCEPT ![j] = "void"]
        /\ UNCHANGED <<1 .. sent, acked>>
    BY <1>1, <1>2, <2>2, <2>3, RecordStep
  <2> QED BY <2>4, <2>5 DEF JC!ContractNext, JC!Void, outcomes
<1>4. CASE ~\E j \in Job : docOf[j] = d
  BY <1>1, <1>2, <1>4 DEF outcomes, Job
<1> QED BY <1>3, <1>4

LEMMA CommitStep ==
    ASSUME QueueInv, NEW s \in Slot, Commit(s)
    PROVE  JC!ContractNext \/ UNCHANGED <<1 .. sent, outcomes, acked>>
<1> USE DEF QueueInv
<1>1. UNCHANGED <<sent, docOf, acked, dead>>
  BY DEF Commit, redisVars
<1>2. CASE UNCHANGED ledgerVars
  BY <1>1, <1>2, StutterStep DEF ledgerVars
<1>3. CASE ~UNCHANGED ledgerVars
  <2>1. PICK j \in Job, st \in {"PROCESSING", "QUEUED", "COMPLETED", "FAILED"} :
          CommittedTo(j, st)
    BY <1>3, CommitMoves
  <2>2. docOf[j] # Malformed /\ j \in 1 .. sent \ acked
    BY <2>1, QueueAssumption DEF CommittedTo
  <2>3. \A k \in Job \ {j} : docOf[k] # docOf[j] /\ row'[k] = row[k]
    BY <2>1, <2>2 DEF OneMessagePerDocument, CommittedTo
  <2>4. \A k \in Job \ {j} : OutcomeOf(k)' = OutcomeOf(k)
    BY <1>1, <2>1, <2>3 DEF OutcomeOf, CommittedTo, TypeOK
  <2>5. /\ OutcomeOf(j)' = OutcomeOfStatus[st]
        /\ OutcomeOf(j) = OutcomeOfStatus[row[j].status]
    BY <1>1, <2>1, <2>2 DEF OutcomeOf, CommittedTo
  <2>6. /\ outcomes' = [outcomes EXCEPT ![j] = OutcomeOfStatus[st]]
        /\ UNCHANGED <<1 .. sent, acked>>
    BY <1>1, <2>4, <2>5, RecordStep
  <2>7. outcomes[j] = OutcomeOfStatus[row[j].status] /\ row[j].status \in JobStatus
    BY <2>5 DEF outcomes, TypeOK, JobRow
  <2>8. CASE st = "PROCESSING"
    <3>1. outcomes[j] \notin {"completed", "void"} /\ OutcomeOfStatus[st] = "running"
      BY <2>1, <2>7, <2>8 DEF CommittedTo, OutcomeOfStatus, JobStatus
    <3> QED BY <2>2, <2>6, <3>1 DEF JC!ContractNext, JC!Start, JC!Record, outcomes
  <2>9. CASE st # "PROCESSING"
    <3>1. outcomes[j] = "running"
      BY <2>1, <2>7, <2>9 DEF CommittedTo, OutcomeOfStatus
    <3>2. OutcomeOfStatus[st] \in {"deferred", "completed", "failed"}
      BY <2>9 DEF OutcomeOfStatus
    <3> QED BY <2>2, <2>6, <3>1, <3>2
            DEF JC!ContractNext, JC!Complete, JC!Defer, JC!Reject, JC!Record, outcomes
  <2> QED BY <2>8, <2>9
<1> QED BY <1>2, <1>3

LEMMA DeadLetterStep ==
    ASSUME QueueInv, NEW s \in Slot, DeadLetter(s)
    PROVE  JC!ContractNext \/ UNCHANGED <<1 .. sent, outcomes, acked>>
<1> USE DEF QueueInv
<1>0. PICK j : j = task[s].job
  OBVIOUS
<1>1. j \in Job /\ Held(j)
  BY <1>0 DEF DeadLetter, Busy, Held, TypeOK
<1>2. j \in 1 .. sent \ acked
  BY <1>1 DEF HeldIsPending, Pending, TypeOK, Job
<1>3. /\ UNCHANGED <<sent, docOf, acked, row, doc>>
      /\ dead' = dead \/ dead' = dead \cup {j}
  BY <1>0 DEF DeadLetter, ledgerVars
<1>4. CASE dead' = dead
  BY <1>3, <1>4, StutterStep
<1>5. CASE dead' = dead \cup {j} /\ j \notin dead
  <2>1. \A k \in Job \ {j} : OutcomeOf(k)' = OutcomeOf(k)
    BY <1>3, <1>5 DEF OutcomeOf
  <2>2. CASE docOf[j] # Malformed
    <3>1. \A k \in Job : OutcomeOf(k)' = OutcomeOf(k)
      BY <1>3, <2>1, <2>2 DEF OutcomeOf
    <3> QED BY <1>3, <3>1 DEF outcomes, Job
  <2>3. CASE docOf[j] = Malformed
    <3>1. OutcomeOf(j) = "none" /\ OutcomeOf(j)' = "failed"
      BY <1>3, <1>5, <2>3 DEF OutcomeOf
    <3>2. /\ outcomes' = [outcomes EXCEPT ![j] = "failed"]
          /\ UNCHANGED <<1 .. sent, acked>>
      BY <1>1, <1>3, <2>1, <3>1, RecordStep
    <3>3. outcomes[j] = "none"
      BY <1>1, <3>1 DEF outcomes
    <3> QED BY <1>1, <1>2, <3>2, <3>3 DEF JC!ContractNext, JC!Reject, JC!Record, outcomes
  <2> QED BY <2>2, <2>3
<1> QED BY <1>3, <1>4, <1>5

LEMMA AckStep ==
    ASSUME QueueInv, NEW s \in Slot, Ack(s)
    PROVE  JC!ContractNext \/ UNCHANGED <<1 .. sent, outcomes, acked>>
<1> DEFINE j == task[s].job
<1> USE DEF QueueInv
<1>1. j \in Job /\ Held(j) /\ Settled(j)
  BY DEF Ack, Busy, Held, TypeOK, TasksOK, TaskOK
<1>2. j \in 1 .. sent
  BY <1>1 DEF HeldIsPending, Pending, TypeOK, Job
<1>3. /\ UNCHANGED <<sent, docOf, dead, row, doc>>
      /\ acked' = acked \/ acked' = acked \cup {j}
  BY DEF Ack, ledgerVars
<1>4. UNCHANGED <<1 .. sent, outcomes>>
  BY <1>3 DEF outcomes, OutcomeOf, Job
<1>5. outcomes[j] \in {"completed", "failed", "void"}
  BY <1>1 DEF outcomes, OutcomeOf, OutcomeOfStatus, Settled
<1> QED BY <1>1, <1>2, <1>3, <1>4, <1>5
        DEF JC!ContractNext, JC!Retire, JC!Final, outcomes

\* The steps that the contract does not see.
LEMMA HiddenStep ==
    ASSUME Next
    PROVE  \/ UNCHANGED <<sent, docOf, acked, dead, row, doc>>
           \/ \E d \in Doc : Publish(d) \/ DeleteDocument(d)
           \/ PublishMalformed
           \/ \E s \in Slot : Commit(s) \/ DeadLetter(s) \/ Ack(s)
<1>1. ASSUME NEW w \in Worker, Loop(w)
      PROVE  UNCHANGED <<sent, docOf, acked, dead, row, doc>>
  <2>1. CASE \E S \in SUBSET Job : Reclaim(w, S) \/ ReclaimReplyLost(w, S)
    BY <2>1 DEF Reclaim, ReclaimReplyLost, Claimed, ledgerVars
  <2>2. CASE \E n \in 1 .. (sent - cursor) : Read(w, n) \/ ReadReplyLost(w, n)
    BY <2>2 DEF Read, ReadReplyLost, Fetched, ledgerVars
  <2>3. CASE \E s \in SlotsOf(w) : Dispatch(w, s)
    BY <2>3 DEF Dispatch, redisVars, ledgerVars
  <2>4. CASE SkipReclaim(w) \/ PollNothing(w) \/ DropReclaimed(w)
    BY <2>4 DEF SkipReclaim, PollNothing, DropReclaimed, redisVars, ledgerVars
  <2> QED BY <1>1, <2>1, <2>2, <2>3, <2>4 DEF Loop
<1>2. ASSUME NEW s \in Slot,
             \/ CountDeliveries(s) \/ LoadJob(s) \/ LoadDocument(s)
             \/ FinishPipeline(s) \/ CancelTask(s) \/ LedgerError(s)
      PROVE  UNCHANGED <<sent, docOf, acked, dead, row, doc>>
  BY <1>2 DEF CountDeliveries, LoadJob, LoadDocument, FinishPipeline, CancelTask,
              LedgerError, redisVars, ledgerVars
<1>3. ASSUME NEW w \in Worker, Stop(w) \/ Restart(w) \/ Crash(w)
      PROVE  UNCHANGED <<sent, docOf, acked, dead, row, doc>>
  BY <1>3 DEF Stop, Restart, Crash, redisVars, ledgerVars
<1> QED BY <1>1, <1>2, <1>3 DEF Next, Produce, RunTask, Lifecycle

(***************************************************************************)
(* The fleet, of any size, implements the contract of a job.               *)
(***************************************************************************)
THEOREM Refinement ==
    ASSUME ThresholdHolds, RejectionsAreKept
    PROVE  Spec => ImplementsContract
<1>1. Init => JC!ContractInit
  BY DEF Init, JC!ContractInit, OutcomeOf, Job
<1>2. QueueInv /\ [Next]_vars => [JC!ContractNext]_(JC!contractVars)
  <2> SUFFICES ASSUME QueueInv, [Next]_vars
               PROVE  JC!ContractNext \/ UNCHANGED <<1 .. sent, outcomes, acked>>
    BY DEF JC!contractVars, outcomes
  <2>1. CASE UNCHANGED <<sent, docOf, acked, dead, row, doc>>
    BY <2>1, StutterStep
  <2>2. CASE \E d \in Doc : Publish(d)
    BY <2>2, PublishStep DEF Publish
  <2>3. CASE PublishMalformed
    BY <2>3, PublishStep, QueueAssumption DEF PublishMalformed
  <2>4. CASE \E d \in Doc : DeleteDocument(d)
    BY <2>4, DeleteStep
  <2>5. CASE \E s \in Slot : Commit(s)
    BY <2>5, CommitStep
  <2>6. CASE \E s \in Slot : DeadLetter(s)
    BY <2>6, DeadLetterStep
  <2>7. CASE \E s \in Slot : Ack(s)
    BY <2>7, AckStep
  <2>8. CASE UNCHANGED vars
    BY <2>1, <2>8 DEF vars, redisVars, ledgerVars
  <2>9. CASE Next
    BY <2>1, <2>2, <2>3, <2>4, <2>5, <2>6, <2>7, <2>9, HiddenStep
  <2> QED BY <2>8, <2>9
<1> QED BY <1>1, <1>2, Invariance, PTL DEF Spec, ImplementsContract, JC!Contract

-----------------------------------------------------------------------------
(***************************************************************************)
(* ChargeInv, for every fleet and every disturbance: the threshold may     *)
(* pass on work that is alive, so a message may be in several hands.       *)
(***************************************************************************)
ReadingTask(t) == t.pc \in {"loadJob", "loadDoc", "commit"}
ClaimingTask(t) == t.pc = "count" \/ (ReadingTask(t) /\ t.txn = "claim")

\* The attempt of a claim is a counter, and comes from one of its sources.
LEMMA AttemptType ==
    ASSUME NEW seen \in JobRow, NEW tries \in Counter
    PROVE  /\ AttemptOf(seen, tries) \in Counter
           /\ \/ AttemptOf(seen, tries) \in {1, tries}
              \/ AttemptOf(seen, tries) <= seen.attempt + 1
BY BudgetAssumption DEF AttemptOf, Larger, Bump, Counter, JobRow

\* What a task may become: it keeps its message, ends, or goes on with its
\* claim, told of the deliveries and of the row of the message.
Continues(s, t) ==
    /\ t \in Task /\ Become(s, t) /\ Busy(s)
    /\ t.pc = "idle" \/ t.job = task[s].job
    /\ ReadingTask(t) \/ t.pc = "run" => docOf[t.job] # Malformed
    /\ ClaimingTask(t) =>
        /\ t.pc # "count" /\ Claiming(s)
        /\ \/ t.tries \in {0, 1, delivered[t.job]}
           \/ Reading(s) /\ t.tries = task[s].tries
        /\ \/ t.seen \in {NoRow, row[t.job]}
           \/ Reading(s) /\ t.seen = task[s].seen

LEMMA TasksEnd ==
    ASSUME TypeOK, NEW s \in Slot, Busy(s), Finish(s) PROVE Continues(s, Idle)
BY IdleType DEF Continues, ClaimingTask, ReadingTask, Finish

LEMMA TasksGo ==
    ASSUME TypeOK, NEW s \in Slot, Busy(s), NEW pc \in {"run", "dead", "ack"}, Goto(s, pc),
           pc = "run" => docOf[task[s].job] # Malformed
    PROVE  Continues(s, Fresh(pc, task[s].job))
<1>1. task[s].job \in Job
  BY DEF TypeOK
<1>2. pc \in PC /\ task[s].job \in 0 .. MaxJobs
  BY <1>1, QueueAssumption DEF PC, Job
<1> QED BY <1>2, FreshType DEF Continues, ClaimingTask, ReadingTask, Goto

LEMMA TasksContinue ==
    ASSUME TypeOK, WorkIsParsed, NEW s \in Slot,
           RunTask(s) \/ LedgerError(s) \/ CancelTask(s)
    PROVE  \E t : Continues(s, t)
<1> DEFINE o == task[s]
           j == o.job
<1>1. /\ Busy(s) /\ o \in Task /\ j \in Job /\ j \in 0 .. MaxJobs
      /\ row[j] \in JobRow /\ delivered[j] \in Counter
  <2>1. Busy(s)
    BY DEF RunTask, CountDeliveries, LoadJob, LoadDocument, Commit, FinishPipeline,
           DeadLetter, Ack, LedgerError, CancelTask, Busy
  <2>2. j \in Job /\ o \in Task
    BY <2>1 DEF TypeOK
  <2> QED BY <2>1, <2>2, QueueAssumption DEF TypeOK, Job
<1>2. /\ o.pc \in PC /\ o.txn \in Txn /\ o.tries \in Counter
      /\ o.seen \in JobRow /\ o.seenDoc \in DocStatus
  BY <1>1, TaskFields
<1>3. 0 \in Counter /\ 1 \in Counter /\ "gone" \in DocStatus /\ "claim" \in Txn
  BY BudgetAssumption DEF Counter, DocStatus, Txn
<1>4. CASE Finish(s)
  BY <1>1, <1>4, TasksEnd
<1>5. CASE \E pc \in {"dead", "ack"} : Goto(s, pc)
  BY <1>1, <1>5, TasksGo
<1>6. CASE CountDeliveries(s)
  <2> DEFINE next == IF docOf[j] = Malformed THEN "dead" ELSE "loadJob"
  <2>1. PICK n \in {0, 1, delivered[j]} :
            Become(s, TaskAt(next, j, "claim", n, NoRow, "gone"))
    BY <1>6 DEF CountDeliveries
  <2> DEFINE t == TaskAt(next, j, "claim", n, NoRow, "gone")
  <2>2. n \in Counter /\ next \in PC /\ next # "count" /\ next # "idle"
    BY <1>1, <1>3 DEF PC
  <2>3. o.pc = "count"
    BY <1>6 DEF CountDeliveries
  <2> HIDE DEF next, j
  <2>4. t \in Task /\ t.pc = next /\ t.job = j /\ t.tries = n /\ t.seen = NoRow
    BY <1>1, <1>3, <2>2, NoRowType, TaskAtType, TaskAtFields
  <2> HIDE DEF t
  <2>5. Continues(s, t)
    <3>1. next = "loadJob" => docOf[j] # Malformed
      BY DEF next
    <3>2. next \in {"dead", "loadJob"}
      BY DEF next
    <3> QED BY <1>1, <2>1, <2>2, <2>3, <2>4, <3>1, <3>2
            DEF Continues, Claiming, ReadingTask, t, j
  <2> QED BY <2>5
\* A transaction that is over: only a claim goes on to run the job.
<1>7. ASSUME Reading(s), Continue(s) PROVE \E t : Continues(s, t)
  <2>1. docOf[j] # Malformed
    BY <1>7 DEF WorkIsParsed
  <2>2. Finish(s) \/ \E pc \in {"run", "dead", "ack"} : Goto(s, pc)
    BY <1>2, <1>7 DEF Continue, After, Txn
  <2> QED BY <1>1, <1>4, <2>1, <2>2, TasksGo
<1>8. CASE LoadJob(s)
  <2> DEFINE t == TaskAt("loadDoc", j, o.txn, o.tries, row[j], "gone")
  <2>1. o.pc = "loadJob" /\ (Goto(s, "ack") \/ Continue(s) \/ Become(s, t))
    BY <1>8 DEF LoadJob
  <2>2. Reading(s) /\ docOf[j] # Malformed
    BY <2>1 DEF Reading, WorkIsParsed
  <2>3. CASE Become(s, t)
    <3>1. "loadDoc" \in PC
      BY DEF PC
    <3> HIDE DEF o, j
    <3>2. /\ t \in Task /\ t.pc = "loadDoc" /\ t.job = j /\ t.txn = o.txn
          /\ t.tries = o.tries /\ t.seen = row[j]
      BY <1>1, <1>2, <1>3, <3>1, TaskAtType, TaskAtFields
    <3> HIDE DEF t
    <3>3. Continues(s, t)
      BY <1>1, <2>1, <2>2, <2>3, <3>2
         DEF Continues, Claiming, Reading, ClaimingTask, ReadingTask, o, j
    <3> QED BY <3>3
  <2> QED BY <1>5, <1>7, <2>1, <2>2, <2>3
<1>9. CASE LoadDocument(s)
  <2> DEFINE t == TaskAt("commit", j, o.txn, o.tries, o.seen, doc[docOf[j]])
  <2>1. o.pc = "loadDoc" /\ Become(s, t)
    BY <1>9 DEF LoadDocument
  <2>2. Reading(s) /\ docOf[j] # Malformed
    BY <2>1 DEF Reading, WorkIsParsed
  <2>3. "commit" \in PC /\ doc[docOf[j]] \in DocStatus
    BY <1>1, <2>2 DEF PC, TypeOK
  <2> HIDE DEF o, j
  <2>4. /\ t \in Task /\ t.pc = "commit" /\ t.job = j /\ t.txn = o.txn
        /\ t.tries = o.tries /\ t.seen = o.seen
    BY <1>1, <1>2, <2>3, TaskAtType, TaskAtFields
  <2> HIDE DEF t
  <2>5. Continues(s, t)
    BY <1>1, <2>1, <2>2, <2>4
       DEF Continues, Claiming, Reading, ClaimingTask, ReadingTask, o, j
  <2> QED BY <2>5
<1>10. CASE Commit(s)
  <2> DEFINE attempt == AttemptOf(o.seen, o.tries)
             t == TaskAt("run", j, "claim", attempt, NoRow, "gone")
  <2>1. o.pc = "commit" /\ (Finish(s) \/ Become(s, t) \/ Continue(s))
    BY <1>10 DEF Commit
  <2>2. Reading(s) /\ docOf[j] # Malformed
    BY <2>1 DEF Reading, WorkIsParsed
  <2>3. CASE Become(s, t)
    <3>1. "run" \in PC /\ attempt \in Counter
      BY <1>2, AttemptType DEF PC
    <3> HIDE DEF attempt, j
    <3>2. t \in Task /\ t.pc = "run" /\ t.job = j
      BY <1>1, <1>3, <3>1, NoRowType, TaskAtType, TaskAtFields
    <3> HIDE DEF t
    <3>3. Continues(s, t)
      BY <1>1, <2>2, <2>3, <3>2 DEF Continues, ClaimingTask, ReadingTask, j
    <3> QED BY <3>3
  <2> QED BY <1>4, <1>7, <2>1, <2>2, <2>3
<1>11. CASE FinishPipeline(s)
  <2>1. PICK txn \in {"complete", "fail", "requeue"} : Begin(s, txn)
    BY <1>11 DEF FinishPipeline
  <2> DEFINE t == TaskAt("loadJob", j, txn, 0, NoRow, "gone")
  <2>2. docOf[j] # Malformed
    BY <1>11 DEF FinishPipeline, WorkIsParsed
  <2>3. "loadJob" \in PC /\ txn \in Txn /\ Become(s, t)
    BY <2>1 DEF PC, Txn, Begin
  <2> HIDE DEF j
  <2>4. t \in Task /\ t.pc = "loadJob" /\ t.job = j /\ t.txn = txn
    BY <1>1, <1>3, <2>3, NoRowType, TaskAtType, TaskAtFields
  <2> HIDE DEF t
  <2>5. Continues(s, t)
    BY <1>1, <2>2, <2>3, <2>4 DEF Continues, ClaimingTask, ReadingTask, j
  <2> QED BY <2>5
<1>12. CASE DeadLetter(s)
  BY <1>5, <1>12 DEF DeadLetter
<1>13. CASE Ack(s) \/ LedgerError(s) \/ CancelTask(s)
  BY <1>4, <1>13 DEF Ack, LedgerError, CancelTask, Finish, Become
<1> QED BY <1>6, <1>8, <1>9, <1>10, <1>11, <1>12, <1>13 DEF RunTask

\* The other tasks stay as they are.
LEMMA OthersStay ==
    ASSUME TypeOK, NEW s \in Slot, NEW t, Continues(s, t)
    PROVE  /\ task' \in [Slot -> Task] /\ task'[s] = t
           /\ \A u \in Slot \ {s} : task'[u] = task[u]
           /\ \A u \in Slot : Busy(u)' => Busy(u) /\ task'[u].job = task[u].job
BY DEF Continues, Become, TypeOK, Busy

\* What one step of a task writes: at most its own row and its document.
LEMMA TaskWrites ==
    ASSUME TypeOK, WorkIsParsed, NEW s \in Slot,
           RunTask(s) \/ LedgerError(s) \/ CancelTask(s)
    PROVE  /\ UNCHANGED <<sent, docOf, cursor, delivered, loopVars>>
           /\ acked' \in SUBSET Job /\ dead' \in SUBSET Job
           /\ row' \in [Job -> JobRow] /\ doc' \in [Doc -> DocStatus]
           /\ disturbed' \in 0 .. MaxDisturbances
           /\ \/ UNCHANGED ledgerVars
              \/ /\ Commit(s)
                 /\ row' = [row EXCEPT ![task[s].job] =
                       RowAfter(task[s].txn, task[s].seen, row[task[s].job],
                                AttemptOf(task[s].seen, task[s].tries))]
<1> DEFINE o == task[s]
           j == o.job
           d == docOf[j]
           attempt == AttemptOf(o.seen, o.tries)
<1>1. ASSUME NEW k \in Slot, Busy(k) PROVE task[k].job \in Job /\ task[k] \in Task
  BY <1>1 DEF TypeOK
<1>2. CASE CountDeliveries(s) \/ LoadJob(s) \/ LoadDocument(s) \/ FinishPipeline(s)
           \/ LedgerError(s) \/ CancelTask(s)
  BY <1>2, DisturbedType
     DEF CountDeliveries, LoadJob, LoadDocument, FinishPipeline, LedgerError, CancelTask,
         redisVars, ledgerVars, TypeOK
<1>3. CASE DeadLetter(s) \/ Ack(s)
  <2>1. Busy(s) /\ j \in Job
    BY <1>1, <1>3 DEF DeadLetter, Ack, Busy
  <2> QED BY <1>3, <2>1, DisturbedType DEF DeadLetter, Ack, ledgerVars, TypeOK
<1>4. CASE Commit(s)
  <2>1. /\ o.pc = "commit" /\ UNCHANGED <<redisVars, loopVars>>
        /\ disturbed' \in 0 .. MaxDisturbances
    BY <1>4, DisturbedType DEF Commit
  <2>2. j \in Job /\ o \in Task
    BY <1>1, <2>1 DEF Busy
  <2>3. d \in Doc
    BY <2>1, <2>2 DEF WorkIsParsed, Reading, TypeOK
  <2>4. /\ o.txn \in Txn /\ o.seen \in JobRow /\ attempt \in Counter
        /\ o.seenDoc \in DocStatus /\ row[j] \in JobRow /\ doc[d] \in DocStatus
    BY <2>2, <2>3, TaskFields, AttemptType DEF TypeOK
  <2>5. RowAfter(o.txn, o.seen, row[j], attempt) \in JobRow
    <3>1. JobStatusOf[o.txn] \in JobStatus
      BY <2>4 DEF JobStatusOf, Txn, JobStatus
    <3> HIDE DEF attempt, j, o
    <3> QED BY <2>4, <3>1 DEF RowAfter, Written, JobRow
  <2>6. DocAfter(o.txn, o.seenDoc, doc[d]) \in DocStatus
    <3>1. DocStatusOf[JobStatusOf[o.txn]] \in DocStatus
      BY <2>4 DEF JobStatusOf, DocStatusOf, Txn, DocStatus
    <3> HIDE DEF d, o
    <3> QED BY <2>4, <3>1 DEF DocAfter, Written
  <2>7. CASE UNCHANGED ledgerVars
    BY <2>1, <2>7 DEF redisVars, ledgerVars, TypeOK
  <2>8. CASE /\ row' = [row EXCEPT ![j] = RowAfter(o.txn, o.seen, row[j], attempt)]
             /\ doc' = [doc EXCEPT ![d] = DocAfter(o.txn, o.seenDoc, doc[d])]
    <3>1. row' \in [Job -> JobRow] /\ doc' \in [Doc -> DocStatus]
      BY <2>5, <2>6, <2>8 DEF TypeOK
    <3> QED BY <1>4, <2>1, <2>8, <3>1 DEF redisVars, TypeOK
  <2> QED BY <1>4, <2>7, <2>8 DEF Commit
<1> QED BY <1>2, <1>3, <1>4 DEF RunTask

\* What the steps of the loop do to the hands of the fleet and the counters.
LEMMA LoopType ==
    ASSUME TypeOK, NEW w \in Worker, Loop(w)
    PROVE  TypeOK'
<1> USE DEF redisVars, ledgerVars, Job
<1>1. CASE \E S \in SUBSET Job : Reclaim(w, S) \/ ReclaimReplyLost(w, S)
  <2>1. PICK S \in SUBSET Job : Reclaim(w, S) \/ ReclaimReplyLost(w, S)
    BY <1>1
  <2>2. \A j \in Job : delivered[j] \in Counter /\ Bump(delivered[j]) \in Counter
    BY BumpType DEF TypeOK
  <2>3. delivered' \in [Job -> Counter]
    BY <2>1, <2>2 DEF Reclaim, ReclaimReplyLost, Claimed
  <2>4. batch' \in [Worker -> SUBSET Job] /\ phase' \in [Worker -> Phase]
    BY <2>1 DEF Reclaim, ReclaimReplyLost, TypeOK, Phase
  <2>5. disturbed' \in 0 .. MaxDisturbances
    BY <2>1, DisturbedType DEF Reclaim, ReclaimReplyLost
  <2> QED BY <2>1, <2>3, <2>4, <2>5 DEF Reclaim, ReclaimReplyLost, Claimed, TypeOK, Busy
<1>2. CASE \E n \in 1 .. (sent - cursor) : Read(w, n) \/ ReadReplyLost(w, n)
  <2>1. PICK n \in 1 .. (sent - cursor) : Read(w, n) \/ ReadReplyLost(w, n)
    BY <1>2
  <2>2. cursor' = cursor + n /\ cursor' \in 0 .. sent /\ cursor + 1 .. cursor + n \subseteq Job
    BY <2>1, QueueAssumption DEF Read, ReadReplyLost, Fetched, TypeOK
  <2>3. 1 \in Counter
    BY BudgetAssumption DEF Counter
  <2>4. delivered' \in [Job -> Counter]
    BY <2>1, <2>3 DEF Read, ReadReplyLost, Fetched, TypeOK
  <2>5. batch' \in [Worker -> SUBSET Job] /\ phase' \in [Worker -> Phase]
    BY <2>1, <2>2 DEF Read, ReadReplyLost, TypeOK, Phase
  <2>6. disturbed' \in 0 .. MaxDisturbances
    BY <2>1, DisturbedType DEF Read, ReadReplyLost
  <2> QED BY <2>1, <2>2, <2>4, <2>5, <2>6 DEF Read, ReadReplyLost, Fetched, TypeOK, Busy
<1>3. CASE \E s \in SlotsOf(w) : Dispatch(w, s)
  <2>1. PICK s \in Slot, j \in batch[w] :
            /\ task' = [task EXCEPT ![s] = Fresh("count", j)]
            /\ \/ batch' = [batch EXCEPT ![w] = {}]
               \/ batch' = [batch EXCEPT ![w] = batch[w] \ {j}]
            /\ phase' = phase \/ \E next \in {"poll", "top"} :
                                  phase' = [phase EXCEPT ![w] = next]
    BY <1>3, Zenon DEF Dispatch, SlotsOf
  <2>2. j \in Job /\ j \in 0 .. MaxJobs /\ "count" \in PC
    BY QueueAssumption DEF TypeOK, PC
  <2>3. Fresh("count", j) \in Task /\ Fresh("count", j).job = j
    BY <2>2, FreshType
  <2>4. task' \in [Slot -> Task] /\ \A u \in Slot : Busy(u)' => task'[u].job \in Job
    BY <2>1, <2>2, <2>3 DEF TypeOK, Busy
  <2>5. batch' \in [Worker -> SUBSET Job] /\ phase' \in [Worker -> Phase]
    BY <2>1 DEF TypeOK, Phase
  <2>6. /\ UNCHANGED <<redisVars, ledgerVars, stopping>> /\ disturbed' = disturbed
    BY <1>3 DEF Dispatch, Calm
  <2> QED BY <2>4, <2>5, <2>6 DEF TypeOK
<1>4. CASE SkipReclaim(w) \/ PollNothing(w) \/ DropReclaimed(w)
  <2>1. batch' \in [Worker -> SUBSET Job] /\ phase' \in [Worker -> Phase]
    BY <1>4 DEF SkipReclaim, PollNothing, DropReclaimed, TypeOK, Phase
  <2> QED BY <1>4, <2>1 DEF SkipReclaim, PollNothing, DropReclaimed, Calm, TypeOK, Busy
<1> QED BY <1>1, <1>2, <1>3, <1>4 DEF Loop

LEMMA TaskType ==
    ASSUME TypeOK, WorkIsParsed, NEW s \in Slot,
           RunTask(s) \/ LedgerError(s) \/ CancelTask(s)
    PROVE  TypeOK'
<1>1. PICK t : Continues(s, t)
  BY TasksContinue
<1>2. task' \in [Slot -> Task] /\ \A u \in Slot : Busy(u)' => task'[u].job \in Job
  BY <1>1, OthersStay DEF TypeOK
<1> QED BY <1>2, TaskWrites DEF TypeOK, loopVars, Job

LEMMA OtherTypes ==
    ASSUME TypeOK,
           \/ Produce \/ \E d \in Doc : DeleteDocument(d)
           \/ \E w \in Worker : Stop(w) \/ Restart(w) \/ Crash(w)
    PROVE  TypeOK'
<1> USE DEF redisVars, ledgerVars, loopVars, Job
<1>1. CASE Produce
  <2>1. PICK x \in Doc \cup {Malformed} : Enqueue(x)
    BY <1>1 DEF Produce, Publish, PublishMalformed
  <2>2. sent' \in 0 .. MaxJobs /\ cursor' \in 0 .. sent' /\ docOf' \in [Job -> Doc \cup {Malformed}]
    BY <2>1, QueueAssumption DEF Enqueue, TypeOK
  <2>3. disturbed' \in 0 .. MaxDisturbances
    BY <1>1, DisturbedType DEF Produce, Publish, PublishMalformed
  <2>4. UNCHANGED <<delivered, acked, dead, ledgerVars, loopVars, task>>
    BY <1>1 DEF Produce, Publish, PublishMalformed, Enqueue
  <2> QED BY <2>2, <2>3, <2>4 DEF TypeOK, Busy
<1>2. ASSUME NEW d \in Doc, DeleteDocument(d) PROVE TypeOK'
  <2>1. row' \in [Job -> JobRow] /\ doc' \in [Doc -> DocStatus]
    BY <1>2, NoRowType DEF DeleteDocument, TypeOK, DocStatus
  <2> QED BY <1>2, <2>1, DisturbedType DEF DeleteDocument, TypeOK, Busy
<1>3. ASSUME NEW w \in Worker, Stop(w) \/ Restart(w) \/ Crash(w) PROVE TypeOK'
  <2>1. /\ phase' \in [Worker -> Phase] /\ stopping' \in [Worker -> BOOLEAN]
        /\ batch' \in [Worker -> SUBSET Job]
    BY <1>3 DEF Stop, Restart, Crash, TypeOK, Phase
  <2>2. task' \in [Slot -> Task] /\ \A u \in Slot : Busy(u)' => Busy(u) /\ task'[u] = task[u]
    BY <1>3, IdleType DEF Stop, Restart, Crash, TypeOK, Busy
  <2>3. disturbed' \in 0 .. MaxDisturbances
    BY <1>3, DisturbedType DEF Stop, Restart, Crash
  <2> QED BY <1>3, <2>1, <2>2, <2>3 DEF Stop, Restart, Crash, TypeOK
<1> QED BY <1>1, <1>2, <1>3

LEMMA TypeNext == ASSUME TypeOK, WorkIsParsed, [Next]_vars PROVE TypeOK'
<1>1. CASE UNCHANGED vars
  BY <1>1 DEF vars, redisVars, ledgerVars, loopVars, TypeOK, Busy
<1>2. CASE Next
  BY <1>2, LoopType, TaskType, OtherTypes DEF Next, Lifecycle
<1> QED BY <1>1, <1>2

-----------------------------------------------------------------------------
(***************************************************************************)
(* Counting the claims that are to come.                                   *)
(***************************************************************************)
LEMMA HandsAreFinite ==
    ASSUME NEW j
    PROVE  /\ IsFiniteSet(Batches(j)) /\ Cardinality(Batches(j)) \in Nat
           /\ IsFiniteSet(Claimers(j)) /\ Cardinality(Claimers(j)) \in Nat
           /\ IsFiniteSet(Batches(j)') /\ Cardinality(Batches(j)') \in Nat
           /\ IsFiniteSet(Claimers(j)') /\ Cardinality(Claimers(j)') \in Nat
<1>1. /\ Batches(j) \in SUBSET Worker /\ Claimers(j) \in SUBSET Slot
      /\ Batches(j)' \in SUBSET Worker /\ Claimers(j)' \in SUBSET Slot
  BY DEF Batches, Claimers
<1>2. /\ IsFiniteSet(Batches(j)) /\ IsFiniteSet(Claimers(j))
      /\ IsFiniteSet(Batches(j)') /\ IsFiniteSet(Claimers(j)')
  BY <1>1, FS_Subset, FleetAssumption
<1> QED BY <1>2, FS_CardinalityType

LEMMA OneMoreHand ==
    ASSUME NEW S, NEW x, IsFiniteSet(S)
    PROVE  /\ IsFiniteSet(S \cup {x}) /\ Cardinality(S \cup {x}) \in Nat
           /\ Cardinality(S \cup {x}) <= Cardinality(S) + 1
<1>1. Cardinality(S) \in Nat
  BY FS_CardinalityType
<1>2. IsFiniteSet(S \cup {x})
  BY FS_AddElement
<1>3. Cardinality(S \cup {x}) = Cardinality(S) \/ Cardinality(S \cup {x}) = Cardinality(S) + 1
  BY FS_AddElement, Zenon
<1> QED BY <1>1, <1>2, <1>3

\* Hands that let go, one by one.
LEMMA NoMoreClaims ==
    ASSUME NEW j, Batches(j)' \subseteq Batches(j), Claimers(j)' \subseteq Claimers(j)
    PROVE  ToClaim(j) \in Nat /\ ToClaim(j)' \in Nat /\ ToClaim(j)' <= ToClaim(j)
<1>1. /\ Cardinality(Batches(j)') <= Cardinality(Batches(j))
      /\ Cardinality(Claimers(j)') <= Cardinality(Claimers(j))
  BY HandsAreFinite, FS_Subset
<1> QED BY <1>1, HandsAreFinite DEF ToClaim

LEMMA OneClaimLess ==
    ASSUME NEW j, Batches(j)' \subseteq Batches(j), NEW s \in Claimers(j),
           Claimers(j)' \subseteq Claimers(j) \ {s}
    PROVE  ToClaim(j) \in Nat /\ ToClaim(j)' \in Nat /\ ToClaim(j)' < ToClaim(j)
<1>1. /\ IsFiniteSet(Claimers(j) \ {s})
      /\ Cardinality(Claimers(j) \ {s}) = Cardinality(Claimers(j)) - 1
  BY HandsAreFinite, FS_RemoveElement
<1>2. /\ Cardinality(Batches(j)') <= Cardinality(Batches(j))
      /\ Cardinality(Claimers(j)') <= Cardinality(Claimers(j) \ {s})
  BY <1>1, HandsAreFinite, FS_Subset
<1> QED BY <1>1, <1>2, HandsAreFinite DEF ToClaim

LEMMA OneClaimMore ==
    ASSUME NEW j, NEW w, Batches(j)' \subseteq Batches(j) \cup {w},
           Claimers(j)' \subseteq Claimers(j)
    PROVE  ToClaim(j) \in Nat /\ ToClaim(j)' \in Nat /\ ToClaim(j)' <= ToClaim(j) + 1
<1>1. /\ IsFiniteSet(Batches(j) \cup {w})
      /\ Cardinality(Batches(j) \cup {w}) <= Cardinality(Batches(j)) + 1
  BY HandsAreFinite, OneMoreHand
<1>2. /\ Cardinality(Batches(j)') <= Cardinality(Batches(j) \cup {w})
      /\ Cardinality(Claimers(j)') <= Cardinality(Claimers(j))
  BY <1>1, HandsAreFinite, FS_Subset
<1>3. Cardinality(Batches(j) \cup {w}) \in Nat
  BY <1>1, FS_CardinalityType
<1> QED BY <1>1, <1>2, <1>3, HandsAreFinite DEF ToClaim

\* A message goes from a batch to a task.
LEMMA ClaimIsPassedOn ==
    ASSUME NEW j, NEW w \in Batches(j), NEW s, Batches(j)' \subseteq Batches(j) \ {w},
           Claimers(j)' \subseteq Claimers(j) \cup {s}
    PROVE  ToClaim(j) \in Nat /\ ToClaim(j)' \in Nat /\ ToClaim(j)' <= ToClaim(j)
<1>1. /\ IsFiniteSet(Batches(j) \ {w})
      /\ Cardinality(Batches(j) \ {w}) = Cardinality(Batches(j)) - 1
  BY HandsAreFinite, FS_RemoveElement
<1>2. /\ IsFiniteSet(Claimers(j) \cup {s})
      /\ Cardinality(Claimers(j) \cup {s}) <= Cardinality(Claimers(j)) + 1
  BY HandsAreFinite, OneMoreHand
<1>3. /\ Cardinality(Batches(j)') <= Cardinality(Batches(j) \ {w})
      /\ Cardinality(Claimers(j)') <= Cardinality(Claimers(j) \cup {s})
  BY <1>1, <1>2, HandsAreFinite, FS_Subset
<1>4. Cardinality(Claimers(j) \cup {s}) \in Nat
  BY <1>2, FS_CardinalityType
<1> QED BY <1>1, <1>2, <1>3, <1>4, HandsAreFinite DEF ToClaim

(***************************************************************************)
(* A step that delivers nothing: claims only become fewer, and whatever is *)
(* charged, or seen by a claim, stays within what the deliveries pay.      *)
(***************************************************************************)
LEMMA NothingDelivered ==
    ASSUME ChargeInv, TypeOK', HandsAreDelivered', WorkIsParsed',
           cursor' = cursor, delivered' = delivered,
           \A j \in Job :
               /\ ToClaim(j) \in Nat /\ ToClaim(j)' \in Nat /\ ToClaim(j)' <= ToClaim(j)
               /\ \/ row'[j].attempt \in {0, row[j].attempt}
                  \/ WithinBudget(j, row[j].attempt)',
           \A s \in Slot, j \in Job :
               Claiming(s)' /\ Reading(s)' /\ task'[s].job = j =>
                   /\ task'[s].tries <= delivered[j]
                   /\ \/ task'[s].seen.attempt \in {0, row[j].attempt}
                      \/ WithinBudget(j, task'[s].seen.attempt)
    PROVE  ChargeInv'
<1>1. ASSUME NEW j \in Job, j <= cursor
      PROVE  /\ delivered[j] \in Nat /\ delivered[j] >= 1
             /\ delivered[j] < AttemptCeiling => ToClaim(j)' <= delivered[j]
             /\ WithinBudget(j, row[j].attempt) /\ WithinBudget(j, 0)
             /\ row[j].attempt \in Nat
  BY <1>1, BudgetAssumption
     DEF ChargeInv, DeliveriesPay, WithinBudget, TypeOK, Counter, JobRow
<1>2. ASSUME NEW j \in Job, NEW n \in Nat, j <= cursor, WithinBudget(j, n)
      PROVE  delivered'[j] < AttemptCeiling => n + ToClaim(j)' < 2 * delivered'[j]
  BY <1>1, <1>2, BudgetAssumption DEF WithinBudget
<1>3. DeliveriesPay'
  <2> SUFFICES ASSUME NEW j \in Job, j <= cursor
               PROVE  /\ delivered'[j] >= 1
                      /\ delivered'[j] < AttemptCeiling => ToClaim(j)' <= delivered'[j]
                      /\ WithinBudget(j, row[j].attempt)'
    BY DEF DeliveriesPay, Job
  <2>1. CASE row'[j].attempt \in {0, row[j].attempt}
    BY <1>1, <1>2, <2>1 DEF WithinBudget
  <2>2. CASE WithinBudget(j, row[j].attempt)'
    BY <1>1, <2>2
  <2> QED BY <2>1, <2>2
<1>4. ASSUME NEW s \in Slot, Claiming(s)', Reading(s)'
      PROVE  /\ task'[s].tries <= delivered'[task'[s].job]
             /\ WithinBudget(task[s].job, task[s].seen.attempt)'
  <2>1. PICK j \in Job : j = task'[s].job /\ j <= cursor
    BY <1>4 DEF TypeOK, HandsAreDelivered, Reading, Busy, Job
  <2>2. task'[s].seen.attempt \in Nat
    BY TaskFields DEF TypeOK, JobRow, Counter
  <2>3. WithinBudget(j, task'[s].seen.attempt)
    BY <1>1, <1>4, <2>1
  <2> QED BY <1>2, <1>4, <2>1, <2>2, <2>3 DEF WithinBudget
<1> QED BY <1>3, <1>4 DEF ChargeInv, ToldOfDeliveries, StaleClaimsPay

\* A step of a task: a claim is charged as it leaves the claims to come.
LEMMA TaskCharges ==
    ASSUME ChargeInv, NEW s \in Slot, RunTask(s) \/ LedgerError(s) \/ CancelTask(s)
    PROVE  ChargeInv'
<1>0. TypeOK /\ HandsAreDelivered /\ WorkIsParsed
  BY DEF ChargeInv
<1>1. PICK t : Continues(s, t)
  BY <1>0, TasksContinue
<1>2. /\ task'[s] = t /\ \A u \in Slot \ {s} : task'[u] = task[u]
      /\ \A u \in Slot : Busy(u)' => Busy(u) /\ task'[u].job = task[u].job
  BY <1>0, <1>1, OthersStay
<1>3. UNCHANGED <<sent, docOf, cursor, delivered, batch>>
  BY <1>0, TaskWrites DEF loopVars
<1>4. TypeOK'
  BY <1>0, TaskType
<1> DEFINE o == task[s]
<1>5. /\ Busy(s) /\ o.job \in Job /\ o.job <= cursor /\ o \in Task
      /\ delivered[o.job] \in Counter
  BY <1>0, <1>1 DEF Continues, TypeOK, HandsAreDelivered
<1>6. \A k \in Job \ {o.job} : row'[k] = row[k]
  BY <1>0, <1>5, TaskWrites DEF ledgerVars, TypeOK
<1>7. HandsAreDelivered'
  BY <1>0, <1>2, <1>3, <1>5, <1>6 DEF HandsAreDelivered, TypeOK, Job
<1>8. WorkIsParsed'
  <2>1. ASSUME NEW u \in Slot, Reading(u)' \/ task'[u].pc = "run"
        PROVE  docOf[task'[u].job] # Malformed
    BY <1>0, <1>1, <1>2, <2>1 DEF WorkIsParsed, Reading, Continues, ReadingTask
  <2> QED BY <1>3, <2>1 DEF WorkIsParsed
<1>9. ASSUME NEW k \in Job
      PROVE  /\ Batches(k)' = Batches(k) /\ Claimers(k)' \subseteq Claimers(k)
             /\ ToClaim(k) \in Nat /\ ToClaim(k)' \in Nat /\ ToClaim(k)' <= ToClaim(k)
  <2>1. Batches(k)' = Batches(k)
    BY <1>3 DEF Batches
  <2>2. ASSUME NEW u \in Claimers(k)' PROVE u \in Claimers(k)
    <3>1. CASE u = s
      BY <1>1, <1>2, <2>2, <3>1
         DEF Claimers, Claiming, Reading, Continues, ClaimingTask, ReadingTask
    <3>2. CASE u # s
      BY <1>2, <2>2, <3>2 DEF Claimers, Claiming, Reading
    <3> QED BY <3>1, <3>2
  <2> QED BY <2>1, <2>2, NoMoreClaims
<1>10. ASSUME NEW u \in Slot, NEW k \in Job, Claiming(u)', Reading(u)', task'[u].job = k
       PROVE  /\ task'[u].tries <= delivered[k]
              /\ \/ task'[u].seen.attempt \in {0, row[k].attempt}
                 \/ WithinBudget(k, task'[u].seen.attempt)
  <2>1. CASE u # s
    BY <1>2, <1>10, <2>1
       DEF ChargeInv, ToldOfDeliveries, StaleClaimsPay, Claiming, Reading
  <2>2. CASE u = s
    <3>1. ClaimingTask(t) /\ t.pc # "idle" /\ t.job = k /\ k = o.job
      BY <1>1, <1>2, <1>10, <2>2
         DEF Claiming, Reading, ClaimingTask, ReadingTask, Continues
    <3>2. delivered[k] >= 1 /\ delivered[k] \in Nat
      BY <1>5, <3>1, BudgetAssumption DEF ChargeInv, DeliveriesPay, Counter
    <3>3. Reading(s) /\ Claiming(s) =>
              o.tries <= delivered[k] /\ WithinBudget(k, o.seen.attempt)
      BY <3>1 DEF ChargeInv, ToldOfDeliveries, StaleClaimsPay
    <3>4. t.tries <= delivered[k]
      BY <1>1, <3>1, <3>2, <3>3 DEF Continues
    <3>5. t.seen.attempt \in {0, row[k].attempt} \/ WithinBudget(k, t.seen.attempt)
      BY <1>1, <3>1, <3>3 DEF Continues, NoRow
    <3> QED BY <1>2, <2>2, <3>4, <3>5
  <2> QED BY <2>1, <2>2
<1>11. ASSUME NEW k \in Job
       PROVE  \/ row'[k].attempt \in {0, row[k].attempt}
              \/ WithinBudget(k, row[k].attempt)'
  <2>1. CASE UNCHANGED ledgerVars \/ k # o.job
    BY <1>6, <2>1 DEF ledgerVars
  <2> DEFINE attempt == AttemptOf(o.seen, o.tries)
  <2>2. CASE /\ k = o.job /\ Commit(s) /\ ~ UNCHANGED ledgerVars
             /\ row' = [row EXCEPT ![k] = RowAfter(o.txn, o.seen, row[k], attempt)]
    <3>1. o.pc = "commit" /\ row'[k] = RowAfter(o.txn, o.seen, row[k], attempt)
      BY <1>0, <2>2 DEF Commit, TypeOK
    <3>2. CASE o.txn # "claim"
      BY <3>1, <3>2 DEF RowAfter
    <3>3. CASE o.txn = "claim"
      <4>1. row'[k].attempt = attempt
        BY <3>1, <3>3 DEF RowAfter
      <4>2. s \in Claimers(k)
        BY <2>2, <3>1, <3>3 DEF Claimers, Claiming, Reading
      <4>3. t.pc = "run"
        <5>1. Become(s, TaskAt("run", k, "claim", attempt, NoRow, "gone"))
          BY <2>2, <3>3 DEF Commit
        <5> HIDE DEF attempt
        <5>2. task'[s] = TaskAt("run", k, "claim", attempt, NoRow, "gone")
          BY <1>0, <5>1 DEF Become, TypeOK
        <5> QED BY <1>2, <5>2, TaskAtFields
      <4>4. s \notin Claimers(k)'
        BY <1>2, <4>3 DEF Claimers, Claiming, Reading
      <4>5. ToClaim(k) \in Nat /\ ToClaim(k)' \in Nat /\ ToClaim(k)' < ToClaim(k)
        BY <1>9, <4>2, <4>4, OneClaimLess
      <4>6. o.seen \in JobRow /\ o.tries \in Counter
        BY <1>5, TaskFields
      <4>7. /\ delivered[k] >= 1 /\ delivered[k] \in Nat /\ o.tries <= delivered[k]
            /\ delivered[k] < AttemptCeiling =>
                   ToClaim(k) <= delivered[k] /\ o.seen.attempt + ToClaim(k) < 2 * delivered[k]
        BY <1>5, <2>2, <3>1, <3>3, BudgetAssumption
           DEF ChargeInv, DeliveriesPay, ToldOfDeliveries, StaleClaimsPay, WithinBudget,
               Claiming, Reading, Counter
      <4>8. /\ o.seen.attempt \in Nat /\ attempt \in Nat /\ o.tries \in Nat
            /\ attempt \in {1, o.tries} \/ attempt <= o.seen.attempt + 1
        BY <4>6, AttemptType, BudgetAssumption DEF JobRow, Counter
      <4> HIDE DEF attempt
      <4>9. delivered[k] < AttemptCeiling => attempt + ToClaim(k)' < 2 * delivered[k]
        BY <4>5, <4>7, <4>8
      <4> QED BY <1>3, <4>1, <4>9 DEF WithinBudget
    <3> QED BY <3>2, <3>3
  <2> QED BY <1>0, <2>1, <2>2, TaskWrites
<1>12. cursor' = cursor /\ delivered' = delivered
  BY <1>3
<1> HIDE DEF o
<1> QED BY <1>4, <1>7, <1>8, <1>9, <1>10, <1>11, <1>12, NothingDelivered

(***************************************************************************)
(* A step that delivers: what a delivery adds to the claims it pays for.   *)
(***************************************************************************)
LEMMA DeliveredAgain ==
    ASSUME ChargeInv, TypeOK', NEW w \in Worker, NEW S \in SUBSET Job,
           Claimed(w, S), \A v \in Worker \ {w} : batch'[v] = batch[v],
           batch'[w] \in {batch[w], S}
    PROVE  ChargeInv'
<1>1. UNCHANGED <<sent, docOf, cursor, row, task>> /\ \A j \in S : j <= cursor
  BY DEF Claimed, Pending, ledgerVars
<1>2. ASSUME NEW j \in Job
      PROVE  /\ delivered'[j] = IF j \in S THEN Bump(delivered[j]) ELSE delivered[j]
             /\ delivered[j] \in Counter
  BY DEF Claimed, ChargeInv, TypeOK
<1>3. ASSUME NEW j \in Job
      PROVE  /\ ToClaim(j) \in Nat /\ ToClaim(j)' \in Nat
             /\ ToClaim(j)' <= ToClaim(j) + (IF j \in S THEN 1 ELSE 0)
  <2>1. Claimers(j)' \subseteq Claimers(j)
    BY <1>1 DEF Claimers, Claiming, Reading
  <2>2. CASE j \in S
    <3>1. Batches(j)' \subseteq Batches(j) \cup {w}
      BY DEF Batches
    <3> QED BY <2>1, <2>2, <3>1, OneClaimMore
  <2>3. CASE j \notin S
    <3>1. Batches(j)' \subseteq Batches(j)
      BY <2>3 DEF Batches
    <3> QED BY <2>1, <2>3, <3>1, NoMoreClaims
  <2> QED BY <2>2, <2>3
<1>4. ASSUME NEW j \in Job, j <= cursor
      PROVE  /\ delivered[j] \in Nat /\ delivered[j] >= 1
             /\ delivered'[j] \in Nat /\ delivered'[j] >= delivered[j]
             /\ delivered'[j] < AttemptCeiling =>
                   /\ delivered[j] < AttemptCeiling
                   /\ delivered'[j] = delivered[j] + (IF j \in S THEN 1 ELSE 0)
                   /\ ToClaim(j) <= delivered[j]
  BY <1>2, <1>4, BudgetAssumption DEF Bump, Counter, ChargeInv, DeliveriesPay
<1>5. ASSUME NEW j \in Job, j <= cursor, NEW n \in Nat, WithinBudget(j, n)
      PROVE  delivered'[j] < AttemptCeiling => n + ToClaim(j)' < 2 * delivered'[j]
  BY <1>3, <1>4, <1>5 DEF WithinBudget
<1>6. HandsAreDelivered'
  BY <1>1 DEF ChargeInv, HandsAreDelivered, Busy, Job
<1>7. WorkIsParsed'
  BY <1>1 DEF ChargeInv, WorkIsParsed, Reading
<1>8. DeliveriesPay'
  <2> SUFFICES ASSUME NEW j \in Job, j <= cursor
               PROVE  /\ delivered'[j] >= 1
                      /\ delivered'[j] < AttemptCeiling => ToClaim(j)' <= delivered'[j]
                      /\ WithinBudget(j, row[j].attempt)'
    BY <1>1 DEF DeliveriesPay, Job
  <2>1. row[j].attempt \in Nat /\ WithinBudget(j, row[j].attempt)
    BY DEF ChargeInv, DeliveriesPay, TypeOK, JobRow, Counter
  <2>2. delivered'[j] < AttemptCeiling => row[j].attempt + ToClaim(j)' < 2 * delivered'[j]
    BY <1>5, <2>1
  <2> QED BY <1>1, <1>3, <1>4, <2>2 DEF WithinBudget
<1>9. ASSUME NEW s \in Slot, Claiming(s)', Reading(s)'
      PROVE  /\ task'[s].tries <= delivered'[task'[s].job]
             /\ WithinBudget(task[s].job, task[s].seen.attempt)'
  <2>1. PICK j \in Job : j = task[s].job /\ j <= cursor
    BY <1>1, <1>9 DEF ChargeInv, TypeOK, HandsAreDelivered, Reading, Busy
  <2>2. task[s].seen.attempt \in Nat /\ task[s].tries \in Nat
    BY TaskFields DEF ChargeInv, TypeOK, JobRow, Counter
  <2>3. task[s].tries <= delivered[j] /\ WithinBudget(j, task[s].seen.attempt)
    BY <1>1, <1>9, <2>1
       DEF ChargeInv, ToldOfDeliveries, StaleClaimsPay, Claiming, Reading
  <2>4. delivered'[j] < AttemptCeiling =>
            task[s].seen.attempt + ToClaim(j)' < 2 * delivered'[j]
    BY <1>5, <2>1, <2>2, <2>3
  <2> QED BY <1>1, <1>4, <2>1, <2>2, <2>3, <2>4 DEF WithinBudget
<1> QED BY <1>6, <1>7, <1>8, <1>9 DEF ChargeInv, ToldOfDeliveries, StaleClaimsPay

LEMMA DeliveredFirst ==
    ASSUME ChargeInv, TypeOK', NEW w \in Worker, NEW n \in Nat, Fetched(w, n),
           \A v \in Worker \ {w} : batch'[v] = batch[v],
           batch'[w] \in {batch[w], cursor + 1 .. cursor + n}
    PROVE  ChargeInv'
<1>1. /\ UNCHANGED <<sent, docOf, row, task>> /\ cursor \in Nat /\ cursor' = cursor + n
      /\ \A j \in Job : delivered'[j] = IF j \in cursor + 1 .. cursor + n
                                        THEN 1 ELSE delivered[j]
  BY DEF Fetched, ledgerVars, ChargeInv, TypeOK
<1>2. ASSUME NEW j \in Job
      PROVE  /\ Claimers(j)' \subseteq Claimers(j)
             /\ j \in cursor + 1 .. cursor + n => ToClaim(j)' \in Nat /\ ToClaim(j)' <= 1
             /\ j \notin cursor + 1 .. cursor + n =>
                    ToClaim(j) \in Nat /\ ToClaim(j)' \in Nat /\ ToClaim(j)' <= ToClaim(j)
  <2>1. Claimers(j)' \subseteq Claimers(j)
    BY <1>1 DEF Claimers, Claiming, Reading
  <2>2. CASE j \in cursor + 1 .. cursor + n
    <3>1. Batches(j) = {} /\ Claimers(j) = {}
      BY <1>1, <2>2 DEF ChargeInv, HandsAreDelivered, Batches, Claimers, Claiming,
                        Reading, Busy, Job
    <3>2. ToClaim(j) = 0
      BY <3>1, FS_EmptySet DEF ToClaim
    <3>3. Batches(j)' \subseteq Batches(j) \cup {w}
      BY DEF Batches
    <3>4. ToClaim(j) \in Nat /\ ToClaim(j)' \in Nat /\ ToClaim(j)' <= ToClaim(j) + 1
      BY <2>1, <3>3, OneClaimMore
    <3>5. ToClaim(j)' <= 1
      BY <3>2, <3>4
    <3> QED BY <2>1, <2>2, <3>4, <3>5
  <2>3. CASE j \notin cursor + 1 .. cursor + n
    <3>1. Batches(j)' \subseteq Batches(j)
      BY <2>3 DEF Batches
    <3> QED BY <2>1, <2>3, <3>1, NoMoreClaims
  <2> QED BY <2>1, <2>2, <2>3
<1>3. \A j \in Job : j <= cursor => j \notin cursor + 1 .. cursor + n
  BY <1>1 DEF Job
<1>4. HandsAreDelivered'
  BY <1>1 DEF ChargeInv, HandsAreDelivered, Busy, Job, TypeOK
<1>5. WorkIsParsed'
  BY <1>1 DEF ChargeInv, WorkIsParsed, Reading
<1>6. DeliveriesPay'
  <2> SUFFICES ASSUME NEW j \in Job, j <= cursor + n
               PROVE  /\ delivered'[j] >= 1
                      /\ delivered'[j] < AttemptCeiling => ToClaim(j)' <= delivered'[j]
                      /\ WithinBudget(j, row[j].attempt)'
    BY <1>1 DEF DeliveriesPay, Job
  <2>1. row[j].attempt \in Nat /\ delivered[j] \in Nat
    BY DEF ChargeInv, TypeOK, JobRow, Counter
  <2>2. CASE j <= cursor
    <3>1. /\ delivered[j] >= 1 /\ delivered'[j] = delivered[j]
          /\ delivered[j] < AttemptCeiling =>
                ToClaim(j) <= delivered[j] /\ row[j].attempt + ToClaim(j) < 2 * delivered[j]
      BY <1>1, <1>3, <2>2 DEF ChargeInv, DeliveriesPay, WithinBudget
    <3>2. ToClaim(j) \in Nat /\ ToClaim(j)' \in Nat /\ ToClaim(j)' <= ToClaim(j)
      BY <1>2, <1>3, <2>2
    <3>3. ASSUME delivered[j] < AttemptCeiling
          PROVE  /\ ToClaim(j)' <= delivered[j]
                 /\ row[j].attempt + ToClaim(j)' < 2 * delivered[j]
      <4>1. /\ ToClaim(j) <= delivered[j]
            /\ row[j].attempt + ToClaim(j) < 2 * delivered[j]
        BY <3>1, <3>3
      <4> HIDE DEF ToClaim
      <4> QED BY <2>1, <3>2, <4>1
    <3> QED BY <1>1, <3>1, <3>3 DEF WithinBudget
  <2>3. CASE j > cursor
    <3>1. j \in cursor + 1 .. cursor + n
      BY <1>1, <2>3 DEF Job
    <3>2. row[j].attempt = 0
      BY <2>3 DEF ChargeInv, HandsAreDelivered, NoRow
    <3>3. delivered'[j] = 1 /\ ToClaim(j)' \in Nat /\ ToClaim(j)' <= 1
      BY <1>1, <1>2, <3>1
    <3> QED BY <1>1, <3>2, <3>3 DEF WithinBudget
  <2> QED BY <1>1, <2>2, <2>3 DEF Job
<1>7. ASSUME NEW s \in Slot, Claiming(s)', Reading(s)'
      PROVE  /\ task'[s].tries <= delivered'[task'[s].job]
             /\ WithinBudget(task[s].job, task[s].seen.attempt)'
  <2>1. PICK j \in Job : j = task[s].job /\ j <= cursor
    BY <1>1, <1>7 DEF ChargeInv, TypeOK, HandsAreDelivered, Reading, Busy
  <2>2. task[s].seen.attempt \in Nat /\ task[s].tries \in Nat /\ delivered[j] \in Nat
    BY TaskFields DEF ChargeInv, TypeOK, JobRow, Counter
  <2>3. task[s].tries <= delivered[j] /\ WithinBudget(j, task[s].seen.attempt)
    BY <1>1, <1>7, <2>1
       DEF ChargeInv, ToldOfDeliveries, StaleClaimsPay, Claiming, Reading
  <2>4. delivered'[j] = delivered[j] /\ ToClaim(j)' <= ToClaim(j)
        /\ ToClaim(j) \in Nat /\ ToClaim(j)' \in Nat
    BY <1>1, <1>2, <1>3, <2>1
  <2> QED BY <1>1, <2>1, <2>2, <2>3, <2>4, BudgetAssumption DEF WithinBudget
<1> QED BY <1>4, <1>5, <1>6, <1>7 DEF ChargeInv, ToldOfDeliveries, StaleClaimsPay

\* The other steps deliver nothing and charge nothing: batches shrink, a
\* message goes from a batch to a task, tasks end, rows are deleted.
LEMMA HandsLetGo ==
    ASSUME ChargeInv, TypeOK', UNCHANGED <<cursor, delivered>>,
           sent' = sent \/ sent' > cursor,
           \A j \in Job : j <= cursor => docOf'[j] = docOf[j],
           \A j \in Job : row'[j] \in {NoRow, row[j]},
           \A w \in Worker : batch'[w] \subseteq batch[w],
           \A s \in Slot : task'[s] = task[s] \/ task'[s] = Idle
    PROVE  ChargeInv'
<1>1. \A s \in Slot : Busy(s)' => Busy(s) /\ task'[s] = task[s]
  BY IdleType DEF Busy
<1>2. \A s \in Slot : Reading(s)' \/ task'[s].pc = "run" => Busy(s)'
  BY DEF Reading, Busy
<1>3. HandsAreDelivered'
  BY <1>1 DEF ChargeInv, HandsAreDelivered, Job
<1>4. WorkIsParsed'
  <2>1. \A s \in Slot : Busy(s) => task[s].job \in Job /\ task[s].job <= cursor
    BY DEF ChargeInv, TypeOK, HandsAreDelivered
  <2> QED BY <1>1, <1>2, <2>1 DEF ChargeInv, WorkIsParsed, Reading
<1>5. \A s \in Slot : Claiming(s)' => Claiming(s) /\ task'[s] = task[s]
  BY <1>1, IdleType DEF Claiming, Reading, Busy
<1>6. ASSUME NEW j \in Job
      PROVE  ToClaim(j) \in Nat /\ ToClaim(j)' \in Nat /\ ToClaim(j)' <= ToClaim(j)
  <2>1. Batches(j)' \subseteq Batches(j) /\ Claimers(j)' \subseteq Claimers(j)
    BY <1>5 DEF Batches, Claimers
  <2> QED BY <2>1, NoMoreClaims
<1>7. \A j \in Job : row'[j].attempt \in {0, row[j].attempt}
  BY DEF NoRow
<1>8. ASSUME NEW s \in Slot, NEW j \in Job, Claiming(s)', Reading(s)', task'[s].job = j
      PROVE  task'[s].tries <= delivered[j] /\ WithinBudget(j, task'[s].seen.attempt)
  BY <1>5, <1>8 DEF ChargeInv, ToldOfDeliveries, StaleClaimsPay, Reading
<1> QED BY <1>3, <1>4, <1>6, <1>7, <1>8, NothingDelivered

LEMMA DispatchCharges ==
    ASSUME ChargeInv, TypeOK', NEW w \in Worker, NEW s \in SlotsOf(w), Dispatch(w, s)
    PROVE  ChargeInv'
<1>1. s \in Slot /\ ~ Busy(s)
  BY DEF Dispatch, FreeSlots, SlotsOf
<1>2. PICK j \in batch[w] :
          /\ task' = [task EXCEPT ![s] = Fresh("count", j)]
          /\ \/ batch' = [batch EXCEPT ![w] = {}]
             \/ batch' = [batch EXCEPT ![w] = batch[w] \ {j}]
  BY Zenon DEF Dispatch
<1>3. UNCHANGED <<sent, docOf, cursor, delivered, row>>
  BY DEF Dispatch, redisVars, ledgerVars
<1>4. j \in Job /\ j <= cursor /\ j \in 0 .. MaxJobs /\ "count" \in PC
  BY QueueAssumption DEF ChargeInv, TypeOK, HandsAreDelivered, PC, Job
<1>5. /\ task'[s].pc = "count" /\ task'[s].job = j
      /\ \A u \in Slot \ {s} : task'[u] = task[u]
  BY <1>1, <1>2, <1>4, FreshType DEF ChargeInv, TypeOK
<1>6. \A v \in Worker : batch'[v] \subseteq batch[v] /\ (v = w => j \notin batch'[v])
  BY <1>2 DEF ChargeInv, TypeOK
<1>7. HandsAreDelivered'
  BY <1>3, <1>4, <1>5, <1>6 DEF ChargeInv, HandsAreDelivered, Busy, Job
<1>8. WorkIsParsed'
  BY <1>3, <1>5 DEF ChargeInv, WorkIsParsed, Reading
<1>9. ASSUME NEW k \in Job
      PROVE  ToClaim(k) \in Nat /\ ToClaim(k)' \in Nat /\ ToClaim(k)' <= ToClaim(k)
  <2>1. Batches(k)' \subseteq Batches(k)
    BY <1>6 DEF Batches
  <2>2. CASE k = j
    <3>1. w \in Batches(k) /\ Batches(k)' \subseteq Batches(k) \ {w}
      BY <1>2, <1>6, <2>2 DEF Batches
    <3>2. Claimers(k)' \subseteq Claimers(k) \cup {s}
      BY <1>5 DEF Claimers, Claiming, Reading
    <3> QED BY <3>1, <3>2, ClaimIsPassedOn
  <2>3. CASE k # j
    <3>1. Claimers(k)' \subseteq Claimers(k)
      BY <1>5, <2>3 DEF Claimers, Claiming, Reading
    <3> QED BY <2>1, <3>1, NoMoreClaims
  <2> QED BY <2>2, <2>3
<1>10. ASSUME NEW u \in Slot, NEW k \in Job, Claiming(u)', Reading(u)', task'[u].job = k
       PROVE  task'[u].tries <= delivered[k] /\ WithinBudget(k, task'[u].seen.attempt)
  <2>1. u # s
    BY <1>5, <1>10 DEF Reading
  <2> QED BY <1>5, <1>10, <2>1
          DEF ChargeInv, ToldOfDeliveries, StaleClaimsPay, Claiming, Reading
<1>11. \A k \in Job : row'[k].attempt \in {0, row[k].attempt}
  BY <1>3
<1> QED BY <1>3, <1>7, <1>8, <1>9, <1>10, <1>11, NothingDelivered

LEMMA ChargeInit == Init => ChargeInv
<1> SUFFICES ASSUME Init PROVE ChargeInv
  OBVIOUS
<1>1. TypeOK
  BY InitInv DEF QueueInv
<1>2. \A s \in Slot : task[s].pc = "idle"
  BY IdleType DEF Init
<1>3. HandsAreDelivered /\ WorkIsParsed /\ ToldOfDeliveries /\ StaleClaimsPay
  BY <1>2 DEF Init, HandsAreDelivered, WorkIsParsed, ToldOfDeliveries, StaleClaimsPay,
              Busy, Reading
<1>4. DeliveriesPay
  BY DEF Init, DeliveriesPay, Job
<1> QED BY <1>1, <1>3, <1>4 DEF ChargeInv

LEMMA ChargeNext == ASSUME ChargeInv, [Next]_vars PROVE ChargeInv'
<1>0. TypeOK /\ WorkIsParsed /\ TypeOK'
  BY TypeNext DEF ChargeInv
<1> USE DEF redisVars, ledgerVars, loopVars
<1>1. CASE UNCHANGED vars
  BY <1>0, <1>1, HandsLetGo DEF vars
<1>2. CASE Produce
  <2>1. PICK x : Enqueue(x)
    BY <1>2 DEF Produce, Publish, PublishMalformed
  <2>2. UNCHANGED <<cursor, delivered, row, batch, task>>
    BY <1>2, <2>1 DEF Produce, Publish, PublishMalformed, Enqueue
  <2>3. sent' > cursor /\ \A j \in Job : j <= cursor => docOf'[j] = docOf[j]
    BY <1>0, <2>1 DEF Enqueue, TypeOK, Job
  <2> QED BY <1>0, <2>2, <2>3, HandsLetGo
<1>3. ASSUME NEW w \in Worker, Loop(w) PROVE ChargeInv'
  <2>1. ASSUME NEW S \in SUBSET Job, Reclaim(w, S) \/ ReclaimReplyLost(w, S)
        PROVE  ChargeInv'
    <3>1. /\ Claimed(w, S) /\ batch'[w] \in {batch[w], S}
          /\ \A v \in Worker \ {w} : batch'[v] = batch[v]
      BY <1>0, <2>1 DEF Reclaim, ReclaimReplyLost, TypeOK
    <3> QED BY <1>0, <3>1, DeliveredAgain
  <2>2. ASSUME NEW n \in 1 .. (sent - cursor), Read(w, n) \/ ReadReplyLost(w, n)
        PROVE  ChargeInv'
    <3>1. /\ Fetched(w, n) /\ batch'[w] \in {batch[w], cursor + 1 .. cursor + n}
          /\ \A v \in Worker \ {w} : batch'[v] = batch[v]
      BY <1>0, <2>2 DEF Read, ReadReplyLost, TypeOK
    <3>2. n \in Nat
      BY <1>0 DEF TypeOK
    <3> QED BY <1>0, <3>1, <3>2, DeliveredFirst
  <2>3. CASE \E s \in SlotsOf(w) : Dispatch(w, s)
    BY <1>0, <2>3, DispatchCharges
  <2>4. CASE SkipReclaim(w) \/ PollNothing(w) \/ DropReclaimed(w)
    <3>1. \A v \in Worker : batch'[v] \subseteq batch[v]
      BY <1>0, <2>4 DEF SkipReclaim, PollNothing, DropReclaimed, TypeOK
    <3>2. UNCHANGED <<sent, cursor, delivered, docOf, row, task>>
      BY <2>4 DEF SkipReclaim, PollNothing, DropReclaimed
    <3> QED BY <1>0, <3>1, <3>2, HandsLetGo
  <2> QED BY <1>3, <2>1, <2>2, <2>3, <2>4 DEF Loop
<1>4. ASSUME NEW s \in Slot, RunTask(s) \/ LedgerError(s) \/ CancelTask(s)
      PROVE  ChargeInv'
  BY <1>4, TaskCharges
<1>5. ASSUME NEW w \in Worker, Stop(w) \/ Restart(w) \/ Crash(w) PROVE ChargeInv'
  <2>1. /\ UNCHANGED <<sent, cursor, delivered, docOf, row>>
        /\ \A v \in Worker : batch'[v] \subseteq batch[v]
        /\ \A s \in Slot : task'[s] = task[s] \/ task'[s] = Idle
    BY <1>0, <1>5 DEF Stop, Restart, Crash, TypeOK
  <2> QED BY <1>0, <2>1, HandsLetGo
<1>6. ASSUME NEW d \in Doc, DeleteDocument(d) PROVE ChargeInv'
  <2>1. UNCHANGED <<sent, cursor, delivered, docOf, batch, task>>
        /\ \A j \in Job : row'[j] \in {NoRow, row[j]}
    BY <1>6 DEF DeleteDocument
  <2> QED BY <1>0, <2>1, HandsLetGo
<1> QED BY <1>1, <1>2, <1>3, <1>4, <1>5, <1>6 DEF Next, Lifecycle

\* ChargeInv holds of a fleet of any size under every disturbance.
THEOREM ChargesAreInvariant == Spec => []ChargeInv
BY ChargeInit, ChargeNext, PTL DEF Spec

\* The values of every variable have their types: what the columns, the
\* stream and the slots of queue/consumer.py may hold.
THEOREM TypeCorrectness == Spec => []TypeOK
BY ChargesAreInvariant, PTL DEF ChargeInv

\* However often live work is taken from its worker, a job is charged fewer
\* than two attempts for each time it was delivered.
THEOREM FewerThanTwoEach == Spec => []FewerThanTwoAttemptsPerDelivery
<1>1. ChargeInv => FewerThanTwoAttemptsPerDelivery
  <2> SUFFICES ASSUME ChargeInv, NEW j \in Job, row[j] # NoRow
               PROVE  row[j].attempt < 2 * delivered[j]
    BY DEF FewerThanTwoAttemptsPerDelivery
  <2>1. /\ row[j].attempt \in Counter /\ delivered[j] \in Counter /\ cursor \in Nat
        /\ row[j].attempt \in Nat /\ delivered[j] \in Nat
    BY DEF ChargeInv, TypeOK, JobRow, Counter
  <2>2. j <= cursor
    BY <2>1 DEF ChargeInv, HandsAreDelivered, Job
  <2>3. CASE delivered[j] < AttemptCeiling
    <3>1. row[j].attempt + ToClaim(j) < 2 * delivered[j]
      BY <2>2, <2>3 DEF ChargeInv, DeliveriesPay, WithinBudget
    <3>2. ToClaim(j) \in Nat
      BY HandsAreFinite DEF ToClaim
    <3> QED BY <2>1, <3>1, <3>2
  <2>4. CASE ~ (delivered[j] < AttemptCeiling)
    BY <2>1, <2>4, BudgetAssumption DEF Counter
  <2> QED BY <2>3, <2>4
<1> QED BY <1>1, ChargesAreInvariant, PTL
=============================================================================
