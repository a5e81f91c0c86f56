------------------------- MODULE DocumentLifeProofs -------------------------
(***************************************************************************)
(* LifeInv is an inductive invariant of DocumentLife, for any number of    *)
(* documents, requests, messages and faults.  From it, for every value of  *)
(* the constants: a row has its file, a document that waits has a job, a   *)
(* completed one can be searched, a deleted one leaves nothing, and a      *)
(* completion is taken back for a reason only.                             *)
(***************************************************************************)
EXTENDS DocumentLifeProps, FiniteSetTheorems, TLAPS

Waiting == {"UPLOADED", "PROCESSING"}

-----------------------------------------------------------------------------
(***************************************************************************)
(* Lemmas about the data.                                                  *)
(***************************************************************************)

\* The missing row is a row value, and zero is a counter.
LEMMA NoRowType == NoRow \in JobRow /\ 0 \in Counter /\ NoRow.status = "none"
BY BudgetAssumption DEF NoRow, JobRow, JobStatus, Counter

\* A task built from values of the right types is a task with those fields.
LEMMA TaskAtFacts ==
    ASSUME NEW pc \in TaskPC, NEW txn \in Txn, NEW attempt \in Counter,
           NEW seen \in JobRow, NEW seenDoc \in DocStatus
    PROVE  LET t == TaskAt(pc, txn, attempt, seen, seenDoc)
           IN  /\ t \in Task
               /\ t.pc = pc /\ t.txn = txn /\ t.attempt = attempt
               /\ t.seen = seen /\ t.seenDoc = seenDoc
BY DEF TaskAt, Task

\* A task outside a transaction.
LEMMA WorkingFacts ==
    ASSUME NEW pc \in TaskPC, NEW attempt \in Counter
    PROVE  /\ Working(pc, attempt) \in Task
           /\ Working(pc, attempt).pc = pc
           /\ Working(pc, attempt).attempt = attempt
BY NoRowType, TaskAtFacts DEF Working, Txn, DocStatus

LEMMA NoTaskFacts == NoTask \in Task /\ NoTask.pc = "idle"
BY WorkingFacts, NoRowType DEF NoTask, TaskPC

\* A bumped counter is a counter, and so is the attempt a claim takes.
LEMMA CounterFacts ==
    ASSUME NEW m \in Counter, NEW n \in Counter
    PROVE  Bump(n) \in Counter /\ Larger(m, n) \in Counter
BY BudgetAssumption DEF Bump, Larger, Counter

LEMMA AttemptType ==
    ASSUME NEW seen \in JobRow, NEW n \in Counter
    PROVE  AttemptOf(seen, n) \in Counter
<1>1. seen.attempt \in Counter /\ 1 \in Counter
  BY BudgetAssumption DEF JobRow, Counter
<1>2. Bump(seen.attempt) \in Counter
  BY <1>1, CounterFacts
<1> QED BY <1>1, <1>2, CounterFacts DEF AttemptOf

\* What a transaction writes: the status it assigns, whatever it has loaded,
\* when it has loaded the row that is there.
LEMMA RowAfterFacts ==
    ASSUME NEW txn \in Txn, NEW r \in JobRow, NEW attempt \in Counter
    PROVE  /\ RowAfter(txn, r, r, attempt) \in JobRow
           /\ RowAfter(txn, r, r, attempt).status = JobStatusOf[txn]
BY DEF RowAfter, Written, JobRow, JobStatusOf, JobStatus, Txn

-----------------------------------------------------------------------------
(***************************************************************************)
(* Steps of a job.                                                         *)
(***************************************************************************)
LEMMA GoesFacts ==
    ASSUME TypeOK, NEW j \in Job, NEW t \in Task, Goes(j, t)
    PROVE  /\ task' \in [Job -> Task]
           /\ task'[j] = t
           /\ \A k \in Job \ {j} : task'[k] = task[k]
BY DEF Goes, TypeOK

\* A busy worker has a message of the stream, of a document that was created.
LEMMA AtWorkFacts ==
    ASSUME LifeInv, NEW j \in Job, task[j].pc # "idle"
    PROVE  /\ j \in (1 .. sent) \ acked
           /\ docOf[j] \in Doc /\ docOf[j] \in created
           /\ j \in Unsettled(docOf[j])
           /\ TaskOK(j)
           /\ task[j] \in Task
BY NoTaskFacts DEF LifeInv, TypeOK, KnownOnly, TasksOK, Unsettled, JobsOf

\* Every step of a job that writes neither table: what is left to show is
\* that the worker may stand where it arrives, and that its message is not
\* spent on the way while the document waits.
LEMMA JobStep ==
    ASSUME LifeInv, NEW j \in (1 .. sent) \ acked, NEW t \in Task, Goes(j, t),
           UNCHANGED <<created, blob, doc, row, sent, docOf, acked, req, stranded>>,
           tried' \in [Job -> Counter], faults' \in 0 .. MaxFaults,
           assessed' \in SUBSET created, chunks' \in SUBSET created,
           chunks \subseteq chunks',
           \A d \in (assessed' \cup chunks') \ (assessed \cup chunks) : doc[d] # "gone",
           t.pc # "idle" => TaskOK(j)',
           Spent(j)' => Spent(j) \/ doc[docOf[j]] \notin Waiting
    PROVE  LifeInv'
<1> USE DEF LifeInv
<1>0. j \in Job /\ sent \in 0 .. MaxJobs
  BY LifeAssumption DEF TypeOK, Job
<1>1. /\ task' \in [Job -> Task] /\ task'[j] = t
      /\ \A k \in Job \ {j} : task'[k] = task[k]
  BY <1>0, GoesFacts
<1>2. TypeOK'
  BY <1>1 DEF TypeOK
<1>3. RoomIsKept'
  BY DEF RoomIsKept, Owing
<1>4. KnownOnly'
  BY <1>1 DEF KnownOnly
<1>5. RowHasItsFile' /\ GoneHasNoFile' /\ \A r \in Request : RequestOK(r)'
  BY DEF RowHasItsFile, GoneHasNoFile, RequestOK, Serves, JobsOf
<1>6. GoneIsEmpty'
  BY DEF GoneIsEmpty, JobsOf
<1>7. TasksOK'
  BY <1>1 DEF TasksOK, TaskOK
<1>8. CompletedIsSearchable'
  BY DEF CompletedIsSearchable
<1>9. WaitingHasAMover'
  <2> SUFFICES ASSUME NEW d \in Doc \ stranded, doc[d] \in Waiting
               PROVE  HasMover(d)'
    BY DEF WaitingHasAMover, Waiting
  <2>1. HasMover(d)
    BY DEF WaitingHasAMover, Waiting
  <2>2. Unsettled(d)' = Unsettled(d) /\ \A k \in Unsettled(d) : k \in Job
    BY <1>0, LifeAssumption DEF Unsettled, JobsOf, Job
  <2>3. \A k \in Unsettled(d) : Spent(k)' => Spent(k)
    BY <1>1, <2>2 DEF Spent, Unsettled, JobsOf
  <2> QED BY <2>1, <2>2, <2>3 DEF HasMover, Serves
<1> QED BY <1>2, <1>3, <1>4, <1>5, <1>6, <1>7, <1>8, <1>9

\* What no step of a job but its commit and its ack touches.
Untouched == <<created, blob, doc, row, sent, docOf, acked, req, stranded>>

LEMMA DeliverInv ==
    ASSUME LifeInv, NEW j \in Job, Deliver(j)
    PROVE  LifeInv'
<1> DEFINE t == TaskAt("load", "claim", Bump(tried[j]), NoRow, "gone")
<1>1. /\ j \in (1 .. sent) \ acked /\ UNCHANGED Untouched /\ UNCHANGED <<assessed, chunks>>
      /\ faults' = faults /\ Goes(j, t)
  BY DEF Deliver, Untouched, stores, NoFault
<1>2. tried[j] \in Counter /\ Bump(tried[j]) \in Counter /\ tried' \in [Job -> Counter]
  BY CounterFacts DEF LifeInv, TypeOK, Deliver
<1>3. t \in Task /\ t.pc = "load" /\ t.txn = "claim"
  BY <1>2, NoRowType, TaskAtFacts DEF TaskPC, Txn, DocStatus
<1> HIDE DEF t
<1>4. task'[j] = t
  BY <1>1, <1>3, GoesFacts DEF LifeInv
<1>5. TaskOK(j)' /\ (Spent(j)' => Spent(j))
  BY <1>1, <1>3, <1>4 DEF TaskOK, Spent, Untouched
<1> QED BY <1>1, <1>2, <1>3, <1>5, JobStep DEF LifeInv, TypeOK, Untouched

\* A worker that goes on, with nothing stored and nothing new to rely on.
LEMMA GoesOn ==
    ASSUME LifeInv, NEW j \in Job, task[j].pc # "idle",
           NEW t \in Task, Goes(j, t),
           UNCHANGED Untouched, UNCHANGED tried, faults' \in 0 .. MaxFaults,
           assessed' \in SUBSET created, chunks' \in SUBSET created,
           chunks \subseteq chunks',
           \A d \in (assessed' \cup chunks') \ (assessed \cup chunks) : doc[d] # "gone",
           t.pc # "idle" => TaskOK(j)',
           Spent(j)' => Spent(j) \/ doc[docOf[j]] \notin Waiting
    PROVE  LifeInv'
<1>1. j \in (1 .. sent) \ acked
  BY AtWorkFacts
<1>2. tried' \in [Job -> Counter]
  BY DEF LifeInv, TypeOK
<1> QED BY <1>1, <1>2, JobStep DEF Untouched

LEMMA WorkerDiesInv ==
    ASSUME LifeInv, NEW j \in Job, WorkerDies(j)
    PROVE  LifeInv'
<1>1. /\ UNCHANGED Untouched /\ UNCHANGED <<tried, assessed, chunks>>
      /\ Goes(j, NoTask) /\ faults' \in 0 .. MaxFaults
  BY LifeAssumption DEF WorkerDies, Untouched, stores, stream, Fault, LifeInv, TypeOK
<1>2. task'[j] = NoTask /\ task' \in [Job -> Task]
  BY <1>1, NoTaskFacts, GoesFacts DEF LifeInv
<1>3. Spent(j)' => Spent(j)
  BY <1>1, <1>2, NoTaskFacts DEF Spent, Untouched
<1>4. j \in (1 .. sent) \ acked
  BY DEF WorkerDies, LifeInv, KnownOnly
<1> QED BY <1>1, <1>3, <1>4, NoTaskFacts, JobStep DEF LifeInv, TypeOK, Untouched

\* A worker that turns to its last transaction.
LEMMA BeginsInv ==
    ASSUME LifeInv, NEW j \in Job, task[j].pc \in {"fetch", "risk", "index"},
           NEW txn \in Txn \ {"claim"}, Begins(j, txn),
           UNCHANGED Untouched, UNCHANGED <<tried, assessed, faults>>,
           chunks' = chunks \/ (chunks' = chunks \cup {docOf[j]} /\ doc[docOf[j]] # "gone"),
           txn = "complete" => docOf[j] \in chunks'
    PROVE  LifeInv'
<1> DEFINE t == TaskAt("load", txn, task[j].attempt, NoRow, "gone")
<1>1. /\ task[j] \in Task /\ TaskOK(j)
      /\ docOf[j] \in created
  BY AtWorkFacts
<1>2. t \in Task /\ t.pc = "load" /\ t.txn = txn
  BY <1>1, NoRowType, TaskAtFacts DEF Task, TaskPC, DocStatus
<1> HIDE DEF t
<1>3. task'[j] = t /\ Goes(j, t)
  BY <1>2, GoesFacts DEF LifeInv, Begins, t
<1>4. TaskOK(j)'
  BY <1>1, <1>2, <1>3 DEF TaskOK, Untouched
<1>5. Spent(j)' => Spent(j)
  BY <1>2, <1>3 DEF Spent, Untouched
<1> QED BY <1>1, <1>2, <1>3, <1>4, <1>5, GoesOn DEF LifeInv, TypeOK

LEMMA RaisesInv ==
    ASSUME LifeInv, NEW j \in Job, task[j].pc \in {"fetch", "risk", "index"},
           NEW retryable \in BOOLEAN, Raises(j, retryable),
           UNCHANGED Untouched, UNCHANGED <<tried, assessed, chunks, faults>>
    PROVE  LifeInv'
BY BeginsInv DEF Raises, Txn

\* A worker that goes on to the next stage of the pipeline.
LEMMA WorkingInv ==
    ASSUME LifeInv, NEW j \in Job, task[j].pc \in {"fetch", "risk", "index"},
           NEW pc \in {"risk", "index"}, Goes(j, Working(pc, task[j].attempt)),
           UNCHANGED Untouched, UNCHANGED <<tried, chunks, faults>>,
           \/ assessed' = assessed
           \/ assessed' = assessed \cup {docOf[j]} /\ doc[docOf[j]] # "gone"
    PROVE  LifeInv'
<1> DEFINE t == Working(pc, task[j].attempt)
<1>1. /\ task[j] \in Task /\ TaskOK(j) /\ docOf[j] \in created
  BY AtWorkFacts
<1>2. t \in Task /\ t.pc = pc
  BY <1>1, WorkingFacts DEF Task, TaskPC
<1> HIDE DEF t
<1>3. task'[j] = t /\ Goes(j, t)
  BY <1>2, GoesFacts DEF LifeInv, t
<1>4. TaskOK(j)' /\ (Spent(j)' => Spent(j))
  BY <1>1, <1>2, <1>3 DEF TaskOK, Spent, Untouched
<1> QED BY <1>1, <1>2, <1>3, <1>4, GoesOn DEF LifeInv, TypeOK

LEMMA FetchInv ==
    ASSUME LifeInv, NEW j \in Job, Fetch(j)
    PROVE  LifeInv'
BY WorkingInv, RaisesInv DEF Fetch, NoFault, stores, stream, Untouched

LEMMA AssessRiskInv ==
    ASSUME LifeInv, NEW j \in Job, AssessRisk(j)
    PROVE  LifeInv'
BY WorkingInv, RaisesInv DEF AssessRisk, NoFault, stream, Untouched

LEMMA IndexInv ==
    ASSUME LifeInv, NEW j \in Job, Index(j)
    PROVE  LifeInv'
BY BeginsInv, RaisesInv DEF Index, IndexFails, NoFault, stream, Untouched, Txn

LEMMA LoadInv ==
    ASSUME LifeInv, NEW j \in Job, Load(j)
    PROVE  LifeInv'
<1> DEFINE d == docOf[j]
           u == TaskAt("commit", task[j].txn, task[j].attempt, row[j], doc[d])
           a == Working("ack", 0)
<1> USE DEF LifeInv
<1>1. /\ task[j] \in Task /\ TaskOK(j) /\ d \in Doc /\ task[j].pc = "load"
      /\ task[j].txn \in Txn
  BY AtWorkFacts DEF Load, Task
<1>2. /\ UNCHANGED Untouched /\ UNCHANGED <<tried, assessed, chunks>>
      /\ faults' \in 0 .. MaxFaults
  BY DEF Load, NoFault, stores, stream, Untouched, TypeOK
<1>3. a \in Task /\ a.pc = "ack"
  BY WorkingFacts, NoRowType DEF TaskPC
<1>4. /\ u \in Task /\ u.pc = "commit" /\ u.txn = task[j].txn
      /\ u.seen = row[j] /\ u.seenDoc = doc[d]
  BY <1>1, TaskAtFacts DEF Task, TaskPC, TypeOK
<1> HIDE DEF u, a
<1> SUFFICES ASSUME NEW t \in Task, Goes(j, t),
                    \/ t = a /\ task[j].txn = "claim" /\ AlreadyDone(row[j])
                    \/ t \in {a, NoTask} /\ task[j].txn # "claim" /\ row[j] = NoRow
                    \/ /\ t = u
                       /\ task[j].txn = "claim" => ~AlreadyDone(row[j])
             PROVE  LifeInv'
  BY <1>1, <1>3, <1>4, NoTaskFacts DEF Load, Continues, AfterTxn, Txn, a, u
<1>5. task'[j] = t
  BY GoesFacts
<1>6. CASE t = a /\ task[j].txn = "claim" /\ AlreadyDone(row[j])
  <2>1. TaskOK(j)' /\ Spent(j)
    BY <1>2, <1>3, <1>5, <1>6 DEF TaskOK, Spent, AlreadyDone, Untouched
  <2> QED BY <1>1, <1>2, <2>1, GoesOn DEF TypeOK
<1>7. CASE t \in {a, NoTask} /\ task[j].txn # "claim" /\ row[j] = NoRow
  <2>1. doc[d] = "gone"
    BY <1>1, <1>7, NoRowType DEF TaskOK
  <2>2. TaskOK(j)' /\ doc[d] \notin Waiting
    BY <1>2, <2>1 DEF TaskOK, Untouched, Waiting
  <2> QED BY <1>1, <1>2, <2>2, GoesOn DEF TypeOK
<1>8. CASE t = u /\ (task[j].txn = "claim" => ~AlreadyDone(row[j]))
  <2>1. TaskOK(j)'
    BY <1>1, <1>2, <1>4, <1>5, <1>8 DEF TaskOK, Untouched
  <2>2. Spent(j)' => Spent(j) \/ doc[d] \notin Waiting
    BY <1>1, <1>2, <1>4, <1>5, <1>8
       DEF Spent, Untouched, Waiting, DocStatusOf, JobStatusOf
  <2> QED BY <1>1, <1>2, <2>1, <2>2, GoesOn DEF TypeOK
<1> QED BY <1>6, <1>7, <1>8

\* A commit either lets the message go or writes the rows it has loaded.
LEMMA CommitWrites ==
    ASSUME LifeInv, NEW j \in Job, Commit(j)
    PROVE  LET t == task[j]
               d == docOf[j]
               s == DocStatusOf[JobStatusOf[t.txn]]
           IN  /\ t.txn \in Txn /\ d \in Doc /\ j \in Unsettled(d) /\ TaskOK(j)
               /\ t.pc = "commit"
               /\ \/ Goes(j, NoTask) /\ UNCHANGED <<row, doc>>
                  \/ /\ doc[d] # "gone"
                     /\ \E w \in JobRow : /\ w.status = JobStatusOf[t.txn]
                                          /\ row' = [row EXCEPT ![j] = w]
                     /\ s \in DocStatus \ {"gone"}
                     /\ doc' = [doc EXCEPT ![d] = IF t.seenDoc = s THEN doc[d] ELSE s]
                     /\ \E u \in Task :
                          /\ u.pc = AfterTxn[t.txn]
                          /\ Goes(j, u)
<1> DEFINE t == task[j]
           d == docOf[j]
           attempt == IF t.txn = "claim" THEN AttemptOf(t.seen, t.attempt) ELSE 0
<1> USE DEF LifeInv
<1>1. /\ t \in Task /\ t.txn \in Txn /\ t.attempt \in Counter /\ t.seen \in JobRow
      /\ d \in Doc /\ j \in Unsettled(d) /\ TaskOK(j) /\ t.pc = "commit"
      /\ t.seenDoc \in DocStatus /\ doc[d] \in DocStatus
  BY AtWorkFacts DEF Commit, Task, TypeOK
<1>2. CASE CommitRaises(t.seen, row[j], doc[d])
  BY <1>1, <1>2 DEF Commit
<1>3. CASE ~CommitRaises(t.seen, row[j], doc[d])
  <2>1. doc[d] # "gone"
    BY <1>1, <1>3 DEF GoneIsEmpty, CommitRaises, Unsettled
  <2>2. t.seen = row[j] /\ t.seenDoc # "gone"
    BY <1>1, <2>1 DEF TaskOK
  <2>3. attempt \in Counter
    BY <1>1, AttemptType, NoRowType
  <2>4. /\ row' = [row EXCEPT ![j] = RowAfter(t.txn, t.seen, row[j], attempt)]
        /\ doc' = [doc EXCEPT ![d] = DocAfter(t.txn, t.seenDoc, doc[d])]
        /\ Continues(j, t.txn, attempt)
    BY <1>3 DEF Commit
  <2>5. \E w \in JobRow : w.status = JobStatusOf[t.txn] /\ row' = [row EXCEPT ![j] = w]
    BY <1>1, <2>2, <2>3, <2>4, RowAfterFacts
  <2>6. \E u \in Task : u.pc = AfterTxn[t.txn] /\ Goes(j, u)
    <3>1. AfterTxn[t.txn] \in TaskPC /\ (AfterTxn[t.txn] = "idle" => NoTask.pc = AfterTxn[t.txn])
      BY <1>1, NoTaskFacts DEF AfterTxn, Txn, TaskPC
    <3> QED BY <2>3, <2>4, <3>1, NoTaskFacts, WorkingFacts DEF Continues
  <2> DEFINE s == DocStatusOf[JobStatusOf[t.txn]]
  <2>7. s \in DocStatus \ {"gone"}
    BY <1>1 DEF DocStatusOf, JobStatusOf, DocStatus, Txn
  <2>8. DocAfter(t.txn, t.seenDoc, doc[d]) = IF t.seenDoc = s THEN doc[d] ELSE s
    BY <2>2 DEF DocAfter, Written
  <2> QED BY <1>1, <2>1, <2>4, <2>5, <2>6, <2>7, <2>8
<1> QED BY <1>2, <1>3

LEMMA CommitInv ==
    ASSUME LifeInv, NEW j \in Job, Commit(j)
    PROVE  LifeInv'
<1> DEFINE t == task[j]
           d == docOf[j]
           s == DocStatusOf[JobStatusOf[t.txn]]
<1> USE DEF LifeInv
<1>1. /\ t.txn \in Txn /\ d \in Doc /\ j \in Unsettled(d) /\ TaskOK(j)
      /\ t.pc = "commit"
  BY CommitWrites
<1>2. /\ UNCHANGED <<created, blob, assessed, chunks, sent, docOf, tried, acked, req,
                     stranded, faults>>
  BY DEF Commit, stream, NoFault
<1>3. CASE Goes(j, NoTask) /\ UNCHANGED <<row, doc>>
  <2>1. Spent(j)' => Spent(j)
    BY <1>2, <1>3, NoTaskFacts, GoesFacts DEF Spent
  <2> QED BY <1>1, <1>2, <1>3, <2>1, NoTaskFacts, GoesOn DEF TypeOK, Untouched
<1>4. ASSUME doc[d] # "gone",
             NEW w \in JobRow, w.status = JobStatusOf[t.txn],
             row' = [row EXCEPT ![j] = w],
             s \in DocStatus \ {"gone"},
             doc' = [doc EXCEPT ![d] = IF t.seenDoc = s THEN doc[d] ELSE s],
             NEW u \in Task, u.pc = AfterTxn[t.txn], Goes(j, u)
      PROVE  LifeInv'
  <2>1. /\ task' \in [Job -> Task] /\ task'[j].pc = AfterTxn[t.txn]
        /\ \A k \in Job \ {j} : task'[k] = task[k]
    BY <1>4, GoesFacts
  <2>2. /\ row' \in [Job -> JobRow] /\ row'[j].status = JobStatusOf[t.txn]
        /\ \A k \in Job \ {j} : row'[k] = row[k]
    BY <1>4 DEF TypeOK
  <2>3. /\ doc' \in [Doc -> DocStatus]
        /\ doc'[d] = IF t.seenDoc = s THEN doc[d] ELSE s
        /\ \A e \in Doc \ {d} : doc'[e] = doc[e]
    BY <1>1, <1>4 DEF TypeOK
  <2>4. \A e \in Doc : doc'[e] = "gone" <=> doc[e] = "gone"
    BY <1>1, <1>4, <2>3
  <2>5. AfterTxn[t.txn] \in {"fetch", "ack", "idle"} /\ (AfterTxn[t.txn] = "fetch" => t.txn = "claim")
    BY <1>1 DEF AfterTxn, Txn
  <2>6. j \in (1 .. sent) \ acked /\ JobsOf(d) # {}
    BY <1>1 DEF Unsettled, JobsOf
  <2>7. TypeOK'
    BY <1>2, <2>1, <2>2, <2>3 DEF TypeOK
  <2>8. RoomIsKept' /\ KnownOnly'
    BY <1>2, <2>1, <2>2, <2>4, <2>6 DEF RoomIsKept, Owing, KnownOnly, TypeOK
  <2>9. RowHasItsFile' /\ GoneHasNoFile' /\ \A r \in Request : RequestOK(r)'
    <3>1. RowHasItsFile'
      BY <1>2, <2>4 DEF RowHasItsFile
    <3>2. GoneHasNoFile'
      BY <1>2, <2>4 DEF GoneHasNoFile, Serves, TypeOK
    <3>3. ASSUME NEW r \in Request PROVE RequestOK(r)'
      <4>1. req[r].pc # "idle" => req[r].doc \in Doc
        BY DEF TypeOK, RequestState, NoRequest
      <4> QED BY <1>2, <2>4, <4>1 DEF RequestOK, Serves, JobsOf
    <3> QED BY <3>1, <3>2, <3>3
  <2>10. GoneIsEmpty'
    BY <1>1, <1>2, <1>4, <2>2, <2>4 DEF GoneIsEmpty, JobsOf, TypeOK, Job
  <2>11. TasksOK'
    <3> SUFFICES ASSUME NEW k \in Job, task'[k].pc # "idle" PROVE TaskOK(k)'
      BY DEF TasksOK
    <3>1. CASE k = j
      <4>1. row'[j].status = "PROCESSING" \/ task'[j].pc = "ack"
        BY <2>1, <2>2, <2>5, <3>1 DEF JobStatusOf
      <4> QED BY <2>1, <2>5, <3>1, <4>1 DEF TaskOK
    <3>2. CASE k # j
      <4>1. TaskOK(k) /\ docOf[k] \in Doc
        BY <2>1, <3>2, AtWorkFacts
      <4> QED BY <1>2, <2>1, <2>2, <2>4, <3>2, <4>1 DEF TaskOK
    <3> QED BY <3>1, <3>2
  <2>12. CompletedIsSearchable'
    <3>1. s = "INDEXED" => t.txn = "complete"
      BY <1>1 DEF DocStatusOf, JobStatusOf, Txn
    <3>2. t.txn = "complete" => d \in chunks
      BY <1>1, <1>4 DEF TaskOK
    <3>3. doc'[d] = "INDEXED" => d \in chunks
      BY <1>1, <2>3, <3>1, <3>2 DEF CompletedIsSearchable
    <3> QED BY <1>2, <2>3, <3>3 DEF CompletedIsSearchable
  <2>13. WaitingHasAMover'
    <3> SUFFICES ASSUME NEW e \in Doc \ stranded, doc'[e] \in Waiting
                 PROVE  HasMover(e)'
      BY <1>2 DEF WaitingHasAMover, Waiting
    <3>1. Unsettled(e)' = Unsettled(e) /\ \A k \in Unsettled(e) : k \in Job
      BY <1>2, LifeAssumption DEF Unsettled, JobsOf, Job, TypeOK
    <3>2. \A k \in Unsettled(e) \ {j} : Spent(k)' <=> Spent(k)
      BY <2>1, <2>2, <3>1 DEF Spent
    <3>3. CASE e = d /\ t.txn \in {"claim", "requeue"}
      <4>1. ~Spent(j)'
        <5>1. row'[j].status # "COMPLETED" /\ task'[j].pc \notin {"ack", "commit"}
          BY <2>1, <2>2, <3>3 DEF JobStatusOf, AfterTxn
        <5> QED BY <5>1 DEF Spent
      <4> QED BY <1>1, <3>1, <3>3, <4>1 DEF HasMover
    <3>4. CASE e = d /\ t.txn \notin {"claim", "requeue"}
      <4>1. t.txn \in {"complete", "fail"} /\ s \notin Waiting
        BY <1>1, <3>4 DEF Txn, DocStatusOf, JobStatusOf, Waiting
      <4>2. t.seenDoc = s /\ doc[d] \in Waiting
        BY <2>3, <3>4, <4>1
      <4>3. Spent(j) /\ HasMover(d)
        BY <1>1, <3>4, <4>1, <4>2 DEF Spent, WaitingHasAMover, Waiting
      <4> QED BY <1>2, <3>1, <3>2, <3>4, <4>3 DEF HasMover, Serves
    <3>5. CASE e # d
      <4>1. HasMover(e)
        BY <2>3, <3>5 DEF WaitingHasAMover, Waiting
      <4>2. j \notin Unsettled(e)
        BY <3>5 DEF Unsettled, JobsOf
      <4> QED BY <1>2, <3>1, <3>2, <4>1, <4>2 DEF HasMover, Serves
    <3> QED BY <3>3, <3>4, <3>5
  <2> QED BY <2>7, <2>8, <2>9, <2>10, <2>11, <2>12, <2>13
<1> QED BY <1>3, <1>4, CommitWrites

LEMMA AckInv ==
    ASSUME LifeInv, NEW j \in Job, Ack(j)
    PROVE  LifeInv'
<1> USE DEF LifeInv
<1>1. /\ j \in (1 .. sent) \ acked /\ task[j].pc = "ack"
  BY AtWorkFacts DEF Ack
<1>2. /\ task' \in [Job -> Task] /\ task'[j] = NoTask
      /\ \A k \in Job \ {j} : task'[k] = task[k]
  BY NoTaskFacts, GoesFacts DEF Ack
<1>3. /\ acked' = acked \cup {j}
      /\ UNCHANGED <<created, blob, doc, row, assessed, chunks, sent, docOf, tried, req,
                     stranded, faults>>
  BY DEF Ack, NoFault, stores
<1>4. TypeOK' /\ RoomIsKept' /\ KnownOnly'
  <2>1. TypeOK'
    BY <1>1, <1>2, <1>3 DEF TypeOK
  <2>2. RoomIsKept'
    BY <1>3 DEF RoomIsKept, Owing
  <2>3. KnownOnly'
    BY <1>1, <1>2, <1>3 DEF KnownOnly
  <2> QED BY <2>1, <2>2, <2>3
<1>5. /\ RowHasItsFile' /\ GoneHasNoFile' /\ GoneIsEmpty' /\ CompletedIsSearchable'
      /\ \A r \in Request : RequestOK(r)'
  BY <1>3 DEF RowHasItsFile, GoneHasNoFile, GoneIsEmpty, CompletedIsSearchable,
              RequestOK, Serves, JobsOf
<1>6. TasksOK'
  BY <1>2, <1>3, NoTaskFacts DEF TasksOK, TaskOK
<1>7. WaitingHasAMover'
  <2> SUFFICES ASSUME NEW d \in Doc \ stranded, doc[d] \in Waiting
               PROVE  HasMover(d)'
    BY <1>3 DEF WaitingHasAMover, Waiting
  <2>1. HasMover(d)
    BY DEF WaitingHasAMover, Waiting
  <2>2. Unsettled(d)' = Unsettled(d) \ {j} /\ \A k \in Unsettled(d) : k \in Job
    BY <1>3, LifeAssumption DEF Unsettled, JobsOf, Job, TypeOK
  <2>3. Spent(j) /\ \A k \in Unsettled(d) \ {j} : Spent(k)' <=> Spent(k)
    BY <1>1, <1>2, <1>3, <2>2 DEF Spent
  <2> QED BY <1>3, <2>1, <2>2, <2>3 DEF HasMover, Serves
<1> QED BY <1>4, <1>5, <1>6, <1>7

-----------------------------------------------------------------------------
(***************************************************************************)
(* Steps of a request.                                                     *)
(***************************************************************************)

\* A request at work has a document that was created.
LEMMA ServingFacts ==
    ASSUME TypeOK, NEW r \in Request
    PROVE  /\ req[r].pc \in RequestPC
           /\ req[r] = NoRequest <=> req[r].pc = "idle"
           /\ req[r].pc # "idle" =>
                 req[r].doc \in created /\ req[r].doc \in Doc /\ req[r].seen \in DocStatus
BY DEF TypeOK, RequestState, NoRequest, RequestPC

\* The states a request is put into.
LEMMA RequestAtFacts ==
    ASSUME NEW pc \in RequestPC \ {"idle"}, NEW ids, NEW d \in ids, NEW seen \in DocStatus
    PROVE  /\ RequestAt(pc, d, seen) \in RequestState(ids)
           /\ RequestAt(pc, d, seen).pc = pc
           /\ RequestAt(pc, d, seen).doc = d
BY DEF RequestAt, RequestState

LEMMA BeginsRequest ==
    ASSUME TypeOK, NEW r \in Request, NEW ids, created \subseteq ids, NEW d \in ids,
           NEW pc \in RequestPC \ {"idle"}, NEW seen \in DocStatus,
           req' = [req EXCEPT ![r] = RequestAt(pc, d, seen)]
    PROVE  /\ req' \in [Request -> RequestState(ids)]
           /\ req'[r].pc = pc /\ req'[r].doc = d
           /\ \A q \in Request \ {r} : req'[q] = req[q]
<1>1. \A q \in Request : req[q] \in RequestState(ids)
  BY DEF TypeOK, RequestState
<1> QED BY <1>1, RequestAtFacts DEF TypeOK

LEMMA BecomesFacts ==
    ASSUME TypeOK, NEW r \in Request, req[r].pc # "idle", NEW pc \in RequestPC, Becomes(r, pc)
    PROVE  /\ req' \in [Request -> RequestState(created)]
           /\ req'[r].pc = pc
           /\ pc # "idle" => req'[r].doc = req[r].doc
           /\ \A q \in Request \ {r} : req'[q] = req[q]
<1>1. CASE pc = "idle"
  <2>1. NoRequest \in RequestState(created) /\ NoRequest.pc = "idle"
    BY DEF RequestState, NoRequest
  <2> QED BY <1>1, <2>1 DEF Becomes, TypeOK
<1>2. CASE pc # "idle"
  <2>1. /\ pc \in RequestPC \ {"idle"} /\ created \subseteq created
        /\ req[r].doc \in created /\ "gone" \in DocStatus
    BY <1>2, ServingFacts DEF DocStatus
  <2>2. req' = [req EXCEPT ![r] = RequestAt(pc, req[r].doc, "gone")]
    BY <1>2 DEF Becomes
  <2>3. /\ req' \in [Request -> RequestState(created)]
        /\ req'[r].pc = pc /\ req'[r].doc = req[r].doc
        /\ \A q \in Request \ {r} : req'[q] = req[q]
    BY <2>1, <2>2, BeginsRequest
  <2> QED BY <2>3
<1> QED BY <1>1, <1>2

\* How one request changes the number of messages that are still owed.
LEMMA OwingFacts ==
    ASSUME NEW r \in Request, \A q \in Request \ {r} : req'[q] = req[q]
    PROVE  /\ Cardinality(Owing) \in Nat /\ Cardinality(Owing') \in Nat
           /\ r \in Owing /\ r \notin Owing' => Cardinality(Owing) = Cardinality(Owing') + 1
           /\ r \notin Owing /\ r \in Owing' => Cardinality(Owing') = Cardinality(Owing) + 1
           /\ (r \in Owing <=> r \in Owing') => Cardinality(Owing') = Cardinality(Owing)
<1>1. Owing \in SUBSET Request /\ Owing' \in SUBSET Request
  BY DEF Owing
<1>2. IsFiniteSet(Owing) /\ IsFiniteSet(Owing')
  BY <1>1, LifeAssumption, FS_Subset
<1>3. Cardinality(Owing) \in Nat /\ Cardinality(Owing') \in Nat
  BY <1>2, FS_CardinalityType
<1>4. CASE r \in Owing /\ r \notin Owing'
  <2>1. Owing = Owing' \cup {r}
    BY <1>4 DEF Owing
  <2> QED BY <1>2, <1>3, <1>4, <2>1, FS_AddElement
<1>5. CASE r \notin Owing /\ r \in Owing'
  <2>1. Owing' = Owing \cup {r}
    BY <1>5 DEF Owing
  <2> QED BY <1>2, <1>3, <1>5, <2>1, FS_AddElement
<1>6. CASE r \in Owing <=> r \in Owing'
  <2>1. Owing' = Owing
    BY <1>6 DEF Owing
  <2> QED BY <1>3, <1>6, <2>1
<1> QED BY <1>3, <1>4, <1>5, <1>6

\* A request that begins needs room, one that goes on or ends does not.
LEMMA RoomInv ==
    ASSUME TypeOK, RoomIsKept, NEW r \in Request, \A q \in Request \ {r} : req'[q] = req[q],
           sent' = sent,
           HasRoom \/ r \in Owing \/ r \notin Owing'
    PROVE  RoomIsKept'
BY OwingFacts, LifeAssumption DEF RoomIsKept, HasRoom, TypeOK

(***************************************************************************)
(* The steps of a request outside the stream and the job table.  A row may *)
(* only appear for a document no message speaks of, and nothing completes  *)
(* a document; a document left waiting keeps its mover unless request r    *)
(* was that, and takes r for it if r is on its way to the stream.          *)
(***************************************************************************)
Publishes(r, d) == Serves(r, d) /\ req[r].pc \in {"publish", "mark_failed"}

LEMMA RequestStep ==
    ASSUME LifeInv, TypeOK', NEW r \in Request,
           \A q \in Request \ {r} : req'[q] = req[q],
           UNCHANGED <<row, assessed, chunks, stream, task>>,
           created \subseteq created',
           HasRoom \/ r \in Owing \/ r \notin Owing',
           \A d \in Doc \ created' : doc'[d] = "gone",
           \A d \in Doc : doc[d] = "gone" /\ JobsOf(d) # {} => doc'[d] = "gone",
           \A d \in Doc : doc'[d] = "gone" => doc[d] = "gone",
           \A d \in Doc : doc'[d] = "INDEXED" => doc[d] = "INDEXED",
           \A d \in Doc \ stranded' : doc'[d] \in Waiting =>
               \/ Publishes(r, d)'
               \/ d \notin stranded /\ doc[d] \in Waiting /\ ~Publishes(r, d),
           RowHasItsFile', GoneHasNoFile', \A q \in Request : RequestOK(q)'
    PROVE  LifeInv'
<1> USE DEF LifeInv
<1>1. RoomIsKept'
  BY RoomInv DEF stream
<1>2. \A d \in Doc : JobsOf(d)' = JobsOf(d) /\ Unsettled(d)' = Unsettled(d)
  BY DEF JobsOf, Unsettled, stream
<1>3. KnownOnly'
  BY DEF KnownOnly, stream
<1>4. GoneIsEmpty' /\ CompletedIsSearchable'
  BY <1>2 DEF GoneIsEmpty, CompletedIsSearchable
<1>5. TasksOK'
  <2> SUFFICES ASSUME NEW j \in Job, task[j].pc # "idle" PROVE TaskOK(j)'
    BY DEF TasksOK
  <2>1. TaskOK(j) /\ docOf[j] \in Doc /\ JobsOf(docOf[j]) # {}
    BY AtWorkFacts DEF JobsOf
  <2> QED BY <2>1 DEF TaskOK, stream
<1>6. WaitingHasAMover'
  <2> SUFFICES ASSUME NEW d \in Doc \ stranded', doc'[d] \in Waiting
               PROVE  HasMover(d)'
    BY DEF WaitingHasAMover, Waiting
  <2>1. CASE Publishes(r, d)'
    BY <2>1 DEF HasMover, Publishes
  <2>2. CASE d \notin stranded /\ doc[d] \in Waiting /\ ~Publishes(r, d)
    <3>1. HasMover(d)
      BY <2>2 DEF WaitingHasAMover, Waiting
    <3> QED BY <1>2, <2>2, <3>1 DEF HasMover, Publishes, Serves, Spent
  <2> QED BY <2>1, <2>2
<1> QED BY <1>1, <1>3, <1>4, <1>5, <1>6

LEMMA CreateInv ==
    ASSUME LifeInv, NEW r \in Request, NEW d \in Doc, Create(r, d)
    PROVE  LifeInv'
<1> USE DEF LifeInv
<1>1. /\ req[r].pc = "idle" /\ d \in Doc \ created /\ HasRoom
      /\ created' = created \cup {d} /\ blob' = blob \cup {d}
      /\ UNCHANGED <<doc, row, assessed, chunks, sent, docOf, tried, acked, task,
                     stranded, faults>>
  BY ServingFacts DEF Create, Saved, NoFault, stream
<1>2. /\ req' \in [Request -> RequestState(created')]
      /\ req'[r].pc = "insert" /\ req'[r].doc = d
      /\ \A q \in Request \ {r} : req'[q] = req[q]
  <2>1. /\ "insert" \in RequestPC \ {"idle"} /\ "gone" \in DocStatus
        /\ created \subseteq created' /\ d \in created'
        /\ req' = [req EXCEPT ![r] = RequestAt("insert", d, "gone")]
    BY <1>1 DEF RequestPC, DocStatus, Create
  <2> QED BY <2>1, BeginsRequest
<1>3. TypeOK'
  <2>1. docOf' \in [1 .. sent' -> created']
    BY <1>1 DEF TypeOK
  <2> QED BY <1>1, <1>2, <2>1 DEF TypeOK
<1>4. RowHasItsFile'
  BY <1>1 DEF RowHasItsFile
<1>5. GoneHasNoFile'
  <2> SUFFICES ASSUME NEW e \in created' \ stranded, doc[e] = "gone", e \in blob'
               PROVE  \E q \in Request : Serves(q, e)' /\ req'[q].pc \in {"insert", "unlink"}
    BY <1>1 DEF GoneHasNoFile
  <2>1. CASE e = d
    BY <1>2, <2>1 DEF Serves
  <2>2. CASE e # d
    <3>1. e \in created \ stranded /\ e \in blob
      BY <1>1, <2>2
    <3>2. PICK q \in Request : Serves(q, e) /\ req[q].pc \in {"insert", "unlink"}
      BY <3>1 DEF GoneHasNoFile
    <3> QED BY <1>1, <1>2, <3>2 DEF Serves
  <2> QED BY <2>1, <2>2
<1>6. ASSUME NEW q \in Request PROVE RequestOK(q)'
  <2>1. \A e \in Doc : JobsOf(e)' = JobsOf(e)
    BY <1>1 DEF JobsOf
  <2>2. CASE q = r
    <3>1. doc[d] = "gone" /\ d \notin stranded /\ JobsOf(d) = {}
      BY <1>1 DEF KnownOnly, TypeOK, JobsOf
    <3>2. \A p \in Request \ {r} : ~Serves(p, d)'
      BY <1>1, <1>2, ServingFacts DEF Serves
    <3> QED BY <1>1, <1>2, <2>1, <2>2, <3>1, <3>2 DEF RequestOK
  <2>3. CASE q # r
    <3>1. RequestOK(q) /\ (req[q].pc # "idle" => req[q].doc \in created /\ req[q].doc \in Doc)
      BY ServingFacts
    <3>2. req[q].pc # "idle" => ~Serves(r, req[q].doc)'
      BY <1>1, <1>2, <3>1 DEF Serves
    <3> QED BY <1>1, <1>2, <2>1, <2>3, <3>1, <3>2 DEF RequestOK, Serves
  <2> QED BY <2>2, <2>3
<1>7. \A e \in Doc \ stranded : doc[e] \in Waiting => ~Publishes(r, e)
  BY <1>1 DEF Publishes
<1>8. \A e \in Doc \ created' : doc'[e] = "gone"
  BY <1>1 DEF KnownOnly
<1> QED BY <1>1, <1>2, <1>3, <1>4, <1>5, <1>6, <1>7, <1>8, RequestStep DEF stream

LEMMA ReprocessInv ==
    ASSUME LifeInv, NEW r \in Request, NEW d \in Doc, Reprocess(r, d)
    PROVE  LifeInv'
<1> USE DEF LifeInv
<1>1. /\ req[r].pc = "idle" /\ doc[d] # "gone" /\ HasRoom
      /\ UNCHANGED <<created, blob, doc, row, assessed, chunks, sent, docOf, tried,
                     acked, task, stranded, faults>>
  BY ServingFacts DEF Reprocess, NoFault, stream, stores
<1>2. /\ req' \in [Request -> RequestState(created)]
      /\ req'[r].pc = "reset" /\ req'[r].doc = d
      /\ \A q \in Request \ {r} : req'[q] = req[q]
  <2>1. /\ "reset" \in RequestPC \ {"idle"} /\ doc[d] \in DocStatus
        /\ created \subseteq created /\ d \in created
        /\ req' = [req EXCEPT ![r] = RequestAt("reset", d, doc[d])]
    BY <1>1 DEF RequestPC, Reprocess, TypeOK, KnownOnly
  <2> QED BY <2>1, BeginsRequest
<1>3. TypeOK'
  BY <1>1, <1>2 DEF TypeOK
<1>4. RowHasItsFile'
  BY <1>1 DEF RowHasItsFile
<1>5. GoneHasNoFile'
  BY <1>1, <1>2 DEF GoneHasNoFile, Serves
<1>6. ASSUME NEW q \in Request PROVE RequestOK(q)'
  <2>1. \A e \in Doc : JobsOf(e)' = JobsOf(e)
    BY <1>1 DEF JobsOf
  <2>2. CASE q = r
    BY <1>2, <2>2 DEF RequestOK
  <2>3. CASE q # r
    <3>1. RequestOK(q) /\ (req[q].pc # "idle" => req[q].doc \in Doc)
      BY ServingFacts
    <3> QED BY <1>1, <1>2, <2>1, <2>3, <3>1 DEF RequestOK, Serves
  <2> QED BY <2>2, <2>3
<1>7. \A e \in Doc \ stranded : doc[e] \in Waiting => ~Publishes(r, e)
  BY <1>1 DEF Publishes
<1> QED BY <1>1, <1>2, <1>3, <1>4, <1>5, <1>6, <1>7, RequestStep DEF stream, KnownOnly

(***************************************************************************)
(* A request that goes on or ends, with document d: what has to be shown   *)
(* is what becomes of d.                                                   *)
(***************************************************************************)
LEMMA RequestMoves ==
    ASSUME LifeInv, NEW r \in Request, req[r].pc # "idle",
           NEW d, d = req[r].doc,
           NEW pc \in RequestPC \ {"insert", "reset", "unlink"}, Becomes(r, pc),
           UNCHANGED <<created, row, assessed, chunks, stream, task>>,
           faults' \in 0 .. MaxFaults,
           doc' \in [Doc -> DocStatus],
           \A e \in Doc \ {d} : doc'[e] = doc[e],
           blob' = blob \/ blob' = blob \ {d},
           stranded' = stranded \/ stranded' = stranded \cup {d},
           pc = "publish" => r \in Owing,
           doc'[d] = "gone" => doc[d] = "gone",
           doc[d] = "gone" => doc'[d] = "gone" \/ req[r].pc = "insert",
           doc'[d] = "INDEXED" => doc[d] = "INDEXED",
           d \notin stranded' /\ doc'[d] # "gone" => d \in blob',
           d \notin stranded' /\ d \in blob' /\ req[r].pc \in {"insert", "unlink"} =>
               doc'[d] # "gone",
           d \notin stranded' /\ doc'[d] \in Waiting =>
               \/ pc \in {"publish", "mark_failed"}
               \/ doc[d] \in Waiting /\ req[r].pc \notin {"publish", "mark_failed"}
    PROVE  LifeInv'
<1> USE DEF LifeInv
<1>1. /\ d \in created /\ d \in Doc /\ Serves(r, d) /\ RequestOK(r)
      /\ \A e \in Doc \ {d} : ~Serves(r, e)
  BY ServingFacts DEF Serves
<1>2. /\ req' \in [Request -> RequestState(created)] /\ req'[r].pc = pc
      /\ pc # "idle" => req'[r].doc = d
      /\ \A q \in Request \ {r} : req'[q] = req[q]
  BY BecomesFacts
<1>3. TypeOK'
  BY <1>1, <1>2 DEF TypeOK, stream
<1>4. \A e \in Doc \ {d} : ~Serves(r, e)'
  BY <1>2 DEF Serves
<1>5. RowHasItsFile'
  BY <1>1 DEF RowHasItsFile
<1>6. GoneHasNoFile'
  <2> SUFFICES ASSUME NEW e \in created \ stranded', doc'[e] = "gone", e \in blob'
               PROVE  \E q \in Request : Serves(q, e)' /\ req'[q].pc \in {"insert", "unlink"}
    BY DEF GoneHasNoFile
  <2>1. e \in created \ stranded /\ e \in Doc /\ doc[e] = "gone" /\ e \in blob
    BY DEF TypeOK
  <2>2. PICK q \in Request : Serves(q, e) /\ req[q].pc \in {"insert", "unlink"}
    BY <2>1 DEF GoneHasNoFile
  <2>3. q # r
    BY <1>1, <2>1, <2>2
  <2> QED BY <1>2, <2>2, <2>3 DEF Serves
<1>7. ASSUME NEW q \in Request PROVE RequestOK(q)'
  <2>1. \A e \in Doc : JobsOf(e)' = JobsOf(e)
    BY DEF JobsOf, stream
  <2>2. CASE q = r
    BY <1>2, <2>2 DEF RequestOK
  <2>3. CASE q # r
    <3>1. RequestOK(q) /\ (req[q].pc # "idle" => req[q].doc \in Doc)
      BY ServingFacts
    <3>2. CASE req[q].pc = "insert"
      <4>1. req[q].doc # d
        BY <1>1, <2>3, <3>1, <3>2 DEF RequestOK
      <4> QED BY <1>1, <1>2, <1>4, <2>1, <2>3, <3>1, <3>2, <4>1 DEF RequestOK, Serves
    <3>3. CASE req[q].pc = "unlink"
      <4>1. req[q].doc = d => req[r].pc # "insert"
        BY <1>1, <2>3, <3>3 DEF RequestOK, Serves
      <4> QED BY <1>1, <1>2, <2>3, <3>1, <3>3, <4>1 DEF RequestOK
    <3>4. CASE req[q].pc \notin {"insert", "unlink"}
      BY <1>2, <2>3, <3>4 DEF RequestOK
    <3> QED BY <3>2, <3>3, <3>4
  <2> QED BY <2>2, <2>3
<1>8. \A e \in Doc \ stranded' : doc'[e] \in Waiting =>
          Publishes(r, e)' \/ (e \notin stranded /\ doc[e] \in Waiting /\ ~Publishes(r, e))
  <2> SUFFICES ASSUME NEW e \in Doc \ stranded', doc'[e] \in Waiting
               PROVE  \/ Publishes(r, e)'
                      \/ e \notin stranded /\ doc[e] \in Waiting /\ ~Publishes(r, e)
    OBVIOUS
  <2>1. CASE e = d
    BY <1>1, <1>2, <2>1 DEF Publishes, Serves
  <2>2. CASE e # d
    BY <1>1, <2>2 DEF Publishes
  <2> QED BY <2>1, <2>2
<1>9. \A e \in Doc : doc[e] = "gone" /\ JobsOf(e) # {} => doc'[e] = "gone"
  BY <1>1 DEF RequestOK
<1>10. r \in Owing \/ r \notin Owing'
  BY <1>2 DEF Owing
<1>11. /\ \A e \in Doc \ created' : doc'[e] = "gone"
       /\ \A e \in Doc : doc'[e] = "gone" => doc[e] = "gone"
       /\ \A e \in Doc : doc'[e] = "INDEXED" => doc[e] = "INDEXED"
  BY <1>1 DEF KnownOnly
<1> QED BY <1>2, <1>3, <1>5, <1>6, <1>7, <1>8, <1>9, <1>10, <1>11, RequestStep

LEMMA InsertInv ==
    ASSUME LifeInv, NEW r \in Request, Insert(r)
    PROVE  LifeInv'
<1> DEFINE d == req[r].doc
<1> USE DEF LifeInv
<1>1. /\ req[r].pc = "insert" /\ RequestOK(r) /\ d \in Doc
      /\ UNCHANGED <<created, row, assessed, chunks, stream, task>>
      /\ r \in Owing
  BY ServingFacts DEF Insert, Owing
<1>2. /\ doc[d] = "gone" /\ d \in blob
      /\ faults \in 0 .. MaxFaults /\ doc \in [Doc -> DocStatus]
  BY <1>1 DEF RequestOK, TypeOK
<1>3. CASE /\ doc' = Inserted(d) /\ Becomes(r, "publish") /\ NoFault
           /\ UNCHANGED <<blob, stranded>>
  <2>1. doc' \in [Doc -> DocStatus] /\ doc'[d] = "UPLOADED" /\ \A e \in Doc \ {d} : doc'[e] = doc[e]
    BY <1>1, <1>2, <1>3 DEF Inserted, DocStatus
  <2> QED BY <1>1, <1>2, <1>3, <2>1, RequestMoves DEF NoFault, RequestPC
<1>4. CASE /\ blob' = blob \ {d} /\ Becomes(r, "idle") /\ Fault("insert_fails")
           /\ UNCHANGED <<doc, stranded>>
  <2>1. faults' \in 0 .. MaxFaults
    BY <1>2, <1>4, LifeAssumption DEF Fault
  <2> QED BY <1>1, <1>2, <1>4, <2>1, RequestMoves DEF RequestPC, Waiting
<1>5. CASE /\ doc' = Inserted(d) /\ blob' = blob \ {d} /\ stranded' = stranded \cup {d}
           /\ Becomes(r, "idle") /\ Fault("insert_reply_lost")
  <2>1. doc' \in [Doc -> DocStatus] /\ doc'[d] = "UPLOADED" /\ \A e \in Doc \ {d} : doc'[e] = doc[e]
    BY <1>1, <1>2, <1>5 DEF Inserted, DocStatus
  <2>2. faults' \in 0 .. MaxFaults
    BY <1>2, <1>5, LifeAssumption DEF Fault
  <2> QED BY <1>1, <1>2, <1>5, <2>1, <2>2, RequestMoves DEF RequestPC
<1> QED BY <1>3, <1>4, <1>5 DEF Insert

LEMMA ResetInv ==
    ASSUME LifeInv, NEW r \in Request, Reset(r)
    PROVE  LifeInv'
<1> DEFINE d == req[r].doc
<1> USE DEF LifeInv
<1>1. /\ req[r].pc = "reset" /\ d \in Doc /\ d \in created /\ r \in Owing
      /\ UNCHANGED <<created, blob, row, assessed, chunks, stream, task, stranded, faults>>
  BY ServingFacts DEF Reset, Owing, NoFault
<1>2. faults' \in 0 .. MaxFaults /\ doc \in [Doc -> DocStatus]
  BY <1>1 DEF TypeOK
<1>3. CASE doc[d] = "gone"
  BY <1>1, <1>2, <1>3, RequestMoves DEF Reset, RequestPC, Waiting
<1>4. CASE doc[d] # "gone"
  <2>1. /\ Becomes(r, "publish")
        /\ doc' = [doc EXCEPT ![d] = Written(req[r].seen, "UPLOADED", doc[d])]
        /\ Written(req[r].seen, "UPLOADED", doc[d]) \in {"UPLOADED", doc[d]}
    BY <1>4 DEF Reset, Written
  <2>2. /\ doc' \in [Doc -> DocStatus] /\ doc'[d] \in {"UPLOADED", doc[d]}
        /\ \A e \in Doc \ {d} : doc'[e] = doc[e]
    BY <1>1, <1>2, <2>1 DEF DocStatus
  <2>3. d \notin stranded => d \in blob
    BY <1>1, <1>4 DEF RowHasItsFile
  <2> QED BY <1>1, <1>2, <1>4, <2>1, <2>2, <2>3, RequestMoves DEF RequestPC
<1> QED BY <1>3, <1>4

LEMMA MarkFailedInv ==
    ASSUME LifeInv, NEW r \in Request, MarkFailed(r)
    PROVE  LifeInv'
<1> DEFINE d == req[r].doc
<1> USE DEF LifeInv
<1>1. /\ req[r].pc = "mark_failed" /\ d \in Doc /\ Becomes(r, "idle")
      /\ UNCHANGED <<created, blob, row, assessed, chunks, stream, task, stranded, faults>>
  BY ServingFacts DEF MarkFailed, NoFault
<1>2. faults' \in 0 .. MaxFaults /\ doc \in [Doc -> DocStatus]
  BY <1>1 DEF TypeOK
<1>3. /\ doc' \in [Doc -> DocStatus]
      /\ doc'[d] = IF doc[d] = "gone" THEN "gone" ELSE "FAILED"
      /\ \A e \in Doc \ {d} : doc'[e] = doc[e]
  BY <1>1, <1>2 DEF MarkFailed, DocStatus
<1>4. d \notin stranded /\ doc[d] # "gone" => d \in blob
  BY <1>1 DEF RowHasItsFile
<1> QED BY <1>1, <1>2, <1>3, <1>4, RequestMoves DEF RequestPC, Waiting

LEMMA UnlinkInv ==
    ASSUME LifeInv, NEW r \in Request, Unlink(r)
    PROVE  LifeInv'
<1> DEFINE d == req[r].doc
<1> USE DEF LifeInv
<1>1. /\ req[r].pc = "unlink" /\ d \in Doc /\ Becomes(r, "idle") /\ RequestOK(r)
      /\ blob' = blob \ {d}
      /\ UNCHANGED <<created, doc, row, assessed, chunks, stream, task, stranded, faults>>
  BY ServingFacts DEF Unlink, Unlinked, NoFault
<1>2. /\ faults' \in 0 .. MaxFaults /\ doc \in [Doc -> DocStatus] /\ doc[d] = "gone"
  BY <1>1 DEF TypeOK, RequestOK
<1> QED BY <1>1, <1>2, RequestMoves DEF RequestPC, Waiting

LEMMA RequestDiesInv ==
    ASSUME LifeInv, NEW r \in Request, RequestDies(r)
    PROVE  LifeInv'
<1> DEFINE d == req[r].doc
<1> USE DEF LifeInv
<1>1. /\ req[r].pc # "idle" /\ d \in Doc /\ d \in created /\ Becomes(r, "idle")
      /\ stranded' = IF req[r].pc = "reset" THEN stranded ELSE stranded \cup {d}
      /\ UNCHANGED <<created, blob, doc, row, assessed, chunks, stream, task>>
  BY ServingFacts DEF RequestDies, stores
<1>2. faults' \in 0 .. MaxFaults /\ doc \in [Doc -> DocStatus]
  BY LifeAssumption DEF TypeOK, RequestDies, Fault
<1>3. d \notin stranded' /\ doc[d] # "gone" => d \in blob
  BY <1>1 DEF RowHasItsFile
<1> QED BY <1>1, <1>2, <1>3, RequestMoves DEF RequestPC

LEMMA DeleteInv ==
    ASSUME LifeInv, NEW r \in Request, NEW d \in Doc, Delete(r, d)
    PROVE  LifeInv'
<1> USE DEF LifeInv
<1>1. /\ req[r].pc = "idle" /\ doc[d] # "gone" /\ Cascade(d)
      /\ UNCHANGED <<created, blob, sent, docOf, tried, acked, task, stranded, faults>>
  BY ServingFacts DEF Delete, NoFault, stream
<1>2. /\ req' \in [Request -> RequestState(created)]
      /\ req'[r].pc = "unlink" /\ req'[r].doc = d
      /\ \A q \in Request \ {r} : req'[q] = req[q]
  <2>1. /\ "unlink" \in RequestPC \ {"idle"} /\ "gone" \in DocStatus
        /\ created \subseteq created /\ d \in created
        /\ req' = [req EXCEPT ![r] = RequestAt("unlink", d, "gone")]
    BY <1>1 DEF RequestPC, DocStatus, Delete, KnownOnly
  <2> QED BY <2>1, BeginsRequest
<1>3. /\ doc' \in [Doc -> DocStatus] /\ doc'[d] = "gone"
      /\ \A e \in Doc \ {d} : doc'[e] = doc[e]
  BY <1>1 DEF Cascade, TypeOK, DocStatus
<1>4. /\ row' \in [Job -> JobRow]
      /\ \A k \in JobsOf(d) : k \in Job => row'[k] = NoRow
      /\ \A k \in Job \ JobsOf(d) : row'[k] = row[k]
  BY <1>1, NoRowType DEF Cascade, TypeOK
<1>5. assessed' = assessed \ {d} /\ chunks' = chunks \ {d}
  BY <1>1 DEF Cascade
<1>6. /\ \A e \in Doc : JobsOf(e)' = JobsOf(e) /\ Unsettled(e)' = Unsettled(e)
      /\ \A e \in Doc : \A k \in JobsOf(e) : k \in Job /\ (e # d => k \notin JobsOf(d))
  BY <1>1, LifeAssumption DEF JobsOf, Unsettled, TypeOK, Job
<1>7. TypeOK'
  BY <1>1, <1>2, <1>3, <1>4, <1>5 DEF TypeOK
<1>8. RoomIsKept'
  BY <1>1, <1>2, RoomInv DEF Owing
<1>9. KnownOnly'
  BY <1>1, <1>3, <1>4 DEF KnownOnly
<1>10. RowHasItsFile'
  BY <1>1, <1>3 DEF RowHasItsFile
<1>11. GoneIsEmpty'
  BY <1>3, <1>4, <1>5, <1>6 DEF GoneIsEmpty
<1>12. GoneHasNoFile'
  <2> SUFFICES ASSUME NEW e \in created \ stranded, doc'[e] = "gone", e \in blob
               PROVE  \E q \in Request : Serves(q, e)' /\ req'[q].pc \in {"insert", "unlink"}
    BY <1>1 DEF GoneHasNoFile
  <2>1. CASE e = d
    BY <1>2, <2>1 DEF Serves
  <2>2. CASE e # d
    <3>1. doc[e] = "gone"
      BY <1>3, <2>2 DEF TypeOK
    <3>2. PICK q \in Request : Serves(q, e) /\ req[q].pc \in {"insert", "unlink"}
      BY <3>1 DEF GoneHasNoFile
    <3> QED BY <1>1, <1>2, <3>2 DEF Serves
  <2> QED BY <2>1, <2>2
<1>13. ASSUME NEW q \in Request PROVE RequestOK(q)'
  <2>1. CASE q = r
    BY <1>2, <1>3, <2>1 DEF RequestOK
  <2>2. CASE q # r
    <3>1. RequestOK(q) /\ (req[q].pc # "idle" => req[q].doc \in Doc)
      BY ServingFacts
    <3> QED BY <1>1, <1>2, <1>3, <1>6, <2>2, <3>1 DEF RequestOK, Serves
  <2> QED BY <2>1, <2>2
<1>14. TasksOK'
  <2> SUFFICES ASSUME NEW k \in Job, task[k].pc # "idle" PROVE TaskOK(k)'
    BY <1>1 DEF TasksOK
  <2>1. TaskOK(k) /\ docOf[k] \in Doc /\ (docOf[k] # d => k \notin JobsOf(d))
    BY AtWorkFacts DEF JobsOf
  <2> QED BY <1>1, <1>3, <1>4, <1>5, <2>1 DEF TaskOK
<1>15. CompletedIsSearchable'
  BY <1>3, <1>5 DEF CompletedIsSearchable
<1>16. WaitingHasAMover'
  <2> SUFFICES ASSUME NEW e \in Doc \ stranded, doc'[e] \in Waiting PROVE HasMover(e)'
    BY <1>1 DEF WaitingHasAMover, Waiting
  <2>1. e # d /\ HasMover(e)
    BY <1>3 DEF WaitingHasAMover, Waiting
  <2>2. \A k \in Unsettled(e) : Spent(k)' <=> Spent(k)
    BY <1>1, <1>4, <1>6, <2>1 DEF Spent, Unsettled
  <2> QED BY <1>1, <1>2, <1>6, <2>1, <2>2 DEF HasMover, Serves
<1> QED BY <1>7, <1>8, <1>9, <1>10, <1>11, <1>12, <1>13, <1>14, <1>15, <1>16

\* The message of a request that has reserved its place in the stream.
LEMMA EnqueueFacts ==
    ASSUME TypeOK, RoomIsKept, NEW r \in Owing, NEW d \in created, Enqueue(d)
    PROVE  /\ sent + 1 \in Job /\ sent' = sent + 1 /\ sent' \in 0 .. MaxJobs
           /\ docOf' \in [1 .. sent' -> created]
           /\ docOf'[sent + 1] = d
           /\ \A k \in 1 .. sent : docOf'[k] = docOf[k]
           /\ UNCHANGED <<tried, acked>>
<1>1. /\ sent' = sent + 1 /\ docOf' = Append(docOf, d) /\ UNCHANGED <<tried, acked>>
      /\ sent \in Nat /\ MaxJobs \in Nat /\ docOf \in [1 .. sent -> created]
  BY LifeAssumption DEF Enqueue, TypeOK
<1>2. Cardinality(Owing) \in Nat \ {0}
  <2>1. IsFiniteSet(Owing)
    BY LifeAssumption, FS_Subset DEF Owing
  <2> QED BY <2>1, FS_CardinalityType, FS_EmptySet
<1>3. sent + 1 <= MaxJobs
  BY <1>1, <1>2 DEF RoomIsKept
<1>4. docOf \in Seq(created) /\ Len(docOf) = sent
  BY <1>1
<1>5. /\ docOf' \in Seq(created) /\ Len(docOf') = sent + 1
      /\ docOf'[sent + 1] = d
      /\ \A k \in 1 .. sent : docOf'[k] = docOf[k]
  BY <1>1, <1>4
<1>6. docOf' \in [1 .. sent + 1 -> created]
  BY <1>5
<1>7. sent + 1 \in Job /\ sent + 1 \in 0 .. MaxJobs
  BY <1>1, <1>3 DEF Job
<1> QED BY <1>1, <1>5, <1>6, <1>7

LEMMA PublishInv ==
    ASSUME LifeInv, NEW r \in Request, Publish(r)
    PROVE  LifeInv'
<1> USE DEF LifeInv
<1>0. PICK d : d = req[r].doc
  OBVIOUS
<1>1. /\ req[r].pc = "publish" /\ d \in Doc /\ d \in created /\ r \in Owing
      /\ UNCHANGED <<created, blob, doc, row, assessed, chunks, task, stranded>>
      /\ faults' \in 0 .. MaxFaults
  BY <1>0, ServingFacts, LifeAssumption DEF Publish, Owing, stores, NoFault, Fault, TypeOK
<1>2. CASE Becomes(r, "mark_failed") /\ UNCHANGED stream
  <2>1. d \notin stranded /\ doc[d] # "gone" => d \in blob
    BY <1>1 DEF RowHasItsFile
  <2> QED BY <1>0, <1>1, <1>2, <2>1, RequestMoves DEF RequestPC, TypeOK
<1>3. ASSUME NEW pc \in {"idle", "mark_failed"}, Becomes(r, pc), Enqueue(d)
      PROVE  LifeInv'
  <2>0. PICK n : n = sent + 1
    OBVIOUS
  <2>1. /\ req' \in [Request -> RequestState(created)] /\ req'[r].pc = pc
        /\ pc # "idle" => req'[r].doc = d
        /\ \A q \in Request \ {r} : req'[q] = req[q]
    BY <1>0, <1>1, <1>3, BecomesFacts DEF RequestPC
  <2>2. /\ n \in Job /\ sent' = n /\ sent' \in 0 .. MaxJobs /\ sent \in Nat
        /\ docOf' \in [1 .. sent' -> created] /\ docOf'[n] = d
        /\ \A k \in 1 .. sent : docOf'[k] = docOf[k]
        /\ UNCHANGED <<tried, acked>>
    BY <1>1, <1>3, <2>0, EnqueueFacts DEF TypeOK
  <2>3. acked \subseteq 1 .. sent /\ n \notin 1 .. sent /\ 1 .. sent' = (1 .. sent) \cup {n}
    BY <2>0, <2>2 DEF TypeOK
  <2>4. /\ JobsOf(d)' = JobsOf(d) \cup {n} /\ Unsettled(d)' = Unsettled(d) \cup {n}
        /\ \A e \in Doc \ {d} : JobsOf(e)' = JobsOf(e) /\ Unsettled(e)' = Unsettled(e)
    <3>1. \A k : k \in 1 .. sent' <=> k \in 1 .. sent \/ k = n
      BY <2>3
    <3>2. JobsOf(d)' = JobsOf(d) \cup {n}
      BY <2>2, <3>1 DEF JobsOf
    <3>3. \A e \in Doc \ {d} : JobsOf(e)' = JobsOf(e)
      BY <2>2, <2>3, <3>1 DEF JobsOf
    <3> QED BY <2>2, <2>3, <3>2, <3>3 DEF Unsettled
  <2>5. row[n] = NoRow /\ task[n] = NoTask
    BY <2>2, <2>3 DEF KnownOnly
  <2>6. TypeOK'
    BY <1>1, <2>1, <2>2, <2>3 DEF TypeOK
  <2>7. RoomIsKept'
    <3>1. r \notin Owing'
      BY <2>1 DEF Owing
    <3>2. Cardinality(Owing) = Cardinality(Owing)' + 1
      BY <1>1, <2>1, <3>1, OwingFacts
    <3>3. Cardinality(Owing)' \in Nat
      BY <2>1, OwingFacts
    <3> QED BY <2>0, <2>2, <3>2, <3>3, LifeAssumption DEF RoomIsKept
  <2>8. KnownOnly'
    BY <1>1, <2>2, <2>3 DEF KnownOnly
  <2>9. RowHasItsFile' /\ CompletedIsSearchable'
    BY <1>1 DEF RowHasItsFile, CompletedIsSearchable
  <2>10. GoneIsEmpty'
    BY <1>1, <2>4, <2>5 DEF GoneIsEmpty
  <2>11. GoneHasNoFile'
    BY <1>1, <2>1 DEF GoneHasNoFile, Serves
  <2>12. ASSUME NEW q \in Request PROVE RequestOK(q)'
    <3>1. CASE q = r
      BY <2>1, <3>1 DEF RequestOK
    <3>2. CASE q # r
      <4>1. RequestOK(q) /\ (req[q].pc # "idle" => req[q].doc \in Doc)
        BY ServingFacts
      <4>2. req[q].pc = "insert" => req[q].doc # d
        BY <1>0, <1>1, <3>2, <4>1 DEF RequestOK, Serves
      <4> QED BY <1>1, <2>1, <2>4, <3>2, <4>1, <4>2 DEF RequestOK, Serves
    <3> QED BY <3>1, <3>2
  <2>13. TasksOK'
    <3> SUFFICES ASSUME NEW k \in Job, task[k].pc # "idle" PROVE TaskOK(k)'
      BY <1>1 DEF TasksOK
    <3>1. TaskOK(k) /\ k \in 1 .. sent
      BY AtWorkFacts
    <3> QED BY <1>1, <2>2, <3>1 DEF TaskOK
  <2>14. WaitingHasAMover'
    <3> SUFFICES ASSUME NEW e \in Doc \ stranded, doc[e] \in Waiting PROVE HasMover(e)'
      BY <1>1 DEF WaitingHasAMover, Waiting
    <3>1. CASE e = d
      <4>1. ~Spent(n)'
        BY <1>1, <2>5, NoRowType, NoTaskFacts DEF Spent
      <4> QED BY <2>4, <3>1, <4>1 DEF HasMover
    <3>2. CASE e # d
      <4>1. HasMover(e)
        BY DEF WaitingHasAMover, Waiting
      <4>2. \A k \in Unsettled(e) : Spent(k)' <=> Spent(k)
        BY <1>1 DEF Spent
      <4> QED BY <1>0, <1>1, <2>1, <2>4, <3>2, <4>1, <4>2 DEF HasMover, Serves
    <3> QED BY <3>1, <3>2
  <2> QED BY <2>6, <2>7, <2>8, <2>9, <2>10, <2>11, <2>12, <2>13, <2>14
<1> QED BY <1>0, <1>2, <1>3 DEF Publish, AfterFailedPublish

-----------------------------------------------------------------------------
(***************************************************************************)
(* The invariant.                                                          *)
(***************************************************************************)
LEMMA InitInv == Init => LifeInv
<1> SUFFICES ASSUME Init PROVE LifeInv
  OBVIOUS
<1> USE DEF Init
<1>1. \A r \in Request : req[r] = NoRequest /\ req[r].pc = "idle"
  BY DEF NoRequest
<1>2. \A j \in Job : task[j] = NoTask /\ task[j] \in Task /\ task[j].pc = "idle"
  BY NoTaskFacts
<1>3. TypeOK
  <2>1. docOf \in [1 .. sent -> created]
    OBVIOUS
  <2>2. req \in [Request -> RequestState(created)] /\ task \in [Job -> Task]
    BY <1>2 DEF RequestState
  <2> QED BY <2>1, <2>2, NoRowType, LifeAssumption DEF TypeOK, DocStatus
<1>4. RoomIsKept
  <2>1. Owing = {}
    BY <1>1 DEF Owing
  <2> QED BY <2>1, FS_EmptySet, LifeAssumption DEF RoomIsKept
<1>5. KnownOnly /\ RowHasItsFile /\ GoneIsEmpty /\ GoneHasNoFile
  BY <1>2 DEF KnownOnly, RowHasItsFile, GoneIsEmpty, GoneHasNoFile, JobsOf
<1>6. (\A r \in Request : RequestOK(r)) /\ TasksOK
  BY <1>1, <1>2 DEF RequestOK, TasksOK
<1>7. CompletedIsSearchable /\ WaitingHasAMover
  BY DEF CompletedIsSearchable, WaitingHasAMover
<1> QED BY <1>3, <1>4, <1>5, <1>6, <1>7 DEF LifeInv

\* Nothing happens when nothing changes.
LEMMA StutterInv ==
    ASSUME LifeInv, UNCHANGED vars
    PROVE  LifeInv'
<1> USE DEF LifeInv
<1>1. /\ UNCHANGED <<created, blob, doc, row, assessed, chunks, sent, docOf, tried, acked>>
      /\ UNCHANGED <<req, task, stranded, faults>>
  BY DEF vars, stores, stream
<1>2. TypeOK' /\ RoomIsKept' /\ KnownOnly'
  BY <1>1 DEF TypeOK, RoomIsKept, Owing, KnownOnly
<1>3. RowHasItsFile' /\ GoneIsEmpty' /\ GoneHasNoFile' /\ CompletedIsSearchable'
  BY <1>1 DEF RowHasItsFile, GoneIsEmpty, GoneHasNoFile, CompletedIsSearchable, Serves, JobsOf
<1>4. (\A r \in Request : RequestOK(r)') /\ TasksOK'
  BY <1>1 DEF RequestOK, TasksOK, TaskOK, Serves, JobsOf
<1>5. WaitingHasAMover'
  BY <1>1 DEF WaitingHasAMover, HasMover, Unsettled, JobsOf, Spent, Serves
<1> QED BY <1>2, <1>3, <1>4, <1>5

LEMMA NextInv ==
    ASSUME LifeInv, [Next]_vars
    PROVE  LifeInv'
<1>1. CASE UNCHANGED vars
  BY <1>1, StutterInv
<1>2. ASSUME NEW r \in Request, NEW d \in Doc, Create(r, d) \/ Reprocess(r, d) \/ Delete(r, d)
      PROVE  LifeInv'
  BY <1>2, CreateInv, ReprocessInv, DeleteInv
<1>3. ASSUME NEW r \in Request, Serve(r) \/ RequestDies(r) PROVE LifeInv'
  BY <1>3, InsertInv, ResetInv, PublishInv, MarkFailedInv, UnlinkInv, RequestDiesInv DEF Serve
<1>4. ASSUME NEW j \in Job, Work(j) \/ WorkerDies(j) PROVE LifeInv'
  BY <1>4, DeliverInv, LoadInv, CommitInv, FetchInv, AssessRiskInv, IndexInv, AckInv,
     WorkerDiesInv DEF Work
<1> QED BY <1>1, <1>2, <1>3, <1>4 DEF Next

(***************************************************************************)
(* In every reachable state of any number of requests and jobs the stores, *)
(* the tables and the stream agree as LifeInv says.                        *)
(***************************************************************************)
THEOREM Invariance == Spec => []LifeInv
BY InitInv, NextInv, PTL DEF Spec

\* Every variable keeps its type; the stream never outgrows its bound, for
\* the room of a message is reserved before a request begins.
THEOREM TypeCorrectness == Spec => []TypeOK
BY Invariance, PTL DEF LifeInv

\* create stores the file before the row and a deletion removes it after the
\* row, whatever fails in between: a row has its file.
THEOREM EveryRowHasItsFile == Spec => []RowHasItsFile
BY Invariance, PTL DEF LifeInv

\* A document that waits has a message, or the request that will send it or
\* report that it could not.
THEOREM EveryWaitHasAJob == Spec => []WaitingHasAJob
<1>1. LifeInv => WaitingHasAJob
  BY DEF LifeInv, WaitingHasAMover, HasMover, WaitingHasAJob
<1> QED BY <1>1, Invariance, PTL

\* A document that is INDEXED has its chunks in search-service.
THEOREM EveryCompletedIsSearchable == Spec => []CompletedIsSearchable
BY Invariance, PTL DEF LifeInv

\* bulk_delete and the cascade of the schema leave no part of a document,
\* whatever its jobs were doing.
THEOREM EveryDeletionIsComplete == Spec => []DeletedLeavesNothing
<1>1. LifeInv => DeletedLeavesNothing
  BY DEF LifeInv, TypeOK, GoneIsEmpty, GoneHasNoFile, DeletedLeavesNothing, AtWork
<1> QED BY <1>1, Invariance, PTL

\* Whoever writes the documents table.
LEMMA DocWriters ==
    ASSUME Next
    PROVE  \/ UNCHANGED doc
           \/ \E r \in Request : Insert(r) \/ Reset(r) \/ MarkFailed(r)
           \/ \E r \in Request, d \in Doc : Delete(r, d)
           \/ \E j \in Job : Commit(j)
BY DEF Next, Create, Reprocess, Serve, Publish, Unlink, RequestDies, Work, Deliver, Load,
       Fetch, AssessRisk, Index, Ack, WorkerDies, stores

\* A commit writes the document of an unsettled message that is not completed.
LEMMA CommitRevertsForAReason ==
    ASSUME LifeInv, NEW j \in Job, Commit(j), NEW d \in Doc, doc[d] = "INDEXED", doc'[d] # doc[d]
    PROVE  j \in Unsettled(d) /\ row[j].status # "COMPLETED"
<1>1. /\ j \in Unsettled(docOf[j]) /\ TaskOK(j) /\ docOf[j] \in Doc
      /\ task[j].pc = "commit" /\ task[j].txn \in Txn
      /\ \A e \in Doc \ {docOf[j]} : doc'[e] = doc[e]
  <2>1. doc \in [Doc -> DocStatus]
    BY DEF LifeInv, TypeOK
  <2> QED BY <2>1, CommitWrites
<1>2. d = docOf[j]
  BY <1>1
<1>3. CASE task[j].txn = "claim"
  BY <1>1, <1>2, <1>3 DEF TaskOK, AlreadyDone
<1>4. CASE task[j].txn # "claim"
  BY <1>1, <1>2, <1>4 DEF TaskOK
<1> QED BY <1>1, <1>2, <1>3, <1>4

\* A completion is taken back by a request or by another message, never by
\* the redelivery of the message that completed the document.
THEOREM CompletionIsKept == Spec => CompletedRevertsForAReason
<1> DEFINE Kept == \A d \in Doc :
              doc[d] = "INDEXED" /\ doc'[d] \notin {"INDEXED", "gone"} =>
                 AtWork(d) \/ \E j \in Unsettled(d) : row[j].status # "COMPLETED"
<1>1. LifeInv /\ [Next]_vars => [Kept]_vars
  <2> SUFFICES ASSUME LifeInv, Next, NEW d \in Doc, doc[d] = "INDEXED",
                      doc'[d] \notin {"INDEXED", "gone"}
               PROVE  AtWork(d) \/ \E j \in Unsettled(d) : row[j].status # "COMPLETED"
    OBVIOUS
  <2>0. doc \in [Doc -> DocStatus]
    BY DEF LifeInv, TypeOK
  <2>1. ASSUME NEW r \in Request, Insert(r) \/ Reset(r) \/ MarkFailed(r)
        PROVE  AtWork(d)
    <3>1. req[r].pc # "idle" /\ \A e \in Doc \ {req[r].doc} : doc'[e] = doc[e]
      BY <2>0, <2>1 DEF Insert, Inserted, Reset, MarkFailed
    <3> QED BY <3>1 DEF AtWork, Serves
  <2>2. ASSUME NEW r \in Request, NEW e \in Doc, Delete(r, e)
        PROVE  FALSE
    BY <2>0, <2>2 DEF Delete, Cascade
  <2>3. ASSUME NEW j \in Job, Commit(j)
        PROVE  \E k \in Unsettled(d) : row[k].status # "COMPLETED"
    BY <2>3, CommitRevertsForAReason
  <2> QED BY <2>1, <2>2, <2>3, DocWriters
<1> QED BY <1>1, Invariance, PTL DEF Spec, CompletedRevertsForAReason
=============================================================================
