--------------------------- MODULE JobQueueProps ---------------------------
(***************************************************************************)
(* What the worker fleet promises: the safety and liveness properties of   *)
(* JobQueue, and its refinement of the contract in JobContract.            *)
(***************************************************************************)
EXTENDS JobQueue

(***************************************************************************)
(* queue/consumer.py opens with "a job is never lost": the message leaves  *)
(* the pending list only when the ledger holds the outcome of the job, its *)
(* document has been deleted, or a malformed message has its dead-letter   *)
(* copy.                                                                   *)
(***************************************************************************)
Settled(j) ==
    IF docOf[j] = Malformed
    THEN j \in dead
    ELSE doc[docOf[j]] = "gone" \/ row[j].status \in {"COMPLETED", "FAILED"}

AckedIsSettled == \A j \in acked : Settled(j)

(***************************************************************************)
(* ... "and never silently done twice": once the completion of a job is    *)
(* committed, no redelivery, crash or late transaction takes it back; only *)
(* the deletion of the document removes the row.                           *)
(***************************************************************************)
CompletedIsFinal ==
    [][\A j \in Job : row[j].status = "COMPLETED" =>
          row'[j].status = "COMPLETED" \/ doc'[docOf[j]] = "gone"]_vars

(***************************************************************************)
(* The frontend reads documents.status and the operators read              *)
(* processing_jobs.status: however transactions of a job, crashes and      *)
(* redeliveries interleave, the two tables agree.                          *)
(***************************************************************************)
DocMirrorsJob ==
    \A j \in Job : row[j] # NoRow =>
        doc[docOf[j]] = DocStatusOf[row[j].status]

(***************************************************************************)
(* The attempt budget is spent by deliveries only: the attempt number in   *)
(* the ledger, reconciled from two counters, never exceeds the number of   *)
(* times Redis handed the message out, so no job is given up early.        *)
(***************************************************************************)
NoAttemptWithoutDelivery ==
    \A j \in Job : row[j].attempt <= delivered[j]

(***************************************************************************)
(* When the threshold passes on work that is alive, a worker may read the  *)
(* delivery count of the delivery that took the message away from it, and  *)
(* a job can be charged more attempts than it had deliveries.  The damage  *)
(* is bounded: never twice as many.                                        *)
(***************************************************************************)
FewerThanTwoAttemptsPerDelivery ==
    \A j \in Job : row[j] # NoRow => row[j].attempt < 2 * delivered[j]

-----------------------------------------------------------------------------
(***************************************************************************)
(* The contract of JobContract, read off the stream and the ledger.        *)
(***************************************************************************)
OutcomeOfStatus == [none       |-> "none",
                    PROCESSING |-> "running",
                    QUEUED     |-> "deferred",
                    COMPLETED  |-> "completed",
                    FAILED     |-> "failed"]

OutcomeOf(j) ==
    IF docOf[j] = Malformed
    THEN IF j \in dead THEN "failed" ELSE "none"
    ELSE IF doc[docOf[j]] = "gone" THEN "void"
                                   ELSE OutcomeOfStatus[row[j].status]

JC == INSTANCE JobContract WITH
          submitted <- 1 .. sent,
          outcome <- [j \in Job |-> OutcomeOf(j)],
          retired <- acked

(***************************************************************************)
(* The fleet implements the contract: every step of every pod is a step of *)
(* one job in it, or none.                                                 *)
(***************************************************************************)
ImplementsContract == JC!Contract

-----------------------------------------------------------------------------
(***************************************************************************)
(* Fairness.  The loop and the tasks of a live pod keep running, and the   *)
(* idle time of an abandoned message passes the threshold at some tick, so *)
(* one that stays abandoned is reclaimed.  Nothing is assumed of the       *)
(* producers, and every disturbance is free never to happen.               *)
(***************************************************************************)
ReclaimOf(j) == \E w \in Worker, S \in SUBSET Job : j \in S /\ Reclaim(w, S)

Fairness ==
    /\ \A w \in Worker : WF_vars(Loop(w)) /\ WF_vars(Restart(w))
    /\ \A s \in Slot : WF_vars(RunTask(s))
    /\ \A j \in Job : SF_vars(ReclaimOf(j))

FairSpec == Spec /\ Fairness

(***************************************************************************)
(* Every published message is eventually settled and acknowledged, through *)
(* any finite number of crashes, shutdowns and lost replies.               *)
(***************************************************************************)
EveryJobIsSettled ==
    \A j \in Job : (j <= sent) ~> (j \in acked)

-----------------------------------------------------------------------------
(***************************************************************************)
(* The inductive invariant behind the safety properties, for a fleet whose *)
(* reclaim threshold never passes on work in hand and which never loses    *)
(* the dead-letter copy of a malformed message.                            *)
(***************************************************************************)
ThresholdHolds == "steal" \notin Disturbances
RejectionsAreKept == ~({"malformed", "dead_letter_lost"} \subseteq Disturbances)

\* A message is in one hand at most, and pending while it is.
OneHolder ==
    /\ \A v, w \in Worker : \A j \in batch[v] \cap batch[w] : v = w
    /\ \A s, t \in Slot : Busy(s) /\ Busy(t) /\ task[s].job = task[t].job => s = t
    /\ \A s \in Slot, w \in Worker : Busy(s) => task[s].job \notin batch[w]

HeldIsPending == \A j \in Job : Held(j) => Pending(j)

\* Only what was delivered is acked or copied to the dead-letter stream.
DoneIsDelivered == \A j \in acked \cup dead : j <= cursor

OneMessagePerDocument ==
    /\ \A j \in Job : j > sent => docOf[j] = Malformed
    /\ \A j \in 1 .. sent : docOf[j] = Malformed => "malformed" \in Disturbances
    /\ \A i, j \in Job : docOf[i] = docOf[j] /\ docOf[i] # Malformed => i = j

\* The ledger agrees with the documents table and with Redis.
LedgerOK ==
    \A j \in Job :
        /\ row[j].status = "none" => row[j] = NoRow
        /\ row[j] # NoRow => /\ j <= cursor
                             /\ docOf[j] # Malformed
                             /\ doc[docOf[j]] = DocStatusOf[row[j].status]
        /\ j <= cursor => delivered[j] >= 1
        /\ row[j].attempt <= delivered[j]

\* The latest delivery of message j has not been charged to its row yet.
Uncharged(j) == row[j].attempt < delivered[j] \/ delivered[j] = AttemptCeiling

BatchesUncharged == \A w \in Worker : \A j \in batch[w] : Uncharged(j)

\* What the task in slot s may rely on where it stands.
TaskOK(s) ==
    LET t == task[s]
        j == t.job
        inTxn == t.pc \in {"loadJob", "loadDoc", "commit"}
        claiming == t.pc = "count" \/ (inTxn /\ t.txn = "claim")
        gone == docOf[j] # Malformed /\ doc[docOf[j]] = "gone"
    IN  /\ inTxn \/ t.pc = "run" => docOf[j] # Malformed
        /\ claiming => Uncharged(j)
        /\ inTxn /\ t.txn = "claim" => t.tries <= delivered[j]
        /\ t.pc = "run" \/ (inTxn /\ t.txn # "claim") =>
              gone \/ row[j].status = "PROCESSING"
        /\ t.pc \in {"loadDoc", "commit"} => gone \/ t.seen = row[j]
        /\ t.pc \in {"loadDoc", "commit"} /\ t.txn = "claim" => ~AlreadyDone(t.seen)
        /\ t.pc \in {"loadDoc", "commit"} /\ t.txn # "claim" => t.seen # NoRow
        /\ t.pc = "commit" => gone \/ t.seenDoc = doc[docOf[j]]
        /\ t.pc = "dead" => docOf[j] = Malformed \/ Settled(j)
        /\ t.pc = "ack" => Settled(j)

TasksOK == \A s \in Slot : Busy(s) => TaskOK(s)

QueueInv ==
    /\ TypeOK
    /\ OneHolder
    /\ HeldIsPending
    /\ DoneIsDelivered
    /\ OneMessagePerDocument
    /\ LedgerOK
    /\ BatchesUncharged
    /\ TasksOK
    /\ AckedIsSettled

-----------------------------------------------------------------------------
(***************************************************************************)
(* The inductive invariant behind FewerThanTwoAttemptsPerDelivery, for any *)
(* fleet and any disturbances.  Every delivery pays for one claim; the     *)
(* claims of a message that are still to be committed are those of the     *)
(* batches it is in and of the tasks on their way to one.                  *)
(***************************************************************************)
Reading(s) == task[s].pc \in {"loadJob", "loadDoc", "commit"}
Claiming(s) == task[s].pc = "count" \/ (Reading(s) /\ task[s].txn = "claim")

Batches(j) == {w \in Worker : j \in batch[w]}
Claimers(j) == {s \in Slot : Claiming(s) /\ task[s].job = j}
ToClaim(j) == Cardinality(Batches(j)) + Cardinality(Claimers(j))

\* What is in hand was delivered, and only that has a row.
HandsAreDelivered ==
    /\ \A w \in Worker : \A j \in batch[w] : j <= cursor
    /\ \A s \in Slot : Busy(s) => task[s].job <= cursor
    /\ \A j \in Job : j > cursor => row[j] = NoRow

\* A message that is worked on could be parsed.
WorkIsParsed ==
    \A s \in Slot : Reading(s) \/ task[s].pc = "run" => docOf[task[s].job] # Malformed

\* A claim was told of no more deliveries than there have been.
ToldOfDeliveries ==
    \A s \in Slot : Claiming(s) /\ Reading(s) => task[s].tries <= delivered[task[s].job]

\* With n attempts charged, the claims to come stay under two a delivery.
WithinBudget(j, n) ==
    delivered[j] < AttemptCeiling => n + ToClaim(j) < 2 * delivered[j]

DeliveriesPay ==
    \A j \in Job : j <= cursor =>
        /\ delivered[j] >= 1
        /\ delivered[j] < AttemptCeiling => ToClaim(j) <= delivered[j]
        /\ WithinBudget(j, row[j].attempt)

\* Also when a claim goes by a row that another has written since.
StaleClaimsPay ==
    \A s \in Slot : Claiming(s) /\ Reading(s) =>
        WithinBudget(task[s].job, task[s].seen.attempt)

ChargeInv ==
    /\ TypeOK
    /\ HandsAreDelivered
    /\ WorkIsParsed
    /\ ToldOfDeliveries
    /\ DeliveriesPay
    /\ StaleClaimsPay
=============================================================================
