----------------------------- MODULE JobLedger -----------------------------
(***************************************************************************)
(* The job ledger of processing-service: the rows of processing_jobs and   *)
(* documents in Postgres, and the four transactions of                     *)
(* repositories/jobs.py that move them (claim, mark_completed, mark_failed *)
(* and requeue).                                                           *)
(*                                                                         *)
(* The sessions run at READ COMMITTED and take no row lock: a transaction  *)
(* loads the job row, loads the document row, and writes both at commit.   *)
(* SQLAlchemy writes only the columns whose value differs from the one it  *)
(* loaded, so what a commit leaves behind depends on the rows it SAW as    *)
(* well as on the rows it finds.  Loads and commits are therefore kept     *)
(* apart, and the operators below take both.                               *)
(***************************************************************************)
EXTENDS Naturals

CONSTANTS
    MaxAttempts,    \* settings.max_attempts, the attempt budget of a job
    AttemptCeiling  \* bound: attempt and delivery counters saturate here

ASSUME BudgetAssumption ==
    /\ MaxAttempts \in Nat \ {0}
    /\ AttemptCeiling \in Nat
    /\ AttemptCeiling > MaxAttempts

(***************************************************************************)
(* Counters only ever meet MaxAttempts in a comparison, so one that stops  *)
(* growing above it decides every comparison the way the unbounded counter *)
(* of the program does.                                                    *)
(***************************************************************************)
Counter == 0 .. AttemptCeiling
BumpUnbounded(n) == n + 1
Bump(n) == IF n < AttemptCeiling THEN n + 1 ELSE n
Larger(m, n) == IF m < n THEN n ELSE m

Txn == {"claim", "complete", "fail", "requeue"}

\* processing_jobs.status; "none" stands for a row that does not exist.
JobStatus == {"none", "QUEUED", "PROCESSING", "COMPLETED", "FAILED"}

\* documents.status; "gone" stands for a row that does not exist.
DocStatus == {"gone", "UPLOADED", "PROCESSING", "INDEXED", "FAILED"}

JobRow == [status : JobStatus, attempt : Counter]
NoRow == [status |-> "none", attempt |-> 0]

(***************************************************************************)
(* The status each transaction assigns to the job row.                     *)
(***************************************************************************)
JobStatusOf == [claim    |-> "PROCESSING",
                complete |-> "COMPLETED",
                fail     |-> "FAILED",
                requeue  |-> "QUEUED"]

(***************************************************************************)
(* _DOCUMENT_STATUS: the document status that goes with a job status.      *)
(***************************************************************************)
DocStatusOf == [QUEUED     |-> "UPLOADED",
                PROCESSING |-> "PROCESSING",
                COMPLETED  |-> "INDEXED",
                FAILED     |-> "FAILED"]

(***************************************************************************)
(* The idempotency gate: claim returns None for a COMPLETED row and for    *)
(* nothing else.                                                           *)
(***************************************************************************)
NeverDone(seen) == FALSE
AlreadyDone(seen) == seen.status = "COMPLETED"

(***************************************************************************)
(* The attempt number a claim takes: the broker's delivery counter         *)
(* reconciled with the row's own count.                                    *)
(***************************************************************************)
AttemptSummed(seen, delivered) ==
    IF seen = NoRow THEN Larger(1, delivered) ELSE seen.attempt + delivered

AttemptOf(seen, delivered) ==
    IF seen = NoRow THEN Larger(1, delivered)
                    ELSE Larger(delivered, Bump(seen.attempt))

(***************************************************************************)
(* A commit raises when the INSERT of a first claim meets a row with its   *)
(* primary key or no document for its foreign key, and when the UPDATE of  *)
(* a row that was loaded finds it deleted.                                 *)
(***************************************************************************)
CommitIgnoresDocument(seen, row, document) ==
    IF seen = NoRow THEN row # NoRow ELSE row = NoRow

CommitRaises(seen, row, document) ==
    IF seen = NoRow THEN row # NoRow \/ document = "gone"
                    ELSE row = NoRow

(***************************************************************************)
(* The rows a commit leaves.  A column whose loaded value is the assigned  *)
(* one is not part of the UPDATE and keeps what the table holds by now.    *)
(***************************************************************************)
Written(seen, assigned, stored) ==
    IF seen = assigned THEN stored ELSE assigned

RowAfter(txn, seen, row, attempt) ==
    [status  |-> Written(seen.status, JobStatusOf[txn], row.status),
     attempt |-> IF txn = "claim" THEN attempt ELSE row.attempt]

DocAfterKeptOnRequeue(txn, seenDoc, document) ==
    IF seenDoc = "gone" \/ txn = "requeue"
    THEN document
    ELSE Written(seenDoc, DocStatusOf[JobStatusOf[txn]], document)

DocAfter(txn, seenDoc, document) ==
    IF seenDoc = "gone"
    THEN document
    ELSE Written(seenDoc, DocStatusOf[JobStatusOf[txn]], document)
=============================================================================
