---------------------------- MODULE DocumentLife ----------------------------
(***************************************************************************)
(* The life of a document: the requests of document-service that create,   *)
(* reprocess and delete it, and the jobs of processing-service that work   *)
(* on it, on the blob store, the two Postgres tables and the stream they   *)
(* share.  No transaction spans two of those stores, so a request is a     *)
(* program counter and every store it touches is a step.                   *)
(*                                                                         *)
(* JobQueue looks at one message of a document and at the broker; here a   *)
(* document may have several messages at work at once, and the broker is   *)
(* reduced to what JobQueue proves of it: a message is delivered, to one   *)
(* worker at a time, until it is acked.  The transactions of a job are     *)
(* those of JobLedger.                                                     *)
(***************************************************************************)
EXTENDS JobLedger, FiniteSets, Sequences

CONSTANTS
    Doc,        \* the ids documents may get
    Request,    \* the requests document-service handles at once
    MaxJobs,    \* bound: messages ever added to the stream
    Faults,     \* the kinds of fault a run admits
    MaxFaults   \* bound: how many of them happen

ASSUME LifeAssumption ==
    /\ MaxJobs \in Nat
    /\ MaxFaults \in Nat
    /\ IsFiniteSet(Request)
    /\ Faults \subseteq {"insert_fails", "insert_reply_lost", "xadd_fails",
                         "xadd_reply_lost", "request_dies", "worker_dies"}

Job == 1 .. MaxJobs

VARIABLES
    created,   \* the ids taken so far
    blob,      \* the documents whose PDF is in the store
    doc,       \* doc[d]: the status of the documents row
    row,       \* row[j]: the processing_jobs row of message j
    assessed,  \* the documents a risk assessment is stored of
    chunks,    \* the documents search-service has chunks of
    sent,      \* how many messages the stream holds
    docOf,     \* docOf[j]: the document of message j
    tried,     \* tried[j]: how often message j was delivered
    acked,     \* the messages acknowledged
    req,       \* req[r]: what request r is doing
    task,      \* task[j]: what the worker that has message j is doing
    stranded,  \* the documents a request was cut off from half way
    faults     \* number of faults so far

stores == <<blob, doc, row, assessed, chunks>>
stream == <<sent, docOf, tried, acked>>
vars == <<created, stores, stream, req, task, stranded, faults>>

RequestPC == {"idle", "insert", "reset", "publish", "mark_failed", "unlink"}
TaskPC == {"idle", "load", "commit", "fetch", "risk", "index", "ack"}

RequestAt(pc, d, seen) == [pc |-> pc, doc |-> d, seen |-> seen]
NoRequest == [pc |-> "idle"]
RequestState(ids) ==
    {NoRequest} \cup [pc : RequestPC \ {"idle"}, doc : ids, seen : DocStatus]

TaskAt(pc, txn, attempt, seen, seenDoc) ==
    [pc |-> pc, txn |-> txn, attempt |-> attempt, seen |-> seen, seenDoc |-> seenDoc]
Task == [pc : TaskPC, txn : Txn, attempt : Counter, seen : JobRow, seenDoc : DocStatus]
Working(pc, attempt) == TaskAt(pc, "claim", attempt, NoRow, "gone")
NoTask == Working("idle", 0)

JobsOf(d) == {j \in 1 .. sent : docOf[j] = d}
Serves(r, d) == req[r].pc # "idle" /\ req[r].doc = d

TypeOK ==
    /\ created \in SUBSET Doc
    /\ blob \in SUBSET created
    /\ doc \in [Doc -> DocStatus]
    /\ row \in [Job -> JobRow]
    /\ assessed \in SUBSET created
    /\ chunks \in SUBSET created
    /\ sent \in 0 .. MaxJobs
    /\ docOf \in [1 .. sent -> created]
    /\ tried \in [Job -> Counter]
    /\ acked \in SUBSET (1 .. sent)
    /\ req \in [Request -> RequestState(created)]
    /\ task \in [Job -> Task]
    /\ stranded \in SUBSET created
    /\ faults \in 0 .. MaxFaults

Init ==
    /\ created = {} /\ blob = {} /\ assessed = {} /\ chunks = {} /\ stranded = {}
    /\ doc = [d \in Doc |-> "gone"]
    /\ row = [j \in Job |-> NoRow]
    /\ sent = 0 /\ docOf = <<>> /\ acked = {}
    /\ tried = [j \in Job |-> 0]
    /\ req = [r \in Request |-> NoRequest]
    /\ task = [j \in Job |-> NoTask]
    /\ faults = 0

\* Requests are begun only while the stream has room for their messages.
Owing == {r \in Request : req[r].pc \in {"insert", "reset", "publish"}}
HasRoom == sent + Cardinality(Owing) < MaxJobs

Fault(kind) ==
    /\ kind \in Faults
    /\ faults < MaxFaults
    /\ faults' = faults + 1

NoFault == UNCHANGED faults

-----------------------------------------------------------------------------
(***************************************************************************)
(* DocumentService.create, bulk_reprocess and bulk_delete, for one id.     *)
(***************************************************************************)
Becomes(r, pc) == req' = [req EXCEPT ![r] = IF pc = "idle" THEN NoRequest
                                            ELSE RequestAt(pc, req[r].doc, "gone")]

CreateDoesNotAwait(r, d) ==
    /\ req[r] = NoRequest
    /\ d \in Doc \ created
    /\ HasRoom
    /\ created' = created \cup {d}
    /\ req' = [req EXCEPT ![r] = RequestAt("insert", d, "gone")]
    /\ NoFault
    /\ UNCHANGED <<blob, doc, row, assessed, chunks, stream, task, stranded>>

\* save_pdf: the file appears under its name when it is complete.
Saved(d) == blob \cup {d}

Create(r, d) ==
    /\ req[r] = NoRequest
    /\ d \in Doc \ created
    /\ HasRoom
    /\ created' = created \cup {d}
    /\ blob' = Saved(d)
    /\ req' = [req EXCEPT ![r] = RequestAt("insert", d, "gone")]
    /\ NoFault
    /\ UNCHANGED <<doc, row, assessed, chunks, stream, task, stranded>>

Inserted(d) == [doc EXCEPT ![d] = "UPLOADED"]

\* A row that could not be inserted takes the file with it, also when it was
\* the reply of the commit that was lost and the row is there.
Insert(r) ==
    LET d == req[r].doc
    IN  /\ req[r].pc = "insert"
        /\ \/ /\ doc' = Inserted(d)
              /\ Becomes(r, "publish") /\ NoFault /\ UNCHANGED <<blob, stranded>>
           \/ /\ blob' = blob \ {d}
              /\ Becomes(r, "idle")
              /\ Fault("insert_fails") /\ UNCHANGED <<doc, stranded>>
           \/ /\ doc' = Inserted(d)
              /\ blob' = blob \ {d}
              /\ stranded' = stranded \cup {d}
              /\ Becomes(r, "idle") /\ Fault("insert_reply_lost")
        /\ UNCHANGED <<created, row, assessed, chunks, stream, task>>

\* reset_to_queued, first the SELECT and then the UPDATE.
Reprocess(r, d) ==
    /\ req[r] = NoRequest
    /\ doc[d] # "gone"
    /\ HasRoom
    /\ req' = [req EXCEPT ![r] = RequestAt("reset", d, doc[d])]
    /\ NoFault
    /\ UNCHANGED <<created, stores, stream, task, stranded>>

Reset(r) ==
    LET d == req[r].doc
    IN  /\ req[r].pc = "reset"
        /\ IF doc[d] = "gone"
           THEN Becomes(r, "idle") /\ UNCHANGED doc
           ELSE /\ doc' = [doc EXCEPT ![d] = Written(req[r].seen, "UPLOADED", doc[d])]
                /\ Becomes(r, "publish")
        /\ NoFault
        /\ UNCHANGED <<created, blob, row, assessed, chunks, stream, task, stranded>>

Enqueue(d) ==
    /\ sent' = sent + 1
    /\ docOf' = Append(docOf, d)
    /\ UNCHANGED <<tried, acked>>

ForgetFailedPublish == "idle"
AfterFailedPublish == "mark_failed"

\* publish_document: a RedisError says nothing of whether XADD was applied.
Publish(r) ==
    LET d == req[r].doc
    IN  /\ req[r].pc = "publish"
        /\ \/ Enqueue(d) /\ Becomes(r, "idle") /\ NoFault
           \/ /\ UNCHANGED stream
              /\ Becomes(r, AfterFailedPublish) /\ Fault("xadd_fails")
           \/ /\ Enqueue(d)
              /\ Becomes(r, AfterFailedPublish) /\ Fault("xadd_reply_lost")
        /\ UNCHANGED <<created, stores, task, stranded>>

\* mark_failed finds the row in its session, as it was when it was written.
MarkFailed(r) ==
    LET d == req[r].doc
    IN  /\ req[r].pc = "mark_failed"
        /\ doc' = IF doc[d] = "gone" THEN doc ELSE [doc EXCEPT ![d] = "FAILED"]
        /\ Becomes(r, "idle")
        /\ NoFault
        /\ UNCHANGED <<created, blob, row, assessed, chunks, stream, task, stranded>>

\* ON DELETE CASCADE takes whatever refers to the row; the file goes last.
Cascade(d) ==
    /\ doc' = [doc EXCEPT ![d] = "gone"]
    /\ row' = [j \in Job |-> IF j \in JobsOf(d) THEN NoRow ELSE row[j]]
    /\ assessed' = assessed \ {d}
    /\ chunks' = chunks \ {d}

Delete(r, d) ==
    /\ req[r] = NoRequest
    /\ doc[d] # "gone"
    /\ Cascade(d)
    /\ req' = [req EXCEPT ![r] = RequestAt("unlink", d, "gone")]
    /\ NoFault
    /\ UNCHANGED <<created, blob, stream, task, stranded>>

UnlinkNothing(d) == blob
Unlinked(d) == blob \ {d}

Unlink(r) ==
    /\ req[r].pc = "unlink"
    /\ blob' = Unlinked(req[r].doc)
    /\ Becomes(r, "idle")
    /\ NoFault
    /\ UNCHANGED <<created, doc, row, assessed, chunks, stream, task, stranded>>

\* The pod dies between two stores, and nobody takes the request up again.
RequestDies(r) ==
    /\ req[r] # NoRequest
    /\ stranded' = IF req[r].pc = "reset" THEN stranded
                                          ELSE stranded \cup {req[r].doc}
    /\ Becomes(r, "idle")
    /\ Fault("request_dies")
    /\ UNCHANGED <<created, stores, stream, task>>

-----------------------------------------------------------------------------
(***************************************************************************)
(* A job, from delivery to ack.                                            *)
(***************************************************************************)
Goes(j, t) == task' = [task EXCEPT ![j] = t]
Begins(j, txn) == Goes(j, TaskAt("load", txn, task[j].attempt, NoRow, "gone"))

Deliver(j) ==
    /\ j \in (1 .. sent) \ acked
    /\ task[j] = NoTask
    /\ tried' = [tried EXCEPT ![j] = Bump(tried[j])]
    /\ Goes(j, TaskAt("load", "claim", Bump(tried[j]), NoRow, "gone"))
    /\ NoFault
    /\ UNCHANGED <<created, stores, sent, docOf, acked, req, stranded>>

AfterTxn == [claim |-> "fetch", complete |-> "ack", fail |-> "ack", requeue |-> "idle"]
Continues(j, txn, attempt) ==
    Goes(j, IF AfterTxn[txn] = "idle" THEN NoTask ELSE Working(AfterTxn[txn], attempt))

\* The two SELECTs of a transaction.
Load(j) ==
    LET t == task[j]
    IN  /\ t.pc = "load"
        /\ \/ /\ t.txn = "claim" /\ AlreadyDone(row[j])
              /\ Goes(j, Working("ack", 0))
           \/ /\ t.txn # "claim" /\ row[j] = NoRow
              /\ Continues(j, t.txn, 0)
           \/ /\ IF t.txn = "claim" THEN ~AlreadyDone(row[j]) ELSE row[j] # NoRow
              /\ Goes(j, TaskAt("commit", t.txn, t.attempt, row[j], doc[docOf[j]]))
        /\ NoFault
        /\ UNCHANGED <<created, stores, stream, req, stranded>>

Commit(j) ==
    LET t == task[j]
        d == docOf[j]
        attempt == IF t.txn = "claim" THEN AttemptOf(t.seen, t.attempt) ELSE 0
    IN  /\ t.pc = "commit"
        /\ IF CommitRaises(t.seen, row[j], doc[d])
           THEN Goes(j, NoTask) /\ UNCHANGED <<row, doc>>
           ELSE /\ row' = [row EXCEPT ![j] = RowAfter(t.txn, t.seen, row[j], attempt)]
                /\ doc' = [doc EXCEPT ![d] = DocAfter(t.txn, t.seenDoc, doc[d])]
                /\ Continues(j, t.txn, attempt)
        /\ NoFault
        /\ UNCHANGED <<created, blob, assessed, chunks, stream, req, stranded>>

\* _fail: the transaction that records a pipeline that raised.
GiveUpNever(attempt, retryable) == ~retryable
GiveUp(attempt, retryable) == ~retryable \/ attempt >= MaxAttempts

Raises(j, retryable) ==
    Begins(j, IF GiveUp(task[j].attempt, retryable) THEN "fail" ELSE "requeue")

\* The reader finds the PDF, or a document that will never be processed.
Fetch(j) ==
    /\ task[j].pc = "fetch"
    /\ IF docOf[j] \in blob THEN Goes(j, Working("risk", task[j].attempt))
                            ELSE Raises(j, FALSE)
    /\ NoFault
    /\ UNCHANGED <<created, stores, stream, req, stranded>>

\* The assessment is absorbed when it fails; a transaction that cannot store
\* it (here: the document is gone) ends the job for good.
AssessRisk(j) ==
    LET d == docOf[j]
    IN  /\ task[j].pc = "risk"
        /\ \/ /\ Goes(j, Working("index", task[j].attempt))
              /\ UNCHANGED assessed
           \/ /\ doc[d] # "gone"
              /\ assessed' = assessed \cup {d}
              /\ Goes(j, Working("index", task[j].attempt))
           \/ /\ doc[d] = "gone"
              /\ Raises(j, FALSE)
              /\ UNCHANGED assessed
        /\ NoFault
        /\ UNCHANGED <<created, blob, doc, row, chunks, stream, req, stranded>>

\* search-service replaces the chunks of the document, which must exist.
IndexIsAbsorbed(j) == Begins(j, "complete")
IndexFails(j) == \E retryable \in BOOLEAN : Raises(j, retryable)

Index(j) ==
    /\ task[j].pc = "index"
    /\ \/ /\ doc[docOf[j]] # "gone"
          /\ chunks' = chunks \cup {docOf[j]}
          /\ Begins(j, "complete")
       \/ /\ IndexFails(j)
          /\ UNCHANGED chunks
    /\ NoFault
    /\ UNCHANGED <<created, blob, doc, row, assessed, stream, req, stranded>>

Ack(j) ==
    /\ task[j].pc = "ack"
    /\ acked' = acked \cup {j}
    /\ Goes(j, NoTask)
    /\ NoFault
    /\ UNCHANGED <<created, stores, sent, docOf, tried, req, stranded>>

WorkerDies(j) ==
    /\ task[j] # NoTask
    /\ Goes(j, NoTask)
    /\ Fault("worker_dies")
    /\ UNCHANGED <<created, stores, stream, req, stranded>>

-----------------------------------------------------------------------------
Serve(r) == Insert(r) \/ Reset(r) \/ Publish(r) \/ MarkFailed(r) \/ Unlink(r)

Work(j) == \/ Deliver(j) \/ Load(j) \/ Commit(j) \/ Fetch(j)
           \/ AssessRisk(j) \/ Index(j) \/ Ack(j)

Next ==
    \/ \E r \in Request :
         \/ \E d \in Doc : Create(r, d) \/ Reprocess(r, d) \/ Delete(r, d)
         \/ Serve(r)
         \/ RequestDies(r)
    \/ \E j \in Job : Work(j) \/ WorkerDies(j)

Spec == Init /\ [][Next]_vars

(***************************************************************************)
(* A request that was begun goes on, and so does a job: the message comes  *)
(* back until it is acked (JobQueue, EveryJobIsSettled).  Nobody has to    *)
(* create, reprocess or delete anything.                                   *)
(***************************************************************************)
Fairness ==
    /\ \A r \in Request : WF_vars(Serve(r))
    /\ \A j \in Job : WF_vars(Work(j))

FairSpec == Spec /\ Fairness
=============================================================================
