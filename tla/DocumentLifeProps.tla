------------------------- MODULE DocumentLifeProps -------------------------
(***************************************************************************)
(* What the users of DocumentLife rely on.                                 *)
(***************************************************************************)
EXTENDS DocumentLife

AtWork(d) == \E r \in Request : Serves(r, d)
Unsettled(d) == JobsOf(d) \ acked

(***************************************************************************)
(* A row has its PDF: create stores the file before the row and a deletion *)
(* removes it after the row, whatever fails in between.                    *)
(***************************************************************************)
RowHasItsFile ==
    \A d \in Doc \ stranded : doc[d] # "gone" => d \in blob

(***************************************************************************)
(* A document that waits has somebody to move it: a message not yet acked, *)
(* or the request that is about to publish one or to report that it could  *)
(* not.  "a 202 with no queue behind it stores the file and nothing ever   *)
(* processes it" (HL-08 in docs/validation/test-cases.md).  Only a request *)
(* that is cut off between two stores leaves one waiting for ever.         *)
(***************************************************************************)
WaitingHasAJob ==
    \A d \in Doc \ stranded :
        doc[d] \in {"UPLOADED", "PROCESSING"} =>
            \/ Unsettled(d) # {}
            \/ \E r \in Request : Serves(r, d) /\ req[r].pc \in {"publish", "mark_failed"}

(***************************************************************************)
(* A completed document can be found by a search, whichever of its jobs    *)
(* completed it and whatever the others are doing.                         *)
(***************************************************************************)
CompletedIsSearchable ==
    \A d \in Doc : doc[d] = "INDEXED" => d \in chunks

(***************************************************************************)
(* A deleted document leaves nothing behind in any store, though its jobs  *)
(* may still be running: not the file, no result, no chunk, no job row.    *)
(***************************************************************************)
DeletedLeavesNothing ==
    \A d \in created \ stranded :
        doc[d] = "gone" /\ ~AtWork(d) =>
            /\ d \notin blob \cup chunks \cup assessed
            /\ \A j \in JobsOf(d) : row[j] = NoRow

(***************************************************************************)
(* A completed document stops being one only through a request or through  *)
(* another message of it: the redelivery of the message that completed it, *)
(* after a crash before the ack, does not touch it.  (That a second message*)
(* of the document may is finding E2E-17 of docs/validation/test-cases.md.)*)
(***************************************************************************)
CompletedRevertsForAReason ==
    [][\A d \in Doc :
         doc[d] = "INDEXED" /\ doc'[d] \notin {"INDEXED", "gone"} =>
            AtWork(d) \/ \E j \in Unsettled(d) : row[j].status # "COMPLETED"]_vars

(***************************************************************************)
(* Every uploaded document reaches a terminal state: "Never stalls in      *)
(* PROCESSING" (E2E-07 in docs/validation/test-cases.md).                  *)
(***************************************************************************)
EveryDocumentSettles ==
    \A d \in Doc :
        doc[d] \in {"UPLOADED", "PROCESSING"} ~>
            doc[d] \in {"INDEXED", "FAILED", "gone"} \/ d \in stranded

-----------------------------------------------------------------------------
(***************************************************************************)
(* The inductive invariant behind the safety properties.                   *)
(***************************************************************************)

\* The requests that will still add a message to the stream have room for it.
RoomIsKept == sent + Cardinality(Owing) <= MaxJobs

\* Only an id that was given out has a row, and only a message of the stream
\* that is not acked yet has a worker or a job row.
KnownOnly ==
    /\ \A d \in Doc \ created : doc[d] = "gone"
    /\ \A j \in Job \ (1 .. sent) : row[j] = NoRow
    /\ \A j \in Job : task[j] # NoTask => j \in (1 .. sent) \ acked

\* A document that is gone has no result, no chunk and no job row ...
GoneIsEmpty ==
    \A d \in Doc : doc[d] = "gone" =>
        /\ d \notin assessed \cup chunks
        /\ \A j \in JobsOf(d) : row[j] = NoRow

\* ... and its file only as long as a request is there to remove it.
GoneHasNoFile ==
    \A d \in created \ stranded : doc[d] = "gone" /\ d \in blob =>
        \E r \in Request : Serves(r, d) /\ req[r].pc \in {"insert", "unlink"}

\* An upload that has no row yet is known to its own request alone, and what
\* is deleted never comes back.
RequestOK(r) ==
    LET d == req[r].doc
    IN  /\ req[r].pc = "insert" =>
              /\ doc[d] = "gone" /\ d \in blob /\ d \notin stranded
              /\ JobsOf(d) = {}
              /\ \A q \in Request \ {r} : ~Serves(q, d)
        /\ req[r].pc = "unlink" => doc[d] = "gone"

\* What the worker that has message j may rely on where it stands, unless the
\* document was deleted under it.
TaskOK(j) ==
    LET t == task[j]
        inTxn == t.pc \in {"load", "commit"}
    IN  \/ doc[docOf[j]] = "gone"
        \/ /\ t.pc \in {"fetch", "risk", "index"} \/ (inTxn /\ t.txn # "claim") =>
                 row[j].status = "PROCESSING"
           /\ inTxn /\ t.txn = "complete" => docOf[j] \in chunks
           /\ t.pc = "commit" => t.seen = row[j] /\ t.seenDoc # "gone"
           /\ t.pc = "commit" /\ t.txn = "claim" => ~AlreadyDone(t.seen)

TasksOK == \A j \in Job : task[j].pc # "idle" => TaskOK(j)

(***************************************************************************)
(* A message is spent when no commit of it will write the document again:  *)
(* it is completed, about to be acked, or its last commit would assign the *)
(* status it has loaded and is left out of the UPDATE.  A document that    *)
(* waits has a message that is not spent: two messages that are both at    *)
(* their ack cannot vouch for it for one another.                          *)
(***************************************************************************)
Spent(j) ==
    \/ row[j].status = "COMPLETED"
    \/ task[j].pc = "ack"
    \/ /\ task[j].pc = "commit" /\ task[j].txn \in {"complete", "fail"}
       /\ task[j].seenDoc = DocStatusOf[JobStatusOf[task[j].txn]]

HasMover(d) ==
    \/ \E j \in Unsettled(d) : ~Spent(j)
    \/ \E r \in Request : Serves(r, d) /\ req[r].pc \in {"publish", "mark_failed"}

WaitingHasAMover ==
    \A d \in Doc \ stranded : doc[d] \in {"UPLOADED", "PROCESSING"} => HasMover(d)

LifeInv ==
    /\ TypeOK
    /\ RoomIsKept
    /\ KnownOnly
    /\ RowHasItsFile
    /\ GoneIsEmpty
    /\ GoneHasNoFile
    /\ \A r \in Request : RequestOK(r)
    /\ TasksOK
    /\ CompletedIsSearchable
    /\ WaitingHasAMover
=============================================================================
