---------------------------- MODULE UploadQueue ----------------------------
(***************************************************************************)
(* The upload screen: files wait in a queue, at most MaxConcurrent are     *)
(* sent at a time, and every document that was stored is polled until its  *)
(* pipeline run ends.                                                      *)
(*                                                                         *)
(* React keeps two versions of the list: `jobs', to which every setJobs is *)
(* applied, and `view', the one last committed to the screen, which the    *)
(* buttons and the effects see.  The effects of a commit run before the    *)
(* next render.  After a commit that a click caused they run before any    *)
(* other event; after one that an answer caused, answers and a click may   *)
(* come in between.  Of a job only its stage is kept (docId is there       *)
(* exactly while the job is past uploading), of the document it became     *)
(* only its status.                                                        *)
(***************************************************************************)
EXTENDS UploadLimits, Transport

VARIABLES jobs,      \* the stage of each file, every update applied
          view,      \* the stages last committed
          effects,   \* the effects of that commit have not run yet
          clicked,   \* that commit was caused by a click
          due,       \* a click has updated jobs: the next render is due
          started,   \* files the admission has started
          sending,   \* requests in flight for each file
          polled,    \* jobs the poll effect follows
          document,  \* the status of the document each file became
          retries

vars == <<jobs, view, effects, clicked, due, started, sending, polled,
          document, retries>>

\* "refused": failed, and the error says that it is not retryable.
Stages == {"absent", "queued", "uploading", "processing", "done", "failed",
           "refused", "cancelled", "rejected", "removed"}

Present(stage) == stage \notin {"absent", "removed"}
InFlight(stage) == stage \in {"queued", "uploading", "processing"}

Init ==
    /\ jobs = [f \in Files |-> "absent"]
    /\ view = jobs
    /\ effects = FALSE /\ clicked = FALSE /\ due = FALSE
    /\ started = {}
    /\ sending = [f \in Files |-> 0]
    /\ polled = {}
    /\ document = [f \in Files |-> "none"]
    /\ retries = 0

(***************************************************************************)
(* When the browser may handle a click or an answer.                       *)
(***************************************************************************)
EventsMayCome == ~due /\ ~(effects /\ clicked)

(***************************************************************************)
(* A functional update: it reaches the jobs that are still in the list.    *)
(***************************************************************************)
Patched(f, stage) == IF Present(jobs[f]) THEN [jobs EXCEPT ![f] = stage] ELSE jobs

(***************************************************************************)
(* controllers.current.get(id)?.abort(): send() returns at the AbortError  *)
(* without an update.                                                      *)
(***************************************************************************)
Aborted(f) == [sending EXCEPT ![f] = 0]

-----------------------------------------------------------------------------
(***************************************************************************)
(* The user.  What the row of a job offers, and the two panels over them;  *)
(* files can be pasted whatever the drop zone shows.                       *)
(***************************************************************************)
QueueRow(stage) ==
    CASE InFlight(stage)                     -> {"cancel"}
      [] stage = "failed"                    -> {"retry", "remove"}
      [] stage \in {"refused", "cancelled", "rejected"} -> {"remove"}
      [] OTHER                               -> {}

Finished(stage) == stage \in {"done", "cancelled", "rejected"}

QueueHeader ==
    (IF \E f \in Files : Finished(view[f]) THEN {"clear finished"} ELSE {})
        \cup (IF \E f \in Files : Present(view[f]) THEN {"clear all"} ELSE {})

Dropzone ==
    IF \E f \in Files : InFlight(view[f]) THEN {"paste", "clear all"}
    ELSE {"paste", "drop", "select"}

newJob(f, invalid) == IF f \in invalid THEN "rejected" ELSE "queued"

Add(last, invalid) ==
    /\ EventsMayCome /\ Dropzone \cap {"paste", "drop", "select"} # {}
    /\ jobs[last] = "absent"
    /\ jobs' = [f \in Files |->
          IF f <= last /\ jobs[f] = "absent"
          THEN newJob(f, invalid) ELSE jobs[f]]
    /\ due' = TRUE
    /\ UNCHANGED <<view, effects, clicked, started, sending, polled, document, retries>>

NotRestarted(f) == started
Restarted(f)    == started \ {f}

Retry(f) ==
    /\ EventsMayCome
    /\ "retry" \in QueueRow(view[f]) /\ retries < MaxRetries
    /\ retries' = retries + 1
    /\ jobs' = Patched(f, "queued")
    /\ started' = Restarted(f)
    /\ due' = TRUE
    /\ UNCHANGED <<view, effects, clicked, sending, polled, document>>

(***************************************************************************)
(* A cancelled document runs on: all there is to abort is the transfer.    *)
(***************************************************************************)
Cancel(f) ==
    /\ EventsMayCome
    /\ "cancel" \in QueueRow(view[f])
    /\ sending' = Aborted(f)
    /\ jobs' = Patched(f, "cancelled")
    /\ due' = TRUE
    /\ UNCHANGED <<view, effects, clicked, started, polled, document, retries>>

Remove(f) ==
    /\ EventsMayCome
    /\ "remove" \in QueueRow(view[f])
    /\ sending' = Aborted(f)
    /\ jobs' = Patched(f, "removed")
    /\ due' = TRUE
    /\ UNCHANGED <<view, effects, clicked, started, polled, document, retries>>

ClearFinished ==
    /\ EventsMayCome
    /\ "clear finished" \in QueueHeader
    /\ jobs' = [f \in Files |-> IF Finished(jobs[f]) THEN "removed" ELSE jobs[f]]
    /\ due' = TRUE
    /\ UNCHANGED <<view, effects, clicked, started, sending, polled, document, retries>>

ClearAll ==
    /\ EventsMayCome
    /\ "clear all" \in QueueHeader \cup Dropzone
    /\ sending' = [f \in Files |-> 0]
    /\ jobs' = [f \in Files |-> IF Present(jobs[f]) THEN "removed" ELSE jobs[f]]
    /\ due' = TRUE
    /\ UNCHANGED <<view, effects, clicked, started, polled, document, retries>>

-----------------------------------------------------------------------------
(***************************************************************************)
(* React: a render commits every update so far; then its effects run.      *)
(***************************************************************************)
Render ==
    /\ ~effects
    /\ view # jobs \/ due
    /\ view' = jobs
    /\ effects' = TRUE /\ clicked' = due /\ due' = FALSE
    /\ UNCHANGED <<jobs, started, sending, polled, document, retries>>

(***************************************************************************)
(* The admission: the first queued jobs of the list, as many as there is   *)
(* room for, are sent unless they have been started before.                *)
(***************************************************************************)
With(stage) == {f \in Files : view[f] = stage}

Stored   == Cardinality(With("processing"))
Active   == Cardinality(With("uploading"))
Free     == IF Active < MaxConcurrent THEN MaxConcurrent - Active ELSE 0
FirstQueued(n) == {f \in With("queued") : Cardinality({g \in With("queued") : g < f}) < n}
Admitted == FirstQueued(Free) \ started

(***************************************************************************)
(* The poll effect follows what is processing now; its clean-up aborts the *)
(* polls of the commit before.                                             *)
(***************************************************************************)
FollowedEver == polled \cup With("processing")
Followed     == With("processing")

RunEffects ==
    /\ effects
    /\ effects' = FALSE
    /\ started' = started \cup Admitted
    /\ sending' = [f \in Files |-> IF f \in Admitted THEN sending[f] + 1 ELSE sending[f]]
    /\ jobs' = [f \in Files |-> IF f \in Admitted /\ Present(jobs[f])
                                THEN "uploading" ELSE jobs[f]]
    /\ polled' = Followed
    /\ UNCHANGED <<view, clicked, due, document, retries>>

-----------------------------------------------------------------------------
(***************************************************************************)
(* The services: a transfer ends, a document's run ends, a poll is         *)
(* answered.  Polls that find the document under way, or do not find it,   *)
(* change no stage.                                                        *)
(***************************************************************************)
UploadStored(f) ==
    /\ EventsMayCome
    /\ sending[f] > 0
    /\ sending' = [sending EXCEPT ![f] = @ - 1]
    /\ document' = [document EXCEPT ![f] = "running"]
    /\ jobs' = Patched(f, "processing")
    /\ UNCHANGED <<view, effects, clicked, due, started, polled, retries>>

\* Whether a retry is offered is what the error says.
errorFor(failure) == IF failure.retryable THEN "failed" ELSE "refused"

UploadFails(f) ==
    /\ EventsMayCome
    /\ sending[f] > 0
    /\ sending' = [sending EXCEPT ![f] = @ - 1]
    /\ \E failure \in Failures : jobs' = Patched(f, errorFor(failure))
    /\ UNCHANGED <<view, effects, clicked, due, started, polled, document, retries>>

RunEnds(f) ==
    /\ document[f] = "running"
    /\ \E status \in {"completed", "failed"} : document' = [document EXCEPT ![f] = status]
    /\ UNCHANGED <<jobs, view, effects, clicked, due, started, sending, polled, retries>>

Deleted(f) ==
    /\ Deletions
    /\ document[f] \in {"running", "completed", "failed"}
    /\ document' = [document EXCEPT ![f] = "gone"]
    /\ UNCHANGED <<jobs, view, effects, clicked, due, started, sending, polled, retries>>

SettledWell(status) == status = "completed"
Settled(status)     == status \in {"completed", "failed"}

StagesOf(status) == IF status = "completed" THEN {"done"} ELSE {"failed", "refused"}

Poll(f) ==
    /\ EventsMayCome
    /\ f \in polled /\ Settled(document[f])
    /\ \E stage \in StagesOf(document[f]) : jobs' = Patched(f, stage)
    /\ jobs' # jobs
    /\ UNCHANGED <<view, effects, clicked, due, started, sending, polled, document, retries>>

-----------------------------------------------------------------------------
User ==
    \/ \E last \in Files, invalid \in SUBSET Files : Add(last, invalid)
    \/ \E f \in Files : Retry(f) \/ Cancel(f) \/ Remove(f)
    \/ ClearFinished
    \/ ClearAll

Next ==
    \/ User
    \/ Render
    \/ RunEffects
    \/ \E f \in Files : UploadStored(f) \/ UploadFails(f) \/ RunEnds(f)
                        \/ Deleted(f) \/ Poll(f)

Spec == Init /\ [][Next]_vars

(***************************************************************************)
(* React renders and runs effects, transfers and runs end, polls repeat.   *)
(***************************************************************************)
Fairness ==
    /\ WF_vars(Render) /\ WF_vars(RunEffects)
    /\ \A f \in Files : /\ WF_vars(UploadStored(f) \/ UploadFails(f))
                        /\ WF_vars(RunEnds(f)) /\ WF_vars(Poll(f))

FairSpec == Spec /\ Fairness
-----------------------------------------------------------------------------
(***************************************************************************)
(* "Concurrent uploads": no more than MaxConcurrent of the files on the    *)
(* list are transferred at a time, although the admission counts the       *)
(* stages on the screen and not the requests.                              *)
(***************************************************************************)
WithinLimit ==
    Cardinality({f \in Files : sending[f] > 0 /\ jobs[f] = "uploading"}) <= MaxConcurrent

(***************************************************************************)
(* No answer that was under way brings a cancelled job back.  Only the     *)
(* effects of a commit can, one caused by an answer which still showed the *)
(* job as queued when the user cancelled it.                               *)
(***************************************************************************)
AdmittedUnseen(f) == effects /\ ~clicked /\ view[f] = "queued" /\ jobs'[f] = "uploading"

CancelSticks ==
    [][\A f \in Files : jobs[f] = "cancelled" =>
          jobs'[f] \in {"cancelled", "removed"} \/ AdmittedUnseen(f)]_vars

(***************************************************************************)
(* "Cancelling stops them mid-pipeline": what the user has taken back, by  *)
(* cancelling a job or by clearing the list, is not sent afterwards.       *)
(***************************************************************************)
TakenBackIsNotSent ==
    [][\A f \in Files : jobs[f] \in {"cancelled", "removed"} => sending'[f] <= sending[f]]_vars

(***************************************************************************)
(* Every queued file gets its turn, unless the user takes it back.         *)
(***************************************************************************)
EveryFileGetsItsTurn ==
    \A f \in Files : jobs[f] = "queued" ~> jobs[f] # "queued"

(***************************************************************************)
(* Every document is followed until its run settles: the end is shown,     *)
(* unless the user has taken the job off or the document has been deleted. *)
(***************************************************************************)
EveryRunIsFollowed ==
    \A f \in Files :
        jobs[f] = "processing" ~> jobs[f] # "processing" \/ document[f] = "gone"
=============================================================================
