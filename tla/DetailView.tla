----------------------------- MODULE DetailView -----------------------------
(***************************************************************************)
(* app/(dash)/documents/[id]/detail-view.tsx: one document.                *)
(*                                                                         *)
(* While it is in the pipeline the cheap status route is polled, one poll  *)
(* every 2.5 s whether or not the last was answered; the document itself   *)
(* is only read again on what a poll says.  A poll under way is the status *)
(* it has read, or Nothing; those of one status are one.  Its progress is  *)
(* left out, and of the analysis only what the user can open is kept.      *)
(***************************************************************************)
EXTENDS ServerDocuments, UseAsync, Transport

CONSTANTS
    Terminal,  \* documents whose failure is not retryable
    Pii,       \* the sensitive values found in a document
    MaxTimers  \* bound: reveals under way

VARIABLES library, st

-----------------------------------------------------------------------------
\* ExtractionPanel, FindingsPanel and PiiList as they are mounted.
Panels == [lowOnly |-> FALSE, expanded |-> FALSE,
           revealed |-> <<>>, pending |-> Nothing, reveals |-> <<>>]

FreshOf(d) ==
    [id |-> d, doc |-> Mounted(d), retryable |-> TRUE, polls |-> {},
     confirm |-> FALSE, reprocess |-> Idle, told |-> "nothing", panels |-> Panels]

detail == st.doc.data
shown == st.doc.data # Nothing /\ st.doc.status # "error"
free == ~ st.confirm

\* Mutant: a queued document is not taken to be in the pipeline.
OnlyProcessing == detail = "processing"

inPipeline == detail \in InPipeline

\* Once the document leaves the pipeline its polls are aborted; the panels
\* are there while it is shown as completed and forget what was opened when
\* it is not.
Renders(s) ==
    st' = [s EXCEPT
              !.polls = IF s.doc.data \in InPipeline THEN @ ELSE {},
              !.panels = IF s.doc.data = "completed" /\ s.doc.status # "error"
                         THEN @ ELSE Panels]

Reloaded(s) == [s EXCEPT !.doc = Rerun(@, s.id)]

\* The parts of the screen.
Parts ==
    (IF st.doc.status = "loading" THEN {"skeleton"} ELSE {})
    \cup (IF st.doc.status = "error" THEN {"error"} ELSE {})
    \cup (IF ~ shown THEN {}
          ELSE {"identity"} \cup
               (IF detail = "completed"
                THEN {"summary", "risk", "extraction", "findings"}
                ELSE {"pipeline", detail}))

\* What they offer: the card on top, the panel of a failed run, and the
\* notice that a completed one may have got only part of the document.
IdentityCard ==
    (IF detail = "completed" THEN {"download", "ask"} ELSE {})
    \cup (IF detail # "processing" /\ st.reprocess.status # "pending"
          THEN {"reprocess"} ELSE {})
FailedPanel == IF detail # "failed" THEN {}
               ELSE IF st.id \in Terminal THEN {"upload"} ELSE {"retry"}
PartialNotice == IF detail = "completed" THEN {"partial"} ELSE {}

Offers == IF shown THEN IdentityCard \cup FailedPanel \cup PartialNotice
          ELSE IF "error" \in Parts THEN ErrorPanel(st.retryable) ELSE {}

Dialog == ConfirmDialog(st.confirm, st.reprocess.status = "pending")

-----------------------------------------------------------------------------
Answer ==
    /\ Loading(st.doc) /\ library[st.id] # "absent"
    /\ Renders([st EXCEPT !.doc = Answered(@, library[st.id])])
    /\ UNCHANGED library

Fail(failure) ==
    /\ Loading(st.doc)
    /\ Renders([st EXCEPT !.doc = Failed(@), !.retryable = failure.retryable])
    /\ UNCHANGED library

\* An error that is not retryable has no button.
Retry ==
    /\ free /\ "error" \in Parts /\ "retry" \in Offers
    /\ Renders([st EXCEPT !.doc = Retried(@)])
    /\ UNCHANGED library

PollTick ==
    /\ inPipeline /\ Nothing \notin st.polls
    /\ st' = [st EXCEPT !.polls = @ \cup {Nothing}]
    /\ UNCHANGED library

PollReads ==
    /\ Nothing \in st.polls
    /\ st' = [st EXCEPT !.polls = (@ \ {Nothing}) \cup {library[st.id]}]
    /\ UNCHANGED library

\* setDoc takes the progress of a poll with the same status; the document is
\* read again when the poll says that it has settled.
PollAnswers(next) ==
    /\ next \in st.polls \ {Nothing}
    /\ LET s == [st EXCEPT !.polls = @ \ {next}]
       IN  st' = IF next \in InPipeline THEN s ELSE Reloaded(s)
    /\ UNCHANGED library

\* A poll that fails is not surfaced.
PollFails(next) ==
    /\ next \in st.polls
    /\ st' = [st EXCEPT !.polls = @ \ {next}]
    /\ UNCHANGED library

-----------------------------------------------------------------------------
\* The button of the header, "Retry from classification" and the retry of a
\* partial extraction.
AskReprocess ==
    /\ free /\ shown /\ Offers \cap {"reprocess", "retry", "partial"} # {}
    /\ st' = [st EXCEPT !.confirm = TRUE]
    /\ UNCHANGED library

\* Mutant: the dialog does not mind that one is under way.
DialogAlways == st.confirm

DialogTakes == Dialog # {}

Cancel ==
    /\ DialogTakes
    /\ st' = [st EXCEPT !.confirm = FALSE]
    /\ UNCHANGED library

\* The dialog is closed first.
runReprocess ==
    /\ DialogTakes
    /\ st' = [st EXCEPT !.confirm = FALSE, !.told = "working",
                 !.reprocess = ActionStarted(@, Cardinality(@.runs) + 1)]
    /\ UNCHANGED library

\* However it ends the document is read again.  A call that is answered has
\* the document among the failed; one that is not has no result.
ReprocessAnswers(run, ok) ==
    /\ run \in st.reprocess.runs
    /\ st' = Reloaded([st EXCEPT
                 !.told = IF ok THEN "could not" ELSE "started",
                 !.reprocess = IF ok THEN ActionSucceeded(@, run, Nothing)
                                     ELSE ActionFailed(@, run)])
    /\ UNCHANGED library

\* A toast goes by itself, or is dismissed.
ToastGoes ==
    /\ st.told # "nothing"
    /\ st' = [st EXCEPT !.told = "nothing"]
    /\ UNCHANGED library

-----------------------------------------------------------------------------
Filter ==
    /\ free /\ "extraction" \in Parts
    /\ st' = [st EXCEPT !.panels.lowOnly = ~ @]
    /\ UNCHANGED library

Expand ==
    /\ free /\ "findings" \in Parts
    /\ st' = [st EXCEPT !.panels.expanded = ~ @]
    /\ UNCHANGED library

Without(s, p) == SelectSeq(s, LAMBDA x : x # p)

\* PiiList: "Hide" is at once; "Reveal" takes 550 ms, and only the value
\* asked for last has its button disabled meanwhile.
TogglePii(p) ==
    /\ free /\ "extraction" \in Parts /\ st.panels.pending # p
    /\ \/ /\ \E i \in DOMAIN st.panels.revealed : st.panels.revealed[i] = p
          /\ st' = [st EXCEPT !.panels.revealed = Without(@, p)]
       \/ /\ \A i \in DOMAIN st.panels.revealed : st.panels.revealed[i] # p
          /\ Len(st.panels.reveals) < MaxTimers
          /\ st' = [st EXCEPT !.panels.pending = p,
                              !.panels.reveals = Append(@, p)]
    /\ UNCHANGED library

\* The timers end in the order they were set.
Revealed ==
    /\ st.panels.reveals # <<>>
    /\ st' = [st EXCEPT
                 !.panels.revealed = Append(@, Head(st.panels.reveals)),
                 !.panels.pending = Nothing, !.panels.reveals = Tail(@)]
    /\ UNCHANGED library

-----------------------------------------------------------------------------
Loads == \/ Answer \/ PollTick \/ PollReads
         \/ \E failure \in Failures : Fail(failure)
         \/ \E next \in Statuses \cup {Nothing} : PollAnswers(next) \/ PollFails(next)
Answers == \/ \E ok \in BOOLEAN, run \in st.reprocess.runs : ReprocessAnswers(run, ok)
           \/ Revealed \/ ToastGoes
Looking == Filter \/ Expand \/ \E p \in Pii : TogglePii(p)
Acting == Retry \/ AskReprocess \/ Cancel \/ runReprocess

-----------------------------------------------------------------------------
\* However its dialog was opened, a document is not sent to be reprocessed
\* while it is on its way: the button and the dialog are each disabled.
OneReprocessAtATime == Cardinality(st.reprocess.runs) <= 1

\* A document that has settled is not shown as being in the pipeline for
\* ever, whatever fails on the way: the next poll tries again.
StaleDetail ==
    /\ detail \in InPipeline /\ library[st.id] \in Settled
=============================================================================
