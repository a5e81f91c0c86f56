------------------------------ MODULE Pipeline ------------------------------
(***************************************************************************)
(* One attempt at one job: ProcessingPipeline.run under the wait_for of    *)
(* the consumer.                                                           *)
(*                                                                         *)
(*   fetch -> extract_text -> classify -> (extract | summarize | risk)     *)
(*         -> index                                                        *)
(*                                                                         *)
(* "Failure is graded": a spine stage that raises fails the job, a call of *)
(* an enrichment stage that raises is absorbed.  What an enrichment stage  *)
(* does with its response, the transaction that stores it included, comes  *)
(* after the code that absorbs, and raises like a spine stage.             *)
(*                                                                         *)
(* Only a call awaits.  Everything a stage does with its response runs     *)
(* before another task of the event loop, so the end of a stage is one     *)
(* step.  Time passes in units of Tick.  The progress marker (_set_stage)  *)
(* is best effort and read by nothing; it is left out.                     *)
(***************************************************************************)
EXTENDS Naturals

CONSTANTS
    JobTimeout,   \* settings.job_timeout_s
    SpineLimit,   \* longest a fetch, a text extraction or an indexing takes
    CallLimit,    \* longest a call of ai-service takes, retries included
    SavesFail     \* may storing a result raise?

PipelineAssumption ==
    /\ JobTimeout \in Nat \ {0}
    /\ SpineLimit \in Nat
    /\ CallLimit \in Nat \ {0}
    /\ SavesFail \in BOOLEAN

Spine == {"fetch", "extract_text", "index"}
Gathered == {"extract", "summarize", "risk"}
Enrichment == Gathered \cup {"classify"}
Stage == Spine \cup Enrichment

VARIABLES
    state,     \* state[s]: how far stage s is, or how it ended
    age,       \* age[s]: for how long stage s has been running
    spent,     \* spent[k]: the run's time in its spine and in enrichment
    outcome,   \* what the consumer has been told of the run
    degraded   \* PipelineResult.degraded

vars == <<state, age, spent, outcome, degraded>>

Limit(s) == IF s \in Spine THEN SpineLimit ELSE CallLimit

\* The time wait_for has measured.
Elapsed == spent.spine + spent.enrichment

TypeOK ==
    /\ state \in [Stage -> {"todo", "active", "ok", "fallback", "skipped",
                            "error", "cancelled"}]
    /\ age \in [Stage -> Nat]
    /\ \A s \in Stage : age[s] <= Limit(s)
    /\ spent \in [{"spine", "enrichment"} -> 0 .. JobTimeout]
    /\ Elapsed <= JobTimeout
    /\ outcome \in {"running", "completed", "retryable", "terminal",
                    "timeout", "cancelled"}
    /\ degraded \in BOOLEAN

Init ==
    /\ state = [s \in Stage |-> "todo"]
    /\ age = [s \in Stage |-> 0]
    /\ spent = [spine |-> 0, enrichment |-> 0]
    /\ outcome = "running"
    /\ degraded = FALSE

\* What a stage waits for; gather starts its stages together, and returns
\* when every one of them has returned.
After == [fetch |-> {}, extract_text |-> {"fetch"},
          classify |-> {"extract_text"},
          extract |-> {"classify"}, summarize |-> {"classify"},
          risk |-> {"classify"}, index |-> Gathered]

Returned(s) == state[s] \in {"ok", "fallback", "skipped"}
Active == {s \in Stage : state[s] = "active"}
Ready == {s \in Stage : state[s] = "todo" /\ \A p \in After[s] : Returned(p)}

Start ==
    /\ outcome = "running"
    /\ Ready # {}
    /\ state' = [s \in Stage |-> IF s \in Ready THEN "active" ELSE state[s]]
    /\ UNCHANGED <<age, spent, outcome, degraded>>

-----------------------------------------------------------------------------
(***************************************************************************)
(* The end of a stage.  A stage outlives its run when the run has raised   *)
(* meanwhile: gather hands on the first exception and lets the others run. *)
(***************************************************************************)
Ends(s, as) ==
    /\ state[s] = "active"
    /\ state' = [state EXCEPT ![s] = as]
    /\ age' = [age EXCEPT ![s] = 0]
    /\ UNCHANGED spent

\* The run raises, and is told once.
Raises(as) == outcome' = IF outcome = "running" THEN as ELSE outcome

Succeeds(s) ==
    /\ s \in Spine
    /\ Ends(s, "ok")
    /\ outcome' = IF s = "index" THEN "completed" ELSE outcome
    /\ UNCHANGED degraded

Fails(s) ==
    /\ s \in Spine
    /\ Ends(s, "error")
    /\ Raises("retryable") \/ Raises("terminal")
    /\ UNCHANGED degraded

\* _enrichment: the call raises; the stage is skipped and the job goes on.
IsRaised(s) ==
    /\ s \in Enrichment
    /\ Ends(s, "skipped")
    /\ Raises("terminal")
    /\ UNCHANGED degraded

IsAbsorbed(s) ==
    /\ s \in Enrichment
    /\ Ends(s, "skipped")
    /\ UNCHANGED <<outcome, degraded>>

\* The flag is shared by all stages: it is raised and never lowered.
Flag(isFallback) == degraded \/ isFallback

\* The response arrives and is stored, or there is too little text to store
\* a summary of, or storing it raises: an exception that is no
\* ProcessingError, which the consumer wraps in one that is not retryable.
Answers(s, isFallback) ==
    /\ s \in Enrichment
    /\ degraded' = Flag(isFallback)
    /\ \/ /\ Ends(s, IF isFallback THEN "fallback" ELSE "ok")
          /\ UNCHANGED outcome
       \/ s = "summarize" /\ Ends(s, "skipped") /\ UNCHANGED outcome
       \/ SavesFail /\ Ends(s, "error") /\ Raises("terminal")

-----------------------------------------------------------------------------
(***************************************************************************)
(* wait_for and shutdown cancel the run and, through gather, its stages;   *)
(* the thread of a fetch or an extraction runs on, but nobody reads it.    *)
(***************************************************************************)
GatherOutlivesRun(s) == IF s \in Gathered THEN state[s] ELSE "cancelled"
CancelledState(s) == "cancelled"

Cancels(as) ==
    /\ outcome = "running"
    /\ outcome' = as
    /\ state' = [s \in Stage |-> IF s \in Active THEN CancelledState(s) ELSE state[s]]
    /\ age' = [s \in Stage |-> 0]
    /\ UNCHANGED <<spent, degraded>>

NeverExpired == FALSE
Expired == Elapsed >= JobTimeout

TimesOut == Expired /\ Active # {} /\ Cancels("timeout")
Shutdown == Cancels("cancelled")

\* A stage that has used up its time ends before time goes on.
Tick ==
    /\ Active # {}
    /\ outcome = "running" => Ready = {} /\ ~Expired
    /\ \A s \in Active : age[s] < Limit(s)
    /\ age' = [s \in Stage |-> IF s \in Active THEN age[s] + 1 ELSE age[s]]
    /\ LET kind == IF Active \cap Spine # {} THEN "spine" ELSE "enrichment"
       IN  spent' = IF outcome = "running"
                    THEN [spent EXCEPT ![kind] = @ + 1] ELSE spent
    /\ UNCHANGED <<state, outcome, degraded>>

Next ==
    \/ Start
    \/ \E s \in Stage :
         \/ Succeeds(s) \/ Fails(s) \/ IsAbsorbed(s)
         \/ \E isFallback \in BOOLEAN : Answers(s, isFallback)
    \/ TimesOut
    \/ Shutdown
    \/ Tick

Spec == Init /\ [][Next]_vars

(***************************************************************************)
(* The event loop runs what is ready, its clock advances, and the clients' *)
(* time-outs end every call of an enrichment stage.  No stage of the spine *)
(* is assumed to return.                                                   *)
(***************************************************************************)
Fairness ==
    /\ WF_vars(Start) /\ WF_vars(TimesOut) /\ WF_vars(Tick)
    /\ \A s \in Enrichment :
         WF_vars(IsAbsorbed(s) \/ \E isFallback \in BOOLEAN : Answers(s, isFallback))

-----------------------------------------------------------------------------
(***************************************************************************)
(* A run that has been accounted for writes nothing more, with one         *)
(* exception: when storing one result raises, its siblings in gather run   *)
(* on, and may store theirs after the job has been declared failed.        *)
(***************************************************************************)
OutcomeIsQuiet ==
    outcome # "running" /\ Active # {} =>
        /\ outcome = "terminal"
        /\ Active \subseteq Gathered
        /\ \E s \in Gathered : state[s] = "error"

(***************************************************************************)
(* A failing enrichment does not fail the job: a run raises because of its *)
(* spine or of a result that could not be stored, and it times out only    *)
(* when the spine took more than the calls of ai-service leave it.         *)
(***************************************************************************)
EnrichmentIsAbsorbed ==
    /\ outcome = "retryable" => \E s \in Spine : state[s] = "error"
    /\ outcome = "terminal" => \/ \E s \in Spine : state[s] = "error"
                               \/ SavesFail /\ \E s \in Enrichment : state[s] = "error"
    /\ outcome = "timeout" => spent.spine + 2 * CallLimit >= JobTimeout

(***************************************************************************)
(* Every run ends, also when its spine hangs: "Without it a hung           *)
(* downstream call holds a slot forever" (job_timeout_s in config.py).     *)
(***************************************************************************)
EveryRunEnds == <>(outcome # "running")

-----------------------------------------------------------------------------
(***************************************************************************)
(* The inductive invariant behind these two.  A stage has not left "todo"  *)
(* before what it waits for has returned; the three stages of gather start *)
(* together, so each of them has been running for as long as the run has   *)
(* spent on them.                                                          *)
(***************************************************************************)
InOrder == \A s \in Stage : state[s] # "todo" => \A p \in After[s] : Returned(p)

EnrichmentFits ==
    /\ spent.enrichment <= 2 * CallLimit
    /\ state["classify"] = "todo" => spent.enrichment = 0
    /\ state["classify"] = "active" => spent.enrichment <= age["classify"]
    /\ \A s \in Gathered :
         /\ state[s] = "todo" => spent.enrichment <= CallLimit
         /\ state[s] = "active" => spent.enrichment <= CallLimit + age[s]

RunInv ==
    /\ TypeOK
    /\ \A s \in Stage : state[s] # "active" => age[s] = 0
    /\ InOrder
    /\ EnrichmentFits
    /\ OutcomeIsQuiet
    /\ EnrichmentIsAbsorbed
=============================================================================
