------------------------------ MODULE MCClocks ------------------------------
(***************************************************************************)
(* The three models in which time is counted: the calls behind a circuit   *)
(* breaker, one run of the pipeline, and the worker fleet.  They share no  *)
(* state, so a behaviour here is one of one of them, and the others stay   *)
(* as they begin.                                                          *)
(***************************************************************************)
EXTENDS ResilienceProps, TLC

CONSTANTS
    RunTimeout, SpineLimit, CallLimit, SavesFail,
    Worker, Slot, Pod, MaxJobs, ReadBatch, FleetTimeout, MinIdle,
    w1, w2, s1, s2

VARIABLES
    part,
    state, stageAge, runSpent, outcome, degraded,
    cursor, pending, idle, waiting, task, taskAge

Run == INSTANCE Pipeline
       WITH JobTimeout <- RunTimeout, age <- stageAge, spent <- runSpent
Fleet == INSTANCE ReclaimTiming
         WITH JobTimeout <- FleetTimeout, age <- taskAge

ASSUME ClocksAssumption == Run!PipelineAssumption /\ Fleet!TimingAssumption

OneSlotEach == s1 :> w1 @@ s2 :> w2

Calls == <<vars, history>>
RunVars == <<state, stageAge, runSpent, outcome, degraded>>
FleetVars == <<cursor, pending, idle, waiting, task, taskAge>>
AllClocks == <<part, Calls, RunVars, FleetVars>>

InitClocks ==
    /\ part \in {"calls", "run", "fleet"}
    /\ HistoryInit /\ Run!Init /\ Fleet!Init

NextClocks ==
    /\ \/ part = "calls" /\ HistoryNext /\ UNCHANGED <<RunVars, FleetVars>>
       \/ part = "run" /\ Run!Next /\ UNCHANGED <<Calls, FleetVars>>
       \/ part = "fleet" /\ Fleet!Next /\ UNCHANGED <<Calls, RunVars>>
    /\ UNCHANGED part

ClocksSpec ==
    /\ InitClocks /\ [][NextClocks]_AllClocks
    /\ part = "calls" => Fairness
    /\ part = "run" => Run!Fairness

-----------------------------------------------------------------------------
\* Once a run has its outcome none of its stages goes on.
OutcomeIsQuiet == Run!OutcomeIsQuiet

\* An enrichment stage that fails does not fail the run.
EnrichmentIsAbsorbed == Run!EnrichmentIsAbsorbed

\* A run ends, also one whose calls never return.
EveryRunEnds == part = "run" => Run!EveryRunEnds

\* Reclaiming does not take a message from a worker that works on it.
NoLiveWorkIsStolen == Fleet!NoLiveWorkIsStolen
=============================================================================
