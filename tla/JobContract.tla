---------------------------- MODULE JobContract ----------------------------
(***************************************************************************)
(* What the asynchronous path promises of a job, without Redis, Postgres,  *)
(* pods or transactions: "a job is never lost and never silently done      *)
(* twice" (the header of queue/consumer.py).  A submitted job may be       *)
(* started any number of times, by anyone, until it has a completion; it   *)
(* is retired only with an outcome, and nothing happens to it after that.  *)
(***************************************************************************)
CONSTANT Job

VARIABLES
    submitted,   \* the jobs handed over to the queue
    outcome,     \* outcome[j]: what is on record of job j
    retired      \* the jobs the queue has forgotten

contractVars == <<submitted, outcome, retired>>

\* "void" is the outcome of a job whose document was deleted.
Outcome == {"none", "running", "deferred", "completed", "failed", "void"}
Final == {"completed", "failed", "void"}

ContractInit ==
    /\ submitted = {}
    /\ outcome = [j \in Job |-> "none"]
    /\ retired = {}

Submit(j) ==
    /\ j \notin submitted
    /\ submitted' = submitted \cup {j}
    /\ UNCHANGED <<outcome, retired>>

Record(j, o) ==
    /\ j \in submitted \ retired
    /\ outcome' = [outcome EXCEPT ![j] = o]
    /\ UNCHANGED <<submitted, retired>>

\* Another attempt; a failed job may get one, a completed one may not.
Start(j) == outcome[j] \notin {"completed", "void"} /\ Record(j, "running")
Complete(j) == outcome[j] = "running" /\ Record(j, "completed")
Defer(j) == outcome[j] = "running" /\ Record(j, "deferred")

\* An attempt is given up, or a job is rejected before its first one.
Reject(j) == outcome[j] \in {"none", "running"} /\ Record(j, "failed")

\* The document may go at any time, and the record of the job with it.
Void(j) ==
    /\ j \in submitted
    /\ outcome' = [outcome EXCEPT ![j] = "void"]
    /\ UNCHANGED <<submitted, retired>>

Retire(j) ==
    /\ j \in submitted
    /\ outcome[j] \in Final
    /\ retired' = retired \cup {j}
    /\ UNCHANGED <<submitted, outcome>>

ContractNext ==
    \E j \in Job :
        \/ Submit(j) \/ Start(j) \/ Complete(j) \/ Defer(j)
        \/ Reject(j) \/ Void(j) \/ Retire(j)

Contract == ContractInit /\ [][ContractNext]_contractVars
=============================================================================
