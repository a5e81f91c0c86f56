--------------------------- MODULE ReclaimTiming ---------------------------
(***************************************************************************)
(* The clocks of the worker fleet.  JobQueue lets the reclaim threshold    *)
(* pass on live work as a disturbance; here time is explicit and the       *)
(* question is when that can happen.                                       *)
(*                                                                         *)
(* Redis restarts the idle time of a message when it hands it out, not     *)
(* when its job starts.  A worker reads no more new messages than it has   *)
(* free slots, but it reclaims up to ReadBatch messages whatever its slots *)
(* are doing, and those wait for a slot with their idle time running.      *)
(*                                                                         *)
(* Time passes in units of Tick.  A dispatch takes none, a job at most     *)
(* JobTimeout (wait_for cancels it), and a reclaim may come at any moment: *)
(* the reclaim interval only thins those moments out.  The ledger and the  *)
(* attempt budget are left out; a job may be deferred any number of times. *)
(***************************************************************************)
EXTENDS Naturals, FiniteSets

CONSTANTS
    Worker,      \* the pods
    Slot,        \* the concurrency slots of all pods
    Pod,         \* Pod[s] is the pod of slot s
    MaxJobs,     \* bound: messages ever added to the stream
    ReadBatch,   \* settings.read_batch_size
    JobTimeout,  \* settings.job_timeout_s
    MinIdle      \* settings.reclaim_min_idle_ms

\* "Must exceed job_timeout_s or healthy in-flight work gets stolen".
TimingAssumption ==
    /\ Pod \in [Slot -> Worker]
    /\ MaxJobs \in Nat
    /\ ReadBatch \in Nat \ {0}
    /\ JobTimeout \in Nat \ {0}
    /\ MinIdle \in Nat
    /\ MinIdle > JobTimeout

Job == 1 .. MaxJobs
None == 0

VARIABLES
    cursor,    \* the group's last-delivered message
    pending,   \* the messages delivered and not acked
    idle,      \* idle[j]: time since message j was last handed out, at most MinIdle
    waiting,   \* waiting[w]: messages worker w fetched and has no slot for yet
    task,      \* task[s]: the message whose job runs in slot s, or None
    age        \* age[s]: for how long it has been running

vars == <<cursor, pending, idle, waiting, task, age>>

Init ==
    /\ cursor = 0
    /\ pending = {}
    /\ idle = [j \in Job |-> 0]
    /\ waiting = [w \in Worker |-> {}]
    /\ task = [s \in Slot |-> None]
    /\ age = [s \in Slot |-> 0]

FreeSlots(w) == {s \in Slot : Pod[s] = w /\ task[s] = None}

\* The loop of a worker fetches again when it has dispatched what it has.
HandOut(w, S) ==
    /\ waiting[w] = {}
    /\ S # {}
    /\ waiting' = [waiting EXCEPT ![w] = S]
    /\ pending' = pending \cup S
    /\ idle' = [j \in Job |-> IF j \in S THEN 0 ELSE idle[j]]
    /\ UNCHANGED <<task, age>>

Read(w, n) ==
    /\ n <= ReadBatch /\ n <= Cardinality(FreeSlots(w))
    /\ cursor + n <= MaxJobs
    /\ cursor' = cursor + n
    /\ HandOut(w, cursor + 1 .. cursor + n)

\* XAUTOCLAIM takes the first messages, in the order of their ids, whose
\* idle time has reached the threshold; COUNT bounds how many.
Abandoned == {j \in pending : idle[j] >= MinIdle}

Batch(S) == {j \in S : Cardinality({i \in S : i < j}) < ReadBatch}

Reclaim(w) ==
    /\ HandOut(w, Batch(Abandoned))
    /\ UNCHANGED cursor

Dispatch(s) ==
    /\ task[s] = None
    /\ \E j \in waiting[Pod[s]] :
         /\ \A k \in waiting[Pod[s]] : j <= k
         /\ task' = [task EXCEPT ![s] = j]
         /\ waiting' = [waiting EXCEPT ![Pod[s]] = @ \ {j}]
    /\ age' = [age EXCEPT ![s] = 0]
    /\ UNCHANGED <<cursor, pending, idle>>

\* The job ends: its message is acked, or left pending for another attempt.
Finish(s) ==
    /\ task[s] # None
    /\ pending' \in {pending, pending \ {task[s]}}
    /\ task' = [task EXCEPT ![s] = None]
    /\ age' = [age EXCEPT ![s] = 0]
    /\ UNCHANGED <<cursor, idle, waiting>>

Crash(w) ==
    /\ waiting' = [waiting EXCEPT ![w] = {}]
    /\ task' = [s \in Slot |-> IF Pod[s] = w THEN None ELSE task[s]]
    /\ age' = [s \in Slot |-> IF Pod[s] = w THEN 0 ELSE age[s]]
    /\ UNCHANGED <<cursor, pending, idle>>

\* Past the threshold all idle times are alike.
Later(n) == IF n < MinIdle THEN n + 1 ELSE n

TickWithoutWaitFor ==
    /\ \A w \in Worker : waiting[w] = {} \/ FreeSlots(w) = {}
    /\ idle' = [j \in Job |-> IF j \in pending THEN Later(idle[j]) ELSE idle[j]]
    /\ age' = [s \in Slot |-> IF task[s] # None THEN age[s] + 1 ELSE 0]
    /\ UNCHANGED <<cursor, pending, waiting, task>>

\* Time waits for a dispatch that is possible and for a job at its time-out.
Tick ==
    /\ \A w \in Worker : waiting[w] = {} \/ FreeSlots(w) = {}
    /\ \A s \in Slot : task[s] # None => age[s] < JobTimeout
    /\ idle' = [j \in Job |-> IF j \in pending THEN Later(idle[j]) ELSE idle[j]]
    /\ age' = [s \in Slot |-> IF task[s] # None THEN age[s] + 1 ELSE 0]
    /\ UNCHANGED <<cursor, pending, waiting, task>>

Next ==
    \/ \E w \in Worker :
         \/ \E n \in 1 .. ReadBatch : Read(w, n)
         \/ Reclaim(w)
         \/ Crash(w)
    \/ \E s \in Slot : Dispatch(s) \/ Finish(s)
    \/ Tick

Spec == Init /\ [][Next]_vars

-----------------------------------------------------------------------------
(***************************************************************************)
(* No message is in two hands: the threshold has never passed on a message *)
(* that a live worker holds, waiting or running.  JobQueue's theorems rest *)
(* on this (ThresholdHolds).  The rule that makes it true is stronger than *)
(* the one in config.py: the last message of a reclaimed batch waits for   *)
(* the jobs in the slots, then for the rest of its batch, and then runs,   *)
(* its idle time running all the while, so the threshold must exceed a     *)
(* time-out for each of these rounds and one more.                         *)
(***************************************************************************)
NoLiveWorkIsStolen ==
    /\ \A v, w \in Worker : waiting[v] \cap waiting[w] # {} => v = w
    /\ \A s, t \in Slot : task[s] = task[t] /\ task[s] # None => s = t
    /\ \A s \in Slot, w \in Worker : task[s] \notin waiting[w]

-----------------------------------------------------------------------------
(***************************************************************************)
(* That rule, for settings of any size: the slots of a pod need not help   *)
(* one another, so one of them must be able to work off the whole batch.   *)
(***************************************************************************)
RoundsFit ==
    /\ (ReadBatch + 1) * JobTimeout < MinIdle
    /\ \A w \in Worker : \E s \in Slot : Pod[s] = w

(***************************************************************************)
(* The inductive invariant behind NoLiveWorkIsStolen.  Whatever slot of    *)
(* its pod one looks at, a waiting message has not waited longer than that *)
(* slot needed for the messages of its batch that are on their way, and    *)
(* for the round the slot is in.                                           *)
(***************************************************************************)
TypeOK ==
    /\ cursor \in 0 .. MaxJobs
    /\ pending \in SUBSET (1 .. cursor)
    /\ idle \in [Job -> 0 .. MinIdle]
    /\ waiting \in [Worker -> SUBSET pending]
    /\ task \in [Slot -> pending \cup {None}]
    /\ age \in [Slot -> 0 .. JobTimeout]

BatchesFit ==
    \A w \in Worker : IsFiniteSet(waiting[w]) /\ Cardinality(waiting[w]) <= ReadBatch

Round(s) == IF task[s] = None THEN JobTimeout ELSE age[s]

WaitsAreBounded ==
    \A s \in Slot : \A j \in waiting[Pod[s]] :
        idle[j] <= (ReadBatch - Cardinality(waiting[Pod[s]])) * JobTimeout + Round(s)

RunsAreBounded ==
    \A s \in Slot : task[s] # None => idle[task[s]] <= ReadBatch * JobTimeout + age[s]

FleetInv ==
    /\ TypeOK
    /\ BatchesFit
    /\ WaitsAreBounded
    /\ RunsAreBounded
    /\ NoLiveWorkIsStolen
=============================================================================
