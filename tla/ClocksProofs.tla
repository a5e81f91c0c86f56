---------------------------- MODULE ClocksProofs ----------------------------
(***************************************************************************)
(* The theorems about the three models in which time is counted, for every *)
(* setting: the calls behind a circuit breaker, one run of the pipeline,   *)
(* and the worker fleet.                                                   *)
(***************************************************************************)
EXTENDS MCClocks, FiniteSetTheorems, TLAPS

-----------------------------------------------------------------------------
(***************************************************************************)
(* The breaker                                                             *)
(***************************************************************************)

\* A pause is a natural number, and no longer than the cap.
LEMMA PauseIsCapped ==
    ASSUME NEW n, NEW time \in BackoffDelay(n)
    PROVE  time \in Nat /\ time <= MaxDelay
BY ResilienceAssumption DEF BackoffDelay

\* What the breaker records keeps its part of the type invariant.
BreakerOK ==
    /\ circuit \in {"closed", "open", "half_open"}
    /\ failures \in 0 .. Threshold
    /\ openFor \in 0 .. ResetAfter
    /\ circuit = "closed" => failures < Threshold

LEMMA RecordKeepsBreaker ==
    ASSUME BreakerOK,
           RecordSuccess \/ RecordFailure \/ UNCHANGED breaker
    PROVE  BreakerOK'
<1>1. CASE RecordSuccess
  BY ResilienceAssumption, <1>1 DEF RecordSuccess, BreakerOK
<1>2. CASE RecordFailure
  <2>1. failures' \in 0 .. Threshold
    BY ResilienceAssumption, <1>2 DEF RecordFailure, AtMost, BreakerOK
  <2>2. CASE Opens(failures + 1)
    BY ResilienceAssumption, <1>2, <2>1, <2>2 DEF RecordFailure, BreakerOK
  <2>3. CASE ~Opens(failures + 1)
    <3>1. failures' = failures + 1 /\ failures' < Threshold
      BY ResilienceAssumption, <1>2, <2>3 DEF RecordFailure, AtMost, Opens, BreakerOK
    <3>2. UNCHANGED <<circuit, openFor>>
      BY <1>2, <2>3 DEF RecordFailure
    <3> QED BY <2>1, <3>1, <3>2 DEF BreakerOK
  <2> QED BY <2>2, <2>3
<1>3. CASE UNCHANGED breaker
  BY <1>3 DEF breaker, BreakerOK
<1> QED BY <1>1, <1>2, <1>3

-----------------------------------------------------------------------------
(***************************************************************************)
(* The calls: every call is within its bound.  What makes it inductive: an *)
(* idle call has spent nothing, and a pause is followed by another attempt.*)
(***************************************************************************)
CallsOK ==
    /\ phase \in [Callers -> {"idle", "attempt", "pause"}]
    /\ attempt \in [Callers -> 0 .. MaxRetries]
    /\ spent \in [Callers -> Nat]
    /\ left \in [Callers -> Nat]
    /\ \A c \in Callers :
         /\ phase[c] = "idle" => spent[c] = 0 /\ left[c] = 0
         /\ phase[c] = "pause" => attempt[c] < MaxRetries

IInv == BreakerOK /\ CallsOK /\ CallIsBounded

\* A call that goes on, or ends, within its bound leaves all within theirs.
LEMMA OneCallMoves ==
    ASSUME CallsOK, CallIsBounded,
           NEW c \in Callers, NEW to \in {"idle", "attempt", "pause"},
           NEW n \in 0 .. MaxRetries, NEW time \in Nat, NEW total \in Nat,
           Goes(c, to, n, time),
           spent' = [spent EXCEPT ![c] = total],
           to = "idle" => total = 0 /\ time = 0,
           to = "pause" => n < MaxRetries,
           total + time <= Deadline - 1 + Timeout
                           + (IF to = "pause" THEN MaxDelay ELSE 0)
    PROVE  CallsOK' /\ CallIsBounded'
<1>1. CallsOK'
  BY DEF Goes, CallsOK
<1>2. ASSUME NEW d \in Callers
      PROVE  spent'[d] + left'[d] <= Deadline - 1 + Timeout
                                     + (IF phase'[d] = "pause" THEN MaxDelay ELSE 0)
  <2>1. CASE d = c
    BY <2>1 DEF Goes, CallsOK
  <2>2. CASE d # c
    BY <2>2 DEF Goes, CallsOK, CallIsBounded
  <2> QED BY <2>1, <2>2
<1> QED BY <1>1, <1>2 DEF CallIsBounded

LEMMA InitEstablishes == Init => IInv
BY ResilienceAssumption DEF Init, IInv, BreakerOK, CallsOK, CallIsBounded

LEMMA StepPreserves == IInv /\ [Next]_vars => IInv'
<1> SUFFICES ASSUME IInv, [Next]_vars PROVE IInv'
  OBVIOUS
<1> USE DEF IInv
<1>0. /\ Timeout \in Nat /\ Timeout >= 1 /\ Deadline \in Nat /\ Deadline >= 1
      /\ MaxDelay \in Nat /\ MaxRetries \in Nat
  BY ResilienceAssumption
<1>1. ASSUME NEW c \in Callers, Returns(c) PROVE CallsOK' /\ CallIsBounded'
  <2>1. Goes(c, "idle", 0, 0) /\ spent' = [spent EXCEPT ![c] = 0]
    BY <1>1 DEF Returns
  <2>2. 0 + 0 <= Deadline - 1 + Timeout + (IF "idle" = "pause" THEN MaxDelay ELSE 0)
    BY <1>0
  <2>3. 0 \in 0 .. MaxRetries
    BY <1>0
  <2> QED BY <2>1, <2>2, <2>3, OneCallMoves
<1>2. ASSUME NEW c \in Callers, NEW n \in 0 .. MaxRetries, Attempts(c, n),
             spent[c] = 0 \/ ~OutOfTime(c)
      PROVE  CallsOK' /\ CallIsBounded'
  <2>1. spent[c] \in Nat /\ spent' = [spent EXCEPT ![c] = spent[c]]
    BY <1>2 DEF Attempts, CallsOK
  <2>2. spent[c] + Timeout <= Deadline - 1 + Timeout
                              + (IF "attempt" = "pause" THEN MaxDelay ELSE 0)
    BY <1>0, <1>2, <2>1 DEF OutOfTime
  <2>3. Goes(c, "attempt", n, Timeout)
    BY <1>2 DEF Attempts
  <2> QED BY <1>0, <2>1, <2>2, <2>3, OneCallMoves
<1>3. ASSUME NEW c \in Callers, phase[c] = "attempt", NEW time \in Nat,
             time <= MaxDelay, attempt[c] < MaxRetries, Pauses(c, time)
      PROVE  CallsOK' /\ CallIsBounded'
  <2>1. spent[c] \in Nat /\ spent' = [spent EXCEPT ![c] = spent[c]]
    BY <1>3 DEF Pauses, CallsOK
  <2>2. left[c] \in Nat /\ attempt[c] \in 0 .. MaxRetries
    BY DEF CallsOK
  <2>3. spent[c] + left[c] <= Deadline - 1 + Timeout
    BY <1>3, <1>0, <2>1, <2>2 DEF CallIsBounded
  <2>4. spent[c] + time <= Deadline - 1 + Timeout
                           + (IF "pause" = "pause" THEN MaxDelay ELSE 0)
    BY <1>0, <1>3, <2>1, <2>2, <2>3
  <2>5. Goes(c, "pause", attempt[c], time)
    BY <1>3 DEF Pauses
  <2>6. attempt[c] < MaxRetries
    BY <1>3
  <2> QED BY <2>1, <2>2, <2>4, <2>5, <2>6, OneCallMoves
<1>4. ASSUME NEW c \in Callers, Begin(c) PROVE IInv'
  <2>1. BreakerOK'
    BY <1>4 DEF Begin, Allow, MaybeHalfOpen, BreakerOK
  <2>2. spent[c] = 0 /\ Attempts(c, 0)
    BY <1>4 DEF Begin, CallsOK
  <2> QED BY <1>0, <1>2, <2>1, <2>2
<1>5. ASSUME NEW c \in Callers, Succeeds(c) PROVE IInv'
  BY <1>1, <1>5, RecordKeepsBreaker DEF Succeeds
<1>6. ASSUME NEW c \in Callers, FailsForNow(c) PROVE IInv'
  <2>1. phase[c] = "attempt" /\ RecordFailure
    BY <1>6 DEF FailsForNow
  <2>2. BreakerOK'
    BY <2>1, RecordKeepsBreaker
  <2>3. spent[c] \in Nat /\ attempt[c] \in 0 .. MaxRetries
    BY DEF CallsOK
  <2>4. CASE Returns(c)
    BY <1>1, <2>2, <2>4
  <2>5. CASE ~Returns(c)
    <3>1. attempt[c] < MaxRetries /\ spent[c] < Deadline
      BY <1>0, <1>6, <2>3, <2>5 DEF FailsForNow, OutOfTime
    <3>2. PICK time \in BackoffDelay(attempt[c]) : Pauses(c, AtMost(time, Deadline - spent[c]))
      BY <1>6, <2>5 DEF FailsForNow
    <3>3. time \in Nat /\ time <= MaxDelay
      BY PauseIsCapped
    <3>4. PICK cut \in Nat : cut = AtMost(time, Deadline - spent[c]) /\ cut <= MaxDelay
      BY <1>0, <2>3, <3>1, <3>3 DEF AtMost
    <3> QED BY <1>3, <2>1, <2>2, <3>1, <3>2, <3>4
  <2> QED BY <2>4, <2>5
<1>7. ASSUME NEW c \in Callers, FailsUnwrapped(c) PROVE IInv'
  <2>1. phase[c] = "attempt" /\ RecordFailure
    BY <1>7 DEF FailsUnwrapped
  <2>2. BreakerOK'
    BY <2>1, RecordKeepsBreaker
  <2>3. attempt[c] \in 0 .. MaxRetries
    BY DEF CallsOK
  <2>4. CASE Returns(c)
    BY <1>1, <2>2, <2>4
  <2>5. CASE ~Returns(c)
    <3>1. attempt[c] < MaxRetries
      BY <1>0, <1>7, <2>3, <2>5 DEF FailsUnwrapped
    <3>2. PICK time \in BackoffDelay(attempt[c]) : Pauses(c, time)
      BY <1>7, <2>5 DEF FailsUnwrapped
    <3>3. time \in Nat /\ time <= MaxDelay
      BY PauseIsCapped
    <3> QED BY <1>3, <2>1, <2>2, <3>1, <3>2, <3>3
  <2> QED BY <2>4, <2>5
<1>8. ASSUME NEW c \in Callers, IsRejected(c) PROVE IInv'
  BY <1>1, <1>8, RecordKeepsBreaker DEF IsRejected
<1>9. ASSUME NEW c \in Callers, Wakes(c) PROVE IInv'
  <2>1. BreakerOK'
    BY <1>9, RecordKeepsBreaker DEF Wakes
  <2>2. CASE OutOfTime(c)
    BY <1>1, <1>9, <2>1, <2>2 DEF Wakes
  <2>3. CASE ~OutOfTime(c)
    <3>1. Attempts(c, attempt[c] + 1)
      BY <1>9, <2>3 DEF Wakes
    <3>2. attempt[c] + 1 \in 0 .. MaxRetries
      BY <1>0, <1>9 DEF Wakes, CallsOK
    <3> QED BY <1>2, <2>1, <2>3, <3>1, <3>2
  <2> QED BY <2>2, <2>3
<1>10. ASSUME NEW c \in Callers, IsCancelled(c) PROVE IInv'
  BY <1>1, <1>10, RecordKeepsBreaker DEF IsCancelled
<1>11. CASE Observe
  <2>1. BreakerOK'
    BY <1>11 DEF Observe, MaybeHalfOpen, BreakerOK
  <2> QED BY <1>11, <2>1 DEF Observe, CallsOK, CallIsBounded
<1>12. CASE Tick
  <2>1. BreakerOK'
    BY ResilienceAssumption, <1>12 DEF Tick, AtMost, BreakerOK
  <2>2. \A c \in Callers : left[c] \in Nat /\ spent[c] \in Nat
    BY DEF CallsOK
  <2>3. CallsOK'
    BY <1>12, <2>2 DEF Tick, CallsOK
  <2>4. \A c \in Callers : spent'[c] + left'[c] = spent[c] + left[c]
    BY <1>12, <2>2 DEF Tick, CallsOK
  <2>5. CallIsBounded'
    BY <1>12, <2>4 DEF Tick, CallIsBounded
  <2> QED BY <2>1, <2>3, <2>5
<1>13. CASE UNCHANGED vars
  BY <1>13 DEF vars, BreakerOK, CallsOK, CallIsBounded
<1> QED BY <1>4, <1>5, <1>6, <1>7, <1>8, <1>9, <1>10, <1>11, <1>12, <1>13 DEF Next

(***************************************************************************)
(* The inductive invariant holds: the breaker's count agrees with its      *)
(* state, and each call's phase with the time it has spent.                *)
(***************************************************************************)
THEOREM Invariance == Spec => []IInv
<1>1. Init => IInv
  BY InitEstablishes
<1>2. IInv /\ [Next]_vars => IInv'
  BY StepPreserves
<1> QED BY <1>1, <1>2, PTL DEF Spec

(***************************************************************************)
(* In every reachable state the breaker is closed exactly as long as fewer *)
(* than Threshold failures are counted against it, or on trial, or open.   *)
(***************************************************************************)
THEOREM TypeCorrect == Spec => []TypeOK
<1>1. IInv => TypeOK
  BY DEF IInv, BreakerOK, CallsOK, TypeOK
<1> QED BY <1>1, Invariance, PTL

(***************************************************************************)
(* The time a call may hold its slot, for every retry setting: the         *)
(* deadline less one tick, one attempt, and one pause.                     *)
(***************************************************************************)
THEOREM CallsAreBounded == Spec => []CallIsBounded
<1>1. IInv => CallIsBounded
  BY DEF IInv
<1> QED BY <1>1, Invariance, PTL

-----------------------------------------------------------------------------
(***************************************************************************)
(* The breaker and the history of what it has let through                  *)
(***************************************************************************)
LEMMA HistoryIsOfTheBreaker == HistoryNext => Next
BY DEF HistoryNext, Fails, Others, Next

\* What a step may do to a call while the circuit stays open, or opens.
Moves(c) ==
    \/ circuit' # "open"
    \/ phase'[c] = "idle"
    \/ phase'[c] = phase[c] /\ attempt'[c] = attempt[c]
    \/ phase[c] = "attempt" /\ phase'[c] = "pause" /\ attempt'[c] = attempt[c]
    \/ phase[c] = "pause" /\ phase'[c] = "attempt" /\ attempt'[c] = attempt[c] + 1

LEMMA EveryCallMoves ==
    ASSUME CallsOK, BreakerOK, Next, NEW c \in Callers
    PROVE  Moves(c)
<1> USE DEF CallsOK
<1>1. ASSUME NEW d \in Callers,
             Returns(d) \/ \E time : phase[d] = "attempt" /\ Pauses(d, time)
      PROVE  Moves(c)
  BY <1>1 DEF Returns, Pauses, Goes, Moves
<1>2. ASSUME NEW d \in Callers, Begin(d) PROVE Moves(c)
  BY <1>2 DEF Begin, Allow, Moves
<1>3. ASSUME NEW d \in Callers, Succeeds(d) \/ IsRejected(d) \/ IsCancelled(d)
      PROVE  Moves(c)
  BY <1>1, <1>3 DEF Succeeds, IsRejected, IsCancelled
<1>4. ASSUME NEW d \in Callers, FailsForNow(d) \/ FailsUnwrapped(d) PROVE Moves(c)
  BY <1>1, <1>4 DEF FailsForNow, FailsUnwrapped
<1>5. ASSUME NEW d \in Callers, Wakes(d) PROVE Moves(c)
  <2>1. CASE Returns(d)
    BY <1>1, <2>1
  <2>2. CASE ~Returns(d)
    BY <1>5, <2>2 DEF Wakes, Attempts, Goes, Moves
  <2> QED BY <2>1, <2>2
<1>6. CASE Observe \/ Tick
  BY <1>6 DEF Observe, Tick, Moves
<1> QED BY <1>2, <1>3, <1>4, <1>5, <1>6 DEF Next

\* As long as it is closed, the breaker counts what the history counts.
LEMMA CountsStayEqual ==
    ASSUME BreakerOK, CountsAgree, HistoryNext
    PROVE  CountsAgree'
<1>0. Threshold \in Nat \ {0} /\ inARow \in 0 .. Threshold /\ failures \in 0 .. Threshold
  BY ResilienceAssumption DEF BreakerOK, CountsAgree
<1>1. CASE \E c \in Callers : Succeeds(c) /\ inARow' = 0
  BY <1>0, <1>1 DEF Succeeds, RecordSuccess, CountsAgree
<1>2. CASE \E c \in Callers : Fails(c) /\ inARow' = AtMost(inARow + 1, Threshold)
  <2>1. RecordFailure
    BY <1>2 DEF Fails, FailsForNow, FailsUnwrapped, IsRejected
  <2>2. inARow' = AtMost(inARow + 1, Threshold) /\ inARow' \in 0 .. Threshold
    BY <1>0, <1>2 DEF AtMost
  <2>3. failures' = AtMost(failures + 1, Threshold)
    BY <2>1 DEF RecordFailure
  <2>4. circuit' = "closed" => circuit = "closed"
    BY <2>1 DEF RecordFailure
  <2> QED BY <2>2, <2>3, <2>4 DEF CountsAgree
<1>3. CASE Others /\ UNCHANGED inARow
  <2>1. failures' = failures /\ (circuit' = "closed" => circuit = "closed")
    BY <1>3 DEF Others, Observe, Tick, Begin, Wakes, IsCancelled, MaybeHalfOpen, breaker
  <2> QED BY <1>3, <2>1 DEF CountsAgree
<1> QED BY <1>1, <1>2, <1>3 DEF HistoryNext

\* What a call sends into an open circuit are attempts it may still make.
LEMMA SentStaysAttempted ==
    ASSUME CallsOK, CallsOK', BreakerOK, SentIsAttempted, HistoryNext
    PROVE  SentIsAttempted'
<1>0. MaxRetries \in Nat
  BY ResilienceAssumption
<1>1. sentOpen' = [c \in Callers |->
                       IF circuit' # "open" THEN 0
                       ELSE IF Begins(c) THEN sentOpen[c] + 1 ELSE sentOpen[c]]
  BY DEF HistoryNext
<1>2. sentOpen' \in [Callers -> Nat]
  BY <1>1 DEF SentIsAttempted
<1>3. ASSUME NEW c \in Callers
      PROVE  sentOpen'[c] <= IF phase'[c] = "idle" THEN MaxRetries ELSE attempt'[c]
  <2>1. /\ sentOpen[c] \in Nat
        /\ sentOpen[c] <= IF phase[c] = "idle" THEN MaxRetries ELSE attempt[c]
        /\ attempt[c] \in 0 .. MaxRetries /\ attempt'[c] \in 0 .. MaxRetries
    BY DEF SentIsAttempted, CallsOK
  <2>2. CASE circuit' # "open"
    BY <1>0, <1>1, <2>1, <2>2
  <2>3. CASE circuit' = "open"
    <3>1. sentOpen'[c] = IF Begins(c) THEN sentOpen[c] + 1 ELSE sentOpen[c]
      BY <1>1, <2>3
    <3>2. Moves(c)
      BY EveryCallMoves, HistoryIsOfTheBreaker
    <3> QED BY <1>0, <2>1, <2>3, <3>1, <3>2 DEF Moves, Begins
  <2> QED BY <2>2, <2>3
<1> QED BY <1>2, <1>3 DEF SentIsAttempted

LEMMA HistoryStep == IInv /\ HistoryInv /\ [HistoryNext]_<<vars, history>>
                     => (IInv /\ HistoryInv)'
<1> SUFFICES ASSUME IInv, HistoryInv, [HistoryNext]_<<vars, history>>
             PROVE  (IInv /\ HistoryInv)'
  OBVIOUS
<1>1. [Next]_vars
  BY HistoryIsOfTheBreaker DEF vars
<1>2. IInv'
  BY <1>1, StepPreserves
<1>3. CASE HistoryNext
  BY <1>2, <1>3, CountsStayEqual, SentStaysAttempted DEF IInv, HistoryInv
<1>4. CASE UNCHANGED <<vars, history>>
  <2>1. CountsAgree'
    BY <1>4 DEF HistoryInv, CountsAgree, vars, history
  <2>2. SentIsAttempted'
    BY <1>4 DEF HistoryInv, SentIsAttempted, vars, history
  <2> QED BY <1>2, <2>1, <2>2 DEF HistoryInv
<1> QED BY <1>3, <1>4

(***************************************************************************)
(* The history agrees with the breaker: its count is the count of failures *)
(* in a row while the circuit is closed, and what a call has sent into an  *)
(* open circuit is among its attempts.                                     *)
(***************************************************************************)
THEOREM HistoryInvariance == HistorySpec => [](IInv /\ HistoryInv)
<1>1. HistoryInit => IInv /\ HistoryInv
  <2> SUFFICES ASSUME HistoryInit PROVE IInv /\ HistoryInv
    OBVIOUS
  <2>1. IInv
    BY InitEstablishes DEF HistoryInit
  <2>2. HistoryInv
    BY ResilienceAssumption
       DEF HistoryInit, Init, HistoryInv, CountsAgree, SentIsAttempted
  <2> QED BY <2>1, <2>2
<1>2. (IInv /\ HistoryInv) /\ [HistoryNext]_<<vars, history>> => (IInv /\ HistoryInv)'
  BY HistoryStep
<1> QED BY <1>1, <1>2, PTL DEF HistorySpec

(***************************************************************************)
(* However long the circuit stays open, a call sends the dependency no     *)
(* more than the retries of one call: for any number of calls under way.   *)
(***************************************************************************)
THEOREM OpenLetsOnlyRetriesThrough == HistorySpec => []OpenSendsOnlyRetries
<1>1. IInv /\ HistoryInv => OpenSendsOnlyRetries
  <2> SUFFICES ASSUME IInv, HistoryInv, NEW c \in Callers
               PROVE  sentOpen[c] <= MaxRetries
    BY DEF OpenSendsOnlyRetries
  <2>1. sentOpen[c] \in Nat /\ attempt[c] \in 0 .. MaxRetries /\ MaxRetries \in Nat
    BY ResilienceAssumption DEF IInv, CallsOK, HistoryInv, SentIsAttempted
  <2> QED BY <2>1 DEF HistoryInv, SentIsAttempted
<1> QED BY <1>1, HistoryInvariance, PTL

(***************************************************************************)
(* A closed circuit opens on exactly Threshold failures in a row, never on *)
(* fewer, and never with a success among them.                             *)
(***************************************************************************)
THEOREM OpeningTakesAThreshold == HistorySpec => OpensOnFailuresInARow
<1>1. IInv /\ HistoryInv /\ [HistoryNext]_<<vars, history>>
        => [circuit = "closed" /\ circuit' = "open" => inARow' = Threshold]_<<vars, history>>
  <2> SUFFICES ASSUME IInv, HistoryInv, HistoryNext,
                      circuit = "closed", circuit' = "open"
               PROVE  inARow' = Threshold
    BY DEF vars, history
  <2>1. ~(\E c \in Callers : Succeeds(c) /\ inARow' = 0)
    BY DEF Succeeds, RecordSuccess
  <2>2. ~Others
    BY DEF Others, Observe, Tick, Begin, Wakes, IsCancelled, MaybeHalfOpen, breaker
  <2>3. PICK c \in Callers : Fails(c) /\ inARow' = AtMost(inARow + 1, Threshold)
    BY <2>1, <2>2 DEF HistoryNext
  <2>4. RecordFailure
    BY <2>3 DEF Fails, FailsForNow, FailsUnwrapped, IsRejected
  <2>5. failures + 1 >= Threshold /\ inARow = failures
    BY <2>4 DEF RecordFailure, Opens, HistoryInv, CountsAgree
  <2> QED BY <2>3, <2>5, ResilienceAssumption DEF AtMost, IInv, BreakerOK
<1> QED BY <1>1, HistoryInvariance, PTL DEF HistorySpec, OpensOnFailuresInARow

-----------------------------------------------------------------------------
(***************************************************************************)
(* One run of the pipeline                                                 *)
(***************************************************************************)
\* The constants of the pipeline, under their names here.
LEMMA RunConstants ==
    /\ RunTimeout \in Nat \ {0} /\ SpineLimit \in Nat /\ CallLimit \in Nat \ {0}
    /\ SavesFail \in BOOLEAN
BY ClocksAssumption DEF Run!PipelineAssumption

\* What each stage waits for.
LEMMA StageOrder ==
    /\ Run!After["fetch"] = {} /\ Run!After["extract_text"] = {"fetch"}
    /\ Run!After["classify"] = {"extract_text"}
    /\ \A s \in Run!Gathered : Run!After[s] = {"classify"}
    /\ Run!After["index"] = Run!Gathered
    /\ \A s \in Run!Stage : s \notin Run!After[s]
    /\ \A s \in Run!Stage : Run!After[s] \subseteq Run!Stage
BY DEF Run!After, Run!Gathered, Run!Stage, Run!Spine, Run!Enrichment

\* The two times a run spends.
LEMMA SpentIs ==
    ASSUME Run!TypeOK
    PROVE  runSpent.spine \in Nat /\ runSpent.enrichment \in Nat
BY RunConstants DEF Run!TypeOK

\* A tick adds to one of them, and not to more than the time-out.
LEMMA SpentGrows ==
    ASSUME Run!TypeOK, Run!Elapsed < RunTimeout, NEW k \in {"spine", "enrichment"},
           runSpent' = [runSpent EXCEPT ![k] = @ + 1]
    PROVE  /\ runSpent' \in [{"spine", "enrichment"} -> 0 .. RunTimeout]
           /\ Run!Elapsed' <= RunTimeout
           /\ runSpent'.enrichment = IF k = "spine" THEN runSpent.enrichment ELSE runSpent.enrichment + 1
           /\ runSpent'.spine = IF k = "spine" THEN runSpent.spine + 1 ELSE runSpent.spine
BY RunConstants DEF Run!TypeOK, Run!Elapsed

\* A stage that has left "todo" has what it waits for behind it.
LEMMA StagesFollow ==
    ASSUME Run!InOrder
    PROVE  /\ state["extract_text"] # "todo" => Run!Returned("fetch")
           /\ state["classify"] # "todo" => Run!Returned("extract_text")
           /\ \A s \in Run!Gathered : state[s] # "todo" => Run!Returned("classify")
           /\ state["index"] # "todo" => \A s \in Run!Gathered : Run!Returned(s)
<1>1. /\ "extract_text" \in Run!Stage /\ "classify" \in Run!Stage
      /\ "index" \in Run!Stage /\ Run!Gathered \subseteq Run!Stage
  BY DEF Run!Stage, Run!Spine, Run!Enrichment, Run!Gathered
<1> QED BY <1>1, StageOrder DEF Run!InOrder

\* A stage of the spine, and classify, run alone; the gathered ones together.
LEMMA WhoRunsBeside ==
    ASSUME Run!InOrder, NEW s \in Run!Active
    PROVE  /\ s \in Run!Spine \cup {"classify"} => Run!Active = {s}
           /\ s \in Run!Gathered => Run!Active \subseteq Run!Gathered
<1> USE DEF Run!Stage, Run!Spine, Run!Enrichment, Run!Gathered
<1>1. /\ state["extract_text"] # "todo" => Run!Returned("fetch")
      /\ state["classify"] # "todo" => Run!Returned("extract_text")
      /\ \A g \in Run!Gathered : state[g] # "todo" => Run!Returned("classify")
      /\ state["index"] # "todo" => \A g \in Run!Gathered : Run!Returned(g)
  BY StagesFollow
<1>2. state[s] = "active" /\ s \in Run!Stage
  BY DEF Run!Active
<1>3. \A t \in Run!Active : t \in Run!Stage /\ state[t] = "active"
  BY DEF Run!Active
<1>4. CASE s \in {"fetch", "extract_text"}
  BY <1>1, <1>2, <1>3, <1>4 DEF Run!Returned
<1>5. CASE s = "classify"
  BY <1>1, <1>2, <1>3, <1>5 DEF Run!Returned
<1>6. CASE s \in Run!Gathered
  BY <1>1, <1>2, <1>3, <1>6 DEF Run!Returned
<1>7. CASE s = "index"
  <2>1. /\ Run!Returned("extract") /\ Run!Returned("summarize") /\ Run!Returned("risk")
        /\ "extract" \in Run!Gathered
    BY <1>1, <1>2, <1>7
  <2>2. Run!Returned("classify") /\ Run!Returned("extract_text") /\ Run!Returned("fetch")
    BY <1>1, <2>1 DEF Run!Returned
  <2>3. \A t \in Run!Active : t = "index"
    BY <1>3, <2>1, <2>2 DEF Run!Returned
  <2> HIDE DEF Run!Stage, Run!Enrichment
  <2> QED BY <1>7, <2>3
<1>8. s \in {"fetch", "extract_text"} \/ s = "classify" \/ s \in Run!Gathered \/ s = "index"
  BY <1>2
<1> HIDE DEF Run!Stage, Run!Enrichment
<1>9. "classify" \notin Run!Gathered /\ Run!Spine \cap Run!Gathered = {}
  OBVIOUS
<1> QED BY <1>4, <1>5, <1>6, <1>7, <1>8, <1>9

\* While a run that has its outcome is not quiet, only gathered stages run.
LEMMA LateStageIsGathered ==
    ASSUME Run!OutcomeIsQuiet, NEW s \in Run!Active, outcome # "running"
    PROVE  outcome = "terminal" /\ s \in Run!Gathered
BY DEF Run!OutcomeIsQuiet

-----------------------------------------------------------------------------
(***************************************************************************)
(* The end of a stage, whatever it ends as, keeps the order and the times. *)
(***************************************************************************)
Quiet == \A s \in Run!Stage : state[s] # "active" => stageAge[s] = 0

Ended == {"ok", "fallback", "skipped", "error", "cancelled"}

LEMMA EndKeepsTimes ==
    ASSUME Run!TypeOK, Quiet, Run!InOrder, Run!EnrichmentFits,
           NEW s \in Run!Stage, NEW as \in Ended, Run!Ends(s, as),
           outcome' \in {"running", "completed", "retryable", "terminal"} \cup {outcome},
           degraded' \in BOOLEAN
    PROVE  Run!TypeOK' /\ Quiet' /\ Run!InOrder' /\ Run!EnrichmentFits'
<1>1. /\ state[s] = "active" /\ state' = [state EXCEPT ![s] = as]
      /\ stageAge' = [stageAge EXCEPT ![s] = 0] /\ runSpent' = runSpent
      /\ as # "todo" /\ as # "active"
  BY DEF Run!Ends, Ended
<1>2. Run!TypeOK'
  <2>1. state' \in [Run!Stage -> {"todo", "active", "ok", "fallback", "skipped",
                                  "error", "cancelled"}]
    BY <1>1 DEF Run!TypeOK, Ended
  <2>2. stageAge' \in [Run!Stage -> Nat]
    BY <1>1 DEF Run!TypeOK
  <2>3. \A t \in Run!Stage : stageAge'[t] <= Run!Limit(t)
    BY <1>1, RunConstants DEF Run!TypeOK, Run!Limit
  <2>4. outcome' \in {"running", "completed", "retryable", "terminal",
                      "timeout", "cancelled"}
    BY DEF Run!TypeOK
  <2> QED BY <1>1, <2>1, <2>2, <2>3, <2>4 DEF Run!TypeOK, Run!Elapsed
<1>3. Quiet'
  BY <1>1 DEF Quiet, Run!TypeOK
<1>4. \A t \in Run!Stage : state'[t] = "todo" => state[t] = "todo"
  BY <1>1 DEF Run!TypeOK
<1>5. Run!InOrder'
  <2> SUFFICES ASSUME NEW t \in Run!Stage, state'[t] # "todo", NEW p \in Run!After[t]
               PROVE  Run!Returned(p)'
    BY DEF Run!InOrder
  <2>1. state[t] # "todo" /\ p \in Run!Stage
    BY <1>1, StageOrder DEF Run!TypeOK
  <2>2. Run!Returned(p)
    BY <2>1 DEF Run!InOrder
  <2>3. p # s /\ state'[p] = state[p]
    BY <1>1, <2>1, <2>2 DEF Run!Returned, Run!TypeOK
  <2> QED BY <2>2, <2>3 DEF Run!Returned
<1>6. Run!EnrichmentFits'
  <2>1. runSpent'.enrichment = runSpent.enrichment
    BY <1>1
  <2>2. \A t \in Run!Stage : state'[t] = "active" => state[t] = "active" /\ stageAge'[t] = stageAge[t]
    BY <1>1 DEF Run!TypeOK
  <2>3. "classify" \in Run!Stage /\ Run!Gathered \subseteq Run!Stage
    BY DEF Run!Stage, Run!Enrichment
  <2> QED BY <1>4, <2>1, <2>2, <2>3 DEF Run!EnrichmentFits
<1> QED BY <1>2, <1>3, <1>5, <1>6

\* What a stage's end leaves running, and what it leaves failed.
LEMMA EndLeaves ==
    ASSUME Run!TypeOK, NEW s \in Run!Stage, NEW as \in Ended, Run!Ends(s, as)
    PROVE  /\ s \in Run!Active /\ Run!Active' = Run!Active \ {s}
           /\ \A t \in Run!Stage : t # s => state'[t] = state[t]
           /\ \A t \in Run!Stage : state[t] = "error" => state'[t] = "error"
           /\ state'[s] = as /\ runSpent' = runSpent
<1>1. /\ state[s] = "active" /\ state' = [state EXCEPT ![s] = as]
      /\ as # "active" /\ runSpent' = runSpent
  BY DEF Run!Ends, Ended
<1> QED BY <1>1 DEF Run!Active, Run!TypeOK

\* Whoever ends: errors of the past are kept, so an outcome stays explained.
LEMMA SameOutcomeStaysExplained ==
    ASSUME Run!TypeOK, Run!EnrichmentIsAbsorbed, Run!OutcomeIsQuiet,
           NEW s \in Run!Stage, NEW as \in Ended, Run!Ends(s, as),
           outcome' = outcome
    PROVE  Run!OutcomeIsQuiet' /\ Run!EnrichmentIsAbsorbed'
<1>1. /\ Run!Active' \subseteq Run!Active
      /\ \A t \in Run!Stage : state[t] = "error" => state'[t] = "error"
      /\ runSpent' = runSpent
  BY EndLeaves
<1>2. Run!Gathered \subseteq Run!Stage /\ Run!Spine \subseteq Run!Stage
      /\ Run!Enrichment \subseteq Run!Stage
  BY DEF Run!Stage, Run!Enrichment
<1>3. Run!OutcomeIsQuiet'
  BY <1>1, <1>2 DEF Run!OutcomeIsQuiet
<1>4. Run!EnrichmentIsAbsorbed'
  BY <1>1, <1>2 DEF Run!EnrichmentIsAbsorbed
<1> QED BY <1>3, <1>4

Explained == Run!OutcomeIsQuiet /\ Run!EnrichmentIsAbsorbed

LEMMA AnswerStaysExplained ==
    ASSUME Run!TypeOK, Run!InOrder, Explained, NEW s \in Run!Enrichment,
           Run!Ends(s, "error"), Run!Raises("terminal"), SavesFail
    PROVE  Explained'
<1>1. s \in Run!Stage /\ "error" \in Ended
  BY DEF Run!Stage, Ended
<1>2. s \in Run!Active /\ Run!Active' = Run!Active \ {s} /\ state'[s] = "error"
  BY <1>1, EndLeaves
<1>3. outcome' = "terminal"
  BY <1>2, LateStageIsGathered DEF Run!Raises, Explained
<1>4. Run!EnrichmentIsAbsorbed'
  BY <1>2, <1>3 DEF Run!EnrichmentIsAbsorbed
<1>5. CASE s = "classify"
  <2>1. Run!Active' = {}
    BY <1>2, <1>5, WhoRunsBeside
  <2> QED BY <1>4, <2>1 DEF Run!OutcomeIsQuiet, Explained
<1>6. CASE s \in Run!Gathered
  <2>1. Run!Active \subseteq Run!Gathered
    BY <1>2, <1>6, WhoRunsBeside
  <2>2. Run!Active' \subseteq Run!Gathered
    BY <1>2, <2>1
  <2> QED BY <1>2, <1>3, <1>4, <1>6, <2>2 DEF Run!OutcomeIsQuiet, Explained
<1> QED BY <1>5, <1>6 DEF Run!Enrichment

LEMMA SpineStaysExplained ==
    ASSUME Run!TypeOK, Run!InOrder, Explained, NEW s \in Run!Spine,
           NEW as \in {"ok", "error"}, Run!Ends(s, as),
           outcome' \in {"running", "completed", "retryable", "terminal"},
           outcome' \in {"retryable", "terminal"} => as = "error"
    PROVE  Explained'
<1>1. s \in Run!Stage /\ as \in Ended
  BY DEF Run!Stage, Ended
<1>2. s \in Run!Active /\ Run!Active' = Run!Active \ {s} /\ state'[s] = as
  BY <1>1, EndLeaves
<1>3. Run!Active' = {}
  BY <1>2, WhoRunsBeside
<1> QED BY <1>2, <1>3 DEF Run!OutcomeIsQuiet, Run!EnrichmentIsAbsorbed, Explained
-----------------------------------------------------------------------------
(***************************************************************************)
(* The actions                                                             *)
(***************************************************************************)
LEMMA RunInit == Run!Init => Run!RunInv
<1> SUFFICES ASSUME Run!Init PROVE Run!RunInv
  OBVIOUS
<1> USE RunConstants DEF Run!Init
<1>1. Run!TypeOK
  <2>1. runSpent \in [{"spine", "enrichment"} -> 0 .. RunTimeout]
    OBVIOUS
  <2>2. runSpent.spine = 0 /\ runSpent.enrichment = 0
    OBVIOUS
  <2>3. stageAge \in [Run!Stage -> Nat] /\ \A s \in Run!Stage : stageAge[s] <= Run!Limit(s)
    BY DEF Run!Limit
  <2>4. state \in [Run!Stage -> {"todo", "active", "ok", "fallback", "skipped",
                                "error", "cancelled"}]
    OBVIOUS
  <2>5. outcome = "running" /\ degraded \in BOOLEAN
    OBVIOUS
  <2> HIDE DEF Run!Init
  <2> QED BY <2>1, <2>2, <2>3, <2>4, <2>5 DEF Run!TypeOK, Run!Elapsed
<1>2. \A s \in Run!Stage : stageAge[s] = 0 /\ state[s] = "todo"
  OBVIOUS
<1>3. Run!InOrder
  BY <1>2 DEF Run!InOrder
<1>4. Run!EnrichmentFits
  <2>1. runSpent.enrichment = 0
    OBVIOUS
  <2>2. "classify" \in Run!Stage /\ Run!Gathered \subseteq Run!Stage
    BY DEF Run!Stage, Run!Enrichment
  <2> QED BY <1>2, <2>1, <2>2 DEF Run!EnrichmentFits
<1>5. Run!OutcomeIsQuiet /\ Run!EnrichmentIsAbsorbed
  BY DEF Run!OutcomeIsQuiet, Run!EnrichmentIsAbsorbed
<1> QED BY <1>1, <1>2, <1>3, <1>4, <1>5 DEF Run!RunInv

LEMMA StageEnds ==
    ASSUME Run!RunInv, NEW s \in Run!Stage,
           \/ Run!Succeeds(s) \/ Run!Fails(s) \/ Run!IsAbsorbed(s)
           \/ \E isFallback \in BOOLEAN : Run!Answers(s, isFallback)
    PROVE  Run!RunInv'
<1>1. /\ Run!TypeOK /\ Quiet /\ Run!InOrder /\ Run!EnrichmentFits
      /\ Explained /\ Run!OutcomeIsQuiet /\ Run!EnrichmentIsAbsorbed
  BY DEF Run!RunInv, Quiet, Explained
<1>2. SUFFICES \E as \in Ended :
               /\ Run!Ends(s, as) /\ degraded' \in BOOLEAN /\ Explained'
               /\ outcome' \in {"running", "completed", "retryable", "terminal"} \cup {outcome}
  <2>1. PICK as \in Ended :
               /\ Run!Ends(s, as) /\ degraded' \in BOOLEAN /\ Explained'
               /\ outcome' \in {"running", "completed", "retryable", "terminal"} \cup {outcome}
    BY <1>2
  <2>2. Run!TypeOK' /\ Quiet' /\ Run!InOrder' /\ Run!EnrichmentFits'
    BY <1>1, <2>1, EndKeepsTimes
  <2> QED BY <2>1, <2>2 DEF Run!RunInv, Quiet, Explained
<1>3. degraded \in BOOLEAN
  BY <1>1 DEF Run!TypeOK
<1>4. ASSUME NEW as \in Ended, Run!Ends(s, as), outcome' = outcome PROVE Explained'
  BY <1>1, <1>4, SameOutcomeStaysExplained DEF Explained
<1>5. ASSUME NEW as \in Ended, Run!Ends(s, as), s \in Run!Spine PROVE outcome = "running"
  <2>1. s \in Run!Active
    BY <1>1, <1>5, EndLeaves
  <2> QED BY <1>1, <1>5, <2>1, LateStageIsGathered DEF Run!Spine, Run!Gathered
<1>6. CASE Run!Succeeds(s)
  <2>1. s \in Run!Spine /\ Run!Ends(s, "ok") /\ "ok" \in Ended /\ degraded' = degraded
    BY <1>6 DEF Run!Succeeds, Ended
  <2>2. outcome' \in {"running", "completed"}
    BY <1>5, <1>6, <2>1 DEF Run!Succeeds
  <2>3. Explained'
    BY <1>1, <2>1, <2>2, SpineStaysExplained
  <2> QED BY <1>3, <2>1, <2>2, <2>3
<1>7. CASE Run!Fails(s)
  <2>1. s \in Run!Spine /\ Run!Ends(s, "error") /\ "error" \in Ended /\ degraded' = degraded
    BY <1>7 DEF Run!Fails, Ended
  <2>2. outcome' \in {"retryable", "terminal"}
    BY <1>5, <1>7, <2>1 DEF Run!Fails, Run!Raises
  <2>3. Explained'
    BY <1>1, <2>1, <2>2, SpineStaysExplained
  <2> QED BY <1>3, <2>1, <2>2, <2>3
<1>8. CASE Run!IsAbsorbed(s)
  <2>1. Run!Ends(s, "skipped") /\ "skipped" \in Ended /\ degraded' = degraded /\ outcome' = outcome
    BY <1>8 DEF Run!IsAbsorbed, Ended
  <2> QED BY <1>3, <1>4, <2>1
<1>9. ASSUME NEW isFallback \in BOOLEAN, Run!Answers(s, isFallback)
      PROVE  \E as \in Ended :
               /\ Run!Ends(s, as) /\ degraded' \in BOOLEAN /\ Explained'
               /\ outcome' \in {"running", "completed", "retryable", "terminal"} \cup {outcome}
  <2>1. degraded' \in BOOLEAN
    BY <1>3, <1>9 DEF Run!Answers, Run!Flag
  <2>2. CASE \E as \in Ended : Run!Ends(s, as) /\ outcome' = outcome
    BY <1>4, <2>1, <2>2
  <2>3. CASE SavesFail /\ Run!Ends(s, "error") /\ Run!Raises("terminal")
    <3>1. "error" \in Ended /\ s \in Run!Enrichment
      BY <1>9 DEF Ended, Run!Answers
    <3>2. Explained'
      BY <1>1, <2>3, <3>1, AnswerStaysExplained
    <3>3. outcome' \in {"running", "completed", "retryable", "terminal"} \cup {outcome}
      BY <2>3 DEF Run!Raises
    <3> QED BY <2>1, <2>3, <3>1, <3>2, <3>3
  <2> QED BY <1>9, <2>2, <2>3 DEF Run!Answers, Ended
<1> QED BY <1>6, <1>7, <1>8, <1>9

LEMMA RunStarts == ASSUME Run!RunInv, Run!Start PROVE Run!RunInv'
<1>1. /\ Run!TypeOK /\ Quiet /\ Run!InOrder /\ Run!EnrichmentFits
      /\ Run!EnrichmentIsAbsorbed
  BY DEF Run!RunInv, Quiet
<1>2. /\ outcome = "running" /\ UNCHANGED <<stageAge, runSpent, outcome, degraded>>
      /\ state' = [s \in Run!Stage |-> IF s \in Run!Ready THEN "active" ELSE state[s]]
  BY DEF Run!Start
<1>3. Run!TypeOK'
  <2>1. state' \in [Run!Stage -> {"todo", "active", "ok", "fallback", "skipped",
                                  "error", "cancelled"}]
    BY <1>1, <1>2 DEF Run!TypeOK
  <2> QED BY <1>1, <1>2, <2>1 DEF Run!TypeOK, Run!Elapsed
<1>4. Quiet'
  BY <1>1, <1>2 DEF Quiet
<1>5. Run!InOrder'
  <2> SUFFICES ASSUME NEW t \in Run!Stage, state'[t] # "todo", NEW p \in Run!After[t]
               PROVE  Run!Returned(p)'
    BY DEF Run!InOrder
  <2>1. p \in Run!Stage
    BY StageOrder
  <2>2. Run!Returned(p)
    BY <1>1, <1>2 DEF Run!InOrder, Run!Ready
  <2>3. state'[p] = state[p]
    BY <1>2, <2>1, <2>2 DEF Run!Returned, Run!Ready
  <2> QED BY <2>2, <2>3 DEF Run!Returned
<1>6. Run!EnrichmentFits'
  <2>1. "classify" \in Run!Stage /\ Run!Gathered \subseteq Run!Stage
    BY DEF Run!Stage, Run!Enrichment
  <2>2. \A s \in Run!Stage :
          /\ state'[s] = "todo" => state[s] = "todo"
          /\ state'[s] = "active" => state[s] = "active" \/ state[s] = "todo"
          /\ stageAge[s] \in Nat
    BY <1>1, <1>2 DEF Run!Ready, Run!TypeOK
  <2>3. runSpent.enrichment \in Nat /\ runSpent'.enrichment = runSpent.enrichment
    BY <1>1, <1>2, SpentIs
  <2>4. CallLimit \in Nat
    BY RunConstants
  <2> QED BY <1>1, <1>2, <2>1, <2>2, <2>3, <2>4 DEF Run!EnrichmentFits
<1>7. Run!OutcomeIsQuiet' /\ Run!EnrichmentIsAbsorbed'
  BY <1>2 DEF Run!OutcomeIsQuiet, Run!EnrichmentIsAbsorbed
<1> QED BY <1>3, <1>4, <1>5, <1>6, <1>7 DEF Run!RunInv, Quiet

LEMMA RunIsCancelled ==
    ASSUME Run!RunInv, Run!TimesOut \/ Run!Shutdown
    PROVE  Run!RunInv'
<1>1. /\ Run!TypeOK /\ Run!InOrder /\ Run!EnrichmentFits
  BY DEF Run!RunInv
<1>2. PICK as \in {"timeout", "cancelled"} :
        Run!Cancels(as) /\ (as = "timeout" => Run!Elapsed >= RunTimeout)
  BY DEF Run!TimesOut, Run!Shutdown, Run!Expired
<1>3. /\ outcome' = as /\ UNCHANGED <<runSpent, degraded>>
      /\ state' = [s \in Run!Stage |-> IF s \in Run!Active THEN "cancelled" ELSE state[s]]
      /\ stageAge' = [s \in Run!Stage |-> 0]
  BY <1>2 DEF Run!Cancels, Run!CancelledState
<1>4. \A s \in Run!Stage :
        state'[s] # "active" /\ (state'[s] = "todo" <=> state[s] = "todo")
  BY <1>3 DEF Run!Active
<1>5. Run!TypeOK'
  <2>1. state' \in [Run!Stage -> {"todo", "active", "ok", "fallback", "skipped",
                                  "error", "cancelled"}]
    BY <1>1, <1>3 DEF Run!TypeOK
  <2>2. stageAge' \in [Run!Stage -> Nat] /\ \A s \in Run!Stage : stageAge'[s] <= Run!Limit(s)
    BY <1>3, RunConstants DEF Run!Limit
  <2> QED BY <1>1, <1>3, <2>1, <2>2 DEF Run!TypeOK, Run!Elapsed
<1>6. Run!InOrder'
  <2> SUFFICES ASSUME NEW t \in Run!Stage, state'[t] # "todo", NEW p \in Run!After[t]
               PROVE  Run!Returned(p)'
    BY DEF Run!InOrder
  <2>1. p \in Run!Stage /\ Run!Returned(p)
    BY <1>1, <1>4, StageOrder DEF Run!InOrder
  <2>2. state'[p] = state[p]
    BY <1>3, <2>1 DEF Run!Returned, Run!Active
  <2> QED BY <2>1, <2>2 DEF Run!Returned
<1>7. Run!EnrichmentFits'
  <2>1. "classify" \in Run!Stage /\ Run!Gathered \subseteq Run!Stage
    BY DEF Run!Stage, Run!Enrichment
  <2> QED BY <1>1, <1>3, <1>4, <2>1 DEF Run!EnrichmentFits
<1>8. Run!OutcomeIsQuiet'
  BY <1>4 DEF Run!OutcomeIsQuiet, Run!Active
<1>9. Run!EnrichmentIsAbsorbed'
  <2>1. as = "timeout" => runSpent.spine + 2 * CallLimit >= RunTimeout
    BY <1>1, <1>2, SpentIs, RunConstants DEF Run!EnrichmentFits, Run!Elapsed
  <2> QED BY <1>3, <2>1 DEF Run!EnrichmentIsAbsorbed
<1> QED BY <1>3, <1>4, <1>5, <1>6, <1>7, <1>8, <1>9 DEF Run!RunInv
\* The time of a tick goes to the spine, or to stages of enrichment each of
\* which has been running for as long as the run has spent on them.
LEMMA RunTicks == ASSUME Run!RunInv, Run!Tick PROVE Run!RunInv'
<1>1. /\ Run!TypeOK /\ Quiet /\ Run!InOrder /\ Run!EnrichmentFits
      /\ Run!OutcomeIsQuiet /\ Run!EnrichmentIsAbsorbed
  BY DEF Run!RunInv, Quiet
<1>2. /\ Run!Active # {} /\ UNCHANGED <<state, outcome, degraded>>
      /\ outcome = "running" => Run!Ready = {} /\ Run!Elapsed < RunTimeout
      /\ \A s \in Run!Active : stageAge[s] < Run!Limit(s)
      /\ stageAge' = [s \in Run!Stage |->
                        IF s \in Run!Active THEN stageAge[s] + 1 ELSE stageAge[s]]
  <2>1. runSpent.spine \in Nat /\ runSpent.enrichment \in Nat /\ RunTimeout \in Nat
    BY <1>1, SpentIs, RunConstants
  <2> QED BY <2>1 DEF Run!Tick, Run!Expired, Run!Elapsed
<1>3. \E kind \in {"spine", "enrichment"} :
        /\ kind = IF Run!Active \cap Run!Spine # {} THEN "spine" ELSE "enrichment"
        /\ runSpent' = IF outcome = "running" THEN [runSpent EXCEPT ![kind] = @ + 1]
                       ELSE runSpent
  BY DEF Run!Tick
<1>4. PICK kind \in {"spine", "enrichment"} :
        /\ kind = IF Run!Active \cap Run!Spine # {} THEN "spine" ELSE "enrichment"
        /\ runSpent' = IF outcome = "running" THEN [runSpent EXCEPT ![kind] = @ + 1]
                       ELSE runSpent
  BY <1>3
<1>5. /\ runSpent' \in [{"spine", "enrichment"} -> 0 .. RunTimeout]
      /\ Run!Elapsed' <= RunTimeout
      /\ \/ runSpent'.enrichment = runSpent.enrichment
         \/ /\ outcome = "running" /\ kind = "enrichment"
            /\ runSpent'.enrichment = runSpent.enrichment + 1
      /\ runSpent'.spine >= runSpent.spine
  <2>1. CASE outcome = "running"
    <3>1. Run!Elapsed < RunTimeout /\ runSpent' = [runSpent EXCEPT ![kind] = @ + 1]
      BY <1>2, <1>4, <2>1
    <3>2. /\ runSpent' \in [{"spine", "enrichment"} -> 0 .. RunTimeout]
          /\ Run!Elapsed' <= RunTimeout
          /\ runSpent'.enrichment = IF kind = "spine" THEN runSpent.enrichment
                                    ELSE runSpent.enrichment + 1
          /\ runSpent'.spine = IF kind = "spine" THEN runSpent.spine + 1 ELSE runSpent.spine
      BY <1>1, <3>1, SpentGrows
    <3>3. runSpent.spine \in Nat
      BY <1>1, SpentIs
    <3>4. runSpent'.spine >= runSpent.spine
      BY <3>2, <3>3
    <3>5. kind = "spine" \/ kind = "enrichment"
      OBVIOUS
    <3> QED BY <2>1, <3>2, <3>4, <3>5
  <2>2. CASE outcome # "running"
    <3>1. runSpent' = runSpent
      BY <1>4, <2>2
    <3>2. runSpent.spine \in Nat /\ runSpent'.spine = runSpent.spine
      BY <1>1, <3>1, SpentIs
    <3>3. Run!Elapsed' = Run!Elapsed
      BY <3>1 DEF Run!Elapsed
    <3> QED BY <1>1, <3>1, <3>2, <3>3 DEF Run!TypeOK
  <2> QED BY <2>1, <2>2
<1>6. \A s \in Run!Stage :
        /\ stageAge[s] \in Nat /\ stageAge'[s] \in Nat /\ stageAge'[s] >= stageAge[s]
        /\ state[s] = "active" => stageAge'[s] = stageAge[s] + 1
        /\ state[s] # "active" => stageAge'[s] = stageAge[s]
  BY <1>1, <1>2 DEF Run!TypeOK, Run!Active
<1>7. \A s \in Run!Stage : stageAge'[s] <= Run!Limit(s) /\ Run!Limit(s) \in Nat
  BY <1>1, <1>2, <1>6, RunConstants DEF Run!TypeOK, Run!Limit, Run!Active
<1>8. Run!TypeOK'
  <2>1. stageAge' \in [Run!Stage -> Nat]
    BY <1>2, <1>6
  <2> QED BY <1>1, <1>2, <1>5, <1>7, <2>1 DEF Run!TypeOK
<1>9. Quiet'
  BY <1>1, <1>2, <1>6 DEF Quiet
<1>10. Run!InOrder'
  BY <1>1, <1>2 DEF Run!InOrder, Run!Returned
<1>11. Run!EnrichmentFits'
  <2>1. /\ "classify" \in Run!Stage /\ Run!Gathered \subseteq Run!Stage
        /\ "classify" \notin Run!Spine /\ Run!Gathered \cap Run!Spine = {}
    BY DEF Run!Stage, Run!Enrichment, Run!Spine, Run!Gathered
  <2>2. CallLimit \in Nat /\ runSpent.enrichment \in Nat
    BY <1>1, RunConstants, SpentIs
  <2>3. CASE runSpent'.enrichment = runSpent.enrichment
    <3>1. \A s \in Run!Stage :
            state'[s] = state[s] /\ stageAge[s] \in Nat /\ stageAge'[s] \in Nat
                                /\ stageAge'[s] >= stageAge[s]
      BY <1>2, <1>6
    <3> QED BY <1>1, <2>1, <2>2, <2>3, <3>1 DEF Run!EnrichmentFits
  <2>4. CASE /\ outcome = "running" /\ kind = "enrichment"
             /\ runSpent'.enrichment = runSpent.enrichment + 1
    <3>1. Run!Ready = {}
      BY <1>2, <2>4
    <3>2. PICK s \in Run!Active : s \in Run!Enrichment
      BY <1>2, <1>4, <2>4 DEF Run!Active, Run!Stage
    <3>3. /\ s \in Run!Stage /\ state[s] = "active" /\ stageAge[s] < CallLimit
          /\ stageAge'[s] = stageAge[s] + 1 /\ stageAge[s] \in Nat
      BY <1>2, <1>6, <2>1, <3>2 DEF Run!Active, Run!Limit, Run!Enrichment
    <3>4. CASE s = "classify"
      <4>1. runSpent.enrichment <= stageAge["classify"]
        BY <1>1, <3>3, <3>4 DEF Run!EnrichmentFits
      <4>2. runSpent'.enrichment <= CallLimit /\ CallLimit <= 2 * CallLimit
        BY <2>2, <2>4, <3>3, <3>4, <4>1
      <4>3. Run!Active = {"classify"}
        BY <1>1, <3>2, <3>4, WhoRunsBeside
      <4>4. \A g \in Run!Gathered : state[g] # "active"
        BY <2>1, <3>4, <4>3 DEF Run!Active, Run!Gathered
      <4>5. state'["classify"] = "active"
            /\ runSpent'.enrichment <= stageAge'["classify"]
        BY <1>2, <2>2, <2>4, <3>3, <3>4, <4>1
      <4>6. runSpent'.enrichment \in Nat
        BY <2>2, <2>4
      <4> QED BY <1>2, <2>2, <4>2, <4>4, <4>5, <4>6 DEF Run!EnrichmentFits
    <3>5. CASE s \in Run!Gathered
      <4>1. runSpent.enrichment <= CallLimit + stageAge[s]
        BY <1>1, <3>3, <3>5 DEF Run!EnrichmentFits
      <4>2. Run!Returned("classify")
        BY <1>1, <3>3, <3>5, StagesFollow
      <4>3. \A g \in Run!Gathered : state[g] # "todo"
        BY <2>1, <3>1, <4>2, StageOrder DEF Run!Ready
      <4>4. state["classify"] # "todo" /\ state["classify"] # "active"
        BY <4>2 DEF Run!Returned
      <4>5. runSpent'.enrichment <= 2 * CallLimit
        BY <2>2, <2>4, <3>3, <4>1
      <4>6. \A g \in Run!Gathered :
              state[g] = "active" => runSpent'.enrichment <= CallLimit + stageAge'[g]
        <5> SUFFICES ASSUME NEW g \in Run!Gathered, state[g] = "active"
                     PROVE  runSpent'.enrichment <= CallLimit + stageAge'[g]
          OBVIOUS
        <5>1. stageAge'[g] = stageAge[g] + 1 /\ stageAge[g] \in Nat
          BY <1>6, <2>1
        <5>2. runSpent.enrichment <= CallLimit + stageAge[g]
          BY <1>1 DEF Run!EnrichmentFits
        <5> QED BY <2>2, <2>4, <5>1, <5>2
      <4> QED BY <1>2, <4>3, <4>4, <4>5, <4>6 DEF Run!EnrichmentFits
    <3> QED BY <3>2, <3>4, <3>5 DEF Run!Enrichment
  <2> QED BY <1>5, <2>3, <2>4
<1>12. Run!OutcomeIsQuiet'
  BY <1>1, <1>2 DEF Run!OutcomeIsQuiet, Run!Active
<1>13. Run!EnrichmentIsAbsorbed'
  <2>1. runSpent.spine \in Nat /\ runSpent'.spine \in Nat /\ CallLimit \in Nat /\ RunTimeout \in Nat
    BY <1>1, <1>5, <1>8, SpentIs, RunConstants DEF Run!TypeOK
  <2> QED BY <1>1, <1>2, <1>5, <2>1 DEF Run!EnrichmentIsAbsorbed
<1> QED BY <1>8, <1>9, <1>10, <1>11, <1>12, <1>13 DEF Run!RunInv, Quiet

LEMMA RunStep == Run!RunInv /\ [Run!Next]_RunVars => Run!RunInv'
<1> SUFFICES ASSUME Run!RunInv, [Run!Next]_RunVars PROVE Run!RunInv'
  OBVIOUS
<1>1. CASE UNCHANGED RunVars
  <2>1. Run!TypeOK'
    BY <1>1 DEF RunVars, Run!RunInv, Run!TypeOK, Run!Elapsed
  <2>2. Quiet' /\ Run!InOrder' /\ Run!EnrichmentFits'
    BY <1>1 DEF RunVars, Run!RunInv, Quiet, Run!InOrder, Run!EnrichmentFits, Run!Returned
  <2>3. Run!OutcomeIsQuiet' /\ Run!EnrichmentIsAbsorbed'
    BY <1>1 DEF RunVars, Run!RunInv, Run!OutcomeIsQuiet, Run!EnrichmentIsAbsorbed, Run!Active
  <2> QED BY <2>1, <2>2, <2>3 DEF Run!RunInv, Quiet
<1>2. CASE Run!Next
  BY <1>2, StageEnds, RunStarts, RunIsCancelled, RunTicks DEF Run!Next
<1> QED BY <1>1, <1>2

(***************************************************************************)
(* In every reachable state of a run its stages are in order, and the time *)
(* it has spent on enrichment is what the stages under way have taken.     *)
(***************************************************************************)
THEOREM RunInvariance == Run!Spec => []Run!RunInv
<1>1. Run!Init => Run!RunInv
  BY RunInit
<1>2. Run!RunInv /\ [Run!Next]_Run!vars => Run!RunInv'
  BY RunStep DEF Run!vars, RunVars
<1> QED BY <1>1, <1>2, PTL DEF Run!Spec

(***************************************************************************)
(* Whatever the limits are: once the consumer has been told how the run    *)
(* ended, the only stages still going are gathered ones beside one whose   *)
(* result could not be stored.                                             *)
(***************************************************************************)
THEOREM AnOutcomeIsQuiet == Run!Spec => []OutcomeIsQuiet
<1>1. Run!RunInv => OutcomeIsQuiet
  BY DEF Run!RunInv, OutcomeIsQuiet
<1> QED BY <1>1, RunInvariance, PTL

(***************************************************************************)
(* No failing call of ai-service fails a run, and none of them makes it    *)
(* time out: the two rounds of calls take at most twice the longest call.  *)
(***************************************************************************)
THEOREM EnrichmentNeverFailsTheRun == Run!Spec => []EnrichmentIsAbsorbed
<1>1. Run!RunInv => EnrichmentIsAbsorbed
  BY DEF Run!RunInv, EnrichmentIsAbsorbed
<1> QED BY <1>1, RunInvariance, PTL

-----------------------------------------------------------------------------
(***************************************************************************)
(* The worker fleet                                                        *)
(***************************************************************************)
\* The constants of the fleet, under their names here.
LEMMA FleetConstants ==
    /\ Pod \in [Slot -> Worker] /\ MaxJobs \in Nat /\ ReadBatch \in Nat \ {0}
    /\ FleetTimeout \in Nat \ {0} /\ MinIdle \in Nat
BY ClocksAssumption DEF Fleet!TimingAssumption

\* The fleet counts as everybody does.
LEMMA FleetCounts ==
    \A S : Fleet!Cardinality(S) = Cardinality(S) /\ (Fleet!IsFiniteSet(S) <=> IsFiniteSet(S))
BY DEF Fleet!Cardinality, Cardinality, Fleet!IsFiniteSet, IsFiniteSet

\* Rounds of a time-out each.
LEMMA RoundsAdd ==
    ASSUME NEW n \in Nat, NEW t \in Nat
    PROVE  n * t \in Nat /\ (n + 1) * t = n * t + t
OBVIOUS

LEMMA RoundsGrow ==
    ASSUME NEW m \in Nat, NEW n \in Nat, NEW t \in Nat, m <= n
    PROVE  m * t <= n * t
OBVIOUS

\* COUNT bounds what a reclaim takes.
LEMMA BatchIsBounded ==
    ASSUME NEW S \in SUBSET (1 .. MaxJobs)
    PROVE  /\ Fleet!Batch(S) \subseteq S
           /\ IsFiniteSet(Fleet!Batch(S))
           /\ Cardinality(Fleet!Batch(S)) <= ReadBatch
<1> DEFINE Before(j) == {i \in S : i < j}
           B == Fleet!Batch(S)
           place == [j \in B |-> Cardinality(Before(j))]
<1>0. MaxJobs \in Nat /\ ReadBatch \in Nat \ {0}
  BY FleetConstants
<1>1. IsFiniteSet(1 .. MaxJobs)
  BY <1>0, FS_Interval
<1>2. ASSUME NEW j \in S
      PROVE  IsFiniteSet(Before(j)) /\ Cardinality(Before(j)) \in Nat
  <2>1. Before(j) \in SUBSET (1 .. MaxJobs)
    OBVIOUS
  <2>2. IsFiniteSet(Before(j))
    BY <1>1, <2>1, FS_Subset
  <2> QED BY <2>2, FS_CardinalityType
<1>3. B \subseteq S /\ \A j \in B : Cardinality(Before(j)) < ReadBatch
  <2>1. B = {j \in S : Cardinality(Before(j)) < ReadBatch}
    BY FleetCounts DEF Fleet!Batch
  <2> QED BY <2>1
<1>4. ASSUME NEW j \in B, NEW k \in B, j < k
      PROVE  Cardinality(Before(j)) < Cardinality(Before(k))
  <2>1. j \in S /\ k \in S /\ j \in 1 .. MaxJobs /\ k \in 1 .. MaxJobs
    BY <1>3
  <2>2. j \notin Before(j) /\ Before(j) \cup {j} \in SUBSET Before(k)
    <3>1. j \in Nat /\ k \in Nat /\ ~(j < j)
      BY <2>1
    <3>2. \A i \in Before(j) : i \in S /\ i < k
      BY <1>4, <2>1
    <3> QED BY <1>4, <2>1, <3>1, <3>2
  <2>3. /\ IsFiniteSet(Before(j)) /\ Cardinality(Before(j)) \in Nat
        /\ IsFiniteSet(Before(k)) /\ Cardinality(Before(k)) \in Nat
    BY <1>2, <2>1
  <2>4. Cardinality(Before(j) \cup {j}) = Cardinality(Before(j)) + 1
    BY <2>2, <2>3, FS_AddElement
  <2>5. Cardinality(Before(j) \cup {j}) <= Cardinality(Before(k))
    BY <2>2, <2>3, FS_Subset
  <2> QED BY <2>3, <2>4, <2>5
<1>5. place \in [B -> 0 .. ReadBatch - 1]
  <2>1. \A j \in B : Cardinality(Before(j)) \in 0 .. ReadBatch - 1
    <3> SUFFICES ASSUME NEW j \in B PROVE Cardinality(Before(j)) \in 0 .. ReadBatch - 1
      OBVIOUS
    <3>1. Cardinality(Before(j)) \in Nat /\ Cardinality(Before(j)) < ReadBatch
      BY <1>2, <1>3
    <3> HIDE DEF Before
    <3> QED BY <1>0, <3>1
  <2> HIDE DEF Before, B
  <2> QED BY <2>1
<1>6. ASSUME NEW j \in B, NEW k \in B, place[j] = place[k] PROVE j = k
  <2>1. j \in 1 .. MaxJobs /\ k \in 1 .. MaxJobs
    BY <1>3
  <2>2. Cardinality(Before(j)) = Cardinality(Before(k)) /\ Cardinality(Before(j)) \in Nat
    BY <1>2, <1>3, <1>6
  <2>3. ~(j < k) /\ ~(k < j)
    BY <1>4, <2>2
  <2> QED BY <2>1, <2>3
<1>7. place \in Injection(B, 0 .. ReadBatch - 1)
  BY <1>5, <1>6 DEF Injection, IsInjective
<1>8. IsFiniteSet(0 .. ReadBatch - 1) /\ Cardinality(0 .. ReadBatch - 1) = ReadBatch
  BY <1>0, FS_Interval
<1>9. IsFiniteSet(B) /\ Cardinality(B) <= ReadBatch
  <2> HIDE DEF B, place
  <2> QED BY <1>7, <1>8, FS_Injection
<1> QED BY <1>3, <1>9

-----------------------------------------------------------------------------
(***************************************************************************)
(* The invariant of the fleet, in terms of the library's Cardinality.      *)
(***************************************************************************)
Fits ==
    \A w \in Worker : IsFiniteSet(waiting[w]) /\ Cardinality(waiting[w]) <= ReadBatch

Bound(s) == (ReadBatch - Cardinality(waiting[Pod[s]])) * FleetTimeout + Fleet!Round(s)

Waits == \A s \in Slot : \A j \in waiting[Pod[s]] : idle[j] <= Bound(s)

Held == (UNION {waiting[w] : w \in Worker}) \cup {task[s] : s \in Slot}

FI ==
    /\ Fleet!TypeOK
    /\ Fits
    /\ Waits
    /\ Fleet!RunsAreBounded
    /\ Fleet!NoLiveWorkIsStolen

LEMMA SameInvariant == Fleet!FleetInv <=> FI
<1>1. Fleet!BatchesFit <=> Fits
  BY FleetCounts DEF Fleet!BatchesFit, Fits
<1>2. Fleet!WaitsAreBounded <=> Waits
  BY FleetCounts DEF Fleet!WaitsAreBounded, Waits, Bound
<1> QED BY <1>1, <1>2 DEF Fleet!FleetInv, FI

\* What is pending has been read.
LEMMA PendingAreJobs == ASSUME Fleet!TypeOK PROVE \A j \in pending : j \in 1 .. MaxJobs
BY FleetConstants DEF Fleet!TypeOK

\* What the counts and times of a state are.
LEMMA FleetNumbers ==
    ASSUME Fleet!TypeOK, Fits, NEW s \in Slot
    PROVE  /\ Pod[s] \in Worker /\ IsFiniteSet(waiting[Pod[s]])
           /\ Cardinality(waiting[Pod[s]]) \in 0 .. ReadBatch
           /\ \A j \in waiting[Pod[s]] :
                Cardinality(waiting[Pod[s]]) \in 1 .. ReadBatch
           /\ Fleet!Round(s) \in 0 .. FleetTimeout
           /\ taskAge[s] \in 0 .. FleetTimeout
           /\ task[s] # 0 => task[s] \in 1 .. MaxJobs /\ task[s] \in pending
<1>1. Pod[s] \in Worker
  BY FleetConstants
<1>2. IsFiniteSet(waiting[Pod[s]]) /\ Cardinality(waiting[Pod[s]]) <= ReadBatch
  BY <1>1 DEF Fits
<1>3. Cardinality(waiting[Pod[s]]) \in Nat
      /\ (Cardinality(waiting[Pod[s]]) = 0 <=> waiting[Pod[s]] = {})
  BY <1>2, FS_CardinalityType, FS_EmptySet
<1>4. Fleet!Round(s) \in 0 .. FleetTimeout /\ taskAge[s] \in 0 .. FleetTimeout
  BY FleetConstants DEF Fleet!TypeOK, Fleet!Round
<1>5. task[s] # 0 => task[s] \in 1 .. MaxJobs /\ task[s] \in pending
  <2>1. task[s] \in pending \cup {0}
    BY DEF Fleet!TypeOK, Fleet!None
  <2> QED BY <2>1, PendingAreJobs
<1> QED BY <1>1, <1>2, <1>3, <1>4, <1>5, FleetConstants

LEMMA FleetInit == Fleet!Init => FI
<1> SUFFICES ASSUME Fleet!Init PROVE FI
  OBVIOUS
<1> USE FleetConstants DEF Fleet!Init
<1>1. Fleet!TypeOK
  BY DEF Fleet!TypeOK, Fleet!Job, Fleet!None
<1>2. Fits
  BY FS_EmptySet DEF Fits
<1>3. Waits /\ Fleet!RunsAreBounded /\ Fleet!NoLiveWorkIsStolen
  BY DEF Waits, Fleet!RunsAreBounded, Fleet!NoLiveWorkIsStolen, Fleet!None
<1> QED BY <1>1, <1>2, <1>3 DEF FI

\* A message that is held has not been idle for long: the rule at work.
LEMMA HeldIsFresh ==
    ASSUME FI, Fleet!RoundsFit, NEW j \in Held, j # 0
    PROVE  idle[j] < MinIdle
<1> DEFINE T == FleetTimeout
<1>0. /\ T \in Nat /\ ReadBatch \in Nat /\ ReadBatch >= 1 /\ MinIdle \in Nat
      /\ ReadBatch * T \in Nat
      /\ ReadBatch * T + T < MinIdle
  BY FleetConstants, RoundsAdd DEF Fleet!RoundsFit
<1>1. ASSUME NEW w \in Worker, j \in waiting[w] PROVE idle[j] < MinIdle
  <2>1. PICK s \in Slot : Pod[s] = w
    BY DEF Fleet!RoundsFit
  <2> DEFINE c == Cardinality(waiting[Pod[s]])
  <2>2. c \in 1 .. ReadBatch /\ Fleet!Round(s) \in 0 .. T
    BY <1>1, <2>1, FleetNumbers DEF FI
  <2>3. idle[j] <= Bound(s)
    BY <1>1, <2>1 DEF FI, Waits
  <2>4. j \in Fleet!Job /\ idle[j] \in Nat
    BY <1>1, FleetConstants DEF FI, Fleet!TypeOK, Fleet!Job
  <2> HIDE DEF c
  <2>5. ReadBatch - c \in Nat /\ ReadBatch - c <= ReadBatch
    BY <1>0, <2>2
  <2>6. (ReadBatch - c) * T \in Nat /\ (ReadBatch - c) * T <= ReadBatch * T
    BY <1>0, <2>5, RoundsAdd, RoundsGrow
  <2>7. Bound(s) = (ReadBatch - c) * T + Fleet!Round(s)
    BY DEF Bound, c
  <2> HIDE DEF T
  <2> QED BY <1>0, <2>2, <2>3, <2>4, <2>6, <2>7
<1>2. ASSUME NEW s \in Slot, j = task[s] PROVE idle[j] < MinIdle
  <2>1. idle[j] <= ReadBatch * T + taskAge[s]
    BY <1>2 DEF FI, Fleet!RunsAreBounded, Fleet!None
  <2>2. taskAge[s] \in 0 .. T /\ j \in 1 .. MaxJobs
    BY <1>2, FleetNumbers DEF FI
  <2>3. idle[j] \in Nat
    BY <2>2, FleetConstants DEF FI, Fleet!TypeOK, Fleet!Job
  <2> HIDE DEF T
  <2> QED BY <1>0, <2>1, <2>2, <2>3
<1> QED BY <1>1, <1>2 DEF Held

-----------------------------------------------------------------------------
(***************************************************************************)
(* Handing out what nobody holds                                           *)
(***************************************************************************)
LEMMA HandOutKeeps ==
    ASSUME FI, NEW w \in Worker, NEW S \in SUBSET (1 .. cursor'),
           IsFiniteSet(S), Cardinality(S) <= ReadBatch, S \cap Held = {},
           cursor' \in cursor .. MaxJobs, Fleet!HandOut(w, S)
    PROVE  FI'
<1>1. /\ waiting[w] = {} /\ waiting' = [waiting EXCEPT ![w] = S]
      /\ pending' = pending \cup S /\ task' = task /\ taskAge' = taskAge
      /\ idle' = [j \in 1 .. MaxJobs |-> IF j \in S THEN 0 ELSE idle[j]]
  BY DEF Fleet!HandOut, Fleet!Job
<1>2. /\ cursor \in 0 .. MaxJobs /\ pending \in SUBSET (1 .. cursor)
      /\ idle \in [1 .. MaxJobs -> 0 .. MinIdle]
      /\ waiting \in [Worker -> SUBSET pending]
      /\ task \in [Slot -> pending \cup {0}] /\ taskAge \in [Slot -> 0 .. FleetTimeout]
  BY DEF FI, Fleet!TypeOK, Fleet!Job, Fleet!None
<1>3. MaxJobs \in Nat /\ MinIdle \in Nat /\ ReadBatch \in Nat /\ FleetTimeout \in Nat
      /\ Pod \in [Slot -> Worker]
  BY FleetConstants
<1>4. \A v \in Worker : waiting'[v] = IF v = w THEN S ELSE waiting[v]
  BY <1>1, <1>2
<1>5. Fleet!TypeOK'
  <2>1. pending' \in SUBSET (1 .. cursor') /\ cursor' \in 0 .. MaxJobs
    BY <1>1, <1>2, <1>3
  <2>2. idle' \in [1 .. MaxJobs -> 0 .. MinIdle]
    BY <1>1, <1>2, <1>3
  <2>3. waiting' \in [Worker -> SUBSET pending']
    BY <1>1, <1>2
  <2>4. task' \in [Slot -> pending' \cup {0}]
    BY <1>1, <1>2
  <2> QED BY <1>1, <1>2, <2>1, <2>2, <2>3, <2>4 DEF Fleet!TypeOK, Fleet!Job, Fleet!None
<1>6. Fits'
  BY <1>4 DEF Fits, FI
<1>7. Waits'
  <2> SUFFICES ASSUME NEW s \in Slot, NEW j \in waiting'[Pod[s]]
               PROVE  idle'[j] <= Bound(s)'
    BY DEF Waits
  <2>1. Fleet!Round(s)' = Fleet!Round(s) /\ Fleet!Round(s) \in Nat /\ Pod[s] \in Worker
    BY <1>1, FleetNumbers DEF Fleet!Round, FI
  <2>2. CASE Pod[s] = w
    <3>1. waiting'[Pod[s]] = S /\ j \in S /\ idle'[j] = 0
      BY <1>1, <1>2, <1>3, <1>4, <2>1, <2>2
    <3>2. Cardinality(S) \in Nat /\ ReadBatch - Cardinality(S) \in Nat
      BY <1>3, FS_CardinalityType
    <3>3. (ReadBatch - Cardinality(S)) * FleetTimeout \in Nat
      BY <1>3, <3>2, RoundsAdd
    <3>4. Bound(s)' = (ReadBatch - Cardinality(S)) * FleetTimeout + Fleet!Round(s)
      BY <2>1, <3>1 DEF Bound
    <3> QED BY <2>1, <3>1, <3>3, <3>4
  <2>3. CASE Pod[s] # w
    <3>1. waiting'[Pod[s]] = waiting[Pod[s]]
      BY <1>4, <2>1, <2>3
    <3>2. j \in Held /\ j \in 1 .. MaxJobs
      <4>1. j \in waiting[Pod[s]] /\ j \in pending
        BY <1>2, <2>1, <3>1
      <4>2. j \in 1 .. MaxJobs
        BY <1>2, <1>3, <4>1
      <4> QED BY <2>1, <4>1, <4>2 DEF Held
    <3>3. idle'[j] = idle[j]
      BY <1>1, <3>2
    <3>4. Bound(s)' = Bound(s)
      BY <2>1, <3>1 DEF Bound
    <3> QED BY <3>1, <3>3, <3>4 DEF FI, Waits
  <2> QED BY <2>2, <2>3
<1>8. Fleet!RunsAreBounded'
  <2> SUFFICES ASSUME NEW s \in Slot, task[s] # 0
               PROVE  idle'[task[s]] <= ReadBatch * FleetTimeout + taskAge[s]
    BY <1>1 DEF Fleet!RunsAreBounded, Fleet!None
  <2>1. task[s] \in Held /\ task[s] \in 1 .. MaxJobs
    BY FleetNumbers DEF Held, FI
  <2>2. idle'[task[s]] = idle[task[s]]
    BY <1>1, <2>1
  <2> QED BY <2>2 DEF FI, Fleet!RunsAreBounded, Fleet!None
<1>9. Fleet!NoLiveWorkIsStolen'
  <2>1. \A v \in Worker : waiting[v] \cap S = {}
    BY DEF Held
  <2>2. \A s \in Slot : task[s] \notin S
    BY DEF Held
  <2> QED BY <1>1, <1>4, <2>1, <2>2 DEF FI, Fleet!NoLiveWorkIsStolen, Fleet!None
<1> QED BY <1>5, <1>6, <1>7, <1>8, <1>9 DEF FI
LEMMA FleetReads ==
    ASSUME FI, NEW w \in Worker, NEW n \in 1 .. ReadBatch, Fleet!Read(w, n)
    PROVE  FI'
<1>1. /\ cursor' = cursor + n /\ cursor + n <= MaxJobs
      /\ Fleet!HandOut(w, cursor + 1 .. cursor + n)
  BY DEF Fleet!Read
<1>2. cursor \in Nat /\ MaxJobs \in Nat /\ n \in Nat /\ n <= ReadBatch
  BY FleetConstants DEF FI, Fleet!TypeOK
<1> DEFINE S == cursor + 1 .. cursor + n
<1>3. IsFiniteSet(S) /\ Cardinality(S) = n
  BY <1>2, FS_Interval
<1>4. S \in SUBSET (1 .. cursor') /\ cursor' \in cursor .. MaxJobs
  BY <1>1, <1>2
<1>5. \A j \in Held : j = 0 \/ j \in 1 .. cursor
  BY DEF Held, FI, Fleet!TypeOK, Fleet!None
<1>6. S \cap Held = {}
  BY <1>2, <1>5
<1> HIDE DEF S
<1>7. Fleet!HandOut(w, S)
  BY <1>1 DEF S
<1> QED BY <1>2, <1>3, <1>4, <1>6, <1>7, HandOutKeeps

LEMMA FleetReclaims ==
    ASSUME FI, Fleet!RoundsFit, NEW w \in Worker, Fleet!Reclaim(w)
    PROVE  FI'
<1> DEFINE S == Fleet!Batch(Fleet!Abandoned)
<1>1. Fleet!HandOut(w, S) /\ cursor' = cursor
  BY DEF Fleet!Reclaim
<1>2. cursor \in 0 .. MaxJobs /\ MaxJobs \in Nat /\ MinIdle \in Nat /\ pending \subseteq 1 .. cursor
  BY FleetConstants DEF FI, Fleet!TypeOK
<1>3. Fleet!Abandoned \subseteq 1 .. cursor /\ Fleet!Abandoned \in SUBSET (1 .. MaxJobs)
  <2>1. \A j \in Fleet!Abandoned : j \in pending
    BY DEF Fleet!Abandoned
  <2>2. \A j \in Fleet!Abandoned : j \in 1 .. MaxJobs
    BY <2>1, PendingAreJobs DEF FI
  <2> QED BY <1>2, <2>1, <2>2
<1>4. S \subseteq Fleet!Abandoned /\ IsFiniteSet(S) /\ Cardinality(S) <= ReadBatch
  BY <1>3, BatchIsBounded
<1> HIDE DEF S
<1>5. S \cap Held = {}
  <2> SUFFICES ASSUME NEW j \in S, j \in Held PROVE FALSE
    OBVIOUS
  <2>1. j \in 1 .. MaxJobs /\ idle[j] >= MinIdle
    BY <1>2, <1>3, <1>4 DEF Fleet!Abandoned
  <2>2. idle[j] < MinIdle
    BY <2>1, HeldIsFresh
  <2>3. idle[j] \in Nat
    BY <1>2, <2>1 DEF FI, Fleet!TypeOK, Fleet!Job
  <2> QED BY <1>2, <2>1, <2>2, <2>3
<1>6. S \in SUBSET (1 .. cursor') /\ cursor' \in cursor .. MaxJobs
  BY <1>1, <1>2, <1>3, <1>4
<1> QED BY <1>1, <1>4, <1>5, <1>6, HandOutKeeps

-----------------------------------------------------------------------------
(***************************************************************************)
(* A dispatch passes the bound of a waiting message on to the slot.        *)
(***************************************************************************)
LEMMA FleetDispatches ==
    ASSUME FI, NEW s \in Slot, Fleet!Dispatch(s)
    PROVE  FI'
<1>1. PICK j \in waiting[Pod[s]] :
        /\ task' = [task EXCEPT ![s] = j]
        /\ waiting' = [waiting EXCEPT ![Pod[s]] = @ \ {j}]
  BY DEF Fleet!Dispatch
<1>2. /\ task[s] = 0 /\ taskAge' = [taskAge EXCEPT ![s] = 0]
      /\ cursor' = cursor /\ pending' = pending /\ idle' = idle
  BY DEF Fleet!Dispatch, Fleet!None
<1>3. /\ cursor \in 0 .. MaxJobs /\ pending \in SUBSET (1 .. cursor)
      /\ idle \in [1 .. MaxJobs -> 0 .. MinIdle]
      /\ waiting \in [Worker -> SUBSET pending]
      /\ task \in [Slot -> pending \cup {0}] /\ taskAge \in [Slot -> 0 .. FleetTimeout]
  BY DEF FI, Fleet!TypeOK, Fleet!Job, Fleet!None
<1>4. MaxJobs \in Nat /\ MinIdle \in Nat /\ ReadBatch \in Nat /\ FleetTimeout \in Nat
      /\ Pod \in [Slot -> Worker]
  BY FleetConstants
<1> DEFINE p == Pod[s]
           T == FleetTimeout
           c == Cardinality(waiting[Pod[s]])
<1>5. p \in Worker /\ IsFiniteSet(waiting[p]) /\ c \in 1 .. ReadBatch
  BY <1>1, FleetNumbers DEF FI
<1>6. IsFiniteSet(waiting[p] \ {j}) /\ Cardinality(waiting[p] \ {j}) = c - 1
  BY <1>1, <1>5, FS_RemoveElement
<1>7. /\ \A v \in Worker : waiting'[v] = IF v = p THEN waiting[p] \ {j} ELSE waiting[v]
      /\ \A t \in Slot : task'[t] = IF t = s THEN j ELSE task[t]
      /\ \A t \in Slot : taskAge'[t] = IF t = s THEN 0 ELSE taskAge[t]
  BY <1>1, <1>2, <1>3
<1>8. j \in pending /\ j \in 1 .. MaxJobs /\ idle[j] \in Nat
  <2>1. j \in pending
    BY <1>1, <1>3, <1>5
  <2>2. j \in 1 .. MaxJobs
    BY <1>3, <1>4, <2>1
  <2> QED BY <1>3, <1>4, <2>1, <2>2
<1>9. Fleet!TypeOK'
  <2>1. waiting' \in [Worker -> SUBSET pending]
    BY <1>1, <1>3
  <2>2. task' \in [Slot -> pending \cup {0}]
    BY <1>1, <1>3, <1>8
  <2>3. taskAge' \in [Slot -> 0 .. T]
    BY <1>2, <1>3, <1>4
  <2> QED BY <1>2, <1>3, <2>1, <2>2, <2>3 DEF Fleet!TypeOK, Fleet!Job, Fleet!None
<1>10. Fits'
  <2> SUFFICES ASSUME NEW v \in Worker
               PROVE  IsFiniteSet(waiting'[v]) /\ Cardinality(waiting'[v]) <= ReadBatch
    BY DEF Fits
  <2>1. CASE v = p
    <3>1. waiting'[v] = waiting[p] \ {j}
      BY <1>5, <1>7, <2>1
    <3> HIDE DEF c, p
    <3> QED BY <1>4, <1>5, <1>6, <3>1
  <2>2. CASE v # p
    BY <1>7, <2>2 DEF Fits, FI
  <2> QED BY <2>1, <2>2
<1>11. (ReadBatch - c) * T \in Nat
       /\ (ReadBatch - (c - 1)) * T = (ReadBatch - c) * T + T
       /\ (ReadBatch - c) * T + T <= ReadBatch * T
  <2> HIDE DEF c, T
  <2>0. T \in Nat
    BY <1>4 DEF T
  <2>1. ReadBatch - c \in Nat /\ ReadBatch - (c - 1) = (ReadBatch - c) + 1
        /\ (ReadBatch - c) + 1 <= ReadBatch /\ (ReadBatch - c) + 1 \in Nat
    BY <1>4, <1>5
  <2>2. (ReadBatch - c) * T \in Nat /\ ((ReadBatch - c) + 1) * T = (ReadBatch - c) * T + T
    BY <2>0, <2>1, RoundsAdd
  <2>3. ((ReadBatch - c) + 1) * T <= ReadBatch * T
    BY <2>0, <1>4, <2>1, RoundsGrow
  <2> QED BY <2>1, <2>2, <2>3
<1>12. Fleet!Round(s) = T
  BY <1>2 DEF Fleet!Round, Fleet!None
<1>13. Waits'
  <2> SUFFICES ASSUME NEW t \in Slot, NEW k \in waiting'[Pod[t]]
               PROVE  idle[k] <= Bound(t)'
    BY <1>2 DEF Waits
  <2>1. Pod[t] \in Worker /\ Fleet!Round(t) \in 0 .. T
    BY FleetNumbers DEF FI
  <2>2. k \in waiting[Pod[t]] /\ idle[k] <= Bound(t)
    BY <1>7, <2>1 DEF FI, Waits
  <2>3. idle[k] \in Nat
    <3>1. k \in pending
      BY <1>3, <2>1, <2>2
    <3>2. k \in 1 .. MaxJobs
      BY <3>1, PendingAreJobs DEF FI
    <3> QED BY <1>3, <1>4, <3>2
  <2>4. CASE t = s
    <3>1. Fleet!Round(t)' = 0
      BY <1>7, <1>8, <2>4 DEF Fleet!Round, Fleet!None
    <3>2. Cardinality(waiting'[Pod[t]]) = c - 1
      BY <1>5, <1>6, <1>7, <2>4
    <3>3. Bound(t)' = (ReadBatch - (c - 1)) * T + 0
      BY <3>1, <3>2 DEF Bound
    <3>4. Bound(t) = (ReadBatch - c) * T + T
      BY <1>12, <2>4 DEF Bound
    <3> HIDE DEF c, T
    <3> QED BY <1>11, <2>2, <2>3, <3>3, <3>4, <1>4 DEF T
  <2>5. CASE t # s
    <3>1. Fleet!Round(t)' = Fleet!Round(t)
      BY <1>7, <2>5 DEF Fleet!Round, Fleet!None
    <3>2. CASE Pod[t] = p
      <4>1. Cardinality(waiting'[Pod[t]]) = c - 1
        BY <1>5, <1>6, <1>7, <3>2
      <4>2. Bound(t)' = (ReadBatch - (c - 1)) * T + Fleet!Round(t)
        BY <3>1, <4>1 DEF Bound
      <4>3. Bound(t) = (ReadBatch - c) * T + Fleet!Round(t)
        BY <3>2 DEF Bound
      <4> HIDE DEF c, T
      <4>4. T \in Nat
        BY <1>4 DEF T
      <4> QED BY <1>11, <2>1, <2>2, <2>3, <4>2, <4>3, <4>4
    <3>3. CASE Pod[t] # p
      <4>1. waiting'[Pod[t]] = waiting[Pod[t]]
        BY <1>7, <2>1, <3>3
      <4>2. Bound(t)' = Bound(t)
        BY <3>1, <4>1 DEF Bound
      <4> QED BY <2>2, <4>2
    <3> QED BY <3>2, <3>3
  <2> QED BY <2>4, <2>5
<1>14. Fleet!RunsAreBounded'
  <2> SUFFICES ASSUME NEW t \in Slot, task'[t] # 0
               PROVE  idle[task'[t]] <= ReadBatch * T + taskAge'[t]
    BY <1>2 DEF Fleet!RunsAreBounded, Fleet!None
  <2>1. CASE t = s
    <3>1. idle[j] <= Bound(s) /\ Bound(s) = (ReadBatch - c) * T + T
      BY <1>1, <1>12 DEF FI, Waits, Bound
    <3>2. task'[t] = j /\ taskAge'[t] = 0
      BY <1>7, <2>1
    <3> HIDE DEF c, T
    <3>3. ReadBatch * T \in Nat /\ T \in Nat
      BY <1>4, RoundsAdd DEF T
    <3> QED BY <1>8, <1>11, <3>1, <3>2, <3>3
  <2>2. CASE t # s
    <3>1. task'[t] = task[t] /\ taskAge'[t] = taskAge[t]
      BY <1>7, <2>2
    <3> QED BY <3>1 DEF FI, Fleet!RunsAreBounded, Fleet!None
  <2> QED BY <2>1, <2>2
<1>15. Fleet!NoLiveWorkIsStolen'
  <2>0. Fleet!NoLiveWorkIsStolen
    BY DEF FI
  <2>1. \A v, w \in Worker : waiting'[v] \cap waiting'[w] # {} => v = w
    BY <1>7, <2>0 DEF Fleet!NoLiveWorkIsStolen
  <2>2. \A t, u \in Slot : task'[t] = task'[u] /\ task'[t] # 0 => t = u
    <3>1. \A t \in Slot : task[t] # j
      BY <1>1, <1>5, <2>0 DEF Fleet!NoLiveWorkIsStolen
    <3> QED BY <1>7, <2>0, <3>1 DEF Fleet!NoLiveWorkIsStolen, Fleet!None
  <2>3. \A t \in Slot, w \in Worker : task'[t] \notin waiting'[w]
    <3> SUFFICES ASSUME NEW t \in Slot, NEW w \in Worker, task'[t] \in waiting'[w]
                 PROVE  FALSE
      OBVIOUS
    <3>1. task'[t] \in waiting[w]
      BY <1>7
    <3>2. CASE t = s
      <4>1. j \in waiting'[w] /\ j \in waiting[w] /\ j \in waiting[p]
        BY <1>1, <1>7, <3>1, <3>2
      <4>2. w = p
        BY <1>5, <2>0, <4>1 DEF Fleet!NoLiveWorkIsStolen
      <4> QED BY <1>7, <4>1, <4>2
    <3>3. CASE t # s
      BY <1>7, <2>0, <3>1, <3>3 DEF Fleet!NoLiveWorkIsStolen
    <3> QED BY <3>2, <3>3
  <2> QED BY <2>1, <2>2, <2>3 DEF Fleet!NoLiveWorkIsStolen, Fleet!None
<1> QED BY <1>9, <1>10, <1>13, <1>14, <1>15 DEF FI

-----------------------------------------------------------------------------
(***************************************************************************)
(* What lets go of messages only makes room: the bounds grow, or the       *)
(* messages they are about are gone.                                       *)
(***************************************************************************)
LEMMA LettingGoKeeps ==
    ASSUME FI, cursor' = cursor, idle' = idle, pending' \in SUBSET pending,
           waiting' \in [Worker -> SUBSET pending'],
           \A v \in Worker : waiting'[v] = {} \/ waiting'[v] = waiting[v],
           task' \in [Slot -> pending' \cup {0}],
           \A s \in Slot : \/ task'[s] = 0
                           \/ task'[s] = task[s] /\ taskAge'[s] = taskAge[s],
           taskAge' \in [Slot -> 0 .. FleetTimeout]
    PROVE  FI'
<1>1. Fleet!TypeOK'
  BY DEF FI, Fleet!TypeOK, Fleet!Job, Fleet!None
<1>2. Fits'
  <2> SUFFICES ASSUME NEW v \in Worker
               PROVE  IsFiniteSet(waiting'[v]) /\ Cardinality(waiting'[v]) <= ReadBatch
    BY DEF Fits
  <2> QED BY FS_EmptySet, FleetConstants DEF FI, Fits
<1>3. Waits'
  <2> SUFFICES ASSUME NEW s \in Slot, NEW j \in waiting'[Pod[s]]
               PROVE  idle[j] <= Bound(s)'
    BY DEF Waits
  <2>1. Pod[s] \in Worker /\ Fleet!Round(s) \in 0 .. FleetTimeout
    BY FleetNumbers DEF FI
  <2>2. waiting'[Pod[s]] = waiting[Pod[s]] /\ idle[j] <= Bound(s)
    BY <2>1 DEF FI, Waits
  <2>3. Fleet!Round(s)' \in Nat /\ Fleet!Round(s)' >= Fleet!Round(s)
    BY <2>1, FleetConstants DEF Fleet!Round, Fleet!None
  <2> DEFINE c == Cardinality(waiting[Pod[s]])
             r == (ReadBatch - c) * FleetTimeout
  <2>4. c \in 0 .. ReadBatch /\ ReadBatch \in Nat /\ FleetTimeout \in Nat
    BY FleetNumbers, FleetConstants DEF FI
  <2>5. ReadBatch - c \in Nat
    <3> HIDE DEF c
    <3> QED BY <2>4
  <2>6. r \in Nat
    <3> HIDE DEF c
    <3> QED BY <2>4, <2>5, RoundsAdd
  <2>7. Bound(s) = r + Fleet!Round(s) /\ Bound(s)' = r + Fleet!Round(s)'
    BY <2>2 DEF Bound
  <2>8. idle[j] \in Nat
    <3>1. j \in pending
      BY <2>1, <2>2 DEF FI, Fleet!TypeOK
    <3>2. j \in 1 .. MaxJobs
      BY <3>1, PendingAreJobs DEF FI
    <3> QED BY <3>2 DEF FI, Fleet!TypeOK, Fleet!Job
  <2> HIDE DEF r
  <2> QED BY <2>1, <2>2, <2>3, <2>6, <2>7, <2>8
<1>4. Fleet!RunsAreBounded'
  <2> SUFFICES ASSUME NEW s \in Slot, task'[s] # 0
               PROVE  idle[task'[s]] <= ReadBatch * FleetTimeout + taskAge'[s]
    BY DEF Fleet!RunsAreBounded, Fleet!None
  <2> QED BY DEF FI, Fleet!RunsAreBounded, Fleet!None
<1>5. Fleet!NoLiveWorkIsStolen'
  <2>0. Fleet!NoLiveWorkIsStolen
    BY DEF FI
  <2>1. \A v, w \in Worker : waiting'[v] \cap waiting'[w] # {} => v = w
    BY <2>0 DEF Fleet!NoLiveWorkIsStolen
  <2>2. \A t, u \in Slot : task'[t] = task'[u] /\ task'[t] # 0 => t = u
    BY <2>0 DEF Fleet!NoLiveWorkIsStolen, Fleet!None
  <2>3. \A t \in Slot, w \in Worker : task'[t] \notin waiting'[w]
    <3> SUFFICES ASSUME NEW t \in Slot, NEW w \in Worker, task'[t] \in waiting'[w]
                 PROVE  FALSE
      OBVIOUS
    <3>1. task'[t] \in pending
      BY DEF FI, Fleet!TypeOK
    <3>2. task'[t] # 0
      BY <3>1, PendingAreJobs DEF FI
    <3> QED BY <2>0, <3>2 DEF Fleet!NoLiveWorkIsStolen
  <2> QED BY <2>1, <2>2, <2>3 DEF Fleet!NoLiveWorkIsStolen, Fleet!None
<1> QED BY <1>1, <1>2, <1>3, <1>4, <1>5 DEF FI

LEMMA FleetFinishes == ASSUME FI, NEW s \in Slot, Fleet!Finish(s) PROVE FI'
<1>1. /\ task[s] # 0 /\ pending' \in {pending, pending \ {task[s]}}
      /\ task' = [task EXCEPT ![s] = 0] /\ taskAge' = [taskAge EXCEPT ![s] = 0]
      /\ cursor' = cursor /\ idle' = idle /\ waiting' = waiting
  BY DEF Fleet!Finish, Fleet!None
<1>2. /\ waiting \in [Worker -> SUBSET pending]
      /\ task \in [Slot -> pending \cup {0}] /\ taskAge \in [Slot -> 0 .. FleetTimeout]
  BY DEF FI, Fleet!TypeOK, Fleet!None
<1>3. Fleet!NoLiveWorkIsStolen
  BY DEF FI
<1>4. \A v \in Worker : waiting[v] \subseteq pending'
  BY <1>1, <1>2, <1>3 DEF Fleet!NoLiveWorkIsStolen
<1>5. \A t \in Slot : task'[t] \in pending' \cup {0}
  BY <1>1, <1>2, <1>3 DEF Fleet!NoLiveWorkIsStolen, Fleet!None
<1>6. \A t \in Slot : task'[t] = 0 \/ (task'[t] = task[t] /\ taskAge'[t] = taskAge[t])
  BY <1>1, <1>2
<1>7. taskAge' \in [Slot -> 0 .. FleetTimeout] /\ task' \in [Slot -> pending' \cup {0}]
  <2>1. taskAge' \in [Slot -> 0 .. FleetTimeout]
    BY <1>1, <1>2, FleetConstants
  <2>2. task' \in [Slot -> pending' \cup {0}]
    BY <1>1, <1>2, <1>5
  <2> QED BY <2>1, <2>2
<1>8. waiting' \in [Worker -> SUBSET pending']
  BY <1>1, <1>2, <1>4
<1>9. pending' \in SUBSET pending
  BY <1>1
<1> QED BY <1>1, <1>6, <1>7, <1>8, <1>9, LettingGoKeeps

LEMMA FleetCrashes == ASSUME FI, NEW w \in Worker, Fleet!Crash(w) PROVE FI'
<1>1. /\ waiting' = [waiting EXCEPT ![w] = {}]
      /\ task' = [s \in Slot |-> IF Pod[s] = w THEN 0 ELSE task[s]]
      /\ taskAge' = [s \in Slot |-> IF Pod[s] = w THEN 0 ELSE taskAge[s]]
      /\ cursor' = cursor /\ pending' = pending /\ idle' = idle
  BY DEF Fleet!Crash, Fleet!None
<1>2. /\ waiting \in [Worker -> SUBSET pending]
      /\ task \in [Slot -> pending \cup {0}] /\ taskAge \in [Slot -> 0 .. FleetTimeout]
  BY DEF FI, Fleet!TypeOK, Fleet!None
<1>3. waiting' \in [Worker -> SUBSET pending']
  BY <1>1, <1>2
<1>4. task' \in [Slot -> pending' \cup {0}]
  BY <1>1, <1>2
<1>5. taskAge' \in [Slot -> 0 .. FleetTimeout]
  BY <1>1, <1>2, FleetConstants
<1>6. \A v \in Worker : waiting'[v] = {} \/ waiting'[v] = waiting[v]
  BY <1>1, <1>2
<1>7. \A s \in Slot : task'[s] = 0 \/ (task'[s] = task[s] /\ taskAge'[s] = taskAge[s])
  BY <1>1
<1> QED BY <1>1, <1>3, <1>4, <1>5, <1>6, <1>7, LettingGoKeeps

-----------------------------------------------------------------------------
(***************************************************************************)
(* Time passes for a waiting message and for the slots of its pod at once: *)
(* none of them is free, or it would be dispatched first.                  *)
(***************************************************************************)
LEMMA FleetTicks == ASSUME FI, Fleet!Tick PROVE FI'
<1>1. /\ \A w \in Worker : waiting[w] = {} \/ Fleet!FreeSlots(w) = {}
      /\ \A s \in Slot : task[s] # 0 => taskAge[s] < FleetTimeout
      /\ idle' = [j \in 1 .. MaxJobs |-> IF j \in pending THEN Fleet!Later(idle[j]) ELSE idle[j]]
      /\ taskAge' = [s \in Slot |-> IF task[s] # 0 THEN taskAge[s] + 1 ELSE 0]
      /\ cursor' = cursor /\ pending' = pending /\ waiting' = waiting /\ task' = task
  BY DEF Fleet!Tick, Fleet!Job, Fleet!None
<1>2. /\ idle \in [1 .. MaxJobs -> 0 .. MinIdle] /\ taskAge \in [Slot -> 0 .. FleetTimeout]
      /\ MinIdle \in Nat /\ FleetTimeout \in Nat /\ ReadBatch \in Nat
  BY FleetConstants DEF FI, Fleet!TypeOK, Fleet!Job
<1>3. \A j \in 1 .. MaxJobs :
        idle[j] \in Nat /\ idle'[j] \in 0 .. MinIdle /\ idle'[j] <= idle[j] + 1
  BY <1>1, <1>2 DEF Fleet!Later
<1>4. Fleet!TypeOK'
  <2>1. idle' \in [1 .. MaxJobs -> 0 .. MinIdle]
    BY <1>1, <1>3
  <2>2. taskAge' \in [Slot -> 0 .. FleetTimeout]
    BY <1>1, <1>2
  <2> QED BY <1>1, <2>1, <2>2 DEF FI, Fleet!TypeOK, Fleet!Job
<1>5. Fits'
  BY <1>1 DEF FI, Fits
<1>6. Waits'
  <2> SUFFICES ASSUME NEW s \in Slot, NEW j \in waiting[Pod[s]]
               PROVE  idle'[j] <= Bound(s)'
    BY <1>1 DEF Waits
  <2> DEFINE c == Cardinality(waiting[Pod[s]])
             r == (ReadBatch - c) * FleetTimeout
  <2>1. Pod[s] \in Worker /\ c \in 1 .. ReadBatch
    BY FleetNumbers DEF FI
  <2>2. task[s] # 0
    BY <1>1, <2>1 DEF Fleet!FreeSlots, Fleet!None
  <2>3. Fleet!Round(s) = taskAge[s] /\ Fleet!Round(s)' = taskAge[s] + 1
    BY <1>1, <2>2 DEF Fleet!Round, Fleet!None
  <2>4. r \in Nat
    <3> HIDE DEF c
    <3>1. ReadBatch - c \in Nat
      BY <1>2, <2>1
    <3> QED BY <1>2, <3>1, RoundsAdd
  <2>5. Bound(s) = r + taskAge[s] /\ Bound(s)' = r + (taskAge[s] + 1)
    BY <1>1, <2>3 DEF Bound
  <2>6. idle[j] <= Bound(s)
    BY DEF FI, Waits
  <2>7. j \in 1 .. MaxJobs
    <3>1. j \in pending
      BY <2>1 DEF FI, Fleet!TypeOK
    <3> QED BY <3>1, PendingAreJobs DEF FI
  <2>8. idle[j] \in Nat /\ idle'[j] \in Nat /\ idle'[j] <= idle[j] + 1 /\ taskAge[s] \in Nat
    BY <1>2, <1>3, <2>7
  <2> HIDE DEF r
  <2> QED BY <2>4, <2>5, <2>6, <2>8
<1>7. Fleet!RunsAreBounded'
  <2> SUFFICES ASSUME NEW s \in Slot, task[s] # 0
               PROVE  idle'[task[s]] <= ReadBatch * FleetTimeout + taskAge'[s]
    BY <1>1 DEF Fleet!RunsAreBounded, Fleet!None
  <2>1. task[s] \in 1 .. MaxJobs /\ taskAge[s] \in Nat /\ taskAge'[s] = taskAge[s] + 1
    BY <1>1, <1>2, FleetNumbers DEF FI
  <2>2. idle[task[s]] <= ReadBatch * FleetTimeout + taskAge[s]
    BY DEF FI, Fleet!RunsAreBounded, Fleet!None
  <2>3. ReadBatch * FleetTimeout \in Nat
    BY <1>2, RoundsAdd
  <2>4. /\ idle[task[s]] \in Nat /\ idle'[task[s]] \in Nat
        /\ idle'[task[s]] <= idle[task[s]] + 1
    BY <1>2, <1>3, <2>1
  <2> QED BY <2>1, <2>2, <2>3, <2>4
<1>8. Fleet!NoLiveWorkIsStolen'
  BY <1>1 DEF FI, Fleet!NoLiveWorkIsStolen
<1> QED BY <1>4, <1>5, <1>6, <1>7, <1>8 DEF FI

LEMMA FleetStep == FI /\ Fleet!RoundsFit /\ [Fleet!Next]_FleetVars => FI'
<1> SUFFICES ASSUME FI, Fleet!RoundsFit, [Fleet!Next]_FleetVars PROVE FI'
  OBVIOUS
<1>1. CASE UNCHANGED FleetVars
  <2>1. Fleet!TypeOK'
    BY <1>1 DEF FleetVars, FI, Fleet!TypeOK
  <2>2. Fits' /\ Fleet!NoLiveWorkIsStolen'
    BY <1>1 DEF FleetVars, FI, Fits, Fleet!NoLiveWorkIsStolen
  <2>3. Waits' /\ Fleet!RunsAreBounded'
    BY <1>1 DEF FleetVars, FI, Waits, Bound, Fleet!Round, Fleet!RunsAreBounded
  <2> QED BY <2>1, <2>2, <2>3 DEF FI
<1>2. CASE Fleet!Next
  BY <1>2, FleetReads, FleetReclaims, FleetDispatches, FleetFinishes,
     FleetCrashes, FleetTicks DEF Fleet!Next
<1> QED BY <1>1, <1>2

(***************************************************************************)
(* For a fleet of any size, whose threshold exceeds a time-out for every   *)
(* message of a batch and one more, and whose pods have a slot each.       *)
(***************************************************************************)
THEOREM FleetInvariance == Fleet!RoundsFit /\ Fleet!Spec => []Fleet!FleetInv
<1>1. Fleet!Init => FI
  BY FleetInit
<1>2. FI /\ Fleet!RoundsFit /\ [Fleet!Next]_Fleet!vars => FI'
  BY FleetStep DEF Fleet!vars, FleetVars
<1>3. Fleet!FleetInv <=> FI
  BY SameInvariant
<1>4. Fleet!RoundsFit => Fleet!RoundsFit'
  BY DEF Fleet!RoundsFit
<1> QED BY <1>1, <1>2, <1>3, <1>4, PTL DEF Fleet!Spec

(***************************************************************************)
(* Then a reclaim never takes a message that a live worker holds, be it    *)
(* waiting or running: the rule that read_batch_size, job_timeout_s and    *)
(* reclaim_min_idle_ms must obey together.                                 *)
(***************************************************************************)
THEOREM LiveWorkIsSafe == Fleet!RoundsFit /\ Fleet!Spec => []NoLiveWorkIsStolen
<1>1. Fleet!FleetInv => NoLiveWorkIsStolen
  BY DEF Fleet!FleetInv, NoLiveWorkIsStolen
<1> QED BY <1>1, FleetInvariance, PTL
=============================================================================
