----------------------------- MODULE Resilience -----------------------------
(***************************************************************************)
(* The circuit breaker of one dependency and the calls that go through it: *)
(* call_with_resilience, for the concurrent jobs of one pod.               *)
(*                                                                         *)
(* Time is counted in ticks.  Between two awaits a call runs alone (in     *)
(* ai-service, where the calls are threads, each method of the breaker     *)
(* takes its lock), so the end of an attempt, what the breaker records of  *)
(* it and the choice of a pause are one step.                              *)
(***************************************************************************)
EXTENDS FiniteSets, Integers

CONSTANTS
    Callers,       \* the calls that may be under way at the same time
    Threshold,     \* settings.circuit_breaker_threshold
    ResetAfter,    \* settings.circuit_breaker_reset_s
    MaxRetries,    \* settings.max_retries
    Timeout,       \* longest an attempt takes
    Deadline,      \* deadline_s
    BaseDelay,     \* settings.retry_base_delay_s
    MaxDelay       \* settings.retry_max_delay_s

ASSUME ResilienceAssumption ==
    /\ Threshold \in Nat \ {0}
    /\ ResetAfter \in Nat \ {0}
    /\ MaxRetries \in Nat
    /\ Timeout \in Nat \ {0}
    /\ Deadline \in Nat \ {0}
    /\ BaseDelay \in Nat
    /\ MaxDelay \in Nat

VARIABLES
    circuit,    \* CircuitBreaker._state
    failures,   \* CircuitBreaker._failures, which only Threshold is compared with
    openFor,    \* the time since _opened_at, which only ResetAfter is compared with
    phase,      \* phase[c]: whether call c is in an attempt or in a pause
    attempt,    \* attempt[c]: its number
    spent,      \* spent[c]: the time since call_started
    left        \* left[c]: what is left of the attempt's time-out or of the pause

breaker == <<circuit, failures, openFor>>
vars == <<circuit, failures, openFor, phase, attempt, spent, left>>

AtMost(n, bound) == IF n < bound THEN n ELSE bound

\* backoff_delay: full jitter under an exponential, capped ceiling.
BackoffDelay(n) == {time \in 0 .. MaxDelay : time <= BaseDelay * 2^n}

TypeOK ==
    /\ circuit \in {"closed", "open", "half_open"}
    /\ failures \in 0 .. Threshold
    /\ openFor \in 0 .. ResetAfter
    /\ phase \in [Callers -> {"idle", "attempt", "pause"}]
    /\ attempt \in [Callers -> 0 .. MaxRetries]
    /\ spent \in [Callers -> Nat]
    /\ left \in [Callers -> Nat]
    /\ circuit = "closed" => failures < Threshold

Init ==
    /\ circuit = "closed"
    /\ failures = 0
    /\ openFor = 0
    /\ phase = [c \in Callers |-> "idle"]
    /\ attempt = [c \in Callers |-> 0]
    /\ spent = [c \in Callers |-> 0]
    /\ left = [c \in Callers |-> 0]

-----------------------------------------------------------------------------
(***************************************************************************)
(* The breaker                                                             *)
(***************************************************************************)
NeverHalfOpen == circuit
HalfOpensAtOnce == IF circuit = "open" THEN "half_open" ELSE circuit
MaybeHalfOpen ==
    IF circuit = "open" /\ openFor >= ResetAfter THEN "half_open" ELSE circuit

ClosesWithoutReset == circuit' = "closed" /\ UNCHANGED <<failures, openFor>>
RecordSuccess ==
    /\ circuit' = "closed"
    /\ failures' = 0
    /\ UNCHANGED openFor

\* One failure: a failure of a trial, or one too many, opens the circuit, and
\* a failure of an attempt that was under way keeps it open for longer.
OpensLate(count) == circuit = "half_open" \/ count > Threshold
Opens(count) == circuit = "half_open" \/ count >= Threshold
RecordFailure ==
    /\ failures' = AtMost(failures + 1, Threshold)
    /\ IF Opens(failures + 1)
       THEN circuit' = "open" /\ openFor' = 0
       ELSE UNCHANGED <<circuit, openFor>>

-----------------------------------------------------------------------------
(***************************************************************************)
(* The calls                                                               *)
(***************************************************************************)
Goes(c, to, n, time) ==
    /\ phase' = [phase EXCEPT ![c] = to]
    /\ attempt' = [attempt EXCEPT ![c] = n]
    /\ left' = [left EXCEPT ![c] = time]

Attempts(c, n) == Goes(c, "attempt", n, Timeout) /\ UNCHANGED spent
Pauses(c, time) == Goes(c, "pause", attempt[c], time) /\ UNCHANGED spent
Returns(c) == Goes(c, "idle", 0, 0) /\ spent' = [spent EXCEPT ![c] = 0]

\* breaker.allow; the call that is not allowed changes nothing.
AllowAnything == TRUE
Allow == MaybeHalfOpen \in {"closed", "half_open"}

Begin(c) ==
    /\ phase[c] = "idle"
    /\ Allow
    /\ circuit' = MaybeHalfOpen
    /\ UNCHANGED <<failures, openFor>>
    /\ Attempts(c, 0)

Succeeds(c) ==
    /\ phase[c] = "attempt"
    /\ RecordSuccess
    /\ Returns(c)

NeverOutOfTime(c) == FALSE
OutOfTime(c) == spent[c] >= Deadline

\* An error worth another attempt; the pause is cut off at the deadline.
FailsForNow(c) ==
    /\ phase[c] = "attempt"
    /\ RecordFailure
    /\ IF attempt[c] >= MaxRetries \/ OutOfTime(c)
       THEN Returns(c)
       ELSE \E time \in BackoffDelay(attempt[c]) :
                Pauses(c, AtMost(time, Deadline - spent[c]))

\* An exception the client did not wrap: the pause may go past the deadline.
FailsUnwrapped(c) ==
    /\ phase[c] = "attempt"
    /\ RecordFailure
    /\ IF attempt[c] >= MaxRetries
       THEN Returns(c)
       ELSE \E time \in BackoffDelay(attempt[c]) : Pauses(c, time)

\* The dependency rejects the request: not retried, and counted all the same.
IsRejected(c) ==
    /\ phase[c] = "attempt"
    /\ RecordFailure
    /\ Returns(c)

Wakes(c) ==
    /\ phase[c] = "pause" /\ left[c] = 0
    /\ UNCHANGED breaker
    /\ IF OutOfTime(c) THEN Returns(c) ELSE Attempts(c, attempt[c] + 1)

\* The job's time-out or a shutdown: not a failure of the dependency.
IsCancelled(c) ==
    /\ phase[c] # "idle"
    /\ UNCHANGED breaker
    /\ Returns(c)

\* ai-service: the state is read, and updated, by readiness and the metrics.
Observe ==
    /\ circuit' = MaybeHalfOpen
    /\ UNCHANGED <<failures, openFor, phase, attempt, spent, left>>

\* An attempt that has used up its time ends before time goes on.
Tick ==
    /\ \A c \in Callers : phase[c] # "idle" => left[c] > 0
    /\ openFor' = AtMost(openFor + 1, ResetAfter)
    /\ spent' = [c \in Callers |-> IF phase[c] = "idle" THEN 0 ELSE spent[c] + 1]
    /\ left' = [c \in Callers |-> IF phase[c] = "idle" THEN 0 ELSE left[c] - 1]
    /\ UNCHANGED <<circuit, failures, phase, attempt>>

Next ==
    \/ \E c \in Callers :
         \/ Begin(c) \/ Succeeds(c) \/ FailsForNow(c) \/ FailsUnwrapped(c)
         \/ IsRejected(c) \/ Wakes(c) \/ IsCancelled(c)
    \/ Observe
    \/ Tick

Spec == Init /\ [][Next]_vars

(***************************************************************************)
(* Jobs keep coming, an attempt ends, with an answer or by its time-out,   *)
(* and time goes on.                                                       *)
(***************************************************************************)
Fairness ==
    /\ WF_vars(Tick)
    /\ \A c \in Callers :
         /\ WF_vars(Begin(c))
         /\ WF_vars(Wakes(c))
         /\ WF_vars(Succeeds(c) \/ FailsForNow(c) \/ FailsUnwrapped(c) \/ IsRejected(c))

-----------------------------------------------------------------------------
(***************************************************************************)
(* The time a call holds its slot: no attempt begins after the deadline,   *)
(* and no pause follows one that ends after it, so a call ends within the  *)
(* deadline and one more attempt, and one more pause if its last error was *)
(* one the client did not wrap.                                            *)
(***************************************************************************)
CallIsBounded ==
    \A c \in Callers :
        spent[c] + left[c] <= Deadline - 1 + Timeout
                              + (IF phase[c] = "pause" THEN MaxDelay ELSE 0)

(***************************************************************************)
(* Once no attempt fails and no call is cancelled any more, the circuit    *)
(* closes and stays closed, whatever it has been through.                  *)
(***************************************************************************)
Trouble ==
    \E c \in Callers :
        FailsForNow(c) \/ FailsUnwrapped(c) \/ IsRejected(c) \/ IsCancelled(c)
RecoveryIsNoticed ==
    <>[][~Trouble]_vars => <>[](circuit = "closed")
=============================================================================
