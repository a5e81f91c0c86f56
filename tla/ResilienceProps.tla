-------------------------- MODULE ResilienceProps --------------------------
(***************************************************************************)
(* What the circuit breaker promises, stated with the history of what it   *)
(* has let through.                                                        *)
(***************************************************************************)
EXTENDS Resilience

VARIABLES
    inARow,      \* failures recorded since the last success, up to Threshold
    sentOpen     \* sentOpen[c]: attempts call c began since the circuit opened

history == <<inARow, sentOpen>>

HistoryInit == Init /\ inARow = 0 /\ sentOpen = [c \in Callers |-> 0]

Fails(c) == FailsForNow(c) \/ FailsUnwrapped(c) \/ IsRejected(c)
Others == Observe \/ Tick \/ \E c \in Callers : Begin(c) \/ Wakes(c) \/ IsCancelled(c)

Begins(c) == phase[c] # "attempt" /\ phase'[c] = "attempt"

HistoryNext ==
    /\ \/ \E c \in Callers : Succeeds(c) /\ inARow' = 0
       \/ \E c \in Callers : Fails(c) /\ inARow' = AtMost(inARow + 1, Threshold)
       \/ Others /\ UNCHANGED inARow
    /\ sentOpen' = [c \in Callers |->
                       IF circuit' # "open" THEN 0
                       ELSE IF Begins(c) THEN sentOpen[c] + 1 ELSE sentOpen[c]]

HistorySpec == HistoryInit /\ [][HistoryNext]_<<vars, history>> /\ Fairness

(***************************************************************************)
(* A closed circuit opens on Threshold failures with no success among      *)
(* them, whichever calls they come from.                                   *)
(***************************************************************************)
OpensOnFailuresInARow ==
    [][circuit = "closed" /\ circuit' = "open" => inARow' = Threshold]_<<vars, history>>

(***************************************************************************)
(* An open circuit gives the dependency a rest: however long it stays open *)
(* all that reaches the dependency is the retries that the calls under way *)
(* have left.                                                              *)
(***************************************************************************)
OpenSendsOnlyRetries == \A c \in Callers : sentOpen[c] <= MaxRetries

-----------------------------------------------------------------------------
(***************************************************************************)
(* What makes these inductive: the breaker counts what the history counts  *)
(* as long as it is closed, and what a call has sent since the circuit     *)
(* opened is among the attempts it has made.                               *)
(***************************************************************************)
CountsAgree ==
    /\ inARow \in 0 .. Threshold
    /\ circuit = "closed" => inARow = failures

SentIsAttempted ==
    /\ sentOpen \in [Callers -> Nat]
    /\ \A c \in Callers :
         sentOpen[c] <= IF phase[c] = "idle" THEN MaxRetries ELSE attempt[c]

HistoryInv ==
    /\ CountsAgree
    /\ SentIsAttempted
=============================================================================
