----------------------------- MODULE MCJobQueue -----------------------------
(***************************************************************************)
(* Instances of the worker fleet for TLC: two pods with one slot each.     *)
(***************************************************************************)
EXTENDS JobQueueProps, TLC

CONSTANTS w1, w2, s1, s2, d1, d2

TwoPods == s1 :> w1 @@ s2 :> w2

\* The two pods of TwoPods change places with their slots; documents are
\* interchangeable.
SwapPods == [x \in {w1, w2, s1, s2} |-> CASE x = w1 -> w2 [] x = w2 -> w1
                                          [] x = s1 -> s2 [] x = s2 -> s1]
PodSymmetry == {SwapPods} \cup Permutations(Doc)
=============================================================================
