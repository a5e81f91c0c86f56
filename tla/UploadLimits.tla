---------------------------- MODULE UploadLimits ----------------------------
(***************************************************************************)
(* The visit to the upload page that is considered (see UploadQueue).      *)
(***************************************************************************)
EXTENDS Naturals, FiniteSets

CONSTANTS Files,          \* numbered in the order they are dropped
          MaxConcurrent,  \* MAX_CONCURRENT
          MaxRetries,     \* bound: how often the user retries
          Deletions       \* documents may be deleted by someone else

ASSUME UploadAssumption ==
    /\ Files \subseteq Nat /\ IsFiniteSet(Files)
    /\ MaxConcurrent \in Nat \ {0}
    /\ MaxRetries \in Nat
    /\ Deletions \in BOOLEAN
=============================================================================
