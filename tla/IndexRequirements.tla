------------------------- MODULE IndexRequirements -------------------------
(***************************************************************************)
(* The instance of search-service that is considered, and what its tables  *)
(* owe whom it has answered (see SearchIndex for what it does).            *)
(***************************************************************************)
EXTENDS Naturals, FiniteSets

CONSTANTS Documents, Threads,
          Length,         \* chunks of a document
          MaxRestarts,  \* bound: how often the process dies
          MaxLosses,    \* bound: how often Postgres drops its connections
          NoDocument,   \* what a readiness probe works on
          NoStore       \* _store is None

ASSUME SearchAssumption ==
    /\ Length \in Nat \ {0}
    /\ MaxRestarts \in Nat /\ MaxLosses \in Nat
    /\ NoDocument \notin Documents /\ NoStore \notin Threads

VARIABLES documents,  \* the rows of documents
          table,      \* the rows of document_chunks, whose chunk_id is UNIQUE
          answered    \* documents whose indexing was answered with 200

-----------------------------------------------------------------------------
(***************************************************************************)
(* Once POST /index was answered every chunk of the document is found,     *)
(* through retries, failed requests, restarts and lost connections, until  *)
(* the document is deleted.                                                *)
(***************************************************************************)
AnsweredIsFound ==
    \A d \in answered : \A i \in 1..Length : <<d, i>> \in table

(***************************************************************************)
(* A search finds nothing of a document that was deleted, even if it was   *)
(* being indexed at the time.                                              *)
(***************************************************************************)
DeletedIsGone == \A c \in table : c[1] \in documents
=============================================================================
