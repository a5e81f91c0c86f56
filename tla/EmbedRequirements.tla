------------------------- MODULE EmbedRequirements -------------------------
(***************************************************************************)
(* The settings of the two services that embed documents, and what a       *)
(* document may expect of them (see EmbedBatch for what they do).          *)
(***************************************************************************)
EXTENDS Naturals

CONSTANTS MaxTexts,      \* bound: chunks of the longest document
          MaxTokens,     \* the largest estimate of one chunk
          ClientBatch,   \* AI_SERVICE_MAX_EMBED_BATCH of search-service
          MaxEmbedBatch, \* MAX_EMBED_BATCH of ai-service
          TokenBudget    \* TOKEN_BUDGET_PER_REQUEST of ai-service

ASSUME EmbedAssumption ==
    /\ MaxTexts \in Nat /\ MaxEmbedBatch \in Nat /\ TokenBudget \in Nat
    /\ MaxTokens \in Nat \ {0} /\ ClientBatch \in Nat \ {0}

VARIABLE outcome  \* of a document that is embedded

-----------------------------------------------------------------------------
(***************************************************************************)
(* search-service never cuts a batch that ai-service rejects, however long *)
(* the document is.                                                        *)
(***************************************************************************)
NoDocumentIsRejected == outcome # "rejected"
=============================================================================
