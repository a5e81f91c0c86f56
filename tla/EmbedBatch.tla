----------------------------- MODULE EmbedBatch -----------------------------
(***************************************************************************)
(* How the chunks of one document become vectors: search-service sends     *)
(* them to ai-service in batches, and ai-service rejects a batch of too    *)
(* many texts, or of too many tokens by its own estimate, with a 413 that  *)
(* fails the whole document.  Each service takes its limits from its own   *)
(* settings.                                                               *)
(*                                                                         *)
(* Of a batch only its size and its estimate are kept.  A chunk has at     *)
(* most CHUNK_SIZE characters, so that its estimate, a fourth of them, is  *)
(* between one and MaxTokens; that of a batch is any sum of these.         *)
(***************************************************************************)
EXTENDS EmbedRequirements

VARIABLES texts,     \* how many chunks the document has
          next,      \* where the next batch begins
          vectors    \* how many vectors came back

vars == <<texts, next, vectors, outcome>>

Outcomes == {"sending", "stored", "rejected", "failed"}

Init ==
    /\ texts \in 0..MaxTexts
    /\ next = 0 /\ vectors = 0
    /\ outcome = "sending"

WholeRest == texts - next
Batch == IF next + ClientBatch <= texts THEN ClientBatch ELSE texts - next

Estimates(batch) == batch .. batch * MaxTokens

(***************************************************************************)
(* check_batch, its two limits.                                            *)
(***************************************************************************)
Fits(batch, tokens) == batch <= MaxEmbedBatch /\ tokens <= TokenBudget

(***************************************************************************)
(* A batch is sent and embedded, rejected, or the provider fails.          *)
(***************************************************************************)
BatchAndOne == next + ClientBatch + 1
NextBatch   == next + ClientBatch

Send ==
    /\ outcome = "sending" /\ next < texts
    /\ \E tokens \in Estimates(Batch) :
          IF Fits(Batch, tokens)
          THEN /\ vectors' = vectors + Batch
               /\ next' = NextBatch
               /\ UNCHANGED outcome
          ELSE /\ outcome' = "rejected"
               /\ UNCHANGED <<vectors, next>>
    /\ UNCHANGED texts

ProviderFails ==
    /\ outcome = "sending" /\ next < texts
    /\ outcome' = "failed"
    /\ UNCHANGED <<texts, next, vectors>>

(***************************************************************************)
(* Every batch is in: the chunks are stored with their vectors.            *)
(***************************************************************************)
Store ==
    /\ outcome = "sending" /\ next >= texts
    /\ outcome' = "stored"
    /\ UNCHANGED <<texts, next, vectors>>

Next == Send \/ ProviderFails \/ Store

Spec == Init /\ [][Next]_vars
-----------------------------------------------------------------------------
(***************************************************************************)
(* The types, and how far a document can be.                               *)
(***************************************************************************)
TypeOK ==
    /\ texts \in 0..MaxTexts
    /\ next \in Nat /\ vectors \in 0..texts
    /\ outcome \in Outcomes

(***************************************************************************)
(* What is stored has a vector for each of its chunks: none falls between  *)
(* two batches, none is embedded twice.                                    *)
(***************************************************************************)
OneVectorPerText == outcome = "stored" => vectors = texts
=============================================================================
