------------------------------ MODULE MCSearch ------------------------------
(***************************************************************************)
(* From a document to what a search finds: its texts are cut into chunks,  *)
(* the chunks are embedded in batches, the rows stored by the threads of   *)
(* search-service, and the palette shows hits.  The four models share no   *)
(* state, so a behaviour here is one of one of them, and the others stay   *)
(* as they begin.                                                          *)
(***************************************************************************)
EXTENDS Palette, ChunkRequirements, EmbedRequirements, IndexRequirements, TLC

CONSTANTS
    All,
    TextLength,
    CHUNK_SIZE  \* of a deployment

VARIABLES
    part,
    number,                 \* the rest of the state of Chunking,
    texts, next, vectors,   \* of EmbedBatch,
    store, alive, thread, ready, restarts, losses  \* and of SearchIndex

Cutting == INSTANCE Chunking WITH index <- number
Embedding == INSTANCE EmbedBatch
Index == INSTANCE SearchIndex

CuttingVars == <<pages, sheet, start, number, chunks>>
EmbeddingVars == <<texts, next, vectors, outcome>>
IndexVars == <<documents, table, store, alive, thread, ready, answered,
               restarts, losses>>
AllVars == <<part, CuttingVars, EmbeddingVars, IndexVars, vars>>

InitSearch ==
    /\ part \in {"cutting", "embedding", "index", "palette"}
    /\ Init /\ Index!Init
    /\ IF part = "cutting" THEN Cutting!Init
       ELSE pages = <<>> /\ sheet = 1 /\ start = 0 /\ number = 0 /\ chunks = <<>>
    /\ IF part = "embedding" THEN Embedding!Init
       ELSE texts = 0 /\ next = 0 /\ vectors = 0 /\ outcome = "sending"

NextSearch ==
    /\ \/ /\ part = "cutting" /\ Cutting!Next
          /\ UNCHANGED <<EmbeddingVars, IndexVars, vars>>
       \/ /\ part = "embedding" /\ Embedding!Next
          /\ UNCHANGED <<CuttingVars, IndexVars, vars>>
       \/ /\ part = "index" /\ Index!Next
          /\ UNCHANGED <<CuttingVars, EmbeddingVars, vars>>
       \/ /\ part = "palette" /\ Next
          /\ UNCHANGED <<CuttingVars, EmbeddingVars, IndexVars>>
    /\ UNCHANGED part

SearchSpec == InitSearch /\ [][NextSearch]_AllVars

\* Threads and documents of the index are interchangeable.
Interchangeable == Permutations(Threads) \cup Permutations(Documents)

\* All texts of a given length, as the first and the last page of a document
\* with an empty page between them.
Texts == {text \in [1 .. TextLength -> Char] : Stripped(text)}
PapersOfTexts == {<<text, <<>>, text>> : text \in Texts}

TokensOfChunk == CHUNK_SIZE \div 4

\* The palette has a library of two documents, and caps so small that every
\* kind of hit is trimmed by some query.
Caps == [page |-> 1, document |-> 1, section |-> 1, finding |-> 1, field |-> 2]
Names == [d1 |-> <<<<"pay", "ment">>>>, d2 |-> <<<<"pay">>, <<"re", "newal">>>>]
PageCounts == [d1 |-> 2, d2 |-> 1]
Times == [d1 |-> 1, d2 |-> 2]
FindingTitles == [d1 |-> <<<<"renewal">>>>, d2 |-> <<<<"renewal">>>>]
FieldTitles == [d1 |-> <<<<"term">>>>, d2 |-> <<<<"notice">>>>]
Headings == <<<<<<"pay">>>>, <<<<"ment">>>>>>

\* A query of separators only has no terms and is not blank.
TermsOf == (""  :> <<>>) @@ ("," :> <<>>) @@ ("renewal" :> <<"renewal">>)

FirstLibrary == [d1 |-> "completed", d2 |-> "absent"]
=============================================================================
