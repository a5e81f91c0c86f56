------------------------------ MODULE Chunking ------------------------------
(***************************************************************************)
(* search-service: how a document is cut into the chunks that are embedded *)
(* and searched (chunk_text for each page, chunk_multi_page_document for   *)
(* the numbering across pages).  One step is one turn of the while loop.   *)
(*                                                                         *)
(* A text is a sequence of characters, of which only the kinds that the    *)
(* cutting tells apart are kept.  A position is counted from zero, as in   *)
(* the code: the character at position p is text[p + 1].                   *)
(***************************************************************************)
EXTENDS ChunkRequirements

VARIABLE index  \* running_index

vars == <<pages, sheet, start, index, chunks>>

Text == pages[sheet]
Done == sheet > Len(pages)

(***************************************************************************)
(* Where a chunk ends: at its full size, or after the last separator in    *)
(* the last fifth of it, of the first kind of separator that occurs there. *)
(***************************************************************************)
Separators == << <<"dot", "space">>, <<"dot", "newline">>,
                 <<"newline", "newline">>, <<"newline">> >>
Kinds == 1 .. 4

\* Where separator k occurs in text[low:high].
FoundAnywhere(text, k, low, high) ==
    LET separator == Separators[k]
    IN  {p \in 0 .. high - Len(separator) :
            \A n \in 1 .. Len(separator) : text[p + n] = separator[n]}

Found(text, k, low, high) ==
    LET separator == Separators[k]
    IN  {p \in low .. high - Len(separator) :
            \A n \in 1 .. Len(separator) : text[p + n] = separator[n]}

EndsAt(text, from, to) ==
    LET high == Smaller(from + ChunkSize, Len(text))
        found(k) == Found(text, k, from + Window, high)
    IN  \/ /\ high = Len(text) \/ \A k \in Kinds : found(k) = {}
           /\ to = high
        \/ /\ high < Len(text)
           /\ \E k \in Kinds :
                /\ \A j \in 1 .. k - 1 : found(j) = {}
                /\ \E p \in found(k) :
                     /\ \A q \in found(k) : q <= p
                     /\ to = p + Len(Separators[k])

\* The store keeps one chunk of a number (chunk_id is unique).
With(number, piece) ==
    [c \in DOMAIN chunks \cup {number} |-> IF c = number THEN piece ELSE chunks[c]]

-----------------------------------------------------------------------------
Init ==
    /\ pages \in Papers
    /\ sheet = 1
    /\ start = 0
    /\ index = 0
    /\ chunks = <<>>

StartWithoutOverlap(end) == end
NextStart(end) == end - Overlap

RestartedIndex(end) == IF end >= Len(Text) THEN 0 ELSE index + 1
NextIndex(end) == index + 1

TurnPage == sheet' = sheet + 1 /\ start' = 0

Cut ==
    /\ ~Done
    /\ start < Len(Text)
    /\ \E end \in 1 .. Len(Text) :
         /\ EndsAt(Text, start, end)
         /\ IF HasText(Text, start, end)
            THEN /\ chunks' = With(index, [page |-> sheet, from |-> start, to |-> end])
                 /\ index' = NextIndex(end)
            ELSE UNCHANGED <<chunks, index>>
         /\ IF end >= Len(Text)
            THEN TurnPage
            ELSE start' = NextStart(end) /\ UNCHANGED sheet
    /\ UNCHANGED pages

\* A page without text.
Skip ==
    /\ ~Done
    /\ start >= Len(Text)
    /\ TurnPage
    /\ UNCHANGED <<pages, index, chunks>>

Next == Cut \/ Skip

Spec == Init /\ [][Next]_vars

-----------------------------------------------------------------------------
(***************************************************************************)
(* A chunk is a stretch of its page, no longer than what is sent to the    *)
(* embedder at once.                                                       *)
(***************************************************************************)
Piece == [page : Nat, from : Nat, to : Nat]
TypeOK ==
    /\ pages \in Seq(Seq(Char))
    /\ sheet \in 1 .. Len(pages) + 1
    /\ start \in Nat
    /\ ~Done => start <= Len(Text)
    /\ index \in Nat
    /\ DOMAIN chunks = 0 .. index - 1
    /\ \A c \in DOMAIN chunks :
         /\ chunks[c] \in Piece
         /\ chunks[c].page \in 1 .. Len(pages)
         /\ chunks[c].from < chunks[c].to
         /\ chunks[c].to <= Len(pages[chunks[c].page])
         /\ chunks[c].to - chunks[c].from <= ChunkSize

(***************************************************************************)
(* Every turn of the loop gets further ("step forward, keeping overlap"),  *)
(* so that every text is cut in the end.  It takes an overlap that fits in *)
(* the shortest chunk a separator can make.                                *)
(***************************************************************************)
StepsForward ==
    [][sheet' > sheet \/ (sheet' = sheet /\ start' > start)]_vars

=============================================================================
