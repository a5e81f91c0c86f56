------------------------- MODULE ChunkRequirements -------------------------
(***************************************************************************)
(* What is cut into chunks, the settings that are taken for it, and what   *)
(* the chunks owe the text (see Chunking for how it is cut).               *)
(***************************************************************************)
EXTENDS Integers, Sequences

CONSTANTS
    ChunkSize,   \* Config.CHUNK_SIZE
    Overlap,     \* Config.CHUNK_OVERLAP
    Papers       \* the documents considered: sequences of pages

Char == {"dot", "space", "newline", "word"}
Blanks == {"space", "newline"}

\* A page after text.strip().
Stripped(text) ==
    text # <<>> => text[1] \notin Blanks /\ text[Len(text)] \notin Blanks

ASSUME ChunkingAssumption ==
    /\ ChunkSize \in Nat \ {0}
    /\ Overlap \in 0 .. ChunkSize - 1
    /\ \A paper \in Papers :
         /\ paper \in Seq(Seq(Char))
         /\ \A n \in 1 .. Len(paper) : Stripped(paper[n])

Window == (ChunkSize * 8) \div 10

\* With a longer overlap a start could be negative, which the code would
\* read from the end of the text.
ASSUME StartsAreNatural == Overlap <= Window + 1

VARIABLES
    pages,    \* the document
    sheet,    \* number of the page that is being cut
    start,    \* where the next chunk begins on it
    chunks    \* the chunks by number, as the store keeps them: [page, from, to]

Smaller(a, b) == IF a < b THEN a ELSE b

\* piece = text[start:end].strip() is not empty.
HasText(text, from, to) == \E p \in from .. to - 1 : text[p + 1] \notin Blanks

-----------------------------------------------------------------------------
(***************************************************************************)
(* What the overlap is for: wherever the cuts fall, a passage of up to     *)
(* Overlap + 1 characters that is not blank is whole in a stored chunk, on *)
(* every page and up to the place that has been reached.  In particular no *)
(* character is lost.                                                      *)
(***************************************************************************)
PassageEnd(n, p) == Smaller(p + Overlap, Len(pages[n]) - 1)
IsWhole(n, p) ==
    \E c \in DOMAIN chunks :
        /\ chunks[c].page = n
        /\ chunks[c].from <= p
        /\ PassageEnd(n, p) < chunks[c].to

Reached(n, p) == n < sheet \/ (n = sheet /\ p < start)
PassagesAreWhole ==
    \A n \in 1 .. Len(pages) : \A p \in 0 .. Len(pages[n]) - 1 :
        Reached(n, p) /\ HasText(pages[n], p, PassageEnd(n, p) + 1) => IsWhole(n, p)
=============================================================================
