-------------------------- MODULE ServerDocuments --------------------------
(***************************************************************************)
(* lib/server: what the frontend's own server makes of document-service.   *)
(* The service only pages through the library, newest first; searching,    *)
(* filtering, sorting and paging are applied to all its pages put together.*)
(***************************************************************************)
EXTENDS Sequences, Integers, FiniteSets

CONSTANTS
    Newest,          \* every document there will be, the newest first
    UPSTREAM_PAGE_SIZE,
    MAX_PAGES,
    Words, Blank,    \* what may be searched for, Blank for nothing
    Holds,           \* Holds[w]: the documents whose text has the word
    Filters          \* "All", or a status

Docs == {Newest[i] : i \in DOMAIN Newest}
InPipeline == {"queued", "processing"}
Settled == {"completed", "failed"}
Statuses == {"absent"} \cup InPipeline \cup Settled

\* A library is the status of every document.
Uploaded(library) == {d \in Docs : library[d] # "absent"}

\* What happens to it elsewhere: an upload, which is of a newer document
\* than all others, and the start and end of processing.
Becomes(library, d, status) ==
    \/ library[d] = "queued" /\ status = "processing"
    \/ /\ library[d] = "absent" /\ status = "queued"
       /\ \A i, j \in DOMAIN Newest :
              Newest[i] = d /\ i < j => library[Newest[j]] # "absent"
    \/ library[d] = "processing" /\ status \in Settled

Row(library, d) == [id |-> d, status |-> library[d]]

Listed(library) ==
    SelectSeq([i \in DOMAIN Newest |-> Row(library, Newest[i])],
              LAMBDA row : row.status # "absent")

CeilDiv(n, k) == (n + k - 1) \div k
Least(i, j) == IF i < j THEN i ELSE j
Largest(i, j) == IF i < j THEN j ELSE i

PagesOf(library) ==
    Largest(1, CeilDiv(Len(Listed(library)), UPSTREAM_PAGE_SIZE))

\* The service answers fetchAllDocuments unless there are too many pages.
TooLarge(library) == PagesOf(library) > MAX_PAGES

\* The first page as it was in `before', with the total that says how many
\* others to ask for; the others as they are in `after'.
FetchAll(before, after) ==
    LET n == UPSTREAM_PAGE_SIZE
        first == Listed(before)
        rest == Listed(after)
        last == Least(PagesOf(before) * n, Len(rest))
    IN  SubSeq(first, 1, Least(n, Len(first)))
            \o (IF PagesOf(before) = 1 THEN <<>> ELSE SubSeq(rest, n + 1, last))

Matches(row, q) ==
    /\ q.filter \in {"All", row.status}
    /\ q.search = Blank \/ row.id \in Holds[q.search]

Backwards(s) == [i \in DOMAIN s |-> s[Len(s) + 1 - i]]

\* applyQuery; the rows come sorted by the time of their upload.
ApplyQuery(all, q) ==
    LET filtered == SelectSeq(all, LAMBDA row : Matches(row, q))
        sorted == IF q.sort = "asc" THEN Backwards(filtered) ELSE filtered
        pageCount == Largest(1, CeilDiv(Len(sorted), q.pageSize))
        page == Least(q.page, pageCount)
    IN  [rows |-> SubSeq(sorted, (page - 1) * q.pageSize + 1,
                         Least(page * q.pageSize, Len(sorted))),
         total |-> Len(sorted), unfilteredTotal |-> Len(all),
         pageCount |-> pageCount]

\* What is asked with no search, no filter and the usual order.
Everything(pageSize) ==
    [search |-> Blank, filter |-> "All", sort |-> "desc",
     page |-> 1, pageSize |-> pageSize]

Count(library, status) == Cardinality({d \in Docs : library[d] = status})
=============================================================================
