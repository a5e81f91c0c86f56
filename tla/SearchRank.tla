----------------------------- MODULE SearchRank -----------------------------
(***************************************************************************)
(* lib/search: the index of the command palette and the ranking of what it *)
(* finds (corpus.ts, rank.ts, groupHits of api.ts), as functions.          *)
(*                                                                         *)
(* A text is a sequence of words, a word a sequence of pieces and a term   *)
(* one piece, so that a term may be a text, begin it, begin one of its     *)
(* words or be inside one.  A piece stands for PieceLength characters.     *)
(* Scores are in thousandths, in which the weights of the code are whole.  *)
(***************************************************************************)
EXTENDS Integers, FiniteSets, Sequences, SequencesExt

CONSTANTS
    GroupCap,      \* GROUP_CAP: how many hits of a kind are shown
    TotalCap,      \* TOTAL_CAP: how many in all
    DetailDepth,   \* DETAIL_DEPTH: of how many documents details are indexed
    Name, Pages, Uploaded,  \* of each document: its name, length and time
    Findings,      \* of each document the title of its finding
    Fields,        \* and of the field extracted from it
    Blocks         \* of each page of the reader the heading on it

KindOrder == <<"page", "document", "section", "finding", "field">>
Text == Seq(Seq(STRING))

\* A text of each document, and no two documents uploaded at once.  The caps
\* leave every kind of hit a row, as theirs do: GROUP_CAP of the first four
\* kinds is 4 + 6 + 5 + 4 and TOTAL_CAP is 20.
ASSUME RankAssumption ==
    /\ IsFiniteSet(DOMAIN Name)
    /\ Name \in [DOMAIN Name -> Text]
    /\ Findings \in [DOMAIN Name -> Text] /\ Fields \in [DOMAIN Name -> Text]
    /\ Uploaded \in [DOMAIN Name -> Nat]
    /\ \A c, d \in DOMAIN Name : Uploaded[c] = Uploaded[d] => c = d
    /\ Blocks \in Seq(Text) /\ DetailDepth \in Nat
    /\ \A k \in DOMAIN KindOrder : GroupCap[KindOrder[k]] \in Nat \ {0}
    /\ TotalCap \in Nat
    /\ GroupCap["page"] + GroupCap["document"] + GroupCap["section"]
           + GroupCap["finding"] < TotalCap

\* The elements of S in the order of Before.
Ranked(S, Before(_, _)) ==
    [n \in 1 .. Cardinality(S) |->
        CHOOSE i \in S : Cardinality({j \in S : Before(j, i)}) = n - 1]

\* The elements of s at these places, in their order.
Picked(s, places) ==
    LET at == Ranked(places, LAMBDA i, j : i < j)
    IN  [n \in DOMAIN at |-> s[at[n]]]

Total(s) ==
    LET upTo[i \in 0 .. Len(s)] == IF i = 0 THEN 0 ELSE upTo[i - 1] + s[i]
    IN  upTo[Len(s)]

PieceLength == 8
Size(text) == PieceLength * Total([i \in DOMAIN text |-> Len(text[i])])

Includes(text, term) ==
    \E i \in DOMAIN text : \E j \in DOMAIN text[i] : text[i][j] = term
HasWordStart(text, term) == \E i \in DOMAIN text : text[i][1] = term

IncludesPhrase(text, terms) ==
    \E i \in 1 .. Len(text) - 1 :
        Last(text[i]) = terms[1] /\ text[i + 1][1] = terms[2]

\* The best field decides: the title, the keywords, the subtitle, the body.
ScoreTerm(e, term) ==
    IF e.title = <<<<term>>>>               THEN 260
    ELSE IF e.title # <<>> /\ e.title[1][1] = term THEN 150
    ELSE IF HasWordStart(e.title, term)     THEN 120
    ELSE IF Includes(e.title, term)         THEN 70
    ELSE IF term \in e.keywords             THEN 40
    ELSE IF HasWordStart(e.subtitle, term)  THEN 46
    ELSE IF Includes(e.subtitle, term)      THEN 30
    ELSE IF HasWordStart(e.body, term)      THEN 20
    ELSE IF Includes(e.body, term)          THEN 10
    ELSE 0

KindWeight == [page |-> 125, document |-> 112, section |-> 100,
               finding |-> 96, field |-> 90]

\* Every term must match somewhere; without terms everything matches.
ScoreEntry(e, terms) ==
    LET scores == [i \in DOMAIN terms |-> ScoreTerm(e, terms[i])]
        brevity == IF Size(e.title) >= 40 THEN 0 ELSE 4 * (40 - Size(e.title))
        phrase == IF Len(terms) > 1 /\ IncludesPhrase(e.title, terms)
                  THEN 60 ELSE 0
    IN  IF \E i \in DOMAIN terms : scores[i] = 0 THEN 0
        ELSE (10 * (Total(scores) + phrase) + brevity) * KindWeight[e.kind]
                 + 1000 * e.weight

-----------------------------------------------------------------------------
(***************************************************************************)
(* The index, from the documents of the library with their status.  The    *)
(* details are those of the fixtures (buildDetail).                        *)
(***************************************************************************)
Entry(id, kind, title, subtitle, body, keywords, weight) ==
    [id |-> id, kind |-> kind, title |-> title, subtitle |-> subtitle,
     body |-> body, keywords |-> keywords, weight |-> weight]

PageEntries ==
    <<Entry("/dashboard", "page", <<<<"dash">>>>, <<<<"org">>>>,
            <<<<"risk">>>>, {"home"}, 8),
      Entry("/documents", "page", <<<<"docs">>>>, <<<<"org">>>>,
            <<<<"type">>>>, {"files"}, 2)>>

DocumentEntries(docs, status) ==
    [i \in DOMAIN docs |->
        Entry(docs[i], "document", Name[docs[i]], <<<<"type">>>>,
              <<<<"verdict">>>>, {docs[i], status[docs[i]]}, i)]

\* A block is indexed once, under the longest completed document that has
\* its page.
SectionEntries(docs, status) ==
    LET Hosts(page) == {d \in ToSet(docs) : /\ Pages[d] >= page
                                            /\ status[d] = "completed"}
        Host(page) == CHOOSE d \in Hosts(page) :
                          \A x \in Hosts(page) : Pages[x] <= Pages[d]
        Of(page) == IF Hosts(page) = {} THEN <<>>
                    ELSE <<Entry(<<"section", page>>, "section", Blocks[page],
                                 Name[Host(page)], <<<<"clause">>>>,
                                 {"section"}, 0)>>
    IN  FlattenSeq([page \in DOMAIN Blocks |-> Of(page)])

\* Findings and fields of the newest completed documents.
DetailEntries(docs, status) ==
    LET newest == Reverse(docs)
        analysed == Picked(newest, {i \in DOMAIN newest :
                                       status[newest[i]] = "completed"})
        deep == SubSeq(analysed, 1, IF Len(analysed) < DetailDepth
                                    THEN Len(analysed) ELSE DetailDepth)
        Of(d) == <<Entry(<<"finding", d>>, "finding", Findings[d], Name[d],
                         <<<<"renewal">>>>, {"risk"}, 0),
                   Entry(<<"field", d>>, "field", Fields[d], Name[d],
                         <<<<"months">>>>, {"extracted"}, 0)>>
    IN  FlattenSeq([i \in DOMAIN deep |-> Of(deep[i])])

\* The library as a sequence, the oldest first.
Library(status) ==
    Ranked({d \in DOMAIN status : status[d] \in {"processing", "completed"}},
           LAMBDA x, y : Uploaded[x] < Uploaded[y])

Corpus(status) ==
    LET docs == Library(status)
    IN  PageEntries \o DocumentEntries(docs, status)
            \o SectionEntries(docs, status) \o DetailEntries(docs, status)

Suggestions(status) ==
    LET newest == Reverse(DocumentEntries(Library(status), status))
    IN  PageEntries \o SubSeq(newest, 1, IF Len(newest) < 4 THEN Len(newest)
                                                            ELSE 4)

-----------------------------------------------------------------------------
(***************************************************************************)
(* searchWorkspace: what matches, best first, then grouped by kind, the    *)
(* same finding or field of several documents shown once with a count, and *)
(* cut to the caps.  Titles settle a tie; here the place in the index.     *)
(***************************************************************************)
Scored(entries, terms) ==
    LET hits == {i \in DOMAIN entries : ScoreEntry(entries[i], terms) > 0}
        S(i) == ScoreEntry(entries[i], terms)
        best == Ranked(hits, LAMBDA i, j : \/ S(i) > S(j)
                                           \/ S(i) = S(j) /\ i < j)
    IN  [i \in DOMAIN best |-> entries[best[i]]]

Key(e) == IF e.kind \in {"finding", "field"} THEN <<e.kind, e.title>>
                                             ELSE <<e.kind, e.id>>

\* Mutant: what collapses is still counted.
RowsWithCopies(scored, kind) ==
    Picked(scored, {i \in DOMAIN scored : scored[i].kind = kind})

\* The rows of a kind, the later ones with the same key collapsed.
Rows(scored, kind) ==
    Picked(scored, {i \in DOMAIN scored :
                       /\ scored[i].kind = kind
                       /\ \A j \in 1 .. i - 1 : Key(scored[j]) # Key(scored[i])})

AtMost(a, b) == IF a < b THEN a ELSE b

GroupHits(scored) ==
    LET rows == [k \in DOMAIN KindOrder |-> Rows(scored, KindOrder[k])]
        Take(k, budget) ==
            AtMost(AtMost(GroupCap[KindOrder[k]], Len(rows[k])), budget)
        left[k \in 0 .. Len(KindOrder)] ==
            IF k = 0 THEN TotalCap ELSE left[k - 1] - Take(k, left[k - 1])
        groups == [k \in DOMAIN KindOrder |->
                      [kind |-> KindOrder[k],
                       more |-> Len(rows[k]) - Take(k, left[k - 1]),
                       hits |-> SubSeq(rows[k], 1, Take(k, left[k - 1]))]]
    IN  Picked(groups, {k \in DOMAIN groups : groups[k].hits # <<>>})

\* What groupHits owes to what it groups: no key is lost, every kind that has
\* a hit shows one, and no kind shows more than its cap.
AddUp(groups, hits) ==
    /\ Total([i \in DOMAIN groups |-> groups[i].more + Len(groups[i].hits)]) =
           Cardinality({Key(hits[i]) : i \in DOMAIN hits})
    /\ {groups[i].kind : i \in DOMAIN groups} = {hits[i].kind : i \in DOMAIN hits}
    /\ \A i \in DOMAIN groups : Len(groups[i].hits) <= GroupCap[groups[i].kind]
=============================================================================
