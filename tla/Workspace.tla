----------------------------- MODULE Workspace -----------------------------
(***************************************************************************)
(* The pages of the workspace that show documents, one of them open at a   *)
(* time, over a library that others change.  Leaving a page forgets its    *)
(* state and aborts what it was loading; a call that nothing aborts (an    *)
(* export, a question) goes on unheard.  What is done about the library    *)
(* elsewhere, by uploads and by the pipeline, is DocumentLife's subject.   *)
(***************************************************************************)
CONSTANTS
    Newest, UPSTREAM_PAGE_SIZE, MAX_PAGES, Words, Blank, Holds, Filters, Nothing,
    SIZES, Terminal, Ranges, Within, MAX_FLAGGED, Low, High, Pii,
    Scopes, InScope, Fixtures, PageOf, TotalPages,
    MaxRuns, MaxTimers, MaxAsks,
    MaxLooks,  \* bounds: on one visit to a page, the moves that only
    MaxMoves   \* change what is shown come first, then the others

VARIABLES mounted, library, st, moves

vars == <<mounted, library, st, moves>>

INSTANCE ServerDocuments
Board == INSTANCE Dashboard
List == INSTANCE DocumentList
Detail == INSTANCE DetailView
Ask == INSTANCE AskView

-----------------------------------------------------------------------------
\* A page, of a document or of none.
To(page, d) == [page |-> page, doc |-> d]

Arriving(to) ==
    CASE to.page = "dashboard" -> Board!FreshDashboard
      [] to.page = "list"      -> List!Fresh
      [] to.page = "detail"    -> Detail!FreshOf(to.doc)
      [] to.page = "chat"      -> Ask!ChatPage
      [] to.page = "qa"        -> Ask!QaPage(to.doc, 1)

\* The links of the page that is open; those of the frame are always there.
Linked ==
    {To(page, Nothing) : page \in {"dashboard", "list", "chat"}}
    \cup
    CASE mounted = "dashboard" ->
             {To("detail", Board!flaggedRows[i].id) : i \in DOMAIN Board!flaggedRows}
      [] mounted = "list" /\ List!Panel = "table" ->
             {To("detail", d) : d \in List!onPage}
             \cup {To("qa", List!rows[i].id) :
                       i \in {j \in DOMAIN List!rows : "ask" \in List!Offers(List!rows[j])}}
      [] mounted = "detail" /\ "ask" \in Detail!Offers -> {To("qa", st.id)}
      [] mounted = "chat" ->
             {To(page, d) : page \in {"detail", "qa"},
                            d \in UNION {st.thread.messages[i].cites :
                                             i \in DOMAIN st.thread.messages}}
      [] mounted = "qa" -> {To("detail", st.doc)}
      [] OTHER -> {}

Modal == CASE mounted = "list"   -> ~ List!free
           [] mounted = "detail" -> ~ Detail!free
           [] OTHER              -> FALSE

Init ==
    /\ library \in [Docs -> {"absent", "queued", "completed"}]
    /\ \A i, j \in DOMAIN Newest :  \* in the order of their uploads
           i < j /\ library[Newest[j]] = "absent" => library[Newest[i]] = "absent"
    /\ mounted = "dashboard" /\ st = Board!FreshDashboard /\ moves = 0

Follow(to) ==
    /\ to \in Linked /\ ~ Modal
    /\ mounted' = to.page /\ st' = Arriving(to) /\ moves' = 0
    /\ UNCHANGED library

Elsewhere ==
    /\ \E d \in Docs, status \in Statuses :
           Becomes(library, d, status) /\ library' = [library EXCEPT ![d] = status]
    /\ UNCHANGED <<mounted, st, moves>>

On(page, Step) == mounted = page /\ Step

Looks ==
    \/ On("dashboard", Board!Looking)
    \/ On("list", List!Looking)
    \/ On("detail", Detail!Looking)
    \/ On("chat", Ask!Looking)
    \/ On("qa", Ask!Looking)

Acts ==
    \/ On("dashboard", Board!Acting)
    \/ On("list", List!Acting)
    \/ On("detail", Detail!Acting)
    \/ On("chat", Ask!Acting)
    \/ On("qa", Ask!Acting)

Moves ==
    /\ \/ moves < MaxLooks[mounted] /\ Looks
       \/ moves < MaxMoves[mounted] /\ Acts
    /\ moves' = moves + 1
    /\ UNCHANGED mounted

Hears ==
    /\ \/ On("dashboard", Board!Loads)
       \/ On("dashboard", Board!Answers)
       \/ On("list", List!Loads)
       \/ On("list", List!Answers)
       \/ On("detail", Detail!Loads)
       \/ On("detail", Detail!Answers)
       \/ On("chat", Ask!Loads)
       \/ On("chat", Ask!Answers)
       \/ On("qa", Ask!Answers)
    /\ UNCHANGED <<mounted, moves>>

Next == (\E to \in Linked : Follow(to)) \/ Elsewhere \/ Moves \/ Hears

Spec == Init /\ [][Next]_vars

-----------------------------------------------------------------------------
\* Timers end; the service, read again and again, is read and answers before
\* the next poll; a question is answered, or fails.
Quietly(Step) == Step /\ UNCHANGED <<mounted, moves>>

TimersEnd == \/ On("dashboard", Board!DashboardPolls)
             \/ On("list", List!Poll)
             \/ On("detail", Detail!PollTick)
             \/ On("chat", Ask!Streamed)
             \/ On("qa", Ask!Streamed)
ServiceIsRead == \/ On("dashboard", Board!DashboardReads)
                 \/ On("list", List!ReadFirst)
                 \/ On("detail", Detail!PollReads)
ServiceAnswers == \/ On("dashboard", Board!DashboardAnswers)
                  \/ On("list", List!Answer)
                  \/ On("detail", Detail!Answer)
PollSays == On("detail", \E next \in Settled : Detail!PollAnswers(next))
QuestionsProceed ==
    /\ mounted \in {"chat", "qa"}
    /\ \E a \in st.thread.asks : Ask!Proceeds(a)

Fairness ==
    /\ WF_vars(Quietly(TimersEnd)) /\ WF_vars(Quietly(QuestionsProceed))
    /\ SF_vars(Quietly(ServiceIsRead)) /\ SF_vars(Quietly(ServiceAnswers))
    /\ SF_vars(Quietly(PollSays))

FairSpec == Spec /\ Fairness

-----------------------------------------------------------------------------
\* The table, when it is not being loaded, is of the query on its controls.
PageIsOfTheQuery == mounted = "list" => List!PageIsOfTheQuery

\* A document is not sent to be reprocessed while it is on its way.
OneReprocessAtATime == mounted = "detail" => Detail!OneReprocessAtATime

\* Answers are written from documents of the scope they were asked in.
AnswersStayInScope == mounted = "chat" => Ask!AnswersStayInScope

\* An answer stands under its question, on both pages that ask.
EveryAnswerFollowsItsQuestion ==
    mounted \in {"chat", "qa"} => Ask!EveryAnswerFollowsItsQuestion

\* Wherever a document is shown as being processed, by the dashboard, in the
\* list or on its own page, it is not shown so for ever after it has been.
Stale ==
    \/ mounted = "dashboard" /\ \E d \in Docs : Board!StaleFlag(d)
    \/ mounted = "list" /\ \E d \in Docs : List!StaleRow(d)
    \/ mounted = "detail" /\ Detail!StaleDetail

ScreensCatchUp == Stale ~> ~ Stale

\* Who asks a question does not wait for ever, neither for the answer nor for
\* the end of its stream, unless a later answer cut the stream off.
Awaited == mounted \in {"chat", "qa"} /\ Ask!Waiting

QuestionsAreAnswered == Awaited ~> ~ Awaited

\* What is answered on the page of a document is written from that document:
\* "It only swaps the retriever and scopes every citation to this one
\* document" (qa-view.tsx:24).  Not so: see the README.
GroundedInThisDocument == mounted = "qa" => Ask!GroundedInThisDocument
=============================================================================
