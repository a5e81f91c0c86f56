------------------------------ MODULE AskView ------------------------------
(***************************************************************************)
(* The two pages that ask questions, app/(dash)/chat of the whole          *)
(* workspace and app/(dash)/qa of one document, on the engine they share   *)
(* (components/documind/chat.tsx), with what lib/api.ts and the frontend's *)
(* server do to answer.                                                    *)
(*                                                                         *)
(* A question asked is a call that goes on by itself: it loads the library *)
(* (chat only), retrieves passages, and has them written up.  Nothing      *)
(* aborts it.  A passage is the document it is from.                       *)
(***************************************************************************)
EXTENDS ServerDocuments, UseAsync, Transport

CONSTANTS
    Scopes, InScope,    \* InScope[s]: the documents that are of a scope at
                        \* some time (all are Unknown until classified)
    Fixtures, PageOf,   \* the citations of the fixtures and their pages
    TotalPages,         \* of the document that is asked
    MaxAsks             \* bound: questions asked on one visit

VARIABLES library, st

-----------------------------------------------------------------------------
\* `asks' are the calls under way, `timer' the message that is streamed.
Thread == [messages |-> <<>>, asks |-> {}, timer |-> Nothing, asked |-> 0]

ChatPage == [kind |-> "chat", doc |-> Nothing, thread |-> Thread,
             scope |-> "All", count |-> Mounted("All"), cite |-> Nothing,
             page |-> 1]

\* The page of the reader may come with the link, if the document has it.
QaPage(d, wanted) ==
    [ChatPage EXCEPT !.kind = "qa", !.doc = d,
                     !.page = Least(wanted, TotalPages)]

thread == st.thread
inScope == IF st.count.data = Nothing THEN 0 ELSE st.count.data
Going(m) == m.status \in {"thinking", "streaming"}
busy == \E i \in DOMAIN thread.messages : Going(thread.messages[i])

\* What the panel shows over the composer.
Panel ==
    CASE thread.messages # <<>>                -> "thread"
      [] st.kind = "chat" /\ inScope = 0       -> "nothing in scope"
      [] OTHER                                 -> "suggestions"

\* What the panel, the message `m', the composer, the header and the toolbar
\* of the reader let the user do.
Hero == CASE Panel = "nothing in scope" -> {"widen"}
          [] Panel = "suggestions"      -> {"send"}
          [] OTHER                      -> {}

Bubble(m) ==
    CASE m.status = "error"     -> InlineError(TRUE)
      [] m.status = "no-answer" -> {"send"} \cup
                (IF st.kind = "chat" /\ st.scope # "All" THEN {"widen"} ELSE {})
      [] m.cites # {}           -> {"cite"}
      [] OTHER                  -> {}

Composer ==
    CASE busy                               -> {"stop"}
      [] st.kind = "chat" /\ inScope = 0    -> {}
      [] OTHER                              -> {"send"}

Header ==
    (IF st.kind = "chat" THEN {"scope"} ELSE {})
        \cup (IF thread.messages = <<>> THEN {} ELSE {"clear"})

Toolbar ==
    IF st.kind = "chat" THEN {}
    ELSE (IF st.page = 1 THEN {} ELSE {st.page - 1})
         \cup (IF st.page = TotalPages THEN {} ELSE {st.page + 1})

\* The pages' own send: a suggestion is not sent while another goes on.
MaySend == ~ busy /\ (st.kind = "chat" => inScope > 0)
Sends == "send" \in Hero \cup Composer \cup
             UNION {Bubble(thread.messages[i]) : i \in DOMAIN thread.messages}

-----------------------------------------------------------------------------
(***************************************************************************)
(* useChatEngine.                                                          *)
(***************************************************************************)
Patch(t, id, m) ==
    [t EXCEPT !.messages = [i \in DOMAIN @ |-> IF @[i].id = id
                                THEN [@[i] EXCEPT !.status = m.status,
                                                  !.grounds = m.grounds,
                                                  !.cites = m.cites]
                                ELSE @[i]]]

Told(status) == [status |-> status, grounds |-> {}, cites |-> {}]

Message(id, asked, scope, m) ==
    [id |-> id, asked |-> asked, scope |-> scope,
     status |-> m.status, grounds |-> m.grounds, cites |-> m.cites]

\* A question and the message that will be its answer, of one number.
Sent(t, scope) ==
    LET id == t.asked + 1
        user == Message(0, id, scope, Told("user"))
        answer == Message(id, id, scope, Told("thinking"))
    IN  [t EXCEPT !.asked = id,
                  !.messages = @ \o <<user, answer>>,
                  !.asks = @ \cup {[id |-> id, scope |-> scope,
                      phase |-> IF st.kind = "chat" THEN "library" ELSE "retrieve",
                      among |-> {}, found |-> {}]}]

\* Mutant: a failure is not told to the message.
EndsUnlessFailed(a, m) ==
    LET t == [thread EXCEPT !.asks = @ \ {a}]
    IN  st' = [st EXCEPT !.thread = IF m.status = "error" THEN t
                                    ELSE [Patch(t, a.id, m) EXCEPT !.timer =
                  IF m.status = "streaming" THEN a.id ELSE @]]

\* The call `a' ends, and its message, if it is still there, is patched;
\* the stream starts anyhow, and takes the timer from another one.
Ends(a, m) ==
    LET t == Patch([thread EXCEPT !.asks = @ \ {a}], a.id, m)
    IN  st' = [st EXCEPT !.thread =
                  IF m.status = "streaming" THEN [t EXCEPT !.timer = a.id] ELSE t]

send ==
    /\ Sends /\ MaySend
    /\ thread.asked < MaxAsks
    /\ st' = [st EXCEPT !.thread = Sent(@, st.scope)]
    /\ UNCHANGED library

\* The last tick of the timer.
Streamed ==
    /\ thread.timer # Nothing
    /\ LET id == thread.timer
           done(m) == [m EXCEPT !.status = IF m.id = id THEN "done" ELSE @]
       IN  st' = [st EXCEPT !.thread.timer = Nothing,
                     !.thread.messages = [i \in DOMAIN @ |-> done(@[i])]]
    /\ UNCHANGED library

Stopped(t) ==
    [t EXCEPT !.timer = Nothing,
              !.messages = [i \in DOMAIN @ |->
                  IF Going(@[i]) THEN [@[i] EXCEPT !.status = "done"] ELSE @[i]]]

stop == "stop" \in Composer /\ st' = [st EXCEPT !.thread = Stopped(@)] /\ UNCHANGED library

\* "New thread"
clear ==
    /\ "clear" \in Header
    /\ st' = [st EXCEPT !.thread = [Stopped(@) EXCEPT !.messages = <<>>],
                        !.cite = Nothing]
    /\ UNCHANGED library

\* Mutant: only the answer is dropped.
DropAnswer(messages, i) ==
    SubSeq(messages, 1, i - 1) \o SubSeq(messages, i + 1, Len(messages))

\* The failed exchange is dropped.
Drop(messages, i) ==
    SubSeq(messages, 1, i - 2) \o SubSeq(messages, i + 1, Len(messages))

\* The same question is asked again, also when another one is going on.
retry(i) ==
    /\ "retry" \in Bubble(thread.messages[i]) /\ thread.asked < MaxAsks
    /\ LET rest == [thread EXCEPT !.messages = Drop(@, i)]
       IN  st' = [st EXCEPT !.thread = Sent(rest, st.scope)]
    /\ UNCHANGED library

-----------------------------------------------------------------------------
(***************************************************************************)
(* askWorkspace and askDocument.                                           *)
(***************************************************************************)
\* loadLibrary says what the library was like up to 20 s ago, deleted
\* documents excepted, of which no passage is found.
Remembered == SUBSET Uploaded(library)

Goes(a, b) == st' = [st EXCEPT !.thread.asks = (@ \ {a}) \cup {b}]

LibraryLoads(a) ==
    /\ a.phase = "library"
    /\ \E rows \in Remembered :
           LET among == rows \cap InScope[a.scope]
           IN  IF among = {} THEN Ends(a, Told("no-answer"))
               ELSE Goes(a, [a EXCEPT !.phase = "retrieve", !.among = among])
    /\ UNCHANGED library

\* Mutant: every passage that was found is written up.
KeepAll(a, found) == found

\* Retrieval knows no scope: chat keeps the passages of documents in scope.
\* The page of one document calls askDocument without its id.
Keep(a, found) == IF st.kind = "chat" THEN found \cap a.among ELSE found

\* Without passages askDocument has an answer of the fixtures, or none.
Retrieves(a, found) ==
    /\ a.phase = "retrieve"
    /\ \A d \in found : library[d] = "completed"
    /\ LET kept == Keep(a, found)
       IN  \/ /\ kept # {}
              /\ Goes(a, [a EXCEPT !.phase = "generate", !.found = kept])
           \/ kept = {} /\ Ends(a, Told("no-answer"))
           \/ /\ kept = {} /\ st.kind = "qa"
              /\ \E cites \in SUBSET Fixtures \ {{}} :
                     Ends(a, [Told("streaming") EXCEPT !.cites = cites])
    /\ UNCHANGED library

\* ai-service refuses, cites some of the passages, or cannot be reached and
\* the passages are shown as they are.  Those of the index are none of the
\* citations that the page of one document knows.
Generates(a, refused, cited) ==
    /\ a.phase = "generate" /\ cited \subseteq a.found
    /\ Ends(a, IF refused THEN Told("no-answer")
               ELSE [status |-> "streaming", grounds |-> a.found,
                     cites |-> IF st.kind = "chat" THEN cited ELSE {}])
    /\ UNCHANGED library

\* Reading the library or the index fails; a failing ai-service does not.
AskFails(a) ==
    /\ a.phase # "generate"
    /\ Ends(a, Told("error"))
    /\ UNCHANGED library

-----------------------------------------------------------------------------
(***************************************************************************)
(* What else the two pages have: the scope and its counter, the source     *)
(* cards of chat, the reader of qa.                                        *)
(***************************************************************************)
scopeSize(rows, scope) == Cardinality(rows \cap InScope[scope])

ScopeAnswers ==
    /\ st.kind = "chat" /\ Loading(st.count)
    /\ \E rows \in Remembered :
           st' = [st EXCEPT !.count = Answered(@, scopeSize(rows, st.scope))]
    /\ UNCHANGED library

ScopeFails ==
    /\ st.kind = "chat" /\ Loading(st.count)
    /\ st' = [st EXCEPT !.count = Failed(@)]
    /\ UNCHANGED library

\* The menu, "Search all documents" and "Widen to all documents".
PickScope(scope) ==
    /\ "scope" \in Header /\ scope # st.scope
    /\ st' = [st EXCEPT !.scope = scope, !.count = Rerun(@, scope)]
    /\ UNCHANGED library

\* A chip opens and closes its card; in qa it turns the page.
ToggleCite(i, c) ==
    /\ "cite" \in Bubble(thread.messages[i]) /\ c \in thread.messages[i].cites
    /\ st' = [st EXCEPT
                 !.cite = IF @ = c THEN Nothing ELSE c,
                 !.page = IF st.kind = "qa" /\ st.cite # c THEN PageOf[c] ELSE @]
    /\ UNCHANGED library

Turn(page) ==
    /\ page \in Toolbar
    /\ st' = [st EXCEPT !.page = page]
    /\ UNCHANGED library

-----------------------------------------------------------------------------
Proceeds(a) ==
    \/ LibraryLoads(a) \/ AskFails(a)
    \/ \E found \in SUBSET Docs : Retrieves(a, found)
    \/ \E refused \in BOOLEAN, cited \in SUBSET Docs : Generates(a, refused, cited)

Loads == ScopeAnswers \/ ScopeFails
Answers == Streamed \/ \E a \in thread.asks : Proceeds(a)
Looking ==
    \/ \E i \in DOMAIN thread.messages, c \in Docs \cup Fixtures : ToggleCite(i, c)
    \/ \E scope \in Scopes : PickScope(scope)
    \/ \E page \in 1 .. TotalPages : Turn(page)
Acting == send \/ stop \/ clear \/ \E i \in DOMAIN thread.messages : retry(i)

-----------------------------------------------------------------------------
\* An answer of the workspace is written from documents of the scope that
\* was chosen when it was asked, although retrieval knows no scope, the
\* scope may have been changed since and the calls overtake each other.
AnswersStayInScope ==
    st.kind = "chat" =>
        \A i \in DOMAIN thread.messages :
            LET m == thread.messages[i]
            IN  m.grounds \subseteq InScope[m.scope] /\ m.cites \subseteq m.grounds

\* Whatever was dropped, retried or cleared, an answer stands under its
\* question, and there is one of each.
EveryAnswerFollowsItsQuestion ==
    /\ \A i \in DOMAIN thread.messages :
           /\ (thread.messages[i].id = 0) = (i % 2 = 1)
           /\ i % 2 = 0 => thread.messages[i].id = thread.messages[i - 1].asked

\* A message goes on as long as its call or its stream does.  One whose
\* stream was cut off by another's goes on for ever, see the README.
CutOff(m) == m.status = "streaming" /\ thread.timer # m.id

Waiting ==
    \E i \in DOMAIN thread.messages :
        Going(thread.messages[i]) /\ ~ CutOff(thread.messages[i])

\* What an answer on the page of one document is written from is of that
\* document.
GroundedInThisDocument ==
    st.kind = "qa" =>
        \A i \in DOMAIN thread.messages :
            thread.messages[i].grounds \subseteq {st.doc}
=============================================================================
