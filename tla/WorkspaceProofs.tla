-------------------------- MODULE WorkspaceProofs --------------------------
(***************************************************************************)
(* For every library, every set of words, filters and scopes, and any      *)
(* number of moves of the user: the list shows the page of its query, a    *)
(* document is sent to be reprocessed once at a time, and answers keep to  *)
(* their scope and stand under their question, which has its call as long  *)
(* as it is open.                                                          *)
(***************************************************************************)
EXTENDS MCWorkspace, FiniteSetTheorems, SequenceTheorems, TLAPS

-----------------------------------------------------------------------------
(***************************************************************************)
(* The list: what its useAsync was last run for is what its controls show, *)
(* also while it is loading or in error.                                   *)
(***************************************************************************)
SlotFields == {"dep", "status", "data"}

ListFields ==
    {"rawQuery", "search", "filter", "sort", "page", "pageSize", "docs", "first",
     "sel", "confirm", "deletes", "reprocesses", "exports"}

ListShape(s) == DOMAIN s = ListFields /\ DOMAIN s.docs = SlotFields

ListOK(s) == ListShape(s) /\ s.docs.dep = List!Query(s)

LEMMA ListMounts == ListOK(List!Fresh)
BY DEF ListOK, ListShape, ListFields, SlotFields, List!Fresh, List!Mounted,
       List!Query, List!Everything

LEMMA ListReloads == ASSUME NEW s, ListShape(s) PROVE ListOK(List!Reload(s))
<1>1. ListShape(List!Reload(s))
  BY DEF ListShape, ListFields, SlotFields, List!Reload, List!Rerun
<1>2. List!Reload(s).docs.dep = List!Query(s)
  BY DEF ListShape, ListFields, SlotFields, List!Reload, List!Rerun
<1>3. List!Query(List!Reload(s)) = List!Query(s)
  BY DEF ListShape, ListFields, List!Reload, List!Query
<1> QED BY <1>1, <1>2, <1>3 DEF ListOK

\* Whatever controls a render changes, the loader follows.
LEMMA ListRenders ==
    ASSUME ListOK(st), NEW s, ListShape(s), s.docs = st.docs, List!Renders(s)
    PROVE  ListOK(st')
<1>1. CASE List!Deps(s) = List!Deps(st)
  BY <1>1 DEF List!Renders, List!Deps, ListOK
<1>2. CASE List!Deps(s) # List!Deps(st)
  BY <1>2, ListReloads DEF List!Renders
<1> QED BY <1>1, <1>2

\* What leaves the controls and the slot alone.
LEMMA ListKeepsQuery ==
    ASSUME ListOK(st), NEW s, ListShape(s), s.docs = st.docs,
           s.search = st.search, s.filter = st.filter, s.sort = st.sort,
           s.page = st.page, s.pageSize = st.pageSize
    PROVE  ListOK(s)
BY DEF ListOK, List!Query

\* What an answer or a retry makes of the slot.
LEMMA ListKeepsSlot ==
    ASSUME ListOK(st), NEW slot, DOMAIN slot = SlotFields, slot.dep = st.docs.dep,
           st' = [st EXCEPT !.first = Nothing, !.docs = slot]
    PROVE  ListOK(st')
BY DEF ListOK, ListShape, ListFields, List!Query

LEMMA ListLoads == ASSUME ListOK(st), List!Loads PROVE ListOK(st')
<1> USE DEF ListFields, SlotFields
<1>0. ListShape(st)
  BY DEF ListOK
<1>1. CASE List!ReadFirst
  <2>1. st' = [st EXCEPT !.first = library]
    BY <1>1 DEF List!ReadFirst
  <2> QED BY <1>0, <2>1, ListKeepsQuery DEF ListShape
<1>2. CASE List!Answer
  <2>1. PICK page : st' = [st EXCEPT !.first = Nothing, !.docs = List!Answered(st.docs, page)]
    BY <1>2 DEF List!Answer
  <2>2. /\ DOMAIN List!Answered(st.docs, page) = SlotFields
        /\ List!Answered(st.docs, page).dep = st.docs.dep
    BY <1>0 DEF ListShape, List!Answered
  <2> QED BY <2>1, <2>2, ListKeepsSlot
<1>3. CASE List!Fail
  <2>1. st' = [st EXCEPT !.first = Nothing, !.docs = List!Failed(st.docs)]
    BY <1>3 DEF List!Fail
  <2>2. DOMAIN List!Failed(st.docs) = SlotFields /\ List!Failed(st.docs).dep = st.docs.dep
    BY <1>0 DEF ListShape, List!Failed
  <2> QED BY <2>1, <2>2, ListKeepsSlot
<1>4. CASE List!Poll
  BY <1>0, <1>4, ListReloads DEF List!Poll
<1>5. CASE List!Debounced
  BY <1>0, <1>5, ListRenders DEF List!Debounced, ListShape
<1> QED BY <1>1, <1>2, <1>3, <1>4, <1>5 DEF List!Loads

LEMMA ListLooks == ASSUME ListOK(st), List!Looking PROVE ListOK(st')
<1> USE DEF ListFields, SlotFields
<1>0. ListShape(st)
  BY DEF ListOK
<1>1. CASE \E text \in Words : List!Type(text)
  BY <1>0, <1>1, ListRenders DEF List!Type, ListShape
<1>2. CASE \E filter \in Filters : List!Choose(filter)
  BY <1>0, <1>2, ListRenders DEF List!Choose, ListShape
<1>3. CASE \E n : List!ChangeSize(n)
  BY <1>0, <1>3, ListRenders DEF List!ChangeSize, ListShape
<1>4. CASE \E n : List!TurnTo(n)
  BY <1>0, <1>4, ListRenders DEF List!TurnTo, ListShape
<1>5. CASE List!Retry
  <2>1. st' = [st EXCEPT !.first = Nothing, !.docs = List!Retried(st.docs)]
    BY <1>5 DEF List!Retry
  <2>2. DOMAIN List!Retried(st.docs) = SlotFields /\ List!Retried(st.docs).dep = st.docs.dep
    BY <1>0 DEF ListShape, List!Retried, List!Rerun
  <2> QED BY <2>1, <2>2, ListKeepsSlot
<1>6. CASE List!ClearFilters
  BY <1>0, <1>6, ListRenders DEF List!ClearFilters, ListShape
<1>7. CASE List!ToggleSort
  BY <1>0, <1>7, ListRenders DEF List!ToggleSort, ListShape
<1> QED BY <1>1, <1>2, <1>3, <1>4, <1>5, <1>6, <1>7 DEF List!Looking

LEMMA ListActs == ASSUME ListOK(st), List!Acting PROVE ListOK(st')
<1> USE DEF ListFields, SlotFields
<1>0. ListShape(st)
  BY DEF ListOK
<1>1. ASSUME NEW f \in {"sel", "confirm", "deletes", "reprocesses", "exports"}, NEW v,
             st' = [st EXCEPT ![f] = v]
      PROVE  ListOK(st')
  <2>1. ListShape(st') /\ st'.docs = st.docs
    BY <1>0, <1>1 DEF ListShape
  <2>2. /\ st'.search = st.search /\ st'.filter = st.filter /\ st'.sort = st.sort
        /\ st'.page = st.page /\ st'.pageSize = st.pageSize
    BY <1>0, <1>1 DEF ListShape
  <2> QED BY <2>1, <2>2, ListKeepsQuery
<1>2. CASE (\E d : List!Toggle(d)) \/ List!ToggleAll
  <2>1. PICK v : st' = [st EXCEPT !.sel = v]
    BY <1>2 DEF List!Toggle, List!ToggleAll
  <2> QED BY <1>1, <2>1
<1>3. CASE \E i \in DOMAIN List!rows, what \in {"delete", "reprocess", "retry", "export"} :
               List!UseRow(i, what)
  <2>1. PICK v : \/ st' = [st EXCEPT !.sel = v, !.confirm = "delete"]
                 \/ st' = [st EXCEPT !.reprocesses = v]
                 \/ st' = [st EXCEPT !.exports = v]
    BY <1>3 DEF List!UseRow
  <2>2. CASE st' = [st EXCEPT !.sel = v, !.confirm = "delete"]
    BY <1>0, <2>2, ListKeepsQuery DEF ListShape
  <2> QED BY <1>1, <2>1, <2>2
<1>4. CASE \E what \in {"deselect", "delete", "reprocess"} : List!UseBar(what)
  <2>1. PICK v : st' = [st EXCEPT !.sel = v] \/ st' = [st EXCEPT !.confirm = v]
    BY <1>4 DEF List!UseBar
  <2>2. CASE st' = [st EXCEPT !.sel = v]
    BY <1>1, <2>2
  <2>3. CASE st' = [st EXCEPT !.confirm = v]
    BY <1>1, <2>3
  <2> QED BY <2>1, <2>2, <2>3
<1>5. CASE \E all \in BOOLEAN : List!Export(all)
  <2>1. PICK v : st' = [st EXCEPT !.exports = v]
    BY <1>5 DEF List!Export
  <2> QED BY <1>1, <2>1
<1>6. CASE List!Cancel \/ List!Confirm
  <2>1. PICK v : \/ st' = [st EXCEPT !.confirm = v]
                 \/ st' = [st EXCEPT !.deletes = v]
                 \/ st' = [st EXCEPT !.reprocesses = v]
    BY <1>6 DEF List!Cancel, List!Confirm
  <2>2. CASE st' = [st EXCEPT !.confirm = v]
    BY <1>1, <2>2
  <2>3. CASE st' = [st EXCEPT !.deletes = v]
    BY <1>1, <2>3
  <2>4. CASE st' = [st EXCEPT !.reprocesses = v]
    BY <1>1, <2>4
  <2> QED BY <2>1, <2>2, <2>3, <2>4
<1> QED BY <1>2, <1>3, <1>4, <1>5, <1>6 DEF List!Acting

LEMMA ListAnswers == ASSUME ListOK(st), List!Answers PROVE ListOK(st')
<1> USE DEF ListFields, SlotFields
<1>0. ListShape(st)
  BY DEF ListOK
<1>1. ASSUME NEW f \in {"deletes", "reprocesses", "exports"}, NEW v
      PROVE  /\ ListOK([st EXCEPT ![f] = v]) /\ ListShape([st EXCEPT ![f] = v])
  <2> DEFINE s == [st EXCEPT ![f] = v]
  <2>1. /\ ListShape(s) /\ s.docs = st.docs
        /\ s.search = st.search /\ s.filter = st.filter /\ s.sort = st.sort
        /\ s.page = st.page /\ s.pageSize = st.pageSize
    BY <1>0 DEF ListShape
  <2> HIDE DEF s
  <2>2. ListOK(s)
    BY <2>1, ListKeepsQuery
  <2> QED BY <2>1, <2>2 DEF s
<1>2. ASSUME NEW s, NEW ok, ListShape(s), ListOK(s), st' = List!AfterBulk(s, ok)
      PROVE  ListOK(st')
  <2>1. CASE ok
    <3>1. ListShape([s EXCEPT !.confirm = "none", !.sel = {}])
      BY <1>2 DEF ListShape
    <3> QED BY <1>2, <2>1, <3>1, ListReloads DEF List!AfterBulk
  <2>2. CASE ~ok
    <3>1. st' = [s EXCEPT !.confirm = "none"]
      BY <1>2, <2>2 DEF List!AfterBulk
    <3>2. ListShape(st') /\ st'.docs = s.docs /\ List!Query(st') = List!Query(s)
      BY <1>2, <3>1 DEF ListShape, List!Query
    <3> QED BY <1>2, <3>2 DEF ListOK
  <2> QED BY <2>1, <2>2
<1>3. ASSUME NEW ok \in BOOLEAN, NEW run, List!DeleteAnswers(run, ok) PROVE ListOK(st')
  <2>1. PICK v : st' = List!AfterBulk([st EXCEPT !.deletes = v], ok)
    BY <1>3 DEF List!DeleteAnswers
  <2> QED BY <1>1, <1>2, <2>1
<1>4. ASSUME NEW ok \in BOOLEAN, NEW run, List!ReprocessAnswers(run, ok) PROVE ListOK(st')
  <2>1. PICK v : \/ st' = List!Reload([st EXCEPT !.reprocesses = v])
                 \/ st' = List!AfterBulk([st EXCEPT !.reprocesses = v], ok)
    BY <1>4 DEF List!ReprocessAnswers
  <2> QED BY <1>1, <1>2, <2>1, ListReloads
<1>5. ASSUME NEW run, List!ExportAnswers(run) PROVE ListOK(st')
  <2>1. PICK v : st' = [st EXCEPT !.exports = v]
    BY <1>5 DEF List!ExportAnswers
  <2> QED BY <1>1, <2>1
<1> QED BY <1>3, <1>4, <1>5 DEF List!Answers

-----------------------------------------------------------------------------
(***************************************************************************)
(* The page of one document: a reprocess that is under way is pending, so  *)
(* neither the button nor the dialog starts another.                       *)
(***************************************************************************)
DetailFields ==
    {"id", "doc", "retryable", "polls", "confirm", "reprocess", "told", "panels"}

ActionFields == {"status", "result", "runs"}

ReprocessOK(action) ==
    /\ DOMAIN action = ActionFields
    /\ action.runs \subseteq {1}
    /\ action.runs # {} => action.status = "pending"

DetailOK(s) == DOMAIN s = DetailFields /\ ReprocessOK(s.reprocess)

LEMMA DetailMounts == ASSUME NEW d PROVE DetailOK(Detail!FreshOf(d))
BY DEF DetailOK, ReprocessOK, DetailFields, ActionFields, Detail!FreshOf, Detail!Idle

\* What an update of some other part of the screen leaves alone.
LEMMA DetailKeeps ==
    ASSUME NEW s, DetailOK(s), NEW t, DOMAIN t = DOMAIN s, t.reprocess = s.reprocess
    PROVE  DetailOK(t)
BY DEF DetailOK

LEMMA DetailRenders ==
    ASSUME NEW s, DetailOK(s), Detail!Renders(s)
    PROVE  DetailOK(st')
<1>1. PICK polls, panels : st' = [s EXCEPT !.polls = polls, !.panels = panels]
  BY DEF Detail!Renders
<1> QED BY <1>1, DetailKeeps DEF DetailOK, DetailFields

LEMMA DetailLoads == ASSUME DetailOK(st), Detail!Loads PROVE DetailOK(st')
<1> USE DEF DetailFields
<1>0. DOMAIN st = DetailFields
  BY DEF DetailOK
<1>1. ASSUME NEW s, NEW v, s = [st EXCEPT !.doc = v] PROVE DetailOK(s)
  BY <1>0, <1>1, DetailKeeps
<1>2. CASE Detail!Answer
  <2>1. PICK v : Detail!Renders([st EXCEPT !.doc = v])
    BY <1>2 DEF Detail!Answer
  <2> QED BY <1>1, <2>1, DetailRenders
<1>3. CASE \E failure : Detail!Fail(failure)
  <2>1. PICK v, r : Detail!Renders([st EXCEPT !.doc = v, !.retryable = r])
    BY <1>3 DEF Detail!Fail
  <2>2. DetailOK([st EXCEPT !.doc = v, !.retryable = r])
    BY <1>0, DetailKeeps
  <2> QED BY <2>1, <2>2, DetailRenders
<1>4. ASSUME NEW p, NEW v, st' = [st EXCEPT !.polls = p] \/ st' = [st EXCEPT !.polls = p, !.doc = v]
      PROVE  DetailOK(st')
  BY <1>0, <1>4, DetailKeeps
<1>5. CASE Detail!PollTick \/ Detail!PollReads
  <2>1. PICK p : st' = [st EXCEPT !.polls = p]
    BY <1>5 DEF Detail!PollTick, Detail!PollReads
  <2> QED BY <1>4, <2>1
<1>6. CASE \E next : Detail!PollAnswers(next) \/ Detail!PollFails(next)
  <2>1. PICK p : \/ st' = [st EXCEPT !.polls = p]
                 \/ st' = Detail!Reloaded([st EXCEPT !.polls = p])
    BY <1>6 DEF Detail!PollAnswers, Detail!PollFails
  <2>2. ASSUME NEW s, DetailOK(s) PROVE DetailOK(Detail!Reloaded(s))
    BY <2>2, DetailKeeps DEF Detail!Reloaded, DetailOK
  <2>3. DetailOK([st EXCEPT !.polls = p])
    BY <1>0, DetailKeeps
  <2> QED BY <2>1, <2>2, <2>3
<1> QED BY <1>2, <1>3, <1>5, <1>6 DEF Detail!Loads

LEMMA DetailAnswers == ASSUME DetailOK(st), Detail!Answers PROVE DetailOK(st')
<1> USE DEF DetailFields
<1>0. DOMAIN st = DetailFields
  BY DEF DetailOK
<1>1. ASSUME NEW ok \in BOOLEAN, NEW run, Detail!ReprocessAnswers(run, ok)
      PROVE  DetailOK(st')
  <2>1. run \in st.reprocess.runs /\ ReprocessOK(st.reprocess)
    BY <1>1 DEF Detail!ReprocessAnswers, DetailOK
  <2>2. st.reprocess.runs \ {run} = {}
    BY <2>1 DEF ReprocessOK
  <2>3. PICK told, action :
          /\ st' = Detail!Reloaded([st EXCEPT !.told = told, !.reprocess = action])
          /\ action \in {Detail!ActionSucceeded(st.reprocess, run, Nothing),
                         Detail!ActionFailed(st.reprocess, run)}
    BY <1>1 DEF Detail!ReprocessAnswers
  <2>4. ReprocessOK(action)
    <3>1. CASE action = Detail!ActionSucceeded(st.reprocess, run, Nothing)
      BY <2>2, <3>1 DEF ReprocessOK, ActionFields, Detail!ActionSucceeded
    <3>2. CASE action = Detail!ActionFailed(st.reprocess, run)
      <4>1. DOMAIN action = ActionFields /\ action.runs = st.reprocess.runs \ {run}
        BY <2>1, <3>2 DEF ReprocessOK, ActionFields, Detail!ActionFailed
      <4> QED BY <2>2, <4>1 DEF ReprocessOK
    <3> QED BY <2>3, <3>1, <3>2
  <2>5. PICK v : st' = [st EXCEPT !.told = told, !.reprocess = action, !.doc = v]
    BY <1>0, <2>3 DEF Detail!Reloaded
  <2>6. DOMAIN st' = DetailFields /\ st'.reprocess = action
    BY <1>0, <2>5
  <2> QED BY <2>4, <2>6 DEF DetailOK
<1>2. CASE Detail!Revealed
  BY <1>0, <1>2, DetailKeeps DEF Detail!Revealed
<1>3. CASE Detail!ToastGoes
  BY <1>0, <1>3, DetailKeeps DEF Detail!ToastGoes
<1> QED BY <1>1, <1>2, <1>3 DEF Detail!Answers

LEMMA DetailLooks == ASSUME DetailOK(st), Detail!Looking PROVE DetailOK(st')
<1> USE DEF DetailFields
<1>0. DOMAIN st = DetailFields
  BY DEF DetailOK
<1>1. CASE Detail!Filter
  BY <1>0, <1>1, DetailKeeps DEF Detail!Filter
<1>2. CASE Detail!Expand
  BY <1>0, <1>2, DetailKeeps DEF Detail!Expand
<1>3. CASE \E p : Detail!TogglePii(p)
  BY <1>0, <1>3, DetailKeeps DEF Detail!TogglePii
<1> QED BY <1>1, <1>2, <1>3 DEF Detail!Looking

LEMMA DetailActs == ASSUME DetailOK(st), Detail!Acting PROVE DetailOK(st')
<1> USE DEF DetailFields
<1>0. DOMAIN st = DetailFields
  BY DEF DetailOK
<1>1. CASE Detail!Retry
  <2>1. PICK v : Detail!Renders([st EXCEPT !.doc = v])
    BY <1>1 DEF Detail!Retry
  <2>2. DetailOK([st EXCEPT !.doc = v])
    BY <1>0, DetailKeeps
  <2> QED BY <2>1, <2>2, DetailRenders
<1>2. CASE Detail!AskReprocess \/ Detail!Cancel
  <2>1. PICK v : st' = [st EXCEPT !.confirm = v]
    BY <1>2 DEF Detail!AskReprocess, Detail!Cancel
  <2> QED BY <1>0, <2>1, DetailKeeps
<1>3. CASE Detail!runReprocess
  <2>1. st.reprocess.status # "pending" /\ ReprocessOK(st.reprocess)
    BY <1>3 DEF Detail!runReprocess, Detail!DialogTakes, Detail!Dialog,
                Detail!ConfirmDialog, DetailOK
  <2>2. st.reprocess.runs = {} /\ DOMAIN st.reprocess = ActionFields
    BY <2>1 DEF ReprocessOK
  <2>3. Detail!Cardinality(st.reprocess.runs) = 0
    BY <2>2, FS_EmptySet DEF Detail!Cardinality, Cardinality
  <2> DEFINE action == Detail!ActionStarted(st.reprocess, 1)
  <2>4. st' = [st EXCEPT !.confirm = FALSE, !.told = "working", !.reprocess = action]
    BY <1>3, <2>3 DEF Detail!runReprocess
  <2>5. ReprocessOK(action)
    BY <2>2 DEF ReprocessOK, ActionFields, Detail!ActionStarted
  <2> HIDE DEF action
  <2>6. DOMAIN st' = DetailFields /\ st'.reprocess = action
    BY <1>0, <2>4
  <2> QED BY <2>5, <2>6 DEF DetailOK
<1> QED BY <1>1, <1>2, <1>3 DEF Detail!Acting

-----------------------------------------------------------------------------
(***************************************************************************)
(* The pages that ask: questions and answers alternate, an answer has the  *)
(* number of the question before it, and whatever is under way keeps to    *)
(* the scope of its message.                                               *)
(***************************************************************************)
Scopings == Scopes \cup {"All"}

MessageStatuses == {"user", "thinking", "streaming", "done", "error", "no-answer"}

Messages ==
    [id : Nat, asked : Nat, scope : Scopings, status : MessageStatuses,
     grounds : SUBSET Ask!Docs, cites : SUBSET (Ask!Docs \cup Fixtures)]

Questions ==
    [id : Nat, scope : Scopings, phase : {"library", "retrieve", "generate"},
     among : SUBSET Ask!Docs, found : SUBSET Ask!Docs]

Threads ==
    [messages : Seq(Messages), asks : SUBSET Questions, timer : {Nothing} \cup Nat,
     asked : Nat]

\* Every question is numbered, and with it its call and its stream.
Numbered(t) ==
    /\ \A i \in DOMAIN t.messages : t.messages[i].asked \in 1 .. t.asked
    /\ \A a \in t.asks : a.id \in 1 .. t.asked
    /\ t.timer # Nothing => t.timer \in 1 .. t.asked

Paired(messages) ==
    /\ Len(messages) % 2 = 0
    /\ \A i \in DOMAIN messages :
           /\ (messages[i].id = 0) = (i % 2 = 1)
           /\ i % 2 = 0 => messages[i].id = messages[i - 1].asked
           /\ messages[i].id = 0 => messages[i].status = "user"

InItsScope(m) == m.grounds \subseteq InScope[m.scope] /\ m.cites \subseteq m.grounds

Scoped(kind, t) ==
    /\ \A i \in DOMAIN t.messages, a \in t.asks :
           t.messages[i].id = a.id => t.messages[i].scope = a.scope
    /\ kind = "chat" =>
           /\ \A i \in DOMAIN t.messages : InItsScope(t.messages[i])
           /\ \A a \in t.asks : a.among \cup a.found \subseteq InScope[a.scope]

ThreadOK(kind, t) == t \in Threads /\ Numbered(t) /\ Paired(t.messages) /\ Scoped(kind, t)

\* A message that shows as thinking has its call, which goes on.
Called(t) ==
    \A i \in DOMAIN t.messages :
        t.messages[i].status = "thinking" => \E a \in t.asks : a.id = t.messages[i].id

AskFields == {"kind", "doc", "thread", "scope", "count", "cite", "page"}

AskOK(s) ==
    /\ DOMAIN s = AskFields /\ s.scope \in Scopings
    /\ ThreadOK(s.kind, s.thread) /\ Called(s.thread)

LEMMA EvenIsNotFirst ==
    ASSUME NEW n \in Nat, NEW i \in 1 .. n, i % 2 = 0 PROVE i - 1 \in 1 .. n
OBVIOUS

LEMMA TwoLessIsEven == ASSUME NEW n \in Int, n % 2 = 0 PROVE (n - 2) % 2 = 0
OBVIOUS

\* The number of a message is that of the question it belongs to.
LEMMA NumbersAreAsked ==
    ASSUME NEW kind, NEW t, ThreadOK(kind, t), NEW i \in DOMAIN t.messages
    PROVE  t.messages[i].id \in 0 .. t.asked
<1>1. /\ t.messages \in Seq(Messages) /\ DOMAIN t.messages = 1 .. Len(t.messages)
      /\ Len(t.messages) \in Nat
  BY LenProperties DEF ThreadOK, Threads
<1>2. t.messages[i] \in Messages /\ t.asked \in Nat
  BY <1>1, ElementOfSeq DEF ThreadOK, Threads
<1>3. CASE i % 2 = 1
  BY <1>2, <1>3 DEF ThreadOK, Paired
<1>4. CASE i % 2 = 0
  <2>1. i - 1 \in DOMAIN t.messages
    BY <1>1, <1>4, EvenIsNotFirst
  <2> QED BY <1>2, <1>4, <2>1 DEF ThreadOK, Paired, Numbered
<1> QED BY <1>1, <1>3, <1>4

\* Messages that keep their place may change their status and what they say.
LEMMA MessagesChange ==
    ASSUME NEW kind, NEW t, ThreadOK(kind, t), NEW messages \in [DOMAIN t.messages -> Messages],
           \A i \in DOMAIN t.messages :
               /\ messages[i].id = t.messages[i].id
               /\ messages[i].asked = t.messages[i].asked
               /\ messages[i].scope = t.messages[i].scope
               /\ messages[i].id = 0 => messages[i].status = t.messages[i].status
               /\ kind = "chat" => InItsScope(messages[i])
    PROVE  ThreadOK(kind, [t EXCEPT !.messages = messages])
<1> DEFINE u == [t EXCEPT !.messages = messages]
<1>1. /\ t.messages \in Seq(Messages) /\ DOMAIN t.messages = 1 .. Len(t.messages)
      /\ Len(t.messages) \in Nat
  BY LenProperties DEF ThreadOK, Threads
<1>2. messages \in Seq(Messages)
  BY <1>1
<1>3. Len(messages) = Len(t.messages)
  BY <1>1, <1>2, LenProperties
<1>4. /\ DOMAIN u = {"messages", "asks", "timer", "asked"} /\ u \in Threads
      /\ u.messages = messages /\ u.asks = t.asks /\ u.timer = t.timer /\ u.asked = t.asked
  BY <1>2 DEF ThreadOK, Threads
<1> HIDE DEF u
<1>5. Numbered(u)
  BY <1>4 DEF ThreadOK, Numbered
<1>6. Paired(messages)
  <2>1. Paired(t.messages) /\ DOMAIN messages = DOMAIN t.messages
    BY DEF ThreadOK
  <2>2. ASSUME NEW i \in DOMAIN messages
        PROVE  /\ (messages[i].id = 0) = (i % 2 = 1)
               /\ messages[i].id = 0 => messages[i].status = "user"
    BY <2>1, <2>2 DEF Paired
  <2>3. ASSUME NEW i \in DOMAIN messages, i % 2 = 0
        PROVE  messages[i].id = messages[i - 1].asked
    <3>1. i - 1 \in DOMAIN t.messages
      BY <1>1, <2>1, <2>3, EvenIsNotFirst
    <3> QED BY <2>1, <2>3, <3>1 DEF Paired
  <2>4. Len(messages) % 2 = 0
    BY <1>3, <2>1 DEF Paired
  <2> QED BY <2>2, <2>3, <2>4, Zenon DEF Paired
<1>7. Scoped(kind, u)
  BY <1>4 DEF ThreadOK, Scoped
<1> QED BY <1>4, <1>5, <1>6, <1>7 DEF ThreadOK, u

\* What a question that is put adds: the next number is no other's.
LEMMA QuestionIsPut ==
    ASSUME NEW t, ThreadOK(st.kind, t), NEW scope \in Scopings
    PROVE  /\ ThreadOK(st.kind, Ask!Sent(t, scope))
           /\ Called(t) => Called(Ask!Sent(t, scope))
<1> DEFINE id == t.asked + 1
           user == Ask!Message(0, id, scope, Ask!Told("user"))
           answer == Ask!Message(id, id, scope, Ask!Told("thinking"))
           call == [id |-> id, scope |-> scope,
                    phase |-> IF st.kind = "chat" THEN "library" ELSE "retrieve",
                    among |-> {}, found |-> {}]
           n == Len(t.messages)
           u == Ask!Sent(t, scope)
<1>1. /\ t.messages \in Seq(Messages) /\ DOMAIN t.messages = 1 .. n
      /\ n \in Nat /\ t.asked \in Nat /\ t.asks \subseteq Questions
      /\ t.timer \in {Nothing} \cup Nat
      /\ DOMAIN t = {"messages", "asks", "timer", "asked"}
  BY LenProperties DEF ThreadOK, Threads
<1>2. /\ user \in Messages /\ answer \in Messages
      /\ user.id = 0 /\ user.asked = id /\ user.status = "user" /\ user.scope = scope
      /\ user.grounds = {} /\ user.cites = {}
      /\ answer.id = id /\ answer.asked = id /\ answer.scope = scope
      /\ answer.grounds = {} /\ answer.cites = {}
  BY <1>1 DEF Messages, MessageStatuses, Ask!Message, Ask!Told
<1>3. /\ call \in Questions /\ call.id = id /\ call.scope = scope
      /\ call.among = {} /\ call.found = {}
  BY <1>1 DEF Questions
<1>4. u = [t EXCEPT !.asked = id, !.messages = @ \o <<user, answer>>,
                    !.asks = @ \cup {call}]
  BY DEF Ask!Sent
<1> HIDE DEF user, answer, call, u
<1>5. /\ u.messages = t.messages \o <<user, answer>> /\ u.asks = t.asks \cup {call}
      /\ u.asked = id /\ u.timer = t.timer
      /\ u = [messages |-> u.messages, asks |-> u.asks, timer |-> u.timer,
              asked |-> u.asked]
  <2>1. t = [messages |-> t.messages, asks |-> t.asks, timer |-> t.timer,
             asked |-> t.asked]
    BY DEF ThreadOK, Threads
  <2> QED BY <1>1, <1>4, <2>1
<1>6. /\ u.messages \in Seq(Messages) /\ Len(u.messages) = n + 2
      /\ DOMAIN u.messages = 1 .. n + 2
      /\ \A i \in 1 .. n : u.messages[i] = t.messages[i]
      /\ u.messages[n + 1] = user /\ u.messages[n + 2] = answer
  <2>1. <<user, answer>> \in Seq(Messages) /\ Len(<<user, answer>>) = 2
    BY <1>2
  <2>2. /\ u.messages \in Seq(Messages) /\ Len(u.messages) = n + 2
        /\ \A i \in 1 .. n + 2 : u.messages[i] =
               IF i <= n THEN t.messages[i] ELSE <<user, answer>>[i - n]
    BY <1>1, <1>5, <2>1, ConcatProperties
  <2>3. DOMAIN u.messages = 1 .. n + 2
    BY <2>2, LenProperties
  <2>4. ASSUME NEW i \in 1 .. n PROVE u.messages[i] = t.messages[i]
    BY <1>1, <2>2
  <2>5. u.messages[n + 1] = user /\ u.messages[n + 2] = answer
    <3>1. /\ n + 1 \in 1 .. n + 2 /\ ~ (n + 1 <= n) /\ (n + 1) - n = 1
          /\ n + 2 \in 1 .. n + 2 /\ ~ (n + 2 <= n) /\ (n + 2) - n = 2
      BY <1>1
    <3>2. /\ u.messages[n + 1] = <<user, answer>>[(n + 1) - n]
          /\ u.messages[n + 2] = <<user, answer>>[(n + 2) - n]
      BY <2>2, <3>1, Zenon
    <3> QED BY <3>1, <3>2
  <2> QED BY <2>2, <2>3, <2>4, <2>5
<1>7. u \in Threads
  <2>1. u.asks \in SUBSET Questions
    BY <1>1, <1>3, <1>5, Zenon
  <2>2. u.timer \in {Nothing} \cup Nat
    BY <1>1, <1>5, Zenon
  <2>3. u.asked \in Nat
    BY <1>1, <1>5
  <2>4. u.messages \in Seq(Messages)
    BY <1>6, Zenon
  <2> QED BY <1>5, <2>1, <2>2, <2>3, <2>4 DEF Threads
<1>8. Numbered(u)
  <2>1. \A i \in DOMAIN u.messages : u.messages[i].asked \in 1 .. id
    <3> SUFFICES ASSUME NEW i \in 1 .. n + 2 PROVE u.messages[i].asked \in 1 .. id
      BY <1>6
    <3>1. CASE i \in 1 .. n
      <4>1. u.messages[i] = t.messages[i]
        BY <1>6, <3>1
      <4>2. t.messages[i].asked \in 1 .. t.asked
        BY <1>1, <3>1 DEF ThreadOK, Numbered
      <4> QED BY <1>1, <4>1, <4>2
    <3>2. CASE i \notin 1 .. n
      <4>1. i = n + 1 \/ i = n + 2
        BY <1>1, <3>2
      <4>2. u.messages[i].asked = id
        BY <1>2, <1>6, <4>1
      <4> QED BY <1>1, <4>2
    <3> QED BY <3>1, <3>2
  <2>2. \A a \in u.asks : a.id \in 1 .. id
    BY <1>1, <1>3, <1>5 DEF ThreadOK, Numbered
  <2>3. u.timer # Nothing => u.timer \in 1 .. id
    BY <1>1, <1>5 DEF ThreadOK, Numbered
  <2> QED BY <1>5, <2>1, <2>2, <2>3 DEF Numbered
<1>9. Paired(u.messages)
  <2>0. Paired(t.messages) /\ n % 2 = 0
    BY DEF ThreadOK, Paired
  <2>1. Len(u.messages) % 2 = 0
    BY <1>1, <1>6, <2>0
  <2>2. ASSUME NEW i \in DOMAIN u.messages
        PROVE  /\ (u.messages[i].id = 0) = (i % 2 = 1)
               /\ i % 2 = 0 => u.messages[i].id = u.messages[i - 1].asked
               /\ u.messages[i].id = 0 => u.messages[i].status = "user"
    <3>1. CASE i \in 1 .. n
      <4>1. u.messages[i] = t.messages[i] /\ i \in DOMAIN t.messages
        BY <1>1, <1>6, <3>1
      <4>2. /\ (t.messages[i].id = 0) = (i % 2 = 1)
            /\ i % 2 = 0 => t.messages[i].id = t.messages[i - 1].asked
            /\ t.messages[i].id = 0 => t.messages[i].status = "user"
        BY <2>0, <4>1, Zenon DEF Paired
      <4>3. i % 2 = 0 => u.messages[i - 1] = t.messages[i - 1]
        BY <1>1, <1>6, <3>1
      <4> QED BY <4>1, <4>2, <4>3
    <3>2. CASE i = n + 1
      <4>1. i % 2 = 1
        BY <1>1, <2>0, <3>2
      <4>2. u.messages[i] = user
        BY <1>6, <3>2
      <4>3. i % 2 # 0
        BY <4>1
      <4> QED BY <1>2, <4>1, <4>2, <4>3, Zenon
    <3>3. CASE i = n + 2
      <4>1. i % 2 = 0 /\ i - 1 = n + 1 /\ id # 0
        BY <1>1, <2>0, <3>3
      <4> QED BY <1>2, <1>6, <3>3, <4>1
    <3> QED BY <1>1, <1>6, <3>1, <3>2, <3>3
  <2> QED BY <2>1, <2>2, Zenon DEF Paired
<1>10. Scoped(st.kind, u)
  <2>1. ASSUME NEW i \in DOMAIN u.messages, NEW a \in u.asks, u.messages[i].id = a.id
        PROVE  u.messages[i].scope = a.scope
    <3>1. CASE i \in 1 .. n /\ a \in t.asks
      BY <1>1, <1>6, <2>1, <3>1 DEF ThreadOK, Scoped
    <3>2. i \in 1 .. n => u.messages[i].id \in 0 .. t.asked
      BY <1>1, <1>6, NumbersAreAsked
    <3>3. a \in t.asks => a.id \in 1 .. t.asked
      BY DEF ThreadOK, Numbered
    <3>4. a \in t.asks \/ a = call
      BY <1>5
    <3>5. i \in 1 .. n \/ i = n + 1 \/ i = n + 2
      BY <1>1, <1>6
    <3> QED BY <1>1, <1>2, <1>3, <1>6, <2>1, <3>1, <3>2, <3>3, <3>4, <3>5
  <2>2. ASSUME st.kind = "chat", NEW i \in DOMAIN u.messages
        PROVE  InItsScope(u.messages[i])
    <3>1. CASE i \in 1 .. n
      BY <1>1, <1>6, <2>2, <3>1 DEF ThreadOK, Scoped
    <3> QED BY <1>1, <1>2, <1>6, <3>1 DEF InItsScope
  <2>3. ASSUME st.kind = "chat", NEW a \in u.asks
        PROVE  a.among \cup a.found \subseteq InScope[a.scope]
    BY <1>3, <1>5, <2>3 DEF ThreadOK, Scoped
  <2> QED BY <2>1, <2>2, <2>3 DEF Scoped
<1>11. ASSUME Called(t) PROVE Called(u)
  <2> SUFFICES ASSUME NEW i \in 1 .. n + 2, u.messages[i].status = "thinking"
               PROVE  \E a \in u.asks : a.id = u.messages[i].id
    BY <1>6 DEF Called
  <2>1. CASE i \in 1 .. n
    BY <1>1, <1>5, <1>6, <1>11, <2>1 DEF Called
  <2>2. CASE i \notin 1 .. n
    <3>1. i = n + 1 \/ i = n + 2
      BY <1>1, <2>2
    <3> QED BY <1>2, <1>3, <1>5, <1>6, <3>1
  <2> QED BY <2>1, <2>2
<1> QED BY <1>7, <1>8, <1>9, <1>10, <1>11 DEF ThreadOK, u

\* The messages that remain when an exchange is dropped keep their order.
LEMMA ExchangeIsDropped ==
    ASSUME NEW kind, NEW t, ThreadOK(kind, t), NEW i \in DOMAIN t.messages, i % 2 = 0
    PROVE  /\ ThreadOK(kind, [t EXCEPT !.messages = Ask!Drop(@, i)])
           /\ Called(t) => Called([t EXCEPT !.messages = Ask!Drop(@, i)])
<1> DEFINE ms == t.messages
           n == Len(ms)
           ds == Ask!Drop(ms, i)
           u == [t EXCEPT !.messages = ds]
           from(j) == IF j <= i - 2 THEN j ELSE j + 2
<1>1. /\ ms \in Seq(Messages) /\ DOMAIN ms = 1 .. n /\ n \in Nat
      /\ i \in 1 .. n /\ i - 1 \in 1 .. n
      /\ \A j \in 1 .. n : ms[j] \in Messages
  <2>1. ms \in Seq(Messages)
    BY DEF ThreadOK, Threads
  <2> HIDE DEF ms
  <2>2. DOMAIN ms = 1 .. n /\ n \in Nat
    BY <2>1, LenProperties
  <2>3. i \in 1 .. n
    BY <2>2 DEF ms
  <2>4. i - 1 \in 1 .. n
    BY <2>2, <2>3, EvenIsNotFirst
  <2>5. \A j \in 1 .. n : ms[j] \in Messages
    BY <2>1, ElementOfSeq
  <2> QED BY <2>1, <2>2, <2>3, <2>4, <2>5
<1>2. /\ SubSeq(ms, 1, i - 2) \in Seq(Messages) /\ Len(SubSeq(ms, 1, i - 2)) = i - 2
      /\ \A j \in 1 .. i - 2 : SubSeq(ms, 1, i - 2)[j] = ms[j]
  BY <1>1, SubSeqProperties
<1>3. /\ SubSeq(ms, i + 1, n) \in Seq(Messages) /\ Len(SubSeq(ms, i + 1, n)) = n - i
      /\ \A j \in 1 .. n - i : SubSeq(ms, i + 1, n)[j] = ms[i + j]
  <2> HIDE DEF ms, n
  <2>1. /\ i + 1 \in Int /\ n \in Int /\ \A j \in i + 1 .. n : ms[j] \in Messages
        /\ n - (i + 1) + 1 = n - i /\ (IF i + 1 <= n THEN n - i ELSE 0) = n - i
        /\ \A j \in 1 .. n - i : (i + 1) + j - 1 = i + j
    BY <1>1
  <2>2. /\ SubSeq(ms, i + 1, n) \in Seq(Messages)
        /\ Len(SubSeq(ms, i + 1, n)) = IF i + 1 <= n THEN n - (i + 1) + 1 ELSE 0
        /\ \A j \in 1 .. n - (i + 1) + 1 :
               SubSeq(ms, i + 1, n)[j] = ms[(i + 1) + j - 1]
    BY <2>1, SubSeqProperties
  <2> QED BY <2>1, <2>2
<1>4. /\ ds \in Seq(Messages) /\ Len(ds) = n - 2 /\ DOMAIN ds = 1 .. n - 2
      /\ \A j \in 1 .. n - 2 : ds[j] = ms[from(j)]
  <2>1. ds = SubSeq(ms, 1, i - 2) \o SubSeq(ms, i + 1, n)
    BY DEF Ask!Drop
  <2>2. /\ ds \in Seq(Messages) /\ Len(ds) = n - 2
        /\ \A j \in 1 .. n - 2 : ds[j] = IF j <= i - 2 THEN SubSeq(ms, 1, i - 2)[j]
                                         ELSE SubSeq(ms, i + 1, n)[j - (i - 2)]
    <3> DEFINE s1 == SubSeq(ms, 1, i - 2)
               s2 == SubSeq(ms, i + 1, n)
    <3>1. s1 \in Seq(Messages) /\ s2 \in Seq(Messages) /\ ds = s1 \o s2
      BY <1>2, <1>3, <2>1
    <3>2. (i - 2) + (n - i) = n - 2
      BY <1>1
    <3>3. Len(s1) = i - 2 /\ Len(s2) = n - i
      BY <1>2, <1>3, Zenon
    <3> HIDE DEF ds, s1, s2
    <3>4. /\ ds \in Seq(Messages) /\ Len(ds) = Len(s1) + Len(s2)
          /\ \A j \in 1 .. Len(s1) + Len(s2) :
                 ds[j] = IF j <= Len(s1) THEN s1[j] ELSE s2[j - Len(s1)]
      BY <3>1, ConcatProperties
    <3>5. /\ ds \in Seq(Messages) /\ Len(ds) = n - 2
          /\ \A j \in 1 .. n - 2 :
                 ds[j] = IF j <= i - 2 THEN s1[j] ELSE s2[j - (i - 2)]
      BY <3>2, <3>3, <3>4
    <3> QED BY <3>5 DEF s1, s2
  <2>3. DOMAIN ds = 1 .. n - 2
    BY <2>2, LenProperties
  <2>4. ASSUME NEW j \in 1 .. n - 2 PROVE ds[j] = ms[from(j)]
    <3>1. CASE j <= i - 2
      BY <1>1, <1>2, <2>2, <3>1
    <3>2. CASE ~ (j <= i - 2)
      <4>1. j - (i - 2) \in 1 .. n - i /\ i + (j - (i - 2)) = j + 2
        BY <1>1, <3>2
      <4>2. ds[j] = SubSeq(ms, i + 1, n)[j - (i - 2)]
        BY <2>2, <3>2
      <4>3. ds[j] = ms[j + 2]
        BY <1>3, <4>1, <4>2
      <4> QED BY <3>2, <4>3
    <3> QED BY <3>1, <3>2
  <2> QED BY <2>2, <2>3, <2>4
<1>5. ASSUME NEW j \in 1 .. n - 2
      PROVE  /\ from(j) \in 1 .. n /\ from(j) % 2 = j % 2
             /\ j % 2 = 0 => j - 1 \in 1 .. n - 2 /\ from(j - 1) = from(j) - 1
  <2>1. from(j) \in 1 .. n
    BY <1>1
  <2>2. from(j) % 2 = j % 2
    BY <1>1
  <2>3. j % 2 = 0 => j - 1 \in 1 .. n - 2
    BY <1>1, EvenIsNotFirst
  <2>4. j % 2 = 0 => from(j - 1) = from(j) - 1
    <3>1. j % 2 = 0 => j # i - 1
      BY <1>1, TwoLessIsEven
    <3>2. j - 1 <= i - 2 /\ j # i - 1 => j <= i - 2
      BY <1>1
    <3>3. j <= i - 2 => j - 1 <= i - 2
      BY <1>1
    <3> QED BY <1>1, <3>1, <3>2, <3>3
  <2> QED BY <2>1, <2>2, <2>3, <2>4
<1> HIDE DEF ds, from
<1>6. /\ u.messages = ds /\ u.asks = t.asks /\ u.timer = t.timer /\ u.asked = t.asked
      /\ u \in Threads
  BY <1>4 DEF ThreadOK, Threads
<1> HIDE DEF u
<1>7. Numbered(u)
  <2>1. ASSUME NEW j \in 1 .. n - 2 PROVE ds[j].asked \in 1 .. t.asked
    BY <1>1, <1>4, <1>5, <2>1 DEF ThreadOK, Numbered
  <2> QED BY <1>4, <1>6, <2>1 DEF ThreadOK, Numbered
<1>8. Paired(ds)
  <2>0. Paired(ms)
    BY DEF ThreadOK
  <2>1. Len(ds) % 2 = 0
    <3>1. n % 2 = 0
      BY <2>0 DEF Paired
    <3>2. n \in Int
      BY <1>1
    <3>3. (n - 2) % 2 = 0
      BY <3>1, <3>2, TwoLessIsEven, Zenon
    <3> QED BY <1>4, <3>3
  <2>2. ASSUME NEW j \in DOMAIN ds
        PROVE  /\ (ds[j].id = 0) = (j % 2 = 1)
               /\ j % 2 = 0 => ds[j].id = ds[j - 1].asked
               /\ ds[j].id = 0 => ds[j].status = "user"
    <3>1. ds[j] = ms[from(j)] /\ from(j) \in DOMAIN ms /\ from(j) % 2 = j % 2
      BY <1>1, <1>4, <1>5
    <3>2. j % 2 = 0 => ds[j - 1] = ms[from(j) - 1]
      BY <1>4, <1>5
    <3>3. /\ (ms[from(j)].id = 0) = (from(j) % 2 = 1)
          /\ from(j) % 2 = 0 => ms[from(j)].id = ms[from(j) - 1].asked
          /\ ms[from(j)].id = 0 => ms[from(j)].status = "user"
      BY <2>0, <3>1, Zenon DEF Paired
    <3> QED BY <3>1, <3>2, <3>3
  <2> QED BY <2>1, <2>2, Zenon DEF Paired
<1>9. Scoped(kind, u)
  <2>1. \A j \in DOMAIN ds : from(j) \in DOMAIN ms /\ ds[j] = ms[from(j)]
    BY <1>1, <1>4, <1>5
  <2> QED BY <1>6, <2>1 DEF ThreadOK, Scoped
<1>10. Ask!Drop(t.messages, i) = ds
  BY DEF ds
<1>11. ASSUME Called(t) PROVE Called(u)
  <2>1. \A j \in DOMAIN ds : from(j) \in DOMAIN ms /\ ds[j] = ms[from(j)]
    BY <1>1, <1>4, <1>5
  <2> QED BY <1>6, <1>11, <2>1 DEF Called
<1> QED BY <1>6, <1>7, <1>8, <1>9, <1>10, <1>11 DEF ThreadOK, u

\* Calls end, streams end, and a stream takes the timer of another.
LEMMA CallIsOver ==
    ASSUME NEW kind, NEW t, ThreadOK(kind, t), NEW a
    PROVE  ThreadOK(kind, [t EXCEPT !.asks = @ \ {a}])
<1> DEFINE u == [t EXCEPT !.asks = @ \ {a}]
<1>1. /\ u.messages = t.messages /\ u.asks = t.asks \ {a} /\ u.timer = t.timer
      /\ u.asked = t.asked /\ u \in Threads
  BY DEF ThreadOK, Threads
<1> HIDE DEF u
<1>2. Numbered(u) /\ Scoped(kind, u)
  BY <1>1 DEF ThreadOK, Numbered, Scoped
<1> QED BY <1>1, <1>2 DEF ThreadOK, u

LEMMA TimerIsSet ==
    ASSUME NEW kind, NEW t, ThreadOK(kind, t), NEW id,
           id = Nothing \/ id \in 1 .. t.asked
    PROVE  ThreadOK(kind, [t EXCEPT !.timer = id])
<1> DEFINE u == [t EXCEPT !.timer = id]
<1>1. /\ u.messages = t.messages /\ u.asks = t.asks /\ u.timer = id
      /\ u.asked = t.asked /\ u \in Threads
  BY DEF ThreadOK, Threads
<1> HIDE DEF u
<1>2. Numbered(u) /\ Scoped(kind, u)
  BY <1>1 DEF ThreadOK, Numbered, Scoped
<1> QED BY <1>1, <1>2 DEF ThreadOK, u

\* What a call tells the message of its number.
Telling == [status : MessageStatuses \ {"user", "thinking"},
            grounds : SUBSET Ask!Docs, cites : SUBSET (Ask!Docs \cup Fixtures)]

LEMMA MessageIsTold ==
    ASSUME NEW kind, NEW t, ThreadOK(kind, t), NEW id \in 1 .. t.asked,
           NEW m \in Telling, NEW scope,
           \A i \in DOMAIN t.messages :
               t.messages[i].id = id => t.messages[i].scope = scope,
           kind = "chat" => m.grounds \subseteq InScope[scope] /\ m.cites \subseteq m.grounds
    PROVE  ThreadOK(kind, Ask!Patch(t, id, m))
<1> DEFINE ms == t.messages
           told(i) == IF ms[i].id = id
                      THEN [ms[i] EXCEPT !.status = m.status, !.grounds = m.grounds,
                                         !.cites = m.cites]
                      ELSE ms[i]
           new == [i \in DOMAIN ms |-> told(i)]
<1>1. \A i \in DOMAIN ms : ms[i] \in Messages
  BY LenProperties, ElementOfSeq DEF ThreadOK, Threads
<1>2. t.asked \in Nat /\ id # 0
  BY DEF ThreadOK, Threads
<1>3. ASSUME NEW i \in DOMAIN ms
      PROVE  /\ told(i) \in Messages /\ told(i).id = ms[i].id
             /\ told(i).asked = ms[i].asked /\ told(i).scope = ms[i].scope
             /\ told(i).id = 0 => told(i).status = ms[i].status
             /\ kind = "chat" => InItsScope(told(i))
  <2>0. ms[i] \in Messages
    BY <1>1
  <2>1. CASE ms[i].id = id
    <3>1. told(i) = [id |-> ms[i].id, asked |-> ms[i].asked, scope |-> ms[i].scope,
                     status |-> m.status, grounds |-> m.grounds, cites |-> m.cites]
      BY <2>0, <2>1 DEF Messages
    <3>2. ms[i].scope = scope
      BY <2>1
    <3> QED BY <1>2, <2>0, <2>1, <3>1, <3>2 DEF Messages, Telling, InItsScope
  <2>2. CASE ms[i].id # id
    BY <2>0, <2>2 DEF ThreadOK, Scoped
  <2> QED BY <2>1, <2>2
<1>4. Ask!Patch(t, id, m) = [t EXCEPT !.messages = new]
  BY DEF Ask!Patch, ThreadOK, Threads
<1> HIDE DEF told
<1>5. new \in [DOMAIN ms -> Messages]
  BY <1>3
<1>6. \A i \in DOMAIN ms :
          /\ new[i].id = ms[i].id /\ new[i].asked = ms[i].asked
          /\ new[i].scope = ms[i].scope
          /\ new[i].id = 0 => new[i].status = ms[i].status
          /\ kind = "chat" => InItsScope(new[i])
  BY <1>3
<1> HIDE DEF new, ms
<1>7. ThreadOK(kind, [t EXCEPT !.messages = new])
  BY <1>5, <1>6, MessagesChange DEF ms
<1> QED BY <1>4, <1>7

LEMMA AskMounts == AskOK(Ask!ChatPage) /\ \A d, n : AskOK(Ask!QaPage(d, n))
<1>1. /\ ThreadOK("chat", Ask!Thread) /\ ThreadOK("qa", Ask!Thread)
      /\ Called(Ask!Thread)
  <2>1. /\ Ask!Thread.messages = <<>> /\ Ask!Thread.asks = {}
        /\ Ask!Thread.timer = Nothing /\ Ask!Thread.asked = 0
        /\ Ask!Thread \in Threads
    BY DEF Ask!Thread, Threads
  <2>2. DOMAIN <<>> = {} /\ Len(<<>>) = 0
    OBVIOUS
  <2> QED BY <2>1, <2>2 DEF ThreadOK, Numbered, Paired, Scoped, Called
<1>2. /\ DOMAIN Ask!ChatPage = AskFields /\ Ask!ChatPage.kind = "chat"
      /\ Ask!ChatPage.scope = "All" /\ Ask!ChatPage.thread = Ask!Thread
  BY DEF Ask!ChatPage, AskFields
<1>3. ASSUME NEW d, NEW n
      PROVE  /\ DOMAIN Ask!QaPage(d, n) = AskFields /\ Ask!QaPage(d, n).kind = "qa"
             /\ Ask!QaPage(d, n).scope = "All" /\ Ask!QaPage(d, n).thread = Ask!Thread
  BY <1>2 DEF Ask!QaPage, AskFields
<1> QED BY <1>1, <1>2, <1>3 DEF AskOK, Scopings

\* A step of the thread alone, and one of all the rest.
LEMMA ThreadGoes ==
    ASSUME AskOK(st), NEW t, ThreadOK(st.kind, t), Called(t),
           st' = [st EXCEPT !.thread = t]
    PROVE  AskOK(st')
BY DEF AskOK, AskFields

LEMMA ThreadStays ==
    ASSUME AskOK(st), NEW s, DOMAIN s = DOMAIN st, s.kind = st.kind,
           s.thread = st.thread, s.scope \in Scopings
    PROVE  AskOK(s)
BY DEF AskOK

LEMMA AskEnds ==
    ASSUME AskOK(st), NEW a \in st.thread.asks, NEW m \in Telling, Ask!Ends(a, m),
           st.kind = "chat" =>
               m.grounds \subseteq InScope[a.scope] /\ m.cites \subseteq m.grounds
    PROVE  AskOK(st')
<1> DEFINE t == [st.thread EXCEPT !.asks = @ \ {a}]
           u == Ask!Patch(t, a.id, m)
<1>0. ThreadOK(st.kind, st.thread) /\ st.thread \in Threads /\ Called(st.thread)
  BY DEF AskOK, ThreadOK
<1>1. ThreadOK(st.kind, t) /\ t \in Threads
  BY <1>0, CallIsOver DEF ThreadOK
<1>2. /\ t.messages = st.thread.messages /\ t.asked = st.thread.asked
      /\ t.asks = st.thread.asks \ {a}
  BY <1>0 DEF Threads
<1>3. /\ a.id \in 1 .. t.asked
      /\ \A i \in DOMAIN t.messages :
             t.messages[i].id = a.id => t.messages[i].scope = a.scope
  BY <1>0, <1>2 DEF ThreadOK, Numbered, Scoped
<1> HIDE DEF t
<1>4. ThreadOK(st.kind, u)
  BY <1>1, <1>3, MessageIsTold
<1>5. u.asked = t.asked
  BY <1>1 DEF Ask!Patch, ThreadOK, Threads
<1>6. Called(u)
  <2>1. \A i \in DOMAIN t.messages : t.messages[i] \in Messages
    BY <1>1, LenProperties, ElementOfSeq DEF Threads
  <2>2. u.asks = t.asks /\ DOMAIN u.messages = DOMAIN t.messages
    BY <1>1 DEF Ask!Patch, Threads
  <2>3. ASSUME NEW i \in DOMAIN t.messages
        PROVE  /\ u.messages[i].id = t.messages[i].id
               /\ u.messages[i].status =
                      IF t.messages[i].id = a.id THEN m.status ELSE t.messages[i].status
    BY <1>1, <2>1 DEF Ask!Patch, Threads, Messages
  <2>4. m.status # "thinking"
    BY DEF Telling
  <2> HIDE DEF u
  <2> QED BY <1>0, <1>2, <2>2, <2>3, <2>4 DEF Called
<1> HIDE DEF u
<1>7. /\ ThreadOK(st.kind, [u EXCEPT !.timer = a.id])
      /\ Called([u EXCEPT !.timer = a.id])
  BY <1>3, <1>4, <1>5, <1>6, TimerIsSet DEF ThreadOK, Threads, Called
<1>8. st' = [st EXCEPT !.thread =
                 IF m.status = "streaming" THEN [u EXCEPT !.timer = a.id] ELSE u]
  BY DEF Ask!Ends, Ask!thread, t, u
<1> QED BY <1>4, <1>6, <1>7, <1>8, ThreadGoes

LEMMA AskGoes ==
    ASSUME AskOK(st), NEW a \in st.thread.asks, NEW b \in Questions,
           b.id = a.id, b.scope = a.scope, Ask!Goes(a, b),
           st.kind = "chat" => b.among \cup b.found \subseteq InScope[b.scope]
    PROVE  AskOK(st')
<1> DEFINE t == st.thread
           u == [t EXCEPT !.asks = (@ \ {a}) \cup {b}]
<1>0. ThreadOK(st.kind, t) /\ Called(t)
  BY DEF AskOK
<1>1. /\ u.messages = t.messages /\ u.asks = (t.asks \ {a}) \cup {b}
      /\ u.timer = t.timer /\ u.asked = t.asked /\ u \in Threads
  BY <1>0 DEF ThreadOK, Threads
<1>2. st' = [st EXCEPT !.thread = u]
  BY DEF Ask!Goes, AskOK, AskFields
<1> HIDE DEF u
<1>3. Numbered(u)
  BY <1>0, <1>1 DEF ThreadOK, Numbered
<1>4. Scoped(st.kind, u)
  BY <1>0, <1>1 DEF ThreadOK, Scoped
<1>5. ThreadOK(st.kind, u)
  BY <1>0, <1>1, <1>3, <1>4 DEF ThreadOK
<1>6. Called(u)
  BY <1>0, <1>1 DEF Called
<1> QED BY <1>2, <1>5, <1>6, ThreadGoes

LEMMA AskProceeds ==
    ASSUME AskOK(st), NEW a \in st.thread.asks, Ask!Proceeds(a)
    PROVE  AskOK(st')
<1>0. a \in Questions /\ ThreadOK(st.kind, st.thread)
  BY DEF AskOK, ThreadOK, Threads
<1>1. \A status \in {"no-answer", "error", "streaming"} :
          /\ Ask!Told(status) \in Telling
          /\ Ask!Told(status).grounds = {} /\ Ask!Told(status).cites = {}
  BY DEF Ask!Told, Telling, MessageStatuses
<1>2. ASSUME NEW status \in {"no-answer", "error"}, Ask!Ends(a, Ask!Told(status))
      PROVE  AskOK(st')
  <2>1. /\ Ask!Told(status).grounds \subseteq InScope[a.scope]
        /\ Ask!Told(status).cites \subseteq Ask!Told(status).grounds
    BY <1>1
  <2> QED BY <1>1, <1>2, <2>1, AskEnds
<1>3. CASE Ask!LibraryLoads(a)
  <2>0. PICK rows \in Ask!Remembered :
            LET among == rows \cap InScope[a.scope]
            IN  IF among = {} THEN Ask!Ends(a, Ask!Told("no-answer"))
                ELSE Ask!Goes(a, [a EXCEPT !.phase = "retrieve", !.among = among])
    BY <1>3 DEF Ask!LibraryLoads
  <2> DEFINE among == rows \cap InScope[a.scope]
  <2>1. CASE among = {}
    BY <1>2, <2>0, <2>1
  <2>2. CASE among # {}
    <3> DEFINE b == [a EXCEPT !.phase = "retrieve", !.among = among]
    <3>1. Ask!Goes(a, b)
      BY <2>0, <2>2
    <3>2. among \subseteq Ask!Docs /\ among \subseteq InScope[a.scope]
      BY DEF Ask!Remembered, Ask!Uploaded
    <3>3. /\ b \in Questions /\ b.id = a.id /\ b.scope = a.scope
          /\ b.among = among /\ b.found = a.found
      BY <1>0, <3>2 DEF Questions
    <3>4. st.kind = "chat" => a.found \subseteq InScope[a.scope]
      BY <1>0 DEF ThreadOK, Scoped
    <3> HIDE DEF b, among
    <3> QED BY <3>1, <3>2, <3>3, <3>4, AskGoes
  <2> QED BY <2>1, <2>2
<1>4. CASE \E found \in SUBSET Ask!Docs : Ask!Retrieves(a, found)
  <2>1. PICK found \in SUBSET Ask!Docs : Ask!Retrieves(a, found)
    BY <1>4
  <2> DEFINE kept == Ask!Keep(a, found)
  <2>2. CASE Ask!Goes(a, [a EXCEPT !.phase = "generate", !.found = kept])
    <3> DEFINE b == [a EXCEPT !.phase = "generate", !.found = kept]
    <3>1. st.kind = "chat" => a.among \subseteq InScope[a.scope]
      BY <1>0 DEF ThreadOK, Scoped
    <3>2. /\ kept \subseteq Ask!Docs
          /\ st.kind = "chat" => kept \subseteq InScope[a.scope]
      BY <3>1 DEF Ask!Keep
    <3>3. /\ b \in Questions /\ b.id = a.id /\ b.scope = a.scope
          /\ b.among = a.among /\ b.found = kept
      BY <1>0, <3>2 DEF Questions
    <3>4. Ask!Goes(a, b)
      BY <2>2
    <3> HIDE DEF b, kept
    <3> QED BY <3>1, <3>2, <3>3, <3>4, AskGoes
  <2>3. CASE st.kind = "qa" /\ \E cites \in SUBSET Fixtures \ {{}} :
                 Ask!Ends(a, [Ask!Told("streaming") EXCEPT !.cites = cites])
    <3>1. PICK cites \in SUBSET Fixtures :
              Ask!Ends(a, [Ask!Told("streaming") EXCEPT !.cites = cites])
      BY <2>3
    <3>2. [Ask!Told("streaming") EXCEPT !.cites = cites] \in Telling
      BY DEF Ask!Told, Telling, MessageStatuses
    <3>3. st.kind # "chat"
      BY <2>3
    <3> QED BY <3>1, <3>2, <3>3, AskEnds
  <2>4. CASE Ask!Ends(a, Ask!Told("no-answer"))
    BY <1>2, <2>4
  <2> QED BY <2>1, <2>2, <2>3, <2>4 DEF Ask!Retrieves
<1>5. CASE \E refused \in BOOLEAN, cited \in SUBSET Ask!Docs : Ask!Generates(a, refused, cited)
  <2>1. PICK refused \in BOOLEAN, cited \in SUBSET Ask!Docs : Ask!Generates(a, refused, cited)
    BY <1>5
  <2>2. CASE refused
    BY <1>2, <2>1, <2>2 DEF Ask!Generates
  <2>3. CASE ~ refused
    <3> DEFINE m == [status |-> "streaming", grounds |-> a.found,
                     cites |-> IF st.kind = "chat" THEN cited ELSE {}]
    <3>1. Ask!Ends(a, m) /\ cited \subseteq a.found
      BY <2>1, <2>3 DEF Ask!Generates
    <3>2. m \in Telling /\ m.grounds = a.found /\ m.cites \subseteq a.found
      BY <1>0, <3>1 DEF Questions, Telling, MessageStatuses
    <3>3. st.kind = "chat" => a.found \subseteq InScope[a.scope]
      BY <1>0 DEF ThreadOK, Scoped
    <3> HIDE DEF m
    <3> QED BY <3>1, <3>2, <3>3, AskEnds
  <2> QED BY <2>2, <2>3
<1>6. CASE Ask!AskFails(a)
  BY <1>2, <1>6 DEF Ask!AskFails
<1> QED BY <1>3, <1>4, <1>5, <1>6 DEF Ask!Proceeds

\* Answers that are over keep their place, and what they have said.
Over(messages, some) ==
    [i \in DOMAIN messages |-> IF i \in some THEN [messages[i] EXCEPT !.status = "done"]
                               ELSE messages[i]]

LEMMA AnswersAreOver ==
    ASSUME NEW kind, NEW t, ThreadOK(kind, t), NEW some \in SUBSET DOMAIN t.messages,
           \A i \in some : t.messages[i].id # 0
    PROVE  LET over == [t EXCEPT !.timer = Nothing, !.messages = Over(@, some)]
           IN  ThreadOK(kind, over) /\ (Called(t) => Called(over))
<1> DEFINE ms == t.messages
           new == Over(ms, some)
           u == [t EXCEPT !.messages = new]
<1>1. \A i \in DOMAIN ms : ms[i] \in Messages
  BY LenProperties, ElementOfSeq DEF ThreadOK, Threads
<1>2. \A i \in DOMAIN ms : kind = "chat" => InItsScope(ms[i])
  BY DEF ThreadOK, Scoped
<1>3. ASSUME NEW i \in DOMAIN ms
      PROVE  /\ new[i] \in Messages /\ new[i].id = ms[i].id
             /\ new[i].asked = ms[i].asked /\ new[i].scope = ms[i].scope
             /\ new[i].id = 0 => new[i].status = ms[i].status
             /\ kind = "chat" => InItsScope(new[i])
  <2>1. CASE i \in some
    <3>1. new[i] = [id |-> ms[i].id, asked |-> ms[i].asked, scope |-> ms[i].scope,
                    status |-> "done", grounds |-> ms[i].grounds, cites |-> ms[i].cites]
      BY <1>1, <2>1 DEF Over, Messages
    <3> QED BY <1>1, <1>2, <2>1, <3>1 DEF Messages, MessageStatuses, InItsScope
  <2>2. CASE i \notin some
    BY <1>1, <1>2, <2>2 DEF Over
  <2> QED BY <2>1, <2>2
<1>4. new \in [DOMAIN ms -> Messages]
  BY <1>3 DEF Over
<1>5. ThreadOK(kind, u)
  BY <1>3, <1>4, MessagesChange
<1>6. ThreadOK(kind, [u EXCEPT !.timer = Nothing])
  BY <1>5, TimerIsSet
<1>7. [t EXCEPT !.timer = Nothing, !.messages = Over(@, some)] = [u EXCEPT !.timer = Nothing]
  BY DEF ThreadOK, Threads
<1>8. ASSUME Called(t) PROVE Called([u EXCEPT !.timer = Nothing])
  <2> DEFINE v == [u EXCEPT !.timer = Nothing]
  <2>1. v.messages = new /\ v.asks = t.asks /\ DOMAIN new = DOMAIN ms
    BY <1>4 DEF ThreadOK, Threads
  <2>2. ASSUME NEW i \in DOMAIN ms, new[i].status = "thinking"
        PROVE  new[i].id = ms[i].id /\ ms[i].status = "thinking"
    <3>1. i \in some => new[i].status = "done"
      BY <1>1 DEF Over, Messages
    <3>2. i \notin some => new[i] = ms[i]
      BY DEF Over
    <3> QED BY <2>2, <3>1, <3>2
  <2> HIDE DEF v, new
  <2> QED BY <1>8, <2>1, <2>2 DEF Called, v
<1> QED BY <1>6, <1>7, <1>8

LEMMA ThreadIsStopped ==
    ASSUME NEW kind, NEW t, ThreadOK(kind, t)
    PROVE  ThreadOK(kind, Ask!Stopped(t)) /\ (Called(t) => Called(Ask!Stopped(t)))
<1> DEFINE some == {i \in DOMAIN t.messages : Ask!Going(t.messages[i])}
<1>1. \A i \in some : t.messages[i].id # 0
  BY DEF Ask!Going, ThreadOK, Paired
<1>2. Ask!Stopped(t) = [t EXCEPT !.timer = Nothing, !.messages = Over(@, some)]
  BY DEF Ask!Stopped, Over
<1>3. some \in SUBSET DOMAIN t.messages
  OBVIOUS
<1> HIDE DEF some
<1>4. LET over == [t EXCEPT !.timer = Nothing, !.messages = Over(@, some)]
      IN  ThreadOK(kind, over) /\ (Called(t) => Called(over))
  BY <1>1, <1>3, AnswersAreOver
<1> QED BY <1>2, <1>4

LEMMA AskLoads == ASSUME AskOK(st), Ask!Loads PROVE AskOK(st')
<1>1. PICK v : st' = [st EXCEPT !.count = v]
  BY DEF Ask!Loads, Ask!ScopeAnswers, Ask!ScopeFails
<1> QED BY <1>1, ThreadStays DEF AskOK, AskFields

LEMMA AskAnswers == ASSUME AskOK(st), Ask!Answers PROVE AskOK(st')
<1>1. CASE \E a \in st.thread.asks : Ask!Proceeds(a)
  BY <1>1, AskProceeds
<1>2. CASE Ask!Streamed
  <2> DEFINE t == st.thread
             some == {i \in DOMAIN t.messages : t.messages[i].id = t.timer}
  <2>1. ThreadOK(st.kind, t) /\ Called(t) /\ t.timer # Nothing
    BY <1>2 DEF AskOK, Ask!Streamed, Ask!thread
  <2>2. t.timer # 0
    BY <2>1 DEF ThreadOK, Threads, Numbered
  <2>3. \A i \in some : t.messages[i].id # 0
    BY <2>2
  <2>4. st' = [st EXCEPT !.thread = [t EXCEPT !.timer = Nothing, !.messages = Over(@, some)]]
    <3>1. DOMAIN t = {"messages", "asks", "timer", "asked"} /\ DOMAIN st = AskFields
      BY <2>1 DEF AskOK, ThreadOK, Threads
    <3>2. \A i \in DOMAIN t.messages : t.messages[i] \in Messages
      BY <2>1, LenProperties, ElementOfSeq DEF ThreadOK, Threads
    <3>3. Over(t.messages, some) =
              [i \in DOMAIN t.messages |-> [t.messages[i] EXCEPT !.status =
                  IF t.messages[i].id = t.timer THEN "done" ELSE @]]
      BY <3>2 DEF Over, Messages
    <3> QED BY <1>2, <3>1, <3>3 DEF Ask!Streamed, Ask!thread, AskFields
  <2>5. LET over == [t EXCEPT !.timer = Nothing, !.messages = Over(@, some)]
        IN  ThreadOK(st.kind, over) /\ Called(over)
    BY <2>1, <2>3, AnswersAreOver
  <2> QED BY <2>4, <2>5, ThreadGoes
<1> QED BY <1>1, <1>2 DEF Ask!Answers, Ask!thread

LEMMA AskLooks == ASSUME AskOK(st), Ask!Looking PROVE AskOK(st')
<1> USE DEF AskFields
<1>0. DOMAIN st = AskFields /\ st.scope \in Scopings
  BY DEF AskOK
<1>1. CASE \E i \in DOMAIN Ask!thread.messages : \E c : Ask!ToggleCite(i, c)
  BY <1>0, <1>1, ThreadStays DEF Ask!ToggleCite
<1>2. CASE \E scope \in Scopes : Ask!PickScope(scope)
  BY <1>0, <1>2, ThreadStays DEF Ask!PickScope, Scopings
<1>3. CASE \E page : Ask!Turn(page)
  BY <1>0, <1>3, ThreadStays DEF Ask!Turn
<1> QED BY <1>1, <1>2, <1>3 DEF Ask!Looking

LEMMA AskActs == ASSUME AskOK(st), Ask!Acting PROVE AskOK(st')
<1> USE DEF AskFields
<1> DEFINE t == st.thread
<1>0. /\ DOMAIN st = AskFields /\ st.scope \in Scopings /\ ThreadOK(st.kind, t)
      /\ t \in Threads /\ Called(t)
  BY DEF AskOK, ThreadOK
<1>1. CASE Ask!send
  <2>1. st' = [st EXCEPT !.thread = Ask!Sent(t, st.scope)]
    BY <1>1 DEF Ask!send
  <2> QED BY <1>0, <2>1, QuestionIsPut, ThreadGoes
<1>2. CASE Ask!stop
  <2>1. st' = [st EXCEPT !.thread = Ask!Stopped(t)]
    BY <1>2 DEF Ask!stop
  <2> QED BY <1>0, <2>1, ThreadIsStopped, ThreadGoes
<1>3. CASE Ask!clear
  <2> DEFINE u == [Ask!Stopped(t) EXCEPT !.messages = <<>>]
  <2>1. ThreadOK(st.kind, Ask!Stopped(t))
    BY <1>0, ThreadIsStopped
  <2>2. /\ u.messages = <<>> /\ u.asks = t.asks /\ u.timer = Nothing
        /\ u.asked = t.asked /\ u \in Threads
    <3>1. Ask!Stopped(t) \in Threads
      BY <2>1 DEF ThreadOK
    <3>2. /\ Ask!Stopped(t).asks = t.asks /\ Ask!Stopped(t).timer = Nothing
          /\ Ask!Stopped(t).asked = t.asked
      BY <1>0 DEF Ask!Stopped, Threads
    <3>3. <<>> \in Seq(Messages)
      OBVIOUS
    <3> HIDE DEF t
    <3> QED BY <3>1, <3>2, <3>3 DEF Threads
  <2>3. DOMAIN <<>> = {} /\ Len(<<>>) = 0
    OBVIOUS
  <2> HIDE DEF u
  <2>4. ThreadOK(st.kind, u) /\ Called(u)
    BY <1>0, <2>2, <2>3 DEF ThreadOK, Numbered, Paired, Scoped, Called
  <2>5. st' = [st EXCEPT !.thread = u, !.cite = Nothing]
    BY <1>3 DEF Ask!clear, u
  <2> QED BY <1>0, <2>4, <2>5 DEF AskOK
<1>4. CASE \E i \in DOMAIN Ask!thread.messages : Ask!retry(i)
  <2>1. PICK i \in DOMAIN t.messages : Ask!retry(i)
    BY <1>4 DEF Ask!thread
  <2>2. t.messages[i].status = "error"
    BY <2>1 DEF Ask!retry, Ask!thread, Ask!Bubble
  <2>3. t.messages \in Seq(Messages) /\ i \in 1 .. Len(t.messages)
    BY <1>0, LenProperties DEF Threads
  <2>4. i % 2 = 0
    BY <1>0, <2>2, <2>3 DEF ThreadOK, Paired
  <2> DEFINE u == [t EXCEPT !.messages = Ask!Drop(@, i)]
  <2>5. ThreadOK(st.kind, u) /\ Called(u)
    BY <1>0, <2>4, ExchangeIsDropped
  <2>6. st' = [st EXCEPT !.thread = Ask!Sent(u, st.scope)]
    BY <2>1 DEF Ask!retry, Ask!thread
  <2> HIDE DEF u
  <2> QED BY <1>0, <2>5, <2>6, QuestionIsPut, ThreadGoes
<1> QED BY <1>1, <1>2, <1>3, <1>4 DEF Ask!Acting

-----------------------------------------------------------------------------
(***************************************************************************)
(* The workspace: the page that is open is as its own lemmas have it.      *)
(***************************************************************************)
PageOK(page, s) ==
    /\ page = "list" => ListOK(s)
    /\ page = "detail" => DetailOK(s)
    /\ page \in {"chat", "qa"} => AskOK(s)

WorkspaceInv == PageOK(mounted, st)

LEMMA PagesMount ==
    ASSUME NEW to, to.page \in {"dashboard", "list", "detail", "chat", "qa"}
    PROVE  PageOK(to.page, Arriving(to))
<1>1. CASE to.page = "list"
  <2>1. Arriving(to) = List!Fresh
    BY <1>1 DEF Arriving
  <2> QED BY <1>1, <2>1, ListMounts DEF PageOK
<1>2. CASE to.page = "detail"
  <2>1. Arriving(to) = Detail!FreshOf(to.doc)
    BY <1>2 DEF Arriving
  <2> QED BY <1>2, <2>1, DetailMounts DEF PageOK
<1>3. CASE to.page = "chat"
  <2>1. Arriving(to) = Ask!ChatPage
    BY <1>3 DEF Arriving
  <2> QED BY <1>3, <2>1, AskMounts DEF PageOK
<1>4. CASE to.page = "qa"
  <2>1. Arriving(to) = Ask!QaPage(to.doc, 1)
    BY <1>4 DEF Arriving
  <2> QED BY <1>4, <2>1, AskMounts DEF PageOK
<1>5. CASE to.page = "dashboard"
  BY <1>5 DEF PageOK
<1> QED BY <1>1, <1>2, <1>3, <1>4, <1>5

LEMMA LinksAreOfPages ==
    ASSUME NEW to \in Linked
    PROVE  to.page \in {"dashboard", "list", "detail", "chat", "qa"}
BY DEF Linked, To

\* A page stays as it should, whatever its user and the servers do.
LEMMA PagesStep ==
    ASSUME WorkspaceInv, mounted' = mounted, Looks \/ Acts \/ Hears
    PROVE  WorkspaceInv'
<1>1. CASE mounted = "list"
  <2>1. ListOK(st)
    BY <1>1 DEF WorkspaceInv, PageOK
  <2>2. List!Looking \/ List!Acting \/ List!Loads \/ List!Answers
    BY <1>1 DEF Looks, Acts, Hears, On
  <2>3. ListOK(st')
    BY <2>1, <2>2, ListLooks, ListActs, ListLoads, ListAnswers
  <2> QED BY <1>1, <2>3 DEF WorkspaceInv, PageOK
<1>2. CASE mounted = "detail"
  <2>1. DetailOK(st)
    BY <1>2 DEF WorkspaceInv, PageOK
  <2>2. Detail!Looking \/ Detail!Acting \/ Detail!Loads \/ Detail!Answers
    BY <1>2 DEF Looks, Acts, Hears, On
  <2>3. DetailOK(st')
    BY <2>1, <2>2, DetailLooks, DetailActs, DetailLoads, DetailAnswers
  <2> QED BY <1>2, <2>3 DEF WorkspaceInv, PageOK
<1>3. CASE mounted \in {"chat", "qa"}
  <2>1. AskOK(st)
    BY <1>3 DEF WorkspaceInv, PageOK
  <2>2. Ask!Looking \/ Ask!Acting \/ Ask!Loads \/ Ask!Answers
    BY <1>3 DEF Looks, Acts, Hears, On
  <2>3. AskOK(st')
    BY <2>1, <2>2, AskLooks, AskActs, AskLoads, AskAnswers
  <2> QED BY <1>3, <2>3 DEF WorkspaceInv, PageOK
<1>4. CASE mounted \notin {"list", "detail", "chat", "qa"}
  BY <1>4 DEF WorkspaceInv, PageOK
<1> QED BY <1>1, <1>2, <1>3, <1>4

\* WorkspaceInv is an inductive invariant of the workspace.
THEOREM WorkspaceInvariance == Spec => []WorkspaceInv
<1>1. Init => WorkspaceInv
  BY DEF Init, WorkspaceInv, PageOK
<1>2. WorkspaceInv /\ [Next]_vars => WorkspaceInv'
  <2> SUFFICES ASSUME WorkspaceInv, [Next]_vars PROVE WorkspaceInv'
    OBVIOUS
  <2>1. CASE \E to \in Linked : Follow(to)
    <3>1. PICK to \in Linked : mounted' = to.page /\ st' = Arriving(to)
      BY <2>1 DEF Follow
    <3>2. PageOK(to.page, Arriving(to))
      BY LinksAreOfPages, PagesMount
    <3> QED BY <3>1, <3>2 DEF WorkspaceInv
  <2>2. CASE Elsewhere
    BY <2>2 DEF Elsewhere, WorkspaceInv
  <2>3. CASE Moves
    BY <2>3, PagesStep DEF Moves
  <2>4. CASE Hears
    BY <2>4, PagesStep DEF Hears
  <2>5. CASE UNCHANGED vars
    BY <2>5 DEF vars, WorkspaceInv
  <2> QED BY <2>1, <2>2, <2>3, <2>4, <2>5 DEF Next
<1> QED BY <1>1, <1>2, PTL DEF Spec

\* What the table of the list was loaded for is what its controls show: the
\* search, which is debounced, the filter, the order and the page.
THEOREM TableIsOfItsQuery == Spec => []PageIsOfTheQuery
<1>1. WorkspaceInv => PageIsOfTheQuery
  BY DEF WorkspaceInv, PageOK, ListOK, PageIsOfTheQuery, List!PageIsOfTheQuery
<1> QED BY <1>1, WorkspaceInvariance, PTL

\* The button that reprocesses a document cannot be used twice, however
\* often its dialog is opened while the first request is under way.
THEOREM ReprocessesOneAtATime == Spec => []OneReprocessAtATime
<1>1. WorkspaceInv => OneReprocessAtATime
  <2> SUFFICES ASSUME WorkspaceInv, mounted = "detail"
               PROVE  Detail!OneReprocessAtATime
    BY DEF OneReprocessAtATime
  <2>1. st.reprocess.runs = {} \/ st.reprocess.runs = {1}
    BY DEF WorkspaceInv, PageOK, DetailOK, ReprocessOK
  <2>2. Cardinality({}) = 0 /\ Cardinality({1}) = 1
    BY FS_EmptySet, FS_Singleton
  <2>3. Cardinality(st.reprocess.runs) <= 1
    BY <2>1, <2>2
  <2> QED BY <2>3, Zenon DEF Detail!OneReprocessAtATime, Detail!Cardinality, Cardinality
<1> QED BY <1>1, WorkspaceInvariance, PTL

\* Chat answers from the scope of the question, for every number of
\* questions, in every order in which they are answered.
THEOREM AnswersKeepToTheirScope == Spec => []AnswersStayInScope
<1>1. WorkspaceInv => AnswersStayInScope
  BY DEF WorkspaceInv, PageOK, AskOK, ThreadOK, Scoped, InItsScope,
         AnswersStayInScope, Ask!AnswersStayInScope, Ask!thread
<1> QED BY <1>1, WorkspaceInvariance, PTL

\* Questions and answers alternate, and an answer has the number of the
\* question over it, whatever is retried, cleared or answered late.
THEOREM AnswersFollowTheirQuestions == Spec => []EveryAnswerFollowsItsQuestion
<1>1. WorkspaceInv => EveryAnswerFollowsItsQuestion
  BY DEF WorkspaceInv, PageOK, AskOK, ThreadOK, Paired,
         EveryAnswerFollowsItsQuestion, Ask!EveryAnswerFollowsItsQuestion, Ask!thread
<1> QED BY <1>1, WorkspaceInvariance, PTL

\* No question is left without its call: while a message shows as thinking,
\* the call that is to patch it is under way (useChatEngine).
EveryQuestionIsUnderWay ==
    mounted \in {"chat", "qa"} =>
        \A i \in DOMAIN st.thread.messages :
            st.thread.messages[i].status = "thinking" =>
                \E a \in st.thread.asks : a.id = st.thread.messages[i].id

\* Whatever is sent, stopped, cleared and retried while other calls go on: a
\* call that ends leaves no message of its number thinking.  This is the
\* safety half of QuestionsAreAnswered.
THEOREM NoQuestionIsForgotten == Spec => []EveryQuestionIsUnderWay
<1>1. WorkspaceInv => EveryQuestionIsUnderWay
  BY DEF WorkspaceInv, PageOK, AskOK, Called, EveryQuestionIsUnderWay
<1> QED BY <1>1, WorkspaceInvariance, PTL

=============================================================================
