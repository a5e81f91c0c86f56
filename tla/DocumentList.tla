---------------------------- MODULE DocumentList ----------------------------
(***************************************************************************)
(* app/(dash)/documents/documents-view.tsx: the table of documents, its    *)
(* filters, its selection and what can be done to it.                      *)
(*                                                                         *)
(* `st' is the state of the screen: its query, the useAsync that loads the *)
(* page of it, the library as the first of the service's pages showed it   *)
(* to the request under way, the selection, the dialog, and the useActions.*)
(* A confirm dialog is modal.  Deleting and reprocessing are not supported *)
(* by the service: they ask for the library and then report every document *)
(* as failed.                                                              *)
(***************************************************************************)
EXTENDS ServerDocuments, UseAsync, Transport

CONSTANTS
    SIZES,     \* the page sizes on offer, the first the default
    Terminal,  \* documents whose failure is not retryable
    MaxRuns    \* bound: the calls of one action under way

VARIABLES library, st

-----------------------------------------------------------------------------
Query(s) == [search |-> s.search, filter |-> s.filter, sort |-> s.sort,
             page |-> s.page, pageSize |-> s.pageSize]

\* Of its useActions the screen only reads whether they are pending: one is
\* from the start of a call to the next answer, of whichever call.
NoRuns == [pending |-> FALSE, runs |-> {}]
Started(action, run) == [pending |-> TRUE, runs |-> action.runs \cup {run}]
Ended(action, run) == [pending |-> FALSE, runs |-> action.runs \ {run}]

\* Mutant: a dependency is left out of the list.
DepsUnsorted(s) == [Query(s) EXCEPT !.sort = "desc"]

\* The dependencies of the useAsync, as listed.
Deps(s) == Query(s)

Fresh ==
    LET asked == [Everything(SIZES[1]) EXCEPT !.page = 1]
    IN  [rawQuery |-> Blank, search |-> Blank, filter |-> "All",
         sort |-> "desc", page |-> 1, pageSize |-> SIZES[1],
         docs |-> Mounted(asked), first |-> Nothing,
         sel |-> {}, confirm |-> "none",
         deletes |-> NoRuns, reprocesses |-> NoRuns, exports |-> NoRuns]

Reload(s) == [s EXCEPT !.docs = Rerun(@, Query(s)), !.first = Nothing]

\* Render `s': the loader runs again if a dependency has changed.
Renders(s) == st' = IF Deps(s) = Deps(st) THEN s ELSE Reload(s)

data == st.docs.data
rows == IF data = Nothing THEN <<>> ELSE data.rows
total == IF data = Nothing THEN 0 ELSE data.total
unfiltered == IF data = Nothing THEN 0 ELSE data.unfilteredTotal
pageCount == IF data = Nothing THEN 1 ELSE data.pageCount
onPage == {rows[i].id : i \in DOMAIN rows}
filtersActive == st.filter # "All" \/ st.search # Blank
allSelected == onPage # {} /\ onPage \subseteq st.sel
pending(action) == action.pending
busy == st.docs.status = "loading" \/ pending(st.deletes) \/ pending(st.reprocesses)
free == st.confirm = "none"

\* The panel under the filter bar.
Panel ==
    CASE st.docs.status = "error"   -> "error"
      [] st.docs.status = "loading" -> "skeleton"
      [] unfiltered = 0             -> "no documents"
      [] total = 0                  -> "no results"
      [] OTHER                      -> "table"

\* What can be done in the header and in the filter bar, and in the panel.
Header == IF unfiltered = 0 \/ pending(st.exports) THEN {} ELSE {"export"}
FilterBar == {"search", "filter"} \cup (IF filtersActive THEN {"clear"} ELSE {})
InPanel == CASE Panel = "error"      -> ErrorPanel(TRUE)
             [] Panel = "no results" -> {"clear"}
             [] Panel = "table"      -> {"sort", "size", "turn", "select"}
             [] OTHER                -> {}

\* The bar over the table while something is selected.
BulkBar ==
    IF Panel # "table" \/ st.sel = {} THEN {}
    ELSE {"deselect"} \cup (IF busy THEN {} ELSE {"reprocess", "delete"})
                      \cup (IF pending(st.exports) THEN {} ELSE {"export"})

\* The confirm dialog that is open.
Dialog ==
    CASE st.confirm = "delete"    -> ConfirmDialog(TRUE, pending(st.deletes))
      [] st.confirm = "reprocess" -> ConfirmDialog(TRUE, pending(st.reprocesses))
      [] OTHER                    -> {}

-----------------------------------------------------------------------------
(***************************************************************************)
(* The answers of the loader, and the poll.                                *)
(***************************************************************************)
ReadFirst ==
    /\ Loading(st.docs) /\ st.first = Nothing /\ ~ TooLarge(library)
    /\ st' = [st EXCEPT !.first = library]
    /\ UNCHANGED library

Answer ==
    /\ Loading(st.docs) /\ st.first # Nothing
    /\ \E all \in {FetchAll(st.first, library)} :
           st' = [st EXCEPT !.first = Nothing,
                            !.docs = Answered(@, ApplyQuery(all, st.docs.dep))]
    /\ UNCHANGED library

Fail ==
    /\ Loading(st.docs)
    /\ st' = [st EXCEPT !.first = Nothing, !.docs = Failed(@)]
    /\ UNCHANGED library

\* Mutant: the poll stops with the first error.
PollsWhenReady == /\ st.docs.status # "error"
                  /\ \E i \in DOMAIN rows : rows[i].status \in InPipeline

\* The effect's interval lives as long as the page loaded last has a row
\* that is still in the pipeline.
Polls == \E i \in DOMAIN rows : rows[i].status \in InPipeline

Poll == Polls /\ st' = Reload(st) /\ UNCHANGED library

Retry ==
    /\ "retry" \in InPanel /\ free
    /\ st' = [st EXCEPT !.docs = Retried(@), !.first = Nothing]
    /\ UNCHANGED library

-----------------------------------------------------------------------------
(***************************************************************************)
(* The filter bar and the footer.                                          *)
(***************************************************************************)
Type(text) ==
    /\ free /\ "search" \in FilterBar /\ text # st.rawQuery
    /\ Renders([st EXCEPT !.rawQuery = text, !.page = 1])
    /\ UNCHANGED library

Debounced ==
    /\ st.search # st.rawQuery
    /\ Renders([st EXCEPT !.search = st.rawQuery])
    /\ UNCHANGED library

Choose(filter) ==
    /\ free /\ "filter" \in FilterBar /\ filter # st.filter
    /\ Renders([st EXCEPT !.filter = filter, !.page = 1])
    /\ UNCHANGED library

ClearFilters ==
    /\ free /\ "clear" \in FilterBar \cup InPanel
    /\ Renders([st EXCEPT !.filter = "All", !.rawQuery = Blank, !.page = 1])
    /\ UNCHANGED library

\* HeaderRow's columns can be pressed when the table is shown.
ToggleSort ==
    /\ free /\ "sort" \in InPanel
    /\ Renders([st EXCEPT !.sort = IF @ = "desc" THEN "asc" ELSE "desc"])
    /\ UNCHANGED library

ChangeSize(n) ==
    /\ free /\ "size" \in InPanel /\ n # st.pageSize
    /\ Renders([st EXCEPT !.pageSize = n, !.page = 1])
    /\ UNCHANGED library

\* pageWindow: the first, the last and the neighbours, all if they are few.
PageWindow(page, count) ==
    IF count <= 6 THEN 1 .. count
    ELSE {1, count} \cup (Largest(2, page - 1) .. Least(count - 1, page + 1))

TurnTo(n) ==
    /\ free /\ "turn" \in InPanel /\ n # st.page
    /\ \/ n \in PageWindow(st.page, pageCount)
       \/ n = st.page - 1 /\ st.page > 1
       \/ n = st.page + 1 /\ st.page < pageCount
    /\ Renders([st EXCEPT !.page = n])
    /\ UNCHANGED library

-----------------------------------------------------------------------------
(***************************************************************************)
(* The selection, the bulk bar and the dialogs.                            *)
(***************************************************************************)
Toggle(d) ==
    /\ free /\ "select" \in InPanel /\ d \in onPage
    /\ st' = [st EXCEPT !.sel = IF d \in @ THEN @ \ {d} ELSE @ \cup {d}]
    /\ UNCHANGED library

ToggleAll ==
    /\ free /\ "select" \in InPanel
    /\ st' = [st EXCEPT !.sel = IF allSelected THEN {} ELSE onPage]
    /\ UNCHANGED library

\* "Deselect all", "Reprocess" and "Delete" of the bar.
UseBar(what) ==
    /\ free /\ what \in BulkBar
    /\ st' = IF what = "deselect" THEN [st EXCEPT !.sel = {}]
             ELSE [st EXCEPT !.confirm = what]
    /\ UNCHANGED library

\* A row is a link to its document; what its menu offers, and the "Retry"
\* of a failed one.
Final(row) == row.status = "failed" /\ row.id \in Terminal
Menu(row) ==
    {"open"} \cup (IF row.status = "completed" THEN {"export", "ask"} ELSE {})
        \cup (IF row.status # "processing" THEN {"delete"} ELSE {})
        \cup (IF row.status # "processing" /\ ~ Final(row) THEN {"reprocess"} ELSE {})
Strip(row) == IF row.status = "failed" /\ ~ Final(row) THEN {"retry"} ELSE {}
Offers(row) == {"open"} \cup Menu(row) \cup Strip(row)

CanRun(action) == Cardinality(action.runs) < MaxRuns

\* A call of an action: by the bar or by a row, for some documents.
By(who, ids) == [who |-> who, ids |-> ids]

UseRow(i, what) ==
    LET d == rows[i].id
    IN  /\ free /\ Panel = "table" /\ what \in Offers(rows[i])
        /\ \/ /\ what = "delete"
              /\ st' = [st EXCEPT !.sel = {d}, !.confirm = "delete"]
           \/ /\ what \in {"reprocess", "retry"} /\ CanRun(st.reprocesses)
              /\ st' = [st EXCEPT !.reprocesses = Started(@, By("row", {d}))]
           \/ /\ what = "export" /\ CanRun(st.exports)
              /\ st' = [st EXCEPT !.exports = Started(@, By("row", {d}))]
        /\ UNCHANGED library

\* "Export CSV" of the header and "Export" of the bar.
Export(all) ==
    /\ free /\ CanRun(st.exports)
    /\ "export" \in (IF all THEN Header ELSE BulkBar)
    /\ st' = [st EXCEPT !.exports = Started(@,
                             By("bar", IF all THEN Docs ELSE st.sel))]
    /\ UNCHANGED library

Cancel ==
    /\ "cancel" \in Dialog
    /\ st' = [st EXCEPT !.confirm = "none"]
    /\ UNCHANGED library

Confirm ==
    /\ "confirm" \in Dialog
    /\ \/ /\ st.confirm = "delete" /\ CanRun(st.deletes)
          /\ st' = [st EXCEPT !.deletes = Started(@, By("bar", st.sel))]
       \/ /\ st.confirm = "reprocess" /\ CanRun(st.reprocesses)
          /\ st' = [st EXCEPT !.reprocesses = Started(@, By("bar", st.sel))]
    /\ UNCHANGED library

\* The rest of runDelete and runReprocess, once their call has answered.
AfterBulk(s, ok) ==
    IF ok THEN Reload([s EXCEPT !.confirm = "none", !.sel = {}])
          ELSE [s EXCEPT !.confirm = "none"]

DeleteAnswers(run, ok) ==
    /\ run \in st.deletes.runs
    /\ st' = AfterBulk([st EXCEPT !.deletes = Ended(@, run)], ok)
    /\ UNCHANGED library

\* A row's onReprocess reloads whatever came of it.
ReprocessAnswers(run, ok) ==
    /\ run \in st.reprocesses.runs
    /\ LET s == [st EXCEPT !.reprocesses = Ended(@, run)]
       IN  st' = IF run.who = "row" THEN Reload(s) ELSE AfterBulk(s, ok)
    /\ UNCHANGED library

ExportAnswers(run) ==
    /\ run \in st.exports.runs
    /\ st' = [st EXCEPT !.exports = Ended(@, run)]
    /\ UNCHANGED library

-----------------------------------------------------------------------------
Loads == ReadFirst \/ Answer \/ Fail \/ Poll \/ Debounced

Looking ==
    \/ \E text \in Words : Type(text)
    \/ \E filter \in Filters : Choose(filter)
    \/ \E n \in {SIZES[i] : i \in DOMAIN SIZES} : ChangeSize(n)
    \/ \E n \in 1 .. pageCount + 1 : TurnTo(n)
    \/ Retry \/ ClearFilters \/ ToggleSort

Acting ==
    \/ \E d \in Docs : Toggle(d)
    \/ \E i \in DOMAIN rows, what \in {"delete", "reprocess", "retry", "export"} :
           UseRow(i, what)
    \/ \E what \in {"deselect", "delete", "reprocess"} : UseBar(what)
    \/ \E all \in BOOLEAN : Export(all)
    \/ ToggleAll \/ Cancel \/ Confirm

Answers ==
    \/ \E ok \in BOOLEAN :
           \/ \E run \in st.deletes.runs : DeleteAnswers(run, ok)
           \/ \E run \in st.reprocesses.runs : ReprocessAnswers(run, ok)
    \/ \E run \in st.exports.runs : ExportAnswers(run)

-----------------------------------------------------------------------------
\* A page that is not marked as being loaded is the page of the query the
\* controls show (the dependencies of the useAsync cover the query).
PageIsOfTheQuery ==
    st.docs.status = "ready" => st.docs.dep = Query(st)

\* A row that is still in the pipeline is read again until it has settled
\* (documents-view.tsx:235): it does not stay on the screen as processing
\* when the document has long been processed, whatever fails on the way.
StaleRow(d) ==
    /\ \E i \in DOMAIN rows : rows[i].id = d /\ rows[i].status \in InPipeline
    /\ library[d] \in Settled
=============================================================================
