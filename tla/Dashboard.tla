----------------------------- MODULE Dashboard -----------------------------
(***************************************************************************)
(* app/(dash)/dashboard/dashboard-view.tsx, and the route that computes it *)
(* from the library (app/api/dashboard/route.ts).  A document's risk and   *)
(* the time of its upload are constants; deltas are left out.              *)
(***************************************************************************)
EXTENDS ServerDocuments, UseAsync, Transport

CONSTANTS
    Ranges,       \* the periods on offer
    Within,       \* Within[range]: the documents uploaded in the period
    MAX_FLAGGED,  \* rows of the table of flagged documents
    Low, High     \* the documents with a low and with a high risk score

VARIABLES library, st

-----------------------------------------------------------------------------
\* riskGauge
Gauge(scored) ==
    [low |-> Cardinality(scored \cap Low), high |-> Cardinality(scored \cap High),
     elevated |-> Cardinality(scored \ (Low \cup High))]

\* What is shown as flagged: the newest of those that failed or are being
\* processed.  Nothing sets the verdict "Needs review" yet.
Flagged(all) ==
    LET rows == SelectSeq(all, LAMBDA row : row.status \in {"failed", "processing"})
    IN  SubSeq(rows, 1, Least(MAX_FLAGGED, Len(rows)))

\* buildDashboard
Built(all, range) ==
    LET in(status) == {i \in DOMAIN all : all[i].status = status}
        current == {i \in DOMAIN all : all[i].id \in Within[range]}
        scored == {all[i].id : i \in current \cap in("completed")} \cap (Low \cup High)
    IN  [volume |-> Cardinality(current),
         failed |-> Cardinality(current \cap in("failed")),
         awaiting |-> Cardinality(in("queued") \cup in("processing")),
         gauge |-> Gauge(scored), flagged |-> Flagged(all),
         degraded |-> current # {} /\ scored = {}]

-----------------------------------------------------------------------------
FirstRange == "30d"

FreshDashboard ==
    [range |-> FirstRange, dash |-> Mounted(FirstRange), first |-> Nothing,
     export |-> Idle]

built == st.dash.data
flaggedRows == IF built = Nothing THEN <<>> ELSE built.flagged

\* The upper panels and the lower ones, when there is something to show.
Metrics ==
    {"kpis", "gauge"} \cup (IF built.volume = 0 THEN {} ELSE {"chart"})
        \cup (IF built.degraded THEN {"degraded"} ELSE {})
Attention ==
    {"exceptions"} \cup (IF built.volume = 0 THEN {"no ingestion"} ELSE {})
        \cup (IF built.flagged = <<>> THEN {} ELSE {"flagged"})
Panels ==
    CASE st.dash.status = "error"   -> {"error"}
      [] st.dash.status = "loading" -> {"skeleton"}
      [] OTHER                      -> Metrics \cup Attention

\* What the header offers.
Header ==
    {"range"} \cup (IF Panels \cap {"error", "skeleton"} # {}
                       \/ st.export.status = "pending" THEN {} ELSE {"export"})

Reloads(s) == [s EXCEPT !.dash = Rerun(@, s.range), !.first = Nothing]

DashboardReads ==
    /\ Loading(st.dash) /\ st.first = Nothing /\ ~ TooLarge(library)
    /\ st' = [st EXCEPT !.first = library]
    /\ UNCHANGED library

DashboardAnswers ==
    /\ Loading(st.dash) /\ st.first # Nothing
    /\ \E all \in {FetchAll(st.first, library)} :
           st' = [st EXCEPT !.first = Nothing,
                            !.dash = Answered(@, Built(all, st.dash.dep))]
    /\ UNCHANGED library

DashboardFails ==
    /\ Loading(st.dash)
    /\ st' = [st EXCEPT !.first = Nothing, !.dash = Failed(@)]
    /\ UNCHANGED library

\* Mutant: the first row alone is looked at.
LiveFirst == flaggedRows # <<>> /\ flaggedRows[1].status \in InPipeline

live == \E i \in DOMAIN flaggedRows : flaggedRows[i].status \in InPipeline

DashboardPolls == live /\ st' = Reloads(st) /\ UNCHANGED library

\* "Try again" of the error, and of the panel that could not be computed.
DashboardRetries ==
    /\ \/ /\ "error" \in Panels /\ ErrorPanel(TRUE) # {}
          /\ st' = [st EXCEPT !.dash = Retried(@), !.first = Nothing]
       \/ "degraded" \in Panels /\ InlineError(TRUE) # {} /\ st' = Reloads(st)
    /\ UNCHANGED library

ChooseRange(range) ==
    /\ "range" \in Header /\ range # st.range
    /\ st' = Reloads([st EXCEPT !.range = range])
    /\ UNCHANGED library

runExport ==
    /\ "export" \in Header
    /\ st' = [st EXCEPT !.export = ActionStarted(@, st.range)]
    /\ UNCHANGED library

\* exportReport: the numbers are read for the range of the click.
ExportAnswers(ok) ==
    /\ st.export.runs # {}
    /\ \E run \in st.export.runs :
           st' = [st EXCEPT !.export = IF ok THEN ActionSucceeded(@, run, Nothing)
                                             ELSE ActionFailed(@, run)]
    /\ UNCHANGED library

Loads == DashboardReads \/ DashboardAnswers \/ DashboardFails \/ DashboardPolls
Answers == \E ok \in BOOLEAN : ExportAnswers(ok)
Looking == \E range \in Ranges : ChooseRange(range)
Acting == DashboardRetries \/ runExport

-----------------------------------------------------------------------------
\* A document that is shown as being processed on the dashboard is read
\* again until it is not, whatever fails on the way.
StaleFlag(d) ==
    /\ \E i \in DOMAIN flaggedRows :
           flaggedRows[i].id = d /\ flaggedRows[i].status = "processing"
    /\ library[d] \in Settled
=============================================================================
