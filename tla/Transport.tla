----------------------------- MODULE Transport -----------------------------
(***************************************************************************)
(* How a failure reaches a screen: a service fails, lib/server/backend.ts  *)
(* makes an envelope of it, a route answers with that, and lib/api.ts      *)
(* makes an ApiError of the answer, of which a screen reads whether there  *)
(* is a point in trying again; and what the panels of                      *)
(* components/documind/feedback.tsx then let the user do.                  *)
(***************************************************************************)

\* What a call can meet instead of an answer: no network between browser and
\* app, or a service that is not there, does not
\* answer within BACKEND_TIMEOUT_MS, stall within its answer, or answer with
\* an error.  An error has a status and a body, which is the envelope of
\* document-service, that of ai-service (both may say whether to retry), a
\* bare detail or error, or no JSON.
Bodies == {"envelope", "titled", "detail", "error", "none"}
Says == {"retryable", "final", "nothing"}

Faults ==
    [kind : {"network", "unreachable", "timeout", "stalls", "cancelled"}]
    \cup [kind : {"status"}, server : BOOLEAN, body : Bodies, says : Says]

Envelope(code, retryable, status) ==
    [code |-> code, retryable |-> retryable, status |-> status]

\* readError: `server' tells a status of 500 or more.
readError(fault) ==
    LET own == fault.body \in {"envelope", "titled"} /\ fault.says # "nothing"
    IN  Envelope("ERR_UPSTREAM", IF own THEN fault.says = "retryable"
                                        ELSE fault.server, "forwarded")

\* call: only fetch itself is in the try; the rest of an answer is not.
call(fault) ==
    CASE fault.kind = "cancelled"   -> Envelope("ERR_CANCELLED", FALSE, "499")
      [] fault.kind = "timeout"     -> Envelope("ERR_UPSTREAM_TIMEOUT", TRUE, "503")
      [] fault.kind = "unreachable" -> Envelope("ERR_UPSTREAM_UNREACHABLE", TRUE, "503")
      [] fault.kind = "status"      -> readError(fault)
      [] OTHER                      -> Envelope("thrown", FALSE, "thrown")

\* handle: what was thrown and is no BackendError is an error of ours.
handle(envelope) ==
    IF envelope.code = "thrown" THEN Envelope("ERR_INTERNAL", FALSE, "500")
    ELSE envelope

\* request: the browser cannot reach the app, or the route's envelope.
request(fault) ==
    IF fault.kind = "network" THEN Envelope("ERR_NETWORK", TRUE, "none")
    ELSE handle(call(fault))

\* The errors that a screen can be given for a document; a call that the
\* screen itself cancelled is dropped.
Failures == {request(fault) : fault \in {f \in Faults : f.kind # "cancelled"}}

-----------------------------------------------------------------------------
\* A panel of an error, of a page or inside one: a button if there is a point.
ErrorPanel(canRetry) == IF canRetry THEN {"retry"} ELSE {}
InlineError(canRetry) == ErrorPanel(canRetry)

\* The dialog is modal; while what it asked for is going on it has no button
\* that works, and a click beside it does nothing.
ConfirmDialog(open, pending) ==
    IF open /\ ~ pending THEN {"cancel", "confirm"} ELSE {}
=============================================================================
