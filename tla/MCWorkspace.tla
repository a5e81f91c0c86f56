---------------------------- MODULE MCWorkspace ----------------------------
(***************************************************************************)
(* Two documents, doc1 the newer, over one page of the service each.       *)
(***************************************************************************)
EXTENDS Workspace

CONSTANTS doc1, doc2,
          Watching, Listing, Reading, Asking, Viewing  \* bounds on moves

TwoDocuments == <<doc1, doc2>>
OfWord == [w \in {"w"} |-> {doc1}]
Sizes == <<1, 2>>
InPeriod ==
    [range \in {"7d", "30d"} |-> IF range = "7d" THEN {doc1} ELSE {doc1, doc2}]
ScopeOf ==
    [scope \in {"All", "One"} |-> IF scope = "One" THEN {doc1} ELSE {doc1, doc2}]
SecondPage == [f \in {"f"} |-> 2]
LooksAt == [dashboard |-> Least(1, Viewing), list |-> Least(1, Viewing),
            detail |-> Viewing, chat |-> Viewing, qa |-> Viewing]
MovesOn == [dashboard |-> Watching, list |-> Listing, detail |-> Reading,
            chat |-> Asking, qa |-> Asking]
=============================================================================
