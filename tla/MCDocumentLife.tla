--------------------------- MODULE MCDocumentLife ---------------------------
(***************************************************************************)
(* Instances of DocumentLife for TLC.                                      *)
(***************************************************************************)
EXTENDS DocumentLifeProps, TLC

CONSTANTS d1, r1, r2

AllFaults == {"insert_fails", "insert_reply_lost", "xadd_fails",
              "xadd_reply_lost", "request_dies", "worker_dies"}
=============================================================================
