---------------------------- MODULE SearchIndex ----------------------------
(***************************************************************************)
(* The writing side of search-service: POST /index in the threads of one   *)
(* process, the store object they build on first use, and the rows of      *)
(* document_chunks behind it, which it upserts over a single connection.   *)
(* (The in-memory back end, for local runs, is left out.)                  *)
(*                                                                         *)
(* A document never changes once it is uploaded, so it always yields the   *)
(* same Length chunks.  A request whose client gave up goes on in its        *)
(* thread; the client's next attempt is a request of its own.              *)
(***************************************************************************)
EXTENDS IndexRequirements

VARIABLES store,      \* the module's _store, named after the thread that built it
          alive,      \* whether the connection of each store works
          thread,     \* what each thread of the server is doing
          ready,      \* _ready_state
          restarts, losses

vars == <<documents, table, store, alive, thread, ready,
          answered, restarts, losses>>

Chunks == Documents \X (1..Length)

Idle == [at |-> "idle", doc |-> NoDocument, next |-> 1, using |-> NoStore]

Steps == {"idle", "look", "build", "assign", "take", "embed", "add"}

Init ==
    /\ documents = Documents
    /\ table = {}
    /\ store = NoStore
    /\ alive = [t \in Threads |-> FALSE]
    /\ thread = [t \in Threads |-> Idle]
    /\ ready = FALSE
    /\ answered = {}
    /\ restarts = 0 /\ losses = 0

Moves(t, step) == thread' = [thread EXCEPT ![t].at = step]
Ends(t)        == thread' = [thread EXCEPT ![t] = Idle]

(***************************************************************************)
(* A thread takes a request to index a document, or a readiness probe of a *)
(* process that has not been found ready yet.                              *)
(***************************************************************************)
Ask(t, d) ==
    /\ thread[t].at = "idle"
    /\ d \in documents
    /\ thread' = [thread EXCEPT ![t] =
                     [at |-> "look", doc |-> d, next |-> 1, using |-> NoStore]]
    /\ UNCHANGED <<documents, table, store, alive, ready,
                   answered, restarts, losses>>

Probe(t) ==
    /\ thread[t].at = "idle"
    /\ ~ready
    /\ Moves(t, "look")
    /\ UNCHANGED <<documents, table, store, alive, ready,
                   answered, restarts, losses>>

(***************************************************************************)
(* _get_store: if _store is None build one, assign it, and return whatever *)
(* _store is by then.                                                      *)
(***************************************************************************)
StepOfStore == IF store = NoStore THEN "build" ELSE "take"

Look(t) ==
    /\ thread[t].at = "look"
    /\ Moves(t, StepOfStore)
    /\ UNCHANGED <<documents, table, store, alive, ready,
                   answered, restarts, losses>>

Build(t) ==
    /\ thread[t].at = "build"
    /\ Moves(t, "assign")
    /\ alive' = [alive EXCEPT ![t] = TRUE]
    /\ UNCHANGED <<documents, table, store, ready, answered, restarts, losses>>

Assign(t) ==
    /\ thread[t].at = "assign"
    /\ store' = t
    /\ Moves(t, "take")
    /\ UNCHANGED <<documents, table, alive, ready, answered,
                   restarts, losses>>

Take(t) ==
    /\ thread[t].at = "take"
    /\ IF thread[t].doc = NoDocument
       THEN Ends(t) /\ ready' = TRUE
       ELSE /\ thread' = [thread EXCEPT ![t].at = "embed", ![t].using = store]
            /\ UNCHANGED ready
    /\ UNCHANGED <<documents, table, store, alive, answered,
                   restarts, losses>>

Embed(t) ==
    /\ thread[t].at = "embed"
    /\ Moves(t, "add")
    /\ UNCHANGED <<documents, table, store, alive, ready,
                   answered, restarts, losses>>

(***************************************************************************)
(* The constructor cannot connect or ai-service does not embed: 500.       *)
(***************************************************************************)
Fail(t) ==
    /\ \/ thread[t].at = "embed"
       \/ thread[t].at = "build"
    /\ Ends(t)
    /\ UNCHANGED <<documents, table, store, alive, ready,
                   answered, restarts, losses>>

(***************************************************************************)
(* A chunk is stored: the next one, or the answer.                         *)
(***************************************************************************)
WasNextToLast(t) == thread[t].next + 1 >= Length
WasPastLast(t)   == thread[t].next > Length
WasLast(t)       == thread[t].next = Length

Stored(t) ==
    IF WasLast(t)
    THEN Ends(t) /\ answered' = answered \cup ({thread[t].doc} \cap documents)
    ELSE /\ thread' = [thread EXCEPT ![t].at = "add", ![t].next = @ + 1]
         /\ UNCHANGED answered

(***************************************************************************)
(* PostgresVectorStore.add_chunk: an upsert in autocommit, which a lost    *)
(* connection or the foreign key of a deleted document refuses.            *)
(***************************************************************************)
RefusedByConnection(t) == ~alive[thread[t].using]
Refused(t) == ~alive[thread[t].using] \/ thread[t].doc \notin documents

Upsert(t) ==
    /\ thread[t].at = "add"
    /\ IF Refused(t)
       THEN Ends(t) /\ UNCHANGED <<table, answered>>
       ELSE /\ table' = table \cup {<<thread[t].doc, thread[t].next>>}
            /\ Stored(t)
    /\ UNCHANGED <<documents, store, alive, ready, restarts, losses>>

(***************************************************************************)
(* document-service deletes a row, and the schema its chunks with it.      *)
(***************************************************************************)
Delete(d) ==
    /\ d \in documents
    /\ documents' = documents \ {d}
    /\ table' = {c \in table : c[1] # d}
    /\ answered' = answered \ {d}
    /\ UNCHANGED <<store, alive, thread, ready, restarts, losses>>

LoseConnections ==
    /\ losses < MaxLosses
    /\ losses' = losses + 1
    /\ alive' = [t \in Threads |-> FALSE]
    /\ UNCHANGED <<documents, table, store, thread, ready,
                   answered, restarts>>

Restart ==
    /\ restarts < MaxRestarts
    /\ restarts' = restarts + 1
    /\ store' = NoStore
    /\ alive' = [t \in Threads |-> FALSE]
    /\ thread' = [t \in Threads |-> Idle]
    /\ ready' = FALSE
    /\ UNCHANGED <<documents, table, answered, losses>>

Serves(t) == \/ Look(t) \/ Build(t) \/ Assign(t) \/ Take(t) \/ Embed(t) \/ Fail(t)
             \/ Upsert(t)

Next ==
    \/ \E t \in Threads : Serves(t) \/ Probe(t) \/ \E d \in Documents : Ask(t, d)
    \/ \E d \in Documents : Delete(d)
    \/ LoseConnections
    \/ Restart

Spec == Init /\ [][Next]_vars

----------------------------------------------------------------------------
(***************************************************************************)
(* The types of the tables, the stores and the threads.                    *)
(***************************************************************************)
TypeOK ==
    /\ documents \subseteq Documents
    /\ table \subseteq Chunks
    /\ store \in Threads \cup {NoStore}
    /\ alive \in [Threads -> BOOLEAN]
    /\ thread \in [Threads -> [at : Steps, doc : Documents \cup {NoDocument},
                               next : 1..Length, using : Threads \cup {NoStore}]]
    /\ ready \in BOOLEAN
    /\ answered \subseteq documents
    /\ restarts \in 0..MaxRestarts /\ losses \in 0..MaxLosses
============================================================================
