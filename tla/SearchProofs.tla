---------------------------- MODULE SearchProofs ----------------------------
(***************************************************************************)
(* Three parts of MCSearch that share no state.  For documents of any      *)
(* length, what is stored has all its vectors, and nothing is rejected     *)
(* where the limits of the two services agree.  For every library, every   *)
(* set of queries and scopes and all caps that leave each kind a row, the  *)
(* palette shows the results of its query and accounts for all of them,    *)
(* and the corpus and the cache miss no upload.  For any number of         *)
(* documents, chunks and threads, an answered document is found whole, and *)
(* nothing is left of a deleted document.                                  *)
(***************************************************************************)
EXTENDS MCSearch, RankProofs

-----------------------------------------------------------------------------
(***************************************************************************)
(* What the two configurations have to agree on.                           *)
(***************************************************************************)
LimitsAgree ==
    /\ ClientBatch <= MaxEmbedBatch
    /\ ClientBatch * MaxTokens <= TokenBudget

(***************************************************************************)
(* A vector for every chunk up to the next batch.                          *)
(***************************************************************************)
EmbedInv ==
    /\ Embedding!TypeOK
    /\ vectors = IF next <= texts THEN next ELSE texts
    /\ outcome = "stored" => next >= texts

LEMMA EmbeddingKeeps == EmbedInv /\ [Embedding!Next]_(Embedding!vars) => EmbedInv'
<1> SUFFICES ASSUME EmbedInv, [Embedding!Next]_(Embedding!vars) PROVE EmbedInv'
  OBVIOUS
<1>1. CASE Embedding!Send
  <2>1. /\ texts \in Nat /\ next \in Nat /\ ClientBatch \in Nat
        /\ next < texts /\ texts' = texts
    BY <1>1, EmbedAssumption DEF Embedding!Send, EmbedInv, Embedding!TypeOK
  <2>2. CASE /\ vectors' = vectors + Embedding!Batch
             /\ next' = Embedding!NextBatch /\ outcome' = outcome
    BY <2>1, <2>2, <1>1, EmbedAssumption
       DEF EmbedInv, Embedding!TypeOK, Embedding!Batch, Embedding!NextBatch,
           Embedding!Outcomes, Embedding!Send
  <2>3. CASE outcome' = "rejected" /\ UNCHANGED <<vectors, next>>
    BY <2>1, <2>3 DEF EmbedInv, Embedding!TypeOK, Embedding!Outcomes
  <2> QED BY <1>1, <2>2, <2>3 DEF Embedding!Send
<1>2. CASE Embedding!ProviderFails
  BY <1>2 DEF Embedding!ProviderFails, EmbedInv, Embedding!TypeOK, Embedding!Outcomes
<1>3. CASE Embedding!Store
  BY <1>3 DEF Embedding!Store, EmbedInv, Embedding!TypeOK, Embedding!Outcomes
<1>4. CASE UNCHANGED Embedding!vars
  BY <1>4 DEF Embedding!vars, EmbedInv, Embedding!TypeOK
<1> QED BY <1>1, <1>2, <1>3, <1>4 DEF Embedding!Next

LEMMA EmbeddingStarts == Embedding!Init => EmbedInv
BY EmbedAssumption DEF Embedding!Init, EmbedInv, Embedding!TypeOK, Embedding!Outcomes

(***************************************************************************)
(* The counts stay within the document.                                    *)
(***************************************************************************)
THEOREM EmbeddingTypes == Embedding!Spec => []Embedding!TypeOK
<1>1. EmbedInv => Embedding!TypeOK
  BY DEF EmbedInv
<1> QED BY <1>1, EmbeddingStarts, EmbeddingKeeps, PTL DEF Embedding!Spec

(***************************************************************************)
(* A document is stored with one vector for each of its chunks.            *)
(***************************************************************************)
THEOREM StoredIsComplete == Embedding!Spec => []Embedding!OneVectorPerText
<1>1. Embedding!Init => EmbedInv
  BY EmbeddingStarts
<1>2. EmbedInv => Embedding!OneVectorPerText
  BY DEF EmbedInv, Embedding!TypeOK, Embedding!OneVectorPerText
<1> QED BY <1>1, <1>2, EmbeddingKeeps, PTL DEF Embedding!Spec

LEMMA AgreedBatchFits ==
    ASSUME LimitsAgree, NEW batch \in Nat, batch <= ClientBatch,
           NEW tokens \in Embedding!Estimates(batch)
    PROVE  Embedding!Fits(batch, tokens)
<1>1. batch * MaxTokens \in Nat /\ ClientBatch * MaxTokens \in Nat
  BY EmbedAssumption
<1>2. batch * MaxTokens <= ClientBatch * MaxTokens
  BY EmbedAssumption
<1>3. tokens \in Nat /\ tokens <= batch * MaxTokens
  BY <1>1 DEF Embedding!Estimates
<1> QED BY <1>1, <1>2, <1>3, EmbedAssumption DEF LimitsAgree, Embedding!Fits

(***************************************************************************)
(* If a full batch of the largest chunks is within both limits, no         *)
(* document is rejected, however long it is.                               *)
(***************************************************************************)
THEOREM AgreementSuffices ==
    ASSUME LimitsAgree PROVE Embedding!Spec => []NoDocumentIsRejected
<1>1. Embedding!Init => EmbedInv /\ NoDocumentIsRejected
  BY EmbedAssumption DEF Embedding!Init, EmbedInv, Embedding!TypeOK,
                         Embedding!Outcomes, NoDocumentIsRejected
<1>2. EmbedInv /\ NoDocumentIsRejected /\ [Embedding!Next]_(Embedding!vars)
         => NoDocumentIsRejected'
  <2> SUFFICES ASSUME EmbedInv, NoDocumentIsRejected,
                      [Embedding!Next]_(Embedding!vars)
               PROVE  NoDocumentIsRejected'
    OBVIOUS
  <2>1. CASE Embedding!Send
    <3>1. Embedding!Batch \in Nat /\ Embedding!Batch <= ClientBatch
      BY <2>1, EmbedAssumption DEF Embedding!Send, Embedding!Batch, EmbedInv,
                                   Embedding!TypeOK
    <3>2. \A tokens \in Embedding!Estimates(Embedding!Batch) :
              Embedding!Fits(Embedding!Batch, tokens)
      BY <3>1, AgreedBatchFits
    <3>3. outcome' = outcome
      BY <2>1, <3>2 DEF Embedding!Send
    <3> QED BY <3>3 DEF NoDocumentIsRejected
  <2>2. CASE Embedding!ProviderFails \/ Embedding!Store
    BY <2>2 DEF Embedding!ProviderFails, Embedding!Store, NoDocumentIsRejected
  <2>3. CASE UNCHANGED Embedding!vars
    BY <2>3 DEF Embedding!vars, NoDocumentIsRejected
  <2> QED BY <2>1, <2>2, <2>3 DEF Embedding!Next
<1> QED BY <1>1, <1>2, EmbeddingKeeps, PTL DEF Embedding!Spec

-----------------------------------------------------------------------------
(***************************************************************************)
(* The palette and the library cache: what the hooks show.                 *)
(***************************************************************************)
Slot == {"dep", "status", "data"}
CallFields == {"who", "dep", "on", "live"}

\* A call whose answer the palette would take was asked for what the palette
\* last ran with.
CallsOK ==
    \A c \in calls :
        /\ DOMAIN c = CallFields
        /\ c.who = "palette" /\ c.live => c.dep = hooks["palette"].dep

HooksOK ==
    /\ DOMAIN hooks = Callers
    /\ \A who \in Callers : DOMAIN hooks[who] = Slot
    /\ CallsOK /\ ResultsAreForTheQuery

LEMMA HooksStart == Init => HooksOK
BY DEF Init, HooksOK, CallsOK, Slot, Closed, Callers,
       ResultsAreForTheQuery

\* What has been aborted is not live, and nobody else's calls change.
LEMMA AbortedAreDead ==
    ASSUME CallsOK, NEW who, NEW c \in Dead(who)
    PROVE  DOMAIN c = CallFields /\ (c.live => c.who # who /\ c \in calls)
<1>1. PICK x \in calls : c = IF x.who = who THEN [x EXCEPT !.live = FALSE] ELSE x
  BY DEF Dead, Left
<1> QED BY <1>1 DEF CallsOK, CallFields

\* A caller's hook is given a slot that is not ready, or one with an answer
\* to its own dependencies, and all its calls but one for them are dead.
LEMMA SlotKeeps ==
    ASSUME HooksOK, NEW who \in Callers, NEW slot, DOMAIN slot = Slot,
           hooks' = [hooks EXCEPT ![who] = slot],
           who = "palette" /\ slot.status = "ready" => slot.data.query = slot.dep,
           \A c \in calls' :
               \/ c \in Dead(who)
               \/ DOMAIN c = CallFields /\ c.who = who /\ c.dep = slot.dep
    PROVE  HooksOK'
<1>1. /\ DOMAIN hooks' = Callers /\ hooks'[who] = slot
      /\ \A w \in Callers : w # who => hooks'[w] = hooks[w]
      /\ "palette" \in Callers
  BY DEF HooksOK, Callers
<1>2. CallsOK'
  <2> SUFFICES ASSUME NEW c \in calls'
               PROVE  /\ DOMAIN c = CallFields
                      /\ c.who = "palette" /\ c.live => c.dep = hooks'["palette"].dep
    BY DEF CallsOK
  <2>1. CASE c \in Dead(who)
    <3>1. DOMAIN c = CallFields /\ (c.live => c.who # who /\ c \in calls)
      BY <2>1, AbortedAreDead DEF HooksOK
    <3>2. c \in calls /\ c.who = "palette" /\ c.live => c.dep = hooks["palette"].dep
      BY DEF HooksOK, CallsOK
    <3> QED BY <1>1, <3>1, <3>2
  <2>2. CASE DOMAIN c = CallFields /\ c.who = who /\ c.dep = slot.dep
    BY <1>1, <2>2
  <2> QED BY <2>1, <2>2
<1>3. ResultsAreForTheQuery'
  BY <1>1 DEF HooksOK, ResultsAreForTheQuery
<1> QED BY <1>1, <1>2, <1>3 DEF HooksOK

LEMMA LoadKeeps ==
    ASSUME HooksOK, NEW who \in Callers, NEW slot, DOMAIN slot = Slot,
           slot.status # "ready", Load(who, slot)
    PROVE  HooksOK'
<1>1. CASE /\ hooks' = [hooks EXCEPT ![who] =
                             Answered(slot, AnswerOf(who, slot.dep, cache))]
           /\ calls' = Dead(who)
  <2> DEFINE full == Answered(slot, AnswerOf(who, slot.dep, cache))
  <2>1. DOMAIN full = Slot /\ full.dep = slot.dep
        /\ full.data = AnswerOf(who, slot.dep, cache)
    BY DEF Answered, Slot
  <2>2. who = "palette" => full.data.query = full.dep
    BY <2>1 DEF AnswerOf, Response
  <2> HIDE DEF full
  <2>3. hooks' = [hooks EXCEPT ![who] = full]
    BY <1>1 DEF full
  <2> QED BY <1>1, <2>1, <2>2, <2>3, SlotKeeps
<1>2. CASE hooks' = [hooks EXCEPT ![who] = slot]
           /\ \A c \in calls' : \/ c \in Dead(who)
                                \/ \E n : c = Call(who, slot.dep, n)
  <2>1. ASSUME NEW n
        PROVE  LET c == Call(who, slot.dep, n)
               IN  DOMAIN c = CallFields /\ c.who = who /\ c.dep = slot.dep
    BY DEF Call, CallFields
  <2>2. ASSUME NEW c \in calls'
        PROVE  \/ c \in Dead(who)
               \/ DOMAIN c = CallFields /\ c.who = who /\ c.dep = slot.dep
    <3>1. CASE \E n : c = Call(who, slot.dep, n)
      BY <2>1, <3>1
    <3> QED BY <1>2, <3>1
  <2>3. hooks' = [hooks EXCEPT ![who] = slot]
    BY <1>2
  <2> QED BY <2>2, <2>3, SlotKeeps
<1>3. CASE cache # Nothing
  BY <1>1, <1>3 DEF Load
<1>4. CASE cache = Nothing
  <2>1. hooks' = [hooks EXCEPT ![who] = slot]
    BY <1>4 DEF Load
  <2>2. PICK n : calls' \in {Dead(who), Dead(who) \cup {Call(who, slot.dep, n)}}
    BY <1>4 DEF Load
  <2> QED BY <1>2, <2>1, <2>2
<1> QED BY <1>3, <1>4

LEMMA UnloadKeeps ==
    ASSUME HooksOK, NEW who \in Callers, Unload(who)
    PROVE  HooksOK'
<1>1. DOMAIN Closed = Slot /\ Closed.status # "ready"
  BY DEF Closed, Slot
<1>2. hooks' = [hooks EXCEPT ![who] = Closed] /\ calls' = Dead(who)
  BY DEF Unload
<1> QED BY <1>1, <1>2, SlotKeeps

\* What answers calls takes them away, and changes no dependencies.
LEMMA EndingKeeps ==
    ASSUME HooksOK, calls' \subseteq calls, DOMAIN hooks' = Callers,
           \A who \in Callers : /\ DOMAIN hooks'[who] = Slot
                                       /\ hooks'[who].dep = hooks[who].dep,
           ResultsAreForTheQuery'
    PROVE  HooksOK'
<1>1. CallsOK'
  BY DEF HooksOK, CallsOK, Callers
<1> QED BY <1>1 DEF HooksOK

LEMMA ArrivalKeeps ==
    ASSUME HooksOK, NEW f \in fetches, Arrives(f)
    PROVE  HooksOK'
<1> DEFINE waiting == {c \in calls : c.on = f.n}
           Of(who) == {c \in waiting : c.who = who /\ Counts(c)}
           got(who) == AnswerOf(who, Latest(Of(who)).dep, f.rows)
<1>1. /\ calls' \subseteq calls
      /\ hooks' = [who \in Callers |->
                      IF Of(who) = {} THEN hooks[who]
                      ELSE Answered(hooks[who], got(who))]
  BY DEF Arrives
<1>2. \A who \in Callers : DOMAIN hooks[who] = Slot
  BY DEF HooksOK
<1>3. Of("palette") # {} => Latest(Of("palette")) \in Of("palette")
  <2>1. \A same : same # {} => Latest(same) \in same
    BY DEF Latest
  <2> QED BY <2>1
<1>4. Of("palette") # {} => Latest(Of("palette")).dep = hooks["palette"].dep
  BY <1>3 DEF HooksOK, CallsOK, Counts
<1> HIDE DEF Of, waiting
<1>5. ASSUME NEW who \in Callers
      PROVE  DOMAIN hooks'[who] = Slot /\ hooks'[who].dep = hooks[who].dep
  <2>1. \A data : /\ DOMAIN Answered(hooks[who], data) = Slot
                  /\ Answered(hooks[who], data).dep = hooks[who].dep
    BY <1>2 DEF Answered, Slot
  <2> HIDE DEF got
  <2> QED BY <1>1, <1>2, <2>1
<1>6. ResultsAreForTheQuery'
  <2>0. "palette" \in Callers
    BY DEF Callers
  <2>1. CASE Of("palette") = {}
    BY <1>1, <2>0, <2>1 DEF HooksOK, ResultsAreForTheQuery
  <2>2. CASE Of("palette") # {}
    <3>1. hooks'["palette"] = Answered(hooks["palette"], got("palette"))
      BY <1>1, <2>0, <2>2
    <3>2. got("palette").query = hooks["palette"].dep
      BY <1>4, <2>2 DEF AnswerOf, Response
    <3> HIDE DEF got
    <3>3. hooks'["palette"].data = got("palette")
      BY <1>2, <2>0, <3>1 DEF Answered, Slot
    <3> QED BY <1>5, <2>0, <3>2, <3>3 DEF ResultsAreForTheQuery
  <2> QED BY <2>1, <2>2
<1>7. DOMAIN hooks' = Callers
  BY <1>1
<1> HIDE DEF got
<1> QED BY <1>1, <1>5, <1>6, <1>7, EndingKeeps

LEMMA FailureKeeps ==
    ASSUME HooksOK, NEW f \in fetches, Fails(f)
    PROVE  HooksOK'
<1>1. \A who \in Callers : DOMAIN hooks[who] = Slot
  BY DEF HooksOK
<1>2. /\ calls' \subseteq calls /\ DOMAIN hooks' = Callers
      /\ \A who \in Callers :
             hooks'[who] \in {hooks[who], Failed(hooks[who])}
  BY DEF Fails
<1>3. ASSUME NEW who \in Callers
      PROVE  /\ DOMAIN hooks'[who] = Slot /\ hooks'[who].dep = hooks[who].dep
             /\ hooks'[who] = hooks[who] \/ hooks'[who].status = "error"
  BY <1>1, <1>2 DEF Failed, Slot
<1>4. ResultsAreForTheQuery'
  BY <1>3 DEF HooksOK, ResultsAreForTheQuery, Callers
<1> QED BY <1>2, <1>3, <1>4, EndingKeeps

LEMMA NewSlots ==
    ASSUME NEW dep, NEW slot, DOMAIN slot = Slot
    PROVE  /\ DOMAIN Mounted(dep) = Slot /\ Mounted(dep).status # "ready"
           /\ DOMAIN Rerun(slot, dep) = Slot
           /\ Rerun(slot, dep).status # "ready"
           /\ DOMAIN Retried(slot) = Slot /\ Retried(slot).status # "ready"
BY DEF Mounted, Rerun, Retried, Slot

LEMMA HooksKeep ==
    ASSUME HooksOK, [Next]_(vars)
    PROVE  HooksOK'
<1>0. /\ "palette" \in Callers /\ "scope" \in Callers
      /\ DOMAIN hooks["palette"] = Slot /\ DOMAIN hooks["scope"] = Slot
  BY DEF HooksOK, Callers
<1>1. ASSUME NEW f \in fetches, Arrives(f) \/ Fails(f)
      PROVE  HooksOK'
  BY <1>1, ArrivalKeeps, FailureKeeps
<1>2. ASSUME UNCHANGED <<calls, hooks>>
      PROVE  HooksOK'
  BY <1>2 DEF HooksOK, CallsOK, ResultsAreForTheQuery
<1>3. CASE \/ \E f \in fetches : ServerReads(f)
           \/ Expire
           \/ \E d \in DOMAIN library :
                 \/ Upload(d)
                 \/ \E status \in {"processing", "completed"} : Becomes(d, status)
           \/ \E q \in Queries : Type(q)
           \/ \E i \in 1 .. TotalCap : PressKey(i) \/ Point(i)
           \/ UNCHANGED vars
  <2>1. UNCHANGED <<calls, hooks>>
    BY <1>3 DEF ServerReads, Expire, Upload, Becomes,
                Type, PressKey, Point, vars,
                memory
  <2> QED BY <1>2, <2>1
<1>4. CASE Close \/ Activate \/ LeaveChat
  BY <1>0, <1>4, UnloadKeeps DEF Close, Activate, LeaveChat
<1>5. CASE Open
  BY <1>0, <1>5, NewSlots, LoadKeeps DEF Open
<1>6. CASE Debounced
  BY <1>0, <1>6, NewSlots, LoadKeeps DEF Debounced
<1>7. CASE Retry
  BY <1>0, <1>7, NewSlots, LoadKeeps DEF Retry
<1>8. ASSUME NEW scope \in Scopes, ShowScope(scope)
      PROVE  HooksOK'
  <2>1. \/ Load("scope", Mounted(scope))
        \/ Load("scope", Rerun(hooks["scope"], scope))
    BY <1>8 DEF ShowScope
  <2> QED BY <1>0, <2>1, NewSlots, LoadKeeps
<1> QED BY <1>1, <1>3, <1>4, <1>5, <1>6, <1>7, <1>8 DEF Next

-----------------------------------------------------------------------------
(***************************************************************************)
(* The palette and the library cache: what the cache and the corpus hold.  *)
(***************************************************************************)
FetchFields == {"n", "by", "rows"}

\* Every upload that crossed no answer is in the library, in every answer
\* that is on its way, in the cache and in the corpus.
CacheOK ==
    /\ settled \subseteq DOMAIN library
    /\ \A d \in settled : library[d] # "absent"
    /\ \A f \in fetches :
          /\ DOMAIN f = FetchFields
          /\ f.rows # Nothing => \A d \in settled : f.rows[d] # "absent"
    /\ UploadsAreIndexed

LEMMA CacheStarts == Init => CacheOK
BY DEF Init, CacheOK, UploadsAreIndexed

\* Nothing is uploaded: what is newly on its way has read nothing, the cache
\* is as it was, empty, or an answer, and the corpus is built from either.
LEMMA ReadsKeep ==
    ASSUME CacheOK, UNCHANGED <<library, settled>>,
           \A f \in fetches' : \/ f \in fetches
                               \/ DOMAIN f = FetchFields /\ f.rows = Nothing,
           \/ cache' \in {cache, Nothing}
           \/ \E f \in fetches : f.rows # Nothing /\ cache' = f.rows,
           index' \in {index, cache, cache'}
    PROVE  CacheOK'
<1>1. \A d \in settled : cache' # Nothing => cache'[d] # "absent"
  BY DEF CacheOK, UploadsAreIndexed
<1>2. \A d \in settled : index' # Nothing => index'[d] # "absent"
  BY <1>1 DEF CacheOK, UploadsAreIndexed
<1> QED BY <1>1, <1>2 DEF CacheOK, UploadsAreIndexed

LEMMA LoadKeepsCache ==
    ASSUME CacheOK, NEW who, NEW slot, Load(who, slot),
           UNCHANGED <<library, settled>>
    PROVE  CacheOK'
<1>1. \A f \in fetches' : \/ f \in fetches
                          \/ DOMAIN f = FetchFields /\ f.rows = Nothing
  <2>1. PICK n : fetches' \subseteq fetches \cup {[n |-> n, by |-> who, rows |-> Nothing]}
    BY DEF Load
  <2>2. LET new == [n |-> n, by |-> who, rows |-> Nothing]
        IN  DOMAIN new = FetchFields /\ new.rows = Nothing
    BY DEF FetchFields
  <2> QED BY <2>1, <2>2
<1>2. cache' = cache /\ index' \in {index, cache}
  BY DEF Load, IndexAfter
<1> QED BY <1>1, <1>2, ReadsKeep

LEMMA CacheKeeps ==
    ASSUME CacheOK, [Next]_(vars)
    PROVE  CacheOK'
<1>1. ASSUME NEW f \in fetches, ServerReads(f)
      PROVE  CacheOK'
  <2>1. LET g == [f EXCEPT !.rows = library]
        IN  DOMAIN g = FetchFields /\ g.rows = library
    BY DEF CacheOK, FetchFields
  <2>2. /\ fetches' = (fetches \ {f}) \cup {[f EXCEPT !.rows = library]}
        /\ UNCHANGED <<library, cache, index, settled>>
    BY <1>1 DEF ServerReads
  <2> QED BY <2>1, <2>2 DEF CacheOK, UploadsAreIndexed
<1>2. ASSUME NEW f \in fetches, Arrives(f)
      PROVE  CacheOK'
  <2>1. /\ fetches' \subseteq fetches /\ UNCHANGED <<library, settled>>
        /\ f.rows # Nothing /\ cache' = f.rows /\ index' \in {index, cache'}
    BY <1>2 DEF Arrives, IndexAfter
  <2> QED BY <2>1, ReadsKeep
<1>3. ASSUME NEW f \in fetches, Fails(f)
      PROVE  CacheOK'
  BY <1>3, ReadsKeep DEF Fails
<1>4. CASE Expire
  BY <1>4, ReadsKeep DEF Expire
<1>5. ASSUME NEW d \in DOMAIN library, Upload(d)
      PROVE  CacheOK'
  <2>1. /\ library' = [library EXCEPT ![d] = "processing"]
        /\ cache' = Nothing /\ index' = Nothing /\ fetches' = fetches
        /\ settled' = IF \E f \in fetches : f.rows # Nothing THEN settled
                      ELSE settled \cup {d}
    BY <1>5 DEF Upload, InvalidateCorpus
  <2>2. settled' \subseteq settled \cup {d}
    BY <2>1
  <2>3. settled' \subseteq DOMAIN library' /\ \A x \in settled' : library'[x] # "absent"
    BY <2>1, <2>2 DEF CacheOK
  <2>4. \A f \in fetches : f.rows # Nothing => settled' = settled
    BY <2>1
  <2> QED BY <2>1, <2>3, <2>4 DEF CacheOK, UploadsAreIndexed
<1>6. ASSUME NEW d \in DOMAIN library, NEW status \in {"processing", "completed"},
             Becomes(d, status)
      PROVE  CacheOK'
  <2>1. library' = [library EXCEPT ![d] = status]
        /\ UNCHANGED <<cache, index, fetches, settled>>
    BY <1>6 DEF Becomes, memory
  <2>2. settled' \subseteq DOMAIN library' /\ \A x \in settled' : library'[x] # "absent"
    BY <2>1 DEF CacheOK
  <2> QED BY <2>1, <2>2 DEF CacheOK, UploadsAreIndexed
<1>7. ASSUME Close \/ Activate \/ LeaveChat
      PROVE  CacheOK'
  <2>1. \/ Unload("palette") /\ UNCHANGED <<library, settled>>
        \/ Unload("scope") /\ UNCHANGED <<library, settled>>
    BY <1>7 DEF Close, Activate, LeaveChat
  <2> QED BY <2>1, ReadsKeep DEF Unload
<1>8. CASE Open
  BY <1>8, LoadKeepsCache DEF Open
<1>9. CASE Debounced
  BY <1>9, LoadKeepsCache DEF Debounced
<1>10. CASE Retry
  BY <1>10, LoadKeepsCache DEF Retry
<1>11. ASSUME NEW scope \in Scopes, ShowScope(scope)
       PROVE  CacheOK'
  <2>1. PICK slot : Load("scope", slot)
    BY <1>11 DEF ShowScope
  <2> QED BY <1>11, <2>1, LoadKeepsCache DEF ShowScope
<1>12. CASE \/ \E q \in Queries : Type(q)
            \/ \E i \in 1 .. TotalCap : PressKey(i) \/ Point(i)
            \/ UNCHANGED vars
  <2>1. UNCHANGED <<library, fetches, cache, index, settled>>
    BY <1>12 DEF Type, PressKey, Point, vars, memory
  <2> QED BY <2>1 DEF CacheOK, UploadsAreIndexed
<1> QED BY <1>1, <1>2, <1>3, <1>4, <1>5, <1>6, <1>7, <1>8, <1>9, <1>10, <1>11, <1>12
        DEF Next

-----------------------------------------------------------------------------
(***************************************************************************)
(* The palette and the library cache: every answer is one to a query that  *)
(* may be typed, from a state that the library may be in.                  *)
(***************************************************************************)
Statuses == {"absent", "processing", "completed"}
Known == Libraries \cup {Nothing}
Responses == {Response(q, rows) : q \in Queries, rows \in Libraries}

SlotOK(slot) ==
    /\ slot.status # "closed" => slot.dep \in Queries
    /\ slot.data \in Responses \cup {Nothing}

DataOK ==
    /\ library \in Libraries /\ query \in Queries
    /\ cache \in Known /\ index \in Known
    /\ \A f \in fetches : f.rows \in Known
    /\ \A c \in calls : c.who = "palette" => c.dep \in Queries
    /\ SlotOK(hooks["palette"])

LEMMA EveryStatus == Libraries = [DOMAIN Name -> Statuses]
<1> DEFINE of(listed, done) ==
               [d \in DOMAIN Name |-> IF d \notin listed THEN "absent"
                                      ELSE IF d \in done THEN "completed" ELSE "processing"]
<1>1. \A listed, done : of(listed, done) \in [DOMAIN Name -> Statuses]
  BY DEF Statuses
<1>2. ASSUME NEW rows \in [DOMAIN Name -> Statuses]
      PROVE  \E listed, done \in SUBSET DOMAIN Name : rows = of(listed, done)
  <2> DEFINE listed == {d \in DOMAIN Name : rows[d] # "absent"}
             done == {d \in DOMAIN Name : rows[d] = "completed"}
  <2>1. \A d \in DOMAIN Name : rows[d] = of(listed, done)[d]
    BY DEF Statuses
  <2>2. rows = of(listed, done)
    BY <2>1
  <2>3. listed \in SUBSET DOMAIN Name /\ done \in SUBSET DOMAIN Name
    OBVIOUS
  <2> QED BY <2>2, <2>3
<1>3. Libraries = {of(listed, done) : listed, done \in SUBSET DOMAIN Name}
  BY DEF Libraries
<1> HIDE DEF of
<1> QED BY <1>1, <1>2, <1>3

LEMMA DataStarts == Init => DataOK
BY PaletteAssumption DEF Init, DataOK, Known, SlotOK, Closed, Callers

\* The library's documents stay, and their status changes.
LEMMA LibraryKeeps ==
    ASSUME NEW rows \in Libraries, NEW d \in DOMAIN rows, NEW status \in Statuses
    PROVE  [rows EXCEPT ![d] = status] \in Libraries
BY EveryStatus

LEMMA AnswerIsKnown ==
    ASSUME DataOK, NEW dep \in Queries, NEW rows \in Libraries
    PROVE  AnswerOf("palette", dep, rows) \in Responses
<1>1. AnswerOf("palette", dep, rows) =
          Response(dep, IF dep = Blank \/ index = Nothing THEN rows ELSE index)
  BY DEF AnswerOf
<1>2. (IF dep = Blank \/ index = Nothing THEN rows ELSE index) \in Libraries
  BY DEF DataOK, Known
<1> QED BY <1>1, <1>2 DEF Responses

LEMMA AbortedAsked ==
    ASSUME HooksOK, DataOK, NEW who, NEW c \in Dead(who), c.who = "palette"
    PROVE  c.dep \in Queries
<1>1. PICK x \in calls : c = IF x.who = who THEN [x EXCEPT !.live = FALSE] ELSE x
  BY DEF Dead, Left
<1>2. DOMAIN x = CallFields
  BY DEF HooksOK, CallsOK
<1>3. c.who = x.who /\ c.dep = x.dep
  BY <1>1, <1>2 DEF CallFields
<1> QED BY <1>3 DEF DataOK

LEMMA LoadKeepsData ==
    ASSUME HooksOK, DataOK, NEW who \in Callers, NEW slot, DOMAIN slot = Slot,
           who = "palette" => slot.dep \in Queries /\ SlotOK(slot),
           Load(who, slot), library' = library, query' \in Queries
    PROVE  DataOK'
<1>0. "palette" \in Callers /\ DOMAIN hooks = Callers
  BY DEF HooksOK, Callers
<1>1. cache' = cache /\ index' \in {index, cache}
  BY DEF Load, IndexAfter
<1>2. \A f \in fetches' : f.rows \in Known
  <2>1. PICK n : fetches' \subseteq fetches \cup {[n |-> n, by |-> who, rows |-> Nothing]}
    BY DEF Load
  <2> QED BY <2>1 DEF DataOK, Known
<1>3. \A c \in calls' : c.who = "palette" => c.dep \in Queries
  <2>1. PICK n : calls' \subseteq Dead(who) \cup {Call(who, slot.dep, n)}
    BY DEF Load
  <2>2. \A c : c = Call(who, slot.dep, n) => c.who = who /\ c.dep = slot.dep
    BY DEF Call
  <2> QED BY <2>1, <2>2, AbortedAsked
<1>4. SlotOK(hooks'["palette"])
  <2>1. CASE who # "palette"
    <3>1. hooks'["palette"] = hooks["palette"]
      BY <1>0, <2>1 DEF Load
    <3> QED BY <3>1 DEF DataOK
  <2>2. CASE who = "palette"
    <3> DEFINE full == Answered(slot, AnswerOf(who, slot.dep, cache))
    <3>1. hooks'["palette"] = slot \/ (cache # Nothing /\ hooks'["palette"] = full)
      BY <1>0, <2>2 DEF Load
    <3>2. CASE hooks'["palette"] = slot
      BY <2>2, <3>2
    <3>3. CASE cache # Nothing /\ hooks'["palette"] = full
      <4>1. cache \in Libraries
        BY <3>3 DEF DataOK, Known
      <4>2. AnswerOf(who, slot.dep, cache) \in Responses
        BY <2>2, <4>1, AnswerIsKnown
      <4>3. full.dep = slot.dep /\ full.data = AnswerOf(who, slot.dep, cache)
        BY DEF Answered, Slot
      <4> HIDE DEF full
      <4> QED BY <2>2, <3>3, <4>2, <4>3 DEF SlotOK
    <3> QED BY <3>1, <3>2, <3>3
  <2> QED BY <2>1, <2>2
<1>5. cache' \in Known /\ index' \in Known /\ library' \in Libraries
  BY <1>1 DEF DataOK
<1> QED BY <1>2, <1>3, <1>4, <1>5 DEF DataOK

LEMMA UnloadKeepsData ==
    ASSUME HooksOK, DataOK, NEW who \in Callers, Unload(who),
           library' = library, query' \in Queries
    PROVE  DataOK'
<1>1. /\ fetches' \subseteq fetches /\ calls' = Dead(who)
      /\ UNCHANGED <<cache, index>>
      /\ hooks' = [hooks EXCEPT ![who] = Closed]
  BY DEF Unload
<1>2. \A c \in calls' : c.who = "palette" => c.dep \in Queries
  BY <1>1, AbortedAsked
<1>3. SlotOK(hooks'["palette"])
  <2>1. hooks'["palette"] = hooks["palette"] \/ hooks'["palette"] = Closed
    BY <1>1 DEF HooksOK, Callers
  <2>2. SlotOK(Closed)
    BY DEF SlotOK, Closed
  <2> QED BY <2>1, <2>2 DEF DataOK
<1> QED BY <1>1, <1>2, <1>3 DEF DataOK

LEMMA ArrivalKeepsData ==
    ASSUME HooksOK, DataOK, NEW f \in fetches, Arrives(f)
    PROVE  DataOK'
<1> DEFINE waiting == {c \in calls : c.on = f.n}
           Of(who) == {c \in waiting : c.who = who /\ Counts(c)}
           dep == Latest(Of("palette")).dep
<1>1. /\ fetches' \subseteq fetches /\ calls' \subseteq calls
      /\ UNCHANGED <<library, query>> /\ cache' = f.rows
      /\ index' \in {index, f.rows} /\ f.rows # Nothing
  BY DEF Arrives, IndexAfter
<1>2. f.rows \in Libraries /\ f.rows \in Known
  BY <1>1 DEF DataOK, Known
<1>3. /\ "palette" \in Callers
      /\ hooks'["palette"] = IF Of("palette") = {} THEN hooks["palette"]
                             ELSE Answered(hooks["palette"], AnswerOf("palette", dep, f.rows))
  BY DEF Arrives, Callers
<1>4. SlotOK(hooks'["palette"])
  <2>1. CASE Of("palette") = {}
    BY <1>3, <2>1 DEF DataOK
  <2>2. CASE Of("palette") # {}
    <3>1. Latest(Of("palette")) \in Of("palette")
      <4>1. \A same : same # {} => Latest(same) \in same
        BY DEF Latest
      <4> QED BY <2>2, <4>1
    <3>2. dep \in Queries /\ dep = hooks["palette"].dep
      BY <3>1 DEF DataOK, HooksOK, CallsOK, Counts
    <3> DEFINE answer == AnswerOf("palette", dep, f.rows)
    <3>3. answer \in Responses
      BY <1>2, <3>2, AnswerIsKnown
    <3>4. hooks'["palette"] = Answered(hooks["palette"], answer)
      BY <1>3, <2>2
    <3> HIDE DEF answer
    <3>5. hooks'["palette"].dep = hooks["palette"].dep /\ hooks'["palette"].data = answer
      BY <1>3, <3>4 DEF Answered, HooksOK, Slot
    <3> QED BY <3>2, <3>3, <3>5 DEF SlotOK
  <2> QED BY <2>1, <2>2
<1> QED BY <1>1, <1>2, <1>4 DEF DataOK

LEMMA FailureKeepsData ==
    ASSUME HooksOK, DataOK, NEW f \in fetches, Fails(f)
    PROVE  DataOK'
<1> DEFINE waits == \E c \in calls : c.on = f.n /\ Counts(c) /\ c.who = "palette"
<1>1. /\ fetches' \subseteq fetches /\ calls' \subseteq calls
      /\ UNCHANGED <<library, query, cache, index>>
  BY DEF Fails, ui
<1>2. hooks'["palette"] = IF waits THEN Failed(hooks["palette"]) ELSE hooks["palette"]
  BY DEF Fails, Callers
<1>3. SlotOK(hooks'["palette"])
  <2>1. CASE ~ waits
    BY <1>2, <2>1 DEF DataOK
  <2>2. CASE waits
    <3>1. hooks["palette"].dep \in Queries
      BY <2>2 DEF DataOK, HooksOK, CallsOK, Counts
    <3>2. DOMAIN hooks["palette"] = Slot
      BY DEF HooksOK, Callers
    <3>3. /\ Failed(hooks["palette"]).dep = hooks["palette"].dep
          /\ Failed(hooks["palette"]).data = hooks["palette"].data
      BY <3>2 DEF Failed, Slot
    <3>4. hooks'["palette"] = Failed(hooks["palette"])
      BY <1>2, <2>2
    <3> QED BY <3>1, <3>3, <3>4 DEF DataOK, SlotOK
  <2> QED BY <2>1, <2>2
<1> QED BY <1>1, <1>3 DEF DataOK

LEMMA DataKeeps ==
    ASSUME HooksOK, CacheOK, DataOK, [Next]_(vars)
    PROVE  DataOK'
<1>0. /\ "palette" \in Callers /\ "scope" \in Callers /\ "scope" # "palette"
      /\ DOMAIN hooks["palette"] = Slot /\ DOMAIN hooks["scope"] = Slot
      /\ Blank \in Queries /\ query \in Queries
  BY PaletteAssumption DEF HooksOK, Callers, DataOK
<1>1. ASSUME NEW f \in fetches, ServerReads(f)
      PROVE  DataOK'
  <2>1. [f EXCEPT !.rows = library].rows = library
    BY DEF CacheOK, FetchFields
  <2>2. /\ fetches' = (fetches \ {f}) \cup {[f EXCEPT !.rows = library]}
        /\ UNCHANGED <<library, cache, index, calls, hooks, query>>
    BY <1>1 DEF ServerReads, ui
  <2> QED BY <2>1, <2>2 DEF DataOK, Known
<1>2. ASSUME NEW f \in fetches, Arrives(f) \/ Fails(f)
      PROVE  DataOK'
  BY <1>2, ArrivalKeepsData, FailureKeepsData
<1>3. CASE Expire
  BY <1>3 DEF Expire, DataOK, Known, ui
<1>4. ASSUME NEW d \in DOMAIN library, NEW status \in Statuses,
             library' = [library EXCEPT ![d] = status],
             cache' \in {cache, Nothing}, index' \in {index, Nothing},
             UNCHANGED <<fetches, calls, hooks, query>>
      PROVE  DataOK'
  <2>1. library' \in Libraries
    BY <1>4, LibraryKeeps DEF DataOK
  <2> QED BY <1>4, <2>1 DEF DataOK, Known
<1>5. ASSUME NEW d \in DOMAIN library, Upload(d)
      PROVE  DataOK'
  <2>1. "processing" \in Statuses
    BY DEF Statuses
  <2> QED BY <1>4, <1>5, <2>1 DEF Upload, InvalidateCorpus, ui
<1>6. ASSUME NEW d \in DOMAIN library, NEW status \in {"processing", "completed"},
             Becomes(d, status)
      PROVE  DataOK'
  <2>1. status \in Statuses
    BY DEF Statuses
  <2> QED BY <1>4, <1>6, <2>1 DEF Becomes, memory, ui
<1>7. CASE Close \/ Activate
  BY <1>0, <1>7, UnloadKeepsData DEF Close, Activate
<1>8. CASE LeaveChat
  BY <1>0, <1>8, UnloadKeepsData DEF LeaveChat, ui
<1>9. CASE Open
  <2>1. Mounted(Blank).dep = Blank /\ SlotOK(Mounted(Blank))
    BY <1>0 DEF Mounted, SlotOK
  <2>2. query' \in Queries /\ library' = library /\ Load("palette", Mounted(Blank))
    BY <1>0, <1>9 DEF Open
  <2>3. DOMAIN Mounted(Blank) = Slot
    BY <1>0, NewSlots
  <2> QED BY <1>0, <2>1, <2>2, <2>3, LoadKeepsData
<1>10. ASSUME NEW dep \in Queries
       PROVE  LET slot == Rerun(hooks["palette"], dep)
              IN  DOMAIN slot = Slot /\ slot.dep = dep /\ SlotOK(slot)
  <2>1. /\ DOMAIN Rerun(hooks["palette"], dep) = Slot
        /\ Rerun(hooks["palette"], dep).dep = dep
        /\ Rerun(hooks["palette"], dep).data = hooks["palette"].data
    BY <1>0 DEF Rerun, Slot
  <2> QED BY <2>1 DEF SlotOK, DataOK
<1>11. CASE Debounced
  <2>1. /\ query' = query /\ library' = library
        /\ Load("palette", Rerun(hooks["palette"], query))
    BY <1>11 DEF Debounced
  <2> QED BY <1>0, <1>10, <2>1, LoadKeepsData
<1>12. CASE Retry
  <2> DEFINE slot == Retried(hooks["palette"])
  <2>1. hooks["palette"].status = "error"
    BY <1>12 DEF Retry, Shown
  <2>2. hooks["palette"].dep \in Queries
    BY <2>1 DEF DataOK, SlotOK
  <2>3. DOMAIN slot = Slot /\ slot.dep = hooks["palette"].dep /\ slot.data = Nothing
    BY <1>0 DEF Retried, Rerun, Slot
  <2>4. query' = query /\ library' = library /\ Load("palette", slot)
    BY <1>12 DEF Retry
  <2> HIDE DEF slot
  <2>5. SlotOK(slot)
    BY <2>2, <2>3 DEF SlotOK
  <2> QED BY <1>0, <2>2, <2>3, <2>4, <2>5, LoadKeepsData
<1>13. ASSUME NEW scope \in Scopes, ShowScope(scope)
       PROVE  DataOK'
  <2>1. /\ query' = query /\ library' = library
        /\ \/ Load("scope", Mounted(scope))
           \/ Load("scope", Rerun(hooks["scope"], scope))
    BY <1>13 DEF ShowScope, ui
  <2>2. DOMAIN Mounted(scope) = Slot /\ DOMAIN Rerun(hooks["scope"], scope) = Slot
    BY <1>0, NewSlots
  <2> QED BY <1>0, <2>1, <2>2, LoadKeepsData
<1>14. ASSUME NEW q \in Queries, Type(q)
       PROVE  DataOK'
  BY <1>14 DEF Type, DataOK, memory
<1>15. CASE (\E i \in 1 .. TotalCap : PressKey(i) \/ Point(i)) \/ UNCHANGED vars
  <2>1. UNCHANGED <<library, memory, query>>
    BY <1>15 DEF PressKey, Point, vars, ui
  <2> QED BY <2>1 DEF DataOK, memory
<1> QED BY <1>1, <1>2, <1>3, <1>5, <1>6, <1>7, <1>8, <1>9, <1>11, <1>12, <1>13, <1>14, <1>15
        DEF Next

\* However requests are joined, aborted, overtaken and cached by the palette
\* and the scope counter, all three hold after every step (lib/api.ts,
\* lib/use-async.ts).
THEOREM PaletteInvariance == Spec => [](HooksOK /\ CacheOK /\ DataOK)
<1>1. HooksOK /\ CacheOK /\ DataOK /\ [Next]_(vars) => HooksOK' /\ CacheOK' /\ DataOK'
  BY HooksKeep, CacheKeeps, DataKeeps
<1> QED BY <1>1, HooksStart, CacheStarts, DataStarts, PTL DEF Spec

\* Results that are not marked as being reloaded are those of the query the
\* loader last ran with.
THEOREM ResultsOfTheQuery == Spec => []ResultsAreForTheQuery
<1>1. HooksOK => ResultsAreForTheQuery
  BY DEF HooksOK
<1> QED BY <1>1, PaletteInvariance, PTL

\* The corpus and the cache miss no document uploaded here, unless an older
\* answer was on its way when it was.
THEOREM UploadsAreFound == Spec => []UploadsAreIndexed
<1>1. CacheOK => UploadsAreIndexed
  BY DEF CacheOK
<1> QED BY <1>1, PaletteInvariance, PTL

\* What is found in an index is accounted for by what is shown of it.
LEMMA ResponsesAddUp ==
    ASSUME NEW q \in Queries, NEW rows \in Libraries
    PROVE  Accounted[q][rows]
<1>1. DOMAIN rows = DOMAIN Name
  BY EveryStatus
<1>2. IsIndex(Hits(Response(q, rows)))
  <2>1. CASE q = Blank
    BY <1>1, <2>1, SuggestionsAreIndex DEF Hits, Response
  <2>2. CASE q # Blank
    BY <1>1, <2>2, CorpusIsIndex, ScoredIsIndex, PaletteAssumption DEF Hits, Response
  <2> QED BY <2>1, <2>2
<1>3. Accounted[q][rows] = AddUp(GroupHits(Hits(Response(q, rows))), Hits(Response(q, rows)))
  BY DEF Accounted, Found
<1> QED BY <1>2, <1>3, GroupsAddUp

\* For every library, query and set of caps: what the palette shows accounts
\* for everything that matches, and the cap on the whole hides no kind of hit
\* altogether (groupHits of lib/search).
THEOREM MatchesAreAccounted == Spec => []EveryMatchIsAccounted
<1>1. DataOK => EveryMatchIsAccounted
  <2> SUFFICES ASSUME DataOK, hooks["palette"].data # Nothing
               PROVE  Accounted[hooks["palette"].data.query][hooks["palette"].data.rows]
    BY DEF EveryMatchIsAccounted
  <2>1. PICK q \in Queries, rows \in Libraries : hooks["palette"].data = Response(q, rows)
    BY DEF DataOK, SlotOK, Responses
  <2>2. Response(q, rows).query = q /\ Response(q, rows).rows = rows
    BY DEF Response
  <2> QED BY <2>1, <2>2, ResponsesAddUp
<1> QED BY <1>1, PaletteInvariance, PTL

-----------------------------------------------------------------------------
(***************************************************************************)
(* The writing side of search-service.                                     *)
(***************************************************************************)
Working == [at : Index!Steps, doc : Documents \cup {NoDocument}, next : 1..Length,
            using : Threads \cup {NoStore}]

(***************************************************************************)
(* A request that is at its n-th chunk has all earlier ones in the table,  *)
(* unless its document was deleted under it.                               *)
(***************************************************************************)
Written(rows, d, n) == \A i \in 1..Length : i < n => <<d, i>> \in rows

IndexInv ==
    /\ documents \subseteq Documents
    /\ table \subseteq Index!Chunks
    /\ thread \in [Threads -> Working]
    /\ answered \subseteq documents
    /\ store \in Threads \cup {NoStore}
    /\ \A t \in Threads : thread[t].at = "add" /\ thread[t].doc \in documents
                             => Written(table, thread[t].doc, thread[t].next)
    /\ \A t \in Threads : thread[t].at # "add" => thread[t].next = 1
    /\ \A d \in answered : Written(table, d, Length + 1)
    /\ \A c \in table : c[1] \in documents

LEMMA NextStep ==
    ASSUME NEW r \in Working, NEW step \in Index!Steps
    PROVE  [r EXCEPT !.at = step] = [at |-> step, doc |-> r.doc, next |-> r.next, using |-> r.using]
BY DEF Working

LEMMA NextChunk ==
    ASSUME NEW r \in Working, NEW n \in 1..Length
    PROVE  [r EXCEPT !.next = n] = [at |-> r.at, doc |-> r.doc, next |-> n, using |-> r.using]
BY DEF Working

LEMMA NextStore ==
    ASSUME NEW r \in Working, NEW s \in Threads \cup {NoStore}
    PROVE  [r EXCEPT !.using = s] = [at |-> r.at, doc |-> r.doc, next |-> r.next, using |-> s]
BY DEF Working

LEMMA IdleWorks == Index!Idle \in Working /\ Index!Idle.at = "idle" /\ Index!Idle.next = 1
BY SearchAssumption DEF Index!Idle, Working, Index!Steps

\* A thread goes on without storing anything.
LEMMA OneThreadMoves ==
    ASSUME IndexInv, NEW t \in Threads, NEW w \in Working,
           thread' = [thread EXCEPT ![t] = w], w.next = 1,
           store' \in Threads \cup {NoStore},
           UNCHANGED <<documents, table, answered>>
    PROVE  IndexInv'
<1>1. thread' \in [Threads -> Working]
  BY DEF IndexInv
<1>2. \A u \in Threads : thread'[u] = IF u = t THEN w ELSE thread[u]
  BY DEF IndexInv
<1>3. table' = table /\ documents' = documents /\ answered' = answered
  OBVIOUS
<1>4. \A u \in Threads : thread'[u].at # "add" => thread'[u].next = 1
  BY <1>2 DEF IndexInv
<1>5. Written(table, w.doc, w.next)
  BY DEF Written
<1>6. \A u \in Threads : thread'[u].at = "add" /\ thread'[u].doc \in documents
                                               => Written(table, thread'[u].doc, thread'[u].next)
  BY <1>2, <1>5 DEF IndexInv
<1> QED BY <1>1, <1>3, <1>4, <1>6 DEF IndexInv

LEMMA OneThreadSteps ==
    ASSUME IndexInv, NEW t \in Threads, NEW step \in Index!Steps, Index!Moves(t, step),
           thread[t].at # "add",
           store' \in Threads \cup {NoStore},
           UNCHANGED <<documents, table, answered>>
    PROVE  IndexInv'
<1>1. thread[t] \in Working /\ thread[t].next = 1
  BY DEF IndexInv
<1>2. PICK w \in Working : w = [thread[t] EXCEPT !.at = step]
  BY <1>1, NextStep DEF Working
<1>3. w.next = 1
  BY <1>1, <1>2, NextStep
<1>4. thread' = [thread EXCEPT ![t] = w]
  BY <1>2 DEF Index!Moves
<1> QED BY <1>3, <1>4, OneThreadMoves

LEMMA IndexStarts == Index!Init => IndexInv
<1> SUFFICES ASSUME Index!Init PROVE IndexInv
  OBVIOUS
<1>1. table = {}
  BY DEF Index!Init
<1>2. thread \in [Threads -> Working] /\ \A t \in Threads : thread[t] = Index!Idle
  BY IdleWorks DEF Index!Init
<1>3. \A t \in Threads : thread[t].at = "idle" /\ thread[t].next = 1
  BY <1>2, IdleWorks
<1> QED BY <1>1, <1>2, <1>3 DEF Index!Init, IndexInv

\* A chunk is upserted, and the request goes on or is answered.
LEMMA UpsertKeeps ==
    ASSUME IndexInv, NEW t \in Threads, Index!Upsert(t)
    PROVE  IndexInv'
<1> DEFINE d == thread[t].doc
           n == thread[t].next
<1>1. CASE Index!Refused(t)
  <2>1. /\ thread' = [thread EXCEPT ![t] = Index!Idle]
        /\ UNCHANGED <<documents, table, answered, store>>
    BY <1>1 DEF Index!Upsert, Index!Ends
  <2>2. store' \in Threads \cup {NoStore}
    BY <2>1 DEF IndexInv
  <2> QED BY <2>1, <2>2, IdleWorks, OneThreadMoves
<1>2. CASE ~Index!Refused(t)
  <2>1. d \in documents /\ d \in Documents /\ n \in 1..Length /\ Written(table, d, n)
    BY <1>2 DEF Index!Refused, Index!Upsert, IndexInv, Working
  <2>2. table' = table \cup {<<d, n>>} /\ Index!Stored(t) /\ documents' = documents /\ store' = store
    BY <1>2 DEF Index!Upsert
  <2>3. <<d, n>> \in Index!Chunks
    BY <2>1 DEF Index!Chunks
  <2>4. table' \subseteq Index!Chunks
    BY <2>2, <2>3 DEF IndexInv
  <2>5. <<d, n>> \in table' /\ \A c \in table' : c = <<d, n>> \/ c \in table
    BY <2>2
  <2>6. \A c \in table : c \in table'
    BY <2>2
  <2>7. \A e \in Documents : \A k \in Nat : Written(table, e, k) => Written(table', e, k)
    BY <2>6 DEF Written, Index!Chunks
  <2>8. Written(table', d, n + 1)
    <3> SUFFICES ASSUME NEW i \in 1..Length, i < n + 1 PROVE <<d, i>> \in table'
      BY DEF Written
    <3>1. CASE i = n
      BY <3>1, <2>5
    <3>2. CASE i < n
      <4>1. <<d, i>> \in table
        BY <3>2, <2>1 DEF Written
      <4> QED BY <4>1, <2>1, <2>6 DEF Index!Chunks
    <3> QED BY <3>1, <3>2, <2>1
  <2>9. \A c \in table' : c[1] \in documents'
    BY <2>1, <2>2, <2>5 DEF IndexInv
  <2>10. \A u \in Threads : thread[u].next \in Nat /\ thread[u].doc \in Documents \cup {NoDocument}
    BY DEF IndexInv, Working
  <2>11. \A u \in Threads : thread[u].at = "add" /\ thread[u].doc \in documents
                                                 => Written(table', thread[u].doc, thread[u].next)
    BY <2>7, <2>10 DEF IndexInv
  <2>12. CASE Index!WasLast(t)
    <3>1. n = Length /\ thread' = [thread EXCEPT ![t] = Index!Idle] /\ answered' = answered \cup {d}
      BY <2>1, <2>2, <2>12 DEF Index!Stored, Index!WasLast, Index!Ends
    <3>2. thread' \in [Threads -> Working]
      BY <3>1, IdleWorks DEF IndexInv
    <3>3. \A u \in Threads : thread'[u] = IF u = t THEN Index!Idle ELSE thread[u]
      BY <3>1 DEF IndexInv
    <3>4. \A u \in Threads : thread'[u].at # "add" => thread'[u].next = 1
      BY <3>3, IdleWorks DEF IndexInv
    <3>5. \A u \in Threads : thread'[u].at = "add" => thread'[u] = thread[u]
      BY <3>3, IdleWorks
    <3>6. \A u \in Threads : thread'[u].at = "add" /\ thread'[u].doc \in documents'
                                                   => Written(table', thread'[u].doc, thread'[u].next)
      BY <3>5, <2>2, <2>11
    <3>7. \A e \in answered' : Written(table', e, Length + 1)
      BY <3>1, <2>7, <2>8, SearchAssumption DEF IndexInv
    <3> HIDE DEF d, n
    <3> QED BY <2>2, <2>1, <2>4, <2>9, <3>1, <3>2, <3>4, <3>6, <3>7 DEF IndexInv
  <2>13. CASE ~Index!WasLast(t)
    <3> DEFINE w == [at |-> "add", doc |-> d, next |-> n + 1, using |-> thread[t].using]
    <3>1. answered' = answered
      BY <2>2, <2>13 DEF Index!Stored
    <3>2. n + 1 \in 1..Length
      BY <2>1, <2>13, SearchAssumption DEF Index!WasLast
    <3>3. w \in Working
      BY <3>2, <2>1 DEF Working, Index!Steps, IndexInv
    <3>4. thread' = [thread EXCEPT ![t] = w]
      <4>1. thread' = [thread EXCEPT ![t].at = "add", ![t].next = @ + 1]
        BY <2>2, <2>13 DEF Index!Stored
      <4>2. thread[t] \in Working
        BY DEF IndexInv
      <4>3. [[thread[t] EXCEPT !.at = "add"] EXCEPT !.next = thread[t].next + 1] = w
        <5>1. PICK r \in Working : r = [thread[t] EXCEPT !.at = "add"]
          BY <4>2, NextStep DEF Working, Index!Steps
        <5>2. r = [at |-> "add", doc |-> d, next |-> n, using |-> thread[t].using]
          BY <4>2, <5>1, NextStep DEF Index!Steps
        <5>3. [r EXCEPT !.next = n + 1] = w
          BY <5>2, <3>2, NextChunk
        <5> QED BY <5>1, <5>3
      <4> QED BY <4>1, <4>3
    <3>5. \A u \in Threads : thread'[u] = IF u = t THEN w ELSE thread[u]
      BY <3>4 DEF IndexInv
    <3>6. thread' \in [Threads -> Working]
      BY <3>4, <3>3 DEF IndexInv
    <3>7. \A u \in Threads : thread'[u].at # "add" => thread'[u].next = 1
      BY <3>5 DEF IndexInv
    <3>8. thread'[t].doc = d /\ thread'[t].next = n + 1
      BY <3>5
    <3>9. \A u \in Threads : u # t => thread'[u] = thread[u]
      BY <3>5
    <3> HIDE DEF w, d, n
    <3>10. \A u \in Threads : thread'[u].at = "add" /\ thread'[u].doc \in documents'
                                                    => Written(table', thread'[u].doc, thread'[u].next)
      BY <3>8, <3>9, <2>2, <2>8, <2>11
    <3>11. \A e \in answered' : Written(table', e, Length + 1)
      BY <3>1, <2>7, SearchAssumption DEF IndexInv
    <3> QED BY <2>2, <2>4, <2>9, <3>1, <3>6, <3>7, <3>10, <3>11 DEF IndexInv
  <2> QED BY <2>12, <2>13
<1> QED BY <1>1, <1>2

LEMMA DeleteKeeps ==
    ASSUME IndexInv, NEW d \in Documents, Index!Delete(d)
    PROVE  IndexInv'
<1>1. /\ documents' = documents \ {d} /\ answered' = answered \ {d}
      /\ thread' = thread /\ store' = store
      /\ table' = {c \in table : c[1] # d}
  BY DEF Index!Delete
<1>2. table' \subseteq Index!Chunks
  BY <1>1 DEF IndexInv
<1>3. \A c \in Index!Chunks : c \in table' <=> c \in table /\ c[1] # d
  BY <1>1
<1>4. \A e \in Documents : \A k \in Nat : e # d /\ Written(table, e, k) => Written(table', e, k)
  BY <1>3 DEF Written, Index!Chunks
<1>5. \A u \in Threads : thread[u].next \in Nat
  BY DEF IndexInv, Working
<1>6. \A u \in Threads : thread[u].at = "add" /\ thread[u].doc \in documents \ {d}
                                              => Written(table', thread[u].doc, thread[u].next)
  BY <1>4, <1>5 DEF IndexInv
<1>7. \A e \in answered \ {d} : Written(table', e, Length + 1)
  BY <1>4, SearchAssumption DEF IndexInv
<1>8. \A c \in table' : c[1] \in documents \ {d}
  BY <1>1 DEF IndexInv
<1> QED BY <1>1, <1>2, <1>6, <1>7, <1>8 DEF IndexInv

LEMMA IndexKeeps ==
    ASSUME IndexInv, [Index!Next]_(Index!vars)
    PROVE  IndexInv'
<1> SUFFICES ASSUME Index!Next PROVE IndexInv'
  <2>1. CASE UNCHANGED Index!vars
    BY <2>1 DEF Index!vars, IndexInv, Written
  <2> QED BY <2>1
<1>1. ASSUME NEW t \in Threads, NEW d \in Documents, Index!Ask(t, d) PROVE IndexInv'
  <2> DEFINE w == [at |-> "look", doc |-> d, next |-> 1, using |-> NoStore]
  <2>1. w \in Working /\ w.next = 1
    BY SearchAssumption DEF Working, Index!Steps
  <2>3. thread' = [thread EXCEPT ![t] = w]
    BY <1>1 DEF Index!Ask
  <2>4. UNCHANGED <<documents, table, answered>> /\ store' \in Threads \cup {NoStore}
    BY <1>1 DEF Index!Ask, IndexInv
  <2> QED BY <2>1, <2>3, <2>4, OneThreadMoves
<1>2. ASSUME NEW t \in Threads, Index!Probe(t) PROVE IndexInv'
  <2>1. Index!Moves(t, "look") /\ thread[t].at = "idle" /\ UNCHANGED <<documents, table, answered, store>>
    BY <1>2 DEF Index!Probe
  <2>2. store' \in Threads \cup {NoStore}
    BY <2>1 DEF IndexInv
  <2> QED BY <2>1, <2>2, OneThreadSteps DEF Index!Steps
<1>3. ASSUME NEW t \in Threads, Index!Look(t) PROVE IndexInv'
  <2>1. PICK step \in Index!Steps : step = Index!StepOfStore
    BY DEF Index!StepOfStore, Index!Steps
  <2>2. Index!Moves(t, step) /\ thread[t].at = "look" /\ UNCHANGED <<documents, table, answered, store>>
    BY <1>3, <2>1 DEF Index!Look
  <2>3. store' \in Threads \cup {NoStore}
    BY <2>2 DEF IndexInv
  <2> QED BY <2>2, <2>3, OneThreadSteps
<1>4. ASSUME NEW t \in Threads, Index!Build(t) PROVE IndexInv'
  <2>1. Index!Moves(t, "assign") /\ thread[t].at = "build" /\ UNCHANGED <<documents, table, answered, store>>
    BY <1>4 DEF Index!Build
  <2>2. store' \in Threads \cup {NoStore}
    BY <2>1 DEF IndexInv
  <2> QED BY <2>1, <2>2, OneThreadSteps DEF Index!Steps
<1>5. ASSUME NEW t \in Threads, Index!Assign(t) PROVE IndexInv'
  <2>1. Index!Moves(t, "take") /\ thread[t].at = "assign" /\ store' = t
        /\ UNCHANGED <<documents, table, answered>>
    BY <1>5 DEF Index!Assign
  <2> QED BY <2>1, OneThreadSteps DEF Index!Steps
<1>6. ASSUME NEW t \in Threads, Index!Take(t) PROVE IndexInv'
  <2>1. /\ UNCHANGED <<documents, table, answered, store>>
        /\ store \in Threads \cup {NoStore} /\ thread[t].at = "take"
    BY <1>6 DEF Index!Take, IndexInv
  <2>2. CASE thread[t].doc = NoDocument
    BY <2>1, <2>2, <1>6, IdleWorks, OneThreadMoves DEF Index!Take, Index!Ends
  <2>3. CASE thread[t].doc # NoDocument
    <3> DEFINE w == [at |-> "embed", doc |-> thread[t].doc, next |-> thread[t].next, using |-> store]
    <3>1. thread[t] \in Working /\ thread[t].next = 1
      BY <2>1 DEF IndexInv
    <3>2. w \in Working /\ w.next = 1
      BY <3>1, <2>1 DEF Working, Index!Steps
    <3>3. thread' = [thread EXCEPT ![t].at = "embed", ![t].using = store]
      BY <1>6, <2>3 DEF Index!Take
    <3>4. [[thread[t] EXCEPT !.at = "embed"] EXCEPT !.using = store] = w
      <4>1. PICK r \in Working : r = [thread[t] EXCEPT !.at = "embed"]
        BY <3>1, NextStep DEF Working, Index!Steps
      <4>2. r = [at |-> "embed", doc |-> thread[t].doc, next |-> thread[t].next,
                 using |-> thread[t].using]
        BY <3>1, <4>1, NextStep DEF Index!Steps
      <4>3. [r EXCEPT !.using = store] = w
        BY <4>2, <2>1, NextStore
      <4> QED BY <4>1, <4>3
    <3>5. thread' = [thread EXCEPT ![t] = w]
      BY <3>3, <3>4
    <3> HIDE DEF w
    <3> QED BY <2>1, <3>2, <3>5, OneThreadMoves
  <2> QED BY <2>2, <2>3
<1>7. ASSUME NEW t \in Threads, Index!Embed(t) PROVE IndexInv'
  <2>1. Index!Moves(t, "add") /\ thread[t].at = "embed" /\ UNCHANGED <<documents, table, answered, store>>
    BY <1>7 DEF Index!Embed
  <2>2. store' \in Threads \cup {NoStore}
    BY <2>1 DEF IndexInv
  <2> QED BY <2>1, <2>2, OneThreadSteps DEF Index!Steps
<1>8. ASSUME NEW t \in Threads, Index!Fail(t) PROVE IndexInv'
  <2>1. thread' = [thread EXCEPT ![t] = Index!Idle] /\ UNCHANGED <<documents, table, answered, store>>
    BY <1>8 DEF Index!Fail, Index!Ends
  <2>2. store' \in Threads \cup {NoStore}
    BY <2>1 DEF IndexInv
  <2> QED BY <2>1, <2>2, IdleWorks, OneThreadMoves
<1>9. CASE Index!LoseConnections
  BY <1>9 DEF Index!LoseConnections, IndexInv, Written
<1>10. CASE Index!Restart
  <2>1. thread' = [t \in Threads |-> Index!Idle] /\ store' = NoStore /\ UNCHANGED <<documents, table, answered>>
    BY <1>10 DEF Index!Restart
  <2>2. thread' \in [Threads -> Working] /\ \A t \in Threads : thread'[t] = Index!Idle
    BY <2>1, IdleWorks
  <2>3. \A t \in Threads : thread'[t].at # "add" /\ thread'[t].next = 1
    BY <2>2, IdleWorks
  <2> QED BY <2>1, <2>2, <2>3 DEF IndexInv, Written
<1>11. ASSUME NEW t \in Threads, Index!Serves(t) PROVE IndexInv'
  <2> QED BY <1>11, <1>3, <1>4, <1>5, <1>6, <1>7, <1>8, UpsertKeeps DEF Index!Serves
<1> QED BY <1>1, <1>2, <1>9, <1>10, <1>11, DeleteKeeps DEF Index!Next

-----------------------------------------------------------------------------
(***************************************************************************)
(* The inductive invariant holds: every request has stored the chunks      *)
(* before the one it is at.                                                *)
(***************************************************************************)
THEOREM IndexInvariance ==
    Index!Spec => []IndexInv
BY IndexStarts, IndexKeeps, PTL DEF Index!Spec

LEMMA RowsAreWritten ==
    ASSUME IndexInv
    PROVE  AnsweredIsFound /\ DeletedIsGone
<1>1. AnsweredIsFound
  <2> SUFFICES ASSUME NEW d \in answered, NEW i \in 1..Length PROVE <<d, i>> \in table
    BY DEF AnsweredIsFound
  <2> QED BY SearchAssumption DEF IndexInv, Written
<1>2. DeletedIsGone
  BY DEF DeletedIsGone, IndexInv
<1> QED BY <1>1, <1>2

(***************************************************************************)
(* An answered document is found whole, whatever requests, restarts, lost  *)
(* connections and deletions come after it.                                *)
(***************************************************************************)
THEOREM AnsweredStays ==
    Index!Spec => []AnsweredIsFound
BY IndexInvariance, RowsAreWritten, PTL

(***************************************************************************)
(* A request that is under way when its document is deleted brings no      *)
(* chunk of it back.                                                       *)
(***************************************************************************)
THEOREM NothingComesBack ==
    Index!Spec => []DeletedIsGone
BY IndexInvariance, RowsAreWritten, PTL
=============================================================================
