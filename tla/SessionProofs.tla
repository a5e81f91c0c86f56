--------------------------- MODULE SessionProofs ---------------------------
(***************************************************************************)
(* For every set of addresses, passwords and pages, and any number of      *)
(* visits: a lock-out of the sign-in page has its timer, and the screen    *)
(* that asks for the verification of an address names the right one.  And  *)
(* for every set of files, limit and number of retries: the queue of the   *)
(* upload page keeps its limit and what was cancelled, and lets no file    *)
(* wait for nothing.                                                       *)
(***************************************************************************)
EXTENDS MCSession, Integers, FiniteSetTheorems, WellFoundedInduction, TLAPS

-----------------------------------------------------------------------------
RegisterFields ==
    {"values", "accepted", "status", "errorOn", "resend", "sentTo", "resends"}

\* From the moment the form is sent until it is edited again, which is not
\* before it is answered, the address in it is the one that was sent.
RegisterOK(s) ==
    /\ DOMAIN s = RegisterFields
    /\ DOMAIN s.values = Fields
    /\ s.status \in {"submitting", "success"} => s.sentTo = s.values.email

MemoryOK ==
    /\ mem = [attempts |-> mem.attempts, timers |-> mem.timers, calls |-> mem.calls,
              late |-> mem.late, pushing |-> mem.pushing]
    /\ mem.attempts \in 0 .. Attempts
    /\ mem.timers = IF mem.attempts = 0 THEN 1 ELSE 0

SessionInv == MemoryOK /\ (path = "/register" => RegisterOK(st))

LEMMA RegisterOpens == \A p : p = "/register" => RegisterOK(Content(p))
BY DEF RegisterOK, RegisterFields, Content, EXCLUDED, PageOfPath,
       RegisterPage, Fields

LEMMA NoMemoryIsOK == mem' = NoMemory => MemoryOK'
BY DEF MemoryOK, NoMemory, Attempts

LEMMA SessionStarts == Init => SessionInv
BY RegisterOpens DEF SessionInv, MemoryOK, Init, NoMemory, Attempts

\* What signIn makes of the memory, whoever hears of it.
LEMMA SignInKeepsMemory ==
    ASSUME MemoryOK, NEW good \in BOOLEAN, NEW asked,
           asked.attempts = mem.attempts, asked.timers = mem.timers,
           asked = [attempts |-> asked.attempts, timers |-> asked.timers,
                    calls |-> asked.calls, late |-> asked.late,
                    pushing |-> asked.pushing],
           NEW result, mem' = Pushed(signIn(asked, good).mem, result)
    PROVE  MemoryOK'
<1> DEFINE done == signIn(asked, good).mem
<1>1. /\ done = [attempts |-> done.attempts, timers |-> done.timers,
                 calls |-> done.calls, late |-> done.late, pushing |-> done.pushing]
      /\ done.attempts \in 0 .. Attempts
      /\ done.timers = IF done.attempts = 0 THEN 1 ELSE 0
  <2>1. CASE mem.attempts = 0
    BY <2>1 DEF MemoryOK, signIn
  <2>2. CASE mem.attempts # 0 /\ good
    BY <2>2 DEF MemoryOK, signIn, Attempts
  <2>3. CASE mem.attempts = 1 /\ ~ good
    <3>1. /\ mem.timers = 0 /\ asked.timers + 1 = 1
          /\ done = [asked EXCEPT !.attempts = 0, !.timers = @ + 1]
      BY <2>3 DEF MemoryOK, signIn
    <3>2. done.timers = 1 /\ done.attempts = 0
      BY <3>1
    <3>3. done = [attempts |-> done.attempts, timers |-> done.timers,
                  calls |-> done.calls, late |-> done.late, pushing |-> done.pushing]
      BY <3>1
    <3> HIDE DEF done
    <3> QED BY <3>2, <3>3 DEF Attempts
  <2>4. CASE mem.attempts > 1 /\ ~ good
    <3>1. done = [asked EXCEPT !.attempts = @ - 1]
      BY <2>4 DEF MemoryOK, signIn
    <3>2. /\ done.attempts = mem.attempts - 1 /\ done.timers = mem.timers
          /\ done = [attempts |-> done.attempts, timers |-> done.timers,
                     calls |-> done.calls, late |-> done.late,
                     pushing |-> done.pushing]
      BY <3>1
    <3> HIDE DEF done
    <3>3. /\ mem.attempts - 1 \in 0 .. Attempts /\ mem.attempts - 1 # 0
          /\ mem.timers = 0
      BY <2>4 DEF MemoryOK, Attempts
    <3> QED BY <3>2, <3>3
  <2> QED BY <2>1, <2>2, <2>3, <2>4 DEF MemoryOK
<1>2. mem' = [done EXCEPT !.pushing = @ \/ result = "ok"]
  BY DEF Pushed
<1> HIDE DEF done
<1> QED BY <1>1, <1>2 DEF MemoryOK

\* Leaving a page and arriving by a push touch the calls only.
LEMMA LeavingKeepsMemory == ASSUME MemoryOK, mem' = Left(mem) PROVE MemoryOK'
BY DEF MemoryOK, Left

LEMMA AccountKeeps ==
    ASSUME SessionInv, SignInSteps
    PROVE  SessionInv'
<1>1. CASE \/ \E good \in BOOLEAN : SignInAnswers(good) \/ LateAnswers(good)
           \/ LockEnds
  <2>1. path' = path /\ (path = "/register" => RegisterOK(st)')
    <3>1. path' = path /\ (path = "/register" => UNCHANGED st)
      BY <1>1 DEF SignInAnswers, LateAnswers, LockEnds
    <3> QED BY <3>1 DEF SessionInv
  <2>2. MemoryOK'
    <3>1. CASE LockEnds
      <4>1. mem.timers = 1
        BY <3>1 DEF SessionInv, MemoryOK, LockEnds
      <4>2. mem' = [mem EXCEPT !.attempts = 3, !.timers = @ - 1]
        BY <3>1 DEF LockEnds, Attempts
      <4>3. /\ mem'.attempts = 3 /\ mem'.timers = mem.timers - 1
            /\ mem' = [attempts |-> mem'.attempts, timers |-> mem'.timers,
                       calls |-> mem'.calls, late |-> mem'.late,
                       pushing |-> mem'.pushing]
        BY <4>2 DEF SessionInv, MemoryOK
      <4> QED BY <4>1, <4>3 DEF MemoryOK, Attempts
    <3>2. ASSUME NEW good \in BOOLEAN, SignInAnswers(good) PROVE MemoryOK'
      BY <3>2, SignInKeepsMemory DEF SignInAnswers, SessionInv, MemoryOK
    <3>3. ASSUME NEW good \in BOOLEAN, LateAnswers(good) PROVE MemoryOK'
      BY <3>3, SignInKeepsMemory DEF LateAnswers, SessionInv, MemoryOK
    <3> QED BY <1>1, <3>1, <3>2, <3>3
  <2> QED BY <2>1, <2>2 DEF SessionInv
<1>2. CASE SubmitLogin
  BY <1>2 DEF SessionInv, MemoryOK, SubmitLogin
<1>3. CASE \/ \E field \in {"email", "password"} :
                  \E value \in Typed(field) : TypeLogin(field, value)
           \/ Fill
  BY <1>3 DEF SessionInv, MemoryOK, TypeLogin, Fill
<1>4. CASE \E field \in Fields :
               \E value \in Typed(field) : TypeRegister(field, value)
  BY <1>4 DEF SessionInv, MemoryOK, RegisterOK, RegisterFields, TypeRegister,
              Editable, OnForm
<1>5. CASE Accept \/ Resend \/ GoBack
  BY <1>5 DEF SessionInv, MemoryOK, RegisterOK, RegisterFields, Accept,
              Resend, GoBack, OnForm, OnVerify
<1>6. CASE SubmitRegister \/ SignUpAnswers
  BY <1>6 DEF SessionInv, MemoryOK, RegisterOK, RegisterFields, SubmitRegister,
              SignUpAnswers, OnForm
<1>7. CASE \E email \in Emails : ResendAnswers(email)
  BY <1>7 DEF SessionInv, MemoryOK, RegisterOK, RegisterFields, ResendAnswers
<1> QED BY <1>1, <1>2, <1>3, <1>4, <1>5, <1>6, <1>7 DEF SignInSteps

LEMMA FrameLeavesTheAccount ==
    ASSUME ShellSteps PROVE UNCHANGED path
BY DEF ShellSteps, toggle, Dismiss, Resize, Lift, Tick,
       CountsRead, CountsAnswer, CountsFail

LEMMA SessionKeeps ==
    ASSUME SessionInv, [Next]_(vars)
    PROVE  SessionInv'
<1>1. CASE \E p \in Pages : Goto(p)
  BY <1>1, RegisterOpens, LeavingKeepsMemory DEF SessionInv, Goto
<1>2. CASE \E p \in {"/login", "/dashboard"}, asked \in BOOLEAN : Load(p, asked)
  BY <1>2, NoMemoryIsOK DEF SessionInv, Load
<1>3. CASE Library \/ Frame \/ UNCHANGED vars
  <2>1. UNCHANGED <<path, st, mem>>
    BY <1>3, FrameLeavesTheAccount DEF Library, Frame, vars
  <2> QED BY <2>1 DEF SessionInv, MemoryOK
<1>4. CASE Account
  BY <1>4, AccountKeeps DEF Account
<1>5. CASE Push
  <2>1. MemoryOK'
    BY <1>5, LeavingKeepsMemory DEF SessionInv, Push
  <2> QED BY <1>5, <2>1 DEF SessionInv, Push
<1> QED BY <1>1, <1>2, <1>3, <1>4, <1>5 DEF Next

\* Whatever is typed, sent, left and loaded again: SessionInv holds after
\* every step (login-view.tsx, register-view.tsx, lib/api.ts).
THEOREM SessionInvariance == Spec => []SessionInv
<1>1. SessionInv /\ [Next]_(vars) => SessionInv'
  BY SessionKeeps
<1> QED BY <1>1, SessionStarts, PTL DEF Spec

\* A lock-out has exactly one timer, also when sign-ins overlap: each attempt
\* is counted when it is answered, not when it was sent (api.ts:167).
THEOREM LockOutsAreTimed == Spec => []LockIsTimed
<1>1. SessionInv => LockIsTimed
  BY DEF SessionInv, MemoryOK, LockIsTimed
<1> QED BY <1>1, SessionInvariance, PTL

\* The verification screen names the address that was registered, although
\* it reads it from the form (register-view.tsx:165).
THEOREM TheShownIsVerified == Spec => []VerificationIsForTheShown
<1>1. SessionInv => VerificationIsForTheShown
  BY DEF SessionInv, RegisterOK, VerificationIsForTheShown, OnVerify
<1> QED BY <1>1, SessionInvariance, PTL

-----------------------------------------------------------------------------
(***************************************************************************)
(* The upload page.                                                        *)
(***************************************************************************)

\* The admission takes the first n of the queued: numbering each by how many
\* are before it puts them one to one into 0 .. n - 1.
LEMMA FirstAreAtMost ==
    ASSUME NEW n \in Nat, NEW Q, Q \subseteq Files
    PROVE  LET F == {f \in Q : Cardinality({g \in Q : g < f}) < n}
           IN  IsFiniteSet(F) /\ Cardinality(F) <= n
<1> DEFINE Before(f) == {g \in Q : g < f}
           F == {f \in Q : Cardinality(Before(f)) < n}
           place == [f \in F |-> Cardinality(Before(f))]
<1>1. IsFiniteSet(Q)
  BY UploadAssumption, FS_Subset
<1>2. \A f \in Q : IsFiniteSet(Before(f)) /\ Cardinality(Before(f)) \in Nat
  BY <1>1, FS_Subset, FS_CardinalityType
<1>3. ASSUME NEW f \in Q, NEW g \in Q, f < g
      PROVE  Cardinality(Before(f)) < Cardinality(Before(g))
  <2>0. \A x \in Q : x \in Nat
    BY UploadAssumption
  <2>1. Before(f) \subseteq Before(g) /\ f \in Before(g) /\ f \notin Before(f)
    BY <1>3, <2>0
  <2>2. Before(f) # Before(g)
    BY <2>1
  <2> QED BY <1>2, <2>1, <2>2, FS_Subset
<1>4. \A f \in F : Cardinality(Before(f)) \in 0 .. n - 1
  <2> TAKE f \in F
  <2>1. Cardinality(Before(f)) \in Nat /\ Cardinality(Before(f)) < n
    BY <1>2
  <2> HIDE DEF Before
  <2> QED BY <2>1
<1>5. \A f, g \in F : Cardinality(Before(f)) = Cardinality(Before(g)) => f = g
  <2> SUFFICES ASSUME NEW f \in F, NEW g \in F, f # g
               PROVE  Cardinality(Before(f)) # Cardinality(Before(g))
    OBVIOUS
  <2>1. f \in Nat /\ g \in Nat /\ f \in Q /\ g \in Q
    BY UploadAssumption
  <2>2. f < g \/ g < f
    BY <2>1
  <2>3. Cardinality(Before(f)) < Cardinality(Before(g))
           \/ Cardinality(Before(g)) < Cardinality(Before(f))
    BY <1>3, <2>1, <2>2
  <2> QED BY <1>2, <2>1, <2>3
<1> HIDE DEF Before
<1>6. place \in Injection(F, 0 .. n - 1)
  BY <1>4, <1>5 DEF Injection, IsInjective
<1>7. IsFiniteSet(0 .. n - 1) /\ Cardinality(0 .. n - 1) = n
  BY FS_Interval
<1>8. IsFiniteSet(F) /\ Cardinality(F) <= Cardinality(0 .. n - 1)
  BY <1>6, <1>7, FS_Injection
<1> QED BY <1>7, <1>8 DEF Before

\* A stage that comes after the transfer, or ends the job.
Past(stage) == stage \notin {"absent", "queued", "uploading"}

UploadTypes ==
    /\ jobs \in [Files -> Upload!Stages] /\ view \in [Files -> Upload!Stages]
    /\ effects \in BOOLEAN /\ clicked \in BOOLEAN /\ due \in BOOLEAN
    /\ sending \in [Files -> {0, 1}]
    /\ polled \subseteq Files

\* A file has one request, or none.  One that has it is uploading, or it was
\* cleared before it was sent; the screen shows it so once the effects of
\* the next commit are due.
TransfersAreShown ==
    \A f \in Files : sending[f] = 1 =>
        /\ jobs[f] \in {"uploading", "removed"}
        /\ view[f] = jobs[f] \/ (view[f] = "queued" /\ ~ effects)

\* What is polled is past its transfer, or a click retries it which is not
\* shown yet, and the commit whose effects ran last has it processing.
PollsArePast ==
    \A f \in polled :
        /\ Past(jobs[f]) \/ (effects /\ due)
        /\ effects \/ view[f] = "processing"

\* While the effects of a commit wait, answers come in between, and a click
\* if it was not a click that caused the commit: only the click can take a
\* file out of the queue.
CommitIsFresh ==
    effects =>
        /\ due => ~ clicked
        /\ \A f \in Files :
              /\ view[f] = "queued" =>
                    \/ jobs[f] = "queued"
                    \/ due /\ jobs[f] \in {"cancelled", "removed"}
              /\ view[f] = "processing" => Past(jobs[f])
              /\ jobs[f] = "cancelled" => f \notin polled \/ clicked \/ due

\* A cancelled job is shown as cancelled by the next commit.
CancelsShow ==
    \A f \in Files : jobs[f] = "cancelled" => due \/ view[f] = "cancelled"

UploadInv ==
    /\ UploadTypes /\ TransfersAreShown /\ PollsArePast /\ CommitIsFresh
    /\ CancelsShow /\ Upload!WithinLimit

LEMMA SameSize == \A S : Upload!Cardinality(S) = Cardinality(S)
BY DEF Upload!Cardinality, Cardinality

Busy == {f \in Files : sending[f] > 0 /\ jobs[f] = "uploading"}

LEMMA LimitIsOfBusy == Upload!WithinLimit <=> Cardinality(Busy) <= MaxConcurrent
BY SameSize DEF Upload!WithinLimit, Busy

LEMMA UploadStarts == Upload!Init => UploadInv
<1> SUFFICES ASSUME Upload!Init PROVE UploadInv
  OBVIOUS
<1> USE DEF Upload!Init
<1>1. UploadTypes
  BY DEF UploadTypes, Upload!Stages
<1>2. TransfersAreShown /\ PollsArePast /\ CommitIsFresh /\ CancelsShow
  BY DEF TransfersAreShown, PollsArePast, CommitIsFresh, CancelsShow
<1>3. Upload!WithinLimit
  <2>1. Busy = {}
    BY DEF Busy
  <2>2. Cardinality(Busy) <= MaxConcurrent
    BY <2>1, FS_EmptySet, UploadAssumption
  <2> QED BY <2>2, LimitIsOfBusy
<1> QED BY <1>1, <1>2, <1>3 DEF UploadInv

\* Whatever starts no request keeps within the limit.
LEMMA FewerKeepTheLimit ==
    ASSUME Upload!WithinLimit,
           \A f \in Files : sending'[f] > 0 /\ jobs'[f] = "uploading" =>
               sending[f] > 0 /\ jobs[f] = "uploading"
    PROVE  Upload!WithinLimit'
<1>1. IsFiniteSet(Busy) /\ Busy' \subseteq Busy
  BY UploadAssumption, FS_Subset DEF Busy
<1>2. IsFiniteSet(Busy') /\ Cardinality(Busy') <= Cardinality(Busy)
  BY <1>1, FS_Subset
<1>3. Cardinality(Busy) \in Nat /\ Cardinality(Busy') \in Nat
  BY <1>1, <1>2, FS_CardinalityType
<1>4. Cardinality(Busy) <= MaxConcurrent
  BY LimitIsOfBusy
<1>5. Cardinality(Busy') <= MaxConcurrent
  BY <1>2, <1>3, <1>4, UploadAssumption
<1>6. Upload!WithinLimit' <=> Cardinality(Busy') <= MaxConcurrent
  BY SameSize DEF Upload!WithinLimit, Busy
<1> QED BY <1>5, <1>6

LEMMA PatchReachesOne ==
    ASSUME UploadTypes, NEW f \in Files, NEW stage \in Upload!Stages,
           jobs' = Upload!Patched(f, stage)
    PROVE  /\ jobs' \in [Files -> Upload!Stages]
           /\ \A g \in Files : g # f => jobs'[g] = jobs[g]
           /\ jobs'[f] \in {jobs[f], stage}
           /\ jobs'[f] = jobs[f] => jobs' = jobs
BY DEF UploadTypes, Upload!Patched

\* A click updates the list; it takes nothing into the queue that is shown as
\* processing, and out of it only what it cancels or removes.
LEMMA ClickKeeps ==
    ASSUME UploadInv, Upload!EventsMayCome, due',
           UNCHANGED <<view, effects, clicked, polled>>,
           jobs' \in [Files -> Upload!Stages], sending' \in [Files -> {0, 1}],
           \A f \in Files : sending'[f] = 1 => sending[f] = 1 /\ jobs'[f] = jobs[f],
           \A f \in polled : Past(jobs'[f]) \/ effects,
           effects => \A f \in Files :
               /\ view[f] = "queued" => jobs'[f] \in {"queued", "cancelled", "removed"}
               /\ view[f] = "processing" => Past(jobs'[f])
    PROVE  UploadInv'
<1>0. ~ (effects /\ clicked)
  BY DEF Upload!EventsMayCome
<1>1. UploadTypes'
  BY DEF UploadInv, UploadTypes
<1>2. TransfersAreShown'
  BY DEF UploadInv, TransfersAreShown
<1>3. PollsArePast'
  BY DEF UploadInv, PollsArePast
<1>4. CommitIsFresh' /\ CancelsShow'
  BY <1>0 DEF CommitIsFresh, CancelsShow
<1>5. Upload!WithinLimit'
  <2>1. \A f \in Files : sending'[f] > 0 => sending[f] > 0 /\ jobs'[f] = jobs[f]
    <3> TAKE f \in Files
    <3>1. sending[f] \in {0, 1} /\ sending'[f] \in {0, 1}
      BY DEF UploadInv, UploadTypes
    <3> QED BY <3>1
  <2> QED BY <2>1, FewerKeepTheLimit DEF UploadInv
<1> QED BY <1>1, <1>2, <1>3, <1>4, <1>5 DEF UploadInv

\* An answer ends the transfer of a file or moves one past it.
LEMMA AnswerKeeps ==
    ASSUME UploadInv, ~ due, UNCHANGED <<view, effects, clicked, due, polled>>,
           NEW f \in Files, NEW stage \in Upload!Stages \ {"cancelled"}, Past(stage),
           jobs' = Upload!Patched(f, stage), jobs[f] \notin {"absent", "queued"},
           sending' \in [Files -> {0, 1}],
           \A g \in Files : sending'[g] = 1 => sending[g] = 1 /\ g # f
    PROVE  UploadInv'
<1>0. /\ jobs' \in [Files -> Upload!Stages]
      /\ \A g \in Files : g # f => jobs'[g] = jobs[g]
      /\ jobs'[f] \in {jobs[f], stage}
  BY PatchReachesOne DEF UploadInv
<1>1. UploadTypes'
  BY <1>0 DEF UploadInv, UploadTypes
<1>2. TransfersAreShown'
  BY <1>0 DEF UploadInv, TransfersAreShown
<1>3. PollsArePast'
  <2> SUFFICES ASSUME NEW g \in polled PROVE Past(jobs'[g])
    BY DEF UploadInv, PollsArePast
  <2>1. Past(jobs[g])
    BY DEF UploadInv, PollsArePast
  <2>2. CASE g = f
    BY <1>0, <2>1, <2>2
  <2>3. CASE g # f
    BY <1>0, <2>1, <2>3 DEF UploadInv, UploadTypes
  <2> QED BY <2>2, <2>3
<1>4. CommitIsFresh'
  <2> SUFFICES ASSUME effects, NEW g \in Files
               PROVE  /\ view[g] = "queued" => jobs'[g] = "queued"
                      /\ view[g] = "processing" => Past(jobs'[g])
                      /\ jobs'[g] = "cancelled" => g \notin polled \/ clicked
    BY DEF UploadInv, CommitIsFresh
  <2>1. /\ view[g] = "queued" => jobs[g] = "queued"
        /\ view[g] = "processing" => Past(jobs[g])
        /\ jobs[g] = "cancelled" => g \notin polled \/ clicked
    BY DEF UploadInv, CommitIsFresh
  <2> QED BY <1>0, <2>1
<1>5. CancelsShow'
  BY <1>0 DEF UploadInv, CancelsShow
<1>6. Upload!WithinLimit'
  <2>1. \A g \in Files : sending'[g] > 0 => sending[g] > 0 /\ jobs'[g] = jobs[g]
    <3> TAKE g \in Files
    <3>1. sending[g] \in {0, 1} /\ sending'[g] \in {0, 1}
      BY DEF UploadInv, UploadTypes
    <3> QED BY <1>0, <3>1
  <2> QED BY <2>1, FewerKeepTheLimit DEF UploadInv
<1> QED BY <1>1, <1>2, <1>3, <1>4, <1>5, <1>6 DEF UploadInv

\* What a click finds: no other click has moved the list since the commit
\* on the screen.
LEMMA ClickFinds ==
    ASSUME UploadInv, Upload!EventsMayCome
    PROVE  /\ ~ due /\ ~ (effects /\ clicked)
           /\ \A f \in polled :
                 /\ f \in Files /\ Past(jobs[f])
                 /\ effects \/ view[f] = "processing"
           /\ \A f \in Files : jobs[f] = "cancelled" => view[f] = "cancelled"
           /\ effects => (\A f \in Files :
                 /\ view[f] = "queued" => jobs[f] = "queued"
                 /\ view[f] = "processing" => Past(jobs[f]))
<1>1. ~ due /\ ~ (effects /\ clicked)
  BY DEF Upload!EventsMayCome
<1> QED BY <1>1 DEF UploadInv, UploadTypes, PollsArePast, CancelsShow, CommitIsFresh

LEMMA ClicksKeep ==
    ASSUME UploadInv, Upload!User
    PROVE  UploadInv'
<1>0. /\ jobs \in [Files -> Upload!Stages] /\ sending \in [Files -> {0, 1}]
      /\ \A f \in Files : sending[f] = 1 =>
             /\ jobs[f] \in {"uploading", "removed"}
             /\ view[f] \in {"queued", "uploading", "removed"}
  BY DEF UploadInv, UploadTypes, TransfersAreShown
<1>1. ASSUME NEW last \in Files, NEW invalid \in SUBSET Files, Upload!Add(last, invalid)
      PROVE  UploadInv'
  <2>0. /\ Upload!EventsMayCome /\ due'
        /\ UNCHANGED <<view, effects, clicked, sending, polled>>
    BY <1>1 DEF Upload!Add
  <2>1. jobs' = [f \in Files |-> IF f <= last /\ jobs[f] = "absent"
                                 THEN Upload!newJob(f, invalid) ELSE jobs[f]]
    BY <1>1 DEF Upload!Add
  <2>2. jobs' \in [Files -> Upload!Stages]
    BY <1>0, <2>1 DEF Upload!newJob, Upload!Stages
  <2>3. \A f \in Files : jobs[f] # "absent" => jobs'[f] = jobs[f]
    BY <2>1
  <2>4. \A f \in Files : Past(jobs[f]) => Past(jobs'[f])
    BY <2>3 DEF Past
  <2>5. /\ \A f \in polled : Past(jobs'[f])
        /\ effects => \A f \in Files :
               /\ view[f] = "queued" => jobs'[f] \in {"queued", "cancelled", "removed"}
               /\ view[f] = "processing" => Past(jobs'[f])
    BY <2>0, <2>3, <2>4, ClickFinds
  <2>6. \A f \in Files : sending'[f] = 1 => sending[f] = 1 /\ jobs'[f] = jobs[f]
    BY <1>0, <2>0, <2>3
  <2>7. sending' \in [Files -> {0, 1}]
    BY <1>0, <2>0
  <2> QED BY <2>0, <2>2, <2>5, <2>6, <2>7, ClickKeeps
<1>2. ASSUME NEW f \in Files, Upload!Retry(f)
      PROVE  UploadInv'
  <2>0. /\ Upload!EventsMayCome /\ view[f] = "failed"
        /\ jobs' = Upload!Patched(f, "queued") /\ due'
        /\ UNCHANGED <<view, effects, clicked, sending, polled>>
    BY <1>2 DEF Upload!Retry, Upload!QueueRow, Upload!InFlight
  <2>1. /\ jobs' \in [Files -> Upload!Stages]
        /\ \A g \in Files : g # f => jobs'[g] = jobs[g]
    BY <2>0, PatchReachesOne DEF UploadInv, Upload!Stages
  <2>2. /\ \A g \in polled : Past(jobs'[g]) \/ effects
        /\ effects => \A g \in Files :
               /\ view[g] = "queued" => jobs'[g] \in {"queued", "cancelled", "removed"}
               /\ view[g] = "processing" => Past(jobs'[g])
    BY <2>0, <2>1, ClickFinds
  <2>3. \A g \in Files : sending'[g] = 1 => sending[g] = 1 /\ jobs'[g] = jobs[g]
    BY <1>0, <2>0, <2>1
  <2>4. sending' \in [Files -> {0, 1}]
    BY <1>0, <2>0
  <2> QED BY <2>0, <2>1, <2>2, <2>3, <2>4, ClickKeeps
<1>3. ASSUME NEW f \in Files, Upload!Cancel(f) \/ Upload!Remove(f)
      PROVE  UploadInv'
  <2>0. PICK stage \in {"cancelled", "removed"} :
            /\ Upload!EventsMayCome
            /\ jobs' = Upload!Patched(f, stage) /\ sending' = Upload!Aborted(f) /\ due'
            /\ UNCHANGED <<view, effects, clicked, polled>>
    BY <1>3 DEF Upload!Cancel, Upload!Remove
  <2>1. /\ jobs' \in [Files -> Upload!Stages]
        /\ \A g \in Files : g # f => jobs'[g] = jobs[g]
        /\ jobs'[f] \in {jobs[f], stage}
    BY <2>0, PatchReachesOne DEF UploadInv, Upload!Stages
  <2>2. /\ sending' \in [Files -> {0, 1}] /\ sending'[f] = 0
        /\ \A g \in Files : g # f => sending'[g] = sending[g]
    BY <1>0, <2>0 DEF Upload!Aborted
  <2>3. \A g \in Files : Past(jobs[g]) => Past(jobs'[g])
    BY <2>1 DEF Past
  <2>4. /\ \A g \in polled : Past(jobs'[g])
        /\ effects => \A g \in Files :
               /\ view[g] = "queued" => jobs'[g] \in {"queued", "cancelled", "removed"}
               /\ view[g] = "processing" => Past(jobs'[g])
    BY <2>0, <2>1, <2>3, ClickFinds
  <2>5. \A g \in Files : sending'[g] = 1 => sending[g] = 1 /\ jobs'[g] = jobs[g]
    BY <2>1, <2>2
  <2> QED BY <2>0, <2>1, <2>2, <2>4, <2>5, ClickKeeps
<1>4. CASE Upload!ClearFinished
  <2>0. /\ Upload!EventsMayCome /\ due'
        /\ UNCHANGED <<view, effects, clicked, sending, polled>>
    BY <1>4 DEF Upload!ClearFinished
  <2>1. jobs' = [f \in Files |-> IF Upload!Finished(jobs[f]) THEN "removed" ELSE jobs[f]]
    BY <1>4 DEF Upload!ClearFinished
  <2>2. jobs' \in [Files -> Upload!Stages]
    BY <1>0, <2>1 DEF Upload!Stages
  <2>3. \A f \in Files : jobs'[f] \in {jobs[f], "removed"}
    BY <2>1
  <2>4. \A f \in Files : Past(jobs[f]) => Past(jobs'[f])
    BY <2>3 DEF Past
  <2>5. /\ \A f \in polled : Past(jobs'[f])
        /\ effects => \A f \in Files :
               /\ view[f] = "queued" => jobs'[f] \in {"queued", "cancelled", "removed"}
               /\ view[f] = "processing" => Past(jobs'[f])
    BY <2>0, <2>3, <2>4, ClickFinds
  <2>6. \A f \in Files : sending'[f] = 1 => sending[f] = 1 /\ jobs'[f] = jobs[f]
    BY <1>0, <2>0, <2>1 DEF Upload!Finished
  <2>7. sending' \in [Files -> {0, 1}]
    BY <1>0, <2>0
  <2> QED BY <2>0, <2>2, <2>5, <2>6, <2>7, ClickKeeps
<1>5. CASE Upload!ClearAll
  <2>0. /\ Upload!EventsMayCome /\ due' /\ sending' = [f \in Files |-> 0]
        /\ UNCHANGED <<view, effects, clicked, polled>>
    BY <1>5 DEF Upload!ClearAll
  <2>1. jobs' = [f \in Files |-> IF Upload!Present(jobs[f]) THEN "removed" ELSE jobs[f]]
    BY <1>5 DEF Upload!ClearAll
  <2>2. jobs' \in [Files -> Upload!Stages]
    BY <1>0, <2>1 DEF Upload!Stages
  <2>3. \A f \in Files : jobs'[f] \in {jobs[f], "removed"}
    BY <2>1
  <2>4. \A f \in Files : Past(jobs[f]) => Past(jobs'[f])
    BY <2>3 DEF Past
  <2>5. /\ \A f \in polled : Past(jobs'[f])
        /\ effects => \A f \in Files :
               /\ view[f] = "queued" => jobs'[f] \in {"queued", "cancelled", "removed"}
               /\ view[f] = "processing" => Past(jobs'[f])
    BY <2>0, <2>3, <2>4, ClickFinds
  <2>6. \A f \in Files : sending'[f] = 1 => sending[f] = 1 /\ jobs'[f] = jobs[f]
    BY <2>0
  <2>7. sending' \in [Files -> {0, 1}]
    BY <2>0
  <2> QED BY <2>0, <2>2, <2>5, <2>6, <2>7, ClickKeeps
<1> QED BY <1>1, <1>2, <1>3, <1>4, <1>5 DEF Upload!User

LEMMA AnswersKeep ==
    ASSUME UploadInv, NEW f \in Files,
           Upload!UploadStored(f) \/ Upload!UploadFails(f) \/ Upload!Poll(f)
    PROVE  UploadInv' /\ jobs[f] # "cancelled"
<1>0. /\ jobs \in [Files -> Upload!Stages] /\ sending \in [Files -> {0, 1}]
      /\ sending[f] = 1 => jobs[f] \in {"uploading", "removed"}
      /\ ~ due /\ ~ (effects /\ clicked)
      /\ UNCHANGED <<view, effects, clicked, due, polled>>
  BY DEF UploadInv, UploadTypes, TransfersAreShown, Upload!UploadStored,
         Upload!UploadFails, Upload!Poll, Upload!EventsMayCome
<1>1. CASE Upload!UploadStored(f) \/ Upload!UploadFails(f)
  <2>1. PICK stage \in {"processing", "failed", "refused"} :
            jobs' = Upload!Patched(f, stage)
    BY <1>1 DEF Upload!UploadStored, Upload!UploadFails, Upload!errorFor
  <2>2. sending[f] > 0 /\ sending' = [sending EXCEPT ![f] = @ - 1]
    BY <1>1 DEF Upload!UploadStored, Upload!UploadFails
  <2>3. sending[f] = 1 /\ jobs[f] \in {"uploading", "removed"}
    BY <1>0, <2>2
  <2>4. /\ sending' \in [Files -> {0, 1}]
        /\ \A g \in Files : sending'[g] = 1 => sending[g] = 1 /\ g # f
    BY <1>0, <2>2, <2>3
  <2>5. stage \in Upload!Stages \ {"cancelled"} /\ Past(stage)
    BY DEF Upload!Stages, Past
  <2>6. UploadInv'
    BY <1>0, <2>1, <2>3, <2>4, <2>5, AnswerKeeps
  <2> QED BY <2>3, <2>6
<1>2. CASE Upload!Poll(f)
  <2>1. PICK stage \in {"done", "failed", "refused"} : jobs' = Upload!Patched(f, stage)
    BY <1>2 DEF Upload!Poll, Upload!StagesOf
  <2>2. f \in polled /\ UNCHANGED sending
    BY <1>2 DEF Upload!Poll
  <2>3. Past(jobs[f]) /\ (effects \/ view[f] = "processing")
    BY <1>0, <2>2 DEF UploadInv, PollsArePast
  <2>4. jobs[f] # "cancelled"
    BY <1>0, <2>2, <2>3 DEF UploadInv, CommitIsFresh, CancelsShow
  <2>5. \A g \in Files : sending'[g] = 1 => sending[g] = 1 /\ g # f
    <3>1. jobs[f] # "removed"
      BY <1>2, <2>1 DEF Upload!Poll, Upload!Patched, Upload!Present
    <3> QED BY <1>0, <2>2, <2>3, <3>1 DEF Past
  <2>6. stage \in Upload!Stages \ {"cancelled"} /\ Past(stage)
    BY DEF Upload!Stages, Past
  <2>7. jobs[f] \notin {"absent", "queued"} /\ sending' \in [Files -> {0, 1}]
    BY <1>0, <2>2, <2>3 DEF Past
  <2>8. UploadInv'
    BY <1>0, <2>1, <2>5, <2>6, <2>7, AnswerKeeps
  <2> QED BY <2>4, <2>8
<1> QED BY <1>1, <1>2

LEMMA RenderKeeps ==
    ASSUME UploadInv, Upload!Render
    PROVE  UploadInv' /\ UNCHANGED jobs
<1>0. /\ ~ effects /\ view' = jobs /\ effects' /\ clicked' = due /\ ~ due'
      /\ UNCHANGED <<jobs, sending, polled>>
  BY DEF Upload!Render
<1>1. UploadTypes'
  BY <1>0 DEF UploadInv, UploadTypes, Upload!Render
<1>2. TransfersAreShown' /\ PollsArePast' /\ CancelsShow'
  BY <1>0 DEF UploadInv, TransfersAreShown, PollsArePast, CancelsShow
<1>3. CommitIsFresh'
  <2>1. ASSUME NEW f \in Files, jobs[f] = "cancelled" PROVE f \notin polled \/ due
    BY <1>0, <2>1 DEF UploadInv, PollsArePast, CancelsShow
  <2> QED BY <1>0, <2>1 DEF CommitIsFresh, Past
<1>4. Upload!WithinLimit'
  BY <1>0, FewerKeepTheLimit DEF UploadInv
<1> QED BY <1>0, <1>1, <1>2, <1>3, <1>4 DEF UploadInv

\* The admission: what the screen shows as queued has no request, and every
\* request of a file of the list is shown as uploading.
LEMMA AdmissionKeeps ==
    ASSUME UploadInv, Upload!RunEffects
    PROVE  /\ UploadInv'
           /\ \A f \in Files : jobs[f] = "cancelled" =>
                  jobs'[f] = "cancelled" \/ Upload!AdmittedUnseen(f)
<1> DEFINE A == Upload!Admitted
           Up == {f \in Files : view[f] = "uploading"}
           Q == {f \in Files : view[f] = "queued"}
<1>0. /\ effects /\ ~ effects' /\ UNCHANGED <<view, clicked, due>>
      /\ sending' = [f \in Files |-> IF f \in A THEN sending[f] + 1 ELSE sending[f]]
      /\ jobs' = [f \in Files |-> IF f \in A /\ Upload!Present(jobs[f])
                                  THEN "uploading" ELSE jobs[f]]
      /\ polled' = {f \in Files : view[f] = "processing"}
  BY DEF Upload!RunEffects, Upload!Followed, Upload!With
<1>1. A \subseteq Q
  BY DEF Upload!Admitted, Upload!FirstQueued, Upload!With
<1>2. \A f \in A : /\ sending[f] = 0 /\ sending'[f] = 1
                   /\ jobs[f] = "queued" \/ ~ clicked
                   /\ jobs'[f] \in {"uploading", "removed"}
  <2> TAKE f \in A
  <2>1. f \in Files /\ view[f] = "queued"
    BY <1>1
  <2>2. jobs[f] \in {"queued", "cancelled", "removed"} /\ (jobs[f] = "queued" \/ ~ clicked)
    BY <1>0, <2>1 DEF UploadInv, CommitIsFresh
  <2>3. sending[f] = 0
    BY <1>0, <2>1 DEF UploadInv, UploadTypes, TransfersAreShown
  <2> QED BY <1>0, <2>1, <2>2, <2>3 DEF Upload!Present
<1>3. \A f \in Files \ A : sending'[f] = sending[f] /\ jobs'[f] = jobs[f]
  BY <1>0
<1>4. jobs \in [Files -> Upload!Stages] /\ sending \in [Files -> {0, 1}]
  BY DEF UploadInv, UploadTypes
<1> HIDE DEF A
<1>5. UploadTypes'
  <2>1. \A f \in Files : sending'[f] \in {0, 1} /\ jobs'[f] \in Upload!Stages
    BY <1>2, <1>3, <1>4 DEF Upload!Stages
  <2>2. sending' \in [Files -> {0, 1}] /\ jobs' \in [Files -> Upload!Stages]
    BY <1>0, <2>1
  <2>3. effects' \in BOOLEAN
    BY DEF Upload!RunEffects
  <2> QED BY <1>0, <2>2, <2>3 DEF UploadInv, UploadTypes
<1>6. TransfersAreShown'
  BY <1>0, <1>1, <1>2, <1>3 DEF UploadInv, TransfersAreShown
<1>7. PollsArePast'
  <2> SUFFICES ASSUME NEW f \in polled' PROVE Past(jobs'[f]) /\ view'[f] = "processing"
    BY DEF PollsArePast
  <2>1. f \in Files /\ view[f] = "processing" /\ Past(jobs[f])
    BY <1>0 DEF UploadInv, CommitIsFresh
  <2> QED BY <1>0, <1>1, <1>3, <2>1
<1>8. CommitIsFresh'
  BY <1>0 DEF CommitIsFresh
<1>9. \A f \in Files :
          /\ jobs'[f] = "cancelled" => jobs[f] = "cancelled"
          /\ jobs[f] = "cancelled" => jobs'[f] = "cancelled" \/ Upload!AdmittedUnseen(f)
  <2> TAKE f \in Files
  <2>1. CASE f \in A
    BY <1>0, <1>1, <1>2, <2>1 DEF Upload!AdmittedUnseen, Upload!Present
  <2>2. CASE f \notin A
    BY <1>3, <2>2
  <2> QED BY <2>1, <2>2
<1>10. CancelsShow'
  BY <1>0, <1>9 DEF UploadInv, CancelsShow
<1>11. Upload!WithinLimit'
  <2>1. IsFiniteSet(Up) /\ Cardinality(Up) \in Nat /\ Q \subseteq Files
    BY UploadAssumption, FS_Subset, FS_CardinalityType
  <2>2. Upload!Active = Cardinality(Up)
    BY SameSize DEF Upload!Active, Upload!With
  <2> DEFINE n == IF Cardinality(Up) < MaxConcurrent
                  THEN MaxConcurrent - Cardinality(Up) ELSE 0
             F == {f \in Q : Cardinality({g \in Q : g < f}) < n}
  <2>3. n \in Nat
    BY <2>1, UploadAssumption
  <2>4. Upload!Free = n
    BY <2>2 DEF Upload!Free
  <2>5. A \subseteq F
    BY <2>4, SameSize DEF A, Upload!Admitted, Upload!FirstQueued, Upload!With
  <2>6. IsFiniteSet(F) /\ Cardinality(F) <= n
    <3> HIDE DEF n
    <3> QED BY <2>1, <2>3, FirstAreAtMost
  <2> HIDE DEF F, n
  <2>7. IsFiniteSet(A) /\ Cardinality(A) <= n /\ Cardinality(A) \in Nat
    BY <2>3, <2>5, <2>6, FS_Subset, FS_CardinalityType
  <2>8. CASE n = 0
    <3>1. A = {}
      BY <2>7, <2>8, FS_EmptySet
    <3> QED BY <1>3, <3>1, FewerKeepTheLimit DEF UploadInv
  <2>9. CASE n > 0
    <3>1. Cardinality(Up) + n = MaxConcurrent
      BY <2>1, <2>9, UploadAssumption DEF n
    <3>2. Busy' \subseteq Up \cup A
      <4> SUFFICES ASSUME NEW f \in Files, sending'[f] > 0, jobs'[f] = "uploading",
                          f \notin A
                   PROVE  f \in Up
        BY DEF Busy
      <4>1. sending[f] = 1 /\ jobs[f] = "uploading"
        BY <1>3, <1>4
      <4> QED BY <1>0, <4>1 DEF UploadInv, TransfersAreShown
    <3>3. /\ IsFiniteSet(Up \cup A)
          /\ Cardinality(Up \cup A) <= Cardinality(Up) + Cardinality(A)
      <4>1. /\ IsFiniteSet(Up \cup A)
            /\ Cardinality(Up \cup A) =
                   Cardinality(Up) + Cardinality(A) - Cardinality(Up \cap A)
        BY <2>1, <2>7, FS_Union
      <4>2. IsFiniteSet(Up \cap A)
        BY <2>1, FS_Subset
      <4>3. Cardinality(Up \cap A) \in Nat
        BY <4>2, FS_CardinalityType
      <4> HIDE DEF Up
      <4> QED BY <2>1, <2>7, <4>1, <4>3
    <3>4. /\ IsFiniteSet(Busy') /\ Cardinality(Busy') <= Cardinality(Up \cup A)
          /\ Cardinality(Busy') \in Nat /\ Cardinality(Up \cup A) \in Nat
      BY <3>2, <3>3, FS_Subset, FS_CardinalityType
    <3>5. Cardinality(Busy') <= MaxConcurrent
      <4> HIDE DEF Up
      <4> QED BY <2>1, <2>3, <2>7, <3>1, <3>3, <3>4, UploadAssumption
    <3>6. Upload!WithinLimit' <=> Cardinality(Busy') <= MaxConcurrent
      BY SameSize DEF Upload!WithinLimit, Busy
    <3> QED BY <3>5, <3>6
  <2> QED BY <2>3, <2>8, <2>9
<1> QED BY <1>5, <1>6, <1>7, <1>8, <1>9, <1>10, <1>11 DEF UploadInv

LEMMA UploadKeeps ==
    ASSUME UploadInv, [Upload!Next]_(Upload!vars)
    PROVE  UploadInv'
<1>1. CASE Upload!User
  BY <1>1, ClicksKeep
<1>2. CASE Upload!Render \/ Upload!RunEffects
  BY <1>2, RenderKeeps, AdmissionKeeps
<1>3. ASSUME NEW f \in Files,
             Upload!UploadStored(f) \/ Upload!UploadFails(f) \/ Upload!Poll(f)
      PROVE  UploadInv'
  BY <1>3, AnswersKeep
<1>4. ASSUME \/ \E f \in Files : Upload!RunEnds(f) \/ Upload!Deleted(f)
             \/ UNCHANGED Upload!vars
      PROVE  UploadInv'
  <2>1. UNCHANGED <<jobs, view, effects, clicked, due, sending, polled>>
    BY <1>4 DEF Upload!RunEnds, Upload!Deleted, Upload!vars
  <2>2. Upload!WithinLimit'
    BY <2>1, FewerKeepTheLimit DEF UploadInv
  <2> QED BY <2>1, <2>2 DEF UploadInv, UploadTypes, TransfersAreShown, PollsArePast,
                            CommitIsFresh, CancelsShow
<1> QED BY <1>1, <1>2, <1>3, <1>4 DEF Upload!Next

\* Files pasted, retried, cancelled, cleared and answered for in any order:
\* UploadInv holds after every step (upload-view.tsx).
THEOREM UploadInvariance == Upload!Spec => []UploadInv
<1>1. UploadInv /\ [Upload!Next]_(Upload!vars) => UploadInv'
  BY UploadKeeps
<1> QED BY <1>1, UploadStarts, PTL DEF Upload!Spec

\* However many files wait, no more than MaxConcurrent of the list are
\* transferred at a time, though the admission counts what the screen shows
\* and not the requests (upload-view.tsx:157).
THEOREM NoMoreThanTheLimit == Upload!Spec => []WithinLimit
<1>1. UploadInv => WithinLimit
  BY DEF UploadInv, WithinLimit
<1> QED BY <1>1, UploadInvariance, PTL

LEMMA CancelledStays ==
    ASSUME UploadInv, [Upload!Next]_(Upload!vars), NEW f \in Files,
           jobs[f] = "cancelled"
    PROVE  jobs'[f] \in {"cancelled", "removed"} \/ Upload!AdmittedUnseen(f)
<1>0. jobs \in [Files -> Upload!Stages]
  BY DEF UploadInv, UploadTypes
<1>1. CASE Upload!User
  <2>1. ASSUME NEW last \in Files, NEW invalid, Upload!Add(last, invalid)
        PROVE  jobs'[f] = "cancelled"
    BY <2>1 DEF Upload!Add
  <2>2. ASSUME NEW g \in Files, Upload!Retry(g)
        PROVE  jobs'[f] = "cancelled"
    <3>1. view[g] = "failed" /\ view[f] = "cancelled"
      BY <2>2, ClickFinds DEF Upload!Retry, Upload!QueueRow, Upload!InFlight
    <3>2. jobs' = Upload!Patched(g, "queued")
      BY <2>2 DEF Upload!Retry
    <3>3. \A h \in Files : h # g => jobs'[h] = jobs[h]
      BY <3>2, PatchReachesOne DEF UploadInv, Upload!Stages
    <3> QED BY <3>1, <3>3
  <2>3. ASSUME NEW g \in Files, Upload!Cancel(g) \/ Upload!Remove(g)
        PROVE  jobs'[f] \in {"cancelled", "removed"}
    <3>1. PICK stage \in {"cancelled", "removed"} : jobs' = Upload!Patched(g, stage)
      BY <2>3 DEF Upload!Cancel, Upload!Remove
    <3>2. /\ \A h \in Files : h # g => jobs'[h] = jobs[h]
          /\ jobs'[g] \in {jobs[g], stage}
      BY <3>1, PatchReachesOne DEF UploadInv, Upload!Stages
    <3> QED BY <3>2
  <2>4. CASE Upload!ClearFinished \/ Upload!ClearAll
    BY <2>4 DEF Upload!ClearFinished, Upload!ClearAll
  <2> QED BY <1>1, <2>1, <2>2, <2>3, <2>4 DEF Upload!User
<1>2. CASE Upload!Render \/ Upload!RunEffects
  BY <1>2, RenderKeeps, AdmissionKeeps
<1>3. ASSUME NEW g \in Files,
             Upload!UploadStored(g) \/ Upload!UploadFails(g) \/ Upload!Poll(g)
      PROVE  jobs'[f] = "cancelled"
  <2>1. PICK stage \in Upload!Stages : jobs' = Upload!Patched(g, stage)
    BY <1>3 DEF Upload!UploadStored, Upload!UploadFails, Upload!errorFor,
                Upload!Poll, Upload!StagesOf, Upload!Stages
  <2>2. \A h \in Files : h # g => jobs'[h] = jobs[h]
    BY <2>1, PatchReachesOne DEF UploadInv
  <2>3. f # g
    BY <1>3, AnswersKeep
  <2> QED BY <2>2, <2>3
<1>4. ASSUME \/ \E g \in Files : Upload!RunEnds(g) \/ Upload!Deleted(g)
             \/ UNCHANGED Upload!vars
      PROVE  jobs'[f] = "cancelled"
  BY <1>4 DEF Upload!RunEnds, Upload!Deleted, Upload!vars
<1> QED BY <1>1, <1>2, <1>3, <1>4 DEF Upload!Next

\* A job the user cancelled is not brought back by an answer that was on its
\* way, to its transfer or to its poll: only by the effects of a commit that
\* an answer caused and that still showed it as queued (upload-view.tsx:157).
THEOREM CancelledIsNotRevived == Upload!Spec => CancelSticks
<1>1. ASSUME UploadInv, [Upload!Next]_(Upload!vars)
      PROVE  [\A f \in Files : jobs[f] = "cancelled" =>
                 jobs'[f] \in {"cancelled", "removed"} \/ Upload!AdmittedUnseen(f)]_(Upload!vars)
  BY <1>1, CancelledStays
<1> QED BY <1>1, UploadInvariance, PTL DEF Upload!Spec, CancelSticks, Upload!CancelSticks

-----------------------------------------------------------------------------
(***************************************************************************)
(* The safety half of EveryFileGetsItsTurn and EveryRunIsFollowed.         *)
(***************************************************************************)
Room == Upload!FirstQueued(Upload!Free)

\* A file in the queue has not been started, one that is shown as uploading
\* has its request, and the effects that ran last left no room unused and
\* nothing unfollowed.
TurnsAreKept ==
    /\ \A f \in Files : jobs[f] \in {"absent", "queued"} => f \notin started
    /\ \A f \in Files : jobs[f] = "uploading" => sending[f] = 1
    /\ ~ effects => Room \subseteq started /\ Upload!With("processing") \subseteq polled

LEMMA TurnsStart == Upload!Init => TurnsAreKept
BY DEF Upload!Init, TurnsAreKept, Room, Upload!FirstQueued, Upload!With

\* Room is of what the screen shows.
LEMMA RoomIsShown ==
    ASSUME view' = view
    PROVE  Room' = Room /\ Upload!With("processing")' = Upload!With("processing")
BY SameSize DEF Room, Upload!FirstQueued, Upload!Free, Upload!Active, Upload!With

LEMMA PatchReplaces ==
    ASSUME UploadTypes, NEW f \in Files, NEW stage, jobs' = Upload!Patched(f, stage)
    PROVE  jobs'[f] = IF Upload!Present(jobs[f]) THEN stage ELSE jobs[f]
BY DEF UploadTypes, Upload!Patched

LEMMA ClicksKeepTurns ==
    ASSUME UploadInv, TurnsAreKept, Upload!User
    PROVE  TurnsAreKept'
<1>0. jobs \in [Files -> Upload!Stages] /\ sending \in [Files -> {0, 1}]
  BY DEF UploadInv, UploadTypes
<1>1. ASSUME NEW last \in Files, NEW invalid \in SUBSET Files, Upload!Add(last, invalid)
      PROVE  TurnsAreKept'
  <2>1. /\ jobs' = [f \in Files |-> IF f <= last /\ jobs[f] = "absent"
                                    THEN Upload!newJob(f, invalid) ELSE jobs[f]]
        /\ UNCHANGED <<view, effects, started, sending, polled>>
    BY <1>1 DEF Upload!Add
  <2>2. \A f \in Files : jobs[f] = "absent" \/ jobs'[f] = jobs[f]
    BY <2>1
  <2>3. \A f \in Files : jobs'[f] = "uploading" => jobs[f] = "uploading"
    BY <2>1 DEF Upload!newJob
  <2> QED BY <2>1, <2>2, <2>3, RoomIsShown DEF TurnsAreKept
<1>2. ASSUME NEW f \in Files, Upload!Retry(f)
      PROVE  TurnsAreKept'
  <2>1. /\ view[f] = "failed" /\ jobs' = Upload!Patched(f, "queued")
        /\ started' = started \ {f}
        /\ UNCHANGED <<view, effects, sending, polled>>
    BY <1>2 DEF Upload!Retry, Upload!QueueRow, Upload!InFlight, Upload!Restarted
  <2>2. /\ \A g \in Files : g # f => jobs'[g] = jobs[g]
        /\ jobs'[f] \in {jobs[f], "queued"}
    BY <2>1, PatchReachesOne DEF UploadInv, Upload!Stages
  <2>3. f \notin Room
    BY <2>1 DEF Room, Upload!FirstQueued, Upload!With
  <2> QED BY <2>1, <2>2, <2>3, RoomIsShown DEF TurnsAreKept
<1>3. ASSUME NEW f \in Files, Upload!Cancel(f) \/ Upload!Remove(f)
      PROVE  TurnsAreKept'
  <2>1. PICK stage \in {"cancelled", "removed"} :
            /\ jobs' = Upload!Patched(f, stage) /\ sending' = Upload!Aborted(f)
            /\ UNCHANGED <<view, effects, started, polled>>
    BY <1>3 DEF Upload!Cancel, Upload!Remove
  <2>2. /\ \A g \in Files : g # f => jobs'[g] = jobs[g]
        /\ jobs'[f] \in {jobs[f], stage} /\ jobs'[f] # "uploading"
    BY <2>1, PatchReachesOne, PatchReplaces DEF UploadInv, Upload!Stages, Upload!Present
  <2>3. \A g \in Files : g # f => sending'[g] = sending[g]
    BY <1>0, <2>1 DEF Upload!Aborted
  <2> QED BY <2>1, <2>2, <2>3, RoomIsShown DEF TurnsAreKept
<1>4. CASE Upload!ClearFinished
  BY <1>4, RoomIsShown DEF Upload!ClearFinished, Upload!Finished, TurnsAreKept
<1>5. CASE Upload!ClearAll
  BY <1>5, RoomIsShown DEF Upload!ClearAll, Upload!Present, TurnsAreKept
<1> QED BY <1>1, <1>2, <1>3, <1>4, <1>5 DEF Upload!User

LEMMA AnswersKeepTurns ==
    ASSUME UploadInv, TurnsAreKept, NEW f \in Files,
           Upload!UploadStored(f) \/ Upload!UploadFails(f) \/ Upload!Poll(f)
    PROVE  TurnsAreKept'
<1>1. PICK stage \in {"processing", "failed", "refused", "done"} :
          jobs' = Upload!Patched(f, stage)
  BY DEF Upload!UploadStored, Upload!UploadFails, Upload!errorFor, Upload!Poll,
         Upload!StagesOf
<1>2. /\ \A g \in Files : g # f => jobs'[g] = jobs[g]
      /\ jobs'[f] \in {jobs[f], stage} /\ jobs'[f] # "uploading"
  BY <1>1, PatchReachesOne, PatchReplaces DEF UploadInv, Upload!Stages, Upload!Present
<1>3. /\ \A g \in Files : g # f => sending'[g] = sending[g]
      /\ UNCHANGED <<view, effects, started, polled>>
  BY DEF UploadInv, UploadTypes, Upload!UploadStored, Upload!UploadFails, Upload!Poll
<1> QED BY <1>1, <1>2, <1>3, RoomIsShown DEF TurnsAreKept

LEMMA AdmissionKeepsTurns ==
    ASSUME UploadInv, TurnsAreKept, Upload!RunEffects
    PROVE  TurnsAreKept'
<1> DEFINE A == Upload!Admitted
<1>0. /\ effects /\ ~ effects' /\ UNCHANGED view
      /\ started' = started \cup A /\ A = Room \ started
      /\ sending' = [f \in Files |-> IF f \in A THEN sending[f] + 1 ELSE sending[f]]
      /\ jobs' = [f \in Files |-> IF f \in A /\ Upload!Present(jobs[f])
                                  THEN "uploading" ELSE jobs[f]]
      /\ polled' = Upload!With("processing")
  BY DEF Upload!RunEffects, Upload!Followed, Upload!Admitted, Room
<1>1. \A f \in A : jobs'[f] \in {"uploading", "removed"} /\ sending'[f] = 1
  <2> TAKE f \in A
  <2>1. f \in Files /\ view[f] = "queued"
    BY DEF Upload!Admitted, Upload!FirstQueued, Upload!With
  <2>2. jobs[f] \in {"queued", "cancelled", "removed"}
    BY <1>0, <2>1 DEF UploadInv, CommitIsFresh
  <2>3. sending[f] = 0
    BY <1>0, <2>1 DEF UploadInv, UploadTypes, TransfersAreShown
  <2> QED BY <1>0, <2>1, <2>2, <2>3 DEF Upload!Present
<1>2. \A f \in Files \ A : sending'[f] = sending[f] /\ jobs'[f] = jobs[f]
  BY <1>0
<1> HIDE DEF A
<1>3. \A f \in Files : jobs'[f] \in {"absent", "queued"} => f \notin started'
  BY <1>0, <1>1, <1>2 DEF TurnsAreKept
<1>4. \A f \in Files : jobs'[f] = "uploading" => sending'[f] = 1
  BY <1>1, <1>2 DEF TurnsAreKept
<1> QED BY <1>0, <1>3, <1>4, RoomIsShown DEF TurnsAreKept

\* No file under way waits for nothing.  One that is shown as uploading has
\* its request.  Once the screen is up to date and its effects have run, what
\* is processing is polled, and a file waits in the queue only while all the
\* transfers there may be are under way (upload-view.tsx).
NoFileIsStuck ==
    \A f \in Files :
        /\ jobs[f] = "uploading" => sending[f] = 1
        /\ ~ effects /\ view = jobs =>
              /\ jobs[f] = "processing" => f \in polled
              /\ jobs[f] = "queued" => Cardinality(Busy) = MaxConcurrent

\* The first of the queue has room wherever there is any.
LEMMA FirstHasRoom ==
    ASSUME Upload!With("queued") # {}, Room = {} PROVE Upload!Active >= MaxConcurrent
<1> DEFINE Q == Upload!With("queued")
           Before(f) == {g \in Q : g < f}
<1>1. Q \subseteq Nat
  BY UploadAssumption DEF Upload!With
<1>2. PICK f \in Q : \A g \in Q : ~ (<<g, f>> \in OpToRel(<, Nat))
  BY <1>1, NatLessThanWellFounded, WFMin
<1>3. Before(f) = {}
  BY <1>1, <1>2 DEF OpToRel
<1>4. Cardinality(Before(f)) = 0
  BY <1>3, FS_EmptySet
<1>5. ~ (0 < Upload!Free)
  BY <1>4, SameSize DEF Room, Upload!FirstQueued
<1>6. Upload!Active \in Nat
  <2>1. IsFiniteSet(Upload!With("uploading"))
    BY UploadAssumption, FS_Subset DEF Upload!With
  <2> QED BY <2>1, SameSize, FS_CardinalityType DEF Upload!Active
<1> QED BY <1>5, <1>6, UploadAssumption DEF Upload!Free

\* Whatever is dropped, retried, cancelled and answered for, in any order.
THEOREM NothingIsStuck == Upload!Spec => []NoFileIsStuck
<1>1. ASSUME UploadInv, TurnsAreKept, [Upload!Next]_(Upload!vars)
      PROVE  TurnsAreKept'
  <2>1. CASE Upload!User
    BY <1>1, <2>1, ClicksKeepTurns
  <2>2. CASE Upload!Render
    BY <1>1, <2>2 DEF Upload!Render, TurnsAreKept
  <2>3. CASE Upload!RunEffects
    BY <1>1, <2>3, AdmissionKeepsTurns
  <2>4. ASSUME NEW f \in Files,
               Upload!UploadStored(f) \/ Upload!UploadFails(f) \/ Upload!Poll(f)
        PROVE  TurnsAreKept'
    BY <1>1, <2>4, AnswersKeepTurns
  <2>5. CASE \/ \E f \in Files : Upload!RunEnds(f) \/ Upload!Deleted(f)
             \/ UNCHANGED Upload!vars
    BY <1>1, <2>5, RoomIsShown
       DEF Upload!RunEnds, Upload!Deleted, Upload!vars, TurnsAreKept
  <2> QED BY <1>1, <2>1, <2>2, <2>3, <2>4, <2>5 DEF Upload!Next
<1>2. ASSUME UploadInv, TurnsAreKept PROVE NoFileIsStuck
  <2>1. ASSUME NEW f \in Files, ~ effects, view = jobs, jobs[f] = "queued"
        PROVE  Cardinality(Busy) = MaxConcurrent
    <3>1. Room = {}
      BY <1>2, <2>1 DEF TurnsAreKept, Room, Upload!FirstQueued, Upload!With
    <3>2. Upload!Active >= MaxConcurrent
      BY <2>1, <3>1, FirstHasRoom DEF Upload!With
    <3>3. Busy = Upload!With("uploading")
      BY <1>2, <2>1 DEF Busy, Upload!With, UploadInv, UploadTypes, TransfersAreShown,
                        TurnsAreKept
    <3>4. Cardinality(Busy) <= MaxConcurrent
      BY <1>2, LimitIsOfBusy DEF UploadInv
    <3>5. Cardinality(Busy) \in Nat
      BY UploadAssumption, FS_Subset, FS_CardinalityType DEF Busy
    <3> QED BY <3>2, <3>3, <3>4, <3>5, SameSize, UploadAssumption DEF Upload!Active
  <2> QED BY <1>2, <2>1 DEF TurnsAreKept, NoFileIsStuck, Upload!With
<1> QED BY <1>1, <1>2, TurnsStart, UploadInvariance, PTL DEF Upload!Spec
=============================================================================
