---------------------- MODULE ExecutionAdmission_proofs ----------------------
(***************************************************************************)
(* Machine-checked proofs about ExecutionAdmission: any number of requests *)
(* and plans, any targets, backends and timeouts, any number of operator   *)
(* edits and lost threads.                                                 *)
(***************************************************************************)
EXTENDS ExecutionAdmission, FiniteSetTheorems, TLAPS

-----------------------------------------------------------------------------
(* Facts about the constants, the threads and the committed executions.    *)

\* A plan is a nonempty sequence of catalogue procedures.
LEMMA PlanFacts ==
    ASSUME NEW r \in Requests
    PROVE  /\ Len(Plan[r]) \in Nat \ {0}
           /\ DOMAIN Plan[r] = 1..Len(Plan[r])
           /\ \A k \in DOMAIN Plan[r] : Plan[r][k] \in Procedures
           /\ Target[r] \in Range(Target)
           /\ Password[r] \in {"plain", "none"}
<1>1. Plan[r] \in Seq(Range(Plan[r])) /\ Plan[r] # <<>>
  BY PlanAssumption, Zenon
<1>2. Len(Plan[r]) \in Nat \ {0} /\ DOMAIN Plan[r] = 1..Len(Plan[r])
  BY <1>1
<1>3. \A k \in DOMAIN Plan[r] : Plan[r][k] \in Procedures
  BY DEF Procedures, Range
<1> QED
  BY <1>2, <1>3, InputAssumption, Zenon

\* The caller's parameters and what a scrub leaves of them are parameters.
LEMMA InputFacts ==
    ASSUME NEW r \in Requests
    PROVE  /\ Input(r) \in Params
           /\ Input(r).password = Password[r]
           /\ Scrub(Input(r)) \in Params
BY PlanFacts, Zenon DEF Input, Scrub, Params

\* A committed execution belongs to a request and has a type.
LEMMA RowFacts ==
    ASSUME TypeOK, NEW i \in DOMAIN execs
    PROVE  /\ execs[i] \in Execution
           /\ execs[i].request \in Requests
           /\ execs[i].params \in Params
           /\ i \in Nat \ {0}
<1>1. execs \in Seq(Execution)
  BY Zenon DEF TypeOK
<1>2. execs[i] \in Execution /\ i \in Nat \ {0}
  BY <1>1
<1> QED
  BY <1>2, Zenon DEF Execution

\* The executions of a request are a finite set of positions.
LEMMA MadeFinite ==
    ASSUME TypeOK, NEW r
    PROVE  /\ Len(execs) \in Nat
           /\ DOMAIN execs = 1..Len(execs)
           /\ IsFiniteSet(Made(r))
           /\ Cardinality(Made(r)) \in Nat
<1>1. Len(execs) \in Nat /\ DOMAIN execs = 1..Len(execs)
  BY DEF TypeOK
<1>2. IsFiniteSet(1..Len(execs))
  BY <1>1, FS_Interval
<1>3. Made(r) \subseteq 1..Len(execs)
  BY <1>1, Zenon DEF Made
<1> QED
  BY <1>1, <1>2, <1>3, FS_Subset, FS_CardinalityType, Zenon

\* Only thread r takes a step: the others keep their state and the row lock.
Alone(r) ==
    \A s \in Requests \ {r} : req'[s] = req[s] /\ (holder' = s <=> holder = s)

\* A step of thread r that touches no execution and no job.
Quiet(r) ==
    /\ Alone(r)
    /\ UNCHANGED <<execs, jobs>>
    /\ TypeOK'
    /\ ThreadKnows(r)'
    /\ TokenOnlyToReviewed'
    /\ req[r].pc # "lost"
    /\ req[r].pc = "publish" => req'[r].pc = "lost"

\* A thread that takes no step knows what it knew when no execution changes.
LEMMA OtherThreads ==
    ASSUME AdmissionInvariant, NEW r \in Requests, Alone(r), execs' = execs,
           NEW s \in Requests \ {r}
    PROVE  ThreadKnows(s)'
<1>1. ThreadKnows(s) /\ req'[s] = req[s] /\ (holder' = s <=> holder = s)
  BY Zenon DEF AdmissionInvariant, Alone
<1>2. /\ Made(s)' = Made(s) /\ OpenProvisions(Target[s])' = OpenProvisions(Target[s])
      /\ Working(s)' = Working(s)
  BY <1>1, Zenon DEF Made, OpenProvisions, Working
<1> QED
  BY <1>1, <1>2 DEF ThreadKnows

\* A quiet step keeps the invariant.
LEMMA QuietKeeps ==
    ASSUME AdmissionInvariant, NEW r \in Requests, Quiet(r)
    PROVE  AdmissionInvariant'
<1>1. \A s \in Requests : ThreadKnows(s)'
  BY OtherThreads, Zenon DEF Quiet
<1>2. OneOpen'
  BY DEF AdmissionInvariant, OneOpen, OpenProvisions, Quiet
<1>3. FanOutIsPrefix'
  <2>1. \A i \in DOMAIN execs : Place(i)' = Place(i)
    BY Zenon DEF Quiet, Place
  <2>2. ASSUME NEW s \in Requests, Is(s, "done")' PROVE Cardinality(Made(s)') = Len(Plan[s])
    BY <2>2, <1>1, Zenon DEF ThreadKnows, Is
  <2> QED
    BY <2>1, <2>2, Zenon DEF AdmissionInvariant, FanOutIsPrefix, Quiet
<1>4. OrphanedOnlyByLoss'
  <2> SUFFICES ASSUME NEW i \in DOMAIN execs, execs[i].status = "queued", ~Published(i)
               PROVE  LET s == execs[i].request
                      IN  Is(s, "lost")' \/ (Is(s, "publish")' /\ req'[s].execution = i)
    BY Zenon DEF OrphanedOnlyByLoss, Quiet, Published
  <2>1. execs[i].request \in Requests
    BY RowFacts, Zenon DEF AdmissionInvariant
  <2>2. LET s == execs[i].request
        IN  Is(s, "lost") \/ (Is(s, "publish") /\ req[s].execution = i)
    BY Zenon DEF AdmissionInvariant, OrphanedOnlyByLoss
  <2> QED
    BY <2>1, <2>2, Zenon DEF Quiet, Alone, Is
<1>5. FrozenTimeout' /\ ChildrenAreIndependent'
  BY Zenon DEF AdmissionInvariant, FrozenTimeout, ChildrenAreIndependent, Stored, Input, Quiet
<1> QED
  BY <1>1, <1>2, <1>3, <1>4, <1>5, Zenon DEF AdmissionInvariant, Quiet

-----------------------------------------------------------------------------
(* The steps of one thread that touch no execution.                        *)

\* What the invariant says of thread r before it steps.
LEMMA Knows ==
    ASSUME AdmissionInvariant, NEW r \in Requests
    PROVE  /\ TypeOK /\ ThreadKnows(r) /\ TokenOnlyToReviewed
           /\ req \in [Requests -> Thread] /\ req[r] \in Thread
           /\ req[r].next \in 1..Len(Plan[r])
           /\ Working(r) \in Procedures
           /\ req[r].params \in Params
<1>1. TypeOK /\ ThreadKnows(r) /\ TokenOnlyToReviewed
  BY Zenon DEF AdmissionInvariant
<1>2. req \in [Requests -> Thread] /\ req[r] \in Thread
  BY <1>1, Zenon DEF TypeOK
<1>3. req[r].next \in 1..Len(Plan[r]) /\ Working(r) \in Procedures
  BY <1>1, PlanFacts, Zenon DEF ThreadKnows, Working
<1> QED
  BY <1>1, <1>2, <1>3, Zenon DEF Thread

\* A thread that only moves, from a step whose counts and facts it keeps.
LEMMA MoveKeeps ==
    ASSUME AdmissionInvariant, NEW r \in Requests, NEW p \in Steps \cup Ended, Go(r, p)
    PROVE  /\ req' \in [Requests -> Thread]
           /\ req'[r] = [req[r] EXCEPT !.pc = p]
           /\ req'[r].pc = p
           /\ req'[r].next = req[r].next
           /\ req'[r].caller = req[r].caller
           /\ req'[r].params = req[r].params
           /\ req'[r].target = req[r].target
           /\ req'[r].execution = req[r].execution
           /\ Working(r)' = Working(r)
           /\ \A s \in Requests \ {r} : req'[s] = req[s]
<1>1. req \in [Requests -> Thread] /\ req[r] \in Thread
  BY Knows, Zenon
<1>2. req'[r] = [req[r] EXCEPT !.pc = p] /\ \A s \in Requests \ {r} : req'[s] = req[s]
  BY <1>1, Zenon DEF Go
<1>3. [req[r] EXCEPT !.pc = p] \in Thread
  BY <1>1, Zenon DEF Thread
<1>4. req' \in [Requests -> Thread]
  BY <1>1, <1>2, <1>3, Zenon DEF Go
<1> QED
  BY <1>1, <1>2, <1>4, Zenon DEF Thread, Working

\* A refusal or the loss of the thread, with the row lock released: a quiet step.
LEMMA EndKeeps ==
    ASSUME AdmissionInvariant, NEW r \in Requests, NEW p \in {"refused", "lost"}, Go(r, p),
           req[r].pc \in Steps, req[r].pc = "publish" => p = "lost",
           \/ Unlock(r)
           \/ holder' = holder /\ req[r].pc \notin {"locked", "insert"},
           UNCHANGED <<rows, execs, jobs, sent>>
    PROVE  Quiet(r)
<1>1. p \in Steps \cup Ended
  BY Zenon DEF Ended
<1>2. /\ req' \in [Requests -> Thread] /\ req'[r].pc = p
      /\ req'[r].next = req[r].next /\ req'[r].caller = req[r].caller
      /\ \A s \in Requests \ {r} : req'[s] = req[s]
  BY <1>1, MoveKeeps, ZenonT(30)
<1>3. TypeOK /\ ThreadKnows(r) /\ TokenOnlyToReviewed
  BY Knows, Zenon
<1>4. holder' # r /\ holder' \in Requests \cup {None}
      /\ \A s \in Requests \ {r} : holder' = s <=> holder = s
  BY <1>3, NoneAssumption DEF Unlock, ThreadKnows, TypeOK
<1>5. Alone(r)
  BY <1>2, <1>4, Zenon DEF Alone
<1>6. TypeOK'
  BY <1>2, <1>3, <1>4, Zenon DEF TypeOK, rows
<1>7. ThreadKnows(r)'
  BY <1>2, <1>3, <1>4, Zenon DEF ThreadKnows, Steps
<1>8. TokenOnlyToReviewed'
  BY <1>3, Zenon DEF TokenOnlyToReviewed
<1> QED
  BY <1>2, <1>5, <1>6, <1>7, <1>8, Zenon DEF Quiet, Steps

\* Thread r goes on to state t, which knows what its step requires.
GoesOn(r, t) ==
    /\ req' = [req EXCEPT ![r] = t]
    /\ t \in Thread /\ t.next = req[r].next /\ t.caller = req[r].caller
    /\ req[r].pc \in Steps \ {"publish"} /\ t.pc \in Steps \ {"publish"}
    /\ t.pc \in {"settings", "authorize", "payload"} => t.params = Input(r)
    /\ t.pc \in {"capability", "persist", "locked", "insert"} =>
           t.params.password = Stored(r, Working(r))
    /\ t.pc \in {"payload", "capability"} /\ Working(r) \in Protected => t.target = "reviewed"
    /\ holder' \in Requests \cup {None}
    /\ \A s \in Requests \ {r} : holder' = s <=> holder = s
    /\ holder' = r <=> t.pc \in {"locked", "insert"} /\ Working(r) = Provision
    /\ t.pc = "insert" /\ Working(r) = Provision => OpenProvisions(Target[r]) = {}
    /\ UNCHANGED <<rows, execs, jobs>>
    /\ TokenOnlyToReviewed'

\* Such a step is quiet.
LEMMA GoesOnKeeps ==
    ASSUME AdmissionInvariant, NEW r \in Requests, NEW t, GoesOn(r, t)
    PROVE  Quiet(r)
<1>1. TypeOK /\ ThreadKnows(r) /\ req \in [Requests -> Thread]
  BY Knows, Zenon
<1>2. /\ req'[r] = t /\ \A s \in Requests \ {r} : req'[s] = req[s]
      /\ req' \in [Requests -> Thread]
  BY <1>1, Zenon DEF GoesOn
<1>3. /\ Working(r)' = Working(r) /\ Made(r)' = Made(r)
      /\ OpenProvisions(Target[r])' = OpenProvisions(Target[r])
  BY <1>2, Zenon DEF GoesOn, Working, Made, OpenProvisions
<1>4. Alone(r)
  BY <1>2, Zenon DEF Alone, GoesOn
<1>5. TypeOK'
  BY <1>1, <1>2, Zenon DEF TypeOK, GoesOn, rows
<1>6. Cardinality(Made(r)') = t.next - 1
  BY <1>1, <1>3, Zenon DEF ThreadKnows, GoesOn
<1>7. ThreadKnows(r)'
  <2>1. req'[r] = t /\ t.next \in DOMAIN Plan[r] /\ t.caller = Input(r)
    BY <1>1, <1>2, Zenon DEF ThreadKnows, GoesOn
  <2>2. t.pc \in Steps \ {"publish"} /\ t.pc # "publish" /\ t.pc # "done"
    BY Zenon DEF GoesOn, Steps
  <2>3. holder' = r <=> t.pc \in {"locked", "insert"} /\ Working(r)' = Provision
    BY <1>3, Zenon DEF GoesOn
  <2>4. /\ t.pc \in {"settings", "authorize", "payload"} => t.params = Input(r)
        /\ t.pc \in {"capability", "persist", "locked", "insert"} =>
               t.params.password = Stored(r, Working(r)')
        /\ t.pc \in {"payload", "capability"} /\ Working(r)' \in Protected =>
               t.target = "reviewed"
        /\ t.pc = "insert" /\ Working(r)' = Provision => OpenProvisions(Target[r])' = {}
    BY <1>3, Zenon DEF GoesOn
  <2> QED
    BY <2>1, <2>2, <2>3, <2>4, <1>6, Zenon DEF ThreadKnows
<1> QED
  BY <1>2, <1>4, <1>5, <1>7, Zenon DEF Quiet, GoesOn, Steps

\* The gates of execute_intent.
LEMMA StartKeeps ==
    ASSUME AdmissionInvariant, NEW r \in Requests, Start(r)
    PROVE  Quiet(r)
<1>1. CASE Go(r, "refused")
  BY <1>1, EndKeeps, Zenon DEF Start, Is, Steps
<1>2. CASE Go(r, "load")
  <2> DEFINE t == [req[r] EXCEPT !.pc = "load"]
  <2>1. req' = [req EXCEPT ![r] = t]
    BY <1>2, Knows, Zenon DEF Go
  <2>2. /\ t \in Thread /\ t.pc = "load" /\ t.next = req[r].next /\ t.caller = req[r].caller
    BY Knows, ZenonT(30) DEF Thread, Steps
  <2>3. holder' = holder /\ holder # r /\ holder \in Requests \cup {None}
    BY Knows, Zenon DEF Start, Is, ThreadKnows, TypeOK
  <2>4. TokenOnlyToReviewed'
    BY Knows, Zenon DEF Start, TokenOnlyToReviewed
  <2>5. GoesOn(r, t)
    BY <2>1, <2>2, <2>3, <2>4, Zenon DEF GoesOn, Start, Is, Steps
  <2> QED
    BY <2>5, GoesOnKeeps, Zenon
<1> QED
  BY <1>1, <1>2, Zenon DEF Start

\* The load of the procedure row and the admission decision.
LEMMA LoadKeeps ==
    ASSUME AdmissionInvariant, NEW r \in Requests, LoadProcedure(r)
    PROVE  Quiet(r)
<1> DEFINE u(p) == [req[r] EXCEPT !.pc = p, !.procedure = catalog[Working(r)],
                                  !.params = req[r].caller]
<1>1. PICK p \in {"settings", "refused"} : req' = [req EXCEPT ![r] = u(p)]
  <2>1. req[r] \in Thread
    BY Knows, Zenon
  <2> QED
    BY <2>1, Knows, Zenon DEF LoadProcedure
<1>2. catalog[Working(r)] \in [enabled : BOOLEAN, timeout : Nat]
  <2>1. catalog[Working(r)] \in [enabled : BOOLEAN, timeout : Timeouts]
    BY Knows, Zenon DEF TypeOK
  <2> QED
    BY <2>1, TimeoutsAssumption, Zenon
<1>3. /\ u(p) \in Thread /\ u(p).pc = p /\ u(p).next = req[r].next
      /\ u(p).caller = req[r].caller /\ u(p).params = req[r].caller
  BY Knows, <1>2, ZenonT(60) DEF Thread, Steps, Ended
<1>4. holder' = holder /\ holder # r /\ holder \in Requests \cup {None}
  BY Knows, Zenon DEF LoadProcedure, Is, ThreadKnows, TypeOK
<1>5. TokenOnlyToReviewed'
  BY Knows, Zenon DEF LoadProcedure, TokenOnlyToReviewed
<1>6. req[r].caller = Input(r) /\ req[r].pc = "load"
  BY Knows, Zenon DEF ThreadKnows, LoadProcedure, Is
<1>7. CASE p = "settings"
  <2>1. GoesOn(r, u(p))
    BY <1>1, <1>3, <1>4, <1>5, <1>6, <1>7, Zenon DEF GoesOn, LoadProcedure, Steps
  <2> QED
    BY <2>1, GoesOnKeeps, Zenon
<1>8. CASE p = "refused"
  <2>1. /\ req'[r] = u(p) /\ \A s \in Requests \ {r} : req'[s] = req[s]
        /\ req' \in [Requests -> Thread]
    BY <1>1, <1>3, Knows, ZenonT(30)
  <2>2. Alone(r)
    BY <2>1, <1>4, Zenon DEF Alone
  <2>3. TypeOK'
    BY <2>1, Knows, Zenon DEF TypeOK, LoadProcedure, rows
  <2>4. ThreadKnows(r)'
    BY <2>1, <1>3, <1>4, <1>8, Knows DEF ThreadKnows, Steps
  <2> QED
    BY <2>2, <2>3, <2>4, <1>5, <1>6, Zenon DEF Quiet, LoadProcedure
<1> QED
  BY <1>7, <1>8, Zenon

\* The read of the settings and of the selected backend.
LEMMA SettingsKeeps ==
    ASSUME AdmissionInvariant, NEW r \in Requests, ReadSettings(r)
    PROVE  Quiet(r)
<1>1. CASE Refuse(r)
  BY <1>1, EndKeeps, Zenon DEF ReadSettings, Refuse, Is, Steps
<1>2. CASE req' = [req EXCEPT ![r].pc = "authorize", ![r].backend = settings.backend]
  <2> DEFINE t == [req[r] EXCEPT !.pc = "authorize", !.backend = settings.backend]
  <2>1. req' = [req EXCEPT ![r] = t]
    BY <1>2, Knows, Zenon
  <2>2. settings.backend \in Backends \cup {None}
    BY Knows, Zenon DEF TypeOK
  <2>3. /\ t \in Thread /\ t.pc = "authorize" /\ t.next = req[r].next
        /\ t.caller = req[r].caller /\ t.params = req[r].params
    BY Knows, <2>2, ZenonT(30) DEF Thread, Steps
  <2>4. /\ holder' = holder /\ holder # r /\ holder \in Requests \cup {None}
        /\ req[r].params = Input(r)
    BY Knows, Zenon DEF ReadSettings, Is, ThreadKnows, TypeOK
  <2>5. TokenOnlyToReviewed'
    BY Knows, Zenon DEF ReadSettings, TokenOnlyToReviewed
  <2>6. GoesOn(r, t)
    BY <2>1, <2>3, <2>4, <2>5, Zenon DEF GoesOn, ReadSettings, Is, Steps
  <2> QED
    BY <2>6, GoesOnKeeps, Zenon
<1> QED
  BY <1>1, <1>2, Zenon DEF ReadSettings

\* The approval policy: a protected procedure keeps a target it found reviewed.
LEMMA AuthorizationKeeps ==
    ASSUME AdmissionInvariant, NEW r \in Requests, PrepareAuthorization(r)
    PROVE  Quiet(r)
<1>1. CASE Refuse(r)
  BY <1>1, EndKeeps, Zenon DEF PrepareAuthorization, Refuse, Is, Steps
<1>2. ASSUME NEW b \in Urls \cup {None}, Working(r) \in Protected => b = "reviewed",
             req' = [req EXCEPT ![r].pc = "payload", ![r].target = b]
      PROVE  Quiet(r)
  <2> DEFINE t == [req[r] EXCEPT !.pc = "payload", !.target = b]
  <2>1. req' = [req EXCEPT ![r] = t]
    BY <1>2, Knows, Zenon
  <2>2. /\ t \in Thread /\ t.pc = "payload" /\ t.next = req[r].next /\ t.target = b
        /\ t.caller = req[r].caller /\ t.params = req[r].params
    BY Knows, ZenonT(60) DEF Thread, Steps
  <2>3. /\ holder' = holder /\ holder # r /\ holder \in Requests \cup {None}
        /\ req[r].params = Input(r)
    BY Knows, Zenon DEF PrepareAuthorization, Is, ThreadKnows, TypeOK
  <2>4. TokenOnlyToReviewed'
    BY Knows, Zenon DEF PrepareAuthorization, TokenOnlyToReviewed
  <2>5. GoesOn(r, t)
    BY <1>2, <2>1, <2>2, <2>3, <2>4, Zenon DEF GoesOn, PrepareAuthorization, Is, Steps
  <2> QED
    BY <2>5, GoesOnKeeps, Zenon
<1> QED
  BY <1>1, <1>2, Zenon DEF PrepareAuthorization, MatchesContract, Urls

\* The payload gates and the scrub of the password.
LEMMA PayloadKeeps ==
    ASSUME AdmissionInvariant, NEW r \in Requests, ValidatePayload(r)
    PROVE  Quiet(r)
<1>1. CASE Refuse(r)
  BY <1>1, EndKeeps, Zenon DEF ValidatePayload, Refuse, Is, Steps
<1>2. CASE req' = [req EXCEPT ![r].pc = "capability",
                     ![r].params = IF Working(r) \in Passwords THEN Scrub(@) ELSE @]
  <2> DEFINE a == IF Working(r) \in Passwords THEN Scrub(req[r].params) ELSE req[r].params
             t == [req[r] EXCEPT !.pc = "capability", !.params = a]
  <2>1. req' = [req EXCEPT ![r] = t]
    BY <1>2, Knows, Zenon DEF Thread
  <2>2. /\ holder' = holder /\ holder # r /\ holder \in Requests \cup {None}
        /\ req[r].params = Input(r)
        /\ Working(r) \in Protected => req[r].target = "reviewed"
    BY Knows, Zenon DEF ValidatePayload, Is, ThreadKnows, TypeOK
  <2>3. a \in Params /\ a.password = Stored(r, Working(r))
    BY <2>2, InputFacts, Zenon DEF Stored
  <2> HIDE DEF a
  <2>4. /\ t \in Thread /\ t.pc = "capability" /\ t.next = req[r].next
        /\ t.target = req[r].target /\ t.caller = req[r].caller /\ t.params = a
    BY Knows, <2>3, ZenonT(60) DEF Thread, Steps
  <2>5. TokenOnlyToReviewed'
    BY Knows, Zenon DEF ValidatePayload, TokenOnlyToReviewed
  <2>6. GoesOn(r, t)
    BY <2>1, <2>2, <2>3, <2>4, <2>5, Zenon DEF GoesOn, ValidatePayload, Is, Steps
  <2> QED
    BY <2>6, GoesOnKeeps, Zenon
<1> QED
  BY <1>1, <1>2, Zenon DEF ValidatePayload

\* The capability request: a refusal may follow the token, which goes to the
\* target that was checked.
LEMMA CapabilityKeeps ==
    ASSUME AdmissionInvariant, NEW r \in Requests, VerifyCapability(r)
    PROVE  Quiet(r)
<1>1. PICK p \in {"refused", "persist"} : Go(r, p)
  BY Zenon DEF VerifyCapability
<1>2. p \in Steps \cup Ended
  BY Zenon DEF Steps, Ended
<1> DEFINE t == [req[r] EXCEPT !.pc = p]
<1>3. /\ t \in Thread /\ t.pc = p /\ t.next = req[r].next
      /\ t.target = req[r].target /\ t.caller = req[r].caller /\ t.params = req[r].params
  BY Knows, <1>2, ZenonT(30) DEF Thread
<1>4. req' = [req EXCEPT ![r] = t]
  BY <1>1, Knows, Zenon DEF Go
<1>5. /\ holder' = holder /\ holder # r /\ holder \in Requests \cup {None}
      /\ req[r].params.password = Stored(r, Working(r))
      /\ Working(r) \in Protected => req[r].target = "reviewed"
  BY Knows, Zenon DEF VerifyCapability, Is, ThreadKnows, TypeOK
<1>6. TokenOnlyToReviewed'
  <2> DEFINE target == IF req[r].target # None THEN req[r].target ELSE Resolve(settings.backend)
  <2>1. \/ sent' = sent
        \/ sent' = sent \cup {[procedure |-> Working(r), url |-> target]}
    BY Zenon DEF VerifyCapability
  <2>2. Working(r) \in Protected => target = "reviewed"
    BY <1>5, NoneAssumption, Zenon DEF Urls
  <2> QED
    BY <2>1, <2>2, Knows DEF TokenOnlyToReviewed
<1>7. CASE p = "persist"
  <2>1. GoesOn(r, t)
    BY <1>3, <1>4, <1>5, <1>6, <1>7, Zenon DEF GoesOn, VerifyCapability, Is, Steps
  <2> QED
    BY <2>1, GoesOnKeeps, Zenon
<1>8. CASE p = "refused"
  <2>1. /\ req'[r] = t /\ \A s \in Requests \ {r} : req'[s] = req[s]
        /\ req' \in [Requests -> Thread]
    BY <1>3, <1>4, Knows, Zenon
  <2>2. Alone(r)
    BY <2>1, <1>5, Zenon DEF Alone
  <2>3. TypeOK'
    BY <2>1, Knows, Zenon DEF TypeOK, VerifyCapability, rows
  <2>4. ThreadKnows(r)'
    BY <2>1, <1>3, <1>5, <1>8, Knows DEF ThreadKnows, Steps
  <2> QED
    BY <2>2, <2>3, <2>4, <1>6, Zenon DEF Quiet, VerifyCapability, Is
<1> QED
  BY <1>7, <1>8, Zenon

\* The stamp and the provision procedure's row lock.
LEMMA LockKeeps ==
    ASSUME AdmissionInvariant, NEW r \in Requests, LockProvision(r)
    PROVE  Quiet(r)
<1> DEFINE a == [req[r].params EXCEPT !.stamp = req[r].procedure.timeout]
           t == [req[r] EXCEPT !.pc = "locked", !.params = a]
<1>1. req[r].procedure.timeout \in Nat
  <2>1. req[r].procedure \in [enabled : BOOLEAN, timeout : Nat]
    BY Knows, Zenon DEF Thread
  <2> QED
    BY <2>1, Zenon
<1>2. a \in Params /\ a.password = req[r].params.password
  BY <1>1, Knows, Zenon DEF Params
<1>3. req' = [req EXCEPT ![r] = t]
  BY Knows, Zenon DEF LockProvision, Thread
<1> HIDE DEF a
<1>4. /\ t \in Thread /\ t.pc = "locked" /\ t.next = req[r].next
      /\ t.caller = req[r].caller /\ t.params = a
  BY Knows, <1>2, ZenonT(30) DEF Thread, Steps
<1>5. /\ holder # r /\ req[r].params.password = Stored(r, Working(r))
      /\ holder \in Requests \cup {None}
  BY Knows, Zenon DEF LockProvision, Is, ThreadKnows, TypeOK
<1>6. /\ holder' \in Requests \cup {None}
      /\ \A s \in Requests \ {r} : holder' = s <=> holder = s
      /\ holder' = r <=> Working(r) = Provision
  BY <1>5, NoneAssumption, Zenon DEF LockProvision
<1>7. TokenOnlyToReviewed'
  BY Knows, Zenon DEF LockProvision, TokenOnlyToReviewed
<1>8. GoesOn(r, t)
  BY <1>2, <1>3, <1>4, <1>5, <1>6, <1>7, Zenon DEF GoesOn, LockProvision, Is, Steps
<1> QED
  BY <1>8, GoesOnKeeps, Zenon

\* The query for an open provision, under the lock.
LEMMA CheckKeeps ==
    ASSUME AdmissionInvariant, NEW r \in Requests, CheckProvision(r)
    PROVE  Quiet(r)
<1>1. CASE Refuse(r) /\ Unlock(r)
  BY <1>1, EndKeeps, Zenon DEF CheckProvision, Refuse, Is, Steps
<1>2. CASE /\ Go(r, "insert") /\ holder' = holder
           /\ Working(r) = Provision => OpenProvisions(Target[r]) = {}
  <2> DEFINE t == [req[r] EXCEPT !.pc = "insert"]
  <2>1. req' = [req EXCEPT ![r] = t]
    BY <1>2, Knows, Zenon DEF Go
  <2>2. /\ t \in Thread /\ t.pc = "insert" /\ t.next = req[r].next
        /\ t.caller = req[r].caller /\ t.params = req[r].params
    BY Knows, ZenonT(30) DEF Thread, Steps
  <2>3. /\ holder \in Requests \cup {None} /\ (holder = r <=> Working(r) = Provision)
        /\ req[r].params.password = Stored(r, Working(r))
    BY Knows DEF CheckProvision, Is, ThreadKnows, TypeOK
  <2>4. TokenOnlyToReviewed'
    BY Knows, Zenon DEF CheckProvision, TokenOnlyToReviewed
  <2>5. GoesOn(r, t)
    BY <1>2, <2>1, <2>2, <2>3, <2>4, Zenon DEF GoesOn, CheckProvision, Is, Steps
  <2> QED
    BY <2>5, GoesOnKeeps, Zenon
<1> QED
  BY <1>1, <1>2, Zenon DEF CheckProvision

-----------------------------------------------------------------------------
(* The steps that insert an execution, change its status or publish a job. *)

\* The status of execution i becomes v; nothing that has ended opens again.
StatusOf(i, v) ==
    /\ execs' = [execs EXCEPT ![i].status = v]
    /\ v \in Statuses
    /\ v \in OpenStatuses => execs[i].status \in OpenStatuses

\* A status change keeps everything else about the executions.
LEMMA StatusFacts ==
    ASSUME TypeOK, NEW i \in DOMAIN execs, NEW v, StatusOf(i, v)
    PROVE  /\ execs' \in Seq(Execution)
           /\ DOMAIN execs' = DOMAIN execs
           /\ Len(execs') = Len(execs)
           /\ execs'[i].status = v
           /\ \A k \in DOMAIN execs :
                 /\ execs'[k].request = execs[k].request
                 /\ execs'[k].procedure = execs[k].procedure
                 /\ execs'[k].target = execs[k].target
                 /\ execs'[k].params = execs[k].params
                 /\ k # i => execs'[k] = execs[k]
           /\ \A s : Made(s)' = Made(s)
           /\ \A t : OpenProvisions(t)' \subseteq OpenProvisions(t)
<1>1. execs \in Seq(Execution) /\ DOMAIN execs = 1..Len(execs) /\ Len(execs) \in Nat
  BY DEF TypeOK
<1>2. execs[i] \in Execution
  BY <1>1
<1> DEFINE e == [execs[i] EXCEPT !.status = v]
<1>3. /\ e \in Execution /\ e.status = v /\ e.request = execs[i].request
      /\ e.procedure = execs[i].procedure /\ e.target = execs[i].target
      /\ e.params = execs[i].params
  BY <1>2, Zenon DEF Execution, StatusOf
<1>4. execs' = [execs EXCEPT ![i] = e]
  BY <1>1, Zenon DEF StatusOf
<1> HIDE DEF e
<1>5. /\ execs' \in Seq(Execution) /\ DOMAIN execs' = DOMAIN execs /\ Len(execs') = Len(execs)
      /\ execs'[i] = e /\ \A k \in DOMAIN execs : k # i => execs'[k] = execs[k]
  BY <1>1, <1>3, <1>4
<1>6. \A k \in DOMAIN execs :
         /\ execs'[k].request = execs[k].request
         /\ execs'[k].procedure = execs[k].procedure
         /\ execs'[k].target = execs[k].target
         /\ execs'[k].params = execs[k].params
  BY <1>3, <1>5, Zenon
<1>7. \A s : Made(s)' = Made(s)
  BY <1>5, <1>6, Zenon DEF Made
<1>8. \A t : OpenProvisions(t)' \subseteq OpenProvisions(t)
  <2> SUFFICES ASSUME NEW t, NEW k \in OpenProvisions(t)'
               PROVE  k \in OpenProvisions(t)
    BY Zenon
  <2>1. CASE k = i
    BY <2>1, <1>3, <1>5, <1>6, Zenon DEF OpenProvisions, StatusOf
  <2>2. CASE k # i
    BY <2>2, <1>5, Zenon DEF OpenProvisions
  <2> QED
    BY <2>1, <2>2, Zenon
<1> QED
  BY <1>3, <1>5, <1>6, <1>7, <1>8, Zenon

\* Places in the fan-out depend on the requests of the executions alone.
LEMMA PlacesKept ==
    ASSUME TypeOK, DOMAIN execs \subseteq DOMAIN execs',
           \A k \in DOMAIN execs : execs'[k].request = execs[k].request,
           NEW i \in DOMAIN execs
    PROVE  Place(i)' = Place(i)
<1>1. 1..i \subseteq DOMAIN execs
  BY MadeFinite
<1>2. {j \in 1..i : execs'[j].request = execs'[i].request}
        = {j \in 1..i : execs[j].request = execs[i].request}
  BY <1>1, Zenon
<1> QED
  BY <1>2, Zenon DEF Place

\* What a change of status keeps of the stored executions.
LEMMA StatusKeepsStore ==
    ASSUME AdmissionInvariant, NEW i \in DOMAIN execs, NEW v, StatusOf(i, v)
    PROVE  /\ OneOpen'
           /\ ChildrenAreIndependent'
           /\ \A k \in DOMAIN execs' :
                LET plan == Plan[execs'[k].request]
                IN  Place(k)' \in DOMAIN plan /\ execs'[k].procedure = plan[Place(k)']
<1>1. TypeOK /\ OneOpen /\ ChildrenAreIndependent /\ FanOutIsPrefix
  BY Zenon DEF AdmissionInvariant
<1>2. OneOpen'
  BY <1>1, StatusFacts, Zenon DEF OneOpen
<1>3. ChildrenAreIndependent'
  BY <1>1, StatusFacts DEF ChildrenAreIndependent
<1>4. \A k \in DOMAIN execs : Place(k)' = Place(k)
  BY <1>1, StatusFacts, PlacesKept, Zenon
<1> QED
  BY <1>1, <1>2, <1>3, <1>4, StatusFacts DEF FanOutIsPrefix

\* What a change of status keeps of a thread whose own state does not change.
LEMMA StatusKeepsThread ==
    ASSUME AdmissionInvariant, NEW i \in DOMAIN execs, NEW v, StatusOf(i, v),
           NEW s \in Requests, req'[s] = req[s], holder' = holder
    PROVE  ThreadKnows(s)'
<1>1. TypeOK /\ ThreadKnows(s)
  BY Zenon DEF AdmissionInvariant
<1>2. /\ Made(s)' = Made(s) /\ Working(s)' = Working(s)
      /\ OpenProvisions(Target[s])' \subseteq OpenProvisions(Target[s])
      /\ \A k \in Made(s) : execs'[k].params = execs[k].params
  BY <1>1, StatusFacts, Zenon DEF Working, Made
<1> QED
  BY <1>1, <1>2 DEF ThreadKnows

\* A decision, a claim, an outcome or a cancel.
LEMMA AdvanceKeeps ==
    ASSUME AdmissionInvariant, NEW i \in DOMAIN execs, Advance(i)
    PROVE  AdmissionInvariant'
<1> DEFINE job == [execution |-> i, timeout |-> JobTimeout(execs[i].params.stamp)]
<1>1. PICK v : /\ execs' = [execs EXCEPT ![i].status = v]
               /\ \/ /\ execs[i].status = "pending_approval"
                     /\ v \in {"queued", "rejected", "cancelled"}
                     /\ jobs' = IF v = "queued" THEN jobs \cup {job} ELSE jobs
                  \/ /\ execs[i].status = "queued" /\ v \in {"cancelled", "running"}
                     /\ jobs' = jobs
                  \/ /\ execs[i].status = "running" /\ v \in {"succeeded", "failed"}
                     /\ jobs' = jobs
  BY ZenonT(30) DEF Advance
<1>2. StatusOf(i, v)
  BY <1>1, Zenon DEF StatusOf, Statuses, OpenStatuses
<1>3. TypeOK /\ OrphanedOnlyByLoss /\ FrozenTimeout /\ TokenOnlyToReviewed
  BY Zenon DEF AdmissionInvariant
<1>4. UNCHANGED <<rows, req, holder, sent>>
  BY Zenon DEF Advance
<1>5. \A s \in Requests : ThreadKnows(s)'
  BY <1>2, <1>4, StatusKeepsThread, Zenon
<1>6. jobs \subseteq jobs' /\ jobs' \subseteq jobs \cup {job}
      /\ (v = "queued" => job \in jobs')
  BY <1>1, Zenon
<1>7. TypeOK'
  <2>1. execs' \in Seq(Execution) /\ DOMAIN execs' = DOMAIN execs
    BY <1>2, <1>3, StatusFacts, Zenon
  <2>2. \A j \in jobs' : j.execution \in DOMAIN execs'
    BY <1>3, <1>6, <2>1 DEF TypeOK
  <2> QED
    BY <1>3, <1>4, <2>1, <2>2 DEF TypeOK, rows
<1>8. FanOutIsPrefix' /\ OneOpen' /\ ChildrenAreIndependent'
  <2>1. ASSUME NEW s \in Requests, Is(s, "done")' PROVE Cardinality(Made(s)') = Len(Plan[s])
    BY <2>1, <1>5, Zenon DEF ThreadKnows, Is
  <2> QED
    BY <2>1, <1>2, StatusKeepsStore, Zenon DEF FanOutIsPrefix
<1>9. FrozenTimeout'
  <2>1. \A k \in DOMAIN execs : execs'[k].params = execs[k].params
    BY <1>2, <1>3, StatusFacts, Zenon
  <2>2. ASSUME NEW j \in jobs' PROVE j.timeout = JobTimeout(execs'[j.execution].params.stamp)
    BY <1>3, <1>6, <2>1, <2>2 DEF FrozenTimeout, TypeOK
  <2> QED
    BY <2>2, Zenon DEF FrozenTimeout, JobTimeout
<1>10. OrphanedOnlyByLoss'
  <2> SUFFICES ASSUME NEW k \in DOMAIN execs', execs'[k].status = "queued", ~Published(k)'
               PROVE  LET s == execs'[k].request
                      IN  \/ req'[s].pc = "lost"
                          \/ req'[s].pc = "publish" /\ req'[s].execution = k
    BY Zenon DEF OrphanedOnlyByLoss, Is
  <2>1. k # i
    BY <1>1, <1>2, <1>3, <1>6, StatusFacts DEF Published
  <2>2. k \in DOMAIN execs /\ execs'[k] = execs[k] /\ ~Published(k)
    BY <2>1, <1>2, <1>3, <1>6, StatusFacts DEF Published
  <2> QED
    BY <2>2, <1>3, <1>4 DEF OrphanedOnlyByLoss, Is
<1>11. TokenOnlyToReviewed'
  BY <1>3, <1>4, Zenon DEF TokenOnlyToReviewed
<1> QED
  BY <1>5, <1>7, <1>8, <1>9, <1>10, <1>11 DEF AdmissionInvariant

\* The next procedure of the plan or the end of the call, in the thread's state.
LEMMA FollowingFacts ==
    ASSUME AdmissionInvariant, NEW r \in Requests
    PROVE  /\ Following(r) \in Thread
           /\ Following(r).caller = req[r].caller
           /\ \/ /\ Following(r).pc = "load"
                 /\ Following(r).next = req[r].next + 1
                 /\ req[r].next + 1 \in DOMAIN Plan[r]
              \/ /\ Following(r).pc = "done"
                 /\ Following(r).next = req[r].next
                 /\ req[r].next = Len(Plan[r])
<1>1. /\ req[r] \in Thread /\ req[r].next \in 1..Len(Plan[r])
      /\ Len(Plan[r]) \in Nat /\ DOMAIN Plan[r] = 1..Len(Plan[r])
  BY Knows, PlanFacts, Zenon
<1>2. CASE req[r].next < Len(Plan[r])
  <2>1. Following(r) = [req[r] EXCEPT !.pc = "load", !.next = req[r].next + 1]
    BY <1>1, <1>2, Zenon DEF Following, Thread
  <2>2. /\ req[r].next \in Nat /\ req[r].next + 1 \in Nat
        /\ req[r].next + 1 \in DOMAIN Plan[r]
    BY <1>1, <1>2
  <2>3. Following(r) \in Thread
    BY <1>1, <2>1, <2>2, Zenon DEF Thread, Steps
  <2>4. /\ Following(r).pc = "load" /\ Following(r).next = req[r].next + 1
        /\ Following(r).caller = req[r].caller
    BY <1>1, <2>1, Zenon DEF Thread
  <2> QED
    BY <2>2, <2>3, <2>4, Zenon
<1>3. CASE ~(req[r].next < Len(Plan[r]))
  <2>1. Following(r) = [req[r] EXCEPT !.pc = "done"]
    BY <1>3, Zenon DEF Following
  <2> QED
    BY <1>1, <1>3, <2>1 DEF Thread, Ended
<1> QED
  BY <1>2, <1>3, Zenon

\* The hand-over of the job to RQ, and the enqueue that fails.
LEMMA PublishKeeps ==
    ASSUME AdmissionInvariant, NEW r \in Requests, PublishJob(r)
    PROVE  AdmissionInvariant'
<1> DEFINE i == req[r].execution
           job == [execution |-> i, timeout |-> JobTimeout(req[r].params.stamp)]
<1>1. /\ TypeOK /\ OrphanedOnlyByLoss /\ FrozenTimeout /\ TokenOnlyToReviewed
      /\ OneOpen /\ FanOutIsPrefix /\ ChildrenAreIndependent
  BY Zenon DEF AdmissionInvariant
<1>2. /\ req[r].pc = "publish" /\ req \in [Requests -> Thread] /\ holder # r
      /\ req[r].next \in DOMAIN Plan[r] /\ req[r].caller = Input(r)
      /\ Cardinality(Made(r)) = req[r].next
      /\ i \in DOMAIN execs /\ i \in Made(r) /\ execs[i].params = req[r].params
  BY Knows, ZenonT(30) DEF PublishJob, Is, ThreadKnows, Made
<1>3. UNCHANGED <<rows, holder, sent>>
  BY Zenon DEF PublishJob
<1>4. TokenOnlyToReviewed'
  BY <1>1, <1>3, Zenon DEF TokenOnlyToReviewed
<1>5. CASE jobs' = jobs \cup {job} /\ req' = [req EXCEPT ![r] = Following(r)] /\ execs' = execs
  <2>1. /\ req'[r] = Following(r) /\ \A s \in Requests \ {r} : req'[s] = req[s]
        /\ req' \in [Requests -> Thread]
    BY <1>2, <1>5, FollowingFacts, Zenon
  <2>2. Alone(r)
    BY <2>1, <1>3, Zenon DEF Alone
  <2>3. ThreadKnows(r)'
    <3> DEFINE t == Following(r)
    <3>1. req'[r] = t /\ t.caller = Input(r) /\ holder' # r
      BY <2>1, <1>2, <1>3, FollowingFacts, Zenon
    <3>2. Made(r)' = Made(r) /\ req[r].next \in Int
      BY <1>5, Knows, PlanFacts DEF Made
    <3>3. CASE t.pc = "load" /\ t.next = req[r].next + 1 /\ req[r].next + 1 \in DOMAIN Plan[r]
      <4>1. t.next \in DOMAIN Plan[r] /\ Cardinality(Made(r)') = t.next - 1
        BY <3>2, <3>3, <1>2
      <4> HIDE DEF t
      <4> QED
        BY <3>1, <3>3, <4>1, Zenon DEF ThreadKnows
    <3>4. CASE t.pc = "done" /\ t.next = req[r].next /\ req[r].next = Len(Plan[r])
      <4>1. t.next \in DOMAIN Plan[r] /\ Cardinality(Made(r)') = t.next
        BY <3>2, <3>4, <1>2, Zenon
      <4> HIDE DEF t
      <4> QED
        BY <3>1, <3>4, <4>1, Zenon DEF ThreadKnows, Steps
    <3> QED
      BY <3>3, <3>4, FollowingFacts, Zenon
  <2>4. \A s \in Requests : ThreadKnows(s)'
    BY <2>2, <2>3, <1>5, OtherThreads, Zenon
  <2>5. TypeOK'
    BY <2>1, <1>1, <1>2, <1>3, <1>5 DEF TypeOK, rows
  <2>6. FanOutIsPrefix'
    <3>1. \A k \in DOMAIN execs : Place(k)' = Place(k)
      BY <1>5, Zenon DEF Place
    <3>2. ASSUME NEW s \in Requests, Is(s, "done")' PROVE Cardinality(Made(s)') = Len(Plan[s])
      BY <3>2, <2>4, ZenonT(30) DEF ThreadKnows, Is
    <3> QED
      BY <3>1, <3>2, <1>1, <1>5, ZenonT(30) DEF FanOutIsPrefix
  <2>7. OneOpen' /\ ChildrenAreIndependent'
    BY <1>1, <1>5 DEF OneOpen, OpenProvisions, ChildrenAreIndependent
  <2>8. FrozenTimeout'
    <3>1. job.timeout = JobTimeout(execs[job.execution].params.stamp)
      BY <1>2, Zenon
    <3> QED
      BY <3>1, <1>1, <1>5, Zenon DEF FrozenTimeout, JobTimeout
  <2>9. OrphanedOnlyByLoss'
    <3> SUFFICES ASSUME NEW k \in DOMAIN execs, execs[k].status = "queued", ~Published(k)'
                 PROVE  LET s == execs[k].request
                        IN  \/ req'[s].pc = "lost"
                            \/ req'[s].pc = "publish" /\ req'[s].execution = k
      BY <1>5 DEF OrphanedOnlyByLoss, Is, Published
    <3>1. k # i /\ ~Published(k)
      <4>1. job.execution = i /\ job \in jobs' /\ jobs \subseteq jobs'
        BY <1>5, Zenon
      <4> HIDE DEF job
      <4>2. \A j \in jobs' : j.execution # k
        BY Zenon DEF Published
      <4> QED
        BY <4>1, <4>2, Zenon DEF Published
    <3>2. execs[k].request \in Requests
      BY <1>1, RowFacts, Zenon
    <3> QED
      BY <3>1, <3>2, <2>1, <1>1, <1>2 DEF OrphanedOnlyByLoss, Is
  <2> QED
    BY <2>4, <2>5, <2>6, <2>7, <2>8, <2>9, <1>4 DEF AdmissionInvariant
<1>6. CASE execs' = [execs EXCEPT ![i].status = "failed"] /\ Refuse(r) /\ jobs' = jobs
  <2>1. StatusOf(i, "failed")
    BY <1>6, Zenon DEF StatusOf, Statuses, OpenStatuses
  <2>2. /\ req' \in [Requests -> Thread] /\ req'[r].pc = "refused"
        /\ req'[r].next = req[r].next /\ req'[r].caller = req[r].caller
        /\ \A s \in Requests \ {r} : req'[s] = req[s]
    BY <1>6, MoveKeeps, ZenonT(30) DEF Refuse, Ended
  <2>3. ThreadKnows(r)'
    BY <2>2, <1>2, <1>3, Zenon DEF ThreadKnows, Steps
  <2>4. \A s \in Requests : ThreadKnows(s)'
    BY <2>1, <2>2, <2>3, <1>2, <1>3, StatusKeepsThread
  <2>5. execs' \in Seq(Execution) /\ DOMAIN execs' = DOMAIN execs
        /\ (\A k \in DOMAIN execs : execs'[k].params = execs[k].params)
        /\ (\A k \in DOMAIN execs : k # i => execs'[k] = execs[k])
        /\ execs'[i].status = "failed"
    BY <2>1, <1>1, <1>2, StatusFacts
  <2>6. TypeOK'
    BY <2>2, <2>5, <1>1, <1>3, <1>6, Zenon DEF TypeOK, rows
  <2>7. FanOutIsPrefix' /\ OneOpen' /\ ChildrenAreIndependent'
    <3>1. ASSUME NEW s \in Requests, Is(s, "done")' PROVE Cardinality(Made(s)') = Len(Plan[s])
      BY <3>1, <2>4, Zenon DEF ThreadKnows, Is
    <3> QED
      BY <3>1, <2>1, <1>2, StatusKeepsStore DEF FanOutIsPrefix
  <2>8. FrozenTimeout'
    BY <2>5, <1>1, <1>6 DEF FrozenTimeout, TypeOK, JobTimeout
  <2>9. OrphanedOnlyByLoss'
    <3> SUFFICES ASSUME NEW k \in DOMAIN execs', execs'[k].status = "queued", ~Published(k)'
                 PROVE  LET s == execs'[k].request
                        IN  \/ req'[s].pc = "lost"
                            \/ req'[s].pc = "publish" /\ req'[s].execution = k
      BY Zenon DEF OrphanedOnlyByLoss, Is
    <3>1. k \in DOMAIN execs /\ k # i /\ execs'[k] = execs[k] /\ ~Published(k)
      BY <2>5, <1>6, Zenon DEF Published
    <3>2. execs[k].request \in Requests
      BY <3>1, <1>1, RowFacts, Zenon
    <3> QED
      BY <3>1, <3>2, <2>2, <1>1, <1>2 DEF OrphanedOnlyByLoss, Is
  <2> QED
    BY <2>4, <2>6, <2>7, <2>8, <2>9, <1>4 DEF AdmissionInvariant
<1> QED
  BY <1>5, <1>6, Zenon DEF PublishJob

\* The execution that a thread inserts, and what it leaves of the others.
LEMMA InsertFacts ==
    ASSUME AdmissionInvariant, NEW r \in Requests, req[r].pc = "insert",
           execs' = Append(execs, NewExecution(r)), NEW n, n = Len(execs) + 1
    PROVE  /\ NewExecution(r) \in Execution
           /\ execs' \in Seq(Execution)
           /\ Len(execs) \in Nat
           /\ DOMAIN execs' = DOMAIN execs \cup {n}
           /\ n \notin DOMAIN execs
           /\ execs'[n] = NewExecution(r)
           /\ \A k \in DOMAIN execs : execs'[k] = execs[k]
           /\ Made(r)' = Made(r) \cup {n}
           /\ Cardinality(Made(r)') = req[r].next
           /\ Place(n)' = req[r].next
<1> DEFINE e == NewExecution(r)
<1>1. TypeOK /\ execs \in Seq(Execution) /\ Len(execs) \in Nat /\ DOMAIN execs = 1..Len(execs)
  BY MadeFinite, Zenon DEF AdmissionInvariant, TypeOK
<1>2. e \in Execution /\ e.request = r
  <2>1. req[r] \in Thread /\ req[r].params \in Params /\ Working(r) \in Procedures
        /\ Target[r] \in Range(Target) /\ req[r].backend \in Backends \cup {None}
    BY Knows, PlanFacts, Zenon DEF Thread
  <2> QED
    BY <2>1, Zenon DEF NewExecution, Execution, Statuses, OpenStatuses
<1> HIDE DEF e
<1>3. execs' = Append(execs, e)
  BY Zenon DEF e
<1>4. /\ execs' \in Seq(Execution) /\ DOMAIN execs' = DOMAIN execs \cup {n}
          /\ n \notin DOMAIN execs
      /\ execs'[n] = e /\ \A k \in DOMAIN execs : execs'[k] = execs[k]
  BY <1>1, <1>2, <1>3
<1>5. Made(r)' = Made(r) \cup {n} /\ n \notin Made(r)
  BY <1>2, <1>4 DEF Made
<1>6. Cardinality(Made(r)') = req[r].next
  <2>1. Cardinality(Made(r)) = req[r].next - 1 /\ req[r].next \in Int
    BY Knows, PlanFacts DEF ThreadKnows, Steps
  <2>2. IsFiniteSet(Made(r))
    BY <1>1, MadeFinite, Zenon
  <2>3. Cardinality(Made(r) \cup {n}) = Cardinality(Made(r)) + 1
    BY <2>2, <1>5, FS_AddElement, Zenon
  <2> QED
    BY <2>1, <2>3, <1>5
<1>7. Place(n)' = Cardinality(Made(r)')
  <2>1. DOMAIN execs' = 1..n
    BY <1>1, <1>4
  <2>2. {j \in 1..n : execs'[j].request = execs'[n].request} = Made(r)'
    BY <2>1, <1>2, <1>4, Zenon DEF Made
  <2> QED
    BY <2>2, ZenonT(30) DEF Place
<1> QED
  BY <1>1, <1>2, <1>4, <1>5, <1>6, <1>7 DEF e

\* The position of a thread is one of its plan.
LEMMA NextFacts ==
    ASSUME AdmissionInvariant, NEW r \in Requests
    PROVE  req[r].next \in Int /\ req[r].next \in DOMAIN Plan[r]
BY Knows, PlanFacts

\* One on and one back.
LEMMA BackOne == \A n \in Int : n = (n + 1) - 1
OBVIOUS

\* A new execution is of the request that made it, and no other.
LEMMA MadeByOthers ==
    ASSUME NEW r \in Requests, NEW s \in Requests \ {r}, NEW n,
           DOMAIN execs' = DOMAIN execs \cup {n}, n \notin DOMAIN execs,
           execs'[n].request = r, \A k \in DOMAIN execs : execs'[k] = execs[k]
    PROVE  Made(s)' = Made(s) /\ \A k \in Made(s) : execs'[k] = execs[k]
BY Zenon DEF Made

\* The thread after its commit: the next procedure, the end, or the publication.
LEMMA CommitThread ==
    ASSUME AdmissionInvariant, NEW r \in Requests, holder' # r,
           req'[r].caller = Input(r), Cardinality(Made(r)') = req[r].next,
           \/ req'[r] = Following(r)
           \/ /\ req'[r].pc = "publish" /\ req'[r].next = req[r].next
              /\ req'[r].execution \in Made(r)'
              /\ execs'[req'[r].execution].params = req'[r].params
              /\ req'[r].params.password = Stored(r, Working(r))
    PROVE  ThreadKnows(r)'
<1> DEFINE t == req'[r]
<1>1. req[r].next \in Int /\ req[r].next \in DOMAIN Plan[r]
  BY NextFacts, Zenon
<1>2. CASE t.pc = "load" /\ t.next = req[r].next + 1 /\ req[r].next + 1 \in DOMAIN Plan[r]
  <2>1. t.next \in DOMAIN Plan[r] /\ Cardinality(Made(r)') = t.next - 1
    BY <1>1, <1>2, BackOne, Zenon
  <2> QED
    BY <2>1, <1>2 DEF ThreadKnows
<1>3. CASE t.pc = "done" /\ t.next = req[r].next /\ req[r].next = Len(Plan[r])
  BY <1>1, <1>3, Zenon DEF ThreadKnows, Steps
<1>4. CASE /\ t.pc = "publish" /\ t.next = req[r].next
           /\ t.execution \in Made(r)' /\ execs'[t.execution].params = t.params
           /\ t.params.password = Stored(r, Working(r))
  <2>1. Working(r)' = Working(r)
    BY <1>4, Zenon DEF Working
  <2> QED
    BY <2>1, <1>1, <1>4, Zenon DEF ThreadKnows, Steps
<1> QED
  BY <1>2, <1>3, <1>4, FollowingFacts

\* A commit leaves what every other thread knows: a thread about to insert a
\* provision holds the row lock, so the new execution is not a provision.
LEMMA CommitOthers ==
    ASSUME AdmissionInvariant, NEW r \in Requests, req[r].pc = "insert", Alone(r),
           execs' = Append(execs, NewExecution(r)), NEW s \in Requests \ {r}
    PROVE  ThreadKnows(s)'
<1>1. PICK n : n = Len(execs) + 1
  BY Zenon
<1>2. ThreadKnows(s) /\ ThreadKnows(r) /\ TypeOK
  BY ZenonT(30) DEF AdmissionInvariant
<1>3. req'[s] = req[s] /\ (holder' = s <=> holder = s) /\ Working(s)' = Working(s)
  BY Zenon DEF Alone, Working
<1>4. /\ DOMAIN execs' = DOMAIN execs \cup {n} /\ n \notin DOMAIN execs
      /\ execs'[n] = NewExecution(r) /\ \A k \in DOMAIN execs : execs'[k] = execs[k]
  BY <1>1, InsertFacts, Zenon
<1>5. Made(s)' = Made(s) /\ \A k \in Made(s) : execs'[k] = execs[k]
  <2>1. NewExecution(r).request = r
    BY DEF NewExecution
  <2> QED
    BY <2>1, <1>4, MadeByOthers, ZenonT(30)
<1>6. ASSUME req[s].pc = "insert", Working(s) = Provision
      PROVE  OpenProvisions(Target[s])' = {}
  <2>1. Working(r) # Provision
    BY <1>2, <1>6, ZenonT(30) DEF ThreadKnows
  <2>2. OpenProvisions(Target[s]) = {}
    BY <1>2, <1>6, ZenonT(30) DEF ThreadKnows
  <2>3. NewExecution(r).procedure # Provision
    BY <2>1, Zenon DEF NewExecution
  <2>4. ASSUME NEW k \in OpenProvisions(Target[s])' PROVE FALSE
    <3>1. k \in DOMAIN execs' /\ execs'[k].procedure = Provision
              /\ execs'[k].target = Target[s] /\ execs'[k].status \in OpenStatuses
      BY <2>4, Zenon DEF OpenProvisions
    <3>2. k # n
      BY <3>1, <2>3, <1>4, Zenon
    <3>3. k \in DOMAIN execs /\ execs'[k] = execs[k]
      BY <3>1, <3>2, <1>4, Zenon
    <3> QED
      BY <3>1, <3>3, <2>2, Zenon DEF OpenProvisions
  <2> QED
    BY <2>4, Zenon
<1> QED
  BY <1>2, <1>3, <1>5, <1>6, ZenonT(30) DEF ThreadKnows

\* What a commit keeps of the stored executions.
LEMMA CommitStore ==
    ASSUME AdmissionInvariant, NEW r \in Requests, req[r].pc = "insert",
           execs' = Append(execs, NewExecution(r))
    PROVE  /\ OneOpen'
           /\ ChildrenAreIndependent'
           /\ \A k \in DOMAIN execs' :
                LET plan == Plan[execs'[k].request]
                IN  Place(k)' \in DOMAIN plan /\ execs'[k].procedure = plan[Place(k)']
<1>1. PICK n : n = Len(execs) + 1
  BY Zenon
<1>2. TypeOK /\ OneOpen /\ ChildrenAreIndependent /\ FanOutIsPrefix
  BY Zenon DEF AdmissionInvariant
<1>3. /\ DOMAIN execs' = DOMAIN execs \cup {n} /\ n \notin DOMAIN execs
      /\ execs'[n] = NewExecution(r) /\ (\A k \in DOMAIN execs : execs'[k] = execs[k])
      /\ Place(n)' = req[r].next
  BY <1>1, InsertFacts, ZenonT(30)
<1>4. /\ Working(r) = Provision => OpenProvisions(Target[r]) = {}
      /\ req[r].params.password = Stored(r, Working(r))
      /\ req[r].next \in DOMAIN Plan[r]
  BY Knows, ZenonT(30) DEF ThreadKnows
<1>5. /\ NewExecution(r).procedure = Working(r) /\ NewExecution(r).target = Target[r]
      /\ NewExecution(r).request = r /\ NewExecution(r).params = req[r].params
  BY Zenon DEF NewExecution
<1>6. OneOpen'
  <2> SUFFICES ASSUME NEW t \in Range(Target),
                      NEW i \in OpenProvisions(t)', NEW j \in OpenProvisions(t)'
               PROVE  i = j
    BY Zenon DEF OneOpen
  <2>1. OpenProvisions(t)' \subseteq OpenProvisions(t) \cup {n}
    BY <1>3, Zenon DEF OpenProvisions
  <2>2. n \in OpenProvisions(t)' => OpenProvisions(t) = {}
    BY <1>3, <1>4, <1>5 DEF OpenProvisions
  <2> QED
    BY <2>1, <2>2, <1>2, Zenon DEF OneOpen
<1>7. ChildrenAreIndependent'
  BY <1>2, <1>3, <1>4, <1>5, ZenonT(30) DEF ChildrenAreIndependent
<1>8. \A k \in DOMAIN execs : Place(k)' = Place(k)
  BY <1>2, <1>3, PlacesKept, Zenon
<1>9. ASSUME NEW k \in DOMAIN execs'
      PROVE  LET plan == Plan[execs'[k].request]
             IN  Place(k)' \in DOMAIN plan /\ execs'[k].procedure = plan[Place(k)']
  <2>1. CASE k = n
    BY <2>1, <1>3, <1>4, <1>5 DEF Working
  <2>2. CASE k # n
    BY <2>2, <1>2, <1>3, <1>8, ZenonT(30) DEF FanOutIsPrefix
  <2> QED
    BY <2>1, <2>2, ZenonT(30)
<1> QED
  BY <1>6, <1>7, <1>9, Zenon

\* The persisting transaction: a commit, or a normalisation that rolls it back.
LEMMA PersistKeeps ==
    ASSUME AdmissionInvariant, NEW r \in Requests, PersistRequest(r)
    PROVE  AdmissionInvariant'
<1>1. CASE Refuse(r) /\ execs' = execs
  <2>1. Quiet(r)
    BY <1>1, EndKeeps, Zenon DEF PersistRequest, Refuse, Is, Steps
  <2> QED
    BY <2>1, QuietKeeps, Zenon
<1>2. CASE /\ execs' = Append(execs, NewExecution(r))
           /\ req' = [req EXCEPT ![r] =
                        IF Working(r) \in Protected THEN Following(r)
                        ELSE [@ EXCEPT !.pc = "publish", !.execution = Len(execs) + 1]]
  <2>1. PICK n : n = Len(execs) + 1
    BY Zenon
  <2> DEFINE p == [req[r] EXCEPT !.pc = "publish", !.execution = n]
             t == IF Working(r) \in Protected THEN Following(r) ELSE p
  <2>2. /\ TypeOK /\ OrphanedOnlyByLoss /\ FrozenTimeout /\ TokenOnlyToReviewed
        /\ req[r] \in Thread /\ req \in [Requests -> Thread]
    BY Knows, Zenon DEF AdmissionInvariant
  <2>3. /\ req[r].pc = "insert" /\ req[r].caller = Input(r)
        /\ req[r].params.password = Stored(r, Working(r))
        /\ UNCHANGED <<rows, jobs, sent>> /\ Unlock(r)
    BY Knows, Zenon DEF PersistRequest, Is, ThreadKnows
  <2>4. /\ DOMAIN execs' = DOMAIN execs \cup {n} /\ n \notin DOMAIN execs /\ n \in Nat
        /\ execs'[n] = NewExecution(r) /\ (\A k \in DOMAIN execs : execs'[k] = execs[k])
        /\ Made(r)' = Made(r) \cup {n} /\ Cardinality(Made(r)') = req[r].next
        /\ execs' \in Seq(Execution)
    BY <1>2, <2>1, <2>3, InsertFacts
  <2>5. /\ p \in Thread /\ p.pc = "publish" /\ p.execution = n /\ p.next = req[r].next
        /\ p.caller = req[r].caller /\ p.params = req[r].params
    BY <2>2, <2>4, ZenonT(30) DEF Thread, Steps
  <2>6. req' = [req EXCEPT ![r] = t]
    BY <1>2, <2>1, <2>2, Zenon
  <2>7. /\ t \in Thread /\ t.caller = Input(r) /\ t.pc # "insert"
    BY <2>3, <2>5, FollowingFacts, Zenon
  <2> HIDE DEF t
  <2>8. /\ req'[r] = t /\ (\A s \in Requests \ {r} : req'[s] = req[s])
        /\ req' \in [Requests -> Thread]
    BY <2>2, <2>6, <2>7, Zenon
  <2>9. /\ holder' # r /\ holder' \in Requests \cup {None}
        /\ \A s \in Requests \ {r} : holder' = s <=> holder = s
    BY <2>2, <2>3, NoneAssumption DEF Unlock, TypeOK
  <2>10. Alone(r)
    BY <2>8, <2>9, Zenon DEF Alone
  <2>11. ThreadKnows(r)'
    <3>1. CASE Working(r) \in Protected
      BY <3>1, <2>4, <2>7, <2>8, <2>9, CommitThread, ZenonT(30) DEF t
    <3>2. CASE Working(r) \notin Protected
      <4>1. t = p /\ n \in Made(r)' /\ execs'[n].params = req[r].params
        BY <3>2, <2>4 DEF t, NewExecution
      <4>2. req'[r] = p
        BY <4>1, <2>8, Zenon
      <4> HIDE DEF p
      <4>3. /\ req'[r].pc = "publish" /\ req'[r].next = req[r].next
            /\ req'[r].execution \in Made(r)' /\ req'[r].caller = Input(r)
            /\ execs'[req'[r].execution].params = req'[r].params
            /\ req'[r].params.password = Stored(r, Working(r))
        BY <4>1, <4>2, <2>3, <2>5, ZenonT(30)
      <4> QED
        BY <4>3, <2>4, <2>9, CommitThread, Zenon
    <3> QED
      BY <3>1, <3>2, Zenon
  <2>12. \A s \in Requests : ThreadKnows(s)'
    BY <1>2, <2>3, <2>10, <2>11, CommitOthers
  <2>13. TypeOK'
    BY <2>2, <2>3, <2>4, <2>8, <2>9, ZenonT(30) DEF TypeOK, rows
  <2>14. FanOutIsPrefix' /\ OneOpen' /\ ChildrenAreIndependent'
    <3>1. ASSUME NEW s \in Requests, Is(s, "done")' PROVE Cardinality(Made(s)') = Len(Plan[s])
      BY <3>1, <2>12, Zenon DEF ThreadKnows, Is
    <3> QED
      BY <3>1, <1>2, <2>3, CommitStore DEF FanOutIsPrefix
  <2>15. FrozenTimeout' /\ TokenOnlyToReviewed'
    BY <2>2, <2>3, <2>4, ZenonT(30) DEF FrozenTimeout, TypeOK, JobTimeout, TokenOnlyToReviewed
  <2>16. OrphanedOnlyByLoss'
    <3> SUFFICES ASSUME NEW k \in DOMAIN execs', execs'[k].status = "queued", ~Published(k)'
                 PROVE  LET s == execs'[k].request
                        IN  \/ req'[s].pc = "lost"
                            \/ req'[s].pc = "publish" /\ req'[s].execution = k
      BY Zenon DEF OrphanedOnlyByLoss, Is
    <3>1. CASE k = n
      <4>1. execs'[k].request = r /\ Working(r) \notin Protected
        BY <3>1, <2>4 DEF NewExecution
      <4>2. req'[r] = p
        BY <4>1, <2>8, Zenon DEF t
      <4> QED
        BY <3>1, <4>1, <4>2, <2>5
    <3>2. CASE k # n
      <4>1. k \in DOMAIN execs /\ execs'[k] = execs[k] /\ ~Published(k)
        BY <3>2, <2>3, <2>4, Zenon DEF Published
      <4>2. execs[k].request \in Requests
        BY <4>1, <2>2, RowFacts, Zenon
      <4>3. LET s == execs[k].request
            IN  req[s].pc = "lost" \/ (req[s].pc = "publish" /\ req[s].execution = k)
        BY <4>1, <2>2, Zenon DEF OrphanedOnlyByLoss, Is
      <4> QED
        BY <4>1, <4>2, <4>3, <2>3, <2>8
    <3> QED
      BY <3>1, <3>2, Zenon
  <2> QED
    BY <2>12, <2>13, <2>14, <2>15, <2>16 DEF AdmissionInvariant
<1> QED
  BY <1>1, <1>2, Zenon DEF PersistRequest

\* The thread is lost.
LEMMA LoseKeeps ==
    ASSUME AdmissionInvariant, NEW r \in Requests, Lose(r)
    PROVE  Quiet(r)
BY EndKeeps, Zenon DEF Lose

\* An edit of the settings, the backends, the catalogue, the grants or a target,
\* or a step that changes nothing.
LEMMA EditKeeps ==
    ASSUME AdmissionInvariant, Edit \/ UNCHANGED vars
    PROVE  AdmissionInvariant'
<1>1. UNCHANGED <<req, holder, execs, jobs, sent>>
  BY Zenon DEF Edit, vars
<1>2. TypeOK'
  <2>1. TypeOK
    BY Zenon DEF AdmissionInvariant
  <2>2. CASE UNCHANGED vars
    BY <2>1, <2>2, Zenon DEF TypeOK, vars, rows
  <2>3. CASE Edit
    <3>1. /\ settings' \in [enabled : BOOLEAN, backend : Backends \cup {None}]
          /\ url' \in [Backends -> Urls]
          /\ object' \in [Range(Target) -> {"reviewed", "renamed", "hidden"}]
          /\ consumer' \in BOOLEAN
      BY <2>1, <2>3, ZenonT(60) DEF TypeOK, Edit
    <3>2. catalog' \in [Procedures -> [enabled : BOOLEAN, timeout : Timeouts]]
      BY <2>1, <2>3, ZenonT(30) DEF TypeOK, Edit
    <3> QED
      BY <3>1, <3>2, <2>1, <1>1, Zenon DEF TypeOK
  <2> QED
    BY <2>2, <2>3, Zenon
<1>3. ASSUME NEW s \in Requests PROVE ThreadKnows(s)'
  <2>1. ThreadKnows(s)
    BY Zenon DEF AdmissionInvariant
  <2>2. /\ Working(s)' = Working(s) /\ Made(s)' = Made(s)
        /\ OpenProvisions(Target[s])' = OpenProvisions(Target[s])
    BY <1>1 DEF Working, Made, OpenProvisions
  <2> QED
    BY <1>1, <2>1, <2>2, ZenonT(30) DEF ThreadKnows
<1>4. OneOpen' /\ FanOutIsPrefix' /\ OrphanedOnlyByLoss'
  <2>1. OneOpen'
    BY <1>1 DEF AdmissionInvariant, OneOpen, OpenProvisions
  <2>2. (\A i \in DOMAIN execs : Place(i)' = Place(i)) /\ (\A s \in Requests : Made(s)' = Made(s))
    BY <1>1, Zenon DEF Place, Made
  <2>3. FanOutIsPrefix'
    BY <1>1, <2>2, ZenonT(30) DEF AdmissionInvariant, FanOutIsPrefix, Is
  <2>4. OrphanedOnlyByLoss'
    BY <1>1, Zenon DEF AdmissionInvariant, OrphanedOnlyByLoss, Is, Published
  <2> QED
    BY <2>1, <2>3, <2>4, Zenon
<1>5. TokenOnlyToReviewed' /\ FrozenTimeout' /\ ChildrenAreIndependent'
  BY <1>1, Zenon DEF AdmissionInvariant, TokenOnlyToReviewed, FrozenTimeout, JobTimeout,
              ChildrenAreIndependent
<1> QED
  BY <1>2, <1>3, <1>4, <1>5, Zenon DEF AdmissionInvariant

-----------------------------------------------------------------------------

\* No request has begun: no execution, no job, no lock.
LEMMA InitKnows ==
    ASSUME Init
    PROVE  AdmissionInvariant
<1>1. execs = <<>> /\ jobs = {} /\ sent = {} /\ holder = None /\ DOMAIN execs = {}
  BY DEF Init
<1>2. TypeOK
  <2>1. (CHOOSE t \in Timeouts : TRUE) \in Timeouts
    BY TimeoutsAssumption, Zenon
  <2>2. catalog \in [Procedures -> [enabled : BOOLEAN, timeout : Timeouts]]
    BY <2>1, ZenonT(30) DEF Init
  <2>3. settings \in [enabled : BOOLEAN, backend : Backends \cup {None}]
        /\ url \in [Backends -> Urls] /\ consumer \in BOOLEAN
        /\ object \in [Range(Target) -> {"reviewed", "renamed", "hidden"}]
    BY BoundAssumption, Zenon DEF Init, Urls
  <2>4. req \in [Requests -> Thread]
    <3>1. ASSUME NEW r \in Requests
          PROVE  [pc |-> "start", next |-> 1, procedure |-> NoProcedure,
                  caller |-> Input(r), params |-> Input(r), backend |-> None,
                  target |-> None, execution |-> 0] \in Thread
      <4>1. NoProcedure \in [enabled : BOOLEAN, timeout : Nat]
        BY Zenon DEF NoProcedure
      <4> QED
        BY <4>1, InputFacts, ZenonT(30) DEF Thread, Steps
    <3> QED
      BY <3>1, Zenon DEF Init
  <2>5. execs \in Seq(Execution)
    BY <1>1
  <2> QED
    BY <1>1, <2>2, <2>3, <2>4, <2>5, Zenon DEF TypeOK
<1>3. ASSUME NEW r \in Requests PROVE ThreadKnows(r)
  <2>1. Cardinality(Made(r)) = 0
    BY <1>1, FS_EmptySet, Zenon DEF Made
  <2>2. /\ req[r].pc = "start" /\ req[r].next = 1 /\ req[r].caller = Input(r)
        /\ 1 \in DOMAIN Plan[r] /\ holder # r
    <3>1. holder # r
      BY <1>1, NoneAssumption, Zenon
    <3>2. 1 \in DOMAIN Plan[r]
      BY PlanFacts
    <3>3. req[r].pc = "start" /\ req[r].next = 1 /\ req[r].caller = Input(r)
      BY Zenon DEF Init
    <3> QED
      BY <3>1, <3>2, <3>3, Zenon
  <2>3. Cardinality(Made(r)) = req[r].next - 1
    BY <2>1, <2>2
  <2> QED
    BY <2>2, <2>3, Zenon DEF ThreadKnows
<1>4. OneOpen /\ OrphanedOnlyByLoss /\ TokenOnlyToReviewed /\ FrozenTimeout
      /\ ChildrenAreIndependent
  BY <1>1, ZenonT(30) DEF OneOpen, OpenProvisions, OrphanedOnlyByLoss, TokenOnlyToReviewed,
      FrozenTimeout,
              ChildrenAreIndependent
<1>5. FanOutIsPrefix
  BY <1>1, Zenon DEF Init, FanOutIsPrefix, Is
<1> QED
  BY <1>2, <1>3, <1>4, <1>5, Zenon DEF AdmissionInvariant

\* The invariant holds of every request, operator and fault: what each thread
\* knows at its step, together with what the committed executions, the jobs and
\* the capability requests satisfy.
THEOREM AdmissionInvariantHolds == Spec => []AdmissionInvariant
<1>1. Init => AdmissionInvariant
  BY InitKnows, Zenon
<1>2. AdmissionInvariant /\ [Next]_vars => AdmissionInvariant'
  <2> SUFFICES ASSUME AdmissionInvariant, [Next]_vars PROVE AdmissionInvariant'
    BY Zenon
  <2>1. ASSUME NEW r \in Requests, Step(r) \/ Lose(r) PROVE AdmissionInvariant'
    <3>1. CASE PersistRequest(r)
      BY <3>1, PersistKeeps, Zenon
    <3>2. CASE PublishJob(r)
      BY <3>2, PublishKeeps, Zenon
    <3>3. CASE Quiet(r)
      BY <3>3, QuietKeeps, Zenon
    <3> QED
      BY <2>1, <3>1, <3>2, <3>3, StartKeeps, LoadKeeps, SettingsKeeps, AuthorizationKeeps,
         PayloadKeeps, CapabilityKeeps, LockKeeps, CheckKeeps, LoseKeeps DEF Step
  <2>2. ASSUME NEW i \in DOMAIN execs, Advance(i) PROVE AdmissionInvariant'
    BY <2>2, AdvanceKeeps, Zenon
  <2> QED
    BY <2>1, <2>2, EditKeeps, Zenon DEF Next
<1> QED
  BY <1>1, <1>2, PTL DEF Spec

\* _require_no_concurrent_samba_provision: at most one open provision of a target
\* at any moment, for any number of racing requests and intents; the row lock
\* covers the query and the insert.
THEOREM OneOpenProvisionHolds == Spec => []OneOpenProvision
<1>1. AdmissionInvariant => OneOpenProvision
  <2> SUFFICES ASSUME AdmissionInvariant, NEW t \in Range(Target)
               PROVE  Cardinality(OpenProvisions(t)) <= 1
    BY Zenon DEF OneOpenProvision
  <2>1. CASE OpenProvisions(t) = {}
    BY <2>1, FS_EmptySet
  <2>2. CASE OpenProvisions(t) # {}
    <3>1. PICK i : i \in OpenProvisions(t)
      BY <2>2, Zenon
    <3>2. OpenProvisions(t) = {i}
      BY <3>1 DEF AdmissionInvariant, OneOpen
    <3>3. Cardinality({i}) = 1
      BY FS_Singleton, Zenon
    <3> QED
      BY <3>2, <3>3
  <2> QED
    BY <2>1, <2>2, Zenon
<1> QED
  BY <1>1, AdmissionInvariantHolds, PTL

\* execute_intent and _enqueue_execution_job: at any moment the children of a call
\* are, in order, a prefix of its plan, and one that is queued without a job has
\* its thread about to publish it or lost.
THEOREM PublishedInOrderHolds == Spec => []PublishedInOrder
<1>1. AdmissionInvariant => PublishedInOrder
  BY Zenon DEF AdmissionInvariant, PublishedInOrder
<1> QED
  BY <1>1, AdmissionInvariantHolds, PTL

\* create_execution against operators who edit between its gates: the token of a
\* protected procedure goes to the reviewed URL, the job's deadline is that of the
\* execution's stamp, and every child has the caller's own parameters.
THEOREM UsedAsCheckedHolds == Spec => []UsedAsChecked
<1>1. AdmissionInvariant => UsedAsChecked
  BY Zenon DEF AdmissionInvariant, UsedAsChecked
<1> QED
  BY <1>1, AdmissionInvariantHolds, PTL
=============================================================================
