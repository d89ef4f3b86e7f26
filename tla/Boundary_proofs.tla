-------------------------- MODULE Boundary_proofs --------------------------
(***************************************************************************)
(* Machine-checked proofs about what crosses the plugin's boundary.        *)
(* BackendTransport: any set of transport kinds, any budget, any death     *)
(* penalty and any length of the call.  BoundedRead: any sizes and any     *)
(* budget.  BackendResponse: any contracts, schemas, answers and limits.   *)
(* ProcedureEdit: any edits, rows and editors.                             *)
(***************************************************************************)
EXTENDS BackendAnswer, ProcedureEdit, Sequences, TLAPS

-----------------------------------------------------------------------------
(* What the envelopes say.                                                 *)

\* A closed failure reported as indeterminate stays so, unless the operation
\* changes nothing.
LEMMA ClosedFacts ==
    ASSUME TypeOK, kind # "generic", NEW stage
    PROVE  /\ Closed(stage).type = "closed"
           /\ stage = "indeterminate" /\ operation # "diagnose" =>
                  Closed(stage).stage = "indeterminate"
<1>1. kind \in AllKinds \ {"generic"}
  BY KindsAssumption, Zenon DEF TypeOK
<1>2. Closed(stage).type = "closed"
  BY Zenon DEF Closed
<1>3. ASSUME stage = "indeterminate", operation # "diagnose"
      PROVE  Closed(stage).stage = "indeterminate"
  <2> USE <1>3 DEF Closed
  <2>1. CASE kind = "upgrade"
    BY <2>1, Zenon DEF UpgradeFailure
  <2>2. CASE kind = "dns"
    BY <2>2, Zenon DEF DnsFailure
  <2>3. CASE kind = "runner"
    BY <2>3, Zenon DEF RunnerFailure
  <2>4. CASE kind = "org_runner"
    BY <2>4, Zenon DEF OrgRunnerFailure
  <2>5. CASE kind = "docker_runner"
    BY <2>5, Zenon DEF DockerFailure
  <2>6. CASE kind \in {"pair", "akvorado", "rq_worker"}
    BY <2>6, Zenon DEF PairFailure, AkvoradoFailure, RqWorkerFailure
  <2> QED
    BY <1>1, <2>1, <2>2, <2>3, <2>4, <2>5, <2>6, Zenon DEF AllKinds
<1> QED
  BY <1>2, <1>3, Zenon

\* The types of the other results.
LEMMA ResultTypes ==
    /\ NoResult.type = "none"
    /\ \A k : Data(k).type = "data" /\ Data(k).ok = k
    /\ \A code : Error(code).type = "error"
BY Zenon DEF NoResult, Data, Error

\* Only a streamed kind has a wall clock, and it is not the generic kind.
LEMMA StreamedFacts ==
    /\ "generic" \notin Streamed /\ "upgrade" \notin Streamed
    /\ \A k : WallClock(k) <=> k \in Streamed
    /\ \A k \in Streamed : k \in SecretProtected \cup {"akvorado", "rq_worker"}
    /\ "generic" \notin SecretProtected
BY Zenon DEF Streamed, AllKinds, WallClock, SecretProtected

\* What an expiring timer raises.
LEMMA AlarmFacts ==
    ASSUME CallInvariant
    PROVE  /\ handler = "rq" => Alarm.type = "death"
           /\ handler = "call" => Alarm = Closed("indeterminate") /\ Alarm.type = "closed"
           /\ operation # "diagnose" /\ Alarm.type = "closed" => Alarm.stage = "indeterminate"
<1>1. CASE handler = "call"
  <2>1. TypeOK /\ kind # "generic"
    BY <1>1, StreamedFacts, Zenon DEF CallInvariant, ClockIsExact
  <2> QED
    BY <1>1, <2>1, ClosedFacts, Zenon DEF Alarm
<1>2. CASE handler = "rq"
  BY <1>2, Zenon DEF Alarm
<1> QED
  BY <1>1, <1>2, Zenon DEF CallInvariant, TypeOK

-----------------------------------------------------------------------------
(* The invariant is inductive.                                             *)

\* Before the call the death penalty runs alone and nothing has happened.
LEMMA InitCall == Init => CallInvariant
<1> SUFFICES ASSUME Init  PROVE CallInvariant
  BY Zenon
<1>1. operation \in {"start", "reconcile", "diagnose"}
  BY Zenon DEF Init
<1>2. TypeOK
  <2>1. now \in 0..MaxTime /\ timer \in 0..(MaxOuter + Budget) /\ outer \in 0..MaxOuter
    BY BudgetAssumption DEF Init
  <2>2. result.type = "none"
    BY ResultTypes, Zenon DEF Init
  <2>3. /\ kind \in Kinds /\ thread \in BOOLEAN /\ sent \in BOOLEAN /\ ok \in BOOLEAN
        /\ pc = "arm" /\ handler = "rq" /\ status = "2xx" /\ body = "good"
        /\ response = "none"
    BY Zenon DEF Init
  <2> QED
    BY <1>1, <2>1, <2>2, <2>3, Zenon DEF TypeOK, Statuses
<1>3. InOrder /\ NoFalseCertainty /\ SuccessIsProved
  BY ResultTypes, Zenon DEF Init, InOrder, Over, NoFalseCertainty, SuccessIsProved
<1>4. ClockIsExact
  BY <1>2 DEF Init, ClockIsExact, LeftOf, Tighter, TypeOK
<1>5. EndsInTime
  BY Zenon DEF Init, EndsInTime, Done
<1> QED
  BY <1>2, <1>3, <1>4, <1>5, Zenon DEF CallInvariant

\* A result that is closed as indeterminate, or is no closed failure and no
\* success, claims nothing.
LEMMA ClaimsNothing ==
    ASSUME UNCHANGED <<kind, operation>>, result'.type # "data",
           result'.type = "closed" /\ operation # "diagnose" =>
               result'.stage = "indeterminate"
    PROVE  NoFalseCertainty' /\ SuccessIsProved'
BY Zenon DEF NoFalseCertainty, SuccessIsProved, TokenResetRequired

\* Entering the wall clock.
LEMMA ArmCall == ASSUME CallInvariant, Arm  PROVE CallInvariant'
<1>0. /\ TypeOK /\ result = NoResult /\ ~sent /\ handler = "rq" /\ now = 0
      /\ timer = LeftOf(outer) /\ UNCHANGED <<kind, operation, outer, thread, now, sent,
                                              status, response, body, ok>>
  BY Zenon DEF CallInvariant, InOrder, ClockIsExact, Over, Arm, call
<1>1. \/ /\ pc' = "leave" /\ kind \in Streamed /\ result' = Closed("indeterminate")
         /\ UNCHANGED <<handler, timer>>
      \/ /\ pc' = "post" /\ result' = result
         /\ \/ kind \in Streamed /\ ~Tighter /\ handler' = "call" /\ timer' = Budget
            \/ UNCHANGED <<handler, timer>>
  BY <1>0, Zenon DEF Arm, Finish, WallClock, Tighter
<1>2. result'.type \in {"none", "closed"}
      /\ (result'.type = "closed" /\ operation # "diagnose" =>
              result'.stage = "indeterminate")
  BY <1>0, <1>1, ClosedFacts, ResultTypes, StreamedFacts
<1>3. TypeOK'
  <2>1. timer' \in 0..(MaxOuter + Budget) /\ handler' \in {"rq", "call"}
    BY <1>0, <1>1, BudgetAssumption DEF TypeOK
  <2> QED
    BY <1>0, <1>1, <1>2, <2>1 DEF TypeOK
<1>4. NoFalseCertainty' /\ SuccessIsProved'
  BY <1>0, <1>2, ClaimsNothing, Zenon
<1>5. InOrder'
  <2>1. response = "none"
    BY Zenon DEF CallInvariant, InOrder, Arm
  <2> QED
    BY <1>0, <1>1, <2>1, Zenon DEF InOrder, Over
<1>6. ClockIsExact'
  BY <1>0, <1>1, BudgetAssumption DEF ClockIsExact, LeftOf, Tighter, Over, TypeOK
<1>7. EndsInTime'
  BY <1>1, Zenon DEF EndsInTime, Done
<1> QED
  BY <1>3, <1>4, <1>5, <1>6, <1>7, Zenon DEF CallInvariant

\* A tick, and the alarm it may raise.
LEMMA TickCall == ASSUME CallInvariant, Tick  PROVE CallInvariant'
<1>0. /\ TypeOK /\ InOrder /\ ClockIsExact
      /\ pc \in {"post", "classify", "read", "normalize", "leave"} /\ now < MaxTime
      /\ now' = now + 1 /\ timer' = IF timer > 0 THEN timer - 1 ELSE 0
      /\ UNCHANGED <<kind, operation, outer, thread, handler, status, body, ok>>
  BY Zenon DEF CallInvariant, Tick, call
<1>1. /\ now \in Nat /\ timer \in Nat /\ outer \in Nat /\ Budget \in Nat \ {0} /\ MaxTime \in Nat
      /\ handler \in {"rq", "call"}
  BY <1>0, BudgetAssumption DEF TypeOK
<1>2. \/ timer # 1 /\ UNCHANGED <<pc, result, sent, response>>
      \/ /\ timer = 1 /\ result' = Alarm /\ pc' \in {"leave", "done"}
         /\ pc' = "done" => handler = "call"
         /\ sent' \in BOOLEAN /\ response' \in {response, "closed"}
  BY <1>0, Zenon DEF Tick, TypeOK
<1>3. TypeOK'
  <2>1. now' \in 0..MaxTime /\ timer' \in 0..(MaxOuter + Budget)
    BY <1>0, <1>1, BudgetAssumption DEF TypeOK
  <2>2. result'.type \in {"none", "data", "closed", "error", "death"}
    BY <1>0, <1>1, <1>2, AlarmFacts, Zenon DEF TypeOK
  <2>3. /\ pc' \in {"arm", "post", "classify", "read", "normalize", "leave", "done"}
        /\ sent' \in BOOLEAN /\ response' \in {"none", "open", "closed"}
    BY <1>0, <1>2, Zenon DEF TypeOK
  <2> QED
    BY <1>0, <2>1, <2>2, <2>3, Zenon DEF TypeOK
<1>4. timer = 1 => /\ handler = "call" => now + 1 = Budget /\ ~Tighter
                   /\ handler = "rq" => now + 1 = outer
  BY <1>0, <1>1 DEF ClockIsExact, LeftOf
<1>5. NoFalseCertainty' /\ SuccessIsProved'
  <2>1. CASE timer = 1
    <3>1. /\ UNCHANGED <<kind, operation>> /\ result'.type # "data"
          /\ result'.type = "closed" /\ operation # "diagnose" => result'.stage = "indeterminate"
      BY <1>0, <1>1, <1>2, <2>1, AlarmFacts, Zenon
    <3> QED
      BY <3>1, ClaimsNothing, Zenon
  <2>2. CASE timer # 1
    <3>1. UNCHANGED <<kind, operation, sent, result, status, body>>
      BY <1>0, <1>2, <2>2, Zenon
    <3> QED
      BY <3>1, Zenon DEF CallInvariant, NoFalseCertainty, SuccessIsProved, TokenResetRequired
  <2> QED
    BY <2>1, <2>2, Zenon
<1>6. InOrder'
  <2>1. CASE timer = 1
    <3>1. result'.type = "death" \/ now' >= Budget
      BY <1>0, <1>1, <1>2, <1>4, <2>1, AlarmFacts
    <3> QED
      BY <1>2, <2>1, <3>1, Zenon DEF InOrder, Over
  <2>2. CASE timer # 1
    <3>1. now >= Budget => now' >= Budget
      BY <1>0, <1>1
    <3> QED
      BY <1>0, <1>2, <2>2, <3>1 DEF InOrder, Over
  <2> QED
    BY <2>1, <2>2, Zenon
<1>7. ClockIsExact'
  <2>1. /\ handler = "rq" => timer' = LeftOf(outer)'
        /\ handler = "call" => timer' = LeftOf(Budget)'
    BY <1>0, <1>1 DEF ClockIsExact, LeftOf
  <2>2. ASSUME Tighter, now + 1 >= outer  PROVE Over' /\ result'.type = "death"
    <3>1. handler = "rq" /\ timer = LeftOf(outer)
      BY <1>0, <1>1, <2>2, Zenon DEF ClockIsExact
    <3>2. CASE now >= outer
      <4>1. timer # 1 /\ Over /\ result.type = "death"
        BY <1>0, <1>1, <2>2, <3>1, <3>2 DEF ClockIsExact, LeftOf
      <4> QED
        BY <1>2, <4>1, Zenon DEF Over
    <3>3. CASE now + 1 = outer
      <4>1. timer = 1
        BY <1>1, <3>1, <3>3 DEF LeftOf
      <4> QED
        BY <1>2, <3>1, <4>1, AlarmFacts, Zenon DEF Over
    <3> QED
      BY <1>1, <2>2, <3>2, <3>3
  <2>3. pc' # "arm"
    BY <1>0, <1>2, Zenon
  <2> QED
    BY <1>0, <2>1, <2>2, <2>3, Zenon DEF ClockIsExact, Tighter
<1>8. EndsInTime'
  <2>0. Closed("indeterminate")' = Closed("indeterminate")
    BY <1>0, Zenon DEF Closed, UpgradeFailure, DnsFailure, RunnerFailure, OrgRunnerFailure,
       DockerFailure, PairFailure, AkvoradoFailure, RqWorkerFailure
  <2> SUFFICES ASSUME pc' = "done"
               PROVE  now' = Budget /\ result' = Closed("indeterminate") /\ result'.type # "data"
    BY <2>0, Zenon DEF EndsInTime, Done
  <2>1. timer = 1 /\ handler = "call" /\ result' = Alarm
    BY <1>0, <1>2, Zenon
  <2> QED
    BY <1>0, <1>4, <2>1, AlarmFacts, Zenon
<1> QED
  BY <1>3, <1>5, <1>6, <1>7, <1>8, Zenon DEF CallInvariant

\* Leaving the wall clock.
LEMMA LeaveCall == ASSUME CallInvariant, Leave  PROVE CallInvariant'
<1>0. /\ TypeOK /\ InOrder /\ ClockIsExact /\ pc = "leave" /\ pc' = "done" /\ handler' = "rq"
      /\ timer' = IF handler = "rq" THEN timer ELSE LeftOf(outer)
      /\ UNCHANGED <<kind, operation, outer, thread, now, sent, status, response, body, ok>>
  BY Zenon DEF CallInvariant, Leave, call, LeftOf
<1>1. /\ now \in Nat /\ timer \in Nat /\ outer \in Nat /\ Budget \in Nat \ {0}
      /\ handler \in {"rq", "call"}
  BY <1>0, BudgetAssumption DEF TypeOK
<1>2. \/ /\ kind \in Streamed /\ now >= Budget /\ result.type \in {"data", "closed"}
         /\ result' = Closed("indeterminate")
      \/ /\ result' = result
         /\ kind \in Streamed /\ now >= Budget => result.type \notin {"data", "closed"}
  BY <1>0, Zenon DEF Leave, WallClock
<1>3. kind \in Streamed =>
          /\ Closed("indeterminate").type = "closed"
          /\ operation # "diagnose" => Closed("indeterminate").stage = "indeterminate"
  BY <1>0, ClosedFacts, StreamedFacts, Zenon
<1>4. timer' = LeftOf(outer)
  BY <1>0, <1>1, Zenon DEF ClockIsExact
<1>5. TypeOK'
  <2>1. timer' \in 0..(MaxOuter + Budget)
    BY <1>0, <1>1, <1>4, BudgetAssumption DEF TypeOK, LeftOf
  <2>2. result'.type \in {"none", "data", "closed", "error", "death"}
    BY <1>0, <1>2, <1>3, Zenon DEF TypeOK
  <2> QED
    BY <1>0, <2>1, <2>2, Zenon DEF TypeOK
<1>6. NoFalseCertainty' /\ SuccessIsProved'
  <2>1. CASE result' = result
    BY <1>0, <2>1, Zenon DEF CallInvariant, NoFalseCertainty, SuccessIsProved, TokenResetRequired
  <2>2. CASE kind \in Streamed /\ result' = Closed("indeterminate")
    BY <1>0, <1>3, <2>2, ClaimsNothing, Zenon
  <2> QED
    BY <1>2, <2>1, <2>2, Zenon
<1>7. InOrder'
  BY <1>0, <1>2, Zenon DEF InOrder, Over
<1>8. ClockIsExact'
  <2>1. Tighter /\ now >= outer => result' = result /\ result.type = "death"
    BY <1>0, <1>2, Zenon DEF ClockIsExact
  <2> QED
    BY <1>0, <1>4, <2>1, Zenon DEF ClockIsExact, LeftOf, Tighter, Over
<1>9. EndsInTime'
  BY <1>0, <1>1, <1>2, <1>3 DEF EndsInTime, Done
<1> QED
  BY <1>5, <1>6, <1>7, <1>8, <1>9, Zenon DEF CallInvariant

\* Steps of the exchange leave the clocks alone; what they keep is common.
Exchange ==
    /\ pc \in {"post", "classify", "read", "normalize"}
    /\ pc' \in {"classify", "read", "normalize", "leave"}
    /\ UNCHANGED <<kind, operation, outer, thread, now, handler, timer>>

\* While the exchange runs, the death penalty has not struck.
LEMMA ExchangeClock ==
    ASSUME CallInvariant, Exchange
    PROVE  ClockIsExact' /\ EndsInTime' /\ result = NoResult
<1>1. ~Over /\ result = NoResult /\ ~(Tighter /\ now >= outer)
  BY Zenon DEF CallInvariant, Exchange, Over, InOrder, ClockIsExact
<1>2. ClockIsExact'
  BY <1>1, Zenon DEF CallInvariant, ClockIsExact, LeftOf, Tighter, Exchange
<1> QED
  BY <1>1, <1>2, Zenon DEF EndsInTime, Done, Exchange

\* What a failed request is reported as.
LEMMA RequestFailureFacts ==
    ASSUME TypeOK, NEW connecting \in BOOLEAN
    PROVE  /\ RequestFailure(connecting).type \in {"closed", "error"}
           /\ /\ RequestFailure(connecting).type = "closed"
              /\ ~connecting /\ operation # "diagnose"
              => RequestFailure(connecting).stage = "indeterminate"
<1>1. CASE kind \in {"akvorado", "docker_runner", "rq_worker"}
  <2>1. RequestFailure(connecting) = Closed("indeterminate") /\ kind # "generic"
    BY <1>1, Zenon DEF RequestFailure
  <2> QED
    BY <2>1, ClosedFacts, Zenon
<1>2. CASE kind \in SecretProtected \ {"docker_runner"}
  <2>1. kind # "generic" /\ kind \notin {"akvorado", "docker_runner", "rq_worker"}
    BY <1>2, Zenon DEF SecretProtected
  <2>2. CASE connecting
    <3>1. RequestFailure(connecting) = ConnectStage
      BY <1>2, <2>1, <2>2, Zenon DEF RequestFailure
    <3>2. ConnectStage.type \in {"closed", "error"}
      BY <2>1, ClosedFacts, ResultTypes, Zenon DEF ConnectStage
    <3> QED
      BY <2>2, <3>1, <3>2, Zenon
  <2>3. CASE ~connecting
    <3>1. RequestFailure(connecting) = Closed("indeterminate")
      BY <1>2, <2>1, <2>3, Zenon DEF RequestFailure
    <3> QED
      BY <2>1, <3>1, ClosedFacts, Zenon
  <2> QED
    BY <2>2, <2>3, Zenon
<1>3. CASE kind \notin SecretProtected \cup {"akvorado", "rq_worker"}
  <2>1. RequestFailure(connecting) = Error("RPC_BACKEND_UNREACHABLE")
    BY <1>3, Zenon DEF RequestFailure, SecretProtected
  <2> QED
    BY <2>1, ResultTypes, Zenon
<1> QED
  BY <1>1, <1>2, <1>3, Zenon

\* Sending the request, or failing to.
LEMMA PostCall == ASSUME CallInvariant, Post  PROVE CallInvariant'
<1>0. /\ TypeOK /\ pc = "post" /\ ~sent /\ response = "none"
      /\ UNCHANGED <<kind, operation, outer, thread, now, handler, timer>>
  BY Zenon DEF CallInvariant, InOrder, Post, Quiet, call
<1>1. CASE pc' = "classify" /\ response' = "open" /\ sent' = TRUE /\ result' = result
           /\ status' \in Statuses /\ body' \in {"good"} \cup Defects /\ ok' \in BOOLEAN
  <2>1. ClockIsExact' /\ EndsInTime' /\ result = NoResult
    BY <1>0, <1>1, ExchangeClock, Zenon DEF Exchange
  <2>2. TypeOK'
    BY <1>0, <1>1, Zenon DEF TypeOK
  <2>3. NoFalseCertainty' /\ SuccessIsProved'
    BY <1>0, <1>1, <2>1, ResultTypes, ClaimsNothing, Zenon
  <2>4. InOrder'
    BY <1>1, <2>1, Zenon DEF InOrder, Over
  <2> QED
    BY <2>1, <2>2, <2>3, <2>4, Zenon DEF CallInvariant
<1>2. CASE /\ UNCHANGED <<status, body, ok, response>> /\ pc' = "leave"
           /\ \E connecting \in BOOLEAN : sent' = ~connecting
               /\ result' = RequestFailure(connecting)
  <2>1. PICK connecting \in BOOLEAN : sent' = ~connecting /\ result' = RequestFailure(connecting)
    BY <1>2, Zenon
  <2>2. ClockIsExact' /\ EndsInTime'
    BY <1>0, <1>2, ExchangeClock, Zenon DEF Exchange
  <2>3. /\ result'.type \in {"closed", "error"}
        /\ result'.type = "closed" /\ ~connecting /\ operation # "diagnose" =>
               result'.stage = "indeterminate"
    BY <1>0, <2>1, RequestFailureFacts, Zenon
  <2>4. TypeOK'
    BY <1>0, <1>2, <2>1, <2>3, Zenon DEF TypeOK
  <2>5. NoFalseCertainty' /\ SuccessIsProved'
    BY <1>0, <2>1, <2>3, Zenon DEF NoFalseCertainty, SuccessIsProved, TokenResetRequired
  <2>6. InOrder'
    BY <1>0, <1>2, Zenon DEF InOrder, Over
  <2> QED
    BY <2>2, <2>4, <2>5, <2>6, Zenon DEF CallInvariant
<1>3. \/ pc' = "classify" /\ response' = "open" /\ sent' = TRUE /\ result' = result
         /\ status' \in Statuses /\ body' \in {"good"} \cup Defects /\ ok' \in BOOLEAN
      \/ /\ UNCHANGED <<status, body, ok, response>> /\ pc' = "leave"
         /\ \E connecting \in BOOLEAN : sent' = ~connecting
             /\ result' = RequestFailure(connecting)
  BY Zenon DEF Post, Finish
<1> QED
  BY <1>1, <1>2, <1>3, Zenon

\* The class of the HTTP status.
LEMMA ClassifyCall == ASSUME CallInvariant, ClassifyHttp  PROVE CallInvariant'
<1>0. /\ TypeOK /\ pc = "classify"
      /\ UNCHANGED <<kind, operation, outer, thread, now, handler, timer, sent, status, body, ok>>
  BY Zenon DEF CallInvariant, ClassifyHttp, Quiet, call
<1>1. \/ /\ pc' = "leave" /\ kind # "generic" /\ result' = Closed("indeterminate")
         /\ response' = IF kind \in Streamed THEN "closed" ELSE response
      \/ /\ pc' = "leave" /\ result' = Error("RPC_BACKEND_UNAUTHORIZED")
         /\ kind \notin SecretProtected \cup {"rq_worker"}
         /\ response' = IF kind = "akvorado" THEN "closed" ELSE response
      \/ /\ pc' = "read" /\ UNCHANGED <<result, response>>
         /\ kind \in SecretProtected \cup {"akvorado"} => status # "3xx"
  BY Zenon DEF ClassifyHttp, Finish, CloseIf, Streamed, AllKinds, SecretProtected
<1>2. ClockIsExact' /\ EndsInTime' /\ result = NoResult
  BY <1>0, <1>1, ExchangeClock, Zenon DEF Exchange
<1>3. /\ result'.type \in {"none", "closed", "error"}
      /\ result'.type = "closed" /\ operation # "diagnose" => result'.stage = "indeterminate"
  BY <1>0, <1>1, <1>2, ResultTypes, ClosedFacts, Zenon
<1>4. TypeOK'
  BY <1>0, <1>1, <1>3 DEF TypeOK
<1>5. NoFalseCertainty' /\ SuccessIsProved'
  BY <1>0, <1>3, ClaimsNothing, Zenon
<1>6. InOrder'
  <2>1. pc' = "leave" /\ kind \in Streamed => response' = "closed"
    BY <1>0, <1>1, StreamedFacts, Zenon
  <2> QED
    BY <1>0, <1>1, <1>2, <2>1, Zenon DEF InOrder, Over
<1> QED
  BY <1>2, <1>4, <1>5, <1>6, Zenon DEF CallInvariant

\* Reading the body.
LEMMA ReadCall == ASSUME CallInvariant, Read  PROVE CallInvariant'
<1>0. /\ TypeOK /\ InOrder /\ pc = "read"
      /\ response' = IF kind \in Streamed THEN "closed" ELSE response
      /\ UNCHANGED <<kind, operation, outer, thread, now, handler, timer, sent, status, body, ok>>
  BY Zenon DEF CallInvariant, Read, Quiet, CloseIf, call
<1>1. \/ pc' = "leave" /\ kind # "generic" /\ result' = Closed("indeterminate")
      \/ pc' = "leave" /\ result' = Error("RPC_BACKEND_BAD_RESPONSE")
      \/ pc' = "normalize" /\ UNCHANGED result
  BY Zenon DEF Read, Finish, SecretProtected
<1>2. ClockIsExact' /\ EndsInTime' /\ result = NoResult
  BY <1>0, <1>1, ExchangeClock, Zenon DEF Exchange
<1>3. /\ result'.type \in {"none", "closed", "error"}
      /\ result'.type = "closed" /\ operation # "diagnose" => result'.stage = "indeterminate"
  BY <1>0, <1>1, <1>2, ResultTypes, ClosedFacts, Zenon
<1>4. TypeOK'
  BY <1>0, <1>1, <1>3 DEF TypeOK
<1>5. NoFalseCertainty' /\ SuccessIsProved'
  BY <1>0, <1>3, ClaimsNothing, Zenon
<1>6. InOrder'
  BY <1>0, <1>1, <1>2, Zenon DEF InOrder, Over
<1> QED
  BY <1>2, <1>4, <1>5, <1>6, Zenon DEF CallInvariant

\* What a success of a kind needs: a 2xx answer with none of these defects.
Proved ==
    /\ status = "2xx"
    /\ body \notin {"not_json", "ok_type", "disagree", "schema"}
    /\ kind \in SecretProtected => body \notin {"keys", "events", "text", "loud"}
    /\ kind \in {"runner", "org_runner", "docker_runner", "dns", "pair"} => body # "identity"

\* An envelope that is accepted and claims success has none of the defects its
\* kind's validator looks at.
LEMMA AcceptedIsProved ==
    ASSUME TypeOK, kind # "generic", Accepts, ok, status = "2xx"
    PROVE  Proved
<1>1. kind \in AllKinds \ {"generic"} /\ body \in {"good"} \cup Defects
  BY KindsAssumption, Zenon DEF TypeOK
<1>2. body \notin Rejects
  BY Zenon DEF Accepts
<1>3. CASE kind = "upgrade"
  BY <1>1, <1>2, <1>3, Zenon DEF Proved, Rejects, UpgradeRejects, Defects
<1>4. CASE kind \in {"runner", "org_runner", "docker_runner", "dns"}
  BY <1>1, <1>2, <1>4, Zenon DEF Proved, Rejects, RunnerRejects, OrgRunnerRejects, DockerRejects,
     DnsRejects, Defects
<1>5. CASE kind = "pair"
  BY <1>1, <1>2, <1>5, Zenon DEF Proved, Rejects, PairRejects, Defects
<1>6. CASE kind = "akvorado"
  BY <1>1, <1>2, <1>6, Zenon DEF Proved, Rejects, AkvoradoRejects, Defects, SecretProtected
<1>7. CASE kind = "rq_worker"
  BY <1>1, <1>2, <1>7, Zenon DEF Proved, Rejects, RqWorkerRejects, Defects, SecretProtected
<1> QED
  BY <1>1, <1>3, <1>4, <1>5, <1>6, <1>7, Zenon DEF AllKinds

\* Judging the envelope.
LEMMA NormalizeCall == ASSUME CallInvariant, Normalize  PROVE CallInvariant'
<1>0. /\ TypeOK /\ InOrder /\ pc = "normalize" /\ pc' = "leave"
      /\ UNCHANGED <<kind, operation, outer, thread, now, handler, timer, sent, status,
                     response, body, ok>>
  BY Zenon DEF CallInvariant, Normalize, Finish, Quiet, call
<1>1. ClockIsExact' /\ EndsInTime'
  BY <1>0, ExchangeClock, Zenon DEF Exchange
<1>2. \/ kind # "generic" /\ result' = Closed("indeterminate")
      \/ result' = Error("RPC_BACKEND_ERROR")
      \/ result' = Data(ok) /\ (kind # "generic" /\ ok => Proved)
  <2>1. CASE kind = "generic"
    <3>1. result' = GenericResponse
      BY <2>1, Zenon DEF Normalize, Finish
    <3> QED
      BY <2>1, <3>1, Zenon DEF GenericResponse
  <2>2. CASE kind = "akvorado"
    <3>1. result' = AkvoradoResponse /\ status # "3xx"
      BY <1>0, <2>2, Zenon DEF Normalize, Finish, InOrder
    <3> QED
      BY <1>0, <2>2, <3>1, AcceptedIsProved, Zenon DEF AkvoradoResponse, GenericResponse
  <2>3. CASE kind = "pair"
    <3>1. result' = PairResponse
      BY <2>3, Zenon DEF Normalize, Finish
    <3> QED
      BY <1>0, <2>3, <3>1, AcceptedIsProved, Zenon DEF PairResponse
  <2>4. CASE kind = "rq_worker"
    <3>1. result' = RqWorkerResponse
      BY <2>4, Zenon DEF Normalize, Finish
    <3> QED
      BY <1>0, <2>4, <3>1, AcceptedIsProved, Zenon DEF RqWorkerResponse
  <2>5. CASE kind \notin {"generic", "akvorado", "pair", "rq_worker"}
    <3>1. result' = ClosedResponse
      BY <2>5, Zenon DEF Normalize, Finish
    <3> QED
      BY <1>0, <2>5, <3>1, AcceptedIsProved, Zenon DEF ClosedResponse
  <2> QED
    BY <2>1, <2>2, <2>3, <2>4, <2>5, Zenon
<1>3. /\ result'.type \in {"data", "closed", "error"}
      /\ result'.type = "closed" /\ operation # "diagnose" => result'.stage = "indeterminate"
      /\ result'.type = "data" /\ result'.ok /\ kind # "generic" => Proved
  BY <1>0, <1>2, ResultTypes, ClosedFacts
<1>4. TypeOK'
  BY <1>0, <1>3 DEF TypeOK
<1>5. NoFalseCertainty'
  BY <1>0, <1>3, Zenon DEF NoFalseCertainty, TokenResetRequired
<1>6. SuccessIsProved'
  BY <1>0, <1>3, Zenon DEF SuccessIsProved, Proved
<1>7. InOrder'
  <2>1. kind \in Streamed /\ response = "open" => now >= Budget
    BY <1>0, ResultTypes, Zenon DEF InOrder, Over
  <2> QED
    BY <1>0, <2>1, Zenon DEF InOrder, Over
<1> QED
  BY <1>1, <1>4, <1>5, <1>6, <1>7, Zenon DEF CallInvariant

\* Every step of a call keeps the invariant.
LEMMA NextCall == CallInvariant /\ [Next]_vars => CallInvariant'
<1> SUFFICES ASSUME CallInvariant, [Next]_vars  PROVE CallInvariant'
  BY Zenon
<1>1. CASE UNCHANGED vars
  <2>1. /\ UNCHANGED <<kind, operation, outer, thread, pc, now, handler, timer, sent>>
        /\ UNCHANGED <<status, response, body, ok, result>>
    BY <1>1, Zenon DEF vars, call
  <2>2. TypeOK' /\ InOrder' /\ ClockIsExact'
    BY <2>1 DEF CallInvariant, TypeOK, InOrder, Over, ClockIsExact, LeftOf, Tighter
  <2>3. EndsInTime'
    BY <2>1, ZenonT(30) DEF CallInvariant, EndsInTime, Done, Closed, UpgradeFailure, DnsFailure,
       RunnerFailure, OrgRunnerFailure, DockerFailure, PairFailure, AkvoradoFailure,
       RqWorkerFailure
  <2>4. NoFalseCertainty' /\ SuccessIsProved'
    BY <2>1, Zenon DEF CallInvariant, NoFalseCertainty, SuccessIsProved, TokenResetRequired
  <2> QED
    BY <2>2, <2>3, <2>4, Zenon DEF CallInvariant
<1> QED
  BY <1>1, ArmCall, TickCall, PostCall, ClassifyCall, ReadCall, NormalizeCall, LeaveCall, Zenon DEF Next

-----------------------------------------------------------------------------
(* What a dispatch promises.                                               *)

\* The invariant holds in every state of every call.
THEOREM CallInvariantHolds == Spec => []CallInvariant
BY InitCall, NextCall, PTL DEF Spec

\* What the worker is told of a dispatch is true: no failure is called certain
\* once the request may have arrived, no success is believed without its proof.
THEOREM OutcomeIsTrueHolds == Spec => []OutcomeIsTrue
<1>1. CallInvariant => OutcomeIsTrue
  BY Zenon DEF CallInvariant, OutcomeIsTrue
<1> QED
  BY <1>1, CallInvariantHolds, PTL

\* However a call ends, it leaves no streamed response open behind an ordinary
\* result, and the worker's death penalty in place with exactly what remains.
THEOREM LeavesCleanHolds == Spec => []LeavesClean
<1>1. CallInvariant => LeavesClean
  <2> SUFFICES ASSUME CallInvariant  PROVE LeavesClean
    BY Zenon
  <2>1. StreamedIsClosed
    BY Zenon DEF CallInvariant, InOrder, StreamedIsClosed, Done, Over
  <2>2. DeathPenaltySurvives
    BY Zenon DEF CallInvariant, TypeOK, ClockIsExact, LeftOf, EndsInTime, DeathPenaltySurvives, Done
  <2>3. AcceptedInTime
    BY Zenon DEF CallInvariant, ClockIsExact, Tighter, EndsInTime, AcceptedInTime, Done
  <2> QED
    BY <2>1, <2>2, <2>3, Zenon DEF LeavesClean
<1> QED
  BY <1>1, CallInvariantHolds, PTL

-----------------------------------------------------------------------------
(* BoundedRead: the loop that reads the body of an answer.                 *)

\* Sizes and budgets are natural numbers.
Sizes == MaxBytes \in Nat /\ MaxSent \in Nat /\ ReadBudget \in Nat

\* Until the loop ends, the buffer holds every byte that was read.
ReadInvariant ==
  /\ Body!WholeOrNothing
  /\ readPc \in {"headers", "body"} => buffer = taken

\* For any bound, any declared or missing length and any pace of the peer, a body
\* is kept whole and within the bound, or nothing of it is kept.
THEOREM WholeOrNothingHolds == Sizes => (Body!Spec => []WholeOrNothing)
<1>. SUFFICES ASSUME Sizes PROVE Body!Spec => []WholeOrNothing
  BY Zenon
<1>. USE DEF Sizes, ReadInvariant, Body!WholeOrNothing, Body!TypeOK, Body!NeverTruncated,
             Body!NothingKept, Body!None, Body!Invalid
<1>1. Body!Init => ReadInvariant
  BY DEF Body!Init
<1>2. ReadInvariant /\ [Body!Next]_Body!vars => ReadInvariant'
  <2>. SUFFICES ASSUME ReadInvariant, [Body!Next]_Body!vars PROVE ReadInvariant'
    BY Zenon
  <2>1. CASE Body!Headers
    BY <2>1 DEF Body!Headers, Body!End, Body!wire
  <2>2. CASE Body!Take
    BY <2>2 DEF Body!Take, Body!End, Body!Wanted
  <2>3. CASE Body!Wait
    BY <2>3 DEF Body!Wait, Body!wire
  <2>4. CASE Body!Expire
    BY <2>4 DEF Body!Expire, Body!End, Body!wire
  <2>5. CASE Body!Complete
    BY <2>5 DEF Body!Complete, Body!End, Body!wire, Body!Wanted
  <2>6. CASE UNCHANGED Body!vars
    BY <2>6, Zenon DEF Body!vars
  <2>. QED BY <2>1, <2>2, <2>3, <2>4, <2>5, <2>6, Zenon DEF Body!Next
<1>3. ReadInvariant => WholeOrNothing
  BY Zenon DEF WholeOrNothing
<1>. QED BY <1>1, <1>2, <1>3, PTL DEF Body!Spec

-----------------------------------------------------------------------------
(* BackendResponse: the judgement of an answer.                            *)

\* The contracts of the code; lengths are natural numbers, and the truncation
\* marker fits into an event string.
AnswersAreTyped ==
  /\ Contracts \subseteq Judged!Enveloped \union {"generic"}
  /\ Schemas \subseteq [max : Nat, pattern : {"none", "any", "closed"}, required : BOOLEAN]
  /\ Contents \subseteq [len : Nat, fits : BOOLEAN, secret : BOOLEAN]
  /\ EventLists \subseteq Seq(STRING)
  /\ EventLimit \in Nat /\ Marker \in Nat /\ MaxEvents \in Nat
  /\ Marker <= EventLimit

\* The judgement of the answer, and whether it writes no progress events.
Judgement == IF Judged!Skips THEN "cause" ELSE IF Judged!SchemaMismatch THEN "mismatch" ELSE "valid"
Silent == contract \in Judged!IsProtected \/ Judged!Skips
Recorded == IF Judged!Ok /\ verdict # "mismatch" THEN Judged!Succeeded(Judged!LedgerResult)
            ELSE Judged!Failed

\* The verdict is the judgement from the first step on, and what is recorded
\* follows from it.
JudgeInvariant ==
  /\ contract \in Contracts /\ schema \in Schemas /\ answer \in Judged!Responses
  /\ judgePc \in {"arrived", "progress", "terminal", "done"}
  /\ verdict = IF judgePc = "arrived" THEN "none" ELSE Judgement
  /\ seen \subseteq 1..MaxEvents
  /\ Silent => judgePc # "progress" /\ seen = {}
  /\ terminal = IF judgePc = "done" THEN Recorded ELSE Judged!None

\* The answer and the contract it is judged by do not change.
LEMMA SameJudgement ==
  ASSUME UNCHANGED <<contract, schema, answer>>
  PROVE  /\ Judgement' = Judgement /\ Silent' = Silent
         /\ verdict' = verdict => Recorded' = Recorded
<1>1. Judged!Skips' = Judged!Skips /\ Judged!Ok' = Judged!Ok /\ Silent' = Silent
  BY Zenon DEF Judged!Skips, Judged!Ok, Silent
<1>2. Judged!LedgerResult' = Judged!LedgerResult
  BY Zenon DEF Judged!LedgerResult, Judged!Stored, Judged!FieldLimit, Judged!Wide
<1>3. \A r, relaxed : Judged!Fits(r, relaxed)' = Judged!Fits(r, relaxed)
  BY Zenon DEF Judged!Fits, Judged!Wide
<1>4. Judged!EnvelopeMismatch' = Judged!EnvelopeMismatch /\ Judged!ShouldValidate' = Judged!ShouldValidate
  BY <1>1, Zenon DEF Judged!EnvelopeMismatch, Judged!ProtectedMismatch, Judged!OkStateMismatch,
     Judged!ShouldValidate
<1>5. Judged!SchemaMismatch' = Judged!SchemaMismatch
  BY <1>2, <1>3, <1>4, Zenon DEF Judged!SchemaMismatch, Judged!Fits, Judged!Wide
<1>6. verdict' = verdict => Judged!Failed' = Judged!Failed
  BY <1>2, Zenon DEF Judged!Failed, Judged!FailureCode, Judged!FailureText
<1>. QED BY <1>1, <1>2, <1>5, <1>6, Zenon DEF Judgement, Recorded

\* The three steps keep it.
LEMMA JudgeSteps ==
  ASSUME AnswersAreTyped
  PROVE  /\ Judged!Init => JudgeInvariant
         /\ JudgeInvariant /\ [Judged!Next]_Judged!vars => JudgeInvariant'
<1>1. Judged!Init => JudgeInvariant
  BY Zenon DEF Judged!Init, JudgeInvariant
<1>2. JudgeInvariant /\ [Judged!Next]_Judged!vars => JudgeInvariant'
  <2>. SUFFICES ASSUME JudgeInvariant, [Judged!Next]_Judged!vars PROVE JudgeInvariant'
    BY Zenon
  <2>1. CASE Judged!Judge
    <3>1. /\ UNCHANGED <<contract, schema, answer>> /\ seen' = seen /\ terminal' = terminal
          /\ verdict' = Judgement /\ judgePc = "arrived"
          /\ judgePc' = IF Silent THEN "terminal" ELSE "progress"
      BY <2>1, Zenon DEF Judged!Judge, Judged!input, Judgement, Silent
    <3>2. judgePc' \in {"terminal", "progress"} /\ (Silent => judgePc' = "terminal")
      BY <3>1, Zenon
    <3>3. terminal = Judged!None
      BY <3>1, Zenon DEF JudgeInvariant
    <3>. QED BY <3>1, <3>2, <3>3, SameJudgement DEF JudgeInvariant
  <2>2. CASE Judged!Progress
    <3>1. UNCHANGED <<contract, schema, answer>> /\ verdict' = verdict /\ terminal' = terminal
          /\ judgePc' = "terminal" /\ judgePc = "progress"
          /\ seen' = {i \in Judged!Window : answer.events[i] = "event"}
      BY <2>2, Zenon DEF Judged!Progress, Judged!input
    <3>2. answer.events \in Seq(STRING)
      BY DEF JudgeInvariant, Judged!Responses, AnswersAreTyped
    <3>3. seen' \subseteq 1..MaxEvents
      BY <3>1, <3>2 DEF Judged!Window, AnswersAreTyped
    <3>. QED BY <3>1, <3>3, SameJudgement DEF JudgeInvariant
  <2>3. CASE Judged!Terminal
    <3>1. UNCHANGED <<contract, schema, answer>> /\ verdict' = verdict /\ seen' = seen
          /\ judgePc' = "done" /\ judgePc = "terminal" /\ terminal' = Recorded
      BY <2>3, Zenon DEF Judged!Terminal, Judged!input, Recorded
    <3>. QED BY <3>1, SameJudgement DEF JudgeInvariant
  <2>4. CASE UNCHANGED Judged!vars
    BY <2>4, SameJudgement DEF Judged!vars, JudgeInvariant
  <2>. QED BY <2>1, <2>2, <2>3, <2>4, Zenon DEF Judged!Next
<1>. QED BY <1>1, <1>2, Zenon

\* An answer, its result and the text field of a result object.
LEMMA AnswerFacts ==
  ASSUME AnswersAreTyped, JudgeInvariant
  PROVE  /\ contract \in Judged!Enveloped \union {"generic"}
         /\ answer.ok \in Judged!Oks /\ answer.code \in {"CATALOG", "odd", ""}
         /\ answer.result.is \in Judged!Plain \union {"object"}
         /\ answer.result.is = "object" =>
              /\ answer.result.ok \in {"true", "false", "null"}
              /\ answer.result.field \in [len : Nat, fits : BOOLEAN, secret : BOOLEAN]
              /\ answer.result = [is |-> "object", ok |-> answer.result.ok,
                                  field |-> answer.result.field]
         /\ schema \in [max : Nat, pattern : {"none", "any", "closed"}, required : BOOLEAN]
<1>1. /\ contract \in Contracts /\ schema \in Schemas /\ answer \in Judged!Responses
  BY Zenon DEF JudgeInvariant
<1>2. /\ answer.ok \in Judged!Oks /\ answer.code \in {"CATALOG", "odd", ""}
      /\ answer.result \in Judged!Results
  BY <1>1 DEF Judged!Responses
<1>3. /\ answer.result.is \in Judged!Plain \union {"object"}
      /\ answer.result.is = "object" =>
           /\ answer.result.ok \in {"true", "false", "null"}
           /\ answer.result.field \in Contents
           /\ answer.result = [is |-> "object", ok |-> answer.result.ok,
                               field |-> answer.result.field]
  BY <1>2 DEF Judged!Results, Judged!Plain
<1>. QED BY <1>1, <1>2, <1>3, Zenon DEF AnswersAreTyped

\* The result as the ledger stores it.
LEMMA LedgerFacts ==
  ASSUME AnswersAreTyped, JudgeInvariant
  PROVE  /\ answer.result.is = "object" =>
              Judged!LedgerResult = [is |-> "object", ok |-> answer.result.ok,
                                     field |-> Judged!Stored(answer.result.field)]
         /\ answer.result.is # "object" => Judged!LedgerResult = [is |-> "empty"]
         /\ Judged!LedgerResult.is = "object" => answer.result.is = "object"
BY AnswerFacts DEF Judged!LedgerResult

\* What a judgement says about the answer.
LEMMA VerdictFacts ==
  /\ Judgement \in {"cause", "mismatch", "valid"}
  /\ Judgement = "cause" <=> Judged!Skips
  /\ Judgement = "mismatch" <=> ~Judged!Skips /\ Judged!SchemaMismatch
BY Zenon DEF Judgement

\* The terminal event: a success of an answer that claims one and is no
\* mismatch, or a failure with the code and the text of its verdict.
LEMMA TerminalFacts ==
  ASSUME JudgeInvariant, terminal # Judged!None
  PROVE  /\ judgePc = "done" /\ verdict = Judgement
         /\ \/ /\ Judged!Ok /\ verdict # "mismatch"
               /\ terminal.is = "succeeded" /\ terminal.code = "" /\ terminal.text = "none"
               /\ terminal.result = Judged!LedgerResult
            \/ /\ ~Judged!Ok \/ verdict = "mismatch"
               /\ terminal.is = "failed"
               /\ verdict = "mismatch" =>
                    /\ terminal.code = "RPC_RESULT_SCHEMA_MISMATCH"
                    /\ terminal.text = "value_free" /\ terminal.result = [is |-> "empty"]
               /\ verdict # "mismatch" =>
                    /\ terminal.code = Judged!Persistable(Judged!FailureCode)
                    /\ verdict = "cause" => terminal.text = "code"
                    /\ terminal.result = IF Judged!IsDict(answer.result) THEN Judged!LedgerResult
                                         ELSE [is |-> "empty"]
<1>1. judgePc = "done" /\ terminal = Recorded /\ verdict = Judgement
  BY Zenon DEF JudgeInvariant
<1>2. CASE Judged!Ok /\ verdict # "mismatch"
  <2>1. terminal = Judged!Succeeded(Judged!LedgerResult)
    BY <1>1, <1>2, Zenon DEF Recorded
  <2>2. /\ terminal.is = "succeeded" /\ terminal.code = "" /\ terminal.text = "none"
        /\ terminal.result = Judged!LedgerResult
    BY <2>1 DEF Judged!Succeeded
  <2>. QED BY <1>1, <1>2, <2>2, Zenon
<1>3. CASE ~(Judged!Ok /\ verdict # "mismatch")
  <2>1. terminal = Judged!Failed
    BY <1>1, <1>3, Zenon DEF Recorded
  <2>2. /\ terminal.is = "failed"
        /\ terminal.code = IF verdict = "mismatch" THEN "RPC_RESULT_SCHEMA_MISMATCH"
                           ELSE Judged!Persistable(Judged!FailureCode)
        /\ terminal.text = CASE verdict = "mismatch" -> "value_free"
                             [] verdict = "cause" -> "code"
                             [] OTHER -> Judged!FailureText
        /\ terminal.result = IF Judged!IsDict(answer.result) /\ verdict # "mismatch"
                             THEN Judged!LedgerResult ELSE [is |-> "empty"]
    BY <2>1, Zenon DEF Judged!Failed
  <2>3. /\ verdict = "mismatch" => terminal.text = "value_free"
        /\ verdict = "cause" => terminal.text = "code"
    BY <2>2, Zenon
  <2>. QED BY <1>1, <1>3, <2>2, <2>3, Zenon
<1>. QED BY <1>2, <1>3, Zenon

\* No code of the backend reads as a mismatch, and each one is persistable.
LEMMA CodeFacts ==
  ASSUME AnswersAreTyped, JudgeInvariant
  PROVE  /\ Judged!Persistable(Judged!FailureCode) \in {"CATALOG", "RPC_EXECUTION_FAILED"}
         /\ Judged!Skips => Judged!Persistable(Judged!FailureCode) = "CATALOG"
<1>1. answer.code \in {"CATALOG", "odd", ""}
  BY AnswerFacts, Zenon
<1>2. Judged!FailureCode \in {"CATALOG", "odd", ""}
  BY <1>1 DEF Judged!FailureCode
<1>3. Judged!Skips => Judged!FailureCode = "CATALOG"
  BY Zenon DEF Judged!Skips, Judged!FailureCode, Judged!Dedicated
<1>. QED BY <1>2, <1>3 DEF Judged!Persistable

\* A result that is kept fits the schema as declared.
LEMMA KeptResultFits ==
  ASSUME AnswersAreTyped, JudgeInvariant
  PROVE  Judged!StoredResultFits
<1>. SUFFICES ASSUME terminal # Judged!None, terminal.result.is = "object"
              PROVE  Judged!Fits(terminal.result, FALSE)
  BY Zenon DEF Judged!StoredResultFits
<1>0. terminal.result # [is |-> "empty"]
  OBVIOUS
<1>1. verdict # "mismatch" /\ terminal.result = Judged!LedgerResult
  BY <1>0, TerminalFacts, Zenon
<1>2. answer.result.is = "object"
  BY <1>1, LedgerFacts, Zenon
<1>3. ~Judged!Skips /\ Judged!ShouldValidate
  BY <1>2, Zenon DEF Judged!Skips, Judged!ShouldValidate
<1>4. ~Judged!SchemaMismatch
  BY <1>1, <1>3, TerminalFacts, VerdictFacts, Zenon
<1>. QED BY <1>1, <1>3, <1>4, Zenon DEF Judged!SchemaMismatch

\* A success is claimed by the answer, in both envelopes where they are compared.
LEMMA SuccessEarned ==
  ASSUME AnswersAreTyped, JudgeInvariant
  PROVE  Judged!SuccessIsEarned
<1>. SUFFICES ASSUME terminal.is = "succeeded"
              PROVE  /\ Judged!Ok
                     /\ contract \in Judged!Enveloped =>
                          answer.ok = "true" /\ Judged!NestedOk(answer.result) = "true"
  BY Zenon DEF Judged!SuccessIsEarned
<1>1. terminal # Judged!None
  BY DEF Judged!None
<1>2. Judged!Ok /\ verdict = Judgement /\ verdict # "mismatch"
  BY <1>1, TerminalFacts
<1>3. ~Judged!Skips
  BY <1>2, Zenon DEF Judged!Ok, Judged!Skips
<1>4. ~Judged!EnvelopeMismatch
  BY <1>2, <1>3, VerdictFacts, Zenon DEF Judged!SchemaMismatch
<1>5. contract \in Judged!Enveloped => ~Judged!OkStateMismatch
  BY <1>4 DEF Judged!EnvelopeMismatch, Judged!ProtectedMismatch, Judged!Enveloped,
              Judged!IsProtected, Judged!Dedicated
<1>. QED BY <1>2, <1>5, Zenon DEF Judged!OkStateMismatch, Judged!Ok

\* A wide field fails no procedure by its length.
LEMMA WideIsCut ==
  ASSUME AnswersAreTyped, JudgeInvariant
  PROVE  Judged!WideFieldsAreCut
<1>. SUFFICES ASSUME terminal # Judged!None, contract = "generic", answer.result.is = "object",
                     Judged!Wide, schema.pattern = "any"
              PROVE  terminal.code # "RPC_RESULT_SCHEMA_MISMATCH"
  BY Zenon DEF Judged!WideFieldsAreCut
<1>1. ~Judged!EnvelopeMismatch
  BY Zenon DEF Judged!EnvelopeMismatch
<1>2. Judged!Fits(answer.result, TRUE)
  BY Zenon DEF Judged!Fits
<1>3. Judged!Fits(Judged!LedgerResult, FALSE)
  <2>. DEFINE f == answer.result.field
  <2>1. f \in [len : Nat, fits : BOOLEAN, secret : BOOLEAN] /\ schema.max \in Nat
    BY AnswerFacts
  <2>2. Judged!FieldLimit = schema.max - Marker /\ Marker < schema.max
    BY <2>1 DEF Judged!FieldLimit, Judged!Wide, AnswersAreTyped
  <2>3. Judged!Stored(f).len <= schema.max
    BY <2>1, <2>2 DEF Judged!Stored, AnswersAreTyped
  <2>4. /\ Judged!LedgerResult.is = "object"
        /\ Judged!LedgerResult.field = Judged!Stored(f)
    BY LedgerFacts
  <2>. QED BY <2>3, <2>4, Zenon DEF Judged!Fits
<1>4. Judgement # "mismatch"
  BY <1>1, <1>2, <1>3, VerdictFacts, Zenon DEF Judged!SchemaMismatch
<1>5. "" # "RPC_RESULT_SCHEMA_MISMATCH"
      /\ \A c \in {"CATALOG", "RPC_EXECUTION_FAILED"} : c # "RPC_RESULT_SCHEMA_MISMATCH"
  BY Zenon
<1>. QED BY <1>4, <1>5, TerminalFacts, CodeFacts, Zenon

\* The cause of an empty failure is kept; another answer without a result is a
\* mismatch.
LEMMA CauseIsKept ==
  ASSUME AnswersAreTyped, JudgeInvariant
  PROVE  Judged!CauseKept
<1>1. ASSUME terminal # Judged!None, Judged!Skips
      PROVE  /\ terminal.code = "CATALOG" /\ terminal.text = "code"
             /\ terminal.result = [is |-> "empty"] /\ seen = {}
  <2>1. verdict = "cause" /\ ~Judged!Ok /\ "cause" # "mismatch"
    BY <1>1, TerminalFacts, VerdictFacts, Zenon DEF Judged!Skips, Judged!Ok
  <2>2. Judged!LedgerResult = [is |-> "empty"]
    <3>1. answer.result.is # "object"
      BY <1>1, Zenon DEF Judged!Skips
    <3>. QED BY <3>1, LedgerFacts, Zenon
  <2>3. seen = {}
    BY <1>1, Zenon DEF JudgeInvariant, Silent
  <2>. QED BY <1>1, <2>1, <2>2, <2>3, TerminalFacts, CodeFacts, Zenon
<1>2. ASSUME terminal # Judged!None, schema # Judged!NoSchema,
             answer.result.is \in {"null", "scalar"}
      PROVE  terminal.code = "RPC_RESULT_SCHEMA_MISMATCH"
  <2>1. ~Judged!Skips /\ Judged!ShouldValidate /\ ~Judged!Fits(answer.result, TRUE)
    BY <1>2, Zenon DEF Judged!Skips, Judged!ShouldValidate, Judged!Fits
  <2>2. Judgement = "mismatch"
    BY <2>1, VerdictFacts, Zenon DEF Judged!SchemaMismatch
  <2>. QED BY <1>2, <2>2, TerminalFacts, Zenon
<1>. QED BY <1>1, <1>2, Zenon DEF Judged!CauseKept

\* For every contract, schema, list of events and answer: a success is earned, a
\* kept result fits its schema after redaction and truncation, a length alone
\* fails no widened field, a cause is kept, and a mismatch keeps nothing.
THEOREM RecordedAsJudgedHolds == AnswersAreTyped => (Judged!Spec => []RecordedAsJudged)
<1>. SUFFICES ASSUME AnswersAreTyped PROVE Judged!Spec => []RecordedAsJudged
  BY Zenon
<1>1. JudgeInvariant => RecordedAsJudged
  <2>. SUFFICES ASSUME JudgeInvariant PROVE RecordedAsJudged
    BY Zenon
  <2>1. Judged!TypeOK
    <3>1. terminal.is = "none" \/ terminal # Judged!None
      BY DEF Judged!None
    <3>2. terminal.is \in {"none", "succeeded", "failed"}
      BY <3>1, TerminalFacts, Zenon
    <3>3. judgePc = "done" => terminal # Judged!None
      BY DEF JudgeInvariant, Recorded, Judged!Succeeded, Judged!Failed, Judged!None
    <3>4. (judgePc = "done") = (terminal # Judged!None)
      BY <3>3, TerminalFacts
    <3>5. verdict \in {"none", "cause", "mismatch", "valid"}
      BY VerdictFacts, Zenon DEF JudgeInvariant
    <3>. QED BY <3>2, <3>4, <3>5, Zenon DEF JudgeInvariant, Judged!TypeOK
  <2>2. Judged!MismatchIsValueFree
    <3>1. ASSUME terminal # Judged!None, verdict # "mismatch"
          PROVE  terminal.code # "RPC_RESULT_SCHEMA_MISMATCH"
      <4>1. "" # "RPC_RESULT_SCHEMA_MISMATCH"
            /\ \A c \in {"CATALOG", "RPC_EXECUTION_FAILED"} : c # "RPC_RESULT_SCHEMA_MISMATCH"
        BY Zenon
      <4>. QED BY <3>1, <4>1, TerminalFacts, CodeFacts, Zenon
    <3>. QED BY <3>1, TerminalFacts, Zenon DEF Judged!MismatchIsValueFree
  <2>3. Judged!ClosedLedger
    <3>1. ASSUME terminal # Judged!None, terminal.is = "failed"
          PROVE  terminal.code \in
                   {"CATALOG", "RPC_RESULT_SCHEMA_MISMATCH", "RPC_EXECUTION_FAILED"}
      <4>1. terminal.is # "succeeded"
        BY <3>1, Zenon
      <4>. QED BY <3>1, <4>1, TerminalFacts, CodeFacts, Zenon
    <3>2. contract \in Judged!IsProtected => seen = {}
      BY Zenon DEF JudgeInvariant, Silent
    <3>. QED BY <3>1, <3>2, Zenon DEF Judged!ClosedLedger
  <2>. QED
    BY <2>1, <2>2, <2>3, SuccessEarned, KeptResultFits, WideIsCut, CauseIsKept, Zenon
       DEF RecordedAsJudged, Judged!RecordedAsJudged
<1>. QED BY <1>1, JudgeSteps, PTL DEF Judged!Spec

-----------------------------------------------------------------------------
(* Facts about rows, edits and what a transaction sees.                    *)

\* The rows of an edit are catalogue rows.
LEMMA RowsFacts ==
    ASSUME NEW e \in Edits
    PROVE  /\ DOMAIN Rows[e] = 1..Len(Rows[e])
           /\ Len(Rows[e]) \in Nat \ {0}
           /\ \A k \in DOMAIN Rows[e] : Rows[e][k] \in RPCProcedures
BY RowsAssumption

\* After a row that is not the last comes another.
LEMMA RowAfter ==
    ASSUME NEW e \in Edits, NEW i \in 1..Len(Rows[e])
    PROVE  i \in DOMAIN Rows[e] /\ (i # Len(Rows[e]) => i + 1 \in DOMAIN Rows[e])
BY RowsFacts

\* Keeping a protected field is never refused.
LEMMA SameIsAllowed ==
    ASSUME NEW f \in ProtectedFields, NEW x
    PROVE  ~Rule(f, x, x)
BY Zenon DEF ProtectedFields, Rule, LoweringRefused, EnablingRefused, EffectRefused, ChangeRefused

\* The state of an edit.
LEMMA EditFacts ==
    ASSUME EditTypeOK, NEW e \in Edits
    PROVE  /\ edit[e] \in EditRecord(e)
           /\ e \in DOMAIN edit /\ e \in DOMAIN draft
           /\ Row(e) \in RPCProcedures
           /\ edit[e].next \in 1..Len(Rows[e])
           /\ edit[e].granted \subseteq Grants
           /\ permissions[Editor[e]] \in Grants
           /\ DOMAIN draft[e] \subseteq RPCProcedures
<1>1. edit[e] \in EditRecord(e) /\ e \in DOMAIN edit /\ e \in DOMAIN draft
      /\ DOMAIN draft[e] \subseteq RPCProcedures
  BY Zenon DEF EditTypeOK
<1>2. edit[e].next \in DOMAIN Rows[e] /\ edit[e].granted \subseteq Grants
  BY <1>1, Zenon DEF EditRecord
<1>3. permissions[Editor[e]] \in Grants
  BY Zenon DEF EditTypeOK, Users
<1> QED
  BY <1>1, <1>2, <1>3, RowsFacts, Zenon DEF Row

\* Edit e steps: the others keep their state, and the table changes only under
\* the scope lock of e.
Alone(e) ==
    /\ \A s \in Edits \ {e} : /\ edit'[s] = edit[s] /\ draft'[s] = draft[s]
                              /\ scope' = s <=> scope = s
    /\ table' = table \/ scope = e

\* What the others know does not change.
LEMMA OthersKnow ==
    ASSUME EditInvariant, NEW e \in Edits, Alone(e), NEW s \in Edits \ {e}
    PROVE  EditKnows(s)'
<1>1. /\ EditKnows(s) /\ edit'[s] = edit[s] /\ draft'[s] = draft[s]
      /\ (scope' = s <=> scope = s)
  BY Zenon DEF EditInvariant, Alone
<1>2. CASE scope = s
  <2>1. table' = table
    BY <1>2, Zenon DEF Alone
  <2>2. Seen(s)' = Seen(s) /\ Row(s)' = Row(s)
    BY <1>1, <2>1, Zenon DEF Seen, Row
  <2>3. \A p : Entitled(s, p)' <=> Entitled(s, p)
    BY <1>1, <2>1, Zenon DEF Entitled, ApproveScope
  <2>4. \A g : /\ ApproveScope(g, table)' = ApproveScope(g, table)
               /\ ApproveScope(g, Seen(s))' = ApproveScope(g, Seen(s))
    BY <2>1, <2>2, Zenon
  <2> QED
    BY <1>1, <2>1, <2>2, <2>3, <2>4, ZenonT(30) DEF EditKnows
<1>3. CASE scope # s
  <2>1. edit[s].pc \notin Inside /\ DOMAIN draft[s] = {}
    BY <1>1, <1>3, Zenon DEF EditKnows
  <2> QED
    BY <1>1, <1>3, <2>1, ZenonT(30) DEF EditKnows, Inside
<1> QED
  BY <1>2, <1>3, Zenon

\* A step of e keeps the invariant when it keeps the types and what e knows.
LEMMA StepKeeps ==
    ASSUME EditInvariant, NEW e \in Edits, Alone(e), EditTypeOK', EditKnows(e)'
    PROVE  EditInvariant'
BY OthersKnow, Zenon DEF EditInvariant

\* An edit outside its transaction has written nothing.
LEMMA OutsideKnows ==
    ASSUME NEW e \in Edits, edit'[e].pc \notin Inside, scope' # e, DOMAIN draft'[e] = {}
    PROVE  EditKnows(e)'
BY Zenon DEF EditKnows, Inside

\* The approve scope depends on the rows alone.
LEMMA ScopeOfRows ==
    ASSUME NEW g, NEW a, NEW b, \A p \in RPCProcedures : a[p] = b[p]
    PROVE  ApproveScope(g, a) = ApproveScope(g, b)
BY Zenon DEF ApproveScope

\* The record of e after a step that sets its pc, and the rest of the state.
LEMMA TypeKept ==
    ASSUME EditInvariant, NEW e \in Edits, Alone(e), permissions' = permissions,
           DOMAIN edit' = Edits, DOMAIN draft' = Edits, edit'[e] \in EditRecord(e)',
           DOMAIN draft'[e] \subseteq RPCProcedures,
           \A p \in DOMAIN draft'[e] : DOMAIN draft'[e][p] = Fields,
           \A p \in RPCProcedures : DOMAIN table'[p] = Fields,
           scope' \in Edits \cup {NoEdit}, lock' \in [RPCProcedures -> Edits \cup {NoEdit}]
    PROVE  EditTypeOK'
<1>1. EditTypeOK
  BY Zenon DEF EditInvariant
<1>2. ASSUME NEW s \in Edits
      PROVE  /\ edit'[s] \in EditRecord(s)'
             /\ DOMAIN draft'[s] \subseteq RPCProcedures
             /\ \A p \in DOMAIN draft'[s] : DOMAIN draft'[s][p] = Fields
  <2>1. CASE s = e
    BY <2>1, Zenon
  <2>2. CASE s # e
    <3>1. edit'[s] = edit[s] /\ draft'[s] = draft[s]
      BY <2>2, Zenon DEF Alone
    <3>2. EditRecord(s)' = EditRecord(s)
      BY <3>1, Zenon DEF EditRecord
    <3>3. /\ edit[s] \in EditRecord(s) /\ DOMAIN draft[s] \subseteq RPCProcedures
          /\ \A p \in DOMAIN draft[s] : DOMAIN draft[s][p] = Fields
      BY <1>1, Zenon DEF EditTypeOK
    <3> QED
      BY <3>1, <3>2, <3>3, Zenon
  <2> QED
    BY <2>1, <2>2, Zenon
<1> QED
  BY <1>1, <1>2, Zenon DEF EditTypeOK

\* A step that only moves e to p.
LEMMA MoveFacts ==
    ASSUME EditInvariant, NEW e \in Edits,
           NEW p \in Inside \cup Answered \cup {"start", "scope"}, MoveTo(e, p)
    PROVE  /\ DOMAIN edit' = Edits
           /\ edit'[e].pc = p
           /\ edit'[e].next = edit[e].next
           /\ edit'[e].copy = edit[e].copy
           /\ edit'[e].before = edit[e].before
           /\ edit'[e].granted = edit[e].granted
           /\ edit'[e].entitled = edit[e].entitled
           /\ edit'[e] \in EditRecord(e)'
           /\ Row(e)' = Row(e)
           /\ \A s \in Edits \ {e} : edit'[s] = edit[s]
<1>1. DOMAIN edit = Edits /\ edit[e] \in EditRecord(e)
  BY EditFacts, Zenon DEF EditInvariant, EditTypeOK
<1>2. /\ DOMAIN edit' = Edits /\ edit'[e] = [edit[e] EXCEPT !.pc = p]
      /\ \A s \in Edits \ {e} : edit'[s] = edit[s]
  BY <1>1, Zenon DEF MoveTo
<1>3. /\ edit'[e].pc = p /\ edit'[e].next = edit[e].next /\ edit'[e].copy = edit[e].copy
      /\ edit'[e].cached = edit[e].cached
      /\ edit'[e].before = edit[e].before /\ edit'[e].granted = edit[e].granted
      /\ edit'[e].entitled = edit[e].entitled
  BY <1>1, <1>2, Zenon DEF EditRecord
<1>4. edit'[e] \in EditRecord(e)'
  BY <1>1, <1>2, <1>3, Zenon DEF EditRecord
<1> QED
  BY <1>2, <1>3, <1>4, Zenon DEF Row

\* The end of a transaction releases the locks of e only.
LEMMA ReleaseFacts ==
    ASSUME EditInvariant, NEW e \in Edits, Release(e)
    PROVE  /\ scope' # e /\ scope' \in Edits \cup {NoEdit}
           /\ \A s \in Edits \ {e} : scope' = s <=> scope = s
           /\ lock' \in [RPCProcedures -> Edits \cup {NoEdit}]
BY NoEditAssumption, Zenon DEF Release, EditInvariant, EditTypeOK

\* A refusal under the locks.
LEMMA AbortKeeps ==
    ASSUME EditInvariant, NEW e \in Edits, Abort(e)
    PROVE  EditInvariant'
<1>1. /\ DOMAIN edit' = Edits /\ edit'[e].pc = "refused" /\ edit'[e] \in EditRecord(e)'
      /\ \A s \in Edits \ {e} : edit'[s] = edit[s]
  BY MoveFacts, Zenon DEF Abort, Answered
<1>2. /\ DOMAIN draft' = Edits /\ DOMAIN draft'[e] = {}
      /\ \A s \in Edits \ {e} : draft'[s] = draft[s]
  BY Zenon DEF Abort, EditInvariant, EditTypeOK
<1>3. Alone(e)
  BY <1>1, <1>2, ReleaseFacts, Zenon DEF Alone, Abort
<1>4. EditTypeOK'
  <2>1. \A p \in RPCProcedures : DOMAIN table'[p] = Fields
    BY Zenon DEF Abort, EditInvariant, EditTypeOK
  <2> QED
    BY <1>1, <1>2, <1>3, <2>1, ReleaseFacts, TypeKept, Zenon DEF Abort
<1>5. EditKnows(e)'
  BY <1>1, <1>2, ReleaseFacts, OutsideKnows, Zenon DEF Abort, Inside
<1> QED
  BY <1>3, <1>4, <1>5, StepKeeps, Zenon

\* The rules over the copies read when the request starts.
LEMMA ValidateKeeps ==
    ASSUME EditInvariant, NEW e \in Edits, Validate(e)
    PROVE  EditInvariant'
<1>1. EditTypeOK /\ EditKnows(e) /\ edit[e] \in EditRecord(e) /\ DOMAIN edit = Edits
  BY EditFacts, Zenon DEF EditInvariant, EditTypeOK
<1>2. PICK p \in {"refused", "scope"} :
         edit' = [edit EXCEPT ![e].pc = p, ![e].copy = table,
                              ![e].cached = permissions[Editor[e]]]
  BY Zenon DEF Validate
<1>3. /\ DOMAIN edit' = Edits
      /\ edit'[e] = [edit[e] EXCEPT !.pc = p, !.copy = table, !.cached = permissions[Editor[e]]]
      /\ \A s \in Edits \ {e} : edit'[s] = edit[s]
  BY <1>1, <1>2, Zenon
<1>4. edit'[e].pc = p /\ edit'[e].copy = table
  BY <1>1, <1>3, Zenon DEF EditRecord
<1>5. edit'[e] \in EditRecord(e)'
  BY <1>1, <1>3, <1>4, EditFacts, ZenonT(30) DEF EditRecord, Answered
<1>6. scope # e /\ DOMAIN draft[e] = {}
  BY <1>1, Zenon DEF EditKnows, Validate, At, Inside
<1>7. UNCHANGED <<table, permissions, scope, lock, draft>>
  BY Zenon DEF Validate
<1>8. Alone(e)
  BY <1>3, <1>7, Zenon DEF Alone
<1>9. EditTypeOK'
  BY <1>1, <1>3, <1>5, <1>6, <1>7, <1>8, TypeKept, Zenon DEF EditTypeOK
<1>10. EditKnows(e)'
  BY <1>4, <1>6, <1>7, OutsideKnows, Zenon DEF Inside
<1> QED
  BY <1>8, <1>9, <1>10, StepKeeps, Zenon

-----------------------------------------------------------------------------
(* The steps under the scope lock.                                         *)

\* The scope lock: what the transaction sees is what is committed.
LEMMA LockScopeKeeps ==
    ASSUME EditInvariant, NEW e \in Edits, LockScope(e)
    PROVE  EditInvariant'
<1>1. EditTypeOK /\ EditKnows(e)
  BY Zenon DEF EditInvariant
<1>2. /\ DOMAIN edit' = Edits /\ edit'[e].pc = "row" /\ edit'[e] \in EditRecord(e)'
      /\ \A s \in Edits \ {e} : edit'[s] = edit[s]
  BY MoveFacts DEF LockScope, Inside
<1>3. scope = NoEdit /\ scope' = e /\ UNCHANGED <<table, permissions, lock, draft>>
  BY Zenon DEF LockScope
<1>4. DOMAIN draft[e] = {}
  BY <1>1, <1>3, NoEditAssumption, Zenon DEF EditKnows
<1>5. Alone(e)
  BY <1>2, <1>3, NoEditAssumption, Zenon DEF Alone
<1>6. EditTypeOK'
  BY <1>1, <1>2, <1>3, <1>4, <1>5, TypeKept, Zenon DEF EditTypeOK
<1>7. \A g \in Grants : ApproveScope(g, Seen(e)') \subseteq ApproveScope(g, table')
  <2>1. \A p \in RPCProcedures : Seen(e)'[p] = table'[p]
    BY <1>3, <1>4, Zenon DEF Seen
  <2> QED
    BY <2>1, ScopeOfRows, Zenon
<1>8. EditKnows(e)'
  BY <1>2, <1>3, <1>4, <1>7, Zenon DEF EditKnows, Inside
<1> QED
  BY <1>5, <1>6, <1>8, StepKeeps, Zenon

\* A step of e inside its transaction that writes nothing.
LEMMA InsideFacts ==
    ASSUME EditInvariant, NEW e \in Edits, edit[e].pc \in Inside,
           DOMAIN edit' = Edits, edit'[e] \in EditRecord(e)',
           \A s \in Edits \ {e} : edit'[s] = edit[s],
           UNCHANGED <<table, permissions, scope, draft>>,
           lock' \in [RPCProcedures -> Edits \cup {NoEdit}]
    PROVE  /\ EditTypeOK /\ EditKnows(e) /\ scope = e
           /\ Alone(e)
           /\ EditTypeOK'
           /\ Seen(e)' = Seen(e)
<1>1. EditTypeOK /\ EditKnows(e) /\ scope = e
  BY Zenon DEF EditInvariant, EditKnows
<1>2. Alone(e)
  BY Zenon DEF Alone
<1>3. EditTypeOK'
  BY <1>1, <1>2, TypeKept, Zenon DEF EditTypeOK
<1> QED
  BY <1>1, <1>2, <1>3, Zenon DEF Seen

\* The row lock changes nothing that e knows.
LEMMA LockRowKeeps ==
    ASSUME EditInvariant, NEW e \in Edits, LockRow(e)
    PROVE  EditInvariant'
<1>1. /\ edit[e].pc = "row" /\ UNCHANGED <<table, permissions, scope, draft>>
      /\ MoveTo(e, "check") /\ lock' = [lock EXCEPT ![Row(e)] = e]
  BY Zenon DEF LockRow, At
<1>2. /\ DOMAIN edit' = Edits /\ edit'[e] \in EditRecord(e)' /\ edit'[e].pc = "check"
      /\ edit'[e].granted = edit[e].granted /\ edit'[e].entitled = edit[e].entitled
      /\ \A s \in Edits \ {e} : edit'[s] = edit[s]
  BY <1>1, MoveFacts, Zenon DEF Inside
<1>3. lock' \in [RPCProcedures -> Edits \cup {NoEdit}]
  BY <1>1, Zenon DEF EditInvariant, EditTypeOK
<1>4. /\ EditTypeOK /\ EditKnows(e) /\ scope = e /\ Alone(e) /\ EditTypeOK'
      /\ Seen(e)' = Seen(e)
  BY <1>1, <1>2, <1>3, InsideFacts, Zenon DEF Inside
<1>5. \A p : Entitled(e, p)' <=> Entitled(e, p)
  BY <1>1, <1>2, Zenon DEF Entitled
<1>6. EditKnows(e)'
  BY <1>1, <1>2, <1>4, <1>5, ZenonT(30) DEF EditKnows, Inside
<1> QED
  BY <1>4, <1>6, StepKeeps, Zenon

\* The locked check: what the edit may weaken is recorded, and the scope it had
\* before the write is not wider than the committed one.
LEMMA CheckKeeps ==
    ASSUME EditInvariant, NEW e \in Edits, CheckLocked(e)
    PROVE  EditInvariant'
<1>1. CASE Abort(e)
  BY <1>1, AbortKeeps, Zenon
<1> DEFINE g0 == permissions[Editor[e]]
           sees == ApproveScope(g0, Seen(e))
<1>2. CASE /\ Refusals(Seen(e)[Row(e)], Requested[e], Row(e) \in sees) = {}
           /\ edit' = [edit EXCEPT ![e].pc = "write", ![e].before = sees,
                                   ![e].granted = @ \cup {g0},
                                   ![e].entitled = @ \cup ({Row(e)} \cap sees)]
           /\ UNCHANGED <<table, permissions, scope, lock, draft>>
  <2>1. /\ EditTypeOK /\ DOMAIN edit = Edits /\ edit[e] \in EditRecord(e)
        /\ g0 \in Grants /\ Row(e) \in RPCProcedures /\ edit[e].pc = "check"
    BY EditFacts, Zenon DEF EditInvariant, EditTypeOK, CheckLocked, At
  <2>2. sees \subseteq RPCProcedures
    BY Zenon DEF ApproveScope
  <2> HIDE DEF g0, sees
  <2>3. /\ DOMAIN edit' = Edits
        /\ edit'[e] = [edit[e] EXCEPT !.pc = "write", !.before = sees,
                                      !.granted = edit[e].granted \cup {g0},
                                      !.entitled = edit[e].entitled \cup ({Row(e)} \cap sees)]
        /\ \A s \in Edits \ {e} : edit'[s] = edit[s]
    BY <1>2, <2>1, Zenon DEF EditRecord
  <2>4. /\ edit'[e].pc = "write" /\ edit'[e].before = sees /\ edit'[e].copy = edit[e].copy
        /\ edit'[e].granted = edit[e].granted \cup {g0} /\ edit'[e].next = edit[e].next
        /\ edit'[e].entitled = edit[e].entitled \cup ({Row(e)} \cap sees)
    BY <2>1, <2>3, Zenon DEF EditRecord
  <2>5. edit'[e] \in EditRecord(e)'
    BY <2>1, <2>2, <2>3, <2>4, Zenon DEF EditRecord, Inside
  <2>6. /\ EditKnows(e) /\ scope = e /\ Alone(e) /\ EditTypeOK' /\ Seen(e)' = Seen(e)
    <3>1. lock' \in [RPCProcedures -> Edits \cup {NoEdit}]
      BY <1>2, <2>1, Zenon DEF EditTypeOK
    <3> QED
      BY <1>2, <2>1, <2>3, <2>5, <3>1, InsideFacts, Zenon DEF Inside
  <2>7. Row(e)' = Row(e)
    BY <2>4, Zenon DEF Row
  <2>8. ASSUME NEW g \in Grants, edit'[e].granted \subseteq {g}
        PROVE  g = g0 /\ edit[e].granted \subseteq {g} /\ sees \subseteq ApproveScope(g, table)
    <3>1. g = g0 /\ edit[e].granted \subseteq {g}
      BY <2>4, <2>8, Zenon
    <3>2. ApproveScope(g, Seen(e)) \subseteq ApproveScope(g, table)
      BY <3>1, <2>1, <2>6, Zenon DEF EditKnows
    <3> QED
      BY <3>1, <3>2, Zenon DEF sees
  <2>9. \A p : Entitled(e, p) => Entitled(e, p)'
    BY <1>2, <2>4, <2>8, Zenon DEF Entitled
  <2>10. ASSUME NEW f \in ProtectedFields, Requested[e][f] # Omitted,
                Rule(f, Seen(e)[Row(e)][f], Requested[e][f])
         PROVE  Entitled(e, Row(e))'
    <3>1. Row(e) \in sees
      BY <1>2, <2>10, Zenon DEF Refusals
    <3>2. Row(e) \in edit'[e].entitled
      BY <3>1, <2>4, Zenon
    <3>3. ASSUME NEW g \in Grants, edit'[e].granted \subseteq {g}
          PROVE  Row(e) \in ApproveScope(g, table')
      BY <3>1, <3>3, <2>8, <1>2, Zenon
    <3> QED
      BY <3>2, <3>3, <2>7, Zenon DEF Entitled
  <2>11. EditKnows(e)'
    <3>1. \A p \in DOMAIN draft'[e], f \in ProtectedFields :
             /\ draft'[e][p][f] = IF Requested[e][f] # Omitted THEN Requested[e][f]
                                  ELSE table'[p][f]
             /\ Rule(f, table'[p][f], draft'[e][p][f]) => Entitled(e, p)'
      BY <1>2, <2>6, <2>9, Zenon DEF EditKnows
    <3>2. \A f \in ProtectedFields :
             Requested[e][f] # Omitted /\ Rule(f, Seen(e)'[Row(e)'][f], Requested[e][f]) =>
                Entitled(e, Row(e))'
      BY <2>6, <2>7, <2>10, Zenon
    <3>3. \A g \in Grants : edit'[e].granted \subseteq {g} =>
             edit'[e].before \subseteq ApproveScope(g, table')
      BY <1>2, <2>4, <2>8, Zenon
    <3> QED
      BY <1>2, <2>4, <2>6, <3>1, <3>2, <3>3, Zenon DEF EditKnows, Inside
  <2> QED
    BY <2>6, <2>11, StepKeeps, Zenon
<1> QED
  BY <1>1, <1>2, Zenon DEF CheckLocked, CurrentGrants

\* The write: a protected field is as requested, or as committed when omitted.
LEMMA WriteKeeps ==
    ASSUME EditInvariant, NEW e \in Edits, WriteRow(e)
    PROVE  EditInvariant'
<1>1. /\ EditTypeOK /\ EditKnows(e) /\ DOMAIN draft = Edits /\ edit[e].pc = "write"
      /\ Row(e) \in RPCProcedures /\ DOMAIN draft[e] \subseteq RPCProcedures
  BY EditFacts, Zenon DEF EditInvariant, EditTypeOK, WriteRow, At
<1>2. UNCHANGED <<table, permissions, scope, lock>> /\ scope = e /\ MoveTo(e, "gain")
  BY <1>1, Zenon DEF WriteRow, EditKnows, Inside
<1>3. /\ DOMAIN edit' = Edits /\ edit'[e] \in EditRecord(e)' /\ edit'[e].pc = "gain"
      /\ edit'[e].granted = edit[e].granted /\ edit'[e].entitled = edit[e].entitled
      /\ edit'[e].before = edit[e].before
      /\ \A s \in Edits \ {e} : edit'[s] = edit[s]
  BY <1>2, MoveFacts, Zenon DEF Inside
<1>4. /\ DOMAIN draft' = Edits /\ \A s \in Edits \ {e} : draft'[s] = draft[s]
      /\ draft'[e] = [p \in DOMAIN draft[e] \cup {Row(e)} |->
                        IF p = Row(e) THEN Written(e) ELSE draft[e][p]]
  BY <1>1, Zenon DEF WriteRow
<1>5. Alone(e)
  BY <1>2, <1>3, <1>4, Zenon DEF Alone
<1>6. EditTypeOK'
  <2>1. DOMAIN draft'[e] \subseteq RPCProcedures
    BY <1>1, <1>4, Zenon
  <2>2. \A p \in DOMAIN draft'[e] : DOMAIN draft'[e][p] = Fields
    <3>1. DOMAIN Written(e) = Fields
      BY Zenon DEF Written
    <3>2. \A p \in DOMAIN draft[e] : DOMAIN draft[e][p] = Fields
      BY <1>1, Zenon DEF EditTypeOK
    <3> QED
      BY <1>4, <3>1, <3>2, Zenon
  <2> QED
    BY <1>1, <1>2, <1>3, <1>4, <1>5, <2>1, <2>2, TypeKept, ZenonT(30) DEF EditTypeOK
<1>7. \A p : Entitled(e, p) => Entitled(e, p)'
  BY <1>2, <1>3, ZenonT(30) DEF Entitled
<1>8. ASSUME NEW f \in ProtectedFields
      PROVE  /\ Written(e)[f] = IF Requested[e][f] # Omitted THEN Requested[e][f]
                                ELSE table[Row(e)][f]
             /\ Rule(f, table[Row(e)][f], Written(e)[f]) => Entitled(e, Row(e))
  <2>1. Written(e)[f] = IF Requested[e][f] # Omitted THEN Requested[e][f]
                        ELSE Seen(e)[Row(e)][f]
    BY Zenon DEF Written, Fields
  <2>2. CASE Row(e) \in DOMAIN draft[e]
    <3>1. Seen(e)[Row(e)] = draft[e][Row(e)]
      BY <1>1, <2>2, Zenon DEF Seen
    <3>2. /\ draft[e][Row(e)][f] = IF Requested[e][f] # Omitted THEN Requested[e][f]
                                   ELSE table[Row(e)][f]
          /\ Rule(f, table[Row(e)][f], draft[e][Row(e)][f]) => Entitled(e, Row(e))
      BY <1>1, <2>2, Zenon DEF EditKnows
    <3> QED
      BY <2>1, <3>1, <3>2
  <2>3. CASE Row(e) \notin DOMAIN draft[e]
    <3>1. Seen(e)[Row(e)] = table[Row(e)]
      BY <1>1, <2>3, Zenon DEF Seen
    <3>2. Requested[e][f] # Omitted /\ Rule(f, Seen(e)[Row(e)][f], Requested[e][f]) =>
             Entitled(e, Row(e))
      BY <1>1, Zenon DEF EditKnows
    <3> QED
      BY <2>1, <3>1, <3>2, SameIsAllowed, Zenon
  <2> QED
    BY <2>2, <2>3, Zenon
<1>9. ASSUME NEW p \in DOMAIN draft'[e], NEW f \in ProtectedFields
      PROVE  /\ draft'[e][p][f] = IF Requested[e][f] # Omitted THEN Requested[e][f]
                                  ELSE table'[p][f]
             /\ Rule(f, table'[p][f], draft'[e][p][f]) => Entitled(e, p)'
  <2>1. CASE p = Row(e)
    <3>1. draft'[e][p] = Written(e)
      BY <2>1, <1>4, Zenon
    <3> QED
      BY <2>1, <3>1, <1>2, <1>7, <1>8, Zenon
  <2>2. CASE p # Row(e)
    <3>1. p \in DOMAIN draft[e] /\ draft'[e][p] = draft[e][p]
      BY <2>2, <1>4, Zenon
    <3>2. /\ draft[e][p][f] = IF Requested[e][f] # Omitted THEN Requested[e][f] ELSE table[p][f]
          /\ Rule(f, table[p][f], draft[e][p][f]) => Entitled(e, p)
      BY <3>1, <1>1, ZenonT(30) DEF EditKnows
    <3> QED
      BY <3>1, <3>2, <1>2, <1>7, Zenon
  <2> QED
    BY <2>1, <2>2, Zenon
<1>10. \A g \in Grants : edit'[e].granted \subseteq {g} =>
          edit'[e].before \subseteq ApproveScope(g, table')
  BY <1>1, <1>2, <1>3, ZenonT(30) DEF EditKnows
<1>11. EditKnows(e)'
  BY <1>2, <1>3, <1>9, <1>10, Zenon DEF EditKnows, Inside
<1> QED
  BY <1>5, <1>6, <1>11, StepKeeps, Zenon

\* The check for a gain: the scope over the written rows is not wider than before.
LEMMA GainKeeps ==
    ASSUME EditInvariant, NEW e \in Edits, RefuseGain(e)
    PROVE  EditInvariant'
<1>1. CASE Abort(e)
  BY <1>1, AbortKeeps, Zenon
<1> DEFINE g0 == permissions[Editor[e]]
           last == edit[e].next = Len(Rows[e])
           p == IF last THEN "commit" ELSE "row"
           n == IF last THEN edit[e].next ELSE edit[e].next + 1
<1>2. CASE /\ ApproveScope(g0, Seen(e)) \ edit[e].before = {}
           /\ edit' = [edit EXCEPT ![e].pc = IF last THEN "commit" ELSE "row",
                                   ![e].next = IF last THEN @ ELSE @ + 1,
                                   ![e].granted = @ \cup {g0}]
           /\ UNCHANGED <<table, permissions, scope, lock, draft>>
  <2>1. /\ EditTypeOK /\ DOMAIN edit = Edits /\ edit[e] \in EditRecord(e)
        /\ g0 \in Grants /\ edit[e].pc = "gain"
    BY EditFacts, Zenon DEF EditInvariant, EditTypeOK, RefuseGain, At
  <2>2. n \in DOMAIN Rows[e]
    BY <2>1, EditFacts, RowAfter, Zenon
  <2>3. edit' = [edit EXCEPT ![e] = [edit[e] EXCEPT !.pc = p, !.next = n,
                                       !.granted = edit[e].granted \cup {g0}]]
    BY <1>2, <2>1, Zenon DEF EditRecord
  <2>4. p \in {"commit", "row"}
    BY Zenon
  <2> HIDE DEF g0, p, n
  <2>5. /\ DOMAIN edit' = Edits
        /\ edit'[e] = [edit[e] EXCEPT !.pc = p, !.next = n,
                                      !.granted = edit[e].granted \cup {g0}]
        /\ \A s \in Edits \ {e} : edit'[s] = edit[s]
    BY <2>1, <2>3, Zenon
  <2>6. /\ edit'[e].pc = p /\ edit'[e].before = edit[e].before /\ edit'[e].copy = edit[e].copy
        /\ edit'[e].granted = edit[e].granted \cup {g0}
        /\ edit'[e].entitled = edit[e].entitled
    BY <2>1, <2>5, Zenon DEF EditRecord
  <2>7. edit'[e] \in EditRecord(e)'
    BY <2>1, <2>2, <2>4, <2>5, <2>6, ZenonT(30) DEF EditRecord, Inside
  <2>8. /\ EditKnows(e) /\ scope = e /\ Alone(e) /\ EditTypeOK' /\ Seen(e)' = Seen(e)
    <3>1. lock' \in [RPCProcedures -> Edits \cup {NoEdit}]
      BY <1>2, <2>1, Zenon DEF EditTypeOK
    <3> QED
      BY <1>2, <2>1, <2>5, <2>7, <3>1, InsideFacts, Zenon DEF Inside
  <2>9. \A q : Entitled(e, q) => Entitled(e, q)'
    BY <1>2, <2>6, ZenonT(30) DEF Entitled
  <2>10. ASSUME NEW g \in Grants, edit'[e].granted \subseteq {g}
         PROVE  ApproveScope(g, Seen(e)') \subseteq ApproveScope(g, table')
    <3>1. g = g0 /\ edit[e].granted \subseteq {g}
      BY <2>6, <2>10, Zenon
    <3>2. edit[e].before \subseteq ApproveScope(g, table)
      BY <3>1, <2>1, <2>8 DEF EditKnows
    <3> QED
      BY <3>1, <3>2, <1>2, <2>8, Zenon DEF g0
  <2>11. \A q \in DOMAIN draft'[e], f \in ProtectedFields :
             /\ draft'[e][q][f] = IF Requested[e][f] # Omitted THEN Requested[e][f]
                                  ELSE table'[q][f]
             /\ Rule(f, table'[q][f], draft'[e][q][f]) => Entitled(e, q)'
    BY <1>2, <2>8, <2>9, Zenon DEF EditKnows
  <2>12. EditKnows(e)'
    BY <1>2, <2>4, <2>6, <2>8, <2>10, <2>11, Zenon DEF EditKnows, Inside
  <2> QED
    BY <2>8, <2>12, StepKeeps, Zenon
<1> QED
  BY <1>1, <1>2, Zenon DEF RefuseGain, CurrentGrants

\* The commit publishes the written rows and ends the transaction.
LEMMA CommitKeeps ==
    ASSUME EditInvariant, NEW e \in Edits, Commit(e)
    PROVE  EditInvariant'
<1>1. EditTypeOK /\ EditKnows(e) /\ scope = e
  BY Zenon DEF EditInvariant, EditKnows, Commit, At, Inside
<1>2. /\ DOMAIN edit' = Edits /\ edit'[e].pc = "done" /\ edit'[e] \in EditRecord(e)'
      /\ \A s \in Edits \ {e} : edit'[s] = edit[s]
  BY MoveFacts, Zenon DEF Commit, Answered
<1>3. /\ DOMAIN draft' = Edits /\ DOMAIN draft'[e] = {}
      /\ \A s \in Edits \ {e} : draft'[s] = draft[s]
  BY <1>1, ZenonT(30) DEF Commit, EditTypeOK
<1>4. Alone(e)
  BY <1>1, <1>2, <1>3, ReleaseFacts, ZenonT(30) DEF Alone, Commit
<1>5. \A p \in RPCProcedures : DOMAIN table'[p] = Fields
  BY <1>1, ZenonT(30) DEF Commit, Seen, EditTypeOK
<1>6. EditTypeOK'
  BY <1>2, <1>3, <1>4, <1>5, ReleaseFacts, TypeKept, ZenonT(30) DEF Commit
<1>7. EditKnows(e)'
  BY <1>2, <1>3, ReleaseFacts, OutsideKnows, Zenon DEF Commit, Inside
<1> QED
  BY <1>4, <1>6, <1>7, StepKeeps, Zenon

\* A change of permissions, or a step that changes nothing.
LEMMA ChangeKeeps ==
    ASSUME EditInvariant,
           \/ \E u \in Users, g \in Grants : ChangeGrants(u, g)
           \/ UNCHANGED editing
    PROVE  EditInvariant'
<1>1. UNCHANGED <<table, scope, lock, edit, draft>> /\ permissions' \in [Users -> Grants]
  BY ZenonT(30) DEF ChangeGrants, editing, EditInvariant, EditTypeOK
<1>2. EditTypeOK'
  BY <1>1, Zenon DEF EditInvariant, EditTypeOK, EditRecord
<1>3. ASSUME NEW e \in Edits PROVE EditKnows(e)'
  <2>1. EditKnows(e)
    BY Zenon DEF EditInvariant
  <2>2. Seen(e)' = Seen(e) /\ Row(e)' = Row(e) /\ \A p : Entitled(e, p)' <=> Entitled(e, p)
    BY <1>1, Zenon DEF Seen, Row, Entitled
  <2> QED
    BY <1>1, <2>1, <2>2, ZenonT(30) DEF EditKnows
<1> QED
  BY <1>2, <1>3, Zenon DEF EditInvariant

-----------------------------------------------------------------------------

\* The record of an edit that has not begun.
LEMMA FreshRecord ==
  ASSUME NEW A, NEW B, NEW G, NEW P, NEW start \in A, NEW n \in B, NEW c, {} \in G
  PROVE  LET x == [pc |-> start, next |-> n, copy |-> c, cached |-> {}, before |-> {},
                   granted |-> {}, entitled |-> {}]
         IN  /\ x.copy = c
             /\ x \in [pc : A, next : B, copy : {c}, cached : G, before : SUBSET P,
                       granted : SUBSET G, entitled : SUBSET P]
OBVIOUS

\* The invariant of the protected edits: only the holder of the scope lock has
\* written rows, none of them weakens a protected field its editor could not
\* approve, and its approve scope has not grown.
THEOREM EditInvariantHolds == EditSpec => []EditInvariant
<1>1. EditInit => EditInvariant
  <2> SUFFICES ASSUME EditInit PROVE EditInvariant
    BY Zenon
  <2>1. EditTypeOK
    <3>1. ASSUME NEW e \in Edits
          PROVE  /\ edit[e] \in EditRecord(e)
                 /\ DOMAIN draft[e] \subseteq RPCProcedures
                 /\ \A p \in DOMAIN draft[e] : DOMAIN draft[e][p] = Fields
      <4>1. edit[e] = [pc |-> "start", next |-> 1, copy |-> Initial, cached |-> {},
                       before |-> {}, granted |-> {}, entitled |-> {}]
        BY Zenon DEF EditInit
      <4>2. 1 \in DOMAIN Rows[e]
        BY RowsFacts
      <4>3. edit[e] \in EditRecord(e)
        <5>1. {} \in Grants
          BY Zenon DEF Grants
        <5>2. "start" \in Inside \cup Answered \cup {"start", "scope"}
          BY Zenon
        <5>. DEFINE x == [pc |-> "start", next |-> 1, copy |-> Initial, cached |-> {},
                          before |-> {}, granted |-> {}, entitled |-> {}]
                    T == [pc : Inside \cup Answered \cup {"start", "scope"},
                          next : DOMAIN Rows[e], copy : {Initial}, cached : Grants,
                          before : SUBSET RPCProcedures, granted : SUBSET Grants,
                          entitled : SUBSET RPCProcedures]
        <5>3. x.copy = Initial /\ x \in T
          BY <4>2, <5>1, <5>2, FreshRecord, Zenon
        <5>4. edit[e] = x
          BY <4>1, Zenon
        <5>. HIDE DEF x
        <5>. QED BY <5>3, <5>4, Zenon DEF EditRecord
      <4>4. DOMAIN draft[e] = {}
        BY Zenon DEF EditInit
      <4> QED
        BY <4>3, <4>4, Zenon
    <3> QED
      BY <3>1, StoredAssumption, Zenon DEF EditInit, EditTypeOK
  <2>2. ASSUME NEW e \in Edits PROVE EditKnows(e)
    BY NoEditAssumption, Zenon DEF EditInit, EditKnows, Inside
  <2> QED
    BY <2>1, <2>2, Zenon DEF EditInvariant
<1>2. EditInvariant /\ [EditNext]_editing => EditInvariant'
  BY ValidateKeeps, LockScopeKeeps, LockRowKeeps, CheckKeeps, WriteKeeps, GainKeeps, CommitKeeps,
     ChangeKeeps, Zenon DEF EditNext, EditStep
<1> QED
  BY <1>1, <1>2, PTL DEF EditSpec

\* A commit of e is the step Commit(e).
LEMMA CommitsByCommit ==
    ASSUME EditInvariant, [EditNext]_editing, NEW e \in Edits, Commits(e)
    PROVE  Commit(e)
<1>1. edit[e].pc = "commit" /\ edit'[e].pc = "done" /\ DOMAIN edit = Edits
  BY Zenon DEF Commits, At, EditInvariant, EditTypeOK
<1>2. ASSUME NEW s \in Edits, EditStep(s) PROVE s = e
  BY <1>1, <1>2, Zenon DEF EditStep, Validate, LockScope, LockRow, CheckLocked, WriteRow,
      RefuseGain,
                    Commit, Abort, MoveTo
<1>3. \E s \in Edits : EditStep(s)
  BY <1>1, Zenon DEF EditNext, ChangeGrants, editing
<1> QED
  BY <1>1, <1>2, <1>3, ZenonT(60) DEF EditStep, Validate, LockScope, LockRow, CheckLocked,
      WriteRow,
                          RefuseGain, At

\* refuse_approval_scope_gain, for any procedures, edits and users: no commit
\* widens its own editor's approve scope under the grants the edit read, unless an
\* administrator changed them while it held its locks.
THEOREM NoSelfGainHolds == EditSpec => NoSelfGain
<1>1. EditInvariant /\ [EditNext]_editing =>
        [\A e \in Edits, g \in Grants : Commits(e) /\ edit[e].granted = {g} =>
            ApproveScope(g, table') \subseteq ApproveScope(g, table)]_editing
  <2> SUFFICES ASSUME EditInvariant, [EditNext]_editing, NEW e \in Edits, NEW g \in Grants,
                      Commits(e), edit[e].granted = {g}
               PROVE  ApproveScope(g, table') \subseteq ApproveScope(g, table)
    BY Zenon
  <2>1. table' = Seen(e) /\ edit[e].pc = "commit"
    BY CommitsByCommit, Zenon DEF Commit, At
  <2>2. EditKnows(e)
    BY Zenon DEF EditInvariant
  <2>3. ApproveScope(g, Seen(e)) \subseteq ApproveScope(g, table)
    BY <2>1, <2>2, Zenon DEF EditKnows
  <2> QED
    BY <2>1, <2>3, Zenon
<1> QED
  BY <1>1, EditInvariantHolds, PTL DEF EditSpec, NoSelfGain

\* protected_field_refusals under the locks, for any procedures, edits and users:
\* what a commit weakens in a protected field, its editor could approve, and an
\* omitted protected field keeps the value committed just before.
THEOREM ProtectedFieldsKeptHolds == EditSpec => ProtectedFieldsKept
<1>1. EditInvariant /\ [EditNext]_editing =>
        [\A e \in Edits : Commits(e) =>
          \A p \in RPCProcedures, f \in ProtectedFields :
              /\ Rule(f, table[p][f], table'[p][f]) =>
                    /\ p \in edit[e].entitled
                    /\ \A g \in Grants : edit[e].granted = {g} => p \in ApproveScope(g, table)
              /\ Requested[e][f] = Omitted => table'[p][f] = table[p][f]]_editing
  <2> SUFFICES ASSUME EditInvariant, [EditNext]_editing, NEW e \in Edits, Commits(e),
                      NEW p \in RPCProcedures, NEW f \in ProtectedFields
               PROVE  /\ Rule(f, table[p][f], table'[p][f]) => Entitled(e, p)
                      /\ Requested[e][f] = Omitted => table'[p][f] = table[p][f]
    BY DEF Entitled
  <2>1. table'[p] = IF p \in DOMAIN draft[e] THEN draft[e][p] ELSE table[p]
    BY CommitsByCommit DEF Commit, Seen
  <2>2. EditKnows(e)
    BY Zenon DEF EditInvariant
  <2>3. CASE p \in DOMAIN draft[e]
    BY <2>1, <2>2, <2>3, ZenonT(30) DEF EditKnows
  <2>4. CASE p \notin DOMAIN draft[e]
    BY <2>1, <2>4, SameIsAllowed, Zenon
  <2> QED
    BY <2>3, <2>4, Zenon
<1> QED
  BY <1>1, EditInvariantHolds, PTL DEF EditSpec, ProtectedFieldsKept
=============================================================================
