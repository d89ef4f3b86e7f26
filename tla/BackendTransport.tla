--------------------------- MODULE BackendTransport ---------------------------
(***************************************************************************)
(* One dispatch request, jobs._call_backend: the transport kind of the     *)
(* procedure, the wall clock around the exchange, the HTTP request, the    *)
(* bounded read, the validation of the closed envelope, and what the       *)
(* worker is told.  Time passes in ticks; SIGALRM has one timer, shared by *)
(* the wall clock and the RQ worker's own death penalty.                   *)
(*                                                                         *)
(* A response body is good, or wrong in one respect that a validator may   *)
(* or may not look at.                                                     *)
(***************************************************************************)
EXTENDS Naturals

CONSTANTS
    Kinds,     \* transport kinds a behaviour may pick from
    Budget,    \* route budget of a streamed kind, in ticks
    MaxOuter,  \* largest remaining time of the RQ death penalty at the call
    MaxTime    \* bound on the ticks of one call

ASSUME BudgetAssumption == Budget \in Nat \ {0} /\ MaxOuter \in Nat /\ MaxTime \in Nat

VARIABLES
    kind, operation,
    outer,     \* remaining death penalty when the call starts; 0: none armed
    thread,    \* the call runs on the worker's main thread
    pc,
    now,       \* ticks since the call started
    handler,   \* who handles SIGALRM: rq or call
    timer,     \* ITIMER_REAL; 0: disarmed
    sent,      \* the request may have reached the backend
    status,    \* class of the HTTP status
    response,  \* none, open or closed
    body,      \* good, or what is wrong with it
    ok,        \* the body's ok
    result     \* what the caller gets

call == <<kind, operation, outer, thread>>
vars == <<call, pc, now, handler, timer, sent, status, response, body, ok, result>>

AllKinds == {"generic", "upgrade", "runner", "org_runner", "docker_runner",
             "pair", "dns", "akvorado", "rq_worker"}
ASSUME KindsAssumption == Kinds \subseteq AllKinds

\* _SECRET_PROTECTED_TRANSPORTS and _STREAMED_TRANSPORTS.
SecretProtected == {"upgrade", "runner", "org_runner", "docker_runner", "pair", "dns"}
Streamed == AllKinds \ {"generic", "upgrade"}
RunnerKinds == {"runner", "org_runner"}

Defects == {"not_json", "keys", "ok_type", "disagree", "identity", "events",
            "text", "loud", "schema", "semantics"}
Statuses == {"2xx", "3xx", "401", "4xx", "408", "5xx"}

NoResult == [type |-> "none", stage |-> "", ok |-> FALSE]
Data(k) == [type |-> "data", stage |-> "", ok |-> k]
Error(code) == [type |-> "error", stage |-> code, ok |-> FALSE]

\* The closed failure envelopes, one per kind, as the stage they report.  Four
\* have no certain failure; a diagnosis changes nothing; a reconcile is never
\* certain about the token.
UpgradeFailure(stage) == stage
DnsFailure(stage) == stage
RunnerFailure(stage) ==
    IF operation = "reconcile" /\ stage # "indeterminate" THEN "reconcile" ELSE stage
OrgRunnerFailure(stage) ==
    IF operation = "reconcile" /\ stage # "indeterminate" THEN "reconcile" ELSE stage
DockerFailure == IF operation = "diagnose" THEN "diagnose" ELSE "indeterminate"
PairFailure == "indeterminate"
AkvoradoFailure == "indeterminate"
RqWorkerFailure == "indeterminate"

\* _closed_backend_transport_failure.
Closed(stage) ==
    [type |-> "closed", ok |-> FALSE,
     stage |-> CASE kind = "upgrade" -> UpgradeFailure(stage)
                 [] kind = "dns" -> DnsFailure(stage)
                 [] kind = "runner" -> RunnerFailure(stage)
                 [] kind = "org_runner" -> OrgRunnerFailure(stage)
                 [] kind = "docker_runner" -> DockerFailure
                 [] kind = "pair" -> PairFailure
                 [] kind = "akvorado" -> AkvoradoFailure
                 [] kind = "rq_worker" -> RqWorkerFailure]

\* token_reset_required of a runner kind's closed failure.
TokenResetRequired(r) == operation = "reconcile" \/ r.stage = "indeterminate"

Init ==
    /\ kind \in Kinds
    /\ operation \in CASE kind \in RunnerKinds -> {"start", "reconcile"}
                      [] kind = "docker_runner" -> {"start", "diagnose"}
                      [] OTHER -> {"start"}
    /\ outer \in 0..MaxOuter
    /\ thread \in BOOLEAN
    /\ pc = "arm"
    /\ now = 0
    /\ handler = "rq"
    /\ timer = outer
    /\ sent = FALSE
    /\ status = "2xx"
    /\ response = "none"
    /\ body = "good"
    /\ ok = TRUE
    /\ result = NoResult

Finish(r) == pc' = "leave" /\ result' = r

\* The exchange is over for everything but time and the timer.
Quiet == UNCHANGED <<call, now, handler, timer>>

-----------------------------------------------------------------------------
(* The wall clock.                                                         *)

\* _protected_response_limits: the kinds whose exchange has a deadline.
WallClock(k) == k \in Streamed

\* _build_backend_request_plan and the entry of _protected_backend_wall_clock:
\* a tighter death penalty is left alone, otherwise the call takes the timer.
Arm ==
    /\ pc = "arm"
    /\ IF WallClock(kind) /\ ~thread
       THEN Finish(Closed("indeterminate")) /\ UNCHANGED <<handler, timer>>
       ELSE /\ pc' = "post"
            /\ IF WallClock(kind) /\ ~(outer > 0 /\ outer <= Budget)
               THEN handler' = "call" /\ timer' = Budget
               ELSE UNCHANGED <<handler, timer>>
            /\ UNCHANGED result
    /\ UNCHANGED <<call, now, sent, status, response, body, ok>>

\* What an expiring timer raises: the wall clock error, also when requests has
\* wrapped it, is an indeterminate closed failure; the death penalty propagates.
Alarm == IF handler = "call" THEN Closed("indeterminate")
         ELSE [type |-> "death", stage |-> "", ok |-> FALSE]

\* A tick.  An expiring timer interrupts whatever statement runs; in post the
\* request may have left by then, in read the finally block closes the response.
\* In the finally block of the wall clock, before it disarms the timer, the alarm
\* also prevents the restoration.
Tick ==
    /\ pc \in {"post", "classify", "read", "normalize", "leave"} /\ now < MaxTime
    /\ now' = now + 1
    /\ timer' = IF timer > 0 THEN timer - 1 ELSE 0
    /\ IF timer = 1
       THEN /\ result' = Alarm
            /\ pc' \in IF pc = "leave" /\ handler = "call" THEN {"leave", "done"} ELSE {"leave"}
            /\ sent' \in IF pc = "post" THEN {sent, TRUE} ELSE {sent}
            /\ response' = IF pc = "read" /\ kind \in Streamed THEN "closed" ELSE response
       ELSE UNCHANGED <<pc, result, sent, response>>
    /\ UNCHANGED <<call, handler, status, body, ok>>

\* Variant of Leave: restores the outer timer as it was at the start.
LeaveExtends ==
    /\ pc = "leave"
    /\ pc' = "done"
    /\ handler' = "rq"
    /\ timer' = IF handler = "rq" THEN timer ELSE outer
    /\ UNCHANGED <<call, now, sent, status, response, body, ok, result>>

\* After the exchange: an answer at or past the deadline counts as late, and the
\* finally block brings the previous handler back with what remains of its timer.
Leave ==
    /\ pc = "leave"
    /\ pc' = "done"
    /\ result' = IF WallClock(kind) /\ now >= Budget /\ result.type \in {"data", "closed"}
                 THEN Closed("indeterminate") ELSE result
    /\ handler' = "rq"
    /\ timer' = IF handler = "rq" THEN timer
                ELSE IF outer > now THEN outer - now ELSE 0
    /\ UNCHANGED <<call, now, sent, status, response, body, ok>>

-----------------------------------------------------------------------------
(* The exchange.                                                           *)

\* _CONNECT_FAILURE_STAGES; a missing key raises KeyError.
ConnectStage ==
    CASE kind \in {"upgrade", "dns"} -> Closed("execute")
      [] kind = "runner" -> Closed("generate_token")
      [] kind = "org_runner" -> Closed("preconditions")
      [] OTHER -> Error("KeyError")

\* Variant of RequestFailure: any connection error counts as not sent.
RequestFailureCertain(connecting) ==
    IF kind \in {"akvorado", "docker_runner", "rq_worker"} THEN Closed("indeterminate")
    ELSE IF kind \in SecretProtected THEN ConnectStage
    ELSE Error("RPC_BACKEND_UNREACHABLE")

\* _classify_backend_request_failure.
RequestFailure(connecting) ==
    IF kind \in {"akvorado", "docker_runner", "rq_worker"} THEN Closed("indeterminate")
    ELSE IF kind \in SecretProtected
    THEN IF connecting THEN ConnectStage ELSE Closed("indeterminate")
    ELSE Error("RPC_BACKEND_UNREACHABLE")

\* _perform_backend_request: a response, a connect timeout (the request was never
\* sent) or another RequestException.
Post ==
    /\ pc = "post"
    /\ \/ /\ \E s \in Statuses, b \in {"good"} \cup Defects, k \in BOOLEAN :
               /\ status' = s
               /\ body' = b
               /\ ok' = k
          /\ response' = "open"
          /\ sent' = TRUE
          /\ pc' = "classify"
          /\ UNCHANGED result
       \/ /\ \E connecting \in BOOLEAN :
               /\ sent' = ~connecting
               /\ Finish(RequestFailure(connecting))
          /\ UNCHANGED <<status, body, ok, response>>
    /\ Quiet

CloseIf(streamed) == response' = IF streamed THEN "closed" ELSE response

\* _classify_backend_http_response.
ClassifyHttp ==
    /\ pc = "classify"
    /\ IF kind = "rq_worker" /\ status # "2xx"
       THEN Finish(Closed("indeterminate")) /\ CloseIf(TRUE)
       ELSE IF status = "401" /\ kind \notin SecretProtected
       THEN Finish(Error("RPC_BACKEND_UNAUTHORIZED")) /\ CloseIf(kind = "akvorado")
       ELSE IF status = "3xx" /\ kind \in SecretProtected \cup {"akvorado"}
       THEN Finish(Closed("indeterminate")) /\ CloseIf(kind \in Streamed)
       ELSE pc' = "read" /\ UNCHANGED <<result, response>>
    /\ Quiet /\ UNCHANGED <<sent, status, body, ok>>

\* _read_backend_response: the bounded read of a streamed kind or response.json();
\* the body is over the limit, cut short, late or not JSON, or it is read.
Read ==
    /\ pc = "read"
    /\ IF body = "not_json"
       THEN Finish(IF kind \in SecretProtected \cup {"akvorado", "rq_worker"}
                   THEN Closed("indeterminate")
                   ELSE Error("RPC_BACKEND_BAD_RESPONSE"))
       ELSE pc' = "normalize" /\ UNCHANGED result
    /\ CloseIf(kind \in Streamed)
    /\ Quiet /\ UNCHANGED <<sent, status, body, ok>>

-----------------------------------------------------------------------------
(* The closed envelopes.                                                   *)

\* What each kind's validator rejects.  A schema that pins the identity counts
\* under schema.
UpgradeRejects == Defects \ {"identity", "semantics"}
RunnerRejects == Defects \ {"semantics"}
OrgRunnerRejects == Defects \ {"semantics"}
DockerRejects == Defects \ {"semantics"}
DnsRejects == Defects \ {"semantics"}
PairRejects == Defects
AkvoradoRejects == Defects \ {"events", "semantics"}
RqWorkerRejects == {"not_json", "ok_type", "disagree", "schema"}

Rejects ==
    CASE kind = "upgrade" -> UpgradeRejects
      [] kind = "runner" -> RunnerRejects
      [] kind = "org_runner" -> OrgRunnerRejects
      [] kind = "docker_runner" -> DockerRejects
      [] kind = "dns" -> DnsRejects
      [] kind = "pair" -> PairRejects
      [] kind = "akvorado" -> AkvoradoRejects
      [] kind = "rq_worker" -> RqWorkerRejects

\* A wire envelope that is truthy and carries an error text is "loud".
Accepts == body \notin Rejects \/ (body = "loud" /\ ~ok)

\* The kinds whose normaliser is the validator and _closed_response_matches_http_status.
ClosedResponse ==
    IF Accepts /\ (status = "2xx" \/ ~ok) THEN Data(ok) ELSE Closed("indeterminate")

\* _normalize_protected_publication_pair_backend_response: only a success counts.
PairResponse ==
    IF Accepts /\ ok /\ status = "2xx" THEN Data(ok) ELSE Closed("indeterminate")

\* _normalize_netbox_rq_worker_backend_response.
RqWorkerResponse ==
    IF Accepts /\ status = "2xx" THEN Data(ok) ELSE Closed("indeterminate")

\* _normalize_generic_backend_response: an error carries the backend's own text.
GenericResponse ==
    IF status \in {"2xx", "3xx"} THEN Data(ok) ELSE Error("RPC_BACKEND_ERROR")

\* _normalize_akvorado_backend_response.
AkvoradoResponse ==
    IF status \in {"408", "5xx"} THEN Closed("indeterminate")
    ELSE IF status = "2xx" THEN IF Accepts THEN Data(ok) ELSE Closed("indeterminate")
    ELSE GenericResponse

\* _normalize_backend_response.
Normalize ==
    /\ pc = "normalize"
    /\ Finish(CASE kind = "generic" -> GenericResponse
                [] kind = "akvorado" -> AkvoradoResponse
                [] kind = "pair" -> PairResponse
                [] kind = "rq_worker" -> RqWorkerResponse
                [] OTHER -> ClosedResponse)
    /\ Quiet /\ UNCHANGED <<sent, status, response, body, ok>>

Next == Arm \/ Tick \/ Post \/ ClassifyHttp \/ Read \/ Normalize \/ Leave

Spec == Init /\ [][Next]_vars

-----------------------------------------------------------------------------
(* What a dispatch promises.                                               *)

Done == pc = "done"

\* The type of the state.
TypeOK ==
    /\ kind \in Kinds
    /\ operation \in {"start", "reconcile", "diagnose"}
    /\ outer \in 0..MaxOuter /\ thread \in BOOLEAN
    /\ pc \in {"arm", "post", "classify", "read", "normalize", "leave", "done"}
    /\ now \in 0..MaxTime /\ timer \in 0..(MaxOuter + Budget)
    /\ handler \in {"rq", "call"}
    /\ sent \in BOOLEAN /\ ok \in BOOLEAN
    /\ status \in Statuses /\ body \in {"good"} \cup Defects
    /\ response \in {"none", "open", "closed"}
    /\ result.type \in {"none", "data", "closed", "error", "death"}

\* A protected call never claims that nothing happened once the request may have
\* reached the backend: without a validated answer the outcome is indeterminate,
\* and a runner token must be reset.
NoFalseCertainty ==
    result.type = "closed" /\ sent /\ operation # "diagnose" =>
        /\ result.stage = "indeterminate"
        /\ kind \in RunnerKinds => TokenResetRequired(result)

\* A success of a protected kind is proved by a 2xx answer whose envelope is
\* closed, agrees with its nested result, and names this request.
SuccessIsProved ==
    result.type = "data" /\ result.ok /\ kind # "generic" =>
        /\ status = "2xx"
        /\ body \notin {"not_json", "ok_type", "disagree", "schema"}
        /\ kind \in SecretProtected => body \notin {"keys", "events", "text", "loud"}
        /\ kind \in {"runner", "org_runner", "docker_runner", "dns", "pair"} => body # "identity"

\* A streamed response stays open only when an alarm struck between the headers
\* and the read; every path that runs to its end closes the connection.
StreamedIsClosed ==
    Done /\ kind \in Streamed /\ response = "open" => result.type = "death" \/ now >= Budget

\* The worker's own death penalty survives the wall clock: it is back in place
\* with exactly what remains of it, never extended.  The one exception is an alarm
\* of the call itself that strikes while the finally block runs.
DeathPenaltySurvives ==
    Done => \/ /\ handler = "rq"
               /\ timer = IF outer > now THEN outer - now ELSE 0
            \/ handler = "call" /\ now = Budget /\ result = Closed("indeterminate")

\* A streamed exchange is accepted only within its budget, and a tighter death
\* penalty is never turned into an ordinary transport failure.
AcceptedInTime ==
    Done /\ kind \in Streamed =>
        /\ result.type = "data" => now < Budget
        /\ thread /\ 0 < outer /\ outer <= Budget /\ now >= outer => result.type = "death"

\* What the worker is told is what is known: no failure is called certain once
\* the request may have arrived, and no success is believed without its proof.
OutcomeIsTrue == TypeOK /\ NoFalseCertainty /\ SuccessIsProved

\* However the call ends, alarms included, it leaves the worker as it found it:
\* the connection is closed and the death penalty is in place.
LeavesClean == StreamedIsClosed /\ DeathPenaltySurvives /\ AcceptedInTime

\* jobs.py says of the publication pair "Return a fixed envelope without
\* reflecting backend-controlled detail", and so do the other secret-protected
\* kinds: their failures never surface as an ordinary error.
ProtectedFailureIsClosed ==
    Done /\ kind \in SecretProtected => result.type # "error"

-----------------------------------------------------------------------------
(* The inductive invariant behind OutcomeIsTrue and LeavesClean.           *)

Over == pc \in {"leave", "done"}

LeftOf(limit) == IF limit > now THEN limit - now ELSE 0

\* The death penalty would strike before the wall clock.
Tighter == 0 < outer /\ outer <= Budget

\* There is no result before the exchange is over, nothing is sent before the
\* request, and only an answer that may be read is read.
InOrder ==
    /\ ~Over => result = NoResult
    /\ pc \in {"arm", "post"} => ~sent /\ response = "none"
    /\ pc \in {"read", "normalize"} /\ kind \in SecretProtected \cup {"akvorado"} =>
           status # "3xx"
    /\ (pc = "normalize" \/ Over) /\ kind \in Streamed /\ response = "open" =>
           result.type = "death" \/ now >= Budget

\* The timer is what remains of the limit of whoever handles its signal.
ClockIsExact ==
    /\ handler = "rq" => timer = LeftOf(outer)
    /\ handler = "call" => /\ kind \in Streamed /\ ~Tighter
                           /\ timer = LeftOf(Budget)
    /\ pc = "arm" => handler = "rq" /\ now = 0
    /\ Tighter /\ now >= outer => Over /\ result.type = "death"

\* How a call ended.
EndsInTime ==
    Done => /\ handler = "call" => now = Budget /\ result = Closed("indeterminate")
            /\ kind \in Streamed /\ result.type = "data" => now < Budget

CallInvariant == /\ TypeOK /\ InOrder /\ ClockIsExact /\ EndsInTime
                 /\ NoFalseCertainty /\ SuccessIsProved
=============================================================================
