------------------------- MODULE ExecutionAdmission -------------------------
(***************************************************************************)
(* Request threads in create_execution and execute_intent, against the     *)
(* settings, backend and procedure rows that operators edit meanwhile.     *)
(*                                                                         *)
(* A request runs the creation path once per procedure of its plan: a      *)
(* direct POST has one, an intent has its ordered procedures.  One action  *)
(* is one database statement group, or one call to the backend or to RQ,   *)
(* after which other threads may run.  A parameter mapping is abstracted   *)
(* to its password and its timeout stamp.                                  *)
(***************************************************************************)
EXTENDS Naturals, Sequences, FiniteSets, Functions

CONSTANTS
    Requests,     \* request threads
    Plan,         \* the procedures each request creates, in intent order
    Target,       \* the assigned object of each request
    Password,     \* the password parameter of each request: plain or none
    Provision,    \* the Samba AD DC provision procedure
    Protected,    \* PROTECTED_APPROVAL_PROCEDURE_NAMES
    Explicit,     \* EXPLICIT_BACKEND_CAPABILITY_PROCEDURE_NAMES
    Passwords,    \* procedures with a password-bearing handler
    Approval,     \* procedures with approval_required
    Gated,        \* procedures a hard-coded gate holds shut
    Restart,      \* the production RQ worker restart
    Scoped,       \* _ASSIGNED_OBJECT_SCOPED_PROCEDURE_NAMES
    Pinned,       \* procedures pinned to one reviewed device or VM
    Metadata,     \* requests that carry more than the closed creation fields
    Backends,     \* RPCBackend rows
    Bound,        \* the backend id the protected contracts name
    Timeouts,     \* values of timeout_seconds
    Headroom,     \* _RPC_JOB_TIMEOUT_HEADROOM_SECONDS
    Floor,        \* _RPC_JOB_TIMEOUT_FLOOR_SECONDS
    MaxEdits,     \* bound on operator edits
    MaxFaults,    \* bound on lost request threads
    None

ASSUME PlanAssumption ==
    \A r \in Requests : Plan[r] \in Seq(Range(Plan[r])) /\ Plan[r] # <<>>
ASSUME InputAssumption == /\ Target \in [Requests -> Range(Target)]
                          /\ Password \in [Requests -> {"plain", "none"}]
ASSUME BoundAssumption == Bound \in Backends
ASSUME TimeoutsAssumption == Timeouts \subseteq Nat \ {0} /\ Timeouts # {}

VARIABLES
    settings,  \* RpcPluginSettings: enabled and the selected backend
    url,       \* each backend row's URL and TLS policy: reviewed or other
    catalog,   \* each procedure row: enabled and timeout
    grants,    \* the requester's permissions
    object,    \* each assigned object: reviewed, renamed or hidden from view
    consumer,  \* the netbox_rpc.control queue has a live worker
    req,       \* each request thread
    holder,    \* the thread holding the provision procedure's row lock
    execs,     \* the committed RPCExecution rows
    jobs,      \* jobs handed to RQ: execution and job_timeout
    sent,      \* history: authenticated capability requests
    edits,
    faults

rows == <<settings, url, catalog, grants, object, consumer>>
vars == <<rows, req, holder, execs, jobs, sent, edits, faults>>

Procedures == UNION {Range(Plan[r]) : r \in Requests}
Urls == {"reviewed", "other"}
ASSUME NoneAssumption == None \notin Requests \cup Backends \cup Urls
Input(r) == [password |-> Password[r], stamp |-> 0]
NoProcedure == [enabled |-> FALSE, timeout |-> 0]

\* _SAMBA_PROVISION_OPEN_STATUSES.
OpenStatuses == {"requested", "pending_approval", "approved", "queued", "running"}

\* The steps of a request thread, in the order create_execution takes them.
Steps == {"start", "load", "settings", "authorize", "payload", "capability",
          "persist", "locked", "insert", "publish"}
Ended == {"done", "refused", "lost"}

Working(r) == Plan[r][req[r].next]
Is(r, p) == req[r].pc = p

Init ==
    /\ settings = [enabled |-> TRUE, backend |-> Bound]
    /\ url = [b \in Backends |-> IF b = Bound THEN "reviewed" ELSE "other"]
    /\ catalog \in [Procedures -> [enabled : {TRUE}, timeout : {CHOOSE t \in Timeouts : TRUE}]]
    /\ grants = {"execute_rpcprocedure", "execute_rpcintent", "approve_rpcprocedure"}
    /\ object = [t \in Range(Target) |-> "reviewed"]
    /\ consumer = TRUE
    /\ req = [r \in Requests |->
                [pc |-> "start", next |-> 1, procedure |-> NoProcedure,
                 caller |-> Input(r), params |-> Input(r), backend |-> None,
                 target |-> None, execution |-> 0]]
    /\ holder = None
    /\ execs = <<>>
    /\ jobs = {}
    /\ sent = {}
    /\ edits = 0
    /\ faults = 0

\* The next procedure of the plan, or the end of the call.
Following(r) ==
    IF req[r].next < Len(Plan[r])
    THEN [req[r] EXCEPT !.pc = "load", !.next = @ + 1]
    ELSE [req[r] EXCEPT !.pc = "done"]

Go(r, p) == req' = [req EXCEPT ![r].pc = p]

\* A gate raises: nothing catches it, so it ends the whole call.
Refuse(r) == Go(r, "refused")

-----------------------------------------------------------------------------
(* execute_intent and the pure gates.                                      *)

\* execute_intent's own gates; a direct POST has none before create_execution.
\* A plan is that of an enabled intent: the code refuses a disabled intent and
\* an empty list at once, before anything is read or written.
Start(r) ==
    /\ Is(r, "start")
    /\ Go(r, IF Len(Plan[r]) > 1 /\ "execute_rpcintent" \notin grants
             THEN "refused" ELSE "load")
    /\ UNCHANGED <<rows, holder, execs, jobs, sent, edits, faults>>

\* A closed params_schema accepts the caller's keys and not a platform stamp.
SchemaAccepts(params) == params.stamp = 0

\* serializer.is_valid loads the procedure row, the parameters are copied, and
\* _validate_creation_admission decides before any settings or backend access.
LoadProcedure(r) ==
    /\ Is(r, "load")
    /\ LET p == Working(r)
           admitted == /\ "execute_rpcprocedure" \in grants
                       /\ catalog[p].enabled
                       /\ SchemaAccepts(req[r].caller)
                       /\ p \notin Gated
       IN  req' = [req EXCEPT ![r].pc = IF admitted THEN "settings" ELSE "refused",
                              ![r].procedure = catalog[p],
                              ![r].params = req[r].caller]
    /\ UNCHANGED <<rows, holder, execs, jobs, sent, edits, faults>>

-----------------------------------------------------------------------------
(* Backend, approval policy, payload and capability.                       *)

\* resolved_backend_target and resolve_backend: exactly the selected row; with
\* none selected and several rows configured the choice is ambiguous.
Resolve(b) == IF b \in Backends THEN url[b] ELSE None

\* _require_enabled_and_authoritative_backend.
ReadSettings(r) ==
    /\ Is(r, "settings")
    /\ IF settings.enabled /\ Resolve(settings.backend) # None
       THEN req' = [req EXCEPT ![r].pc = "authorize",
                               ![r].backend = settings.backend]
       ELSE Refuse(r)
    /\ UNCHANGED <<rows, holder, execs, jobs, sent, edits, faults>>

\* _require_concrete_protected_backend_id.
ConcreteBackend(b) == b = Bound

\* _protected_backend_target_sha256: the URL and TLS policy of the contract.
MatchesContract(target) == target = "reviewed"

\* _require_protected_procedure_scope, _require_restart_requester_scopes and
\* _require_restart_control_consumer.
ProtectedScopes(p) ==
    /\ "execute_rpcprocedure" \in grants
    /\ p = Restart => "approve_rpcprocedure" \in grants /\ consumer

\* _require_protected_creation_shape.
ClosedShape(r) == r \notin Metadata

\* Variant of PrepareAuthorization: drops the resolved target after the check.
PrepareDropsTarget(r) ==
    /\ Is(r, "authorize")
    /\ LET b == req[r].backend
           p == Working(r)
       IN  IF p \in Protected
           THEN IF /\ ConcreteBackend(b)
                   /\ ProtectedScopes(p)
                   /\ ClosedShape(r)
                   /\ MatchesContract(Resolve(b))
                THEN Go(r, "payload")
                ELSE Refuse(r)
           ELSE IF p \in Approval /\ "approve_rpcprocedure" \notin grants
                THEN Refuse(r)
                ELSE Go(r, "payload")
    /\ UNCHANGED <<rows, holder, execs, jobs, sent, edits, faults>>

\* _prepare_creation_authorization: a protected procedure resolves its backend
\* once and keeps the validated target; others need the approve permission.  The
\* code also refuses a protected procedure whose row left its reviewed policy:
\* the rows here have none to leave, so more requests go on than in the code.
PrepareAuthorization(r) ==
    /\ Is(r, "authorize")
    /\ LET b == req[r].backend
           p == Working(r)
       IN  IF p \in Protected
           THEN IF /\ ConcreteBackend(b)
                   /\ ProtectedScopes(p)
                   /\ ClosedShape(r)
                   /\ MatchesContract(Resolve(b))
                THEN req' = [req EXCEPT ![r].pc = "payload", ![r].target = Resolve(b)]
                ELSE Refuse(r)
           ELSE IF p \in Approval /\ "approve_rpcprocedure" \notin grants
                THEN Refuse(r)
                ELSE req' = [req EXCEPT ![r].pc = "payload", ![r].target = None]
    /\ UNCHANGED <<rows, holder, execs, jobs, sent, edits, faults>>

\* _scrub_password_param: the password becomes its fingerprint, in place.
Scrub(params) ==
    IF params.password = "plain" THEN [params EXCEPT !.password = "sha256"] ELSE params

\* _require_viewable_assigned_object.
ViewableObject(r) ==
    Working(r) \in Scoped => object[Target[r]] # "hidden"

\* The front-door device, the production Gitea VM and the runner VMs: the exact
\* object, viewable and with its reviewed identity.
PinnedObject(r) ==
    Working(r) \in Pinned => object[Target[r]] = "reviewed"

\* _validate_creation_payload: the assigned object, then the scrub; secret
\* ingress and family content may refuse any request.
ValidatePayload(r) ==
    /\ Is(r, "payload")
    /\ \/ /\ ViewableObject(r) /\ PinnedObject(r)
          /\ req' = [req EXCEPT ![r].pc = "capability",
                     ![r].params = IF Working(r) \in Passwords THEN Scrub(@) ELSE @]
       \/ Refuse(r)
    /\ UNCHANGED <<rows, holder, execs, jobs, sent, edits, faults>>

\* _verify_backend_capability: the target is the validated one, or is resolved
\* from the settings again; the request carries the backend's token.
VerifyCapability(r) ==
    /\ Is(r, "capability")
    /\ LET target == IF req[r].target # None THEN req[r].target
                     ELSE Resolve(settings.backend)
       IN  \E status \in {"compatible", "unknown", "mismatch"} :
             /\ target = None => status = "unknown"
             /\ sent' = IF target = None THEN sent
                        ELSE sent \cup {[procedure |-> Working(r), url |-> target]}
             /\ Go(r, IF \/ status = "mismatch"
                         \/ Working(r) \in Explicit /\ status # "compatible"
                      THEN "refused" ELSE "persist")
    /\ UNCHANGED <<rows, holder, execs, jobs, edits, faults>>

-----------------------------------------------------------------------------
(* The persisting transaction and the publication of the job.              *)

\* Variant of LockProvision: no row lock.
LockNothing(r) ==
    /\ Is(r, "persist")
    /\ req' = [req EXCEPT ![r].pc = "locked",
                          ![r].params.stamp = req[r].procedure.timeout]
    /\ UNCHANGED <<rows, holder, execs, jobs, sent, edits, faults>>

\* The stamp, and the first statement of _require_no_concurrent_samba_provision.
LockProvision(r) ==
    /\ Is(r, "persist")
    /\ Working(r) = Provision => holder = None
    /\ holder' = IF Working(r) = Provision THEN r ELSE holder
    /\ req' = [req EXCEPT ![r].pc = "locked",
                          ![r].params.stamp = req[r].procedure.timeout]
    /\ UNCHANGED <<rows, execs, jobs, sent, edits, faults>>

\* The executions that refuse another provision of target t.
OpenProvisions(t) ==
    {i \in DOMAIN execs : /\ execs[i].procedure = Provision
                          /\ execs[i].target = t
                          /\ execs[i].status \in OpenStatuses}

\* The row lock ends with the transaction.
Unlock(r) == holder' = IF holder = r THEN None ELSE holder

\* The exists() query under the lock.
CheckProvision(r) ==
    /\ Is(r, "locked")
    /\ IF Working(r) = Provision /\ OpenProvisions(Target[r]) # {}
       THEN Refuse(r) /\ Unlock(r)
       ELSE Go(r, "insert") /\ UNCHANGED holder
    /\ UNCHANGED <<rows, execs, jobs, sent, edits, faults>>

NewExecution(r) ==
    [procedure |-> Working(r), target |-> Target[r], request |-> r,
     params |-> req[r].params, backend |-> req[r].backend,
     status |-> IF Working(r) \in Protected THEN "pending_approval" ELSE "queued"]

\* Insert, normalise and transition, then commit and release the lock; a
\* normalisation that fails rolls everything back.
PersistRequest(r) ==
    /\ Is(r, "insert")
    /\ \/ /\ execs' = Append(execs, NewExecution(r))
          /\ req' = [req EXCEPT ![r] =
                       IF Working(r) \in Protected THEN Following(r)
                       ELSE [@ EXCEPT !.pc = "publish", !.execution = Len(execs) + 1]]
       \/ /\ Working(r) \in Protected \cup {Provision}
          /\ Refuse(r)
          /\ UNCHANGED execs
    /\ Unlock(r)
    /\ UNCHANGED <<rows, jobs, sent, edits, faults>>

\* _execution_job_timeout.
JobTimeout(seconds) ==
    IF seconds + Headroom > Floor THEN seconds + Headroom ELSE Floor

\* Variant of PublishJob: a failed enqueue is swallowed and the run goes on.
PublishSwallows(r) ==
    /\ Is(r, "publish")
    /\ jobs' \in {jobs, jobs \cup {[execution |-> req[r].execution,
                                    timeout |-> JobTimeout(req[r].params.stamp)]}}
    /\ req' = [req EXCEPT ![r] = Following(r)]
    /\ UNCHANGED <<rows, holder, execs, sent, edits, faults>>

\* _enqueue_execution_job: a failed enqueue fails the execution and raises.
PublishJob(r) ==
    /\ Is(r, "publish")
    /\ \/ /\ jobs' = jobs \cup {[execution |-> req[r].execution,
                                 timeout |-> JobTimeout(req[r].params.stamp)]}
          /\ req' = [req EXCEPT ![r] = Following(r)]
          /\ UNCHANGED execs
       \/ /\ execs' = [execs EXCEPT ![req[r].execution].status = "failed"]
          /\ Refuse(r)
          /\ UNCHANGED jobs
    /\ UNCHANGED <<rows, holder, sent, edits, faults>>

\* The thread is lost: an open transaction rolls back.
Lose(r) ==
    /\ req[r].pc \in Steps /\ faults < MaxFaults
    /\ Go(r, "lost")
    /\ Unlock(r)
    /\ faults' = faults + 1
    /\ UNCHANGED <<rows, execs, jobs, sent, edits>>

-----------------------------------------------------------------------------
(* The executions' later life, and the operators.                          *)

Published(i) == \E j \in jobs : j.execution = i

\* A decision queues or rejects, a worker claims a published execution and ends
\* it, an actor cancels what has not started.
Advance(i) ==
    /\ \E s \in CASE execs[i].status = "pending_approval" -> {"queued", "rejected", "cancelled"}
                  [] execs[i].status = "queued" ->
                       {"cancelled"} \cup IF Published(i) THEN {"running"} ELSE {}
                  [] execs[i].status = "running" -> {"succeeded", "failed"}
                  [] OTHER -> {} :
            /\ execs' = [execs EXCEPT ![i].status = s]
            /\ jobs' = IF execs[i].status = "pending_approval" /\ s = "queued"
                       THEN jobs \cup {[execution |-> i,
                                        timeout |-> JobTimeout(execs[i].params.stamp)]}
                       ELSE jobs
    /\ UNCHANGED <<rows, req, holder, sent, edits, faults>>

\* Operators edit the settings, the backend rows, the catalogue and the grants.
Edit ==
    /\ edits < MaxEdits
    /\ edits' = edits + 1
    /\ \/ /\ \E s \in [enabled : BOOLEAN, backend : Backends \cup {None}] :
                s # settings /\ settings' = s
          /\ UNCHANGED <<url, catalog, grants, object, consumer>>
       \/ /\ \E b \in Backends, u \in Urls : u # url[b] /\ url' = [url EXCEPT ![b] = u]
          /\ UNCHANGED <<settings, catalog, grants, object, consumer>>
       \/ /\ \E p \in Procedures, c \in [enabled : BOOLEAN, timeout : Timeouts] :
                /\ c # catalog[p]
                \* The UPDATE waits for the lock a provision request holds on the row.
                /\ p = Provision => holder = None
                /\ catalog' = [catalog EXCEPT ![p] = c]
          /\ UNCHANGED <<settings, url, grants, object, consumer>>
       \/ /\ \E g \in grants : grants' = grants \ {g}
          /\ UNCHANGED <<settings, url, catalog, object, consumer>>
       \/ /\ \E t \in Range(Target), o \in {"reviewed", "renamed", "hidden"} :
                o # object[t] /\ object' = [object EXCEPT ![t] = o]
          /\ UNCHANGED <<settings, url, catalog, grants, consumer>>
       \/ /\ consumer' = ~consumer
          /\ UNCHANGED <<settings, url, catalog, grants, object>>
    /\ UNCHANGED <<req, holder, execs, jobs, sent, faults>>

Step(r) ==
    \/ Start(r) \/ LoadProcedure(r) \/ ReadSettings(r) \/ PrepareAuthorization(r)
    \/ ValidatePayload(r) \/ VerifyCapability(r) \/ LockProvision(r)
    \/ CheckProvision(r) \/ PersistRequest(r) \/ PublishJob(r)

Next ==
    \/ \E r \in Requests : Step(r) \/ Lose(r)
    \/ \E i \in DOMAIN execs : Advance(i)
    \/ Edit

Spec == Init /\ [][Next]_vars

\* A request thread keeps running; nothing is assumed of operators or workers.
FairSpec == Spec /\ \A r \in Requests : WF_vars(Step(r))

-----------------------------------------------------------------------------
(* What the request paths promise.                                         *)

Statuses == OpenStatuses \cup {"succeeded", "failed", "rejected", "cancelled"}
Params == [password : {"plain", "none", "sha256"}, stamp : Nat]
Thread == [pc : Steps \cup Ended, next : Nat, procedure : [enabled : BOOLEAN, timeout : Nat],
           caller : Params, params : Params, backend : Backends \cup {None},
           target : Urls \cup {None}, execution : Nat]
Execution == [procedure : Procedures, target : Range(Target), request : Requests,
              params : Params, backend : Backends \cup {None}, status : Statuses]

\* The type of the state; in particular a published job always names a committed
\* execution, since the job is enqueued after the transaction.
TypeOK ==
    /\ settings \in [enabled : BOOLEAN, backend : Backends \cup {None}]
    /\ url \in [Backends -> Urls]
    /\ catalog \in [Procedures -> [enabled : BOOLEAN, timeout : Timeouts]]
    /\ object \in [Range(Target) -> {"reviewed", "renamed", "hidden"}]
    /\ consumer \in BOOLEAN
    /\ req \in [Requests -> Thread]
    /\ holder \in Requests \cup {None}
    /\ execs \in Seq(Execution)
    /\ \A j \in jobs : j.execution \in DOMAIN execs

\* The bootstrap is not rerunnable: at most one open provision per target,
\* whatever requests, intents and operators do at the same time.
OneOpenProvision ==
    \A t \in Range(Target) : Cardinality(OpenProvisions(t)) <= 1

\* The executions a call has committed, and the place of execution i among
\* those of its call.
Made(r) == {i \in DOMAIN execs : execs[i].request = r}
Place(i) == Cardinality({j \in 1..i : execs[j].request = execs[i].request})

\* execute_intent: the executions a call has committed are, in order, a prefix
\* of its plan, and a call that returns normally has created all of them.
FanOutIsPrefix ==
    /\ \A i \in DOMAIN execs :
        LET plan == Plan[execs[i].request]
        IN  Place(i) \in DOMAIN plan /\ execs[i].procedure = plan[Place(i)]
    /\ \A r \in Requests : Is(r, "done") => Cardinality(Made(r)) = Len(Plan[r])

\* One frozen number: the job's deadline is derived from the stamp its execution
\* carries, whatever happened to the procedure's timeout in between.
FrozenTimeout ==
    \A j \in jobs : j.timeout = JobTimeout(execs[j.execution].params.stamp)

\* The password that a child of r for procedure p stores.
Stored(r, p) == IF p \in Passwords THEN Scrub(Input(r)).password ELSE Password[r]

\* Every child starts from the caller's own parameters: no sibling's scrub or
\* stamp reaches it, and no password-bearing handler stores the password.
ChildrenAreIndependent ==
    \A i \in DOMAIN execs :
        execs[i].params.password = Stored(execs[i].request, execs[i].procedure)

\* The token of a protected procedure's capability request only ever goes to
\* the reviewed URL, although the backend row may change after the check.
TokenOnlyToReviewed ==
    \A s \in sent : s.procedure \in Protected => s.url = "reviewed"

\* A queued execution has its job, or its thread is about to publish it or was
\* lost; a swallowed enqueue would leave it waiting for ever.
OrphanedOnlyByLoss ==
    \A i \in DOMAIN execs :
        execs[i].status = "queued" /\ ~Published(i) =>
            LET r == execs[i].request
            IN  Is(r, "lost") \/ (Is(r, "publish") /\ req[r].execution = i)

\* Every request ends, also the one that waits for another's provision lock.
EveryRequestEnds == \A r \in Requests : <>(req[r].pc \in Ended)

\* What a request leaves behind at any moment, also when a child is refused, its
\* job cannot be published or its thread is lost: the children are a prefix of
\* the plan, and only a lost thread leaves one queued without a job.
PublishedInOrder == TypeOK /\ FanOutIsPrefix /\ OrphanedOnlyByLoss

\* What was checked is what is used, although operators edit between the gates:
\* the backend the token goes to, the timeout of the job and the parameters of
\* each child.
UsedAsChecked == TypeOK /\ TokenOnlyToReviewed /\ FrozenTimeout /\ ChildrenAreIndependent

-----------------------------------------------------------------------------
(* The inductive invariant behind the safety properties above.             *)

\* What one request thread knows at each step: its place in the plan and how many
\* executions it has committed, the parameters it carries, the checked target of
\* a protected procedure, the row lock, and the execution it is to publish.
ThreadKnows(r) ==
    LET t == req[r]
    IN  /\ t.next \in DOMAIN Plan[r]
        /\ t.caller = Input(r)
        /\ t.pc \in {"settings", "authorize", "payload"} => t.params = Input(r)
        /\ t.pc \in {"capability", "persist", "locked", "insert", "publish"} =>
               t.params.password = Stored(r, Working(r))
        /\ t.pc \in {"payload", "capability"} /\ Working(r) \in Protected =>
               t.target = "reviewed"
        /\ holder = r <=> t.pc \in {"locked", "insert"} /\ Working(r) = Provision
        /\ t.pc = "insert" /\ Working(r) = Provision => OpenProvisions(Target[r]) = {}
        /\ t.pc \in Steps \ {"publish"} => Cardinality(Made(r)) = t.next - 1
        /\ t.pc \in {"publish", "done"} => Cardinality(Made(r)) = t.next
        /\ t.pc = "done" => t.next = Len(Plan[r])
        /\ t.pc = "publish" => /\ t.execution \in Made(r)
                               /\ execs[t.execution].params = t.params

\* No two open provisions of one target.
OneOpen == \A t \in Range(Target) : \A i, j \in OpenProvisions(t) : i = j

AdmissionInvariant ==
    /\ TypeOK
    /\ \A r \in Requests : ThreadKnows(r)
    /\ OneOpen /\ FanOutIsPrefix /\ OrphanedOnlyByLoss
    /\ TokenOnlyToReviewed /\ FrozenTimeout /\ ChildrenAreIndependent
=============================================================================
