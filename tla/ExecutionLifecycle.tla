------------------------- MODULE ExecutionLifecycle --------------------------
(***************************************************************************)
(* The life of one RPC execution: the request thread that creates it, the  *)
(* users who approve, reject or cancel it, the thread that publishes its   *)
(* background job, the RQ workers that claim and dispatch it, and the      *)
(* sweep that expires an overdue restart.                                  *)
(*                                                                         *)
(* One action is one database transaction (or one unlocked read or one     *)
(* call to an external service) of application/command_handlers.py,        *)
(* together with everything the handler does inside it.  Between two       *)
(* actions of a thread every other thread may run, so each thread carries  *)
(* the in-memory copy of the row it last loaded or wrote (pubMem, mem).    *)
(***************************************************************************)
EXTENDS ExecutionProjection

CONSTANTS
    Workers,        \* background workers; each takes at most one delivery
    Requester,      \* the account that creates the execution
    Superusers,     \* the accounts that are superusers at first
    Kinds,          \* the procedure classes a behaviour may pick from
    MaxQueueAge,    \* CONTROL_QUEUE_MAX_AGE_SECONDS, in clock ticks
    MaxDeliveries,  \* bound on how often the queue hands the job out
    MaxFaults       \* bound on process deaths and aborted transactions

ASSUME RequesterAssumption == Requester \in Users
ASSUME SuperusersAssumption == Superusers \subseteq Users
ASSUME KindsAssumption == Kinds \subseteq {"ordinary", "protected", "restart"}
ASSUME BoundsAssumption == /\ MaxQueueAge \in Nat \ {0}
                           /\ MaxDeliveries \in Nat
                           /\ MaxFaults \in Nat

VARIABLES
    kind,        \* class of the execution's procedure
    ledger,      \* the committed RPCExecutionEvent stream
    row,         \* the committed RPCExecution row
    folded,      \* history: rebuild(ledger), kept one event at a time
    snapshot,    \* RPCApprovalRequest: the target the approver is shown
    catalog,     \* the procedure row and its commands against reviewed policy
    target,      \* what normalisation would resolve to now
    superusers,  \* who is a superuser now
    age,         \* time since ExecutionQueued
    pubPc,       \* the thread in _enqueue_execution_job
    pubMem,      \* its copy of the row
    deliveries,  \* jobs waiting in RQ
    published,   \* history: jobs ever handed to RQ
    expiryJob,   \* the scheduled RPCExecutionQueueExpiryJob
    sweeper,     \* the periodic sweep: idle, or holding a candidate id
    pc,          \* each worker's position in run_execution
    mem,         \* each worker's copy of the row
    policy,      \* each worker's cached execution.procedure
    version,     \* the stream version each worker read for its lease
    calls,       \* history: requests sent to the backend
    faults       \* history: process deaths and aborted transactions

store == <<ledger, row, folded>>
environment == <<catalog, target, superusers>>
publisher == <<pubPc, pubMem, published>>
expiry == <<expiryJob, sweeper>>
worker == <<pc, mem, policy, version, calls>>
vars == <<kind, store, snapshot, environment, age, publisher, deliveries,
          expiry, worker, faults>>

CatalogStates == {"reviewed", "edited", "recommanded", "disabled"}

Protected == kind # "ordinary"
Created == ledger # <<>>

-----------------------------------------------------------------------------
(* Writing the store.                                                      *)

\* _append_and_project by a writer whose copy of the row is old.
AppendAndProject(old, e) ==
    /\ ledger' = Append(ledger, e)
    /\ folded' = Apply(folded, e)
    /\ row' = CommitChanged(row, old, Apply(old, e))

\* The same for a writer that holds the row lock and has just loaded the row.
AppendLocked(e) == AppendAndProject(row, e)

\* Two events in one locked transaction.
AppendBoth(d, e) ==
    /\ ledger' = ledger \o <<d, e>>
    /\ folded' = Apply(Apply(folded, d), e)
    /\ row' = Apply(Apply(row, d), e)

Failure(code) == [Event("ExecutionFailed") EXCEPT !.code = code]

Init ==
    /\ kind \in Kinds
    /\ ledger = <<>>
    /\ row = InitialState
    /\ folded = InitialState
    /\ snapshot = NoParams
    /\ catalog = "reviewed"
    /\ target \in Targets
    /\ superusers = Superusers
    /\ age = 0
    /\ pubPc = "none"
    /\ pubMem = InitialState
    /\ deliveries = 0
    /\ published = 0
    /\ expiryJob = "none"
    /\ sweeper = "idle"
    /\ pc = [w \in Workers |-> "idle"]
    /\ mem = [w \in Workers |-> InitialState]
    /\ policy = [w \in Workers |-> "reviewed"]
    /\ version = [w \in Workers |-> 0]
    /\ calls = 0
    /\ faults = 0

-----------------------------------------------------------------------------
(* Request threads: create, approve, reject, cancel.                       *)

\* create_execution of an unprotected procedure: persist, then go on to publish.
CreateQueued ==
    /\ ~Created /\ ~Protected
    /\ catalog # "disabled"
    /\ AppendLocked(Event("ExecutionQueued"))
    /\ pubPc' = "publishing"
    /\ pubMem' = row'
    /\ UNCHANGED <<kind, snapshot, environment, age, published, deliveries,
                   expiry, worker, faults>>

\* create_execution of a protected procedure: it stops at pending approval.
CreatePending ==
    /\ ~Created /\ Protected
    /\ catalog = "reviewed"
    /\ AppendBoth(Event("ExecutionRequested"), Event("ApprovalRequested"))
    /\ snapshot' = target
    /\ UNCHANGED <<kind, environment, age, publisher, deliveries, expiry,
                   worker, faults>>

\* _allow_protected_self_approval: superusers, but never for the restart.
AllowSelfApproval(u) == kind # "restart" /\ u \in superusers

\* _approve_protected_execution: revalidate, decide and queue under the row
\* lock, then go on to publish.
Approve(u) ==
    /\ row.status = "pending_approval"
    /\ catalog = "reviewed"
    /\ u # Requester \/ AllowSelfApproval(u)
    /\ snapshot = target
    /\ AppendBoth([Event("ExecutionApproved") EXCEPT !.by = u],
                  Event("ExecutionQueued"))
    /\ pubPc' = "publishing"
    /\ pubMem' = row'
    /\ UNCHANGED <<kind, snapshot, environment, age, published, deliveries,
                   expiry, worker, faults>>

\* reject_execution: a distinct actor, superuser or not.
Reject(u) ==
    /\ row.status = "pending_approval"
    /\ u # Requester
    /\ AppendLocked([Event("ExecutionRejected") EXCEPT !.by = u])
    /\ UNCHANGED <<kind, snapshot, environment, age, publisher, deliveries,
                   expiry, worker, faults>>

\* cancel_execution under the row lock.
Cancel ==
    /\ Created
    /\ row.status \in {"queued", "pending_approval"}
    /\ AppendLocked(Event("ExecutionCancelled"))
    /\ UNCHANGED <<kind, snapshot, environment, age, publisher, deliveries,
                   expiry, worker, faults>>

-----------------------------------------------------------------------------
(* _enqueue_execution_job, in the thread that created or approved.         *)

PublishUnchanged == UNCHANGED <<kind, snapshot, environment, age, pubMem, worker>>

\* RPCExecutionJob.enqueue returns.
PublishJob ==
    /\ pubPc = "publishing"
    /\ published < MaxDeliveries
    /\ pubPc' = "recording"
    /\ deliveries' = deliveries + 1
    /\ published' = published + 1
    /\ UNCHANGED <<store, expiry, faults>> /\ PublishUnchanged

\* RPCExecutionJob.enqueue raises and no job reached the queue.
PublishRefused ==
    /\ pubPc = "publishing"
    /\ pubPc' = "failing"
    /\ UNCHANGED <<store, deliveries, published, expiry, faults>> /\ PublishUnchanged

\* RPCExecutionJob.enqueue raises after the job reached the queue: the reply
\* was lost, or the later job.save raised.
PublishRaisedLate ==
    /\ pubPc = "publishing"
    /\ published < MaxDeliveries
    /\ pubPc' = "failing"
    /\ deliveries' = deliveries + 1
    /\ published' = published + 1
    /\ UNCHANGED <<store, expiry, faults>> /\ PublishUnchanged

\* The except branch: mark_execution_failed on the thread's own copy, without
\* a lock or a status check.
RecordEnqueueFailed ==
    /\ pubPc = "failing"
    /\ AppendAndProject(pubMem, [Event("ExecutionEnqueueFailed")
                                    EXCEPT !.code = "RPC_ENQUEUE_FAILED"])
    /\ pubPc' = "done"
    /\ UNCHANGED <<deliveries, published, expiry, faults>> /\ PublishUnchanged

\* RPCExecutionAggregate.enqueue: its guard reads the thread's own copy.
RecordEnqueued ==
    /\ pubPc = "recording"
    /\ pubMem.status = "queued"
    /\ AppendAndProject(pubMem, Event("JobEnqueued"))
    /\ pubPc' = IF kind = "restart" THEN "scheduling" ELSE "done"
    /\ UNCHANGED <<deliveries, published, expiry, faults>> /\ PublishUnchanged

\* _enqueue_restart_expiry_job; an exception is logged and swallowed.
ScheduleExpiry ==
    /\ pubPc = "scheduling"
    /\ expiryJob' \in {"none", "scheduled"}
    /\ pubPc' = "done"
    /\ UNCHANGED <<store, deliveries, published, sweeper, faults>>
    /\ PublishUnchanged

\* The request process dies, or its next transaction is aborted.
PublisherDies ==
    /\ pubPc \notin {"none", "done"}
    /\ faults < MaxFaults
    /\ faults' = faults + 1
    /\ pubPc' = "done"
    /\ UNCHANGED <<store, deliveries, published, expiry>> /\ PublishUnchanged

\* RQ hands the job out again: a requeued, retried or abandoned job.
Redeliver ==
    /\ published \in 1..(MaxDeliveries - 1)
    /\ deliveries' = deliveries + 1
    /\ published' = published + 1
    /\ UNCHANGED <<store, pubPc, expiry, faults>> /\ PublishUnchanged

-----------------------------------------------------------------------------
(* A worker in run_execution.                                              *)

WorkerUnchanged == UNCHANGED <<kind, snapshot, environment, age, publisher, expiry>>

Goto(w, label) == pc' = [pc EXCEPT ![w] = label]

\* The worker records e from its own copy of the row and moves on.
RecordFrom(w, e, label) ==
    /\ AppendAndProject(mem[w], e)
    /\ mem' = [mem EXCEPT ![w] = Apply(@, e)]
    /\ Goto(w, label)

\* RPCExecutionJob.run: the unlocked load that only supplies the primary key.
Fetch(w) ==
    /\ pc[w] = "idle"
    /\ deliveries > 0
    /\ deliveries' = deliveries - 1
    /\ Goto(w, "fetched")
    /\ UNCHANGED <<store, mem, policy, version, calls, faults>> /\ WorkerUnchanged

\* Variant of Stale: the boundary instant itself is not yet stale.
StaleAfterLimit == kind = "restart" /\ age > MaxQueueAge

\* _restart_queue_is_stale.
Stale == kind = "restart" /\ age >= MaxQueueAge

\* _approval_identities_are_authorized.
IdentitiesAuthorized ==
    /\ row.approved_by_id # NoUser
    /\ \/ row.approved_by_id # Requester
       \/ kind # "restart" /\ row.approved_by_id \in superusers

\* The reason _claim_if_procedure_enabled fails a queued execution, if any; the
\* check of the parameters of the organisation runner is left out.
ClaimRefusal ==
    CASE catalog = "disabled"                -> "RPC_PROCEDURE_DISABLED"
      [] catalog # "disabled" /\ Stale       -> "RPC_CONTROL_QUEUE_STALE"
      [] catalog \in {"edited", "recommanded"} /\ ~Stale /\ Protected
                                             -> "RPC_APPROVAL_INVALIDATED"
      [] catalog = "reviewed" /\ ~Stale /\ Protected /\ ~IdentitiesAuthorized
                                             -> "RPC_APPROVAL_REQUIRED"
      [] OTHER                               -> ""

\* The locked claim finds the execution no longer queued.
LoseClaim(w) ==
    /\ pc[w] = "fetched"
    /\ row.status # "queued"
    /\ Goto(w, "done")
    /\ UNCHANGED <<store, deliveries, mem, policy, version, calls, faults>>
    /\ WorkerUnchanged

\* The locked claim fails the execution closed.
RefuseClaim(w) ==
    /\ pc[w] = "fetched"
    /\ row.status = "queued"
    /\ ClaimRefusal # ""
    /\ AppendLocked(Failure(ClaimRefusal))
    /\ Goto(w, "done")
    /\ UNCHANGED <<deliveries, mem, policy, version, calls, faults>> /\ WorkerUnchanged

\* Variant of StartClaim: the status is not rechecked under the row lock.
StartClaimUnchecked(w) ==
    /\ pc[w] = "fetched"
    /\ Created
    /\ ClaimRefusal = ""
    /\ AppendLocked(Event("ExecutionStarted"))
    /\ mem' = [mem EXCEPT ![w] = row']
    /\ policy' = [policy EXCEPT ![w] = catalog]
    /\ Goto(w, "claimed")
    /\ UNCHANGED <<deliveries, version, calls, faults>> /\ WorkerUnchanged

\* The locked claim starts it.  The loaded row caches execution.procedure.
StartClaim(w) ==
    /\ pc[w] = "fetched"
    /\ row.status = "queued"
    /\ ClaimRefusal = ""
    /\ AppendLocked(Event("ExecutionStarted"))
    /\ mem' = [mem EXCEPT ![w] = row']
    /\ policy' = [policy EXCEPT ![w] = catalog]
    /\ Goto(w, "claimed")
    /\ UNCHANGED <<deliveries, version, calls, faults>> /\ WorkerUnchanged

\* The integration is switched off, or a protected backend binding is invalid.
FailPreflight(w) ==
    /\ pc[w] = "claimed"
    /\ \E code \in {"RPC_INTEGRATION_DISABLED"}
                     \cup (IF Protected THEN {"RPC_BACKEND_BINDING_INVALID"} ELSE {}) :
           RecordFrom(w, Failure(code), "done")
    /\ UNCHANGED <<deliveries, policy, version, calls, faults>> /\ WorkerUnchanged

\* Variant of ApprovalIsCurrent: the approved snapshot is not compared again.
ApprovalPolicyOnly(w) == policy[w] = "reviewed" /\ catalog # "recommanded"

\* _require_current_protected_approval: the procedure fields come from the
\* worker's cached object, its commands and the target from the database.  The
\* approver's account is cached too, so the identity check repeats the claim's.
ApprovalIsCurrent(w) ==
    /\ policy[w] = "reviewed"
    /\ catalog # "recommanded"
    /\ snapshot = target

\* _prepare_dispatch: normalise, revalidate, record ParametersNormalized.
Normalize(w) ==
    /\ pc[w] = "claimed"
    /\ Protected => ApprovalIsCurrent(w)
    /\ RecordFrom(w, [Event("ParametersNormalized") EXCEPT !.params = target],
                  "normalized")
    /\ UNCHANGED <<deliveries, policy, version, calls, faults>> /\ WorkerUnchanged

\* _current_stream_version: an unlocked read of the latest sequence.
ReadStreamVersion(w) ==
    /\ pc[w] = "normalized"
    /\ version' = [version EXCEPT ![w] = Len(ledger)]
    /\ Goto(w, "leasing")
    /\ UNCHANGED <<store, deliveries, mem, policy, calls, faults>> /\ WorkerUnchanged

\* issue_dispatch_lease signed a lease; record_dispatch_lease_issued audits it.
IssueLease(w) ==
    /\ pc[w] = "leasing"
    /\ RecordFrom(w, [Event("DispatchLeaseIssued") EXCEPT !.version = version[w]],
                  "leased")
    /\ UNCHANGED <<deliveries, policy, version, calls, faults>> /\ WorkerUnchanged

\* No signing key: only an unprotected execution may go on without a lease.
SkipLease(w) ==
    /\ pc[w] = "leasing"
    /\ ~Protected
    /\ Goto(w, "leased")
    /\ UNCHANGED <<store, deliveries, mem, policy, version, calls, faults>>
    /\ WorkerUnchanged

\* jobs._call_backend sends its one request.
CallBackend(w) ==
    /\ pc[w] = "leased"
    /\ calls' = calls + 1
    /\ Goto(w, "calling")
    /\ UNCHANGED <<store, deliveries, mem, policy, version, faults>> /\ WorkerUnchanged

\* The terminal events record_backend_response may write: a success, a
\* reported failure or a schema mismatch, with or without a result mapping.
TerminalEvents ==
    {[e EXCEPT !.result = r] :
        e \in {Event("ExecutionSucceeded"), Failure("BACKEND_CODE")}, r \in Results}

\* aggregate.record_backend_response: progress events (never for a protected
\* procedure) and the terminal event in one transaction.
RecordResponse(w) ==
    /\ pc[w] = "calling"
    /\ \E e \in TerminalEvents :
        /\ \E tail \in {<<e>>} \cup (IF Protected THEN {}
                                     ELSE {<<Event("BackendEventRecorded"), e>>}) :
               ledger' = ledger \o tail
        /\ folded' = Apply(folded, e)
        /\ row' = CommitChanged(row, mem[w], Apply(mem[w], e))
        /\ mem' = [mem EXCEPT ![w] = Apply(@, e)]
    /\ Goto(w, "done")
    /\ UNCHANGED <<deliveries, policy, version, calls, faults>> /\ WorkerUnchanged

\* Variant of Raise: the except branch is missing.
RaiseUnrecorded(w) ==
    /\ pc[w] \in {"claimed", "normalized", "leasing", "leased", "calling"}
    /\ Goto(w, "done")
    /\ UNCHANGED <<store, deliveries, mem, policy, version, calls, faults>>
    /\ WorkerUnchanged

\* Any exception inside run_execution's try block: resolution, capability,
\* approval or normalisation errors, a missing lease, a transport error, or
\* the RQ job timeout.
Raise(w) ==
    /\ pc[w] \in {"claimed", "normalized", "leasing", "leased", "calling"}
    /\ Goto(w, "failing")
    /\ UNCHANGED <<store, deliveries, mem, policy, version, calls, faults>>
    /\ WorkerUnchanged

\* The transaction of RecordResponse is rolled back after _write_projection
\* already changed the in-memory copy.
RecordAborted(w) ==
    /\ pc[w] = "calling"
    /\ faults < MaxFaults
    /\ faults' = faults + 1
    /\ \E e \in TerminalEvents : mem' = [mem EXCEPT ![w] = Apply(@, e)]
    /\ Goto(w, "failing")
    /\ UNCHANGED <<store, deliveries, policy, version, calls>> /\ WorkerUnchanged

\* The except branch: aggregate.fail, whose guard reads the in-memory copy;
\* an RPCExecutionAggregateError is swallowed.
RecordFailure(w) ==
    /\ pc[w] = "failing"
    /\ \/ /\ mem[w].status \notin TERMINAL_STATUSES
          /\ RecordFrom(w, Failure("RPC_EXECUTION_FAILED"), "done")
       \/ /\ mem[w].status \in TERMINAL_STATUSES
          /\ Goto(w, "done")
          /\ UNCHANGED <<store, mem>>
    /\ UNCHANGED <<deliveries, policy, version, calls, faults>> /\ WorkerUnchanged

\* The worker process dies; an aborted claim or failure transaction, which
\* nothing catches, has the same effect.
WorkerDies(w) ==
    /\ pc[w] \notin {"idle", "done"}
    /\ faults < MaxFaults
    /\ faults' = faults + 1
    /\ Goto(w, "done")
    /\ UNCHANGED <<store, deliveries, mem, policy, version, calls>> /\ WorkerUnchanged

-----------------------------------------------------------------------------
(* Expiry of an overdue queued restart.                                    *)

ExpiryUnchanged == UNCHANGED <<kind, snapshot, environment, age, publisher,
                               deliveries, worker, faults>>

\* expire_stale_restart_execution: recheck under the row lock, then fail.
ExpireStale ==
    IF row.status = "queued" /\ Stale
    THEN AppendLocked(Failure("RPC_CONTROL_QUEUE_STALE"))
    ELSE UNCHANGED store

\* RPCExecutionQueueExpiryJob, scheduled for the queue deadline.
RunExpiryJob ==
    /\ expiryJob = "scheduled"
    /\ age >= MaxQueueAge
    /\ ExpireStale
    /\ expiryJob' = "ran"
    /\ UNCHANGED sweeper /\ ExpiryUnchanged

\* expire_stale_restart_executions: the unlocked candidate query.
SelectCandidate ==
    /\ sweeper = "idle"
    /\ Created
    /\ row.status = "queued" /\ kind = "restart" /\ age >= MaxQueueAge
    /\ sweeper' = "candidate"
    /\ UNCHANGED <<store, expiryJob>> /\ ExpiryUnchanged

SweepCandidate ==
    /\ sweeper = "candidate"
    /\ ExpireStale
    /\ sweeper' = "idle"
    /\ UNCHANGED expiryJob /\ ExpiryUnchanged

\* Time passes while a restart sits in the queue.
Tick ==
    /\ kind = "restart" /\ Created /\ row.status = "queued"
    /\ age < MaxQueueAge
    /\ age' = age + 1
    /\ UNCHANGED <<kind, store, snapshot, environment, publisher, deliveries,
                   expiry, worker, faults>>

-----------------------------------------------------------------------------
(* What administrators change while the execution is alive.                *)

AdminUnchanged == UNCHANGED <<kind, store, snapshot, age, publisher, deliveries,
                              expiry, worker, faults>>

\* The procedure row or its command rows are edited.
EditProcedure ==
    /\ catalog' \in CatalogStates \ {catalog}
    /\ UNCHANGED <<target, superusers>> /\ AdminUnchanged

\* The inventory objects normalisation reads change.
MoveTarget ==
    /\ target' \in Targets \ {target}
    /\ UNCHANGED <<catalog, superusers>> /\ AdminUnchanged

\* A superuser loses that flag.
RevokeSuperuser ==
    /\ \E u \in superusers : superusers' = superusers \ {u}
    /\ UNCHANGED <<catalog, target>> /\ AdminUnchanged

-----------------------------------------------------------------------------
Decide == \/ \E u \in Users : Approve(u) \/ Reject(u)
          \/ Cancel

Publish == \/ PublishJob \/ PublishRefused \/ PublishRaisedLate
           \/ RecordEnqueueFailed \/ RecordEnqueued \/ ScheduleExpiry

Work(w) == \/ Fetch(w) \/ LoseClaim(w) \/ RefuseClaim(w) \/ StartClaim(w)
           \/ FailPreflight(w) \/ Normalize(w) \/ ReadStreamVersion(w)
           \/ IssueLease(w) \/ SkipLease(w) \/ CallBackend(w)
           \/ RecordResponse(w) \/ Raise(w) \/ RecordFailure(w)

Expire == RunExpiryJob \/ SelectCandidate \/ SweepCandidate

Fault == \/ PublisherDies
         \/ \E w \in Workers : RecordAborted(w) \/ WorkerDies(w)

Administer == EditProcedure \/ MoveTarget \/ RevokeSuperuser

Next == \/ CreateQueued \/ CreatePending \/ Decide
        \/ Publish \/ Redeliver
        \/ \E w \in Workers : Work(w)
        \/ Expire \/ Tick
        \/ Fault \/ Administer

Spec == Init /\ [][Next]_vars

\* A published job is fetched and run, a request thread goes on, the clock
\* advances and the periodic sweep runs.
Fairness == /\ WF_vars(Publish)
            /\ \A w \in Workers : WF_vars(Work(w))
            /\ WF_vars(Tick)
            /\ WF_vars(SelectCandidate)
            /\ WF_vars(SweepCandidate)

FairSpec == Spec /\ Fairness

-----------------------------------------------------------------------------
(* Properties.                                                             *)

PublisherLabels == {"none", "publishing", "recording", "failing", "scheduling",
                    "done"}

WorkerLabels == {"idle", "fetched", "claimed", "normalized", "leasing", "leased",
                 "calling", "failing", "done"}

\* Every variable stays in its range; in particular every event the handlers
\* record is a well-formed ledger event and every write a well-formed row.
TypeOK ==
    /\ kind \in {"ordinary", "protected", "restart"}
    /\ ledger \in Seq(DomainEvent)
    /\ row \in ProjectionState
    /\ folded \in ProjectionState
    /\ snapshot \in Targets \cup {NoParams}
    /\ catalog \in CatalogStates
    /\ target \in Targets
    /\ superusers \subseteq Users
    /\ age \in 0..MaxQueueAge
    /\ pubPc \in PublisherLabels
    /\ pubMem \in ProjectionState
    /\ deliveries \in Nat
    /\ published \in 0..MaxDeliveries
    /\ expiryJob \in {"none", "scheduled", "ran"}
    /\ sweeper \in {"idle", "candidate"}
    /\ pc \in [Workers -> WorkerLabels]
    /\ mem \in [Workers -> ProjectionState]
    /\ policy \in [Workers -> CatalogStates]
    /\ version \in [Workers -> Nat]
    /\ calls \in Nat
    /\ faults \in 0..MaxFaults

\* However often the queue hands the job out, whoever dies and whatever the
\* request thread does late, the backend receives at most one request: only
\* the locked queued-to-running claim leads to _call_backend.
AtMostOneDispatch == calls <= 1

Logged(name) == \E i \in DOMAIN ledger : ledger[i].name = name

\* A protected request reaches the backend only with a recorded approver (for
\* the restart, someone other than the requester), with exactly the target the
\* approval snapshot shows, and with an audited signed lease.
DispatchesWhatWasApproved ==
    calls > 0 /\ Protected =>
        /\ row.approved_by_id \in Users
        /\ kind = "restart" => row.approved_by_id # Requester
        /\ row.normalized_params = snapshot
        /\ Logged("DispatchLeaseIssued")

\* The gates a stream passes, in the only order it may pass them.
Gates == <<"ExecutionApproved", "ExecutionQueued", "ExecutionStarted",
           "ParametersNormalized", "DispatchLeaseIssued">>

\* No gate is passed twice or out of order in one stream, although several
\* threads append to it: approval, queueing, claim, normalisation, lease.
GatesInOrder ==
    \A i, j \in DOMAIN ledger, g, h \in DOMAIN Gates :
        i < j /\ ledger[i].name = Gates[g] /\ ledger[j].name = Gates[h] => g < h

\* A row that reached a terminal status never becomes live again, although the
\* request thread and the worker write from stale copies without a lock: a
\* column that the event does not change is not written back.
NoResurrection ==
    [][row.status \in TERMINAL_STATUSES => row'.status \in TERMINAL_STATUSES]_vars

\* The status column always equals the status rebuild(events) computes, even
\* when writers with stale copies interleave.
StatusIsRebuilt == row.status = folded.status

TerminalEventNames == {"ExecutionRejected", "ExecutionSucceeded", "ExecutionFailed",
                       "ExecutionEnqueueFailed", "ExecutionCancelled", "ExecutionExpired"}

\* The stream holds a terminal event; it holds at most one.
Closed == \E i \in DOMAIN ledger : ledger[i].name \in TerminalEventNames

ClosedOnce ==
    \A i, j \in DOMAIN ledger :
        ledger[i].name \in TerminalEventNames /\ ledger[j].name \in TerminalEventNames
            => i = j

\* The row agrees with its rebuild: in the status always, and in every column
\* as long as the stream holds one terminal event.
RowIsFolded == /\ StatusIsRebuilt
               /\ ClosedOnce => row = folded

Idle == /\ pubPc \in {"none", "done"}
        /\ deliveries = 0
        /\ \A w \in Workers : pc[w] \in {"idle", "done"}

\* When every thread is finished and no job waits, an execution is left queued
\* or running only if a process died or a transaction was aborted.
StrandedOnlyByFault ==
    Created /\ Idle /\ row.status \in {"queued", "running"} => faults > 0

\* Row, ledger and gates account for each other, whoever writes from a stale
\* copy and whatever is delivered twice: the gates of a run are recorded in
\* order, the row is the fold of the ledger, and an execution is left open only
\* by a fault.
AccountedFor == GatesInOrder /\ RowIsFolded /\ StrandedOnlyByFault

\* An overdue restart always leaves the queue, even if the request process
\* dies before publishing the job or before scheduling the expiry job: the
\* periodic sweep finds it.
RestartLeavesQueue ==
    (Created /\ kind = "restart" /\ row.status = "queued") ~> (row.status # "queued")

\* A queued execution finishes unless a process dies or a transaction aborts.
QueuedFinishes ==
    (Created /\ row.status = "queued") ~>
        (row.status \in TERMINAL_STATUSES \/ faults > 0)

-----------------------------------------------------------------------------
(* The inductive invariant behind the safety properties above.             *)

BeforeClaim == {"requested", "pending_approval", "approved", "queued"}

\* A worker between its claim and its last write, and before its request.
InRun == {"claimed", "normalized", "leasing", "leased", "calling", "failing"}
Unsent == {"claimed", "normalized", "leasing", "leased"}

\* An execution that no worker claimed: nothing sent, nothing normalised.
UnclaimedIsUntouched ==
    /\ ~Created => row.status = "queued"
    /\ row.status \in BeforeClaim => /\ calls = 0
                                     /\ row.normalized_params = NoParams
                                     /\ \A w \in Workers : pc[w] \notin InRun

\* One worker at most is in its run, and it has sent nothing before it calls.
OneRunner ==
    /\ \A v, w \in Workers : pc[v] \in InRun /\ pc[w] \in InRun => v = w
    /\ \A w \in Workers : pc[w] \in Unsent => calls = 0
    /\ calls <= 1

\* What a thread's copy of the row still says, whatever the row says now.
CopiesAreKnown ==
    /\ pubPc \notin {"none", "done"} => pubMem.status = "queued"
    /\ \A w \in Workers :
        /\ pc[w] \in Unsent \cup {"calling"} => mem[w].status = "running"
        /\ pc[w] = "claimed" => mem[w].normalized_params = NoParams

\* What a protected run has passed stays recorded: approver, target, lease.
PassedStaysRecorded ==
    /\ kind = "restart" => row.approved_by_id # Requester
    /\ Protected =>
        /\ calls > 0 \/ (\E w \in Workers : pc[w] \in InRun)
               => row.approved_by_id \in Users
        /\ calls > 0 \/ (\E w \in Workers : pc[w] \in InRun \ {"claimed", "failing"})
               => row.normalized_params = snapshot
        /\ calls > 0 \/ (\E w \in Workers : pc[w] \in {"leased", "calling"})
               => Logged("DispatchLeaseIssued")

RunInvariant == /\ TypeOK
                /\ UnclaimedIsUntouched
                /\ OneRunner
                /\ CopiesAreKnown
                /\ StatusIsRebuilt
                /\ PassedStaysRecorded

\* Before create_execution no thread, job or sweep knows the execution.
BeforeRequest ==
    ~Created => /\ pubPc = "none"
                /\ published = 0 /\ deliveries = 0
                /\ expiryJob = "none" /\ sweeper = "idle"
                /\ \A w \in Workers : pc[w] = "idle"

\* The stream has passed no gate from the g-th on.
NoneFrom(g) ==
    \A i \in DOMAIN ledger, h \in DOMAIN Gates : ledger[i].name = Gates[h] => h < g

\* How far the gates can be, from the row's status and the runner's position.
GatesAhead ==
    /\ row.status = "pending_approval" => NoneFrom(1)
    /\ row.status = "queued" => NoneFrom(3)
    /\ \A w \in Workers : /\ pc[w] = "claimed" => NoneFrom(4)
                          /\ pc[w] \in {"normalized", "leasing"} => NoneFrom(5)

\* The columns that only a terminal event writes.
Clean(state) == state.error_code = "" /\ state.result = "none" /\ ~state.finished_at

\* A stream without a terminal event has a row, and every stream has writers'
\* copies, that no terminal event touched; nothing is published before queueing.
LiveIsClean ==
    /\ Closed => row.status \in TERMINAL_STATUSES
    /\ ~Closed => Clean(row)
    /\ ~Created \/ row.status = "pending_approval" =>
           pubPc = "none" /\ row.job_id = "none"
    /\ pubPc \in {"publishing", "recording", "failing"} =>
           Clean(pubMem) /\ pubMem.job_id = "none"
    /\ \A w \in Workers :
           pc[w] \in InRun /\ mem[w].status \notin TERMINAL_STATUSES => Clean(mem[w])

\* Without a fault a queued execution has a publisher, a job or a worker on its
\* way to the claim, and a running one has a runner that will record its end.
Carried ==
    faults = 0 =>
        /\ Created /\ row.status = "queued" =>
               \/ pubPc \in {"publishing", "failing"}
               \/ deliveries > 0
               \/ \E w \in Workers : pc[w] = "fetched"
        /\ row.status = "running" => \E w \in Workers : pc[w] \in InRun
        /\ \A w \in Workers : pc[w] = "failing" => mem[w].status = "running"

AccountInvariant == /\ BeforeRequest
                    /\ GatesInOrder /\ GatesAhead
                    /\ RowIsFolded /\ LiveIsClean
                    /\ Carried

-----------------------------------------------------------------------------
(* What the execution looks like from outside.                             *)

Phase == CASE ~Created                              -> "absent"
           [] Created /\ row.status = "queued"      -> "queued"
           [] Created /\ row.status = "running"     -> "running"
           [] Created /\ row.status \in TERMINAL_STATUSES -> "over"
           [] OTHER                                 -> "awaiting"

Ticket == IF calls > 0 THEN "used"
          ELSE IF \E w \in Workers : pc[w] \in Unsent THEN "held" ELSE "none"

Contract == INSTANCE ExecutionContract
                WITH guarded <- Protected, phase <- Phase, ticket <- Ticket

\* Whatever the interleaving, the redeliveries and the stale writes, the row's
\* status and the backend calls behave as ExecutionContract says: a protected
\* execution is queued only by a grant, one locked claim yields the only right
\* to call, a lost right is never handed out again, and a closed execution is
\* never reopened.
ImplementsContract == Contract!Spec

-----------------------------------------------------------------------------
(* Statements of the documentation that the code does not keep.            *)

\* docs/architecture.md:168 "terminal executions (`succeeded`, `failed`,
\* `cancelled`) do not transition": _enqueue_execution_job's except branch and
\* a worker holding a stale copy record a second terminal event.
TerminalIsFinal ==
    [][row.status \in TERMINAL_STATUSES => row'.status = row.status]_vars

\* docs/dispatch-lease.md:87 says that any mutable catalog drift fails before
\* lease issuance: the revalidation that precedes it accepts only a procedure
\* that matches the reviewed policy.
RevalidationSeesDrift ==
    [][\A w \in Workers : Protected /\ Normalize(w) => catalog = "reviewed"]_vars

=============================================================================
