------------------------- MODULE ExecutionProjection -------------------------
(***************************************************************************)
(* The read model of one RPC execution (netbox_rpc/domain/projection.py)   *)
(* and the way event_store.py writes it.                                   *)
(*                                                                         *)
(* An RPCExecution row is the fold of its append-only event ledger.  Every *)
(* writer holds a private in-memory copy of the row, applies the event to  *)
(* that copy, and saves only the columns in which the copy changed.        *)
(* CommitChanged is that write: a column that the event leaves equal in    *)
(* the writer's copy keeps the value another transaction committed.        *)
(***************************************************************************)
EXTENDS Naturals, Sequences

CONSTANTS
    Users,      \* account ids that may request or decide
    NoUser,     \* a null approved_by_id
    Targets     \* the distinct values normalisation may resolve to

ASSUME NoUserAssumption == NoUser \notin Users
ASSUME TargetsAssumption == Targets \subseteq Nat \ {0}

Statuses == {"requested", "pending_approval", "approved", "queued", "running",
             "succeeded", "failed", "cancelled", "rejected", "expired"}

TERMINAL_STATUSES == {"succeeded", "failed", "cancelled", "rejected", "expired"}

\* Error codes, one per failure the lifecycle tells apart.
ErrorCodes == {"", "RPC_ENQUEUE_FAILED", "RPC_PROCEDURE_DISABLED",
               "RPC_CONTROL_QUEUE_STALE", "RPC_APPROVAL_INVALIDATED",
               "RPC_APPROVAL_REQUIRED", "RPC_INTEGRATION_DISABLED",
               "RPC_BACKEND_BINDING_INVALID", "RPC_EXECUTION_FAILED",
               "BACKEND_CODE"}

Results == {"none", "data"}
NoParams == 0
Jobs == {"none", "job"}

EventNames == {"ExecutionRequested", "ApprovalRequested", "ExecutionApproved",
               "ExecutionRejected", "ExecutionExpired", "ExecutionQueued",
               "ExecutionStarted", "ParametersNormalized", "JobEnqueued",
               "DispatchLeaseIssued", "BackendEventRecorded", "ExecutionSucceeded",
               "ExecutionFailed", "ExecutionEnqueueFailed", "ExecutionCancelled"}

\* One ledger event: its name and the payload that some reader tells apart.
DomainEvent == [name : EventNames, by : Users \cup {NoUser}, code : ErrorCodes,
                result : Results, params : Targets \cup {NoParams}, version : Nat]

Event(name) == [name |-> name, by |-> NoUser, code |-> "", result |-> "none",
                params |-> NoParams, version |-> 0]

\* The projected columns.  error_message and resolved_command_hash move with
\* error_code and normalized_params; a timestamp is only null or set.
ProjectionState == [status : Statuses, started_at : BOOLEAN, finished_at : BOOLEAN,
                    error_code : ErrorCodes, result : Results,
                    normalized_params : Targets \cup {NoParams}, job_id : Jobs,
                    approved_by_id : Users \cup {NoUser}]

InitialState == [status |-> "queued", started_at |-> FALSE, finished_at |-> FALSE,
                 error_code |-> "", result |-> "none", normalized_params |-> NoParams,
                 job_id |-> "none", approved_by_id |-> NoUser]

\* A terminal transition that clears the error columns.
Finish(state, status) == [state EXCEPT !.status = status, !.error_code = "",
                                       !.finished_at = TRUE]

\* A failure keeps the writer's result column unless the event carries one.
FailWith(state, code) == [state EXCEPT !.status = "failed", !.error_code = code,
                                       !.finished_at = TRUE]

\* The reducer, one case per event class.
Apply(state, e) ==
    CASE e.name = "ExecutionRequested"     -> [state EXCEPT !.status = "requested"]
      [] e.name = "ApprovalRequested"      -> [state EXCEPT !.status = "pending_approval"]
      [] e.name = "ExecutionApproved"      -> [state EXCEPT !.status = "approved",
                                                            !.approved_by_id = e.by]
      [] e.name = "ExecutionRejected"      -> Finish(state, "rejected")
      [] e.name = "ExecutionExpired"       -> Finish(state, "expired")
      [] e.name = "ExecutionQueued"        -> [state EXCEPT !.status = "queued"]
      [] e.name = "ExecutionStarted"       -> [state EXCEPT !.status = "running",
                                                            !.started_at = TRUE]
      [] e.name = "ParametersNormalized"   -> [state EXCEPT !.normalized_params = e.params]
      [] e.name = "JobEnqueued"            -> [state EXCEPT !.job_id = "job"]
      [] e.name = "ExecutionSucceeded"     -> [Finish(state, "succeeded")
                                                  EXCEPT !.result = e.result]
      [] e.name = "ExecutionFailed"        -> [FailWith(state, e.code)
                                                  EXCEPT !.result = e.result]
      [] e.name = "ExecutionEnqueueFailed" -> FailWith(state, e.code)
      [] e.name = "ExecutionCancelled"     -> Finish(state, "cancelled")
      [] OTHER                             -> state

Kept(committed, old, new) == IF new # old THEN new ELSE committed

\* Variant of CommitChanged: save() writes every column of the writer's copy.
CommitAll(row, old, new) == new

\* save(update_fields = the columns in which the writer's copy changed).
CommitChanged(row, old, new) ==
    [status            |-> Kept(row.status, old.status, new.status),
     started_at        |-> Kept(row.started_at, old.started_at, new.started_at),
     finished_at       |-> Kept(row.finished_at, old.finished_at, new.finished_at),
     error_code        |-> Kept(row.error_code, old.error_code, new.error_code),
     result            |-> Kept(row.result, old.result, new.result),
     normalized_params |-> Kept(row.normalized_params, old.normalized_params,
                                new.normalized_params),
     job_id            |-> Kept(row.job_id, old.job_id, new.job_id),
     approved_by_id    |-> Kept(row.approved_by_id, old.approved_by_id,
                                new.approved_by_id)]
=============================================================================
