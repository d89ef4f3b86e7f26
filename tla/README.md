# A TLA+ model of netbox-rpc

netbox-rpc is a NetBox plugin that runs reviewed remote procedures. A request
becomes an *execution*; background workers send it to a backend service and
record the outcome. An execution's row is a projection of its append-only event
ledger. This directory holds TLA+ modules for the parts of the plugin in which
several threads, processes and services meet, the TLC configurations that check
them on small instances, and TLAPS proofs of their safety properties for every
value of the constants. Source paths below are relative to `netbox_rpc/`;
`docs/` and `README` are the repository's own.

## The system and what models it

| Part | Code | Modules |
| --- | --- | --- |
| Projection of the ledger and how it is written | `domain/projection.py`, `domain/events.py`, `event_store.py` | `ExecutionProjection` |
| One execution: create, approve, reject, cancel, publish, claim, dispatch, fail, expire | `application/command_handlers.py`, `domain/aggregate.py`, `event_store.py`, `jobs.py`, `system_jobs.py` | `ExecutionLifecycle`, which implements `ExecutionContract` |
| Statements of concurrent appends to one stream | `event_store.py` | `LedgerAppend`, which implements `AppendOnlyLedger` |
| The fence around a Gitea runner-token scope | `command_handlers.py`, `models.py`, `domain/normalization.py` | `RunnerScopeFence` |
| Admission: direct requests, intents, Samba provisioning, backend and job deadline | `command_handlers.py`, `jobs.py` | `ExecutionAdmission` |
| One backend call | `jobs.py`, `event_store.py` | `BackendTransport`, `BoundedRead`, `BackendResponse`, composed in `BackendAnswer` |
| Redaction and target snapshots | `event_store.py`, `domain/normalization.py` | `RedactText`, `RedactValue`, `TargetSnapshot` |
| Credential authority, lease, provider | `credential_authority.py`, `dispatch_lease.py` | `SecretResolution` |
| Capability manifest and its cache | `capabilities.py` | `CapabilityHandshake` |
| Signing key file | `dispatch_lease.py` | `SigningKeyFile` |
| Edits of protected procedure fields | `api/serializers.py`, `forms.py`, `current_access.py` | `ProcedureEdit` |
| Command rows and output variables | `models.py`, `command_templating.py` | `CommandChain`, in `CatalogueEditors` |
| Transport policy and driver chain | `domain/normalization.py`, `forms.py`, `rpc_settings` | `DriverChain`, in `CatalogueEditors` |
| Credential remap command | `management/commands/rpc_remap_credentials_to_openbao.py` | `CredentialRemap` |
| Catalogue migrations | `migrations/` | `CatalogueTables`, `CatalogueOps`, `CatalogueGraph`, `CatalogueMigrations` |
| Adoption of the publication pair | `migrations/0103_*`, `0104_*` | `PublicationPair`, under names of its own in `AdoptedPair` |

`PROJECT.json` maps each definition to the lines it models and lists the parts
that are modelled in part or not at all, with the reason.

How the parts meet. A request passes admission and creates an execution; the
lifecycle publishes and claims it; for the runner procedures the worker reserves
the fence in `_dispatch_to_backend`; the transport calls the backend and its
outcome is what `RecordResponse` of the lifecycle and of the fence receive;
recording it appends to the ledger. Each module takes from its neighbours the
interface they are shown to have: the lifecycle shows that an execution is
dispatched at most once, and the fence gives each execution one worker; the
ledger shows that a transaction appends all its events at the end or none, and
the lifecycle appends in one action; the transport shows which outcomes a call
can have, and the lifecycle and the fence choose among them.

### ExecutionProjection and ExecutionLifecycle

`Apply` is the reducer `apply`, one case per event class. `CommitChanged(row,
old, new)` is `_write_projection`: the writer's copy `old` becomes `new`, and
only the columns that differ are saved over the committed `row`. Every race
between writers goes through this operator. `error_message` and
`resolved_command_hash` move together with `error_code` and
`normalized_params` and have no column of their own; timestamps are null or set.

In the lifecycle one action is one transaction, one unlocked read or one call to
another service. A thread that writes later from memory has a copy of the row:
`pubMem` for the thread in `_enqueue_execution_job`, `mem[w]` for worker `w`.

| Actions | Code |
| --- | --- |
| `CreateQueued`, `CreatePending` | `create_execution`, `_persist_execution_request` |
| `Approve`, `Reject`, `Cancel` | `_approve_protected_execution`, `reject_execution`, `cancel_execution` |
| `PublishJob`, `PublishRefused`, `PublishRaisedLate`, `RecordEnqueueFailed`, `RecordEnqueued`, `ScheduleExpiry` | `_enqueue_execution_job`, `RPCExecutionJob.enqueue` |
| `Fetch`, `LoseClaim`, `RefuseClaim`, `StartClaim` | `RPCExecutionJob.run`, `_claim_if_procedure_enabled` |
| `FailPreflight`, `Normalize`, `ReadStreamVersion`, `IssueLease`, `SkipLease`, `CallBackend`, `RecordResponse` | `run_execution` and its stages |
| `Raise`, `RecordFailure`, `RecordAborted` | the `except` branch of `run_execution` |
| `RunExpiryJob`, `SelectCandidate`, `SweepCandidate` | the expiry job and the periodic sweep |
| `Redeliver`, `PublisherDies`, `WorkerDies`, `Tick` | RQ, process faults, the clock |
| `EditProcedure`, `MoveTarget`, `RevokeSuperuser` | administrators |

Procedures fall into three kinds: `ordinary`, `protected` (in
`PROTECTED_APPROVAL_PROCEDURE_NAMES`) and `restart` (the production RQ worker
restart, which is protected, needs a distinct approver and ages in the queue).
The catalogue is `reviewed`, `edited` (a policy field of the procedure row),
`recommanded` (its command rows) or `disabled`; the split is needed because the
check before the lease reads the row from the worker's cache and the commands
from the database. A target is what normalisation resolves to. The exception's
own error code is abstracted to `RPC_EXECUTION_FAILED`. `aggregate.expire` has no
caller and no action. The claim leaves out `_reject_invalid_gitea_org_claim`,
which fails an organisation-runner request for what its parameters are.

`ExecutionContract` is the lifecycle without events, copies, jobs and workers:
a guarded request waits for a grant, one claim yields one ticket, the ticket
sends one request or is lost, what is over stays over.

### LedgerAppend

The statements of `append_execution_event` (read the latest sequence, insert the
next in a savepoint, retry on a unique violation) and of `_append_and_project`.
A writer of `Locked` holds the execution row from the start
(`select_for_update`), one of `Unlocked` takes it when it projects or commits.
Inserts wait for uncommitted ones with the same key; `Victim` is the database's
answer to a wait cycle. The stream that readers see implements
`AppendOnlyLedger`.

### RunnerScopeFence

Several executions, each a `register` or a `reconcile`, compete for one scope.
`ReserveStart` and `ReserveTakeover` are the two branches of
`_reserve_gitea_runner_scope`, `RecordResponse` is
`_record_gitea_runner_response`, `Block` is `_block_gitea_runner_scope` as
called after a failure. Admission (`Admits`) and the approved snapshot
(`CurrentSnapshot`) come from normalisation. The backend (`Accept`,
`RefuseLease`, `AcquireToken`, `GiveUp`, `Rotate`, `RotateFails`) is external:
it accepts a request while the lease is valid, works for at most the route
budget, and its effect on the token is the variable `exposed`. Time is kept as
ages of the fence, the leases and the remote work.

`TimingAssumption` is `Lease + Route < Window`. For the register procedure the
code has a route budget of 300 s, leases of at most 900 s and a window of
1800 s. (`docs/architecture.md:333` still speaks of a 360-second window.) The
organisation-runner provision uses a route budget of 1740 s with the same
window and would not satisfy the assumption with the default 120 s lease; the
code never starts it today (`_reject_invalid_gitea_org_claim`), and it should
be reconsidered before it is activated.

### ExecutionAdmission

One request thread per direct POST or intent runs the creation path once for
each procedure of its plan: `Start`, `LoadProcedure`, `ReadSettings`,
`PrepareAuthorization`, `ValidatePayload`, `VerifyCapability`, `LockProvision`,
`CheckProvision`, `PersistRequest`, `PublishJob`. `Lose` kills a thread,
`Advance` moves a committed execution, `Edit` is an operator at the settings,
backend, procedure, grant or target rows. A parameter mapping is its password
and its timeout stamp; the validators of single procedures are one accept or
refuse fact. Two refusals that write nothing are left out, so that more requests
go on than in the code: that of a protected procedure whose row left its
reviewed policy (`_require_protected_procedure_policy`), and that of an intent
that is disabled or has an empty plan.

### One backend call, redaction and snapshots

`BackendTransport` is `_call_backend` for each transport kind: `Arm` sets the
wall clock over the RQ death penalty (SIGALRM has one timer), `Post`,
`ClassifyHttp`, `Read` and `Normalize` are the exchange with each failure and
each defect of a body, `Leave` restores the alarm. `BoundedRead` is
`_read_bounded_json_response`, a byte at a time against a declared length, the
limit and the deadline. `BackendResponse` is `record_backend_response`: the
envelope against the contract, the raw result against the schema without its
wide limits, the stored result against the schema, then progress events and one
terminal event in one transaction. A result object is one string field and its
own `ok`; a schema is its `maxLength` and pattern.

`RedactText` is `_redact_bounded`: passes to a fixed point that carry *pieces*
(which characters of the original are left and where), then the masks of the
YAML rules. What the expressions match is left open: a pass may redact any
spans. `RedactValue` stores a structured value, reads it back with its names in
another order and stores it again. Validated public credential metadata is kept
under its own names only, and `wide` is the set of paths with a limit of their
own (`string_limits`). A stored form is stable, with the exception that the
docstring of `_ledger_result` names (`event_store.py:1434`): when a wide path
passes a secret-bearing name, the name becomes a placeholder, the path is no
longer found, and a second recording cuts texts at the default limit.
`StoredFormIsStable` states both. The paths of normalised parameters, which the
approval and lease checks record again, pass no such name; those of a result
schema may, and a result is recorded once.
`TargetSnapshot` copies the fields of an object under one budget and bounds the
redacted copy again; a value cut at the depth or text limit is replaced in place
and is not marked `_truncated`, as in the code. Its fields are those left after
the code skips `custom_field_data` and names with a leading underscore, and a
scalar that is no string is a text without a secret.

### Authority

`SecretResolution` freezes the authority at admission (`Snapshot`, `Insert`),
passes the guards of the worker (`Claim`, `BackendGuard`, `Normalize`,
`DispatchReady`), issues a lease in the three steps of `_issue_dispatch_lease`
(`ReadVersion`, `Sign`, `RecordLease`) and lets providers resolve with it
(`Validate` to `Commit`) while rows are edited, users deactivated, permissions
revoked and keys rotated. `ledger` is the whole ledger of the execution. The
request that published the job appends to it too: `JobEnqueued` or
`EnqueueFailed` may fall between any two events of the worker. One that falls
between the read of the version and the issuance makes the lease unusable, as
does one after it: `_issuance_event` asks that the issuance is the last event,
directly after `ParametersNormalized`, with the sequence that the lease names.
`ApprovalHolds` is wider than `_current_approval`, which also compares the
approval snapshot and the reviewed policy: it lets more through, so what is
shown holds of the code. The provider is external: its steps are the protocol of
`docs/credential-authority.md` over the functions of the module.
`CapabilityHandshake` has overlapping calls that read the manifest cache or go
past it; `lastAt[m]` is when the backend last advertised `m`. `SigningKeyFile`
is `_secure_read_signing_key_file` against renames, writes, truncation and mode
changes; it assumes that the kernel's time stamps change with every change of a
file.

### ProcedureEdit, CommandChain, DriverChain, CredentialRemap

`ProcedureEdit` has the REST serializer, its bulk and If-Match forms and the
admin form, over four protected fields, one for each kind of rule (the other
thirteen repeat one of them), and a field that is not protected. An edit validates,
takes the scope lock, locks and rereads its rows, writes, compares its editor's
approve scope before and after, and commits. Approve scope is taken relative to
the grants read under the locks: `ChangeGrants` is another administrator.

`CommandChain`: `Clean` validates a row against its siblings, `Store` saves it
later, `Delete` removes one; nothing locks the rows in between. Two overlapping
saves can therefore leave a reference unresolved or an output ambiguous;
`SaveResolves` speaks of a save that still finds the commands it was validated
against. `DriverChain` has forms and `rpc_settings`, which load, change and save
the settings row as a whole, against a normalisation that reads it once.
`CredentialRemap` is the command with its cursor, its writes that commit one by
one, `Kill`, reruns with and without `--dry-run`, and administrators. The
uniqueness that `full_clean()` enforces there is that of netbox-openbao and is
external. The forecast of a dry run is compared for runs in which no creation is
refused and nobody interfered.

### The catalogue

`CatalogueTables` holds the procedures the data migrations ship, with their
effect; `CatalogueOps` the idioms by which migrations change a row
(update_or_create, create or refuse, compare then accept, filter().update(),
filter().delete()), one operator each; `CatalogueGraph` one definition per
migration file with its dependencies, `run_before` edges, and lists of forward
and reverse operations. `CatalogueMigrations` applies and reverses them in every
order the graph allows, one transaction each, while an operator creates, edits,
toggles, runs or deletes the watched rows. Column types, schemas and texts are
abstracted, and reversing `0001` (uninstalling) is left out. Deletion
through a historical model fails only for rows with executions here; the
`ValueError` that the docstring of `0068` describes depends on other
installed apps.
`PublicationPair` is the chain of six migrations around `0103`/`0104` that
adopts the pair from whatever an earlier history left.

## Model-checking runs

Every passing run completes its state space. Several runs hold components that
share no variable: the variable `part` picks one in the initial state, only its
actions run, and the others rest in one of their initial states. That covers
the same behaviours of each component as a run of its own.

| Run | Instance | Properties |
| --- | --- | --- |
| `lifecycle_ordinary` | ordinary and restart, 2 workers, 2 deliveries, queue age 1, 1 fault, `FairSpec` | `RebuildAgrees`, `ImplementsContract`, `QueueDrains` |
| `lifecycle_protected` | protected and restart, 2 users (the requester a superuser), 2 targets, 2 workers, 2 deliveries, 1 fault | `RunInvariant`, `DispatchesWhatWasApproved`, `AccountedFor`, `ImplementsContract` |
| `scope_fence` | 3 executions, lease 1, route 1, window 3, 1 fault | `FenceInvariant`, `OneRemoteOperation`, `ClearMeansReset`, `StuckOnlyByFault`, `OvertakenNeverWrites` |
| `ledger` | 1 locking and 3 other writers of 1 or 2 events, 3 attempts, crashes | `LedgerInvariant`, `AbortsForAReason`, `EveryAppendEnds`, `ImplementsLedger` |
| `requests` | an intent of two procedures against a direct provision, 1 lost thread; 4 edits of 2 rows by 2 users, 1 change of grants | `OneOpenProvision`, `PublishedInOrder`, `NoSelfGain`, `ProtectedFieldsKept`, `EveryCallEnds` |
| `drift` | an intent with a protected child and 3 operator edits; 2 editors of 2 command rows; a form and `rpc_settings` against runs; 2 allowlist rows, 1 credential, 2 objects | `UsedAsChecked`, `RunsOnOnePolicy`, `RemapIsRepeatable`, `SaveResolves` |
| `answer` | every transport kind, budget 2, death penalty up to 4; bodies up to 5 bytes with a limit of 3; every contract with lengths around the limits; texts up to 5 characters; values, paths with a wider limit and objects around each limit | `OutcomeIsTrue`, `LeavesClean`, `WholeOrNothing`, `RecordedAsJudged`, `RedactedExactly`, `SnapshotIsAccounted`, `EveryReadEnds` |
| `catalogue` | all 129 migrations: upgrades, rollbacks and 2 operator changes for 1 row of each way of seeding and reversing, upgrades with 1 change for 1 row of each treatment; each legacy form of the pair, 3 edits | `LitForAReason`, `HeadIsOne`, `KeptByMigrations`, `AdoptsOnlyExact`, `EveryUpgradeCompletes` |
| `authority` | 2 resolutions, lifetimes 1 and 3 around the limit 2, clock up to 2, 1 edit, the publisher's event anywhere; 2 overlapping checks, 2 manifests; 2 inodes, files up to the limit of 2 blocks and beyond, 2 changes | `ResolutionIsSafe`, `HandshakeIsCurrent`, `KeyFileInv` |

What they show:

- *Lifecycle.* An execution is dispatched at most once, protected ones only with
  a recorded approver, the approved target and an audited lease; the gates are
  recorded in order; the row is the rebuild of its ledger while that has one
  terminal event, its status always; an execution is left open only by a fault;
  a terminal row never becomes live again.
- *Fence.* The backend never works for two executions of a scope; a clear fence
  means a reset token; an overtaken worker never writes; a fenced scope nobody
  holds can be reconciled unless a process died.
- *Ledger.* Sequences are dense; an append gives up only after as many other
  commits as it had attempts; a deadlock joins a locking and a non-locking
  writer.
- *Requests.* One open provision per target; the children of an intent are a
  prefix of its plan; no edit widens its own editor's approve scope or weakens
  what they could not approve.
- *Drift.* The token goes only to the reviewed URL, the job deadline is that of
  the stamp, children do not share parameters; a run uses one policy; a save
  leaves the references of its procedure resolved; the remap creates nothing
  twice.
- *Answer.* No failure is called certain once the request may have arrived; the
  death penalty is restored; a body is kept whole or not at all; a success is
  recorded only as claimed and within the schema; redaction is a fixed point
  that masks exactly the spans; a snapshot counts what it keeps.
- *Catalogue.* A row is enabled only because the operator or an applied migration
  enabled it; no migration destroys history or an operator's row; every order
  leads to one head; upgrades complete unless the operator touched what a
  migration refuses.
- *Authority.* A credential leaves the provider only under frozen, approved
  authority, while the execution runs and its lease is the last event, and never
  late; a manifest is not used past its lifetime; a key is
  one version of a trusted file.

### Bounds

Two deliveries and two workers give every race of a duplicate delivery. Two
targets and four catalogue states let approved and current values differ. One
fault is enough for each single-fault hazard; combinations of two faults are not
explored by TLC (the proofs cover them). Three executions of the fence are an
original, a reconciliation that takes over and one that comes after; the window
of 3 is the shortest that satisfies the timing assumption. Three other ledger
writers can exhaust three attempts. Limits of sizes are small and inputs lie
below, at and above each. Two operator changes are an edit and its undoing; the
catalogue's rows are independent of each other but for links, so one row of each
treatment (the operations that name it) stands for all. Workers, executions,
providers and calls are symmetry sets, never under a liveness property.

### Fairness and deadlock

- `lifecycle_ordinary`: the request thread goes on after its commit, workers go
  on and RQ hands a waiting job to an idle one, the clock advances, NetBox runs
  the periodic sweep (`system_jobs.py`). Administrators, users, faults and the
  scheduled expiry job get none: the code swallows errors of that scheduling.
- `ledger`: weak fairness of each writer's statements; PostgreSQL resolves wait
  cycles and lets waiting statements go on. Crashes get none.
- `requests`: weak fairness of each request thread and each edit.
- `answer`: weak fairness of the reading loop, which the deadline bounds; the
  peer gets none.
- `catalogue`: `migrate` goes on with a migration that accepts what it finds.

Weak fairness is enough: no thread is disabled again and again by others.
Deadlock is checked in the lifecycle and fence runs. The other components end
(all requests answered, all transactions over, all migrations applied), so their
configurations switch the check off; that nothing waits for ever is the liveness
property of the run.

### Statements of the repository that the code does not keep

Three runs check one such statement each, and TLC finds a behaviour of the code
that violates it.

| Run | Statement | Behaviour |
| --- | --- | --- |
| `v_terminal_is_final` | terminal executions do not transition (`docs/architecture.md:168`) | `RPCExecutionJob.enqueue` raises after the job reached RQ; the `except` branch fails an execution that is already finished or cancelled |
| `v_lease_policy` | catalogue drift fails before the lease (`docs/dispatch-lease.md:87`) | the procedure row is edited after the claim; the check reads the cached object |
| `v_pair_connect_timeout` | a failure of the publication pair returns a fixed envelope (`jobs.py:1181`) | a connect timeout raises `KeyError`; the procedures are behind a code gate today |

The modules follow the code in these further places, where a text says something
else; no run of its own checks them.

| Code | Statement | What the model does, as the code |
| --- | --- | --- |
| `event_store.py:968` | the rebuild oracle reproduces the row for every path (`docs/architecture.md:405`) | after the race of `v_terminal_is_final` a succeeded row keeps `RPC_ENQUEUE_FAILED`; `RowIsFolded` states what holds |
| `command_handlers.py:2444` | approver and requester are distinct (`docs/architecture.md:274, 289`) | superusers approve their own requests, except for the restart |
| `domain/aggregate.py:145` | only queued executions are cancelled (`docs/architecture.md:170, 250`) | `pending_approval` is cancelled too |
| `command_handlers.py:2367` | the lease names the latest pre-lease event (`command_handlers.py:2308`) | `JobEnqueued` may be appended between the read and the lease event |
| `command_handlers.py:2658` | a sequential intent validates before it writes (`docs/intents.md:91`) | children are published in order, nothing chains their dispatch |
| `migrations/0091_*:316` | forward, reverse, forward accepts the row that is still there (`migrations/0098_*:243`) | 0091, 0092, 0093, 0096 and 0103_seed refuse their own disabled rows |
| `migrations/0068_*:154` | reversal deletes the seed when it has no executions (`README:207`) | reversal disables the row in every case, as the docstring of 0068 says |
| `migrations/0003_*:84` | an intent does not run a destructive child by itself (`README:588`) | `service.nginx.1.rollback` is destructive, enabled and needs no approval |
| `migrations/0103_adopt_enabled_*:56` | the publication pair is disabled by default (`README:409`) | reversing a fresh installation to 0102 enables both rows |
| `migrations/0103_adopt_enabled_*:14` | the exact predecessor rows are adopted (`migrations/0103_adopt_protected_*:1`) | the first migration of the chain refuses disabled unmarked rows |
| `models.py:673` | an edit that orphans a consumer is rejected (`docs/command-templating.md:69`) | moving a producer to another procedure is accepted |
| `command_templating.py:366` | `produces_var` is unique in its procedure (`models.py:522`) | two overlapping saves are both accepted |
| `rpc_remap_credentials_to_openbao.py:182` | a row is set only while it is unset (the same file, line 40) | the row is tested when the cursor reads it and saved later |
| `domain/normalization.py:876` | pinned procedures keep an identical payload (`docs/transport-and-parsing-selection.md:51`) | Ansible connection settings are added to pinned ones too |
| `domain/normalization.py:830` | clearing the default chains restores the raw driver (`models.py:1517`) | a procedure whose own driver is Ansible has nothing to fall back to |
| `rpc_settings.py:137` | the command toggles `enabled` and the backend (line 34) | it saves every column of the row it loaded |

The catalogue modules agree with what the documentation says of 0060 and 0061
(`README:147`), 0075 (`README:1531`), 0091 (`docs/gitea-user-ci-runner-recovery.md:67`)
and the IAM migration (`docs/iam-ui-control.md:30`).

## Proofs

Eight modules hold the proofs. They hold for every value of the constants, from
the `ASSUME`s of the modules (which TLC evaluates in the runs) and from the few
hypotheses that a theorem states itself: components that a run reaches through
INSTANCE have no `ASSUME` of their own, so what they need of their constants is
in the statement. All safety properties of the passing runs are proved but for
the ones listed at the end.

| Module | Theorems that state a property of a run | Others |
| --- | --- | --- |
| `ExecutionLifecycle_proofs` | `RunInvariantHolds`, `ApprovedDispatch`, `AccountedForHolds`, `ImplementsContractHolds` | `TypeCorrect`, `DispatchedOnce`, `StatusRebuilds`, `TerminalStaysTerminal`, `AccountInvariantHolds` |
| `RunnerScopeFence_proofs` | `FenceInvariantHolds`, `RemoteWorkIsExclusive`, `ClearIsSafe`, `StuckOnlyByFaultHolds`, `OvertakenIsHarmless` | `ConstraintsHold`, `GenerationsAdvance` |
| `LedgerAppend_proofs` | `InvariantHolds`, `AbortsForAReasonHolds`, `ImplementsLedgerHolds` | `DenseHolds`, `OneInFlightHolds`, `DeadlockIsMixedHolds` |
| `ExecutionAdmission_proofs` | `OneOpenProvisionHolds`, `PublishedInOrderHolds`, `UsedAsCheckedHolds` | |
| `Boundary_proofs` | `OutcomeIsTrueHolds`, `LeavesCleanHolds`, `WholeOrNothingHolds`, `RecordedAsJudgedHolds`, `NoSelfGainHolds`, `ProtectedFieldsKeptHolds` | |
| `Drift_proofs` | `RunsOnOnePolicyHolds`, `SaveResolvesHolds` | `RemapIsRepeatableHolds` |
| `Authority_proofs` | `ResolutionIsSafeHolds`, `HandshakeIsCurrentHolds`, `KeyFileInvHolds` | one theorem for each conjunct |
| `Catalogue_proofs` | `LitForAReasonHolds`, `KeptByMigrationsHolds`, `AdoptsOnlyExactHolds` | `CatalogueInvariantHolds`, `PairIsWholeHolds` |

`RemapIsRepeatableHolds` is about `CredentialRemap` itself; the property of the
run `drift` is the same formula of an instance of that module.

### The arguments

*Lifecycle.* `calls <= 1` is not inductive: a second worker could be about to
call. `RunInvariant` adds that at most one worker is between its claim and its
last write (`OneRunner`), that nothing was sent or normalised before the claim
(`UnclaimedIsUntouched`), what the stale copies still say whatever the row says
(`CopiesAreKnown`), that row and ledger agree on the status, and that the gates
a protected run has passed stay recorded (`PassedStaysRecorded`). Knowing the
copies matters most: a publisher's copy says `queued` and a worker's says
`running`, so a late write either leaves the status column alone or makes it
terminal. Most steps fall into three classes with one lemma each: *calm* steps
(the status stays or turns terminal), *opening* steps (before any claim) and the
steps of a running worker. The refinement uses the same classes: calm steps are
`Close`, `Drop` or a stutter of the contract, opening ones `Request` or `Grant`,
`StartClaim` is `Claim` and `CallBackend` is `Send`. `AccountInvariant` adds how
far the gates can be for each status and runner (`GatesAhead`), which columns no
terminal event has touched in row and copies (`LiveIsClean`), and who still
carries an open execution (`Carried`).

*Fence.* Exclusion rests on time, not on a lock held during the remote work.
`LiveIsLatest` says that work the backend does, or may still accept, belongs to
the latest generation, and that the fence was saved no longer ago than the lease
and the work allow. With `Lease + Route < Window` a quiescent fence therefore
has no live work, and a takeover is safe. `GenerationsDistinct` makes the
generation identify a reservation, which silences overtaken workers;
`ExposedIsFenced` says that an exposed token is fenced and that no clearing
answer is pending for the latest reservation. For `StuckOnlyByFault`, `Attended`
says which worker will still release the fence or finish its execution.

*Ledger.* `LedgerInvariant` says what each writer has read, inserted and locked;
it makes the unique index an exclusion of uncommitted events, from which density
and the refinement follow. `RacesCounted` counts, for each attempt a writer
lost, a different transaction that committed.

*Admission.* `AdmissionInvariant` is the type invariant, what each thread knows
at its step (`ThreadKnows`: its place in the plan, its parameters, the target it
checked, its lock, the execution to publish) and the invariants of the committed
executions. One provision is open because the check and the insert happen under
the lock of the target, and committed executions only move towards their end.

*Boundary.* `CallInvariant` adds to the properties of a call the order of its
stages (`InOrder`), what the one timer stands for under each handler
(`ClockIsExact`) and how a call can have ended (`EndsInTime`). `ReadInvariant`
(hypothesis `Sizes`: the limits are numbers) counts bytes; `JudgeInvariant`
(hypothesis `AnswersAreTyped`) says what is known after each pass of the schema.
`EditInvariant` is `EditTypeOK` and `EditKnows`: what an edit read under its
locks is still stored while it holds them.

*Drift.* `PolicyInvariant` (hypothesis `ChainsAreChains`): stored rows and the
copies of the editors are clean rows, and a run's chain and context are of the
row it read. `ChainInvariant`: pending rows were accepted against some state of
their siblings; the step that stores one is then compared with the state it
finds. `RemapInvariant` is `Types`, `Once` (at most one assignment created for
a credential) and `Predicted` (the rows left to visit get what the forecast
says), for `RowsAreApart`: the allowlists are two tables. `UnsetIsNoName` keeps
Python's `None` apart from values.

*Authority.* `Inv` of a resolution adds to the two statements about revealing
the shape of records (`Shape`), which guards each stage has behind it and that
an execution which waits or runs has no terminal event (`Progress`), and what a
read in progress has seen (`Reads`). `HandshakeInv`
bounds the age of what calls hold and the cache stores by `lastAt`. `KeyFileInv`
says that what has been read is a prefix of the version the reader opened, as
long as the metadata it compares is unchanged.

*Catalogue.* `CatalogueInvariant` says that the applied migrations are closed
under dependencies (`Closed`) and, for each watched row, what its existence,
executions, owner and enabled column may be given the operator's choices and the
applied migrations (`RowInvariant`). The proof goes from single operations to
lists of them: a lemma for each kind of outcome, one for a migration that names
a row once or twice, and one for each direction of a migration. What the graph
and the tables contain enters through closed assumptions of
`CatalogueMigrations` (`GraphAssumption`, `ListsAssumption`, `LightAssumption`,
`EnvFileAssumption`, `KeepAssumption`): finite facts about the 129 migrations
that have no parameters, so that TLC's evaluation decides them. The theorems are
therefore about this migration graph, with any watched rows, any number of
changes and every order. `PairIsWhole` is inductive by itself (hypothesis
`PairsAreRows`).

### Only model-checked

- Liveness: `QueueDrains`, `EveryAppendEnds`, `EveryCallEnds`, `EveryReadEnds`,
  `EveryUpgradeCompletes`. The provers do no reasoning about fairness.
- `RedactedExactly`, `SnapshotIsAccounted`: recursion over texts and trees.
- `RebuildAgrees`: its part `AccountedFor` is proved; that the fold kept event by
  event equals the fold of the whole ledger is an induction over a sequence.
- `HeadIsOne`: that every order leads to the same catalogue depends on what each
  of the 129 migrations writes to each row; the part about the pair is proved.

## What is not modelled

- Normalisers and admission validators of single procedures, fixed contracts,
  schemas, OpenBao ingress patterns and template syntax: they hold no state and
  check texts and fields against constant tables. Their outcome, accept or
  refuse, is an input of the models.
- What the redaction expressions match; `RedactText` allows any spans.
- Canonical bytes, hashes and signatures of leases and snapshots: values are
  compared, not computed.
- Resolution of the backend from its static configuration, health probes, queue
  selection, lists, filters, tables and pages: they only read.
- `JS_SAFE_INTEGER_MAX` on the fence generation, column types, message texts.
- Combinations of components: the modules meet at the interfaces described
  above and are not run together.
