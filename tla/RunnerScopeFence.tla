--------------------------- MODULE RunnerScopeFence --------------------------
(***************************************************************************)
(* The durable fence around one Gitea runner-token scope                   *)
(* (RPCGiteaRunnerScopeFence and the three functions of                    *)
(* application/command_handlers.py that move it).                          *)
(*                                                                         *)
(* Several executions compete for the scope: a register acquires the       *)
(* scope's reusable token and must have it reset; a reconcile cleans up    *)
(* after an interrupted one.  The remote work runs on the backend and      *)
(* outlives the worker that asked for it, so the fence may be taken over   *)
(* only after a quiescence window.  ExecutionLifecycle shows that each     *)
(* execution is claimed and dispatched at most once; here every execution  *)
(* has its one worker from the start.  Time is kept as ages.               *)
(***************************************************************************)
EXTENDS Naturals

CONSTANTS
    Executions,     \* the RPC executions on this scope
    NoExecution,    \* a null foreign key
    Lease,          \* validity of a dispatch lease
    Route,          \* ROUTE_BUDGET_SECONDS: how long accepted work may run
    Window,         \* RECONCILIATION_QUIESCENCE_SECONDS
    MaxFaults       \* bound on process deaths and aborted transactions

ASSUME NoExecutionAssumption == NoExecution \notin Executions
ASSUME TimingAssumption == /\ Lease \in Nat /\ Route \in Nat /\ Window \in Nat
                           /\ Lease + Route < Window
ASSUME FaultsAssumption == MaxFaults \in Nat

VARIABLES
    fence,       \* the committed RPCGiteaRunnerScopeFence row
    fenceAge,    \* time since its last_updated
    op,          \* each execution's operation
    snap,        \* each execution's approved fence snapshot
    status,      \* each execution's committed status
    pc,          \* where each execution's thread of control is
    leaseAge,    \* time since each execution's lease was issued
    remote,      \* what the backend does for each execution
    remoteAge,   \* time since the backend accepted it
    answer,      \* what a calling worker was told, by backend or transport
    exposed,     \* the scope's token was handed out and not reset since
    faults       \* history: process deaths and aborted transactions

scope == <<fence, fenceAge>>
clocks == <<leaseAge, remoteAge>>
backend == <<remote, exposed>>
vars == <<scope, op, snap, status, pc, clocks, backend, answer, faults>>

Operations == {"register", "reconcile"}
Terminal == {"succeeded", "failed"}

FenceRow == [state : {"clear", "pending", "blocked"},
             blocking : Executions \cup {NoExecution},
             reconciliation : Executions \cup {NoExecution},
             digest : {"unknown", "known"},
             generation : Nat]

\* What normalisation binds an approval to; generation is the one to reserve.
FenceSnapshot == [state : {"clear", "pending", "blocked"},
                  blocking : Executions \cup {NoExecution},
                  digest : {"unknown", "known"},
                  generation : Nat]

Answers == {"none", "no_token", "proven", "unproven", "unproven_digest"}

Init ==
    /\ fence = [state |-> "clear", blocking |-> NoExecution,
                reconciliation |-> NoExecution, digest |-> "unknown",
                generation |-> 0]
    /\ fenceAge = Window
    /\ op = [e \in Executions |-> "register"]
    /\ snap = [e \in Executions |-> [state |-> "clear", blocking |-> NoExecution,
                                     digest |-> "unknown", generation |-> 0]]
    /\ status = [e \in Executions |-> "open"]
    /\ pc = [e \in Executions |-> "none"]
    /\ leaseAge = [e \in Executions |-> Lease + 1]
    /\ remote = [e \in Executions |-> "none"]
    /\ remoteAge = [e \in Executions |-> Route]
    /\ answer = [e \in Executions |-> "none"]
    /\ exposed = FALSE
    /\ faults = 0

Goto(e, label) == pc' = [pc EXCEPT ![e] = label]

-----------------------------------------------------------------------------
(* Request, approval and preparation: unlocked reads of the fence.         *)

\* Variant of Quiescent: a terminal owner is enough.
QuiescentAtOnce ==
    /\ fence.blocking # NoExecution
    /\ \/ status[fence.blocking] \in Terminal
       \/ fence.state = "pending" /\ status[fence.blocking] = "running"

\* _gitea_runner_fence_is_quiescent.
Quiescent ==
    /\ fence.blocking # NoExecution
    /\ \/ status[fence.blocking] \in Terminal
       \/ fence.state = "pending" /\ status[fence.blocking] = "running"
    /\ fenceAge >= Window

\* The admission checks of the two normalisation functions.
Admits(operation) ==
    CASE operation = "register"  -> /\ fence.state = "clear"
                                    /\ fence.blocking = NoExecution
                                    /\ fence.reconciliation = NoExecution
      [] operation = "reconcile" -> /\ fence.state \in {"pending", "blocked"}
                                    /\ fence.blocking # NoExecution
                                    /\ fence.reconciliation = NoExecution
                                    /\ Quiescent

CurrentSnapshot == [state |-> fence.state, blocking |-> fence.blocking,
                    digest |-> fence.digest, generation |-> fence.generation + 1]

\* create_execution normalises the request and stores the approval snapshot.
Request(e) ==
    /\ pc[e] = "none"
    /\ \E operation \in Operations :
        /\ Admits(operation)
        /\ op' = [op EXCEPT ![e] = operation]
    /\ snap' = [snap EXCEPT ![e] = CurrentSnapshot]
    /\ Goto(e, "pending")
    /\ UNCHANGED <<scope, status, clocks, backend, answer, faults>>

\* approve_execution: the snapshot must still be what normalisation returns.
Approve(e) ==
    /\ pc[e] = "pending"
    /\ Admits(op[e]) /\ snap[e] = CurrentSnapshot
    /\ Goto(e, "queued")
    /\ UNCHANGED <<scope, op, snap, status, clocks, backend, answer, faults>>

\* The locked claim of a worker.
Claim(e) ==
    /\ pc[e] = "queued"
    /\ status' = [status EXCEPT ![e] = "running"]
    /\ Goto(e, "claimed")
    /\ UNCHANGED <<scope, op, snap, clocks, backend, answer, faults>>

\* _prepare_dispatch: normalise and compare once more, then issue the lease.
Prepare(e) ==
    /\ pc[e] = "claimed"
    /\ Admits(op[e]) /\ snap[e] = CurrentSnapshot
    /\ leaseAge' = [leaseAge EXCEPT ![e] = 0]
    /\ Goto(e, "leased")
    /\ UNCHANGED <<scope, op, snap, status, remoteAge, backend, answer, faults>>

-----------------------------------------------------------------------------
(* The three locked transitions of the fence.                              *)

Save(row) == fence' = row /\ fenceAge' = 0

\* Variant of SnapshotHolds: the reservation does not recheck the fence.
SnapshotTrusted(e) == TRUE

\* The comparison at the head of _reserve_gitea_runner_scope.
SnapshotHolds(e) == snap[e] = CurrentSnapshot

\* A register takes a clear fence.
ReserveStart(e) ==
    /\ pc[e] = "leased" /\ op[e] = "register"
    /\ SnapshotHolds(e)
    /\ fence.state = "clear" /\ fence.blocking = NoExecution
    /\ Save([fence EXCEPT !.state = "pending", !.blocking = e,
                          !.reconciliation = NoExecution, !.digest = "unknown",
                          !.generation = snap[e].generation])
    /\ Goto(e, "reserved")
    /\ UNCHANGED <<op, snap, status, clocks, backend, answer, faults>>

\* A reconcile takes over a quiescent fence.  A blocker still running behind a
\* pending fence has lost its worker: it is failed in the same transaction.
ReserveTakeover(e) ==
    /\ pc[e] = "leased" /\ op[e] = "reconcile"
    /\ SnapshotHolds(e)
    /\ fence.state \in {"pending", "blocked"}
    /\ fence.reconciliation = NoExecution
    /\ Quiescent
    /\ status' = IF fence.state = "pending" /\ status[fence.blocking] = "running"
                 THEN [status EXCEPT ![fence.blocking] = "failed"] ELSE status
    /\ Save([fence EXCEPT !.state = "blocked", !.reconciliation = e,
                          !.generation = snap[e].generation])
    /\ Goto(e, "reserved")
    /\ UNCHANGED <<op, snap, clocks, backend, answer, faults>>

\* Variant of Owns: ownership without the takeover generation.
OwnsAnyGeneration(e) ==
    CASE op[e] = "register"  -> /\ fence.blocking = e
                                /\ fence.reconciliation = NoExecution
      [] op[e] = "reconcile" -> fence.reconciliation = e

\* The generation and ownership checks shared by the two late transitions.
Owns(e) ==
    /\ fence.generation = snap[e].generation
    /\ CASE op[e] = "register"  -> /\ fence.blocking = e
                                   /\ fence.reconciliation = NoExecution
         [] op[e] = "reconcile" -> fence.reconciliation = e

\* Variant of Released: a failed reconciliation keeps its ownership.
ReleasedNever(e) == fence.reconciliation

\* reconciliation_execution after a reconciliation gave up.
Released(e) == IF op[e] = "reconcile" THEN NoExecution ELSE fence.reconciliation

\* clear_without_token or reset_proven.
Clears(e) == \/ op[e] = "register" /\ answer[e] = "no_token"
             \/ answer[e] = "proven"

\* The fence row that _record_gitea_runner_response saves.
AfterResponse(e) ==
    IF Clears(e)
    THEN [fence EXCEPT !.state = "clear", !.blocking = NoExecution,
                       !.reconciliation = NoExecution, !.digest = "unknown"]
    ELSE [fence EXCEPT !.state = "blocked", !.reconciliation = Released(e),
                       !.digest = IF answer[e] = "unproven_digest" THEN "known" ELSE @]

\* _record_gitea_runner_response: the fence and the terminal event together.
RecordResponse(e) ==
    /\ pc[e] = "calling" /\ answer[e] # "none"
    /\ Owns(e)
    /\ Save(AfterResponse(e))
    /\ \E result \in Terminal :
        /\ result = "succeeded" => answer[e] = "proven"
        /\ result = "failed" => answer[e] # "proven" \/ op[e] = "register"
        /\ status' = [status EXCEPT ![e] = result]
    /\ answer' = [answer EXCEPT ![e] = "none"]
    /\ Goto(e, "done")
    /\ UNCHANGED <<op, snap, clocks, backend, faults>>

\* The except branch records a failure next, unless its copy is terminal.
AfterBlock(e) == IF pc[e] = "failing" THEN "recording" ELSE "done"

\* _block_runner_scope_after_failure: block what is still owned, else nothing.
Block(e) ==
    /\ pc[e] \in {"failing", "unrecordable"}
    /\ IF Owns(e) THEN Save([fence EXCEPT !.state = "blocked",
                                          !.reconciliation = Released(e)])
                  ELSE UNCHANGED scope
    /\ Goto(e, AfterBlock(e))
    /\ UNCHANGED <<op, snap, status, clocks, backend, answer, faults>>

-----------------------------------------------------------------------------
(* The rest of run_execution.                                              *)

\* Anything raised before the reservation, a refused reservation included.
RaiseUnreserved(e) ==
    /\ pc[e] \in {"claimed", "leased"}
    /\ Goto(e, "recording")
    /\ UNCHANGED <<scope, op, snap, status, clocks, backend, answer, faults>>

\* Anything raised after it: a bad response, lost ownership, the job timeout.
RaiseReserved(e) ==
    /\ pc[e] \in {"reserved", "calling"}
    /\ answer' = [answer EXCEPT ![e] = "none"]
    /\ Goto(e, "failing")
    /\ UNCHANGED <<scope, op, snap, status, clocks, backend, faults>>

\* aggregate.fail on the worker's own copy, which still says running.
RecordFailure(e) ==
    /\ pc[e] = "recording"
    /\ status' = [status EXCEPT ![e] = "failed"]
    /\ Goto(e, "done")
    /\ UNCHANGED <<scope, op, snap, clocks, backend, answer, faults>>

\* _call_backend sends the request.
Send(e) ==
    /\ pc[e] = "reserved"
    /\ remote' = [remote EXCEPT ![e] = "sent"]
    /\ Goto(e, "calling")
    /\ UNCHANGED <<scope, op, snap, status, clocks, exposed, answer, faults>>

\* The connection is never made: a definite pre-token failure for a register.
ConnectTimeout(e) ==
    /\ pc[e] = "reserved"
    /\ answer' = [answer EXCEPT ![e] = IF op[e] = "register" THEN "no_token"
                                                            ELSE "unproven"]
    /\ Goto(e, "calling")
    /\ UNCHANGED <<scope, op, snap, status, clocks, backend, faults>>

\* Variant of TransportFails: every failure counts as one before the token.
TransportFailsEarly(e) ==
    /\ pc[e] = "calling" /\ answer[e] = "none"
    /\ answer' = [answer EXCEPT ![e] = "no_token"]
    /\ UNCHANGED <<scope, op, snap, status, pc, clocks, backend, faults>>

\* Any other transport failure: the outcome is indeterminate.
TransportFails(e) ==
    /\ pc[e] = "calling" /\ answer[e] = "none"
    /\ answer' = [answer EXCEPT ![e] = "unproven"]
    /\ UNCHANGED <<scope, op, snap, status, pc, clocks, backend, faults>>

-----------------------------------------------------------------------------
(* The backend (external): it accepts a request while its lease is valid,  *)
(* works on it for at most Route, and answers a worker that still waits.   *)

Reply(e, a) == answer' = IF pc[e] = "calling" /\ answer[e] = "none"
                         THEN [answer EXCEPT ![e] = a] ELSE answer

Accept(e) ==
    /\ remote[e] = "sent" /\ leaseAge[e] <= Lease
    /\ remote' = [remote EXCEPT ![e] = "working"]
    /\ remoteAge' = [remoteAge EXCEPT ![e] = 0]
    /\ UNCHANGED <<scope, op, snap, status, pc, leaseAge, exposed, answer, faults>>

RefuseLease(e) ==
    /\ remote[e] = "sent" /\ leaseAge[e] > Lease
    /\ remote' = [remote EXCEPT ![e] = "over"]
    /\ Reply(e, "unproven")
    /\ UNCHANGED <<scope, op, snap, status, pc, clocks, exposed, faults>>

\* A register obtains the scope's token.
AcquireToken(e) ==
    /\ remote[e] = "working" /\ op[e] = "register"
    /\ remote' = [remote EXCEPT ![e] = "token"]
    /\ exposed' = TRUE
    /\ UNCHANGED <<scope, op, snap, status, pc, clocks, answer, faults>>

\* A register that fails before it has the token.
GiveUp(e) ==
    /\ remote[e] = "working" /\ op[e] = "register"
    /\ remote' = [remote EXCEPT ![e] = "over"]
    /\ Reply(e, "no_token")
    /\ UNCHANGED <<scope, op, snap, status, pc, clocks, exposed, faults>>

\* The token is rotated: after a registration, or by a reconciliation.
Rotate(e) ==
    /\ remote[e] = IF op[e] = "register" THEN "token" ELSE "working"
    /\ remote' = [remote EXCEPT ![e] = "over"]
    /\ exposed' = FALSE
    /\ Reply(e, "proven")
    /\ UNCHANGED <<scope, op, snap, status, pc, clocks, faults>>

\* The rotation fails; a register may still report the token's digest.
RotateFails(e) ==
    /\ remote[e] = IF op[e] = "register" THEN "token" ELSE "working"
    /\ remote' = [remote EXCEPT ![e] = "over"]
    /\ \E a \in IF op[e] = "register" THEN {"unproven", "unproven_digest"}
                                      ELSE {"unproven"} : Reply(e, a)
    /\ UNCHANGED <<scope, op, snap, status, pc, clocks, exposed, faults>>

-----------------------------------------------------------------------------
(* Faults and time.                                                        *)

\* The worker process dies; the backend goes on.
WorkerDies(e) ==
    /\ pc[e] \in {"claimed", "leased", "reserved", "calling", "failing",
                  "unrecordable", "recording"}
    /\ faults < MaxFaults
    /\ faults' = faults + 1
    /\ answer' = [answer EXCEPT ![e] = "none"]
    /\ Goto(e, "done")
    /\ UNCHANGED <<scope, op, snap, status, clocks, backend>>

\* The transaction of RecordResponse is rolled back after the copy in memory
\* turned terminal: the aggregate.fail that follows will be refused.
RecordAborted(e) ==
    /\ pc[e] = "calling" /\ answer[e] # "none" /\ Owns(e)
    /\ faults < MaxFaults
    /\ faults' = faults + 1
    /\ answer' = [answer EXCEPT ![e] = "none"]
    /\ Goto(e, "unrecordable")
    /\ UNCHANGED <<scope, op, snap, status, clocks, backend>>

\* The transaction of Block is rolled back; its error is logged and dropped.
BlockAborted(e) ==
    /\ pc[e] \in {"failing", "unrecordable"} /\ Owns(e)
    /\ faults < MaxFaults
    /\ faults' = faults + 1
    /\ Goto(e, AfterBlock(e))
    /\ UNCHANGED <<scope, op, snap, status, clocks, backend, answer>>

Older(ages, limit) == [e \in Executions |-> IF ages[e] < limit THEN ages[e] + 1
                                                               ELSE ages[e]]

AtWork(e) == remote[e] \in {"working", "token"}

\* Accepted work ends within its budget, so time does not pass beyond it.
Tick ==
    /\ \A e \in Executions : AtWork(e) => remoteAge[e] < Route
    /\ leaseAge' = Older(leaseAge, Lease + 1)
    /\ remoteAge' = Older(remoteAge, Route)
    /\ fenceAge' = IF fenceAge < Window THEN fenceAge + 1 ELSE fenceAge
    /\ UNCHANGED <<fence, op, snap, status, pc, backend, answer, faults>>

-----------------------------------------------------------------------------
Decide(e) == Request(e) \/ Approve(e)

Run(e) == \/ Claim(e) \/ Prepare(e) \/ ReserveStart(e) \/ ReserveTakeover(e)
          \/ Send(e) \/ ConnectTimeout(e) \/ TransportFails(e)
          \/ RecordResponse(e) \/ Block(e)
          \/ RaiseUnreserved(e) \/ RaiseReserved(e) \/ RecordFailure(e)

Remote(e) == \/ Accept(e) \/ RefuseLease(e) \/ AcquireToken(e)
             \/ GiveUp(e) \/ Rotate(e) \/ RotateFails(e)

Fault(e) == WorkerDies(e) \/ RecordAborted(e) \/ BlockAborted(e)

Next == \/ \E e \in Executions : Decide(e) \/ Run(e) \/ Remote(e) \/ Fault(e)
        \/ Tick

Spec == Init /\ [][Next]_vars

-----------------------------------------------------------------------------
(* Properties.                                                             *)

Labels == {"none", "pending", "queued", "claimed", "leased", "reserved", "calling",
           "failing", "unrecordable", "recording", "done"}

\* Every variable stays in its range.
TypeOK ==
    /\ fence \in FenceRow
    /\ fenceAge \in 0..Window
    /\ op \in [Executions -> Operations]
    /\ snap \in [Executions -> FenceSnapshot]
    /\ status \in [Executions -> {"open", "running"} \cup Terminal]
    /\ pc \in [Executions -> Labels]
    /\ leaseAge \in [Executions -> 0..(Lease + 1)]
    /\ remote \in [Executions -> {"none", "sent", "working", "token", "over"}]
    /\ remoteAge \in [Executions -> 0..Route]
    /\ answer \in [Executions -> Answers]
    /\ exposed \in BOOLEAN
    /\ faults \in 0..MaxFaults

\* The backend never works on two requests of one scope at the same time,
\* although a takeover does not wait for an answer: the quiescence window
\* outlasts every lease plus the work accepted under it.
OneRemoteOperation ==
    \A e, f \in Executions : AtWork(e) /\ AtWork(f) => e = f

\* A clear fence means that the token is not exposed and that no request which
\* could still expose it is on its way, whoever cleared the fence and when.
ClearMeansReset ==
    fence.state = "clear" =>
        /\ ~exposed
        /\ \A e \in Executions :
            ~AtWork(e) /\ ~(remote[e] = "sent" /\ leaseAge[e] <= Lease)

\* The two CHECK constraints of the fence table hold after every save, so no
\* transition is lost to an IntegrityError.
RowConsistent ==
    /\ fence.state = "clear" <=> fence.blocking = NoExecution
    /\ fence.state = "clear" => fence.digest = "unknown"
    /\ fence.reconciliation # NoExecution => fence.state = "blocked"

Holding == {"reserved", "calling", "failing", "unrecordable"}

\* A worker that was overtaken (the generation moved past its reservation)
\* never touches the fence again, also after the reconciliation has failed.
OvertakenNeverWrites ==
    [][\A e \in Executions :
          /\ pc[e] \in Holding /\ snap[e].generation # fence.generation
          /\ pc'[e] # pc[e]
          => fence' = fence]_vars

\* Every reservation advances the generation by one and is the first to use it.
ReservesNextGeneration ==
    [][\A e \in Executions : pc[e] = "leased" /\ pc'[e] = "reserved" =>
          /\ fence'.generation = fence.generation + 1
          /\ \A f \in Executions : pc[f] \in Holding =>
                 snap[f].generation < fence'.generation]_vars

\* A fenced scope whose workers have all gone stays open to reconciliation once
\* the window has passed, unless a process died or a transaction was aborted.
StuckOnlyByFault ==
    /\ fence.state # "clear"
    /\ \A e \in Executions : pc[e] \notin Holding \cup {"recording"}
    => \/ /\ fence.reconciliation = NoExecution
          /\ status[fence.blocking] \in Terminal
       \/ faults > 0

-----------------------------------------------------------------------------
(* The inductive invariant behind the safety properties above.             *)

\* The execution has reserved the fence at some time.
Reserved(e) == pc[e] \in Holding \/ remote[e] # "none"

\* The backend works on e, or may still accept it.
Live(e) == \/ AtWork(e)
           \/ (pc[e] = "reserved" \/ remote[e] = "sent") /\ leaseAge[e] <= Lease

\* Nothing is sent before the reservation, only a calling worker has an answer,
\* and a final answer ends the remote work.
AnswersAreLate ==
    \A e \in Executions :
        /\ remote[e] # "none" => pc[e] \in {"calling", "failing", "unrecordable",
                                            "recording", "done"}
        /\ answer[e] # "none" => pc[e] = "calling"
        /\ answer[e] \in {"proven", "no_token"} => remote[e] \in {"none", "over"}

\* No two reservations share a generation, and none is ahead of the fence.
GenerationsDistinct ==
    \A e \in Executions : Reserved(e) =>
        /\ snap[e].generation <= fence.generation
        /\ \A f \in Executions :
               Reserved(f) /\ snap[f].generation = snap[e].generation => e = f

\* Live work belongs to the latest reservation, and the fence was saved at most
\* as long ago as the lease allows.
LiveIsLatest ==
    \A e \in Executions : Live(e) =>
        /\ fence.state # "clear"
        /\ snap[e].generation = fence.generation
        /\ fenceAge <= IF AtWork(e) THEN Lease + remoteAge[e] ELSE leaseAge[e]

\* An exposed token is fenced, and the latest reservation knows of it.
ExposedIsFenced ==
    exposed =>
        /\ fence.state # "clear"
        /\ \A e \in Executions :
            Reserved(e) /\ snap[e].generation = fence.generation =>
                /\ answer[e] # "proven"
                /\ op[e] = "register" => /\ remote[e] \in {"token", "over"}
                                         /\ answer[e] # "no_token"

FenceInvariant == /\ TypeOK
                  /\ RowConsistent
                  /\ AnswersAreLate
                  /\ GenerationsDistinct
                  /\ LiveIsLatest
                  /\ ExposedIsFenced

\* The execution has recorded an outcome or still will.
Settles(e) == \/ pc[e] \in Holding \cup {"recording"}
              \/ pc[e] = "done" /\ status[e] \in Terminal

\* Without faults somebody attends to a taken fence: its blocker settles, and a
\* reconciliation named in the row still owns the fence and has yet to save it.
Attended ==
    faults = 0 =>
        /\ \A e \in Executions : pc[e] # "unrecordable"
        /\ fence.state # "clear" => Settles(fence.blocking)
        /\ fence.reconciliation # NoExecution =>
               pc[fence.reconciliation] \in Holding /\ Owns(fence.reconciliation)
=============================================================================
