---------------------- MODULE ExecutionLifecycle_proofs ----------------------
(***************************************************************************)
(* Machine-checked proofs about ExecutionLifecycle, for any number of      *)
(* users, workers, deliveries, targets and faults.                         *)
(***************************************************************************)
EXTENDS ExecutionLifecycle, TLAPS

-----------------------------------------------------------------------------
(* What the reducer and the column-wise write do.                          *)

StatusAfter(name, old) ==
    CASE name = "ExecutionRequested"     -> "requested"
      [] name = "ApprovalRequested"      -> "pending_approval"
      [] name = "ExecutionApproved"      -> "approved"
      [] name = "ExecutionRejected"      -> "rejected"
      [] name = "ExecutionExpired"       -> "expired"
      [] name = "ExecutionQueued"        -> "queued"
      [] name = "ExecutionStarted"       -> "running"
      [] name = "ExecutionSucceeded"     -> "succeeded"
      [] name = "ExecutionFailed"        -> "failed"
      [] name = "ExecutionEnqueueFailed" -> "failed"
      [] name = "ExecutionCancelled"     -> "cancelled"
      [] OTHER                           -> old

\* apply() maps a well-formed row and event to a well-formed row.
LEMMA ApplyType ==
    ASSUME NEW s \in ProjectionState, NEW e \in DomainEvent
    PROVE  Apply(s, e) \in ProjectionState
<1>1. /\ s.status \in Statuses /\ s.started_at \in BOOLEAN
      /\ s.finished_at \in BOOLEAN /\ s.error_code \in ErrorCodes
      /\ s.result \in Results /\ s.normalized_params \in Targets \cup {NoParams}
      /\ s.job_id \in Jobs /\ s.approved_by_id \in Users \cup {NoUser}
  BY Zenon DEF ProjectionState
<1>2. /\ e.by \in Users \cup {NoUser} /\ e.code \in ErrorCodes
      /\ e.result \in Results /\ e.params \in Targets \cup {NoParams}
  BY Zenon DEF DomainEvent
<1>3. /\ \A x \in Statuses : /\ [s EXCEPT !.status = x] \in ProjectionState
                            /\ Finish(s, x) \in ProjectionState
      /\ \A c \in ErrorCodes : FailWith(s, c) \in ProjectionState
  <2>1. "failed" \in Statuses /\ "" \in ErrorCodes
    BY Zenon DEF Statuses, ErrorCodes
  <2>2. ASSUME NEW x \in Statuses
        PROVE  [s EXCEPT !.status = x] \in ProjectionState
    BY <1>1, Zenon DEF ProjectionState
  <2>3. ASSUME NEW x \in Statuses
        PROVE  Finish(s, x) \in ProjectionState
    BY <1>1, <2>1, Zenon DEF ProjectionState, Finish
  <2>4. ASSUME NEW c \in ErrorCodes
        PROVE  FailWith(s, c) \in ProjectionState
    BY <1>1, <2>1, Zenon DEF ProjectionState, FailWith
  <2> QED
    BY <2>2, <2>3, <2>4, Zenon
<1>4. /\ [s EXCEPT !.status = "approved", !.approved_by_id = e.by] \in ProjectionState
      /\ [s EXCEPT !.status = "running", !.started_at = TRUE] \in ProjectionState
      /\ [s EXCEPT !.normalized_params = e.params] \in ProjectionState
      /\ [s EXCEPT !.job_id = "job"] \in ProjectionState
  BY <1>1, <1>2, ZenonT(30) DEF ProjectionState, Statuses, Jobs
<1>5. /\ [Finish(s, "succeeded") EXCEPT !.result = e.result] \in ProjectionState
      /\ [FailWith(s, e.code) EXCEPT !.result = e.result] \in ProjectionState
  <2>1. \A x \in ProjectionState : [x EXCEPT !.result = e.result] \in ProjectionState
    BY <1>2, Zenon DEF ProjectionState
  <2>2. "succeeded" \in Statuses
    BY Zenon DEF Statuses
  <2> QED
    BY <1>2, <1>3, <2>1, <2>2, Zenon
<1>6. {"requested", "pending_approval", "queued", "rejected", "expired",
       "cancelled"} \subseteq Statuses
  BY Zenon DEF Statuses
<1> QED
  BY <1>2, <1>3, <1>4, <1>5, <1>6, Zenon DEF Apply, Statuses

\* apply() changes the status exactly as the event's class says.
LEMMA ApplyStatus ==
    ASSUME NEW s \in ProjectionState, NEW e \in DomainEvent
    PROVE  Apply(s, e).status = StatusAfter(e.name, s.status)
BY Zenon DEF Apply, StatusAfter, ProjectionState, DomainEvent, EventNames, Finish, FailWith

\* Only ExecutionApproved writes the approver, and it writes the event's actor.
LEMMA ApplyApprover ==
    ASSUME NEW s \in ProjectionState, NEW e \in DomainEvent
    PROVE  Apply(s, e).approved_by_id =
               IF e.name = "ExecutionApproved" THEN e.by ELSE s.approved_by_id
BY Zenon DEF Apply, ProjectionState, DomainEvent, EventNames, Finish, FailWith

\* Only ParametersNormalized writes the normalised parameters.
LEMMA ApplyParams ==
    ASSUME NEW s \in ProjectionState, NEW e \in DomainEvent
    PROVE  Apply(s, e).normalized_params =
               IF e.name = "ParametersNormalized" THEN e.params
                                                  ELSE s.normalized_params
BY Zenon DEF Apply, ProjectionState, DomainEvent, EventNames, Finish, FailWith

\* A save of changed columns keeps the row well formed, column by column.
LEMMA CommitType ==
    ASSUME NEW r \in ProjectionState, NEW old \in ProjectionState,
           NEW new \in ProjectionState
    PROVE  CommitChanged(r, old, new) \in ProjectionState
BY Zenon DEF CommitChanged, Kept, ProjectionState

\* A writer whose copy is the committed row commits its new copy.
LEMMA CommitFresh ==
    ASSUME NEW r \in ProjectionState, NEW new \in ProjectionState
    PROVE  CommitChanged(r, r, new) = new
BY Zenon DEF CommitChanged, Kept, ProjectionState

\* Every event the handlers build is well formed.
LEMMA EventType ==
    ASSUME NEW n \in EventNames
    PROVE  /\ Event(n) \in DomainEvent
           /\ Event(n).name = n
           /\ \A u \in Users : [Event(n) EXCEPT !.by = u] \in DomainEvent
           /\ \A c \in ErrorCodes : [Event(n) EXCEPT !.code = c] \in DomainEvent
           /\ \A c \in ErrorCodes, x \in Results :
                  [[Event(n) EXCEPT !.code = c] EXCEPT !.result = x] \in DomainEvent
           /\ \A x \in Results : [Event(n) EXCEPT !.result = x] \in DomainEvent
           /\ \A t \in Targets : [Event(n) EXCEPT !.params = t] \in DomainEvent
           /\ \A v \in Nat : [Event(n) EXCEPT !.version = v] \in DomainEvent
BY ZenonT(30) DEF Event, DomainEvent, ErrorCodes, Results

-----------------------------------------------------------------------------
(* What one recorded event does to the store.                              *)

StoreOK == /\ ledger \in Seq(DomainEvent)
           /\ row \in ProjectionState
           /\ folded \in ProjectionState

\* Appending to the ledger keeps every class of event that is in it.
LEMMA LedgerKeeps ==
    ASSUME ledger \in Seq(DomainEvent), NEW t \in Seq(DomainEvent),
           ledger' = ledger \o t
    PROVE  \A n : Logged(n) => Logged(n)'
<1> SUFFICES ASSUME NEW n, Logged(n)  PROVE Logged(n)'
  BY Zenon
<1>1. PICK i \in DOMAIN ledger : ledger[i].name = n
  BY Zenon DEF Logged
<1>2. i \in DOMAIN (ledger \o t) /\ (ledger \o t)[i] = ledger[i]
  OBVIOUS
<1> QED
  BY <1>1, <1>2, Zenon DEF Logged

\* _append_and_project by a writer with the copy old.
LEMMA AppendFacts ==
    ASSUME StoreOK, NEW old \in ProjectionState, NEW e \in DomainEvent,
           AppendAndProject(old, e)
    PROVE  /\ StoreOK'
           /\ ledger' # <<>>
           /\ row'.status = Kept(row.status, old.status,
                                 StatusAfter(e.name, old.status))
           /\ folded'.status = StatusAfter(e.name, folded.status)
           /\ e.name # "ExecutionApproved" =>
                  row'.approved_by_id = row.approved_by_id
           /\ e.name # "ParametersNormalized" =>
                  row'.normalized_params = row.normalized_params
           /\ \A n : Logged(n) => Logged(n)'
           /\ Logged(e.name)'
<1> DEFINE new == Apply(old, e)
<1>1. new \in ProjectionState /\ Apply(folded, e) \in ProjectionState
  BY ApplyType, Zenon DEF StoreOK
<1>2. StoreOK'
  BY <1>1, CommitType DEF StoreOK, AppendAndProject
<1>3. ledger' = ledger \o <<e>> /\ ledger' # <<>> /\ Len(ledger') = Len(ledger) + 1
      /\ Len(ledger') \in DOMAIN ledger' /\ ledger'[Len(ledger')] = e
  BY DEF StoreOK, AppendAndProject
<1>4. row'.status = Kept(row.status, old.status, StatusAfter(e.name, old.status))
  BY ApplyStatus, Zenon DEF AppendAndProject, CommitChanged
<1>5. folded'.status = StatusAfter(e.name, folded.status)
  BY ApplyStatus, Zenon DEF AppendAndProject, StoreOK
<1>6. e.name # "ExecutionApproved" => row'.approved_by_id = row.approved_by_id
  BY ApplyApprover, Zenon DEF AppendAndProject, CommitChanged, Kept
<1>7. e.name # "ParametersNormalized" =>
          row'.normalized_params = row.normalized_params
  BY ApplyParams, Zenon DEF AppendAndProject, CommitChanged, Kept
<1>8. \A n : Logged(n) => Logged(n)'
  <2>1. ledger \in Seq(DomainEvent) /\ <<e>> \in Seq(DomainEvent)
    BY DEF StoreOK
  <2> QED
    BY <1>3, <2>1, LedgerKeeps, Zenon
<1>9. Logged(e.name)'
  BY <1>3, Zenon DEF Logged
<1> QED
  BY <1>2, <1>3, <1>4, <1>5, <1>6, <1>7, <1>8, <1>9, Zenon

\* _append_and_project by a writer that has just loaded the locked row.
LEMMA AppendLockedFacts ==
    ASSUME StoreOK, NEW e \in DomainEvent, AppendLocked(e)
    PROVE  /\ row' = Apply(row, e)
           /\ row'.status = StatusAfter(e.name, row.status)
<1>1. Apply(row, e) \in ProjectionState
  BY ApplyType, Zenon DEF StoreOK
<1>2. row' = Apply(row, e)
  BY <1>1, CommitFresh, Zenon DEF AppendLocked, AppendAndProject, StoreOK
<1> QED
  BY <1>2, ApplyStatus, Zenon DEF StoreOK

\* Two events in one locked transaction.
LEMMA AppendBothFacts ==
    ASSUME StoreOK, NEW d \in DomainEvent, NEW e \in DomainEvent, AppendBoth(d, e),
           e.name # "ExecutionApproved",
           d.name # "ParametersNormalized", e.name # "ParametersNormalized"
    PROVE  /\ StoreOK'
           /\ ledger' # <<>>
           /\ row'.status = StatusAfter(e.name, StatusAfter(d.name, row.status))
           /\ folded'.status = StatusAfter(e.name, StatusAfter(d.name, folded.status))
           /\ row'.approved_by_id = IF d.name = "ExecutionApproved"
                                    THEN d.by ELSE row.approved_by_id
           /\ row'.normalized_params = row.normalized_params
           /\ \A n : Logged(n) => Logged(n)'
<1>1. /\ Apply(row, d) \in ProjectionState
      /\ Apply(folded, d) \in ProjectionState
  BY ApplyType, Zenon DEF StoreOK
<1>2. /\ Apply(Apply(row, d), e) \in ProjectionState
      /\ Apply(Apply(folded, d), e) \in ProjectionState
  BY <1>1, ApplyType, Zenon
<1>3. <<d, e>> \in Seq(DomainEvent)
  OBVIOUS
<1>4. StoreOK' /\ ledger' # <<>>
  BY <1>2, <1>3 DEF StoreOK, AppendBoth
<1>5. /\ row'.status = StatusAfter(e.name, StatusAfter(d.name, row.status))
      /\ folded'.status = StatusAfter(e.name, StatusAfter(d.name, folded.status))
  BY <1>1, ApplyStatus, Zenon DEF AppendBoth, StoreOK
<1>6. row'.approved_by_id = IF d.name = "ExecutionApproved"
                            THEN d.by ELSE row.approved_by_id
  BY <1>1, ApplyApprover, Zenon DEF AppendBoth, StoreOK
<1>7. row'.normalized_params = row.normalized_params
  BY <1>1, ApplyParams DEF AppendBoth, StoreOK
<1>8. \A n : Logged(n) => Logged(n)'
  <2>1. ledger \in Seq(DomainEvent) /\ ledger' = ledger \o <<d, e>>
    BY Zenon DEF StoreOK, AppendBoth
  <2> QED
    BY <1>3, <2>1, LedgerKeeps, Zenon
<1> QED
  BY <1>4, <1>5, <1>6, <1>7, <1>8, Zenon

\* A failure event carries the code and the class it is built with.
LEMMA FailureType ==
    ASSUME NEW c \in ErrorCodes
    PROVE  Failure(c) \in DomainEvent /\ Failure(c).name = "ExecutionFailed"
BY Zenon DEF Failure, Event, DomainEvent, EventNames, ErrorCodes, Results

\* Every refusal of a claim is an error code.
LEMMA RefusalType == ClaimRefusal \in ErrorCodes
BY Zenon DEF ClaimRefusal, ErrorCodes

\* The terminal events of a backend response are well formed.
LEMMA TerminalEventsType ==
    ASSUME NEW e \in TerminalEvents
    PROVE  e \in DomainEvent /\ e.name \in {"ExecutionSucceeded", "ExecutionFailed"}
<1>1. PICK base \in {Event("ExecutionSucceeded"), Failure("BACKEND_CODE")},
           r \in Results : e = [base EXCEPT !.result = r]
  BY DEF TerminalEvents
<1>2. base \in DomainEvent /\ base.name \in {"ExecutionSucceeded", "ExecutionFailed"}
  <2>1. CASE base = Event("ExecutionSucceeded")
    BY <2>1, Zenon DEF Event, DomainEvent, EventNames, ErrorCodes, Results
  <2>2. CASE base = Failure("BACKEND_CODE")
    BY <2>2, FailureType, ZenonT(30) DEF ErrorCodes
  <2> QED
    BY <2>1, <2>2, Zenon
<1> QED
  BY <1>1, <1>2, Zenon DEF DomainEvent

\* record_backend_response appends at most one progress event before the
\* terminal one; the row and the fold see only the terminal event.
LEMMA ResponseFacts ==
    ASSUME StoreOK, NEW w \in Workers, mem[w] \in ProjectionState, RecordResponse(w)
    PROVE  \E e \in TerminalEvents :
             /\ mem' = [mem EXCEPT ![w] = Apply(@, e)]
             /\ StoreOK'
             /\ ledger' # <<>>
             /\ row'.status = Kept(row.status, mem[w].status,
                                   StatusAfter(e.name, mem[w].status))
             /\ folded'.status = StatusAfter(e.name, folded.status)
             /\ row'.approved_by_id = row.approved_by_id
             /\ row'.normalized_params = row.normalized_params
             /\ \A n : Logged(n) => Logged(n)'
<1>1. PICK e \in TerminalEvents :
          /\ \E t \in {<<e>>, <<Event("BackendEventRecorded"), e>>} : ledger' = ledger \o t
          /\ folded' = Apply(folded, e)
          /\ row' = CommitChanged(row, mem[w], Apply(mem[w], e))
          /\ mem' = [mem EXCEPT ![w] = Apply(@, e)]
  BY Zenon DEF RecordResponse
<1>2. e \in DomainEvent /\ e.name \in {"ExecutionSucceeded", "ExecutionFailed"}
  BY TerminalEventsType, Zenon
<1>3. Event("BackendEventRecorded") \in DomainEvent
  BY EventType, Zenon DEF EventNames
<1>4. PICK t \in {<<e>>, <<Event("BackendEventRecorded"), e>>} : ledger' = ledger \o t
  BY <1>1, Zenon
<1>5. t \in Seq(DomainEvent) /\ t # <<>>
  <2>1. <<e>> \in Seq(DomainEvent) /\ <<e>> # <<>>
    BY <1>2
  <2>2. \A b \in DomainEvent : <<b, e>> \in Seq(DomainEvent) /\ <<b, e>> # <<>>
    BY <1>2
  <2> QED
    BY <1>3, <1>4, <2>1, <2>2, Zenon
<1>6. Apply(mem[w], e) \in ProjectionState /\ Apply(folded, e) \in ProjectionState
  BY <1>2, ApplyType, Zenon DEF StoreOK
<1>7. StoreOK' /\ ledger' # <<>>
  <2>1. ledger' \in Seq(DomainEvent) /\ ledger' # <<>>
    BY <1>4, <1>5 DEF StoreOK
  <2> QED
    BY <1>1, <1>6, <2>1, CommitType, Zenon DEF StoreOK
<1>8. /\ row'.status = Kept(row.status, mem[w].status,
                            StatusAfter(e.name, mem[w].status))
      /\ folded'.status = StatusAfter(e.name, folded.status)
  BY <1>1, <1>2, ApplyStatus, Zenon DEF CommitChanged, StoreOK
<1>9. row'.approved_by_id = row.approved_by_id
  BY <1>1, <1>2, ApplyApprover, Zenon DEF CommitChanged, Kept
<1>10. row'.normalized_params = row.normalized_params
  BY <1>1, <1>2, ApplyParams, Zenon DEF CommitChanged, Kept
<1>11. \A n : Logged(n) => Logged(n)'
  <2>1. ledger \in Seq(DomainEvent)
    BY Zenon DEF StoreOK
  <2> QED
    BY <1>4, <1>5, <2>1, LedgerKeeps, Zenon
<1> QED
  BY <1>1, <1>7, <1>8, <1>9, <1>10, <1>11, Zenon

-----------------------------------------------------------------------------
(* Type correctness.                                                       *)

\* The store part of the type invariant, for the lemmas about writes.
LEMMA TypeStore == TypeOK => StoreOK
BY Zenon DEF TypeOK, StoreOK

\* A new execution, before create_execution, is well typed.
LEMMA InitType == Init => TypeOK
<1> SUFFICES ASSUME Init  PROVE TypeOK
  BY Zenon
<1>1. InitialState \in ProjectionState
  BY Zenon DEF InitialState, ProjectionState, Statuses, ErrorCodes, Results, Jobs
<1>2. <<>> \in Seq(DomainEvent)
  OBVIOUS
<1> QED
  BY <1>1, <1>2, KindsAssumption, SuperusersAssumption, BoundsAssumption
  DEF Init, TypeOK, CatalogStates, PublisherLabels, WorkerLabels

\* Actions that do not write the store.
LEMMA QuietType ==
    ASSUME TypeOK,
           \/ PublishJob \/ PublishRefused \/ PublishRaisedLate \/ ScheduleExpiry
           \/ PublisherDies \/ Redeliver \/ SelectCandidate \/ Tick
           \/ EditProcedure \/ MoveTarget \/ RevokeSuperuser
    PROVE  TypeOK'
<1> USE BoundsAssumption DEF TypeOK, store, environment, publisher, expiry, worker,
        PublisherLabels
<1>1. CASE PublishJob
  BY <1>1 DEF PublishJob, PublishUnchanged
<1>2. CASE PublishRefused
  BY <1>2, Zenon DEF PublishRefused, PublishUnchanged
<1>3. CASE PublishRaisedLate
  BY <1>3 DEF PublishRaisedLate, PublishUnchanged
<1>4. CASE ScheduleExpiry
  BY <1>4, Zenon DEF ScheduleExpiry, PublishUnchanged
<1>5. CASE PublisherDies
  BY <1>5 DEF PublisherDies, PublishUnchanged
<1>6. CASE Redeliver
  BY <1>6 DEF Redeliver, PublishUnchanged
<1>7. CASE SelectCandidate
  BY <1>7, Zenon DEF SelectCandidate, ExpiryUnchanged
<1>8. CASE Tick
  BY <1>8 DEF Tick
<1>9. CASE EditProcedure
  BY <1>9 DEF EditProcedure, AdminUnchanged
<1>10. CASE MoveTarget
  BY <1>10 DEF MoveTarget, AdminUnchanged
<1>11. CASE RevokeSuperuser
  BY <1>11 DEF RevokeSuperuser, AdminUnchanged
<1> QED
  BY <1>1, <1>2, <1>3, <1>4, <1>5, <1>6, <1>7, <1>8, <1>9, <1>10, <1>11, ZenonT(30)
\* Request threads, the publisher's records and the expiry.
LEMMA RequestType ==
    ASSUME TypeOK,
           \/ CreateQueued \/ CreatePending
           \/ \E u \in Users : Approve(u) \/ Reject(u)
           \/ Cancel \/ RecordEnqueueFailed \/ RecordEnqueued
           \/ RunExpiryJob \/ SweepCandidate
    PROVE  TypeOK'
<1>0. StoreOK /\ row \in ProjectionState /\ pubMem \in ProjectionState
  BY TypeStore, Zenon DEF TypeOK
<1> USE DEF TypeOK, environment, publisher, expiry, worker, PublisherLabels
<1>1. CASE CreateQueued
  <2>1. Event("ExecutionQueued") \in DomainEvent
    BY EventType, ZenonT(30) DEF EventNames
  <2>2. StoreOK'
    BY <1>0, <1>1, <2>1, AppendFacts, Zenon DEF CreateQueued, AppendLocked
  <2> QED
    BY <1>1, <2>2, Zenon DEF CreateQueued, StoreOK
<1>2. CASE CreatePending
  <2>1. /\ Event("ExecutionRequested") \in DomainEvent
        /\ Event("ApprovalRequested") \in DomainEvent
        /\ Event("ExecutionRequested").name = "ExecutionRequested"
        /\ Event("ApprovalRequested").name = "ApprovalRequested"
    BY EventType, ZenonT(30) DEF EventNames
  <2>2. StoreOK'
    BY <1>0, <1>2, <2>1, AppendBothFacts, Zenon DEF CreatePending
  <2> QED
    BY <1>2, <2>2 DEF CreatePending, StoreOK
<1>3. ASSUME NEW u \in Users, Approve(u)  PROVE TypeOK'
  <2> DEFINE d == [Event("ExecutionApproved") EXCEPT !.by = u]
  <2>1. /\ d \in DomainEvent /\ d.name = "ExecutionApproved"
        /\ Event("ExecutionQueued") \in DomainEvent
        /\ Event("ExecutionQueued").name = "ExecutionQueued"
    BY EventType, ZenonT(30) DEF EventNames, Event
  <2>2. StoreOK'
    BY <1>0, <1>3, <2>1, AppendBothFacts, Zenon DEF Approve
  <2> QED
    BY <1>3, <2>2, Zenon DEF Approve, StoreOK
<1>4. ASSUME NEW u \in Users, Reject(u)  PROVE TypeOK'
  <2>1. [Event("ExecutionRejected") EXCEPT !.by = u] \in DomainEvent
    BY EventType, Zenon DEF EventNames
  <2>2. StoreOK'
    BY <1>0, <1>4, <2>1, AppendFacts, Zenon DEF Reject, AppendLocked
  <2> QED
    BY <1>4, <2>2 DEF Reject, StoreOK
<1>5. CASE Cancel
  <2>1. Event("ExecutionCancelled") \in DomainEvent
    BY EventType, ZenonT(30) DEF EventNames
  <2>2. StoreOK'
    BY <1>0, <1>5, <2>1, AppendFacts, Zenon DEF Cancel, AppendLocked
  <2> QED
    BY <1>5, <2>2 DEF Cancel, StoreOK
<1>6. CASE RecordEnqueueFailed
  <2>1. [Event("ExecutionEnqueueFailed") EXCEPT !.code = "RPC_ENQUEUE_FAILED"]
            \in DomainEvent
    BY EventType, Zenon DEF EventNames, ErrorCodes
  <2>2. StoreOK'
    BY <1>0, <1>6, <2>1, AppendFacts, Zenon DEF RecordEnqueueFailed
  <2> QED
    BY <1>6, <2>2, Zenon DEF RecordEnqueueFailed, PublishUnchanged, StoreOK
<1>7. CASE RecordEnqueued
  <2>1. Event("JobEnqueued") \in DomainEvent
    BY EventType, ZenonT(30) DEF EventNames
  <2>2. StoreOK'
    BY <1>0, <1>7, <2>1, AppendFacts, Zenon DEF RecordEnqueued
  <2> QED
    BY <1>7, <2>2, Zenon DEF RecordEnqueued, PublishUnchanged, StoreOK
<1>8. ASSUME ExpireStale  PROVE StoreOK'
  <2>1. Failure("RPC_CONTROL_QUEUE_STALE") \in DomainEvent
    BY FailureType, ZenonT(30) DEF ErrorCodes
  <2>2. CASE AppendLocked(Failure("RPC_CONTROL_QUEUE_STALE"))
    BY <1>0, <2>1, <2>2, AppendFacts, Zenon DEF AppendLocked
  <2>3. CASE UNCHANGED store
    BY <1>0, <2>3, Zenon DEF store, StoreOK
  <2> QED
    BY <1>8, <2>2, <2>3, Zenon DEF ExpireStale
<1>9. CASE RunExpiryJob
  BY <1>8, <1>9, Zenon DEF RunExpiryJob, ExpiryUnchanged, StoreOK
<1>10. CASE SweepCandidate
  BY <1>8, <1>10 DEF SweepCandidate, ExpiryUnchanged, StoreOK
<1> QED
  BY <1>1, <1>2, <1>3, <1>4, <1>5, <1>6, <1>7, <1>9, <1>10, ZenonT(30)
\* A worker that records an event leaves the store and its own state well typed.
LEMMA RecordFromType ==
    ASSUME TypeOK, NEW w \in Workers, NEW e \in DomainEvent, NEW l \in WorkerLabels,
           RecordFrom(w, e, l)
    PROVE  /\ StoreOK'
           /\ mem' \in [Workers -> ProjectionState]
           /\ pc' \in [Workers -> WorkerLabels]
<1>1. StoreOK /\ mem[w] \in ProjectionState
  BY TypeStore, Zenon DEF TypeOK
<1>2. Apply(mem[w], e) \in ProjectionState
  BY <1>1, ApplyType, Zenon
<1> QED
  BY <1>1, <1>2, AppendFacts, Zenon DEF RecordFrom, Goto, TypeOK

\* The steps of a worker, its faults included.
LEMMA WorkType ==
    ASSUME TypeOK, NEW w \in Workers, Work(w) \/ RecordAborted(w) \/ WorkerDies(w)
    PROVE  TypeOK'
<1>0. StoreOK /\ row \in ProjectionState /\ mem[w] \in ProjectionState
  BY TypeStore, Zenon DEF TypeOK
<1> USE DEF TypeOK, environment, publisher, expiry, WorkerUnchanged, Goto,
            WorkerLabels
<1>1. CASE Fetch(w)
  BY <1>1 DEF Fetch, store
<1>2. CASE LoseClaim(w)
  BY <1>2, Zenon DEF LoseClaim, store
<1>3. CASE RefuseClaim(w)
  <2>1. StoreOK'
    BY <1>0, <1>3, RefusalType, FailureType, AppendFacts, ZenonT(30) DEF RefuseClaim, AppendLocked
  <2> QED
    BY <1>3, <2>1, ZenonT(30) DEF RefuseClaim, StoreOK
<1>4. CASE StartClaim(w)
  <2>1. Event("ExecutionStarted") \in DomainEvent
    BY EventType, Zenon DEF EventNames
  <2>2. StoreOK'
    BY <1>0, <1>4, <2>1, AppendFacts, ZenonT(30) DEF StartClaim, AppendLocked
  <2> QED
    BY <1>4, <2>2, ZenonT(30) DEF StartClaim, StoreOK
<1>5. CASE FailPreflight(w)
  <2>1. PICK c \in {"RPC_INTEGRATION_DISABLED", "RPC_BACKEND_BINDING_INVALID"} :
            RecordFrom(w, Failure(c), "done")
    BY <1>5, Zenon DEF FailPreflight
  <2>2. Failure(c) \in DomainEvent
    BY FailureType, Zenon DEF ErrorCodes
  <2> QED
    BY <1>5, <2>1, <2>2, RecordFromType DEF FailPreflight, StoreOK
<1>6. CASE Normalize(w)
  <2>1. [Event("ParametersNormalized") EXCEPT !.params = target] \in DomainEvent
    BY EventType, ZenonT(30) DEF EventNames
  <2> QED
    BY <1>6, <2>1, RecordFromType DEF Normalize, StoreOK
<1>7. CASE ReadStreamVersion(w)
  <2>1. Len(ledger) \in Nat
    OBVIOUS
  <2> QED
    BY <1>7, <2>1, Zenon DEF ReadStreamVersion, store
<1>8. CASE IssueLease(w)
  <2>1. [Event("DispatchLeaseIssued") EXCEPT !.version = version[w]] \in DomainEvent
    BY EventType, Zenon DEF EventNames
  <2> QED
    BY <1>8, <2>1, RecordFromType, Zenon DEF IssueLease, StoreOK
<1>9. CASE SkipLease(w)
  BY <1>9, Zenon DEF SkipLease, store
<1>10. CASE CallBackend(w)
  BY <1>10 DEF CallBackend, store
<1>11. CASE RecordResponse(w)
  <2>1. PICK e \in TerminalEvents : mem' = [mem EXCEPT ![w] = Apply(@, e)] /\ StoreOK'
    BY <1>0, <1>11, ResponseFacts, Zenon
  <2>2. Apply(mem[w], e) \in ProjectionState
    BY <1>0, TerminalEventsType, ApplyType, Zenon
  <2> QED
    BY <1>11, <2>1, <2>2, Zenon DEF RecordResponse, StoreOK
<1>12. CASE Raise(w)
  BY <1>12, Zenon DEF Raise, store
<1>13. CASE RecordFailure(w)
  <2>1. Failure("RPC_EXECUTION_FAILED") \in DomainEvent
    BY FailureType, ZenonT(30) DEF ErrorCodes
  <2>2. CASE RecordFrom(w, Failure("RPC_EXECUTION_FAILED"), "done")
    BY <1>13, <2>1, <2>2, RecordFromType, Zenon DEF RecordFailure, StoreOK
  <2>3. CASE Goto(w, "done") /\ UNCHANGED <<store, mem>>
    BY <1>13, <2>3, Zenon DEF RecordFailure, store
  <2> QED
    BY <1>13, <2>2, <2>3, Zenon DEF RecordFailure
<1>14. CASE RecordAborted(w)
  <2>1. PICK e \in TerminalEvents : mem' = [mem EXCEPT ![w] = Apply(@, e)]
    BY <1>14, Zenon DEF RecordAborted
  <2>2. Apply(mem[w], e) \in ProjectionState
    BY <1>0, TerminalEventsType, ApplyType, Zenon
  <2> QED
    BY <1>14, <2>1, <2>2, BoundsAssumption DEF RecordAborted, store
<1>15. CASE WorkerDies(w)
  BY <1>15, BoundsAssumption DEF WorkerDies, store
<1> QED
  BY <1>1, <1>2, <1>3, <1>4, <1>5, <1>6, <1>7, <1>8, <1>9, <1>10, <1>11, <1>12,
     <1>13, <1>14, <1>15, ZenonT(30) DEF Work

\* No step of any thread leaves the type invariant.
LEMMA NextType == TypeOK /\ [Next]_vars => TypeOK'
<1> SUFFICES ASSUME TypeOK, [Next]_vars  PROVE TypeOK'
  BY Zenon
<1>1. CASE UNCHANGED vars
  BY <1>1, Zenon DEF vars, store, environment, publisher, expiry, worker, TypeOK
<1>2. CASE Next
  BY <1>2, QuietType, RequestType, WorkType, Zenon
  DEF Next, Decide, Publish, Expire, Fault, Administer
<1> QED
  BY <1>1, <1>2, Zenon

\* Every reachable state is well typed: no handler records a malformed event,
\* writes a malformed row or takes a counter out of its range.
THEOREM TypeCorrect == Spec => []TypeOK
BY InitType, NextType, PTL DEF Spec
-----------------------------------------------------------------------------
(* The inductive invariant.                                                *)

\* The run invariant holds before create_execution.
LEMMA InitInv == Init => RunInvariant
<1> SUFFICES ASSUME Init  PROVE RunInvariant
  BY Zenon
<1>1. TypeOK
  BY InitType, Zenon
<1>2. /\ \A w \in Workers : pc[w] = "idle"
      /\ calls = 0 /\ ledger = <<>> /\ row = folded /\ row.status = "queued"
      /\ row.approved_by_id = NoUser /\ row.normalized_params = NoParams
      /\ pubPc = "none"
  BY Zenon DEF Init, InitialState
<1>3. UnclaimedIsUntouched /\ OneRunner /\ CopiesAreKnown /\ StatusIsRebuilt
  BY <1>2 DEF UnclaimedIsUntouched, OneRunner, CopiesAreKnown, StatusIsRebuilt,
              InRun, Unsent
<1>4. PassedStaysRecorded
  BY <1>2, RequesterAssumption, NoUserAssumption DEF PassedStaysRecorded, InRun
<1> QED
  BY <1>1, <1>3, <1>4, Zenon DEF RunInvariant

\* Most steps are calm: the status stays or becomes terminal, the approver and
\* the parameters stay, and a worker stays where it is or is done.
Calm == /\ row'.status = row.status \/ row'.status \in TERMINAL_STATUSES
        /\ row'.status = folded'.status
        /\ row'.approved_by_id = row.approved_by_id
        /\ row'.normalized_params = row.normalized_params
        /\ ledger' = <<>> => ledger = <<>> /\ row'.status = row.status
        /\ \A n : Logged(n) => Logged(n)'
        /\ UNCHANGED <<kind, snapshot, calls, pubMem>>
        /\ pubPc' \in {"none", "done"} \/ pubPc \notin {"none", "done"}
        /\ \A w \in Workers : pc'[w] = "done" \/ (pc'[w] = pc[w] /\ mem'[w] = mem[w])

\* A calm step keeps the run invariant.
LEMMA CalmInv ==
    ASSUME RunInvariant, TypeOK', Calm
    PROVE  RunInvariant'
<1> USE DEF RunInvariant, Calm
<1>1. UnclaimedIsUntouched'
  BY Zenon DEF UnclaimedIsUntouched, BeforeClaim, InRun, TERMINAL_STATUSES, Created
<1>2. OneRunner'
  BY DEF OneRunner, InRun, Unsent
<1>3. CopiesAreKnown'
  BY Zenon DEF CopiesAreKnown, Unsent
<1>4. StatusIsRebuilt'
  BY Zenon DEF StatusIsRebuilt
<1>5. PassedStaysRecorded'
  BY Zenon DEF PassedStaysRecorded, InRun, Protected
<1> QED
  BY <1>1, <1>2, <1>3, <1>4, <1>5, Zenon

\* Publishing, time, faults of the publisher and administration are calm.
LEMMA QuietCalm ==
    ASSUME RunInvariant,
           \/ PublishJob \/ PublishRefused \/ PublishRaisedLate \/ ScheduleExpiry
           \/ PublisherDies \/ Redeliver \/ SelectCandidate \/ Tick
           \/ EditProcedure \/ MoveTarget \/ RevokeSuperuser \/ UNCHANGED vars
    PROVE  Calm
<1>1. /\ UNCHANGED <<kind, ledger, row, folded, snapshot, pubMem, pc, mem, calls>>
      /\ pubPc' \in {"none", "done"} \/ pubPc \notin {"none", "done"}
  BY Zenon DEF PublishJob, PublishRefused, PublishRaisedLate, ScheduleExpiry, PublisherDies,
         Redeliver, SelectCandidate, Tick, EditProcedure, MoveTarget, RevokeSuperuser,
         PublishUnchanged, ExpiryUnchanged, AdminUnchanged, vars, store, environment,
         publisher, expiry, worker
<1>2. \A n : Logged(n) => Logged(n)'
  BY <1>1, Zenon DEF Logged
<1> QED
  BY <1>1, <1>2, Zenon DEF Calm, RunInvariant, StatusIsRebuilt
\* The terminal and informational records of the request side are calm.
LEMMA RequestCalm ==
    ASSUME RunInvariant,
           \/ \E u \in Users : Reject(u)
           \/ Cancel \/ RecordEnqueueFailed \/ RecordEnqueued
           \/ RunExpiryJob \/ SweepCandidate
    PROVE  Calm
<1>0. /\ StoreOK /\ row \in ProjectionState /\ pubMem \in ProjectionState
      /\ row.status = folded.status
  BY TypeStore, Zenon DEF RunInvariant, TypeOK, StatusIsRebuilt
<1> USE DEF environment, publisher, expiry, worker
<1>1. ASSUME NEW u \in Users, Reject(u)  PROVE Calm
  <2> DEFINE e == [Event("ExecutionRejected") EXCEPT !.by = u]
  <2>1. e \in DomainEvent /\ e.name = "ExecutionRejected"
    BY EventType, Zenon DEF EventNames, Event
  <2> HIDE DEF e
  <2>2. AppendLocked(e)
    BY <1>1, Zenon DEF Reject, e
  <2> QED
    BY <1>0, <1>1, <2>1, <2>2, AppendFacts, AppendLockedFacts
    DEF Reject, Calm, AppendLocked, StatusAfter, TERMINAL_STATUSES
<1>2. CASE Cancel
  <2> DEFINE e == Event("ExecutionCancelled")
  <2>1. e \in DomainEvent /\ e.name = "ExecutionCancelled"
    BY EventType, Zenon DEF EventNames
  <2>2. AppendLocked(e)
    BY <1>2, Zenon DEF Cancel
  <2> HIDE DEF e
  <2> QED
    BY <1>0, <1>2, <2>1, <2>2, AppendFacts, AppendLockedFacts
    DEF Cancel, Calm, AppendLocked, StatusAfter, TERMINAL_STATUSES
<1>3. CASE RecordEnqueueFailed
  <2> DEFINE e == [Event("ExecutionEnqueueFailed") EXCEPT !.code = "RPC_ENQUEUE_FAILED"]
  <2>1. e \in DomainEvent /\ e.name = "ExecutionEnqueueFailed"
    BY EventType, Zenon DEF EventNames, Event, ErrorCodes
  <2>2. AppendAndProject(pubMem, e)
    BY <1>3, Zenon DEF RecordEnqueueFailed
  <2>3. pubMem.status = "queued"
    BY <1>3, Zenon DEF RecordEnqueueFailed, RunInvariant, CopiesAreKnown
  <2> HIDE DEF e
  <2> QED
    BY <1>0, <1>3, <2>1, <2>2, <2>3, AppendFacts
    DEF RecordEnqueueFailed, PublishUnchanged, Calm, StatusAfter, Kept,
        TERMINAL_STATUSES
<1>4. CASE RecordEnqueued
  <2> DEFINE e == Event("JobEnqueued")
  <2>1. e \in DomainEvent /\ e.name = "JobEnqueued"
    BY EventType, Zenon DEF EventNames
  <2>2. AppendAndProject(pubMem, e)
    BY <1>4, Zenon DEF RecordEnqueued
  <2> HIDE DEF e
  <2> QED
    BY <1>0, <1>4, <2>1, <2>2, AppendFacts
    DEF RecordEnqueued, PublishUnchanged, Calm, StatusAfter, Kept
<1>5. ASSUME ExpireStale, UNCHANGED <<kind, snapshot, calls, pubMem, pubPc, pc, mem>>
      PROVE  Calm
  <2> DEFINE e == Failure("RPC_CONTROL_QUEUE_STALE")
  <2>1. e \in DomainEvent /\ e.name = "ExecutionFailed"
    BY FailureType, Zenon DEF ErrorCodes
  <2>2. CASE AppendLocked(e)
    <3> HIDE DEF e
    <3> QED
      BY <1>0, <1>5, <2>1, <2>2, AppendFacts, AppendLockedFacts
      DEF Calm, AppendLocked, StatusAfter, TERMINAL_STATUSES
  <2>3. CASE UNCHANGED store
    BY <1>0, <1>5, <2>3, Zenon DEF store, Calm, Logged
  <2> QED
    BY <1>5, <2>2, <2>3, Zenon DEF ExpireStale
<1>6. CASE RunExpiryJob
  BY <1>5, <1>6, Zenon DEF RunExpiryJob, ExpiryUnchanged
<1>7. CASE SweepCandidate
  BY <1>5, <1>7, Zenon DEF SweepCandidate, ExpiryUnchanged
<1> QED
  BY <1>1, <1>2, <1>3, <1>4, <1>6, <1>7, Zenon
\* The last step of a worker is calm: it is done and wrote nothing or a terminal
\* event from a copy that still says running.
LEMMA WorkerDoneCalm ==
    ASSUME RunInvariant, NEW w \in Workers,
           \/ LoseClaim(w) \/ RefuseClaim(w) \/ FailPreflight(w)
           \/ RecordResponse(w) \/ RecordFailure(w) \/ WorkerDies(w)
    PROVE  Calm
<1>0. /\ TypeOK /\ StoreOK /\ row \in ProjectionState /\ mem[w] \in ProjectionState
      /\ row.status = folded.status
      /\ pc \in [Workers -> WorkerLabels] /\ mem \in [Workers -> ProjectionState]
  BY TypeStore, Zenon DEF RunInvariant, TypeOK, StatusIsRebuilt
<1> USE DEF environment, publisher, expiry, WorkerUnchanged, Goto
<1>1. ASSUME UNCHANGED <<store, kind, snapshot, calls, pubMem, pubPc, mem>>,
             Goto(w, "done")
      PROVE  Calm
  BY <1>0, <1>1, ZenonT(30) DEF store, Calm, Logged
<1>2. CASE LoseClaim(w)
  BY <1>1, <1>2, Zenon DEF LoseClaim
<1>3. CASE WorkerDies(w)
  BY <1>1, <1>3, Zenon DEF WorkerDies
<1>4. CASE RefuseClaim(w)
  <2>1. /\ Failure(ClaimRefusal) \in DomainEvent
        /\ Failure(ClaimRefusal).name = "ExecutionFailed"
    BY RefusalType, FailureType, Zenon
  <2>2. AppendLocked(Failure(ClaimRefusal))
    BY <1>4, Zenon DEF RefuseClaim
  <2>3. /\ row'.status = "failed" /\ folded'.status = "failed" /\ ledger' # <<>>
        /\ row'.approved_by_id = row.approved_by_id
        /\ row'.normalized_params = row.normalized_params
        /\ \A n : Logged(n) => Logged(n)'
    BY <1>0, <2>1, <2>2, AppendFacts, AppendLockedFacts, Zenon DEF AppendLocked, StatusAfter
  <2> QED
    BY <1>0, <1>4, <2>3, Zenon DEF RefuseClaim, Calm, TERMINAL_STATUSES
<1>5. ASSUME NEW c \in ErrorCodes, RecordFrom(w, Failure(c), "done"),
             mem[w].status \notin TERMINAL_STATUSES,
             UNCHANGED <<kind, snapshot, calls, pubMem, pubPc>>
      PROVE  Calm
  <2>1. Failure(c) \in DomainEvent /\ Failure(c).name = "ExecutionFailed"
    BY FailureType, Zenon
  <2>2. /\ row'.status = "failed" /\ folded'.status = "failed" /\ ledger' # <<>>
        /\ row'.approved_by_id = row.approved_by_id
        /\ row'.normalized_params = row.normalized_params
        /\ \A n : Logged(n) => Logged(n)'
    BY <1>0, <1>5, <2>1, AppendFacts
    DEF RecordFrom, StatusAfter, Kept, TERMINAL_STATUSES
  <2> QED
    BY <1>0, <1>5, <2>2, Zenon DEF RecordFrom, Calm, TERMINAL_STATUSES
<1>6. CASE FailPreflight(w)
  <2>1. PICK c \in {"RPC_INTEGRATION_DISABLED", "RPC_BACKEND_BINDING_INVALID"} :
            RecordFrom(w, Failure(c), "done")
    BY <1>6, Zenon DEF FailPreflight
  <2>2. mem[w].status = "running"
    BY <1>6, Zenon DEF FailPreflight, RunInvariant, CopiesAreKnown, Unsent
  <2> QED
    BY <1>5, <1>6, <2>1, <2>2, Zenon DEF FailPreflight, ErrorCodes, TERMINAL_STATUSES
<1>7. CASE RecordFailure(w)
  <2>1. CASE mem[w].status \notin TERMINAL_STATUSES
    BY <1>5, <1>7, <2>1, ZenonT(30) DEF RecordFailure, ErrorCodes
  <2>2. CASE mem[w].status \in TERMINAL_STATUSES
    BY <1>1, <1>7, <2>2, Zenon DEF RecordFailure
  <2> QED
    BY <2>1, <2>2, Zenon
<1>8. CASE RecordResponse(w)
  <2>1. mem[w].status = "running"
    BY <1>8, ZenonT(30) DEF RecordResponse, RunInvariant, CopiesAreKnown
  <2>2. PICK e \in TerminalEvents :
             /\ mem' = [mem EXCEPT ![w] = Apply(@, e)]
             /\ ledger' # <<>>
             /\ row'.status = Kept(row.status, mem[w].status,
                                   StatusAfter(e.name, mem[w].status))
             /\ folded'.status = StatusAfter(e.name, folded.status)
             /\ row'.approved_by_id = row.approved_by_id
             /\ row'.normalized_params = row.normalized_params
             /\ \A n : Logged(n) => Logged(n)'
    BY <1>0, <1>8, ResponseFacts, Zenon
  <2>3. e.name \in {"ExecutionSucceeded", "ExecutionFailed"}
    BY TerminalEventsType, Zenon
  <2>4. row'.status \in {"succeeded", "failed"} /\ folded'.status = row'.status
    BY <2>1, <2>2, <2>3, Zenon DEF StatusAfter, Kept
  <2> QED
    BY <1>0, <1>8, <2>2, <2>4, ZenonT(30) DEF RecordResponse, Calm, TERMINAL_STATUSES
<1> QED
  BY <1>2, <1>3, <1>4, <1>6, <1>7, <1>8, Zenon
\* Creating and approving happen before any claim and stay before it.
Opening == /\ row.status \in BeforeClaim /\ row'.status \in BeforeClaim
           /\ row'.status = folded'.status
           /\ ledger' # <<>>
           /\ row'.approved_by_id = row.approved_by_id
              \/ (row'.approved_by_id \in Users
                  /\ (kind = "restart" => row'.approved_by_id # Requester))
           /\ row'.normalized_params = row.normalized_params
           /\ UNCHANGED <<kind, calls, pc, mem>>
           /\ pubPc' \in {"none", "done"} \/ pubMem'.status = "queued"

\* An opening step keeps the run invariant: no worker has claimed yet.
LEMMA OpeningInv ==
    ASSUME RunInvariant, TypeOK', Opening
    PROVE  RunInvariant'
<1> USE DEF RunInvariant, Opening
<1>1. /\ calls' = 0 /\ row'.normalized_params = NoParams
      /\ \A w \in Workers : pc'[w] \notin InRun
  BY Zenon DEF UnclaimedIsUntouched
<1>7. {"leased", "calling"} \subseteq InRun /\ ~(calls' > 0)
  BY <1>1 DEF InRun
<1>2. UnclaimedIsUntouched'
  BY <1>1, Zenon DEF UnclaimedIsUntouched, Created
<1>3. OneRunner'
  BY <1>1, Zenon DEF OneRunner, InRun, Unsent
<1>4. CopiesAreKnown'
  BY Zenon DEF CopiesAreKnown
<1>5. StatusIsRebuilt'
  BY Zenon DEF StatusIsRebuilt
<1>6. PassedStaysRecorded'
  <2>1. kind' = "restart" => row'.approved_by_id # Requester
    BY Zenon DEF PassedStaysRecorded
  <2> HIDE DEF RunInvariant, Opening
  <2>2. ~(calls' > 0 \/ (\E w \in Workers : pc'[w] \in InRun))
    BY <1>1, <1>7, Zenon
  <2>3. /\ ~(\E w \in Workers : pc'[w] \in InRun \ {"claimed", "failing"})
        /\ ~(\E w \in Workers : pc'[w] \in {"leased", "calling"})
    BY <2>2, <1>7, Zenon
  <2> QED
    BY <2>1, <2>2, <2>3, Zenon DEF PassedStaysRecorded
<1> QED
  BY <1>2, <1>3, <1>4, <1>5, <1>6, ZenonT(30)

\* create_execution and approve_execution are opening steps.
LEMMA CreateApproveOpens ==
    ASSUME RunInvariant,
           CreateQueued \/ CreatePending \/ \E u \in Users : Approve(u)
    PROVE  Opening
<1>0. /\ StoreOK /\ row \in ProjectionState /\ row.status = folded.status
      /\ pubPc \in {"none", "done"} \/ pubMem.status = "queued"
      /\ ~Created => row.status = "queued"
  BY TypeStore, Zenon DEF RunInvariant, TypeOK, StatusIsRebuilt, CopiesAreKnown,
                   UnclaimedIsUntouched
<1> USE DEF environment, publisher, expiry, worker, BeforeClaim
<1>1. CASE CreateQueued
  <2> DEFINE e == Event("ExecutionQueued")
  <2>1. e \in DomainEvent /\ e.name = "ExecutionQueued"
    BY EventType, ZenonT(30) DEF EventNames
  <2>2. AppendLocked(e)
    BY <1>1, Zenon DEF CreateQueued
  <2> HIDE DEF e
  <2>3. /\ row'.status = "queued" /\ folded'.status = "queued" /\ ledger' # <<>>
        /\ row'.approved_by_id = row.approved_by_id
        /\ row'.normalized_params = row.normalized_params
    BY <1>0, <2>1, <2>2, AppendFacts, AppendLockedFacts, Zenon DEF AppendLocked, StatusAfter
  <2> QED
    BY <1>0, <1>1, <2>3, Zenon DEF CreateQueued, Opening
<1>2. CASE CreatePending
  <2> DEFINE d == Event("ExecutionRequested")
             e == Event("ApprovalRequested")
  <2>1. /\ d \in DomainEvent /\ d.name = "ExecutionRequested"
        /\ e \in DomainEvent /\ e.name = "ApprovalRequested"
    BY EventType, ZenonT(30) DEF EventNames
  <2>2. AppendBoth(d, e)
    BY <1>2, Zenon DEF CreatePending
  <2> HIDE DEF d, e
  <2>3. /\ row'.status = "pending_approval" /\ folded'.status = "pending_approval"
        /\ ledger' # <<>>
        /\ row'.approved_by_id = row.approved_by_id
        /\ row'.normalized_params = row.normalized_params
    BY <1>0, <2>1, <2>2, AppendBothFacts DEF StatusAfter
  <2> QED
    BY <1>0, <1>2, <2>3, Zenon DEF CreatePending, Opening
<1>3. ASSUME NEW u \in Users, Approve(u)  PROVE Opening
  <2> DEFINE d == [Event("ExecutionApproved") EXCEPT !.by = u]
             e == Event("ExecutionQueued")
  <2>1. /\ d \in DomainEvent /\ d.name = "ExecutionApproved" /\ d.by = u
        /\ e \in DomainEvent /\ e.name = "ExecutionQueued"
    BY EventType, ZenonT(30) DEF EventNames, Event
  <2>2. AppendBoth(d, e)
    BY <1>3, Zenon DEF Approve
  <2> HIDE DEF d, e
  <2>3. /\ row'.status = "queued" /\ folded'.status = "queued" /\ ledger' # <<>>
        /\ row'.approved_by_id = u
        /\ row'.normalized_params = row.normalized_params
    BY <1>0, <2>1, <2>2, AppendBothFacts DEF StatusAfter
  <2> QED
    BY <1>0, <1>3, <2>3, Zenon DEF Approve, AllowSelfApproval, Opening
<1> QED
  BY <1>1, <1>2, <1>3, Zenon

\* The claim is the one step that takes the row from queued to running.
LEMMA StartClaimInv ==
    ASSUME RunInvariant, TypeOK', NEW w \in Workers, StartClaim(w)
    PROVE  RunInvariant'
<1>0. /\ StoreOK /\ row \in ProjectionState /\ row.status = folded.status
      /\ pc \in [Workers -> WorkerLabels] /\ mem \in [Workers -> ProjectionState]
  BY TypeStore, Zenon DEF RunInvariant, TypeOK, StatusIsRebuilt
<1> DEFINE e == Event("ExecutionStarted")
<1>1. e \in DomainEvent /\ e.name = "ExecutionStarted"
  BY EventType, Zenon DEF EventNames
<1>2. AppendLocked(e)
  BY Zenon DEF StartClaim
<1> HIDE DEF e
<1>3. /\ row'.status = "running" /\ folded'.status = "running" /\ ledger' # <<>>
      /\ row'.approved_by_id = row.approved_by_id
      /\ row'.normalized_params = row.normalized_params
  BY <1>0, <1>1, <1>2, AppendFacts, AppendLockedFacts, Zenon DEF AppendLocked, StatusAfter
<1>4. /\ row.normalized_params = NoParams /\ calls = 0
      /\ \A v \in Workers : pc[v] \notin InRun
  BY ZenonT(30) DEF StartClaim, RunInvariant, UnclaimedIsUntouched, BeforeClaim
<1>5. /\ pc' = [pc EXCEPT ![w] = "claimed"] /\ mem' = [mem EXCEPT ![w] = row']
      /\ UNCHANGED <<kind, snapshot, calls, pubPc, pubMem>>
  BY Zenon DEF StartClaim, Goto, WorkerUnchanged, publisher
<1>6. Protected => row.approved_by_id \in Users
  <2> SUFFICES ASSUME Protected  PROVE row.approved_by_id \in Users
    BY Zenon
  <2>1. ClaimRefusal = "" /\ catalog \in CatalogStates
    BY Zenon DEF StartClaim, RunInvariant, TypeOK
  <2>2. IdentitiesAuthorized
    BY <2>1, Zenon DEF ClaimRefusal, CatalogStates
  <2> QED
    BY <1>0, <2>2, Zenon DEF IdentitiesAuthorized, ProjectionState
<1>7. UnclaimedIsUntouched'
  BY <1>3, Zenon DEF UnclaimedIsUntouched, BeforeClaim, Created
<1>8. OneRunner'
  <2>1. \A v \in Workers : pc'[v] \in InRun => v = w
    BY <1>0, <1>4, <1>5, Zenon
  <2>2. calls' = 0
    BY <1>4, <1>5, Zenon
  <2> QED
    BY <2>1, <2>2 DEF OneRunner
<1>9. CopiesAreKnown'
  BY <1>0, <1>3, <1>4, <1>5, Zenon DEF CopiesAreKnown, RunInvariant, Unsent
<1>10. StatusIsRebuilt'
  BY <1>3, Zenon DEF StatusIsRebuilt
<1>11. PassedStaysRecorded'
  <2>1. kind' = "restart" => row'.approved_by_id # Requester
    BY <1>3, <1>5, Zenon DEF RunInvariant, PassedStaysRecorded
  <2>2. Protected' => row'.approved_by_id \in Users
    BY <1>3, <1>5, <1>6, Zenon DEF Protected
  <2>3. /\ calls' = 0
        /\ \A v \in Workers : pc'[v] \notin InRun \ {"claimed", "failing"}
    BY <1>0, <1>4, <1>5, Zenon DEF InRun
  <2> QED
    BY <2>1, <2>2, <2>3 DEF PassedStaysRecorded, InRun
<1> QED
  BY <1>7, <1>8, <1>9, <1>10, <1>11, Zenon DEF RunInvariant

\* Steps of a run that leave the row's status, approver and events in place.
LEMMA SilentInv ==
    ASSUME RunInvariant, TypeOK', NEW w \in Workers,
           \/ Fetch(w) \/ ReadStreamVersion(w) \/ SkipLease(w) \/ CallBackend(w)
           \/ Raise(w) \/ RecordAborted(w)
    PROVE  RunInvariant'
<1>0. /\ UNCHANGED <<ledger, row, folded, kind, snapshot, pubPc, pubMem>>
      /\ \A n : Logged(n) => Logged(n)'
  BY ZenonT(30) DEF Fetch, ReadStreamVersion, SkipLease, CallBackend, Raise, RecordAborted,
         WorkerUnchanged, store, publisher, Logged
<1>1. /\ pc \in [Workers -> WorkerLabels] /\ mem \in [Workers -> ProjectionState]
      /\ calls \in Nat
  BY Zenon DEF RunInvariant, TypeOK
<1>2. UnclaimedIsUntouched'
  BY <1>0, <1>1, Zenon
  DEF Fetch, ReadStreamVersion, SkipLease, CallBackend, Raise, RecordAborted,
      Goto, RunInvariant, UnclaimedIsUntouched, InRun, Created
<1>3. OneRunner'
  <2> USE <1>1 DEF Goto, RunInvariant, OneRunner, InRun, Unsent
  <2>1. CASE Fetch(w) \/ ReadStreamVersion(w)
    BY <2>1 DEF Fetch, ReadStreamVersion
  <2>2. CASE SkipLease(w)
    BY <2>2, Zenon DEF SkipLease
  <2>3. CASE CallBackend(w)
    BY <2>3 DEF CallBackend
  <2>4. CASE Raise(w) \/ RecordAborted(w)
    BY <2>4 DEF Raise, RecordAborted
  <2> QED
    BY <2>1, <2>2, <2>3, <2>4, Zenon
<1>4. CopiesAreKnown'
  BY <1>0, <1>1
  DEF Fetch, ReadStreamVersion, SkipLease, CallBackend, Raise, RecordAborted,
      Goto, RunInvariant, CopiesAreKnown, Unsent
<1>5. StatusIsRebuilt'
  BY <1>0, ZenonT(30) DEF RunInvariant, StatusIsRebuilt
<1>6. PassedStaysRecorded'
  BY <1>0, <1>1, ZenonT(30)
  DEF Fetch, ReadStreamVersion, SkipLease, CallBackend, Raise, RecordAborted,
      Goto, RunInvariant, PassedStaysRecorded, InRun, Protected
<1> QED
  BY <1>2, <1>3, <1>4, <1>5, <1>6, Zenon DEF RunInvariant
\* Normalisation records the target that the approval snapshot was compared to.
LEMMA NormalizeInv ==
    ASSUME RunInvariant, TypeOK', NEW w \in Workers, Normalize(w)
    PROVE  RunInvariant'
<1>0. /\ StoreOK /\ row.status = folded.status /\ target \in Targets
      /\ pc \in [Workers -> WorkerLabels] /\ mem \in [Workers -> ProjectionState]
      /\ mem[w] \in ProjectionState /\ mem[w].status = "running"
      /\ mem[w].normalized_params = NoParams
      /\ pc[w] = "claimed" /\ row.status \notin BeforeClaim /\ Created /\ calls = 0
  BY TypeStore, Zenon DEF Normalize, RunInvariant, TypeOK, StatusIsRebuilt, CopiesAreKnown,
                   Unsent, UnclaimedIsUntouched, InRun, OneRunner, BeforeClaim
<1> DEFINE e == [Event("ParametersNormalized") EXCEPT !.params = target]
<1>1. /\ e \in DomainEvent /\ e.name = "ParametersNormalized" /\ e.params = target
  <2>1. Event("ParametersNormalized") \in DomainEvent
    BY EventType, Zenon DEF EventNames
  <2>2. e \in DomainEvent
    BY <1>0, <2>1, Zenon DEF DomainEvent
  <2> QED
    BY <2>2, Zenon DEF Event
<1>2. /\ AppendAndProject(mem[w], e) /\ mem' = [mem EXCEPT ![w] = Apply(@, e)]
      /\ pc' = [pc EXCEPT ![w] = "normalized"]
      /\ UNCHANGED <<kind, snapshot, calls, pubPc, pubMem>>
      /\ Protected => snapshot = target
  BY Zenon DEF Normalize, RecordFrom, Goto, WorkerUnchanged, publisher, ApprovalIsCurrent
<1> HIDE DEF e
<1>3. /\ row'.status = row.status /\ folded'.status = folded.status /\ ledger' # <<>>
      /\ row'.approved_by_id = row.approved_by_id
  BY <1>0, <1>1, <1>2, AppendFacts, Zenon DEF StatusAfter, Kept
<1>4. row'.normalized_params = target
  <2>1. Apply(mem[w], e).normalized_params = target
    BY <1>0, <1>1, ApplyParams, ZenonT(30)
  <2>2. target # mem[w].normalized_params
    BY <1>0, TargetsAssumption, Zenon DEF NoParams
  <2> QED
    BY <1>2, <2>1, <2>2, ZenonT(30) DEF AppendAndProject, CommitChanged, Kept
<1>5. mem'[w].status = "running"
  BY <1>0, <1>1, <1>2, ApplyStatus, Zenon DEF StatusAfter
<1>6. UnclaimedIsUntouched'
  BY <1>0, <1>3, Zenon DEF UnclaimedIsUntouched, Created
<1>7. OneRunner'
  BY <1>0, <1>2 DEF RunInvariant, OneRunner, InRun, Unsent
<1>8. CopiesAreKnown'
  BY <1>0, <1>2, <1>5, Zenon DEF RunInvariant, CopiesAreKnown, Unsent
<1>9. StatusIsRebuilt'
  BY <1>0, <1>3, Zenon DEF StatusIsRebuilt
<1>10. PassedStaysRecorded'
  <2>1. kind' = "restart" => row'.approved_by_id # Requester
    BY <1>2, <1>3, Zenon DEF RunInvariant, PassedStaysRecorded
  <2>2. Protected' => row'.approved_by_id \in Users
    BY <1>0, <1>2, <1>3, ZenonT(30) DEF Protected, RunInvariant, PassedStaysRecorded, InRun
  <2>3. Protected' => row'.normalized_params = snapshot'
    BY <1>2, <1>4, Zenon DEF Protected
  <2>4. calls' = 0 /\ \A v \in Workers : pc'[v] \notin {"leased", "calling"}
    BY <1>0, <1>2, ZenonT(30) DEF RunInvariant, OneRunner, InRun
  <2> QED
    BY <2>1, <2>2, <2>3, <2>4 DEF PassedStaysRecorded
<1> QED
  BY <1>6, <1>7, <1>8, <1>9, <1>10, Zenon DEF RunInvariant

\* The lease is audited before the request that carries it is sent.
LEMMA IssueLeaseInv ==
    ASSUME RunInvariant, TypeOK', NEW w \in Workers, IssueLease(w)
    PROVE  RunInvariant'
<1>0. /\ StoreOK /\ row.status = folded.status /\ version[w] \in Nat
      /\ pc \in [Workers -> WorkerLabels] /\ mem \in [Workers -> ProjectionState]
      /\ mem[w] \in ProjectionState /\ mem[w].status = "running"
      /\ pc[w] = "leasing" /\ row.status \notin BeforeClaim /\ Created /\ calls = 0
  BY TypeStore, Zenon DEF IssueLease, RunInvariant, TypeOK, StatusIsRebuilt, CopiesAreKnown,
                   Unsent, UnclaimedIsUntouched, InRun, OneRunner, BeforeClaim
<1> DEFINE e == [Event("DispatchLeaseIssued") EXCEPT !.version = version[w]]
<1>1. e \in DomainEvent /\ e.name = "DispatchLeaseIssued"
  BY <1>0, EventType, ZenonT(30) DEF EventNames, Event
<1>2. /\ AppendAndProject(mem[w], e) /\ mem' = [mem EXCEPT ![w] = Apply(@, e)]
      /\ pc' = [pc EXCEPT ![w] = "leased"]
      /\ UNCHANGED <<kind, snapshot, calls, pubPc, pubMem>>
  BY Zenon DEF IssueLease, RecordFrom, Goto, WorkerUnchanged, publisher
<1> HIDE DEF e
<1>3. /\ row'.status = row.status /\ folded'.status = folded.status /\ ledger' # <<>>
      /\ row'.approved_by_id = row.approved_by_id
      /\ row'.normalized_params = row.normalized_params
      /\ Logged("DispatchLeaseIssued")'
  BY <1>0, <1>1, <1>2, AppendFacts, Zenon DEF StatusAfter, Kept
<1>4. mem'[w].status = "running"
  BY <1>0, <1>1, <1>2, ApplyStatus, Zenon DEF StatusAfter
<1>5. UnclaimedIsUntouched'
  BY <1>0, <1>3, Zenon DEF UnclaimedIsUntouched, Created
<1>6. OneRunner'
  BY <1>0, <1>2, ZenonT(30) DEF RunInvariant, OneRunner, InRun, Unsent
<1>7. CopiesAreKnown'
  BY <1>0, <1>2, <1>4, Zenon DEF RunInvariant, CopiesAreKnown, Unsent
<1>8. StatusIsRebuilt'
  BY <1>0, <1>3, ZenonT(30) DEF StatusIsRebuilt
<1>9. PassedStaysRecorded'
  BY <1>0, <1>2, <1>3, ZenonT(30) DEF Protected, RunInvariant, PassedStaysRecorded, InRun
<1> QED
  BY <1>5, <1>6, <1>7, <1>8, <1>9, Zenon DEF RunInvariant

\* A step inside a run leaves the status alone, except the claim, which starts
\* from queued.
LEMMA RunStepStatus ==
    ASSUME RunInvariant, NEW w \in Workers,
           \/ Fetch(w) \/ ReadStreamVersion(w) \/ SkipLease(w) \/ CallBackend(w)
           \/ Raise(w) \/ RecordAborted(w) \/ Normalize(w) \/ IssueLease(w)
           \/ StartClaim(w)
    PROVE  row.status = "queued" \/ row'.status = row.status
<1>0. StoreOK /\ mem[w] \in ProjectionState /\ version[w] \in Nat /\ target \in Targets
  BY TypeStore, Zenon DEF RunInvariant, TypeOK
<1>1. ASSUME NEW e \in DomainEvent, AppendAndProject(mem[w], e),
             e.name \in {"ParametersNormalized", "DispatchLeaseIssued"}
      PROVE  row'.status = row.status
  BY <1>0, <1>1, AppendFacts DEF StatusAfter, Kept
<1>2. CASE Normalize(w)
  <2> DEFINE e == [Event("ParametersNormalized") EXCEPT !.params = target]
  <2>1. e \in DomainEvent /\ e.name = "ParametersNormalized"
    BY <1>0, EventType, Zenon DEF EventNames, Event
  <2>2. AppendAndProject(mem[w], e)
    BY <1>2, Zenon DEF Normalize, RecordFrom
  <2> QED
    BY <1>1, <2>1, <2>2, Zenon
<1>3. CASE IssueLease(w)
  <2> DEFINE e == [Event("DispatchLeaseIssued") EXCEPT !.version = version[w]]
  <2>1. e \in DomainEvent /\ e.name = "DispatchLeaseIssued"
    BY <1>0, EventType, Zenon DEF EventNames, Event
  <2>2. AppendAndProject(mem[w], e)
    BY <1>3, Zenon DEF IssueLease, RecordFrom
  <2> QED
    BY <1>1, <2>1, <2>2, Zenon
<1> QED
  BY <1>2, <1>3, ZenonT(30)
  DEF Fetch, ReadStreamVersion, SkipLease, CallBackend, Raise, RecordAborted,
      StartClaim, store

-----------------------------------------------------------------------------
(* The theorems.                                                           *)

\* RunInvariant is inductive, and no step leaves a terminal status.
LEMMA NextInv ==
    ASSUME RunInvariant, [Next]_vars
    PROVE  /\ RunInvariant'
           /\ row.status \in TERMINAL_STATUSES => row'.status \in TERMINAL_STATUSES
<1>0. TypeOK'
  BY NextType, Zenon DEF RunInvariant
<1> DEFINE Goal == /\ RunInvariant'
                   /\ row.status \in TERMINAL_STATUSES
                          => row'.status \in TERMINAL_STATUSES
<1>1. ASSUME Calm  PROVE Goal
  BY <1>0, <1>1, CalmInv, ZenonT(30) DEF Calm
<1>2. ASSUME Opening  PROVE Goal
  BY <1>0, <1>2, OpeningInv, Zenon DEF Opening, BeforeClaim, TERMINAL_STATUSES
<1>3. ASSUME NEW w \in Workers,
             row.status = "queued" \/ row'.status = row.status, RunInvariant'
      PROVE  Goal
  BY <1>3, Zenon DEF TERMINAL_STATUSES
<1> SUFFICES Goal
  BY Zenon
<1> HIDE DEF Goal
<1>4. CASE CreateQueued \/ CreatePending \/ Decide
  BY <1>1, <1>2, <1>4, CreateApproveOpens, RequestCalm, Zenon DEF Decide
<1>5. CASE Publish \/ Redeliver \/ Expire \/ Tick \/ Administer \/ UNCHANGED vars
  BY <1>1, <1>5, QuietCalm, RequestCalm, Zenon DEF Publish, Expire, Administer
<1>6. ASSUME NEW w \in Workers, Work(w) \/ RecordAborted(w) \/ WorkerDies(w)
      PROVE  Goal
  <2>1. CASE \/ LoseClaim(w) \/ RefuseClaim(w) \/ FailPreflight(w)
             \/ RecordResponse(w) \/ RecordFailure(w) \/ WorkerDies(w)
    BY <1>1, <2>1, WorkerDoneCalm, Zenon
  <2>2. CASE \/ Fetch(w) \/ ReadStreamVersion(w) \/ SkipLease(w) \/ CallBackend(w)
             \/ Raise(w) \/ RecordAborted(w)
    BY <1>0, <1>3, <2>2, SilentInv, RunStepStatus, Zenon
  <2>3. CASE StartClaim(w)
    BY <1>0, <1>3, <2>3, StartClaimInv, RunStepStatus, Zenon
  <2>4. CASE Normalize(w)
    BY <1>0, <1>3, <2>4, NormalizeInv, RunStepStatus, Zenon
  <2>5. CASE IssueLease(w)
    BY <1>0, <1>3, <2>5, IssueLeaseInv, RunStepStatus, Zenon
  <2> QED
    BY <1>6, <2>1, <2>2, <2>3, <2>4, <2>5, Zenon DEF Work
<1>7. CASE PublisherDies
  BY <1>1, <1>7, QuietCalm, Zenon
<1> QED
  BY <1>4, <1>5, <1>6, <1>7, Zenon DEF Next, Fault

\* The strengthened invariant of a run holds in every reachable state.
THEOREM RunInvariantHolds == Spec => []RunInvariant
<1>1. RunInvariant /\ [Next]_vars => RunInvariant'
  BY NextInv, Zenon
<1> QED
  BY InitInv, <1>1, PTL DEF Spec

\* _call_backend is reached at most once, for any number of workers, job
\* deliveries and faults.
THEOREM DispatchedOnce == Spec => []AtMostOneDispatch
<1>1. RunInvariant => AtMostOneDispatch
  BY Zenon DEF RunInvariant, OneRunner, AtMostOneDispatch
<1> QED
  BY RunInvariantHolds, <1>1, PTL

\* What reaches the backend for a protected procedure is what was approved.
THEOREM ApprovedDispatch == Spec => []DispatchesWhatWasApproved
<1>1. RunInvariant => DispatchesWhatWasApproved
  BY Zenon DEF RunInvariant, PassedStaysRecorded, DispatchesWhatWasApproved
<1> QED
  BY RunInvariantHolds, <1>1, PTL

\* The status column is the status the ledger rebuilds to, whoever wrote last.
THEOREM StatusRebuilds == Spec => []StatusIsRebuilt
<1>1. RunInvariant => StatusIsRebuilt
  BY Zenon DEF RunInvariant
<1> QED
  BY RunInvariantHolds, <1>1, PTL

\* No stale writer makes a finished execution live again.
THEOREM TerminalStaysTerminal == Spec => NoResurrection
<1>1. RunInvariant /\ [Next]_vars =>
          [row.status \in TERMINAL_STATUSES => row'.status \in TERMINAL_STATUSES]_vars
  BY NextInv, Zenon
<1> QED
  BY RunInvariantHolds, <1>1, PTL DEF Spec, NoResurrection
-----------------------------------------------------------------------------
(* The execution contract.                                                 *)

\* Nothing happens before create_execution, and its event is never taken back.
LEMMA BeforeRequestStep ==
    ASSUME RunInvariant, RunInvariant', BeforeRequest, [Next]_vars
    PROVE  /\ BeforeRequest'
           /\ Created => Created'
           /\ ~Created /\ Created' => CreateQueued \/ CreatePending
<1>1. CASE ~Created
  <2>1. /\ pubPc = "none" /\ published = 0 /\ deliveries = 0
        /\ expiryJob = "none" /\ sweeper = "idle"
        /\ \A w \in Workers : pc[w] = "idle"
        /\ row.status = "queued"
    BY <1>1, Zenon DEF BeforeRequest, RunInvariant, UnclaimedIsUntouched
  <2>2. CASE CreateQueued \/ CreatePending
    <3>1. Opening
      BY <2>2, CreateApproveOpens, Zenon
    <3> QED
      BY <1>1, <2>2, <3>1, Zenon DEF Opening, Created, BeforeRequest
  <2>3. CASE Administer \/ UNCHANGED vars
    BY <1>1, <2>1, <2>3, Zenon
    DEF Administer, EditProcedure, MoveTarget, RevokeSuperuser, AdminUnchanged, vars,
        store, publisher, expiry, worker, Created, BeforeRequest
  <2>4. ~Decide
    BY <1>1, <2>1, Zenon DEF Decide, Approve, Reject, Cancel
  <2>5. ~Publish /\ ~Redeliver /\ ~PublisherDies /\ ~Expire /\ ~Tick
    BY <1>1, <2>1
    DEF Publish, PublishJob, PublishRefused, PublishRaisedLate, RecordEnqueueFailed,
        RecordEnqueued, ScheduleExpiry, Redeliver, PublisherDies, Expire,
        RunExpiryJob, SelectCandidate, SweepCandidate, Tick
  <2>6. ASSUME NEW w \in Workers
        PROVE  ~Work(w) /\ ~RecordAborted(w) /\ ~WorkerDies(w)
    <3>1. pc[w] = "idle" /\ ~(deliveries > 0)
      BY <2>1
    <3>2. /\ ~Fetch(w) /\ ~LoseClaim(w) /\ ~RefuseClaim(w) /\ ~StartClaim(w)
          /\ ~FailPreflight(w) /\ ~Normalize(w) /\ ~ReadStreamVersion(w)
      BY <3>1, Zenon DEF Fetch, LoseClaim, RefuseClaim, StartClaim, FailPreflight, Normalize,
                  ReadStreamVersion
    <3>3. /\ ~IssueLease(w) /\ ~SkipLease(w) /\ ~CallBackend(w) /\ ~RecordResponse(w)
          /\ ~Raise(w) /\ ~RecordFailure(w) /\ ~RecordAborted(w) /\ ~WorkerDies(w)
      BY <3>1, Zenon DEF IssueLease, SkipLease, CallBackend, RecordResponse, Raise,
                  RecordFailure, RecordAborted, WorkerDies
    <3> QED
      BY <3>2, <3>3, Zenon DEF Work
  <2> QED
    BY <2>2, <2>3, <2>4, <2>5, <2>6, Zenon DEF Next, Fault
<1>2. CASE Created
  <2> SUFFICES Created'
    BY <1>2, Zenon DEF BeforeRequest
  <2>1. ASSUME Calm \/ Opening  PROVE Created'
    BY <1>2, <2>1, ZenonT(30) DEF Calm, Opening, Created
  <2>2. ASSUME NEW w \in Workers, Work(w) \/ RecordAborted(w) \/ WorkerDies(w)
        PROVE  Created'
    <3>1. CASE \/ LoseClaim(w) \/ RefuseClaim(w) \/ FailPreflight(w)
               \/ RecordResponse(w) \/ RecordFailure(w) \/ WorkerDies(w)
      BY <2>1, <3>1, WorkerDoneCalm, Zenon
    <3>2. CASE \/ Fetch(w) \/ ReadStreamVersion(w) \/ SkipLease(w) \/ CallBackend(w)
               \/ Raise(w) \/ RecordAborted(w)
      BY <1>2, <3>2, ZenonT(30) DEF Fetch, ReadStreamVersion, SkipLease, CallBackend, Raise,
                        RecordAborted, store, Created
    <3>3. CASE StartClaim(w) \/ Normalize(w) \/ IssueLease(w)
      <4>1. \E e : ledger' = Append(ledger, e)
        BY <3>3, Zenon DEF StartClaim, Normalize, IssueLease, RecordFrom, AppendLocked,
                    AppendAndProject
      <4>2. ledger \in Seq(DomainEvent)
        BY TypeStore, Zenon DEF RunInvariant, StoreOK
      <4> QED
        BY <4>1, <4>2 DEF Created
    <3> QED
      BY <2>2, <3>1, <3>2, <3>3, Zenon DEF Work
  <2>3. CASE CreateQueued \/ CreatePending \/ Decide
    <3>1. Calm \/ Opening
      BY <2>3, CreateApproveOpens, RequestCalm, Zenon DEF Decide
    <3> QED
      BY <2>1, <3>1, Zenon
  <2>4. CASE \/ Publish \/ Redeliver \/ Expire \/ Tick \/ PublisherDies
             \/ Administer \/ UNCHANGED vars
    <3>1. Calm
      BY <2>4, RequestCalm, QuietCalm, Zenon DEF Publish, Expire, Administer
    <3> QED
      BY <2>1, <3>1, Zenon
  <2> QED
    BY <2>2, <2>3, <2>4, Zenon DEF Next, Fault
<1> QED
  BY <1>1, <1>2, Zenon

\* The contract's Close, Drop or nothing, for a step that may end a run.
LEMMA CalmImplements ==
    ASSUME RunInvariant, RunInvariant', Created <=> Created', Calm
    PROVE  [Contract!Next]_<<Protected, Phase, Ticket>>
<1>1. Protected' = Protected /\ calls' = calls /\ calls \in Nat
  BY ZenonT(30) DEF Calm, Protected, RunInvariant, TypeOK
<1>2. Phase' = Phase
      \/ (Phase \in {"awaiting", "queued", "running"} /\ Phase' = "over")
  <2>1. row.status \in Statuses /\ row'.status \in Statuses
    BY Zenon DEF RunInvariant, TypeOK, ProjectionState
  <2>2. CASE row'.status = row.status
    BY <2>2, Zenon DEF Phase
  <2>3. CASE row'.status \in TERMINAL_STATUSES /\ row'.status # row.status
    <3>1. Created /\ Created'
      BY <2>3, Zenon DEF Calm, Created
    <3>2. Phase' = "over"
      BY <2>3, <3>1, Zenon DEF Phase, TERMINAL_STATUSES
    <3>3. Phase \in {"awaiting", "queued", "running", "over"}
      BY <3>1, Zenon DEF Phase
    <3> QED
      BY <3>2, <3>3, Zenon
  <2> QED
    BY <2>2, <2>3, ZenonT(30) DEF Calm
<1>3. Ticket' = Ticket \/ (Ticket = "held" /\ Ticket' = "none")
  <2>1. (\E w \in Workers : pc'[w] \in Unsent) => \E w \in Workers : pc[w] \in Unsent
    BY Zenon DEF Calm, Unsent
  <2> QED
    BY <1>1, <2>1, ZenonT(30) DEF Ticket
<1> QED
  BY <1>1, <1>2, <1>3, Zenon DEF Contract!Next, Contract!Close, Contract!Drop, Contract!Lost

\* create_execution is the contract's request.
LEMMA CreateImplements ==
    ASSUME RunInvariant, RunInvariant', CreateQueued \/ CreatePending
    PROVE  Contract!Request
<1>1. Opening /\ ~Created
  BY CreateApproveOpens, Zenon DEF CreateQueued, CreatePending
<1>2. Protected' = Protected /\ Ticket' = Ticket /\ Created'
  BY <1>1, Zenon DEF Opening, Protected, Ticket, Created
<1>3. StoreOK
  BY TypeStore, Zenon DEF RunInvariant
<1>4. CASE CreateQueued
  <2>1. AppendLocked(Event("ExecutionQueued")) /\ Event("ExecutionQueued") \in DomainEvent
        /\ Event("ExecutionQueued").name = "ExecutionQueued"
    BY <1>4, EventType, Zenon DEF CreateQueued, EventNames
  <2>2. row'.status = "queued"
    BY <1>3, <2>1, AppendLockedFacts, Zenon DEF StatusAfter
  <2>3. Phase = "absent" /\ Phase' = "queued" /\ ~Protected
    BY <1>1, <1>2, <1>4, <2>2, Zenon DEF Phase, CreateQueued, TERMINAL_STATUSES
  <2> QED
    BY <1>2, <2>3, Zenon DEF Contract!Request
<1>5. CASE CreatePending
  <2> DEFINE d == Event("ExecutionRequested")
             e == Event("ApprovalRequested")
  <2>1. /\ d \in DomainEvent /\ d.name = "ExecutionRequested"
        /\ e \in DomainEvent /\ e.name = "ApprovalRequested"
    BY EventType, ZenonT(30) DEF EventNames
  <2>2. AppendBoth(d, e)
    BY <1>5, Zenon DEF CreatePending
  <2> HIDE DEF d, e
  <2>3. row'.status = "pending_approval"
    BY <1>3, <2>1, <2>2, AppendBothFacts, Zenon DEF StatusAfter
  <2> QED
    BY <1>1, <1>2, <1>5, <2>3, Zenon DEF Contract!Request, Phase, CreatePending, TERMINAL_STATUSES
<1> QED
  BY <1>4, <1>5, Zenon

\* approve_execution is the contract's grant.
LEMMA ApproveImplements ==
    ASSUME RunInvariant, RunInvariant', NEW u \in Users, Approve(u)
    PROVE  Contract!Grant
<1>1. Opening /\ Created /\ Created'
  BY CreateApproveOpens, Zenon
  DEF Approve, Opening, Created, RunInvariant, UnclaimedIsUntouched
<1>2. Protected' = Protected /\ Ticket' = Ticket /\ StoreOK
  BY <1>1, TypeStore DEF Opening, Protected, Ticket, RunInvariant
<1> DEFINE d == [Event("ExecutionApproved") EXCEPT !.by = u]
           e == Event("ExecutionQueued")
<1>3. /\ d \in DomainEvent /\ d.name = "ExecutionApproved"
      /\ e \in DomainEvent /\ e.name = "ExecutionQueued"
  BY EventType, ZenonT(30) DEF EventNames, Event
<1>4. AppendBoth(d, e)
  BY Zenon DEF Approve
<1> HIDE DEF d, e
<1>5. row'.status = "queued"
  BY <1>2, <1>3, <1>4, AppendBothFacts, Zenon DEF StatusAfter
<1>6. Phase = "awaiting" /\ Phase' = "queued"
  BY <1>1, <1>5, Zenon DEF Approve, Phase, TERMINAL_STATUSES
<1> QED
  BY <1>2, <1>6, Zenon DEF Contract!Grant

\* The locked claim is the contract's claim.
LEMMA ClaimImplements ==
    ASSUME RunInvariant, RunInvariant', Created, Created',
           NEW w \in Workers, StartClaim(w)
    PROVE  Contract!Claim
<1>1. StoreOK /\ pc \in [Workers -> WorkerLabels]
  BY TypeStore, Zenon DEF RunInvariant, TypeOK
<1> DEFINE e == Event("ExecutionStarted")
<1>2. e \in DomainEvent /\ e.name = "ExecutionStarted" /\ AppendLocked(e)
  BY EventType, Zenon DEF EventNames, StartClaim
<1> HIDE DEF e
<1>3. row'.status = "running"
  BY <1>1, <1>2, AppendLockedFacts, Zenon DEF StatusAfter
<1>4. Phase = "queued" /\ Phase' = "running"
  BY <1>3, ZenonT(30) DEF StartClaim, Phase, TERMINAL_STATUSES
<1>5. calls = 0 /\ calls' = 0 /\ kind' = kind
      /\ \A v \in Workers : pc[v] \notin Unsent
  BY ZenonT(30) DEF StartClaim, RunInvariant, UnclaimedIsUntouched, BeforeClaim, InRun, Unsent,
         WorkerUnchanged
<1>6. pc'[w] \in Unsent
  BY <1>1, ZenonT(30) DEF StartClaim, Goto, Unsent
<1>7. Ticket = "none"
  BY <1>5 DEF Ticket
<1>8. Ticket' = "held"
  BY <1>5, <1>6 DEF Ticket
<1> QED
  BY <1>4, <1>5, <1>7, <1>8, Zenon DEF Contract!Claim, Protected

\* Every other step of a run leaves the contract alone, sends its one request
\* or drops its ticket.
LEMMA RunStepImplements ==
    ASSUME RunInvariant, RunInvariant', Created <=> Created', NEW w \in Workers,
           \/ Fetch(w) \/ ReadStreamVersion(w) \/ SkipLease(w) \/ CallBackend(w)
           \/ Raise(w) \/ RecordAborted(w) \/ Normalize(w) \/ IssueLease(w)
    PROVE  [Contract!Next]_<<Protected, Phase, Ticket>>
<1>1. pc \in [Workers -> WorkerLabels] /\ calls \in Nat
  BY Zenon DEF RunInvariant, TypeOK
<1>2. row'.status = row.status
  <2>1. CASE \/ Fetch(w) \/ ReadStreamVersion(w) \/ SkipLease(w) \/ CallBackend(w)
             \/ Raise(w) \/ RecordAborted(w)
    BY <2>1, ZenonT(30) DEF Fetch, ReadStreamVersion, SkipLease, CallBackend, Raise,
                RecordAborted, store
  <2>2. CASE Normalize(w) \/ IssueLease(w)
    <3>1. pc[w] \in InRun
      BY <2>2, Zenon DEF Normalize, IssueLease, InRun
    <3>2. row.status # "queued"
      BY <3>1, Zenon DEF RunInvariant, UnclaimedIsUntouched, BeforeClaim
    <3> QED
      BY <2>2, <3>2, RunStepStatus, Zenon
  <2> QED
    BY <2>1, <2>2, ZenonT(30)
<1>3. Phase' = Phase /\ Protected' = Protected
  <2>1. kind' = kind
    BY Zenon DEF Fetch, ReadStreamVersion, SkipLease, CallBackend, Raise, RecordAborted,
           Normalize, IssueLease, WorkerUnchanged
  <2> QED
    BY <1>2, <2>1, Zenon DEF Phase, Protected
<1>4. CASE CallBackend(w)
  <2>4. pc[w] \in Unsent /\ calls' = calls + 1
    BY <1>4, Zenon DEF CallBackend, Unsent
  <2>5. calls = 0
    BY <2>4, Zenon DEF RunInvariant, OneRunner
  <2>1. pc[w] \in Unsent /\ calls = 0 /\ calls' = 1
    BY <2>4, <2>5
  <2>2. Ticket = "held"
    BY <2>1 DEF Ticket
  <2>3. Ticket' = "used"
    <3>1. calls' > 0
      BY <2>1
    <3> QED
      BY <3>1, Zenon DEF Ticket
  <2> QED
    BY <1>3, <2>2, <2>3, Zenon DEF Contract!Next, Contract!Send
<1>5. CASE \/ Fetch(w) \/ ReadStreamVersion(w) \/ SkipLease(w) \/ Raise(w)
           \/ RecordAborted(w) \/ Normalize(w) \/ IssueLease(w)
  <2>1. /\ calls' = calls
        /\ \E l \in WorkerLabels : pc' = [pc EXCEPT ![w] = l]
                                   /\ (l \in Unsent => pc[w] \in Unsent)
    BY <1>5, Zenon DEF Fetch, ReadStreamVersion, SkipLease, Raise, RecordAborted, Normalize,
                IssueLease, RecordFrom, Goto, WorkerLabels, Unsent
  <2>2. (\E v \in Workers : pc'[v] \in Unsent) => \E v \in Workers : pc[v] \in Unsent
    BY <1>1, <2>1, Zenon
  <2>3. Ticket' = Ticket \/ (Ticket = "held" /\ Ticket' = "none")
    BY <1>1, <2>1, <2>2, Zenon DEF Ticket
  <2> QED
    BY <1>3, <2>3, Zenon DEF Contract!Next, Contract!Drop, Contract!Lost
<1> QED
  BY <1>4, <1>5, Zenon

\* Every step of the detailed specification is a step of the contract or none.
LEMMA StepImplements ==
    ASSUME RunInvariant, RunInvariant', BeforeRequest, [Next]_vars
    PROVE  [Contract!Next]_<<Protected, Phase, Ticket>>
<1>1. /\ Created => Created'
      /\ ~Created /\ Created' => CreateQueued \/ CreatePending
  BY BeforeRequestStep, Zenon
<1>2. CASE CreateQueued \/ CreatePending
  BY <1>2, CreateImplements, Zenon DEF Contract!Next
<1>3. CASE ~(CreateQueued \/ CreatePending)
  <2>0. Created <=> Created'
    BY <1>1, <1>3, Zenon
  <2>1. ASSUME Calm  PROVE [Contract!Next]_<<Protected, Phase, Ticket>>
    BY <2>0, <2>1, CalmImplements, Zenon
  <2>2. CASE \E u \in Users : Approve(u)
    BY <2>2, ApproveImplements, Zenon DEF Contract!Next
  <2>3. CASE \/ \E u \in Users : Reject(u)
             \/ Cancel \/ Publish \/ Redeliver \/ Expire \/ Tick \/ PublisherDies
             \/ Administer \/ UNCHANGED vars
    <3>1. Calm
      BY <2>3, RequestCalm, QuietCalm, Zenon DEF Publish, Expire, Administer
    <3> QED
      BY <2>1, <3>1, Zenon
  <2>4. ASSUME NEW w \in Workers, Work(w) \/ RecordAborted(w) \/ WorkerDies(w)
        PROVE  [Contract!Next]_<<Protected, Phase, Ticket>>
    <3>1. CASE \/ LoseClaim(w) \/ RefuseClaim(w) \/ FailPreflight(w)
               \/ RecordResponse(w) \/ RecordFailure(w) \/ WorkerDies(w)
      BY <2>1, <3>1, WorkerDoneCalm, Zenon
    <3>2. CASE StartClaim(w)
      <4>1. Created
        BY <3>2, Zenon DEF StartClaim, BeforeRequest
      <4> QED
        BY <2>0, <3>2, <4>1, ClaimImplements, Zenon DEF Contract!Next
    <3>3. CASE \/ Fetch(w) \/ ReadStreamVersion(w) \/ SkipLease(w) \/ CallBackend(w)
               \/ Raise(w) \/ RecordAborted(w) \/ Normalize(w) \/ IssueLease(w)
      BY <2>0, <3>3, RunStepImplements, Zenon
    <3> QED
      BY <2>4, <3>1, <3>2, <3>3, Zenon DEF Work
  <2> QED
    BY <1>3, <2>2, <2>3, <2>4, Zenon DEF Next, Decide, Fault
<1> QED
  BY <1>2, <1>3, Zenon

\* The request, approval, publishing, worker and expiry code of one execution,
\* with its redeliveries, stale copies and faults, implements the contract.
THEOREM ImplementsContractHolds == Spec => ImplementsContract
<1>1. Init => BeforeRequest
  BY Zenon DEF Init, BeforeRequest
<1>2. Init => Contract!Init
  BY DEF Init, Contract!Init, Phase, Ticket, Protected, Created, Unsent
<1>3. RunInvariant /\ RunInvariant' /\ BeforeRequest /\ [Next]_vars => BeforeRequest'
  BY BeforeRequestStep, Zenon
<1>4. RunInvariant /\ RunInvariant' /\ BeforeRequest /\ [Next]_vars
          => [Contract!Next]_<<Protected, Phase, Ticket>>
  BY StepImplements, Zenon
<1> QED
  BY <1>1, <1>2, <1>3, <1>4, RunInvariantHolds, PTL
  DEF Spec, ImplementsContract, Contract!Spec, Contract!vars

-----------------------------------------------------------------------------
(* What appending does to the gates and to the terminal events.            *)

\* The names of the gates.
GateNames == {"ExecutionApproved", "ExecutionQueued", "ExecutionStarted",
              "ParametersNormalized", "DispatchLeaseIssued"}

\* The gates by number.
LEMMA GatesByNumber ==
    /\ DOMAIN Gates = 1..5
    /\ Gates[1] = "ExecutionApproved" /\ Gates[2] = "ExecutionQueued"
    /\ Gates[3] = "ExecutionStarted" /\ Gates[4] = "ParametersNormalized"
    /\ Gates[5] = "DispatchLeaseIssued"
    /\ \A h \in DOMAIN Gates : Gates[h] \in GateNames
    /\ \A g, h \in DOMAIN Gates : Gates[g] = Gates[h] => g = h
BY DEF Gates, GateNames

\* The gate after the fourth.
LEMMA FourAndOne == 4 \in 1..5 /\ 4 + 1 = 5
OBVIOUS

\* A ledger with one more event.
LEMMA OneMore ==
    ASSUME ledger \in Seq(DomainEvent), NEW e \in DomainEvent, ledger' = Append(ledger, e)
    PROVE  /\ ledger' = ledger \o <<e>> /\ Created'
           /\ <<e>> \in Seq(DomainEvent) /\ DOMAIN <<e>> = {1} /\ <<e>>[1] = e
BY DEF Created

\* Where the events of a longer ledger come from.
LEMMA GrownLedger ==
    ASSUME ledger \in Seq(DomainEvent), NEW t \in Seq(DomainEvent),
           ledger' = ledger \o t
    PROVE  /\ \A i \in DOMAIN ledger : i \in DOMAIN ledger' /\ ledger'[i] = ledger[i]
           /\ \A k \in DOMAIN t : /\ Len(ledger) + k \in DOMAIN ledger'
                                  /\ ledger'[Len(ledger) + k] = t[k]
           /\ \A i \in DOMAIN ledger' :
                  \/ i \in DOMAIN ledger /\ ledger'[i] = ledger[i]
                  \/ \E k \in DOMAIN t : i = Len(ledger) + k /\ ledger'[i] = t[k]
           /\ \A i \in DOMAIN ledger, k \in DOMAIN t : i < Len(ledger) + k
<1>1. /\ DOMAIN ledger = 1..Len(ledger) /\ DOMAIN t = 1..Len(t)
      /\ DOMAIN ledger' = 1..(Len(ledger) + Len(t))
      /\ Len(ledger) \in Nat /\ Len(t) \in Nat
  OBVIOUS
<1>2. \A i \in 1..Len(ledger) : ledger'[i] = ledger[i]
  OBVIOUS
<1>3. \A k \in 1..Len(t) : ledger'[Len(ledger) + k] = t[k]
  OBVIOUS
<1>4. \A i \in DOMAIN ledger' : \/ i \in 1..Len(ledger)
                                \/ \E k \in 1..Len(t) : i = Len(ledger) + k
  <2> SUFFICES ASSUME NEW i \in DOMAIN ledger', i \notin 1..Len(ledger)
               PROVE  \E k \in 1..Len(t) : i = Len(ledger) + k
    BY Zenon
  <2>1. i - Len(ledger) \in 1..Len(t) /\ i = Len(ledger) + (i - Len(ledger))
    BY <1>1
  <2> QED
    BY <2>1, Zenon
<1>5. /\ \A i \in DOMAIN ledger : i \in DOMAIN ledger'
      /\ \A k \in DOMAIN t : Len(ledger) + k \in DOMAIN ledger'
      /\ \A i \in DOMAIN ledger, k \in DOMAIN t : i < Len(ledger) + k
  BY <1>1
<1>6. \A i \in DOMAIN ledger : i \in DOMAIN ledger' /\ ledger'[i] = ledger[i]
  BY <1>1, <1>2, <1>5, Zenon
<1>7. \A k \in DOMAIN t : Len(ledger) + k \in DOMAIN ledger' /\ ledger'[Len(ledger) + k] = t[k]
  BY <1>1, <1>3, <1>5, Zenon
<1>8. ASSUME NEW i \in DOMAIN ledger'
      PROVE  \/ i \in DOMAIN ledger /\ ledger'[i] = ledger[i]
             \/ \E k \in DOMAIN t : i = Len(ledger) + k /\ ledger'[i] = t[k]
  BY <1>1, <1>4, <1>6, <1>7, Zenon
<1> QED
  BY <1>5, <1>6, <1>7, <1>8, Zenon

\* A step that appends events that are no gates, possibly none.
Ungated == \E t \in Seq(DomainEvent) :
               ledger' = ledger \o t /\ \A k \in DOMAIN t : t[k].name \notin GateNames

\* Such a step leaves the gates of the stream as they are.
LEMMA UngatedGates ==
    ASSUME ledger \in Seq(DomainEvent), Ungated
    PROVE  /\ GatesInOrder => GatesInOrder'
           /\ \A g : NoneFrom(g) => NoneFrom(g)'
<1>1. PICK t \in Seq(DomainEvent) :
          ledger' = ledger \o t /\ \A k \in DOMAIN t : t[k].name \notin GateNames
  BY Zenon DEF Ungated
<1>2. \A i \in DOMAIN ledger' : ledger'[i].name \in GateNames =>
          i \in DOMAIN ledger /\ ledger'[i] = ledger[i]
  BY <1>1, GrownLedger
<1>3. \A h \in DOMAIN Gates : Gates[h] \in GateNames
  BY GatesByNumber, Zenon
<1>4. ASSUME GatesInOrder  PROVE GatesInOrder'
  BY <1>2, <1>3, <1>4, Zenon DEF GatesInOrder
<1>5. ASSUME NEW g, NoneFrom(g)  PROVE NoneFrom(g)'
  BY <1>2, <1>3, <1>5, Zenon DEF NoneFrom
<1> QED
  BY <1>4, <1>5, Zenon

\* Appending the next gate keeps the order.
LEMMA NextGate ==
    ASSUME ledger \in Seq(DomainEvent), NEW e \in DomainEvent, NEW g \in DOMAIN Gates,
           ledger' = Append(ledger, e), e.name = Gates[g],
           GatesInOrder, NoneFrom(g)
    PROVE  /\ GatesInOrder'
           /\ NoneFrom(g + 1)'
<1>1. ledger' = ledger \o <<e>> /\ <<e>> \in Seq(DomainEvent) /\ DOMAIN <<e>> = {1}
      /\ <<e>>[1] = e
  OBVIOUS
<1> DEFINE n == Len(ledger) + 1
<1>2. /\ \A i \in DOMAIN ledger' : \/ i \in DOMAIN ledger /\ ledger'[i] = ledger[i]
                                   \/ i = n /\ ledger'[i] = e
      /\ \A i \in DOMAIN ledger : i < n
  BY <1>1, GrownLedger
<1>3. n \in Nat /\ DOMAIN ledger \subseteq Nat /\ DOMAIN ledger' \subseteq Nat
      /\ DOMAIN Gates \subseteq Nat
  BY GatesByNumber
<1> HIDE DEF n
<1>4. \A i \in DOMAIN ledger', h \in DOMAIN Gates :
          ledger'[i].name = Gates[h] => \/ i \in DOMAIN ledger /\ h < g
                                        \/ i = n /\ h = g
  BY <1>2, GatesByNumber DEF NoneFrom
<1>5. GatesInOrder'
  <2> SUFFICES ASSUME NEW i \in DOMAIN ledger', NEW j \in DOMAIN ledger',
                      NEW a \in DOMAIN Gates, NEW b \in DOMAIN Gates,
                      i < j, ledger'[i].name = Gates[a], ledger'[j].name = Gates[b]
               PROVE  a < b
    BY Zenon DEF GatesInOrder
  <2>1. CASE j \in DOMAIN ledger
    <3>1. i \in DOMAIN ledger
      BY <1>2, <1>3, <2>1
    <3>2. ledger'[i] = ledger[i] /\ ledger'[j] = ledger[j]
      BY <1>2, <1>3, <2>1, <3>1
    <3> QED
      BY <2>1, <3>1, <3>2, Zenon DEF GatesInOrder
  <2>2. CASE j = n
    BY <1>2, <1>3, <1>4, <2>2
  <2> QED
    BY <1>2, <2>1, <2>2, Zenon
<1>6. NoneFrom(g + 1)'
  <2> SUFFICES ASSUME NEW i \in DOMAIN ledger', NEW h \in DOMAIN Gates,
                      ledger'[i].name = Gates[h]
               PROVE  h < g + 1
    BY Zenon DEF NoneFrom
  <2> QED
    BY <1>3, <1>4
<1> QED
  BY <1>5, <1>6, Zenon

\* The terminal events of a longer ledger.
LEMMA GrownTerminals ==
    ASSUME ledger \in Seq(DomainEvent), NEW t \in Seq(DomainEvent),
           ledger' = ledger \o t
    PROVE  /\ ClosedOnce' => ClosedOnce
           /\ Closed => Closed'
           /\ (\E k \in DOMAIN t : t[k].name \in TerminalEventNames)
                  => Closed' /\ (ClosedOnce' => ~Closed)
           /\ (\A k \in DOMAIN t : t[k].name \notin TerminalEventNames)
                  => (Closed' => Closed)
<1>1. /\ \A i \in DOMAIN ledger : i \in DOMAIN ledger' /\ ledger'[i] = ledger[i]
      /\ \A k \in DOMAIN t : /\ Len(ledger) + k \in DOMAIN ledger'
                             /\ ledger'[Len(ledger) + k] = t[k]
      /\ \A i \in DOMAIN ledger' :
             \/ i \in DOMAIN ledger /\ ledger'[i] = ledger[i]
             \/ \E k \in DOMAIN t : i = Len(ledger) + k /\ ledger'[i] = t[k]
      /\ \A i \in DOMAIN ledger, k \in DOMAIN t : i < Len(ledger) + k
  BY GrownLedger, Zenon
<1>2. (ClosedOnce' => ClosedOnce) /\ (Closed => Closed')
  BY <1>1, Zenon DEF ClosedOnce, Closed
<1>3. ASSUME NEW k \in DOMAIN t, t[k].name \in TerminalEventNames
      PROVE  Closed' /\ (ClosedOnce' => ~Closed)
  <2>1. Closed'
    BY <1>1, <1>3, Zenon DEF Closed
  <2>2. ASSUME ClosedOnce', NEW i \in DOMAIN ledger,
               ledger[i].name \in TerminalEventNames
        PROVE  FALSE
    <3>1. i = Len(ledger) + k
      BY <1>1, <1>3, <2>2, Zenon DEF ClosedOnce
    <3>2. i < Len(ledger) + k /\ i \in Nat
      BY <1>1
    <3> QED
      BY <3>1, <3>2
  <2> QED
    BY <2>1, <2>2, Zenon DEF Closed
<1>4. ASSUME \A k \in DOMAIN t : t[k].name \notin TerminalEventNames, Closed'
      PROVE  Closed
  BY <1>1, <1>4, Zenon DEF Closed
<1> QED
  BY <1>2, <1>3, <1>4, Zenon

-----------------------------------------------------------------------------
(* What a late writer's save does to the row.                              *)

\* A terminal event saved from a live copy changes a clean row as it would
\* change any row, whichever columns the copy has wrong otherwise.
LEMMA EndFromCopy ==
    ASSUME NEW r \in ProjectionState, NEW old \in ProjectionState,
           NEW e \in DomainEvent, e.name \in TerminalEventNames,
           Clean(r), Clean(old), old.status \notin TERMINAL_STATUSES
    PROVE  CommitChanged(r, old, Apply(old, e)) = Apply(r, e)
<1> DEFINE status == StatusAfter(e.name, "queued")
           code == IF e.name \in {"ExecutionFailed", "ExecutionEnqueueFailed"}
                   THEN e.code ELSE ""
           res == IF e.name \in {"ExecutionFailed", "ExecutionSucceeded"}
                  THEN e.result ELSE "none"
           Ended(x) ==
               [status |-> status, started_at |-> x.started_at, finished_at |-> TRUE,
                error_code |-> code, result |-> res,
                normalized_params |-> x.normalized_params, job_id |-> x.job_id,
                approved_by_id |-> x.approved_by_id]
<1>1. ASSUME NEW x \in ProjectionState, x.result = "none"
      PROVE  Apply(x, e) = Ended(x)
  <2>1. CASE e.name = "ExecutionFailed"
    BY <1>1, <2>1, Zenon DEF Apply, FailWith, ProjectionState, StatusAfter
  <2>2. CASE e.name = "ExecutionEnqueueFailed"
    BY <1>1, <2>2, Zenon DEF Apply, FailWith, ProjectionState, StatusAfter
  <2>3. CASE e.name = "ExecutionSucceeded"
    BY <1>1, <2>3, Zenon DEF Apply, Finish, ProjectionState, StatusAfter
  <2>4. CASE e.name \in {"ExecutionRejected", "ExecutionCancelled", "ExecutionExpired"}
    BY <1>1, <2>4, ZenonT(30) DEF Apply, Finish, ProjectionState, StatusAfter
  <2> QED
    BY <2>1, <2>2, <2>3, <2>4, Zenon DEF TerminalEventNames
<1>2. status \in TERMINAL_STATUSES
  BY Zenon DEF StatusAfter, TerminalEventNames, TERMINAL_STATUSES
<1>3. /\ Apply(r, e) = Ended(r) /\ Apply(old, e) = Ended(old)
      /\ r.error_code = "" /\ old.error_code = ""
      /\ r.result = "none" /\ old.result = "none"
      /\ old.finished_at = FALSE
  BY <1>1, Zenon DEF Clean, ProjectionState
<1>4. status # old.status
  BY <1>2, Zenon
<1> HIDE DEF status, code, res
<1>5. CommitChanged(r, old, Ended(old)) = Ended(r)
  BY <1>3, <1>4, Zenon DEF CommitChanged, Kept
<1> QED
  BY <1>3, <1>5, Zenon

\* So do the events of a run and of the publisher, from copies that have not
\* seen the column they write.
LEMMA ProgressFromCopy ==
    ASSUME NEW r \in ProjectionState, NEW old \in ProjectionState,
           NEW e \in DomainEvent,
           \/ e.name = "JobEnqueued" /\ old.job_id = "none"
           \/ e.name = "ParametersNormalized" /\ old.normalized_params # e.params
           \/ e.name = "DispatchLeaseIssued"
    PROVE  /\ CommitChanged(r, old, Apply(old, e)) = Apply(r, e)
           /\ Clean(r) => Clean(Apply(r, e))
           /\ Clean(old) => Clean(Apply(old, e))
<1>1. r = [status |-> r.status, started_at |-> r.started_at,
           finished_at |-> r.finished_at, error_code |-> r.error_code,
           result |-> r.result, normalized_params |-> r.normalized_params,
           job_id |-> r.job_id, approved_by_id |-> r.approved_by_id]
  BY Zenon DEF ProjectionState
<1>2. CASE e.name = "JobEnqueued"
  BY <1>1, <1>2, ZenonT(30) DEF Apply, CommitChanged, Kept, ProjectionState, Clean
<1>3. CASE e.name = "ParametersNormalized"
  BY <1>1, <1>3, ZenonT(30) DEF Apply, CommitChanged, Kept, ProjectionState, Clean
<1>4. CASE e.name = "DispatchLeaseIssued"
  BY <1>1, <1>4, ZenonT(30) DEF Apply, CommitChanged, Kept, ProjectionState, Clean
<1> QED
  BY <1>2, <1>3, <1>4, Zenon

\* A step that ends the stream: one terminal event, after at most one progress
\* event, saved from a live and clean copy.
Ending ==
    \E old \in ProjectionState, e \in DomainEvent, t \in Seq(DomainEvent) :
        /\ Clean(old) /\ old.status \notin TERMINAL_STATUSES
        /\ e.name \in TerminalEventNames
        /\ t = <<e>> \/ t = <<Event("BackendEventRecorded"), e>>
        /\ ledger' = ledger \o t
        /\ folded' = Apply(folded, e)
        /\ row' = CommitChanged(row, old, Apply(old, e))

\* One terminal event from a live and clean copy is such a step.
LEMMA EndingOne ==
    ASSUME StoreOK, NEW old \in ProjectionState, NEW e \in DomainEvent,
           AppendAndProject(old, e), e.name \in TerminalEventNames,
           Clean(old), old.status \notin TERMINAL_STATUSES
    PROVE  Ending
<1>1. <<e>> \in Seq(DomainEvent) /\ ledger' = ledger \o <<e>>
  BY DEF StoreOK, AppendAndProject
<1> QED
  BY <1>1, Zenon DEF Ending, AppendAndProject

\* An ending step passes no gate, closes the stream and keeps the row its fold
\* unless the stream was closed before.
LEMMA EndingFacts ==
    ASSUME StoreOK, RowIsFolded, ~Closed => Clean(row), Ending
    PROVE  /\ Ungated
           /\ Closed'
           /\ ClosedOnce' => row' = folded'
           /\ row'.status \in TERMINAL_STATUSES
           /\ Created'
<1>1. PICK old \in ProjectionState, e \in DomainEvent, t \in Seq(DomainEvent) :
        /\ Clean(old) /\ old.status \notin TERMINAL_STATUSES
        /\ e.name \in TerminalEventNames
        /\ t = <<e>> \/ t = <<Event("BackendEventRecorded"), e>>
        /\ ledger' = ledger \o t
        /\ folded' = Apply(folded, e)
        /\ row' = CommitChanged(row, old, Apply(old, e))
  BY Zenon DEF Ending
<1>2. /\ \E k \in DOMAIN t : t[k] = e
      /\ \A k \in DOMAIN t : t[k] = e \/ t[k].name = "BackendEventRecorded"
  <2>1. CASE t = <<e>>
    BY <2>1
  <2>2. CASE t = <<Event("BackendEventRecorded"), e>>
    <3>1. Event("BackendEventRecorded").name = "BackendEventRecorded"
      BY Zenon DEF Event
    <3>2. DOMAIN t = 1..2 /\ t[1] = Event("BackendEventRecorded") /\ t[2] = e
      BY <2>2
    <3> QED
      BY <3>1, <3>2
  <2> QED
    BY <1>1, <2>1, <2>2, Zenon
<1>3. Ungated
  BY <1>1, <1>2, Zenon DEF Ungated, GateNames, TerminalEventNames
<1>4. /\ Closed' /\ (ClosedOnce' => ~Closed)
      /\ ClosedOnce' => ClosedOnce
  BY <1>1, <1>2, GrownTerminals, ZenonT(30) DEF StoreOK
<1>5. ClosedOnce' => row' = folded'
  BY <1>1, <1>4, EndFromCopy DEF StoreOK, RowIsFolded
<1>6. row'.status \in TERMINAL_STATUSES
  <2>1. Apply(old, e).status = StatusAfter(e.name, old.status)
    BY ApplyStatus, Zenon
  <2>2. StatusAfter(e.name, old.status) \in TERMINAL_STATUSES
    BY <1>1, Zenon DEF StatusAfter, TerminalEventNames, TERMINAL_STATUSES
  <2> QED
    BY <1>1, <2>1, <2>2, Zenon DEF CommitChanged, Kept
<1>7. Created'
  BY <1>4 DEF Closed, Created
<1> QED
  BY <1>3, <1>4, <1>5, <1>6, <1>7, Zenon

\* A live row is clean: only a terminal event closes the stream.
LEMMA LiveRow ==
    ASSUME LiveIsClean, row.status \notin TERMINAL_STATUSES
    PROVE  ~Closed /\ Clean(row)
BY Zenon DEF LiveIsClean

\* The request side either leaves the store alone, ends the stream, or records
\* the job.
LEMMA RequestWrites ==
    ASSUME RunInvariant, LiveIsClean,
           \/ \E u \in Users : Reject(u)
           \/ Cancel \/ RecordEnqueueFailed \/ RunExpiryJob \/ SweepCandidate
    PROVE  UNCHANGED store \/ Ending
<1>0. /\ StoreOK /\ row \in ProjectionState /\ pubMem \in ProjectionState
  BY TypeStore, Zenon DEF RunInvariant, TypeOK
<1>1. ASSUME NEW e \in DomainEvent, AppendLocked(e), e.name \in TerminalEventNames,
             row.status \notin TERMINAL_STATUSES
      PROVE  Ending
  BY <1>0, <1>1, LiveRow, EndingOne, Zenon DEF AppendLocked
<1>2. ASSUME NEW u \in Users, Reject(u)  PROVE Ending
  <2> DEFINE e == [Event("ExecutionRejected") EXCEPT !.by = u]
  <2>1. e \in DomainEvent /\ e.name \in TerminalEventNames
    BY EventType, ZenonT(30) DEF EventNames, Event, TerminalEventNames
  <2> QED
    BY <1>1, <1>2, <2>1, Zenon DEF Reject, TERMINAL_STATUSES
<1>3. ASSUME Cancel  PROVE Ending
  <2> DEFINE e == Event("ExecutionCancelled")
  <2>1. e \in DomainEvent /\ e.name \in TerminalEventNames
    BY EventType, Zenon DEF EventNames, TerminalEventNames
  <2> QED
    BY <1>1, <1>3, <2>1, Zenon DEF Cancel, TERMINAL_STATUSES
<1>4. ASSUME RecordEnqueueFailed  PROVE Ending
  <2> DEFINE e == [Event("ExecutionEnqueueFailed") EXCEPT !.code = "RPC_ENQUEUE_FAILED"]
  <2>1. e \in DomainEvent /\ e.name \in TerminalEventNames
    BY EventType, ZenonT(30) DEF EventNames, Event, ErrorCodes, TerminalEventNames
  <2>2. AppendAndProject(pubMem, e)
    BY <1>4, Zenon DEF RecordEnqueueFailed
  <2>3. pubMem.status = "queued" /\ Clean(pubMem)
    BY <1>4, Zenon DEF RecordEnqueueFailed, RunInvariant, CopiesAreKnown, LiveIsClean
  <2>4. pubMem.status \notin TERMINAL_STATUSES
    BY <2>3, Zenon DEF TERMINAL_STATUSES
  <2> HIDE DEF e
  <2> QED
    BY <1>0, <2>1, <2>2, <2>3, <2>4, EndingOne, Zenon
<1>5. ASSUME ExpireStale  PROVE UNCHANGED store \/ Ending
  <2> DEFINE e == Failure("RPC_CONTROL_QUEUE_STALE")
  <2>1. e \in DomainEvent /\ e.name \in TerminalEventNames
    BY FailureType, Zenon DEF ErrorCodes, TerminalEventNames
  <2> QED
    BY <1>1, <1>5, <2>1, Zenon DEF ExpireStale, TERMINAL_STATUSES
<1> QED
  BY <1>2, <1>3, <1>4, <1>5, Zenon DEF RunExpiryJob, SweepCandidate

\* The last step of a worker leaves the store alone or ends the stream.
LEMMA WorkerDoneWrites ==
    ASSUME RunInvariant, LiveIsClean, NEW w \in Workers,
           \/ LoseClaim(w) \/ RefuseClaim(w) \/ FailPreflight(w)
           \/ RecordResponse(w) \/ RecordFailure(w) \/ WorkerDies(w)
    PROVE  UNCHANGED store \/ Ending
<1>0. /\ StoreOK /\ row \in ProjectionState /\ mem[w] \in ProjectionState
  BY TypeStore, Zenon DEF RunInvariant, TypeOK
<1>1. ASSUME NEW c \in ErrorCodes, AppendAndProject(mem[w], Failure(c)),
             pc[w] \in InRun, mem[w].status \notin TERMINAL_STATUSES
      PROVE  Ending
  <2>1. Failure(c) \in DomainEvent /\ Failure(c).name \in TerminalEventNames
    BY FailureType, Zenon DEF TerminalEventNames
  <2>2. Clean(mem[w])
    BY <1>1, Zenon DEF LiveIsClean
  <2> QED
    BY <1>0, <1>1, <2>1, <2>2, EndingOne, Zenon
<1>2. CASE LoseClaim(w) \/ WorkerDies(w)
  BY <1>2, Zenon DEF LoseClaim, WorkerDies
<1>3. CASE RefuseClaim(w)
  <2>1. /\ Failure(ClaimRefusal) \in DomainEvent
        /\ Failure(ClaimRefusal).name \in TerminalEventNames
    BY RefusalType, FailureType, Zenon DEF TerminalEventNames
  <2>2. AppendAndProject(row, Failure(ClaimRefusal)) /\ row.status = "queued"
    BY <1>3, Zenon DEF RefuseClaim, AppendLocked
  <2>3. row.status \notin TERMINAL_STATUSES
    BY <2>2, Zenon DEF TERMINAL_STATUSES
  <2> QED
    BY <1>0, <2>1, <2>2, <2>3, LiveRow, EndingOne, Zenon
<1>4. CASE FailPreflight(w)
  <2>1. PICK c \in {"RPC_INTEGRATION_DISABLED", "RPC_BACKEND_BINDING_INVALID"} :
            RecordFrom(w, Failure(c), "done")
    BY <1>4, Zenon DEF FailPreflight
  <2>2. pc[w] = "claimed" /\ mem[w].status = "running"
    BY <1>4, Zenon DEF FailPreflight, RunInvariant, CopiesAreKnown, Unsent
  <2> QED
    BY <1>1, <2>1, <2>2, Zenon DEF RecordFrom, ErrorCodes, InRun, TERMINAL_STATUSES
<1>5. CASE RecordFailure(w)
  BY <1>1, <1>5, Zenon DEF RecordFailure, RecordFrom, InRun, ErrorCodes
<1>6. CASE RecordResponse(w)
  <2>0. PICK e \in TerminalEvents :
             /\ \E t \in {<<e>>, <<Event("BackendEventRecorded"), e>>} :
                    ledger' = ledger \o t
             /\ folded' = Apply(folded, e)
             /\ row' = CommitChanged(row, mem[w], Apply(mem[w], e))
    BY <1>6, Zenon DEF RecordResponse
  <2>1. PICK t \in {<<e>>, <<Event("BackendEventRecorded"), e>>} : ledger' = ledger \o t
    BY <2>0, Zenon
  <2>2. e \in DomainEvent /\ e.name \in TerminalEventNames
    BY TerminalEventsType, Zenon DEF TerminalEventNames
  <2>3. Event("BackendEventRecorded") \in DomainEvent
    BY EventType, Zenon DEF EventNames
  <2>4. t \in Seq(DomainEvent) /\ (t = <<e>> \/ t = <<Event("BackendEventRecorded"), e>>)
    <3>1. <<e>> \in Seq(DomainEvent)
      BY <2>2
    <3>2. \A b \in DomainEvent : <<b, e>> \in Seq(DomainEvent)
      BY <2>2
    <3> QED
      BY <2>1, <2>3, <3>1, <3>2, ZenonT(30)
  <2>5. mem[w].status = "running" /\ pc[w] \in InRun
    BY <1>6, Zenon DEF RecordResponse, RunInvariant, CopiesAreKnown, InRun
  <2>6. mem[w].status \notin TERMINAL_STATUSES /\ Clean(mem[w])
    BY <2>5, Zenon DEF LiveIsClean, TERMINAL_STATUSES
  <2> QED
    BY <1>0, <2>0, <2>1, <2>2, <2>4, <2>6, Zenon DEF Ending
<1> QED
  BY <1>2, <1>3, <1>4, <1>5, <1>6, Zenon

-----------------------------------------------------------------------------
(* Calm steps.                                                             *)

\* The request thread goes forward or stops.
Onward == \/ pubPc' = pubPc
          \/ pubPc # "none" /\ pubPc' = "done"
          \/ pubPc = "publishing" /\ pubPc' \in {"recording", "failing"}
          \/ pubPc = "recording" /\ pubPc' = "scheduling"

\* A calm step that passes no gate keeps the gates in order.
LEMMA CalmGates ==
    ASSUME RunInvariant, GatesInOrder, GatesAhead, Calm, Ungated
    PROVE  GatesInOrder' /\ GatesAhead'
<1>1. /\ GatesInOrder'
      /\ \A g : NoneFrom(g) => NoneFrom(g)'
  BY UngatedGates, Zenon DEF RunInvariant, TypeOK
<1>2. NoneFrom(1) => NoneFrom(1)'
  BY <1>1, Zenon
<1>3. NoneFrom(3) => NoneFrom(3)'
  BY <1>1, Zenon
<1>4. (NoneFrom(4) => NoneFrom(4)') /\ (NoneFrom(5) => NoneFrom(5)')
  BY <1>1, Zenon
<1>5. \A w \in Workers : pc'[w] = "done" \/ pc'[w] = pc[w]
  BY Zenon DEF Calm
<1>6. row'.status \in {"pending_approval", "queued"} => row'.status = row.status
  BY Zenon DEF Calm, TERMINAL_STATUSES
<1> QED
  BY <1>1, <1>2, <1>3, <1>4, <1>5, <1>6, Zenon DEF GatesAhead

\* A step that does not write the ledger passes no gate.
LEMMA SameLedger ==
    ASSUME ledger \in Seq(DomainEvent), ledger' = ledger
    PROVE  Ungated
<1>1. <<>> \in Seq(DomainEvent) /\ ledger' = ledger \o <<>> /\ DOMAIN <<>> = {}
  OBVIOUS
<1> QED
  BY <1>1, ZenonT(30) DEF Ungated

\* A calm step that ends the stream or leaves the store alone keeps row, fold
\* and copies accounted for.
LEMMA CalmAccount ==
    ASSUME RunInvariant, RunInvariant', RowIsFolded, LiveIsClean, Calm, Onward,
           UNCHANGED store \/ Ending
    PROVE  RowIsFolded' /\ LiveIsClean' /\ Ungated
<1>1. StatusIsRebuilt' /\ StoreOK /\ ledger \in Seq(DomainEvent)
  BY TypeStore, Zenon DEF RunInvariant, StoreOK
<1>2. /\ pubPc' \in {"publishing", "recording", "failing"} =>
             Clean(pubMem)' /\ pubMem'.job_id = "none"
      /\ \A w \in Workers :
             pc'[w] \in InRun /\ mem'[w].status \notin TERMINAL_STATUSES
                 => Clean(mem[w])'
  <2>1. pubMem' = pubMem
        /\ \A w \in Workers : pc'[w] = "done" \/ (pc'[w] = pc[w] /\ mem'[w] = mem[w])
    BY Zenon DEF Calm
  <2>2. pubPc' \in {"publishing", "recording", "failing"} =>
            pubPc \in {"publishing", "recording", "failing"}
    BY Zenon DEF Onward
  <2> QED
    BY <2>1, <2>2, ZenonT(30) DEF LiveIsClean, Clean, InRun
<1>3. CASE UNCHANGED store
  <2>1. (Closed' <=> Closed) /\ (ClosedOnce' <=> ClosedOnce)
        /\ (Created' <=> Created) /\ row' = row /\ folded' = folded
    BY <1>3, Zenon DEF store, Closed, ClosedOnce, Created
  <2>2. pubPc = "none" => pubPc' = "none"
    BY Zenon DEF Onward
  <2>3. Ungated
    BY <1>1, <1>3, SameLedger, Zenon DEF store
  <2> QED
    BY <1>1, <1>2, <2>1, <2>2, <2>3, Zenon DEF RowIsFolded, LiveIsClean, Clean
<1>4. CASE Ending
  <2>1. /\ Ungated /\ Closed' /\ (ClosedOnce' => row' = folded')
        /\ row'.status \in TERMINAL_STATUSES /\ Created'
    BY <1>1, <1>4, EndingFacts, Zenon DEF LiveIsClean
  <2> QED
    BY <1>1, <1>2, <2>1, Zenon DEF RowIsFolded, LiveIsClean, TERMINAL_STATUSES
<1> QED
  BY <1>3, <1>4, Zenon

\* Recording the job writes the one column the publisher's copy has not seen.
LEMMA RecordEnqueuedAccount ==
    ASSUME RunInvariant, RunInvariant', RowIsFolded, LiveIsClean, RecordEnqueued
    PROVE  RowIsFolded' /\ LiveIsClean' /\ Ungated
<1> DEFINE e == Event("JobEnqueued")
<1>0. /\ StoreOK /\ row \in ProjectionState /\ pubMem \in ProjectionState
      /\ StatusIsRebuilt' /\ ledger \in Seq(DomainEvent) /\ folded \in ProjectionState
  BY TypeStore, Zenon DEF RunInvariant, TypeOK
<1>1. e \in DomainEvent /\ e.name = "JobEnqueued"
  BY EventType, ZenonT(30) DEF EventNames
<1>2. /\ AppendAndProject(pubMem, e) /\ pubMem.job_id = "none"
      /\ UNCHANGED <<pubMem, pc, mem>>
      /\ pubPc = "recording" /\ pubPc' \in {"scheduling", "done"}
  BY Zenon DEF RecordEnqueued, LiveIsClean, PublishUnchanged, worker
<1> HIDE DEF e
<1>3. row' = Apply(row, e) /\ (Clean(row) => Clean(row)')
  <2>1. /\ CommitChanged(row, pubMem, Apply(pubMem, e)) = Apply(row, e)
        /\ Clean(row) => Clean(Apply(row, e))
    BY <1>0, <1>1, <1>2, ProgressFromCopy, Zenon
  <2>2. row' = Apply(row, e)
    BY <1>2, <2>1, Zenon DEF AppendAndProject
  <2> QED
    BY <2>1, <2>2, ZenonT(30) DEF Clean
<1>4. ledger' = ledger \o <<e>> /\ <<e>> \in Seq(DomainEvent) /\ DOMAIN <<e>> = {1}
      /\ <<e>>[1] = e /\ folded' = Apply(folded, e)
  BY <1>0, <1>1, <1>2 DEF AppendAndProject
<1>5. Ungated
  BY <1>1, <1>4, Zenon DEF Ungated, GateNames
<1>6. (Closed' <=> Closed) /\ (ClosedOnce' => ClosedOnce)
  BY <1>0, <1>1, <1>4, GrownTerminals, Zenon DEF TerminalEventNames
<1>7. row'.status = row.status
  BY <1>0, <1>1, <1>3, ApplyStatus, Zenon DEF StatusAfter
<1>8. RowIsFolded'
  BY <1>0, <1>3, <1>4, <1>6, Zenon DEF RowIsFolded
<1>9. Created /\ Created' /\ row.status # "pending_approval"
  <2>1. Created /\ row.status # "pending_approval"
    BY <1>2, Zenon DEF LiveIsClean
  <2> QED
    BY <1>0, <1>4, <2>1 DEF Created
<1>10. LiveIsClean'
  BY <1>2, <1>3, <1>6, <1>7, <1>9, Zenon DEF LiveIsClean, Clean
<1> QED
  BY <1>5, <1>8, <1>10, Zenon

-----------------------------------------------------------------------------
(* Creating, approving and the steps of a run.                             *)

Account == GatesInOrder /\ GatesAhead /\ RowIsFolded /\ LiveIsClean

\* create_execution of an unprotected procedure starts the stream at its
\* second gate.
LEMMA CreateQueuedAccount ==
    ASSUME RunInvariant, RunInvariant', BeforeRequest, Account, CreateQueued
    PROVE  Account'
<1> DEFINE e == Event("ExecutionQueued")
<1>0. /\ StoreOK /\ row \in ProjectionState /\ folded \in ProjectionState
      /\ StatusIsRebuilt' /\ ledger = <<>> /\ ~Created
      /\ \A w \in Workers : pc[w] = "idle"
  BY TypeStore, Zenon DEF RunInvariant, TypeOK, CreateQueued, Created, BeforeRequest
<1>1. e \in DomainEvent /\ e.name = "ExecutionQueued" /\ AppendLocked(e)
  BY EventType, Zenon DEF EventNames, CreateQueued
<1>2. /\ pubPc' = "publishing" /\ pubMem' = row' /\ UNCHANGED <<pc, mem>>
  BY Zenon DEF CreateQueued, worker
<1> HIDE DEF e
<1>3. /\ ~Closed /\ Clean(row) /\ row = folded /\ row.job_id = "none"
  <2>1. DOMAIN ledger = {}
    BY <1>0
  <2>2. ~Closed /\ ClosedOnce
    BY <2>1, Zenon DEF Closed, ClosedOnce
  <2> QED
    BY <1>0, <2>2, Zenon DEF Account, RowIsFolded, LiveIsClean
<1>4. row' = Apply(row, e) /\ folded' = row' /\ ledger' = Append(ledger, e)
  BY <1>0, <1>1, <1>3, AppendLockedFacts, Zenon DEF AppendLocked, AppendAndProject
<1>5. Clean(row)' /\ row'.job_id = "none" /\ row'.status = "queued"
  BY <1>0, <1>1, <1>3, <1>4, ZenonT(30) DEF Apply, Clean, ProjectionState
<1>6. ledger' = ledger \o <<e>> /\ <<e>> \in Seq(DomainEvent) /\ DOMAIN <<e>> = {1}
      /\ <<e>>[1] = e
  BY <1>0, <1>1, <1>4
<1>7. ~Closed' /\ Created'
  <2>1. ~Closed'
    BY <1>0, <1>1, <1>3, <1>6, GrownTerminals, Zenon DEF TerminalEventNames, StoreOK
  <2>2. Created'
    BY <1>0, <1>4 DEF StoreOK, Created
  <2> QED
    BY <2>1, <2>2, Zenon
<1>8. GatesInOrder' /\ NoneFrom(3)'
  <2>1. NoneFrom(2) /\ GatesInOrder
    BY <1>0 DEF NoneFrom, GatesInOrder
  <2>2. e.name = Gates[2] /\ 2 \in DOMAIN Gates
    BY <1>1, GatesByNumber
  <2>3. GatesInOrder' /\ NoneFrom(2 + 1)'
    BY <1>0, <1>1, <1>4, <2>1, <2>2, NextGate, Zenon DEF StoreOK
  <2> QED
    BY <2>3
<1>9. GatesAhead'
  BY <1>0, <1>2, <1>5, <1>8, Zenon DEF GatesAhead
<1>10. RowIsFolded' /\ LiveIsClean'
  BY <1>0, <1>2, <1>4, <1>5, <1>7, Zenon DEF RowIsFolded, LiveIsClean, Clean, InRun
<1> QED
  BY <1>8, <1>9, <1>10, Zenon DEF Account

\* Two events in one locked transaction keep row and fold equal.
LEMMA BothFacts ==
    ASSUME RunInvariant, LiveIsClean, RowIsFolded,
           NEW d \in DomainEvent, NEW e \in DomainEvent, AppendBoth(d, e),
           row.status \notin TERMINAL_STATUSES,
           d.name \in {"ExecutionRequested", "ExecutionApproved"},
           e.name \in {"ApprovalRequested", "ExecutionQueued"}
    PROVE  /\ row' = folded' /\ Clean(row)' /\ row'.job_id = row.job_id
           /\ ~Closed' /\ Created'
<1>1. /\ StoreOK /\ row \in ProjectionState /\ folded \in ProjectionState
  BY TypeStore, Zenon DEF RunInvariant, TypeOK
<1>2. ~Closed /\ Clean(row)
  BY LiveRow, Zenon
<1>3. ClosedOnce /\ row = folded
  BY <1>2, Zenon DEF Closed, ClosedOnce, RowIsFolded
<1>4. row' = Apply(Apply(row, d), e) /\ folded' = row' /\ ledger' = ledger \o <<d, e>>
  BY <1>3, Zenon DEF AppendBoth
<1>5. Apply(row, d) \in ProjectionState /\ Clean(Apply(row, d))
      /\ Apply(row, d).job_id = row.job_id
  <2>1. Apply(row, d) \in ProjectionState
    BY <1>1, ApplyType, Zenon
  <2> QED
    BY <1>1, <1>2, <2>1, Zenon DEF Apply, Clean, ProjectionState
<1>6. Clean(row)' /\ row'.job_id = row.job_id
  BY <1>4, <1>5, Zenon DEF Apply, Clean, ProjectionState
<1>7. <<d, e>> \in Seq(DomainEvent) /\ DOMAIN <<d, e>> = {1, 2}
      /\ <<d, e>>[1] = d /\ <<d, e>>[2] = e
  OBVIOUS
<1>8. ~Closed'
  BY <1>1, <1>2, <1>4, <1>7, GrownTerminals, ZenonT(30) DEF TerminalEventNames, StoreOK
<1>9. Created'
  BY <1>1, <1>4, <1>7 DEF Created, StoreOK
<1> QED
  BY <1>4, <1>6, <1>8, <1>9, Zenon

\* create_execution of a protected procedure passes no gate.
LEMMA CreatePendingAccount ==
    ASSUME RunInvariant, RunInvariant', BeforeRequest, Account, CreatePending
    PROVE  Account'
<1> DEFINE d == Event("ExecutionRequested")
           e == Event("ApprovalRequested")
<1>0. /\ StoreOK /\ row \in ProjectionState /\ StatusIsRebuilt' /\ ledger = <<>>
      /\ ~Created /\ row.status = "queued" /\ row.job_id = "none" /\ pubPc = "none"
      /\ \A w \in Workers : pc[w] = "idle"
  BY TypeStore, Zenon DEF RunInvariant, TypeOK, CreatePending, Created, BeforeRequest,
                   Account, LiveIsClean, UnclaimedIsUntouched
<1>1. /\ d \in DomainEvent /\ d.name = "ExecutionRequested"
      /\ e \in DomainEvent /\ e.name = "ApprovalRequested"
  BY EventType, Zenon DEF EventNames
<1>2. AppendBoth(d, e) /\ UNCHANGED <<pubPc, pubMem, pc, mem>>
  BY Zenon DEF CreatePending, worker, publisher
<1> HIDE DEF d, e
<1>3. /\ row' = folded' /\ Clean(row)' /\ row'.job_id = row.job_id
      /\ ~Closed' /\ Created'
  <2>1. row.status \notin TERMINAL_STATUSES
    BY <1>0, Zenon DEF TERMINAL_STATUSES
  <2> QED
    BY <1>1, <1>2, <2>1, BothFacts, Zenon DEF Account
<1>4. Ungated
  <2>1. <<d, e>> \in Seq(DomainEvent) /\ DOMAIN <<d, e>> = {1, 2}
        /\ <<d, e>>[1] = d /\ <<d, e>>[2] = e
    BY <1>1
  <2> QED
    BY <1>1, <1>2, <2>1, ZenonT(30) DEF AppendBoth, Ungated, GateNames
<1>5. /\ GatesInOrder'
      /\ \A g : NoneFrom(g) => NoneFrom(g)'
  BY <1>0, <1>4, UngatedGates, Zenon DEF Account, StoreOK
<1>6. NoneFrom(1) /\ NoneFrom(3)
  BY <1>0 DEF NoneFrom
<1>7. NoneFrom(1)'
  BY <1>5, <1>6, Zenon
<1>8. NoneFrom(3)'
  BY <1>5, <1>6, Zenon
<1>9. GatesAhead'
  BY <1>0, <1>2, <1>7, <1>8, Zenon DEF GatesAhead
<1>10. RowIsFolded' /\ LiveIsClean'
  BY <1>0, <1>2, <1>3, Zenon DEF RowIsFolded, LiveIsClean, Clean, InRun
<1> QED
  BY <1>5, <1>9, <1>10, Zenon DEF Account

\* Approving passes the first two gates at once.
LEMMA ApproveGates ==
    ASSUME ledger \in Seq(DomainEvent), NEW d \in DomainEvent, NEW e \in DomainEvent,
           ledger' = ledger \o <<d, e>>, NoneFrom(1),
           d.name = "ExecutionApproved", e.name = "ExecutionQueued"
    PROVE  GatesInOrder' /\ NoneFrom(3)'
<1>1. <<d, e>> \in Seq(DomainEvent) /\ DOMAIN <<d, e>> = {1, 2}
      /\ <<d, e>>[1] = d /\ <<d, e>>[2] = e
  OBVIOUS
<1> DEFINE n == Len(ledger)
<1>2. /\ \A i \in DOMAIN ledger' : \/ i \in DOMAIN ledger /\ ledger'[i] = ledger[i]
                                   \/ i = n + 1 /\ ledger'[i] = d
                                   \/ i = n + 2 /\ ledger'[i] = e
  BY <1>1, GrownLedger
<1>3. n \in Nat /\ DOMAIN ledger' \subseteq Nat
  BY <1>1
<1> HIDE DEF n
<1>4. \A i \in DOMAIN ledger, h \in DOMAIN Gates : ledger[i].name # Gates[h]
  BY GatesByNumber DEF NoneFrom
<1>5. \A i \in DOMAIN ledger', h \in DOMAIN Gates :
          ledger'[i].name = Gates[h] => \/ i = n + 1 /\ h = 1
                                        \/ i = n + 2 /\ h = 2
  BY <1>2, <1>4, GatesByNumber
<1>6. GatesInOrder'
  <2> SUFFICES ASSUME NEW i \in DOMAIN ledger', NEW j \in DOMAIN ledger',
                      NEW a \in DOMAIN Gates, NEW b \in DOMAIN Gates,
                      i < j, ledger'[i].name = Gates[a], ledger'[j].name = Gates[b]
               PROVE  a < b
    BY Zenon DEF GatesInOrder
  <2>1. n + 1 # n + 2 /\ ~(n + 2 < n + 1) /\ ~(n + 1 < n + 1) /\ ~(n + 2 < n + 2) /\ 1 < 2
    BY <1>3
  <2> QED
    BY <1>5, <2>1, Zenon
<1>7. NoneFrom(3)'
  <2> SUFFICES ASSUME NEW i \in DOMAIN ledger', NEW h \in DOMAIN Gates,
                      ledger'[i].name = Gates[h]
               PROVE  h < 3
    BY Zenon DEF NoneFrom
  <2>1. h = 1 \/ h = 2
    BY <1>5, Zenon
  <2> QED
    BY <2>1
<1> QED
  BY <1>6, <1>7, Zenon

\* approve_execution: approval and queueing, then a fresh copy for publishing.
LEMMA ApproveAccount ==
    ASSUME RunInvariant, RunInvariant', Account, NEW u \in Users, Approve(u)
    PROVE  Account'
<1> DEFINE d == [Event("ExecutionApproved") EXCEPT !.by = u]
           e == Event("ExecutionQueued")
<1>0. /\ StoreOK /\ row \in ProjectionState /\ StatusIsRebuilt'
      /\ row.status = "pending_approval" /\ row.job_id = "none" /\ NoneFrom(1)
      /\ \A w \in Workers : pc[w] \notin InRun
  BY TypeStore, Zenon DEF RunInvariant, TypeOK, Approve, Account, LiveIsClean, GatesAhead,
                   UnclaimedIsUntouched, BeforeClaim
<1>1. /\ d \in DomainEvent /\ d.name = "ExecutionApproved"
      /\ e \in DomainEvent /\ e.name = "ExecutionQueued"
  BY EventType, ZenonT(30) DEF EventNames, Event
<1>2. /\ AppendBoth(d, e) /\ UNCHANGED <<pc, mem>>
      /\ pubPc' = "publishing" /\ pubMem' = row'
  BY Zenon DEF Approve, worker
<1> HIDE DEF d, e
<1>3. /\ row' = folded' /\ Clean(row)' /\ row'.job_id = row.job_id
      /\ ~Closed' /\ Created'
  <2>1. row.status \notin TERMINAL_STATUSES
    BY <1>0, Zenon DEF TERMINAL_STATUSES
  <2> QED
    BY <1>1, <1>2, <2>1, BothFacts, Zenon DEF Account
<1>4. row'.status = "queued"
  BY <1>0, <1>1, <1>2, AppendBothFacts DEF StatusAfter
<1>5. GatesInOrder' /\ NoneFrom(3)'
  BY <1>0, <1>1, <1>2, ApproveGates, Zenon DEF AppendBoth, StoreOK
<1>6. GatesAhead'
  BY <1>0, <1>2, <1>4, <1>5, Zenon DEF GatesAhead, InRun
<1>7. RowIsFolded' /\ LiveIsClean'
  BY <1>0, <1>2, <1>3, <1>4, Zenon DEF RowIsFolded, LiveIsClean, Clean
<1> QED
  BY <1>5, <1>6, <1>7, Zenon DEF Account

\* The claim passes the third gate from a clean row.
LEMMA StartClaimAccount ==
    ASSUME RunInvariant, RunInvariant', BeforeRequest, Account,
           NEW w \in Workers, StartClaim(w)
    PROVE  Account'
<1> DEFINE e == Event("ExecutionStarted")
<1>0. /\ StoreOK /\ row \in ProjectionState /\ folded \in ProjectionState
      /\ StatusIsRebuilt' /\ row.status = "queued" /\ NoneFrom(3) /\ GatesInOrder
      /\ \A v \in Workers : pc[v] \notin InRun
      /\ Created /\ ledger \in Seq(DomainEvent)
      /\ pc \in [Workers -> WorkerLabels] /\ mem \in [Workers -> ProjectionState]
  BY TypeStore, ZenonT(30) DEF RunInvariant, TypeOK, StartClaim, Account, GatesAhead,
                   UnclaimedIsUntouched, BeforeClaim, BeforeRequest
<1>1. e \in DomainEvent /\ e.name = "ExecutionStarted" /\ AppendLocked(e)
  BY EventType, Zenon DEF EventNames, StartClaim
<1>2. /\ pc' = [pc EXCEPT ![w] = "claimed"] /\ mem' = [mem EXCEPT ![w] = row']
      /\ UNCHANGED <<pubPc, pubMem>>
  BY Zenon DEF StartClaim, Goto, WorkerUnchanged, publisher
<1> HIDE DEF e
<1>3. ~Closed /\ Clean(row) /\ row = folded
  <2>1. ~Closed /\ Clean(row)
    BY <1>0, LiveRow, Zenon DEF Account, TERMINAL_STATUSES
  <2> QED
    BY <2>1, Zenon DEF Closed, ClosedOnce, Account, RowIsFolded
<1>4. row' = Apply(row, e) /\ folded' = row' /\ ledger' = Append(ledger, e)
  BY <1>0, <1>1, <1>3, AppendLockedFacts, Zenon DEF AppendLocked, AppendAndProject
<1>5. Clean(row)' /\ row'.status = "running"
  BY <1>0, <1>1, <1>3, <1>4, ZenonT(30) DEF Apply, Clean, ProjectionState
<1>6. ledger' = ledger \o <<e>> /\ <<e>> \in Seq(DomainEvent) /\ DOMAIN <<e>> = {1}
      /\ <<e>>[1] = e
  BY <1>0, <1>1, <1>4
<1>7. ~Closed'
  BY <1>0, <1>1, <1>3, <1>6, GrownTerminals, Zenon DEF TerminalEventNames
<1>8. Created'
  BY <1>0, <1>4 DEF Created
<1>9. GatesInOrder' /\ NoneFrom(4)'
  <2>1. e.name = Gates[3] /\ 3 \in DOMAIN Gates
    BY <1>1, GatesByNumber
  <2>2. GatesInOrder' /\ NoneFrom(3 + 1)'
    BY <1>0, <1>1, <1>4, <2>1, NextGate, Zenon
  <2> QED
    BY <2>2
<1>10. \A v \in Workers : pc'[v] \in InRun => v = w /\ pc'[v] = "claimed"
  BY <1>0, <1>2, Zenon
<1>11. GatesAhead'
  BY <1>5, <1>9, <1>10, Zenon DEF GatesAhead, InRun
<1>12. RowIsFolded'
  BY <1>0, <1>4, Zenon DEF RowIsFolded
<1>13. LiveIsClean'
  BY <1>0, <1>2, <1>5, <1>7, <1>8, <1>10, ZenonT(30) DEF LiveIsClean, Account, Clean
<1> QED
  BY <1>9, <1>11, <1>12, <1>13, Zenon DEF Account

\* The steps of a run that write nothing.
LEMMA SilentAccount ==
    ASSUME RunInvariant, RunInvariant', Account, NEW w \in Workers,
           \/ Fetch(w) \/ ReadStreamVersion(w) \/ SkipLease(w) \/ CallBackend(w)
           \/ Raise(w) \/ RecordAborted(w)
    PROVE  Account'
<1>0. /\ UNCHANGED <<ledger, row, folded, pubPc, pubMem>>
  BY ZenonT(30) DEF Fetch, ReadStreamVersion, SkipLease, CallBackend, Raise, RecordAborted,
         WorkerUnchanged, store, publisher
<1>1. /\ pc \in [Workers -> WorkerLabels] /\ mem \in [Workers -> ProjectionState]
  BY Zenon DEF RunInvariant, TypeOK
<1>2. /\ GatesInOrder' /\ RowIsFolded'
      /\ \A g : NoneFrom(g) => NoneFrom(g)'
      /\ (Closed' <=> Closed) /\ (Created' <=> Created)
  BY <1>0, Zenon DEF Account, GatesInOrder, NoneFrom, RowIsFolded, ClosedOnce, Closed,
              StatusIsRebuilt, Created
<1>3. (NoneFrom(1) => NoneFrom(1)') /\ (NoneFrom(3) => NoneFrom(3)')
  BY <1>2, Zenon
<1>4. (NoneFrom(4) => NoneFrom(4)') /\ (NoneFrom(5) => NoneFrom(5)')
  BY <1>2, Zenon
<1>5. \A v \in Workers : /\ pc'[v] = "claimed" => pc[v] = "claimed"
                         /\ pc'[v] \in {"normalized", "leasing"} =>
                                pc[v] \in {"normalized", "leasing"}
  BY <1>1, Zenon DEF Fetch, ReadStreamVersion, SkipLease, CallBackend, Raise, RecordAborted,
              Goto
<1>6. GatesAhead'
  BY <1>0, <1>3, <1>4, <1>5, ZenonT(30) DEF GatesAhead, Account
<1>7. \A v \in Workers :
          pc'[v] \in InRun /\ mem'[v].status \notin TERMINAL_STATUSES => Clean(mem[v])'
  <2>1. CASE RecordAborted(w)
    <3>1. PICK e \in TerminalEvents : mem' = [mem EXCEPT ![w] = Apply(@, e)]
      BY <2>1, ZenonT(30) DEF RecordAborted
    <3>2. mem'[w].status \in TERMINAL_STATUSES
      BY <1>1, <3>1, TerminalEventsType, ApplyStatus DEF StatusAfter, TERMINAL_STATUSES
    <3>3. \A v \in Workers \ {w} : mem'[v] = mem[v] /\ pc'[v] = pc[v]
      BY <1>1, <2>1, <3>1, Zenon DEF RecordAborted, Goto
    <3> QED
      BY <3>2, <3>3, ZenonT(30) DEF Account, LiveIsClean, Clean
  <2>2. CASE ~RecordAborted(w)
    <3>1. /\ mem' = mem
          /\ \A v \in Workers : pc'[v] \in InRun => pc[v] \in InRun
      BY <1>1, <2>2, Zenon DEF Fetch, ReadStreamVersion, SkipLease, CallBackend, Raise, Goto,
                        InRun
    <3> QED
      BY <3>1, Zenon DEF Account, LiveIsClean, Clean
  <2> QED
    BY <2>1, <2>2, Zenon
<1>8. LiveIsClean'
  BY <1>0, <1>2, <1>7, ZenonT(30) DEF LiveIsClean, Account, Clean
<1> QED
  BY <1>2, <1>6, <1>8, Zenon DEF Account

\* The runner records its g-th gate from its own copy of the row.
LEMMA GateFromCopy ==
    ASSUME RunInvariant, RunInvariant', BeforeRequest, Account,
           NEW w \in Workers, NEW e \in DomainEvent, NEW l \in WorkerLabels,
           NEW g \in DOMAIN Gates,
           RecordFrom(w, e, l), UNCHANGED <<pubPc, pubMem>>,
           e.name = Gates[g], NoneFrom(g),
           \/ /\ e.name = "ParametersNormalized" /\ mem[w].normalized_params # e.params
              /\ pc[w] = "claimed" /\ l = "normalized"
           \/ e.name = "DispatchLeaseIssued" /\ pc[w] = "leasing" /\ l = "leased"
    PROVE  Account'
<1>0. /\ StoreOK /\ row \in ProjectionState /\ folded \in ProjectionState
      /\ StatusIsRebuilt' /\ ledger \in Seq(DomainEvent)
      /\ pc \in [Workers -> WorkerLabels] /\ mem \in [Workers -> ProjectionState]
      /\ mem[w] \in ProjectionState /\ GatesInOrder
  BY TypeStore, ZenonT(30) DEF RunInvariant, TypeOK, Account
<1>1. /\ pc[w] \in InRun /\ mem[w].status = "running" /\ Created
      /\ row.status \notin BeforeClaim /\ mem[w].status \notin TERMINAL_STATUSES
      /\ Clean(mem[w])
      /\ \A v \in Workers : pc[v] \in InRun => v = w
  <2>1. pc[w] \in InRun /\ mem[w].status = "running"
    BY Zenon DEF InRun, Unsent, RunInvariant, CopiesAreKnown
  <2>2. /\ row.status \notin BeforeClaim /\ Created
        /\ \A v \in Workers : pc[v] \in InRun => v = w
    BY <2>1, ZenonT(30) DEF RunInvariant, UnclaimedIsUntouched, OneRunner, BeforeClaim
  <2>3. mem[w].status \notin TERMINAL_STATUSES
    BY <2>1, Zenon DEF TERMINAL_STATUSES
  <2> QED
    BY <2>1, <2>2, <2>3, ZenonT(30) DEF Account, LiveIsClean
<1>2. /\ AppendAndProject(mem[w], e)
      /\ pc' = [pc EXCEPT ![w] = l] /\ mem' = [mem EXCEPT ![w] = Apply(mem[w], e)]
      /\ ledger' = Append(ledger, e) /\ folded' = Apply(folded, e)
  BY ZenonT(30) DEF RecordFrom, Goto, AppendAndProject
<1>3. /\ row' = Apply(row, e) /\ (Clean(row) => Clean(row)')
      /\ Clean(Apply(mem[w], e)) /\ row'.status = row.status
  <2>1. /\ CommitChanged(row, mem[w], Apply(mem[w], e)) = Apply(row, e)
        /\ Clean(row) => Clean(Apply(row, e))
        /\ Clean(mem[w]) => Clean(Apply(mem[w], e))
    BY <1>0, ProgressFromCopy, ZenonT(30)
  <2>2. row' = Apply(row, e)
    BY <1>2, <2>1, Zenon DEF AppendAndProject
  <2>3. row'.status = row.status
    BY <1>0, <2>2, ApplyStatus DEF StatusAfter
  <2> QED
    BY <1>1, <2>1, <2>2, <2>3, ZenonT(30) DEF Clean
<1>4. ledger' = ledger \o <<e>> /\ <<e>> \in Seq(DomainEvent) /\ DOMAIN <<e>> = {1}
      /\ <<e>>[1] = e
  BY <1>0, <1>2, OneMore, Zenon
<1>5. (Closed' <=> Closed) /\ (ClosedOnce' => ClosedOnce)
  BY <1>0, <1>4, GrownTerminals, ZenonT(30) DEF TerminalEventNames
<1>6. Created'
  BY <1>0, <1>2, OneMore, Zenon
<1>7. GatesInOrder' /\ NoneFrom(g + 1)'
  BY <1>0, <1>2, NextGate, Zenon
<1>8. RowIsFolded'
  BY <1>0, <1>2, <1>3, <1>5, Zenon DEF RowIsFolded, Account
<1>9. /\ \A v \in Workers \ {w} : pc'[v] \notin InRun
      /\ pc'[w] = l /\ mem'[w] = Apply(mem[w], e)
  BY <1>0, <1>1, <1>2, ZenonT(30)
<1>10. GatesAhead'
  <2>1. row'.status \notin {"pending_approval", "queued"}
    BY <1>1, <1>3, ZenonT(30) DEF BeforeClaim
  <2>2. 4 \in DOMAIN Gates /\ 4 + 1 = 5
    BY GatesByNumber, FourAndOne, Zenon
  <2>3. l = "normalized" => NoneFrom(5)'
    <3> SUFFICES ASSUME l = "normalized"  PROVE NoneFrom(5)'
      BY Zenon
    <3>1. g = 4
      BY <2>2, GatesByNumber, Zenon
    <3> QED
      BY <1>7, <2>2, <3>1, Zenon
  <2> QED
    BY <1>9, <2>1, <2>3, ZenonT(30) DEF GatesAhead, InRun
<1>11. LiveIsClean'
  <2>1. \A v \in Workers :
            pc'[v] \in InRun /\ mem'[v].status \notin TERMINAL_STATUSES
                => Clean(mem[v])'
    BY <1>3, <1>9, ZenonT(30) DEF Clean
  <2>2. row'.status # "pending_approval"
    BY <1>1, <1>3, Zenon DEF BeforeClaim
  <2> QED
    BY <1>3, <1>5, <1>6, <2>1, <2>2, ZenonT(30) DEF LiveIsClean, Account, Clean
<1> QED
  BY <1>7, <1>8, <1>10, <1>11, Zenon DEF Account

\* Normalisation passes the fourth gate, the lease the fifth.
LEMMA GateStepsAccount ==
    ASSUME RunInvariant, RunInvariant', BeforeRequest, Account, NEW w \in Workers,
           Normalize(w) \/ IssueLease(w)
    PROVE  Account'
<1>0. target \in Targets /\ version[w] \in Nat
  BY Zenon DEF RunInvariant, TypeOK
<1>1. CASE Normalize(w)
  <2> DEFINE e == [Event("ParametersNormalized") EXCEPT !.params = target]
  <2>1. /\ e \in DomainEvent /\ e.name = "ParametersNormalized" /\ e.params = target
    BY <1>0, EventType, ZenonT(30) DEF EventNames, Event
  <2>2. /\ RecordFrom(w, e, "normalized") /\ UNCHANGED <<pubPc, pubMem>>
        /\ pc[w] = "claimed"
    BY <1>1, Zenon DEF Normalize, WorkerUnchanged, publisher
  <2>3. mem[w].normalized_params # target
    BY <1>0, <2>2, TargetsAssumption, Zenon DEF RunInvariant, CopiesAreKnown, NoParams
  <2>4. NoneFrom(4)
    BY <2>2, Zenon DEF Account, GatesAhead
  <2>5. 4 \in DOMAIN Gates /\ Gates[4] = "ParametersNormalized"
    BY GatesByNumber
  <2>6. "normalized" \in WorkerLabels
    BY Zenon DEF WorkerLabels
  <2> HIDE DEF e
  <2> QED
    BY <2>1, <2>2, <2>3, <2>4, <2>5, <2>6, GateFromCopy, Zenon
<1>2. CASE IssueLease(w)
  <2> DEFINE e == [Event("DispatchLeaseIssued") EXCEPT !.version = version[w]]
  <2>1. e \in DomainEvent /\ e.name = "DispatchLeaseIssued"
    BY <1>0, EventType, ZenonT(30) DEF EventNames, Event
  <2>2. /\ RecordFrom(w, e, "leased") /\ UNCHANGED <<pubPc, pubMem>>
        /\ pc[w] = "leasing"
    BY <1>2, Zenon DEF IssueLease, WorkerUnchanged, publisher
  <2>3. NoneFrom(5)
    BY <2>2, Zenon DEF Account, GatesAhead
  <2>4. 5 \in DOMAIN Gates /\ Gates[5] = "DispatchLeaseIssued"
    BY GatesByNumber
  <2>5. "leased" \in WorkerLabels
    BY Zenon DEF WorkerLabels
  <2> HIDE DEF e
  <2> QED
    BY <2>1, <2>2, <2>3, <2>4, <2>5, GateFromCopy, Zenon
<1> QED
  BY <1>1, <1>2, Zenon

-----------------------------------------------------------------------------
(* Every step.                                                             *)

\* Row, ledger, gates and copies stay accounted for.
LEMMA AccountStep ==
    ASSUME RunInvariant, RunInvariant', BeforeRequest, Account, [Next]_vars
    PROVE  Account'
<1>0. LiveIsClean /\ RowIsFolded /\ GatesInOrder /\ GatesAhead
  BY Zenon DEF Account
<1>1. ASSUME Calm, Onward, UNCHANGED store \/ Ending  PROVE Account'
  BY <1>0, <1>1, CalmAccount, CalmGates, Zenon DEF Account
<1>2. CASE \/ PublishJob \/ PublishRefused \/ PublishRaisedLate \/ ScheduleExpiry
           \/ PublisherDies \/ Redeliver \/ SelectCandidate \/ Tick
           \/ EditProcedure \/ MoveTarget \/ RevokeSuperuser \/ UNCHANGED vars
  <2>1. Calm
    BY <1>2, QuietCalm, Zenon
  <2>2. Onward /\ UNCHANGED store
    BY <1>2, Zenon
    DEF PublishJob, PublishRefused, PublishRaisedLate, ScheduleExpiry, PublisherDies,
        Redeliver, SelectCandidate, Tick, EditProcedure, MoveTarget, RevokeSuperuser,
        PublishUnchanged, ExpiryUnchanged, AdminUnchanged, vars, publisher, Onward
  <2> QED
    BY <1>1, <2>1, <2>2, Zenon
<1>3. CASE \/ \E u \in Users : Reject(u)
           \/ Cancel \/ RecordEnqueueFailed \/ RunExpiryJob \/ SweepCandidate
  <2>1. Calm /\ (UNCHANGED store \/ Ending)
    BY <1>0, <1>3, RequestCalm, RequestWrites, Zenon
  <2>2. Onward
    BY <1>3, ZenonT(30) DEF Reject, Cancel, RecordEnqueueFailed, RunExpiryJob, SweepCandidate,
                ExpiryUnchanged, publisher, Onward
  <2> QED
    BY <1>1, <2>1, <2>2, Zenon
<1>4. CASE RecordEnqueued
  <2>1. Calm
    BY <1>4, RequestCalm, Zenon
  <2> QED
    BY <1>0, <1>4, <2>1, RecordEnqueuedAccount, CalmGates, Zenon DEF Account
<1>5. CASE CreateQueued \/ CreatePending \/ \E u \in Users : Approve(u)
  BY <1>5, CreateQueuedAccount, CreatePendingAccount, ApproveAccount, Zenon
<1>6. ASSUME NEW w \in Workers, Work(w) \/ RecordAborted(w) \/ WorkerDies(w)
      PROVE  Account'
  <2>1. CASE \/ LoseClaim(w) \/ RefuseClaim(w) \/ FailPreflight(w)
             \/ RecordResponse(w) \/ RecordFailure(w) \/ WorkerDies(w)
    <3>1. Calm /\ (UNCHANGED store \/ Ending)
      BY <1>0, <2>1, WorkerDoneCalm, WorkerDoneWrites, Zenon
    <3>2. Onward
      BY <2>1, Zenon DEF LoseClaim, RefuseClaim, FailPreflight, RecordResponse, RecordFailure,
                  WorkerDies, WorkerUnchanged, publisher, Onward
    <3> QED
      BY <1>1, <3>1, <3>2, Zenon
  <2>2. CASE \/ Fetch(w) \/ ReadStreamVersion(w) \/ SkipLease(w) \/ CallBackend(w)
             \/ Raise(w) \/ RecordAborted(w)
    BY <2>2, SilentAccount, Zenon
  <2>3. CASE StartClaim(w)
    BY <2>3, StartClaimAccount, Zenon
  <2>4. CASE Normalize(w) \/ IssueLease(w)
    BY <2>4, GateStepsAccount, Zenon
  <2> QED
    BY <1>6, <2>1, <2>2, <2>3, <2>4, Zenon DEF Work
<1> QED
  BY <1>2, <1>3, <1>4, <1>5, <1>6, Zenon
  DEF Next, Decide, Publish, Expire, Fault, Administer

\* A step whose row is neither queued nor running afterwards has nothing to
\* carry on; no worker turned to its except branch in it.
LEMMA EndedIsCarried ==
    ASSUME Carried, Calm, row'.status \notin {"queued", "running"},
           faults' = 0 => faults = 0
    PROVE  Carried'
BY ZenonT(30) DEF Carried, Calm

\* An execution that no fault has touched always has someone to finish it.
LEMMA CarriedStep ==
    ASSUME RunInvariant, RunInvariant', BeforeRequest, Account, Carried, [Next]_vars
    PROVE  Carried'
<1>0. /\ LiveIsClean /\ RowIsFolded /\ StoreOK
      /\ faults \in Nat /\ deliveries \in Nat
      /\ pc \in [Workers -> WorkerLabels] /\ mem \in [Workers -> ProjectionState]
      /\ ~Closed => Clean(row)
  <2>1. LiveIsClean /\ RowIsFolded /\ TypeOK
    BY Zenon DEF Account, RunInvariant
  <2>2. /\ faults \in Nat /\ deliveries \in Nat
        /\ pc \in [Workers -> WorkerLabels] /\ mem \in [Workers -> ProjectionState]
    BY <2>1, BoundsAssumption DEF TypeOK
  <2> QED
    BY <2>1, <2>2, TypeStore, Zenon DEF LiveIsClean
<1>1. ASSUME Calm, Ending, UNCHANGED faults  PROVE Carried'
  <2>1. row'.status \in TERMINAL_STATUSES
    BY <1>0, <1>1, EndingFacts, Zenon
  <2> QED
    BY <1>1, <2>1, EndedIsCarried, Zenon DEF TERMINAL_STATUSES
<1>2. CASE \/ PublishJob \/ PublishRefused \/ PublishRaisedLate \/ ScheduleExpiry
           \/ Redeliver \/ SelectCandidate \/ Tick
           \/ EditProcedure \/ MoveTarget \/ RevokeSuperuser \/ UNCHANGED vars
  <2>1. UNCHANGED <<ledger, row, pc, mem, faults>>
    BY <1>2, ZenonT(30)
    DEF PublishJob, PublishRefused, PublishRaisedLate, ScheduleExpiry,
        Redeliver, SelectCandidate, Tick, EditProcedure, MoveTarget, RevokeSuperuser,
        PublishUnchanged, ExpiryUnchanged, AdminUnchanged, vars, worker, store
  <2>2. \/ deliveries' > 0
        \/ /\ deliveries' = deliveries
           /\ pubPc \in {"publishing", "failing"} => pubPc' \in {"publishing", "failing"}
    <3>1. CASE PublishJob \/ PublishRaisedLate \/ Redeliver
      BY <1>0, <3>1 DEF PublishJob, PublishRaisedLate, Redeliver
    <3>2. CASE \/ PublishRefused \/ ScheduleExpiry \/ SelectCandidate \/ Tick
               \/ EditProcedure \/ MoveTarget \/ RevokeSuperuser \/ UNCHANGED vars
      BY <3>2, ZenonT(30)
      DEF PublishRefused, ScheduleExpiry, SelectCandidate, Tick, EditProcedure,
          MoveTarget, RevokeSuperuser, ExpiryUnchanged, AdminUnchanged, vars, publisher
    <3> QED
      BY <1>2, <3>1, <3>2, Zenon
  <2> QED
    BY <2>1, <2>2, Zenon DEF Carried, Created
<1>3. CASE PublisherDies \/ \E w \in Workers : RecordAborted(w) \/ WorkerDies(w)
  <2>1. faults' = faults + 1
    BY <1>3, Zenon DEF PublisherDies, RecordAborted, WorkerDies
  <2> QED
    BY <1>0, <2>1 DEF Carried
<1>4. CASE \/ \E u \in Users : Reject(u)
           \/ Cancel \/ RecordEnqueueFailed \/ RunExpiryJob \/ SweepCandidate
  <2>1. Calm /\ (UNCHANGED store \/ Ending)
    BY <1>0, <1>4, RequestCalm, RequestWrites, Zenon
  <2>2. UNCHANGED <<pc, mem, faults, deliveries>>
        /\ (UNCHANGED pubPc \/ RecordEnqueueFailed)
    BY <1>4, ZenonT(30) DEF Reject, Cancel, RecordEnqueueFailed, RunExpiryJob, SweepCandidate,
                ExpiryUnchanged, PublishUnchanged, publisher, worker
  <2>3. CASE Ending
    BY <1>1, <2>1, <2>2, <2>3, Zenon
  <2>4. CASE UNCHANGED store /\ UNCHANGED pubPc
    BY <2>2, <2>4, Zenon DEF Carried, store, Created
  <2>5. CASE UNCHANGED store /\ RecordEnqueueFailed
    <3>1. ledger' = Append(ledger, [Event("ExecutionEnqueueFailed")
                                       EXCEPT !.code = "RPC_ENQUEUE_FAILED"])
          /\ ledger' = ledger /\ ledger \in Seq(DomainEvent)
      BY <1>0, <2>5, Zenon DEF RecordEnqueueFailed, AppendAndProject, store, StoreOK
    <3>2. \A e : Len(Append(ledger, e)) = Len(ledger) + 1 /\ Len(ledger) \in Nat
      BY <3>1
    <3> QED
      BY <3>1, <3>2
  <2> QED
    BY <2>1, <2>2, <2>3, <2>4, <2>5, Zenon
<1>5. CASE RecordEnqueued
  <2>1. Calm /\ Created
    BY <1>0, <1>5, RequestCalm, Zenon DEF RecordEnqueued, LiveIsClean
  <2>2. UNCHANGED <<pc, mem, faults, deliveries>> /\ pubPc = "recording"
    BY <1>5, Zenon DEF RecordEnqueued, PublishUnchanged, worker
  <2>3. row'.status \in {"queued", "running"} => row'.status = row.status
    BY <2>1, ZenonT(30) DEF Calm, TERMINAL_STATUSES
  <2> QED
    BY <2>1, <2>2, <2>3, ZenonT(30) DEF Carried
<1>6. CASE CreateQueued \/ CreatePending \/ \E u \in Users : Approve(u)
  <2>1. Opening /\ UNCHANGED faults
    BY <1>6, CreateApproveOpens, Zenon DEF CreateQueued, CreatePending, Approve
  <2>2. row'.status # "running" /\ UNCHANGED <<pc, mem>>
    BY <2>1, Zenon DEF Opening, BeforeClaim
  <2>3. pubPc' = "publishing" \/ row'.status # "queued"
    <3>1. CASE CreatePending
      <4> DEFINE d == Event("ExecutionRequested")
                 e == Event("ApprovalRequested")
      <4>1. /\ d \in DomainEvent /\ d.name = "ExecutionRequested"
            /\ e \in DomainEvent /\ e.name = "ApprovalRequested"
        BY EventType, ZenonT(30) DEF EventNames
      <4>2. AppendBoth(d, e)
        BY <3>1, Zenon DEF CreatePending
      <4> HIDE DEF d, e
      <4> QED
        BY <1>0, <4>1, <4>2, AppendBothFacts, Zenon DEF StatusAfter
    <3> QED
      BY <1>6, <3>1, Zenon DEF CreateQueued, Approve
  <2> QED
    BY <2>1, <2>2, <2>3, Zenon DEF Carried
<1>7. ASSUME NEW w \in Workers, Work(w)  PROVE Carried'
  <2>1. CASE \/ LoseClaim(w) \/ RefuseClaim(w) \/ FailPreflight(w)
             \/ RecordResponse(w) \/ RecordFailure(w)
    <3>1. /\ Calm /\ (UNCHANGED store \/ Ending) /\ UNCHANGED faults
      BY <2>1, <1>0, WorkerDoneCalm, WorkerDoneWrites, ZenonT(30)
      DEF LoseClaim, RefuseClaim, FailPreflight, RecordResponse, RecordFailure
    <3>2. CASE Ending
      BY <1>1, <3>1, <3>2, Zenon
    <3>3. CASE UNCHANGED store /\ LoseClaim(w)
      <4>1. /\ row' = row /\ ledger' = ledger /\ row.status # "queued" /\ mem' = mem
            /\ pc' = [pc EXCEPT ![w] = "done"] /\ pc[w] = "fetched"
        BY <3>3, Zenon DEF LoseClaim, Goto, store
      <4>2. \A v \in Workers : /\ pc[v] \in InRun => pc'[v] \in InRun
                               /\ pc'[v] = "failing" => pc[v] = "failing"
        BY <1>0, <4>1, Zenon DEF InRun
      <4> QED
        BY <3>1, <4>1, <4>2, ZenonT(30) DEF Carried
    <3>4. CASE UNCHANGED store /\ ~LoseClaim(w)
      <4>1. RecordFailure(w) /\ mem[w].status \in TERMINAL_STATUSES
        <5>1. \A e : Append(ledger, e) # ledger
          <6>1. \A e : Len(Append(ledger, e)) = Len(ledger) + 1 /\ Len(ledger) \in Nat
            BY <1>0 DEF StoreOK
          <6> QED
            BY <6>1
        <5>2. ~RefuseClaim(w) /\ ~FailPreflight(w)
              /\ ~RecordFrom(w, Failure("RPC_EXECUTION_FAILED"), "done")
          BY <3>4, <5>1, Zenon DEF RefuseClaim, FailPreflight, RecordFrom, AppendLocked,
                            AppendAndProject, store
        <5>3. ~RecordResponse(w)
          <6> SUFFICES ASSUME RecordResponse(w)  PROVE FALSE
            BY Zenon
          <6>1. PICK e \in TerminalEvents :
                    \E t \in {<<e>>, <<Event("BackendEventRecorded"), e>>} :
                        ledger' = ledger \o t
            BY Zenon DEF RecordResponse
          <6>2. \A b : ledger \o <<e>> # ledger /\ ledger \o <<b, e>> # ledger
            <7>1. ledger \in Seq(DomainEvent) /\ e \in DomainEvent
              BY <1>0, TerminalEventsType, Zenon DEF StoreOK
            <7>2. \A b : /\ Len(ledger \o <<e>>) = Len(ledger) + 1
                         /\ Len(ledger \o <<b, e>>) = Len(ledger) + 2
                         /\ Len(ledger) \in Nat
              BY <7>1
            <7> QED
              BY <7>2
          <6> QED
            BY <3>4, <6>1, <6>2, Zenon DEF store
        <5> QED
          BY <2>1, <3>4, <5>2, <5>3, ZenonT(30) DEF RecordFailure
      <4>2. faults # 0
        <5>1. pc[w] = "failing" /\ mem[w].status # "running"
          BY <4>1, Zenon DEF RecordFailure, TERMINAL_STATUSES
        <5> QED
          BY <5>1, ZenonT(30) DEF Carried
      <4> QED
        BY <3>1, <4>2, Zenon DEF Carried
    <3> QED
      BY <3>1, <3>2, <3>3, <3>4, Zenon
  <2>2. CASE Fetch(w)
    <3>1. pc'[w] = "fetched" /\ UNCHANGED <<ledger, row, mem, faults>>
          /\ \A v \in Workers : /\ pc[v] \in InRun => pc'[v] \in InRun
                                /\ pc'[v] = "failing" => pc[v] = "failing"
      BY <1>0, <2>2, Zenon DEF Fetch, Goto, store, InRun
    <3> QED
      BY <3>1, Zenon DEF Carried
  <2>3. CASE StartClaim(w)
    <3> DEFINE e == Event("ExecutionStarted")
    <3>1. e \in DomainEvent /\ e.name = "ExecutionStarted" /\ AppendLocked(e)
      BY <2>3, EventType, Zenon DEF EventNames, StartClaim
    <3> HIDE DEF e
    <3>2. row'.status = "running"
      BY <1>0, <3>1, AppendLockedFacts, Zenon DEF StatusAfter
    <3>3. pc'[w] = "claimed" /\ UNCHANGED faults
          /\ \A v \in Workers : v # w => pc'[v] = pc[v] /\ mem'[v] = mem[v]
      BY <1>0, <2>3, ZenonT(30) DEF StartClaim, Goto
    <3> QED
      BY <3>2, <3>3, Zenon DEF Carried, InRun
  <2>4. CASE \/ ReadStreamVersion(w) \/ SkipLease(w) \/ CallBackend(w) \/ Raise(w)
             \/ Normalize(w) \/ IssueLease(w)
    <3>1. /\ pc[w] \in Unsent \cup {"calling"} /\ pc'[w] \in InRun /\ UNCHANGED faults
          /\ \A v \in Workers : v # w => pc'[v] = pc[v] /\ mem'[v] = mem[v]
          /\ pc'[w] = "failing" => mem' = mem
      BY <1>0, <2>4, Zenon DEF ReadStreamVersion, SkipLease, CallBackend, Raise, Normalize,
                        IssueLease, RecordFrom, Goto, InRun, Unsent
    <3>2. mem[w].status = "running" /\ row.status # "queued"
      BY <3>1, Zenon DEF RunInvariant, CopiesAreKnown, UnclaimedIsUntouched, Unsent, InRun,
                  BeforeClaim
    <3>3. row'.status # "queued"
      BY <2>4, <3>2, RunStepStatus, Zenon
    <3> QED
      BY <3>1, <3>2, <3>3, ZenonT(30) DEF Carried
  <2> QED
    BY <1>7, <2>1, <2>2, <2>3, <2>4, Zenon DEF Work
<1> QED
  BY <1>2, <1>3, <1>4, <1>5, <1>6, <1>7, Zenon
  DEF Next, Decide, Publish, Expire, Fault, Administer

-----------------------------------------------------------------------------
(* The theorems.                                                           *)

\* Nothing is recorded, copied or owed before create_execution.
LEMMA InitAccount == Init => AccountInvariant
<1> SUFFICES ASSUME Init  PROVE AccountInvariant
  BY Zenon
<1>1. /\ \A w \in Workers : pc[w] = "idle"
      /\ ledger = <<>> /\ row = folded /\ row.status = "queued" /\ Clean(row)
      /\ row.job_id = "none" /\ pubPc = "none" /\ expiryJob = "none"
      /\ sweeper = "idle" /\ published = 0 /\ deliveries = 0
  BY Zenon DEF Init, InitialState, Clean
<1>2. ~Created /\ ~Closed /\ DOMAIN ledger = {}
  BY <1>1 DEF Created, Closed
<1>3. GatesInOrder /\ GatesAhead
  BY <1>2, ZenonT(30) DEF GatesInOrder, GatesAhead, NoneFrom
<1>4. RowIsFolded /\ LiveIsClean
  BY <1>1, <1>2, ZenonT(30) DEF RowIsFolded, StatusIsRebuilt, LiveIsClean, InRun
<1>5. BeforeRequest /\ Carried
  BY <1>1, <1>2, Zenon DEF BeforeRequest, Carried
<1> QED
  BY <1>3, <1>4, <1>5, Zenon DEF AccountInvariant

\* The strengthened invariant behind AccountedFor holds in every reachable
\* state: gates ahead, clean live rows and copies, and someone to carry on.
THEOREM AccountInvariantHolds == Spec => []AccountInvariant
<1>1. RunInvariant /\ RunInvariant' /\ AccountInvariant /\ [Next]_vars
          => AccountInvariant'
  <2> SUFFICES ASSUME RunInvariant, RunInvariant', AccountInvariant, [Next]_vars
               PROVE  AccountInvariant'
    BY Zenon
  <2>1. BeforeRequest /\ Account /\ Carried
    BY Zenon DEF AccountInvariant, Account
  <2>2. BeforeRequest'
    BY <2>1, BeforeRequestStep, Zenon
  <2>3. Account'
    BY <2>1, AccountStep, Zenon
  <2>4. Carried'
    BY <2>1, CarriedStep, Zenon
  <2> QED
    BY <2>2, <2>3, <2>4, Zenon DEF AccountInvariant, Account
<1> QED
  BY InitAccount, <1>1, RunInvariantHolds, PTL DEF Spec

\* For any number of workers, deliveries and faults: approval, queueing, claim,
\* normalisation and lease are recorded once and in order, the row is the fold
\* of its ledger until a second terminal event, and an execution is stranded
\* only by a fault.
THEOREM AccountedForHolds == Spec => []AccountedFor
<1>1. RunInvariant /\ AccountInvariant => AccountedFor
  <2> SUFFICES ASSUME RunInvariant, AccountInvariant  PROVE AccountedFor
    BY Zenon
  <2>1. GatesInOrder /\ RowIsFolded /\ Carried
    BY Zenon DEF AccountInvariant
  <2>2. StrandedOnlyByFault
    <3>1. faults \in Nat
      BY BoundsAssumption DEF RunInvariant, TypeOK
    <3>2. ASSUME faults = 0, Created, Idle  PROVE row.status \notin {"queued", "running"}
      BY <2>1, <3>2 DEF Carried, Idle, InRun
    <3> QED
      BY <3>1, <3>2 DEF StrandedOnlyByFault
  <2> QED
    BY <2>1, <2>2, Zenon DEF AccountedFor
<1> QED
  BY <1>1, AccountInvariantHolds, RunInvariantHolds, PTL
=============================================================================
