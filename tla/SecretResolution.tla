--------------------------- MODULE SecretResolution ---------------------------
(***************************************************************************)
(* credential_authority: an execution that carries credential references   *)
(* freezes its authority when it is admitted, passes the reference guards  *)
(* when a worker claims it, gets a signed lease, and a credential provider *)
(* then resolves a reference with that lease.  Meanwhile administrators    *)
(* edit the rows the authority names, deactivate users, revoke             *)
(* permissions and rotate keys; time passes; and the request that          *)
(* published the job appends its own event to the ledger, at any time      *)
(* after the insert: the worker may be well on its way by then.            *)
(*                                                                         *)
(* The provider is not part of the repository: its steps are the protocol  *)
(* of docs/credential-authority.md over the functions of the module.  rev  *)
(* says which revision of each row is current; the frozen snapshot is the  *)
(* revisions it was taken from.                                            *)
(***************************************************************************)
EXTENDS Integers, Sequences, FiniteSets

CONSTANTS Providers,    \* concurrent resolution requests for the reference
          Ttls,         \* configured lease lifetimes
          MaxReference, \* MAX_REFERENCE_LEASE_SECONDS
          MaxTime, MaxEdits

Rows == {"procedure", "command", "backend", "settings", "target"}
\* Rows whose revision is a last_updated stamp; the others are compared by
\* content and may be edited back.
Stamped == {"backend", "target"}
Users == {"requester", "approver", "executor"}

VARIABLES
  rev, active, perm,   \* row revisions; active users; users with permission
  lineage, signer,     \* key versions that verify; the one that signs
  now, edits,
  stage,    \* how far the worker is: one of Stages
  running,  \* the status of the execution's row is "running"
  published, \* the request that published the job has appended its event
  saved,    \* credential_authority: the frozen revisions
  class,    \* "low", "protected" or "legacy" approval of the procedure
  approver, \* approved_by: "none", "approver" or "requester"
  super,    \* the requester is a superuser
  ledger,   \* the events of the execution, in sequence
  version,  \* the stream version the worker read for the lease
  lease,    \* [issued, expires, key, version] or NoLease
  pc, receipt, readAt, lost
vars == <<rev, active, perm, lineage, signer, now, edits, stage, running, published,
          saved, class, approver, super, ledger, version, lease, pc, receipt, readAt, lost>>
world == <<rev, active, perm, lineage, signer, edits>>
fixed == <<saved, class, approver, super>>
exec == <<stage, running, published, fixed, ledger, version, lease>>
provider == <<pc, receipt, readAt, lost>>

Stages == {"new", "snapshot", "queued", "running", "claimed", "ready", "normalized", "versioned",
           "signed", "leased", "over"}
\* The stages before a worker has the execution, and the events that end it.
Waiting == {"new", "snapshot", "queued"}
Terminal == {"EnqueueFailed", "Failed", "Succeeded"}
Events == {"Queued", "JobEnqueued", "Started", "ParametersNormalized", "DispatchLeaseIssued"}
          \union Terminal
NoLease == [issued |-> 0, expires |-> 0, key |-> 0, version |-> 0]
ASSUME BoundsAssumption == Ttls \subseteq Nat \ {0} /\ MaxReference \in Nat \ {0}

Init ==
  /\ rev = [r \in Rows |-> 0] /\ active = Users /\ perm = Users
  /\ lineage = {1} /\ signer = 1 /\ now = 0 /\ edits = 0
  /\ stage = "new" /\ saved = rev /\ running = FALSE /\ published = FALSE
  /\ class \in {"low", "protected", "legacy"}
  /\ approver \in {"none", "approver", "requester"}
  /\ super \in BOOLEAN
  /\ ledger = <<>> /\ version = 0 /\ lease = NoLease
  /\ pc = [p \in Providers |-> "idle"] /\ receipt = FALSE
  /\ readAt = [p \in Providers |-> 0] /\ lost = [p \in Providers |-> FALSE]

---------------------------------------------------------------------------
\* Inside its reveal transaction a provider holds the rows of the authority.
InTransaction == {"locked", "reading", "read", "delivering"}
Locked == \E p \in Providers : pc[p] \in InTransaction

\* _check_execution_permissions: read afresh, without locks.
Permitted ==
  /\ {"requester"} \subseteq perm \intersect active
  /\ approver # "none" => approver \in perm \intersect active

\* _reference_context and the comparison of _current_reference_snapshot.
ContextHolds == /\ "requester" \in active \intersect perm
                /\ "executor" \in active
                /\ rev["settings"] = 0
SnapshotHolds == /\ ContextHolds
                 /\ \A r \in Rows \ {"settings"} : rev[r] = saved[r]
                 /\ Permitted

\* _current_approval.  For a protected procedure the code also compares the
\* reviewed policy and the approval snapshot, which only refuses more.
ApprovalHolds ==
  IF class = "low" THEN approver = "none" /\ Permitted
  ELSE /\ class = "protected"
       /\ approver # "none"
       /\ approver = "requester" => super
       /\ approver \in active \intersect perm
       /\ Permitted

\* _lease_times.
LeaseTimes ==
  /\ lease.issued <= now /\ now < lease.expires
  /\ lease.expires - lease.issued \in 1..MaxReference

\* _issuance_event: the issuance is the last event and follows the event the
\* lease names, which is the normalisation.
IssuanceEvent ==
  /\ lease.version \in DOMAIN ledger
  /\ lease.version + 1 = Len(ledger)
  /\ ledger[lease.version + 1] = "DispatchLeaseIssued"
  /\ ledger[lease.version] = "ParametersNormalized"

\* validate_secret_resolution_dispatch, with _verify_lease.
Valid ==
  /\ running
  /\ SnapshotHolds
  /\ lease # NoLease
  /\ LeaseTimes
  /\ IssuanceEvent
  /\ lease.key \in lineage
  /\ ApprovalHolds

---------------------------------------------------------------------------
\* Appending waits for a reveal transaction, which holds the execution's row.
Record(e) == ~Locked /\ ledger' = Append(ledger, e)

\* prepare_reference_execution: the snapshot, and the insert after it.
Snapshot ==
  /\ stage = "new"
  /\ ContextHolds /\ Permitted
  /\ saved' = rev
  /\ stage' = "snapshot"
  /\ UNCHANGED <<world, now, running, published, class, approver, super, ledger, version, lease,
                 provider>>
\* The insert; approval, if any, is granted before the execution is queued.
Insert ==
  /\ stage = "snapshot"
  /\ stage' = "queued"
  /\ Record("Queued")
  /\ UNCHANGED <<world, now, running, published, fixed, version, lease, provider>>

\* _enqueue_execution_job, in the process of the request: the job is public
\* before this event is appended, and the status is not read again.
JobEnqueued ==
  /\ stage \notin {"new", "snapshot"} /\ ~published
  /\ published' = TRUE
  /\ Record("JobEnqueued")
  /\ UNCHANGED <<world, now, stage, running, fixed, version, lease, provider>>
\* Publishing reported an error, although a worker may have the job.
EnqueueFailed ==
  /\ stage \notin {"new", "snapshot"} /\ ~published
  /\ published' = TRUE
  /\ running' = FALSE
  /\ stage' = IF stage = "queued" THEN "over" ELSE stage
  /\ Record("EnqueueFailed")
  /\ UNCHANGED <<world, now, fixed, version, lease, provider>>

\* The worker's own end of the execution.
Over(e) ==
  /\ stage' = "over"
  /\ running' = FALSE
  /\ Record(e)
  /\ UNCHANGED <<world, now, published, fixed, version, lease, provider>>
\* The worker goes on to its next stage without an event.
Proceed(l) ==
  /\ stage' = l
  /\ UNCHANGED <<world, now, running, published, fixed, ledger, version, lease, provider>>
\* The worker claims the queued execution.
Claim ==
  /\ stage = "queued"
  /\ stage' = "running"
  /\ running' = TRUE
  /\ Record("Started")
  /\ UNCHANGED <<world, now, published, fixed, version, lease, provider>>
\* The "backend" guard, require_reference_backend.
BackendGuard ==
  /\ stage = "running"
  /\ IF SnapshotHolds THEN Proceed("claimed") ELSE Over("Failed")
\* require_reference_dispatch_ready: authority, a manifest fetched now and a
\* signing key; any of them may be missing.
DispatchReady(advertised) ==
  /\ stage = "claimed"
  /\ IF SnapshotHolds /\ advertised /\ signer # 0 /\ Permitted
     THEN Proceed("ready")
     ELSE Over("Failed")
\* Normalisation, require_reference_approval and the event.
Normalize ==
  /\ stage = "ready"
  /\ IF ApprovalHolds
     THEN /\ stage' = "normalized"
          /\ Record("ParametersNormalized")
          /\ UNCHANGED <<world, now, running, published, fixed, version, lease, provider>>
     ELSE Over("Failed")

\* _issue_dispatch_lease: the stream version is read without a lock,
ReadVersion ==
  /\ stage = "normalized"
  /\ stage' = "versioned"
  /\ version' = Len(ledger)
  /\ UNCHANGED <<world, now, running, published, fixed, ledger, lease, provider>>
\* (the clamp of issue_dispatch_lease for executions with references)
LeaseTtl(ttl) == IF ttl < MaxReference THEN ttl ELSE MaxReference
\* then the lease is signed, which needs a key,
Sign(ttl) ==
  /\ stage = "versioned"
  /\ IF signer = 0 THEN Over("Failed")
     ELSE /\ stage' = "signed"
          /\ lease' = [issued |-> now, expires |-> now + LeaseTtl(ttl), key |-> signer,
                       version |-> version]
          /\ UNCHANGED <<world, now, running, published, fixed, ledger, version, provider>>
\* and its event appended, wherever the stream is by then.
RecordLease ==
  /\ stage = "signed"
  /\ stage' = "leased"
  /\ Record("DispatchLeaseIssued")
  /\ UNCHANGED <<world, now, running, published, fixed, version, lease, provider>>
\* The answer of the backend ends the execution.
Finish == stage = "leased" /\ Over("Succeeded")

---------------------------------------------------------------------------
\* Edits.  Rows and users wait for a reveal transaction; permissions do not.
Edit(r) ==
  /\ edits < MaxEdits /\ ~Locked
  /\ rev' = [rev EXCEPT ![r] = IF r \in Stamped THEN @ + 1 ELSE 1 - @]
  /\ edits' = edits + 1
  /\ UNCHANGED <<active, perm, lineage, signer, now, exec, provider>>
Deactivate(u) ==
  /\ edits < MaxEdits /\ ~Locked
  /\ active' = active \ {u}
  /\ edits' = edits + 1
  /\ UNCHANGED <<rev, perm, lineage, signer, now, exec, provider>>
Revoke(u) ==
  /\ edits < MaxEdits
  /\ perm' = perm \ {u}
  /\ edits' = edits + 1
  /\ UNCHANGED <<rev, active, lineage, signer, now, exec, provider>>
\* A new signing key, with or without the old one left to verify; or none.
Rotate(k, keep) ==
  /\ edits < MaxEdits
  /\ signer' = k
  /\ lineage' = (IF keep THEN lineage ELSE {}) \union ({k} \ {0})
  /\ edits' = edits + 1
  /\ UNCHANGED <<rev, active, perm, now, exec, provider>>
Tick ==
  /\ now < MaxTime /\ now' = now + 1
  /\ UNCHANGED <<world, exec, provider>>

---------------------------------------------------------------------------
Goto(p, l) == pc' = [pc EXCEPT ![p] = l]
Deny(p) == Goto(p, "denied") /\ UNCHANGED <<receipt, readAt, lost>>

\* Variant of Checked: the instant of expiry is still in time.
CheckedInclusive == {"executor", "requester"} \subseteq active /\ Permitted /\ now <= lease.expires
\* check_authorization_permissions and check_authorization_lifetime.
Checked == {"executor", "requester"} \subseteq active /\ Permitted /\ now < lease.expires
\* First validation, outside the reveal transaction, of a lease sent out.
Validate(p) ==
  /\ pc[p] = "idle" /\ stage \in {"leased", "over"}
  /\ IF Valid THEN Goto(p, "valid") /\ UNCHANGED <<receipt, readAt, lost>> ELSE Deny(p)
  /\ UNCHANGED <<world, now, exec>>
\* The provider's durable receipt for the reference and the nonce.
Reserve(p) ==
  /\ pc[p] = "valid"
  /\ IF receipt THEN Deny(p)
     ELSE Goto(p, "reserved") /\ receipt' = TRUE /\ UNCHANGED <<readAt, lost>>
  /\ UNCHANGED <<world, now, exec>>
\* Validated again inside the transaction: the rows are locked first.
Revalidate(p) ==
  /\ pc[p] = "reserved" /\ ~Locked
  /\ IF Valid THEN Goto(p, "locked") /\ UNCHANGED <<receipt, readAt, lost>> ELSE Deny(p)
  /\ UNCHANGED <<world, now, exec>>
BeginRead(p) ==
  /\ pc[p] = "locked"
  /\ IF Checked THEN Goto(p, "reading") /\ UNCHANGED <<receipt, readAt, lost>> ELSE Deny(p)
  /\ UNCHANGED <<world, now, exec>>
EndRead(p) ==
  /\ pc[p] = "reading"
  /\ Goto(p, "read")
  /\ readAt' = [readAt EXCEPT ![p] = now]
  /\ lost' = [lost EXCEPT ![p] = ~Permitted]
  /\ UNCHANGED <<world, now, exec, receipt>>
AfterRead(p) ==
  /\ pc[p] = "read"
  /\ IF Checked THEN Goto(p, "delivering") /\ UNCHANGED <<receipt, readAt, lost>> ELSE Deny(p)
  /\ UNCHANGED <<world, now, exec>>
Commit(p) ==
  /\ pc[p] = "delivering"
  /\ Goto(p, "delivered")
  /\ UNCHANGED <<world, now, exec, receipt, readAt, lost>>

Next ==
  \/ Snapshot \/ Insert \/ JobEnqueued \/ EnqueueFailed \/ Tick
  \/ Claim \/ BackendGuard \/ Normalize \/ ReadVersion \/ RecordLease \/ Finish
  \/ \E a \in BOOLEAN : DispatchReady(a)
  \/ \E t \in Ttls : Sign(t)
  \/ \E r \in Rows : Edit(r)
  \/ \E u \in Users : Deactivate(u) \/ Revoke(u)
  \/ \E k \in {0, 2}, keep \in BOOLEAN : Rotate(k, keep)
  \/ \E p \in Providers : \/ Validate(p) \/ Reserve(p) \/ Revalidate(p) \/ BeginRead(p)
                          \/ EndRead(p) \/ AfterRead(p) \/ Commit(p)
Spec == Init /\ [][Next]_vars

---------------------------------------------------------------------------

\* While material is read and handed over, everything the authority was frozen
\* from is as it was frozen, requester and executor are active, and the ledger
\* is where the lease says: no event has ended the execution, and the issuance
\* is its last event and directly follows the normalisation, although the
\* request that published the job may append its event between any two.
RevealUnderFrozenAuthority ==
  Locked => /\ running
            /\ \A r \in Rows \ {"settings"} : rev[r] = saved[r]
            /\ rev["settings"] = 0
            /\ {"requester", "executor"} \subseteq active
            /\ \A i \in DOMAIN ledger : ledger[i] \notin Terminal
            /\ lease.version = Len(ledger) - 1
            /\ Len(ledger) \in DOMAIN ledger /\ ledger[Len(ledger)] = "DispatchLeaseIssued"
            /\ lease.version \in DOMAIN ledger /\ ledger[lease.version] = "ParametersNormalized"

\* Material is handed over only under approval that matches the procedure's
\* class: a legacy permission-only approval never suffices, and nobody but a
\* superuser approves their own execution.
RevealIsApproved ==
  Locked => /\ class = "low" <=> approver = "none"
            /\ class # "legacy"
            /\ approver = "requester" => super

\* Nothing is handed over that was read after the lease expired, or after the
\* requester or the approver lost permission during the read.
LateReadNotDelivered ==
  \A p \in Providers : pc[p] \in {"delivering", "delivered"} =>
    readAt[p] < lease.expires /\ ~lost[p]

\* A lease issued for references never lives longer than resolution accepts.
LeaseIsUsable == lease # NoLease => lease.expires - lease.issued \in 1..MaxReference

\* The parts of the inductive invariant: the types it needs;
Shape ==
  /\ now \in Nat
  /\ stage \in Stages /\ running \in BOOLEAN /\ version \in Nat
  /\ lease \in [issued : Nat, expires : Nat, key : {0, 1, 2}, version : Nat]
  /\ signer \in {0, 1, 2}
  /\ pc \in [Providers -> {"idle", "valid", "reserved", "denied", "delivered"} \union InTransaction]
  /\ readAt \in [Providers -> Nat]
  /\ lost \in [Providers -> BOOLEAN]
\* an execution that waits or runs has no event that ends it, and the lease is
\* usable;
Progress ==
  /\ ledger \in Seq(Events)
  /\ running \/ stage \in Waiting => \A i \in DOMAIN ledger : ledger[i] \notin Terminal
  /\ LeaseIsUsable
\* that a request follows a lease sent out, and what is known of a finished read.
Reads ==
  \A p \in Providers :
    /\ pc[p] # "idle" => stage \in {"leased", "over"}
    /\ readAt[p] <= now
    /\ pc[p] = "read" /\ lost[p] => ~Permitted
    /\ pc[p] \in {"delivering", "delivered"} => readAt[p] < lease.expires /\ ~lost[p]
\* The inductive invariant.
Inv == Shape /\ Progress /\ Reads /\ RevealUnderFrozenAuthority /\ RevealIsApproved

\* The credential leaves the provider only under the authority that was frozen
\* and approved, with a lease that resolution accepts, and never late.
ResolutionIsSafe == Inv /\ LateReadNotDelivered

=============================================================================
