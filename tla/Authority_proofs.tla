--------------------------- MODULE Authority_proofs ---------------------------
(***************************************************************************)
(* Machine-checked proofs about what an execution is authorised with: the  *)
(* credentials it resolves, the capability manifest it is admitted on, and *)
(* the key its lease is signed with.  They hold for any number of requests *)
(* and overlapping calls, any lifetimes, any file and block sizes, and any *)
(* number of edits and changes.                                            *)
(***************************************************************************)
EXTENDS SecretResolution, CapabilityHandshake, SigningKeyFile, TLAPS

-----------------------------------------------------------------------------
(* Facts about sequences.                                                  *)

\* Sequences with the same elements are equal.
LEMMA SeqEqual ==
  ASSUME NEW S, NEW s \in Seq(S), NEW t \in Seq(S),
         Len(s) = Len(t), \A i \in 1..Len(s) : s[i] = t[i]
  PROVE  s = t
<1>1. s = [i \in 1..Len(s) |-> s[i]]
  OBVIOUS
<1>2. t = [i \in 1..Len(t) |-> t[i]]
  OBVIOUS
<1>. QED BY <1>1, <1>2, Zenon

-----------------------------------------------------------------------------
(* SecretResolution: credentials are read and handed over only under the   *)
(* authority that was frozen at admission, only with an approval of the    *)
(* right kind, and never when the read outlived the lease or a permission. *)

\* The steps of requests that only move the program counter of one of them.
Quiet(p) == Validate(p) \/ Reserve(p) \/ Revalidate(p) \/ BeginRead(p) \/ EndRead(p)
            \/ AfterRead(p) \/ Commit(p)
\* The steps of the request and of the worker.
Work == \/ Snapshot \/ Insert \/ JobEnqueued \/ EnqueueFailed
        \/ Claim \/ BackendGuard \/ Normalize \/ ReadVersion \/ RecordLease \/ Finish
        \/ (\E a \in BOOLEAN : DispatchReady(a)) \/ (\E t \in Ttls : Sign(t))
\* The steps of administrators and of the clock.
Outside == \/ Tick \/ (\E r \in Rows : Edit(r)) \/ (\E u \in Users : Deactivate(u) \/ Revoke(u))
           \/ (\E k \in {0, 2}, keep \in BOOLEAN : Rotate(k, keep))

\* Every step is one of the three kinds.
LEMMA Kinds == Next => Work \/ Outside \/ \E p \in Providers : Quiet(p)
BY Zenon DEF Next, Work, Outside, Quiet

\* The clamped lifetime of a lease is positive and within the limit.
LEMMA TtlInRange == \A t \in Ttls : LeaseTtl(t) \in 1..MaxReference
BY BoundsAssumption DEF LeaseTtl

\* Permission is never regained: users and grants only disappear.
LEMMA PermissionShrinks ==
  ASSUME [Next]_vars, Permitted' PROVE Permitted
<1>1. active' \subseteq active /\ perm' \subseteq perm /\ approver' = approver
  <2>1. CASE Work
    BY <2>1, ZenonT(30) DEF Work, Snapshot, Insert, JobEnqueued, EnqueueFailed, Claim,
        BackendGuard, Normalize, ReadVersion, RecordLease, Finish, DispatchReady, Sign, Over,
        Proceed, world, fixed
  <2>2. CASE Outside
    BY <2>2, Zenon DEF Outside, Tick, Edit, Deactivate, Revoke, Rotate, world, exec, fixed
  <2>3. ASSUME NEW p \in Providers, Quiet(p) PROVE active' \subseteq active
            /\ perm' \subseteq perm /\ approver' = approver
    BY <2>3, Zenon DEF Quiet, Validate, Reserve, Revalidate, BeginRead, EndRead, AfterRead, Commit,
        world, exec, fixed
  <2>4. CASE UNCHANGED vars
    BY <2>4, Zenon DEF vars
  <2>. QED BY <2>1, <2>2, <2>3, <2>4, Kinds, Zenon
<1>. QED BY <1>1, Zenon DEF Permitted

\* Appending an event gives a ledger, and one that holds no terminal event when
\* neither the ledger nor the event is one.
LEMMA AppendEvent ==
  ASSUME NEW l \in Seq(Events), NEW e \in Events
  PROVE  /\ Append(l, e) \in Seq(Events)
         /\ e \notin Terminal /\ (\A i \in DOMAIN l : l[i] \notin Terminal) =>
              \A i \in DOMAIN Append(l, e) : Append(l, e)[i] \notin Terminal
<1>1. Append(l, e) \in Seq(Events) /\ Len(Append(l, e)) = Len(l) + 1
  OBVIOUS
<1>2. ASSUME e \notin Terminal, \A i \in DOMAIN l : l[i] \notin Terminal,
             NEW i \in DOMAIN Append(l, e)
      PROVE  Append(l, e)[i] \notin Terminal
  <2>1. i \in 1..Len(l) + 1
    BY <1>1
  <2>2. CASE i = Len(l) + 1
    <3>1. Append(l, e)[i] = e
      BY <2>2
    <3>. QED BY <3>1, <1>2, Zenon
  <2>3. CASE i \in 1..Len(l)
    <3>1. Append(l, e)[i] = l[i] /\ i \in DOMAIN l
      BY <2>3
    <3>. QED BY <3>1, <1>2, Zenon
  <2>. QED BY <2>1, <2>2, <2>3
<1>. QED BY <1>1, <1>2, Zenon

USE DEF Locked, InTransaction, NoLease

\* The initial states satisfy the invariant.
LEMMA InvInit == Init => Inv
<1>. SUFFICES ASSUME Init PROVE Inv
  OBVIOUS
<1>1. Shape
  BY DEF Init, Shape, Stages
<1>2. Progress
  BY DEF Init, Progress, LeaseIsUsable
<1>3. ~Locked /\ Reads
  BY DEF Init, Reads
<1>. QED BY <1>1, <1>2, <1>3, Zenon DEF Inv, RevealUnderFrozenAuthority, RevealIsApproved

\* The steps of the request and of the worker keep it: none of them runs while a
\* provider is inside its transaction, because they belong to stages before the
\* lease or wait for the row.
LEMMA InvWork == ASSUME Inv, Work, Permitted' => Permitted PROVE Inv'
<1>. USE DEF Inv, Shape
<1>1. stage \notin {"leased", "over"} => ~Locked
  BY Zenon DEF Reads
<1>2. ~Locked /\ pc' = pc /\ now' = now /\ signer' = signer /\ readAt' = readAt /\ lost' = lost
  BY <1>1, ZenonT(60) DEF Work, Snapshot, Insert, JobEnqueued, EnqueueFailed, Claim,
      BackendGuard, Normalize, ReadVersion, RecordLease, Finish, DispatchReady, Sign, Over,
      Proceed, Record, world, provider
<1>3. ~Locked'
  BY <1>2, Zenon
<1>. DEFINE NonTerminal == \A i \in DOMAIN ledger : ledger[i] \notin Terminal
            Alive == running \/ stage \in Waiting
<1>4. Shape' /\ Progress'
  <2>1. CASE Snapshot \/ \E l \in {"claimed", "ready"} : Proceed(l)
    <3>1. /\ UNCHANGED <<running, ledger, version, lease>> /\ stage' \in Stages
          /\ stage \in Waiting \/ stage' \notin Waiting
      BY <2>1, Zenon DEF Snapshot, Proceed, Stages, Waiting
    <3>. QED BY <3>1, <1>2, Zenon DEF Progress, LeaseIsUsable
  <2>2. CASE \E e \in Terminal : /\ Record(e) /\ running' = FALSE /\ stage' \in Stages \ Waiting
                                 /\ version' = version /\ lease' = lease
    <3>1. PICK e \in Events : Record(e)
      BY <2>2, Zenon DEF Events
    <3>2. ledger' \in Seq(Events)
      BY <3>1, AppendEvent, Zenon DEF Record, Progress
    <3>. QED BY <2>2, <3>2, <1>2, Zenon DEF Progress, LeaseIsUsable
  <2>3. CASE \E e \in Events \ Terminal :
               /\ Record(e) /\ running' \in BOOLEAN /\ stage' \in Stages
               /\ (Alive' => NonTerminal)
               /\ version' = version /\ lease' = lease
    <3>1. PICK e \in Events \ Terminal : Record(e)
      BY <2>3, Zenon
    <3>2. ledger' \in Seq(Events) /\ (NonTerminal => NonTerminal')
      BY <3>1, AppendEvent, Zenon DEF Record, Progress
    <3>. QED BY <2>3, <3>2, <1>2, Zenon DEF Progress, LeaseIsUsable
  <2>4. CASE ReadVersion
    <3>1. version' = Len(ledger) /\ version' \in Nat
      BY <2>4 DEF ReadVersion, Progress
    <3>. QED BY <2>4, <3>1, <1>2, Zenon DEF ReadVersion, Progress, LeaseIsUsable, Stages, Waiting
  <2>5. ASSUME NEW t \in Ttls, Sign(t), signer # 0 PROVE Shape' /\ Progress'
    <3>1. LeaseTtl(t) \in 1..MaxReference /\ MaxReference \in Nat
      BY TtlInRange, BoundsAssumption, Zenon
    <3>2. /\ lease' = [issued |-> now, expires |-> now + LeaseTtl(t), key |-> signer,
                       version |-> version]
          /\ ledger' = ledger /\ running' = running /\ version' = version /\ stage' = "signed"
      BY <2>5, Zenon DEF Sign
    <3>3. Shape'
      BY <3>1, <3>2, <1>2 DEF Stages
    <3>4. LeaseIsUsable'
      BY <3>1, <3>2 DEF LeaseIsUsable
    <3>. QED BY <3>2, <3>3, <3>4, Zenon DEF Progress, Waiting
  <2>6. CASE Insert \/ JobEnqueued \/ RecordLease \/ (Normalize /\ ApprovalHolds)
    <3>1. /\ running' = running /\ version' = version /\ lease' = lease /\ stage' \in Stages
          /\ stage \in Waiting \/ stage' \notin Waiting
      BY <2>6, Zenon DEF Insert, JobEnqueued, RecordLease, Normalize, Stages, Waiting
    <3>2. \E e \in Events \ Terminal : Record(e)
      BY <2>6, Zenon DEF Insert, JobEnqueued, RecordLease, Normalize, Events, Terminal
    <3>3. running' \in BOOLEAN /\ (Alive' => NonTerminal)
      BY <3>1, Zenon DEF Progress
    <3>. QED BY <2>3, <3>1, <3>2, <3>3, Zenon
  <2>7. CASE Claim
    <3>1. NonTerminal
      BY <2>7, Zenon DEF Claim, Progress, Waiting
    <3>. QED BY <2>3, <2>7, <3>1, Zenon DEF Claim, Events, Terminal, Stages
  <2>8. CASE EnqueueFailed \/ \E e \in {"Failed", "Succeeded"} : Over(e)
    BY <2>2, <2>8, Zenon DEF EnqueueFailed, Over, Terminal, Stages, Waiting
  <2>9. Work => \/ Snapshot \/ (\E l \in {"claimed", "ready"} : Proceed(l))
                \/ Insert \/ JobEnqueued \/ RecordLease \/ (Normalize /\ ApprovalHolds)
                \/ Claim \/ ReadVersion \/ (\E t \in Ttls : Sign(t) /\ signer # 0)
                \/ EnqueueFailed \/ \E e \in {"Failed", "Succeeded"} : Over(e)
    BY Zenon DEF Work, BackendGuard, Normalize, Finish, DispatchReady, Sign
  <2>. QED BY <2>1, <2>4, <2>5, <2>6, <2>7, <2>8, <2>9, Zenon
<1>5. Reads'
  <2>1. stage \in {"leased", "over"} => lease' = lease /\ stage' \in {"leased", "over"}
    BY Zenon DEF Work, Snapshot, Insert, JobEnqueued, EnqueueFailed, Claim, BackendGuard,
        Normalize, ReadVersion, RecordLease, Finish, DispatchReady, Sign, Over, Proceed
  <2>. QED BY <2>1, <1>2, Zenon DEF Reads
<1>. QED BY <1>3, <1>4, <1>5, Zenon DEF RevealUnderFrozenAuthority, RevealIsApproved

\* Edits and time keep it: rows and users are edited only outside every reveal
\* transaction, and permissions and keys are not part of what is frozen.
LEMMA InvOutside == ASSUME Inv, Outside, Permitted' => Permitted PROVE Inv'
<1>. USE DEF Inv, Shape
<1>1. /\ UNCHANGED <<exec, provider>> /\ now' \in {now, now + 1}
      /\ signer' \in {0, 1, 2}
  BY Zenon DEF Outside, Tick, Edit, Deactivate, Revoke, Rotate, world
<1>2. Shape' /\ Progress'
  BY <1>1 DEF exec, fixed, provider, Progress, LeaseIsUsable
<1>3. Reads'
  BY <1>1 DEF exec, fixed, provider, Reads
<1>4. Locked => rev' = rev /\ active' = active
  BY Zenon DEF Outside, Tick, Edit, Deactivate, Revoke, Rotate, world
<1>. QED BY <1>1, <1>2, <1>3, <1>4, Zenon DEF RevealUnderFrozenAuthority, RevealIsApproved,
         exec, fixed, provider

\* A provider's step moves it to one label, into its transaction only from
\* there or on a validation, and notes at most the time of the read.
LEMMA QuietMoves ==
  ASSUME NEW p \in Providers, Quiet(p)
  PROVE  /\ \E l \in {"valid", "reserved", "denied", "delivered"} \union InTransaction :
              /\ pc' = [pc EXCEPT ![p] = l]
              /\ l \in InTransaction => pc[p] \in InTransaction \/ (Revalidate(p) /\ Valid)
         /\ readAt' = readAt \/ readAt' = [readAt EXCEPT ![p] = now]
         /\ lost' = lost \/ lost' = [lost EXCEPT ![p] = ~Permitted]
<1>1. CASE Validate(p)
  BY <1>1, Zenon DEF Validate, Goto, Deny, InTransaction
<1>2. CASE Reserve(p)
  BY <1>2, Zenon DEF Reserve, Goto, Deny, InTransaction
<1>3. CASE Revalidate(p)
  <2>1. \/ Valid /\ pc' = [pc EXCEPT ![p] = "locked"]
        \/ pc' = [pc EXCEPT ![p] = "denied"]
    BY <1>3, Zenon DEF Revalidate, Goto, Deny
  <2>2. readAt' = readAt /\ lost' = lost
    BY <1>3, Zenon DEF Revalidate, Deny
  <2>. QED BY <1>3, <2>1, <2>2, Zenon DEF InTransaction
<1>4. CASE BeginRead(p)
  BY <1>4, Zenon DEF BeginRead, Goto, Deny, InTransaction
<1>5. CASE EndRead(p)
  BY <1>5, Zenon DEF EndRead, Goto, InTransaction
<1>6. CASE AfterRead(p)
  BY <1>6, Zenon DEF AfterRead, Goto, Deny, InTransaction
<1>7. CASE Commit(p)
  BY <1>7, Zenon DEF Commit, Goto, InTransaction
<1>. QED BY <1>1, <1>2, <1>3, <1>4, <1>5, <1>6, <1>7, Zenon DEF Quiet

\* A step of a provider that does not end a read, and moves to a label that
\* claims nothing about one, keeps what is known of the reads.
LEMMA ReadsKept ==
  ASSUME Shape, Reads, NEW p \in Providers, NEW l, pc' = [pc EXCEPT ![p] = l],
         UNCHANGED <<stage, lease, now, readAt, lost>>, Permitted' <=> Permitted, l # "read",
         l # "idle" => stage \in {"leased", "over"},
         l \in {"delivering", "delivered"} => readAt[p] < lease.expires /\ ~lost[p]
  PROVE  Reads'
<1>. SUFFICES ASSUME NEW q \in Providers PROVE Reads!(q)'
  BY Zenon DEF Reads
<1>1. CASE q = p
  <2>1. pc'[q] = l
    BY <1>1, Zenon DEF Shape
  <2>. QED BY <1>1, <2>1, Zenon DEF Reads
<1>2. CASE q # p
  <2>1. pc'[q] = pc[q]
    BY <1>2, Zenon DEF Shape
  <2>. QED BY <2>1, Zenon DEF Reads
<1>. QED BY <1>1, <1>2, Zenon

\* A provider's steps keep it: it enters its transaction only on a validation
\* made there, and leaves the read only when the checks after it pass.
LEMMA InvQuiet ==
  ASSUME Inv, NEW p \in Providers, Quiet(p), Permitted' => Permitted PROVE Inv'
<1>. USE DEF Inv, Shape
<1>1. UNCHANGED <<world, now, exec>>
  BY Zenon DEF Quiet, Validate, Reserve, Revalidate, BeginRead, EndRead, AfterRead, Commit
<1>2. Shape' /\ Progress'
  <2>1. pc' \in [Providers -> {"idle", "valid", "reserved", "denied",
            "delivered"} \union InTransaction]
    BY QuietMoves, Zenon
  <2>2. readAt' \in [Providers -> Nat]
    BY QuietMoves, Zenon
  <2>3. lost' \in [Providers -> BOOLEAN]
    BY QuietMoves, ZenonT(30)
  <2>4. UNCHANGED <<now, stage, running, version, lease, signer, ledger>>
    BY <1>1, Zenon DEF exec, fixed, world
  <2>. QED BY <2>1, <2>2, <2>3, <2>4 DEF Progress, LeaseIsUsable
<1>3. Permitted' <=> Permitted
  BY <1>1, Zenon DEF Permitted, world, exec, fixed
<1>4. Revalidate(p) => Valid \/ pc'[p] = "denied"
  BY Zenon DEF Revalidate, Goto, Deny
<1>5. Valid => /\ running /\ SnapshotHolds /\ ApprovalHolds
               /\ \A i \in DOMAIN ledger : ledger[i] \notin Terminal
               /\ lease.version = Len(ledger) - 1
               /\ Len(ledger) \in DOMAIN ledger /\ ledger[Len(ledger)] = "DispatchLeaseIssued"
               /\ lease.version \in DOMAIN ledger
               /\ ledger[lease.version] = "ParametersNormalized"
  BY DEF Valid, IssuanceEvent, Progress
<1>6. Locked' => Locked \/ (Revalidate(p) /\ Valid)
  <2>1. PICK l : /\ pc' = [pc EXCEPT ![p] = l]
                 /\ l \in InTransaction => pc[p] \in InTransaction \/ (Revalidate(p) /\ Valid)
    BY QuietMoves, Zenon
  <2>2. ASSUME NEW q \in Providers, pc'[q] \in InTransaction
        PROVE  Locked \/ (Revalidate(p) /\ Valid)
    <3>1. CASE q = p
      BY <2>1, <2>2, <3>1, Zenon DEF Locked
    <3>2. CASE q # p
      BY <2>1, <2>2, <3>2, Zenon DEF Locked
    <3>. QED BY <3>1, <3>2, Zenon
  <2>. QED BY <2>2, Zenon DEF Locked
<1>7. Reads'
  <2>5. stage \in {"leased", "over"}
    BY Zenon DEF Quiet, Validate, Reserve, Revalidate, BeginRead, EndRead, AfterRead, Commit, Reads
  <2>1. CASE EndRead(p)
    <3>1. /\ pc' = [pc EXCEPT ![p] = "read"] /\ pc[p] = "reading"
          /\ readAt' = [readAt EXCEPT ![p] = now] /\ now' = now
          /\ stage' = stage /\ lease' = lease
      BY <2>1, <1>1, Zenon DEF EndRead, Goto, exec, fixed
    <3>2. lost'[p] => ~Permitted
      BY <2>1, ZenonT(30) DEF EndRead
    <3>3. \A q \in Providers \ {p} : lost'[q] = lost[q]
      BY <2>1, Zenon DEF EndRead
    <3>. SUFFICES ASSUME NEW q \in Providers PROVE Reads!(q)'
      BY Zenon DEF Reads
    <3>4. CASE q = p
      BY <3>4, <3>1, <3>2, <1>3, <2>5 DEF Reads
    <3>5. CASE q # p
      BY <3>5, <3>1, <3>3, <1>3, <2>5, Zenon DEF Reads
    <3>. QED BY <3>4, <3>5, Zenon
  <2>. DEFINE Calm == UNCHANGED <<stage, lease, now, readAt, lost>>
  <2>2. CASE AfterRead(p)
    <3>1. Calm
      BY <2>2, <1>1, Zenon DEF AfterRead, Deny, exec, fixed
    <3>2. /\ readAt[p] <= now
          /\ Permitted => ~lost[p]
      BY <2>2, Zenon DEF AfterRead, Reads, InTransaction
    <3>3. CASE Checked
      <4>1. pc' = [pc EXCEPT ![p] = "delivering"]
        BY <2>2, <3>3, Zenon DEF AfterRead, Goto
      <4>2. readAt[p] < lease.expires /\ ~lost[p]
        BY <3>2, <3>3 DEF Checked
      <4>. QED BY <1>3, <2>5, <3>1, <3>2, <4>1, <4>2, ReadsKept, Zenon
    <3>4. CASE ~Checked
      <4>1. pc' = [pc EXCEPT ![p] = "denied"]
        BY <2>2, <3>4, Zenon DEF AfterRead, Goto, Deny
      <4>. QED BY <1>3, <2>5, <3>1, <4>1, ReadsKept, Zenon DEF InTransaction
    <3>. QED BY <3>3, <3>4, Zenon
  <2>3. CASE Revalidate(p)
    <3>1. Calm
      BY <2>3, <1>1, Zenon DEF Revalidate, Deny, exec, fixed
    <3>2. \/ pc' = [pc EXCEPT ![p] = "locked"] /\ Valid
          \/ pc' = [pc EXCEPT ![p] = "denied"]
      BY <2>3, Zenon DEF Revalidate, Goto, Deny
    <3>. QED BY <1>3, <1>5, <2>5, <3>1, <3>2, ReadsKept, Zenon DEF InTransaction
  <2>4. CASE Validate(p) \/ Reserve(p) \/ BeginRead(p) \/ Commit(p)
    <3>1. Calm
      BY <2>4, <1>1, Zenon DEF Validate, Reserve, BeginRead, Commit, Deny, exec, fixed
    <3>2. \/ \E l \in {"valid", "reserved", "denied"} : pc' = [pc EXCEPT ![p] = l]
          \/ pc' = [pc EXCEPT ![p] = "reading"] /\ pc[p] = "locked"
          \/ pc' = [pc EXCEPT ![p] = "delivered"] /\ pc[p] = "delivering"
      BY <2>4, Zenon DEF Validate, Reserve, BeginRead, Commit, Goto, Deny
    <3>3. CASE \E l \in {"valid", "reserved", "denied"} : pc' = [pc EXCEPT ![p] = l]
      BY <1>3, <2>5, <3>1, <3>3, ReadsKept, Zenon DEF InTransaction
    <3>4. CASE pc' = [pc EXCEPT ![p] = "reading"] /\ pc[p] = "locked"
      BY <1>3, <2>5, <3>1, <3>4, ReadsKept, Zenon
    <3>5. CASE pc' = [pc EXCEPT ![p] = "delivered"] /\ pc[p] = "delivering"
      <4>1. readAt[p] < lease.expires /\ ~lost[p]
        BY <3>5, Zenon DEF Reads, InTransaction
      <4>. QED BY <1>3, <2>5, <3>1, <3>5, <4>1, ReadsKept, Zenon
    <3>. QED BY <3>2, <3>3, <3>4, <3>5, Zenon
  <2>. QED BY <2>1, <2>2, <2>3, <2>4, Zenon DEF Quiet
<1>8. RevealUnderFrozenAuthority'
  BY <1>1, <1>5, <1>6, Zenon DEF RevealUnderFrozenAuthority, SnapshotHolds, ContextHolds,
      world, exec, fixed
<1>9. RevealIsApproved'
  BY <1>1, <1>5, <1>6, Zenon DEF RevealIsApproved, ApprovalHolds, exec, fixed
<1>. QED BY <1>2, <1>7, <1>8, <1>9, Zenon

\* The invariant holds in every reachable state.
THEOREM InvHolds == Spec => []Inv
<1>1. Inv /\ [Next]_vars => Inv'
  <2>. SUFFICES ASSUME Inv, [Next]_vars PROVE Inv'
    BY Zenon
  <2>1. Permitted' => Permitted
    BY PermissionShrinks, Zenon
  <2>2. CASE UNCHANGED vars
    <3>1. Shape' /\ Progress'
      <4>1. Shape'
        BY <2>2, Zenon DEF vars, Inv, Shape
      <4>2. Progress'
        BY <2>2, Zenon DEF vars, Inv, Progress, LeaseIsUsable
      <4>. QED BY <4>1, <4>2, Zenon
    <3>2. Reads'
      BY <2>2, Zenon DEF vars, Inv, Reads, Permitted
    <3>3. RevealUnderFrozenAuthority' /\ RevealIsApproved'
      BY <2>2, Zenon DEF vars, Inv, RevealUnderFrozenAuthority, RevealIsApproved, Locked
    <3>. QED BY <3>1, <3>2, <3>3, Zenon DEF Inv
  <2>. QED BY <2>1, <2>2, Kinds, InvWork, InvOutside, InvQuiet, Zenon
<1>. QED BY InvInit, <1>1, PTL DEF Spec

\* For any number of requests and edits, material is read and handed over only
\* under the frozen authority.
THEOREM RevealUnderFrozenAuthorityHolds == Spec => []RevealUnderFrozenAuthority
<1>1. Inv => RevealUnderFrozenAuthority
  BY Zenon DEF Inv
<1>. QED BY <1>1, InvHolds, PTL

\* It is handed over only under approval that matches the procedure's class.
THEOREM RevealIsApprovedHolds == Spec => []RevealIsApproved
<1>1. Inv => RevealIsApproved
  BY Zenon DEF Inv
<1>. QED BY <1>1, InvHolds, PTL

\* What was read too late, or without permission, is not handed over.
THEOREM LateReadNotDeliveredHolds == Spec => []LateReadNotDelivered
<1>1. Inv => LateReadNotDelivered
  BY Zenon DEF Inv, Reads, LateReadNotDelivered
<1>. QED BY <1>1, InvHolds, PTL

\* Every lease issued for references is short enough to be accepted.
THEOREM LeaseIsUsableHolds == Spec => []LeaseIsUsable
<1>1. Inv => LeaseIsUsable
  BY Zenon DEF Inv, Progress
<1>. QED BY <1>1, InvHolds, PTL

\* The credential leaves the provider only under the authority that was frozen
\* and approved, with a lease that resolution accepts, and never late.
THEOREM ResolutionIsSafeHolds == Spec => []ResolutionIsSafe
BY InvHolds, LateReadNotDeliveredHolds, PTL DEF ResolutionIsSafe

-----------------------------------------------------------------------------
(* CapabilityHandshake: a cached manifest never makes a decision older     *)
(* than its lifetime, and an explicit procedure is accepted only on a      *)
(* manifest that the backend did advertise.                                *)

\* The window of a call is a positive number of ticks.
LEMMA WindowPositive == \A c \in Calls : Window(c) \in Nat /\ Window(c) >= 1 /\ (cached[c]
    => Window(c) = Ttl)
BY TimeAssumption DEF Window

\* Initially nothing is cached and no call has a manifest.
LEMMA HandshakeInvInit == HandshakeInit => HandshakeInv
BY TimeAssumption, NoneAssumption DEF HandshakeInit, HandshakeInv, NoEntry, Never

\* Starting a call keeps the invariant: a hit is younger than the lifetime.
LEMMA InvBegin == ASSUME HandshakeInv, NEW c \in Calls, Begin(c) PROVE HandshakeInv'
<1>1. \A d \in Calls : Window(d)' = Window(d)
  BY Zenon DEF Begin, Window
<1>2. Window(c) \in Nat /\ (cached[c] => Window(c) = Ttl)
  BY WindowPositive, Zenon
<1>. DEFINE hit == cached[c] /\ cache # NoEntry /\ clock - cache.at < Ttl
<1>3. CASE hit
  <2>1. /\ state' = [state EXCEPT ![c] = "fetched"]
        /\ seen' = [seen EXCEPT ![c] = cache.manifest]
        /\ began' = [began EXCEPT ![c] = clock]
        /\ UNCHANGED <<clock, advertised, lastAt, contract, cache, cached, judged>>
    BY <1>3, ZenonT(30) DEF Begin
  <2>2. cache.manifest # None => lastAt[cache.manifest] > clock - Window(c)
    BY <1>2, <1>3, TimeAssumption DEF HandshakeInv
  <2>3. /\ state' \in [Calls -> {"idle", "fetching", "answered", "fetched", "verified"}]
        /\ began' \in [Calls -> Nat] /\ seen' \in [Calls -> Manifests \union {None}]
    BY <2>1, Zenon DEF HandshakeInv
  <2>4. ASSUME NEW d \in Calls, d # c
        PROVE  state'[d] = state[d] /\ seen'[d] = seen[d] /\ began'[d] = began[d]
    BY <2>1, <2>4, Zenon DEF HandshakeInv
  <2>5. state'[c] = "fetched" /\ seen'[c] = cache.manifest /\ began'[c] = clock
    BY <2>1, Zenon DEF HandshakeInv
  <2>6. clock <= clock
    BY DEF HandshakeInv
  <2>7. ASSUME NEW d \in Calls
        PROVE  /\ began'[d] <= clock'
               /\ state'[d] = "answered" /\ seen'[d] # None => lastAt'[seen'[d]] >= began'[d]
               /\ state'[d] \in {"fetched", "verified"} /\ seen'[d] # None =>
                    lastAt'[seen'[d]] > began'[d] - Window(d)'
    <3>1. CASE d = c
      BY <1>1, <2>1, <2>2, <2>5, <2>6, <3>1, Zenon
    <3>2. CASE d # c
      BY <1>1, <2>1, <2>4, <3>2, Zenon DEF HandshakeInv
    <3>. QED BY <3>1, <3>2, Zenon
  <2>. QED BY <2>1, <2>3, <2>7, Zenon DEF HandshakeInv
<1>4. CASE ~hit
  <2>1. /\ state' = [state EXCEPT ![c] = "fetching"]
        /\ began' = [began EXCEPT ![c] = clock]
        /\ UNCHANGED <<clock, advertised, lastAt, contract, cache, cached, seen, judged>>
    BY <1>4, ZenonT(30) DEF Begin
  <2>. QED BY <1>1, <2>1 DEF HandshakeInv
<1>. QED BY <1>3, <1>4, Zenon

\* Storing an answer keeps it: the entry is stamped before the answer.
LEMMA InvStore == ASSUME HandshakeInv, NEW c \in Calls, Store(c) PROVE HandshakeInv'
<1>1. \A d \in Calls : Window(d)' = Window(d)
  BY Zenon DEF Store, Window
<1>2. Window(c) \in Nat /\ Window(c) >= 1
  BY WindowPositive, Zenon
<1>3. /\ cache' = [at |-> began[c], manifest |-> seen[c]]
      /\ state[c] = "answered" /\ state' = [state EXCEPT ![c] = "fetched"]
      /\ UNCHANGED <<clock, advertised, lastAt, began, seen>>
  BY Zenon DEF Store, Stamp
<1>4. /\ cache' \in [at : Int, manifest : Manifests \union {None}]
      /\ cache'.manifest # None => lastAt'[cache'.manifest] >= cache'.at
  <2>1. cache'.at = began[c] /\ cache'.manifest = seen[c]
    BY <1>3, Zenon
  <2>2. began[c] \in Nat /\ seen[c] \in Manifests \union {None}
        /\ (seen[c] # None => lastAt[seen[c]] >= began[c])
    BY <1>3, Zenon DEF HandshakeInv
  <2>3. cache' \in [at : Int, manifest : Manifests \union {None}]
    BY <1>3, <2>2
  <2>. QED BY <1>3, <2>1, <2>2, <2>3, Zenon
<1>5. state' \in [Calls -> {"idle", "fetching", "answered", "fetched", "verified"}]
  BY <1>3, Zenon DEF HandshakeInv
<1>6. ASSUME NEW d \in Calls
      PROVE  /\ began'[d] <= clock'
             /\ state'[d] = "answered" /\ seen'[d] # None => lastAt'[seen'[d]] >= began'[d]
             /\ state'[d] \in {"fetched", "verified"} /\ seen'[d] # None =>
                  lastAt'[seen'[d]] > began'[d] - Window(d)'
  <2>1. CASE d = c
    <3>1. lastAt[seen[c]] \in Int /\ began[c] \in Nat
      BY Zenon DEF HandshakeInv
    <3>2. state'[d] = "fetched" /\ (seen[c] # None => lastAt[seen[c]] >= began[c])
      BY <1>3, <2>1, Zenon DEF HandshakeInv
    <3>3. lastAt[seen[c]] >= began[c] => lastAt[seen[c]] > began[c] - Window(c)
      BY <1>2, <3>1
    <3>4. began[c] <= clock
      BY Zenon DEF HandshakeInv
    <3>. QED BY <1>1, <1>3, <2>1, <3>2, <3>3, <3>4, Zenon
  <2>2. CASE d # c
    BY <1>1, <1>3, <2>2, Zenon DEF HandshakeInv
  <2>. QED BY <2>1, <2>2, Zenon
<1>. QED BY <1>3, <1>4, <1>5, <1>6, Zenon DEF HandshakeInv

\* Any other step of a call keeps it.
LEMMA InvCall ==
  ASSUME HandshakeInv, NEW c \in Calls, Verify(c) \/ \E m \in {advertised, None} : Answer(c, m)
  PROVE  HandshakeInv'
<1>1. \A d \in Calls : Window(d)' = Window(d)
  BY Zenon DEF Verify, Answer, Window
<1>2. CASE Verify(c)
  BY <1>1, <1>2, Zenon DEF HandshakeInv, Verify
<1>3. ASSUME NEW m \in {advertised, None}, Answer(c, m) PROVE HandshakeInv'
  BY <1>1, <1>3, Zenon DEF HandshakeInv, Answer
<1>. QED BY <1>2, <1>3, Zenon

\* A step after which every manifest is as young as before, or younger, and
\* which leaves cache and calls alone, keeps it.
LEMMA Younger ==
  ASSUME HandshakeInv, UNCHANGED <<cache, state, began, seen>>,
         clock' \in Nat, clock' >= clock, advertised' \in Manifests \union {None},
         lastAt' \in [Manifests \union {None} -> Int], lastAt'[advertised'] = clock',
         \A m \in Manifests : lastAt'[m] >= lastAt[m] /\ lastAt'[m] <= clock',
         \A d \in Calls : Window(d)' = Window(d) /\ Window(d) \in Nat
  PROVE  HandshakeInv'
<1>1. ASSUME NEW m \in Manifests \union {None}, m # None, NEW x \in Int
      PROVE  (lastAt[m] >= x => lastAt'[m] >= x) /\ (lastAt[m] > x => lastAt'[m] > x)
  BY <1>1 DEF HandshakeInv
<1>2. cache # NoEntry /\ cache.manifest # None => lastAt'[cache.manifest] >= cache.at
  BY <1>1, Zenon DEF HandshakeInv
<1>3. ASSUME NEW c \in Calls
      PROVE  /\ began[c] <= clock'
             /\ state[c] = "answered" /\ seen[c] # None => lastAt'[seen[c]] >= began[c]
             /\ state[c] \in {"fetched", "verified"} /\ seen[c] # None =>
                  lastAt'[seen[c]] > began[c] - Window(c)
  <2>1. /\ began[c] \in Nat /\ began[c] <= clock /\ clock \in Nat
        /\ seen[c] \in Manifests \union {None} /\ Window(c) \in Nat
    BY Zenon DEF HandshakeInv
  <2>2. began[c] \in Int /\ began[c] - Window(c) \in Int /\ began[c] <= clock'
    BY <2>1
  <2>3. /\ state[c] = "answered" /\ seen[c] # None => lastAt[seen[c]] >= began[c]
        /\ state[c] \in {"fetched", "verified"} /\ seen[c] # None =>
             lastAt[seen[c]] > began[c] - Window(c)
    BY Zenon DEF HandshakeInv
  <2>. QED BY <1>1, <2>1, <2>2, <2>3, Zenon
<1>. QED BY <1>2, <1>3, Zenon DEF HandshakeInv

\* The backend and the clock only make manifests younger.
LEMMA InvWorld ==
  ASSUME HandshakeInv, Elapse \/ Clear \/ (\E m \in Manifests \union {None} : Drift(m))
              \/ (\E k \in Contracts : EditProcedure(k)) \/ UNCHANGED handshake
  PROVE  HandshakeInv'
<1>1. \A d \in Calls : Window(d)' = Window(d) /\ Window(d) \in Nat
  BY WindowPositive, Zenon DEF Elapse, Clear, Drift, EditProcedure, handshake, Window
<1>2. /\ clock \in Nat /\ advertised \in Manifests \union {None} /\ lastAt[advertised] = clock
      /\ lastAt \in [Manifests \union {None} -> Int]
      /\ \A m \in Manifests : lastAt[m] <= clock
  BY Zenon DEF HandshakeInv
<1>3. CASE Elapse
  <2>1. /\ clock' = clock + 1 /\ lastAt' = [lastAt EXCEPT ![advertised] = clock + 1]
        /\ UNCHANGED <<advertised, cache, state, began, seen>>
    BY <1>3, Zenon DEF Elapse
  <2>2. /\ clock' \in Nat /\ clock' >= clock /\ lastAt' \in [Manifests \union {None} -> Int]
        /\ lastAt'[advertised'] = clock'
    BY <1>2, <2>1
  <2>3. \A m \in Manifests : lastAt'[m] >= lastAt[m] /\ lastAt'[m] <= clock'
    BY <1>2, <2>1
  <2>. QED BY <1>1, <1>2, <2>1, <2>2, <2>3, Younger, Zenon
<1>4. ASSUME NEW m \in Manifests \union {None}, Drift(m) PROVE HandshakeInv'
  <2>1. /\ advertised' = m /\ lastAt' = [lastAt EXCEPT ![m] = clock]
        /\ UNCHANGED <<clock, cache, state, began, seen>>
    BY <1>4, Zenon DEF Drift
  <2>2. /\ clock' \in Nat /\ clock' >= clock /\ lastAt' \in [Manifests \union {None} -> Int]
        /\ lastAt'[advertised'] = clock'
    BY <1>2, <2>1
  <2>3. \A n \in Manifests : lastAt'[n] >= lastAt[n] /\ lastAt'[n] <= clock'
    BY <1>2, <2>1
  <2>. QED BY <1>1, <2>1, <2>2, <2>3, Younger, Zenon
<1>5. CASE Clear
  <2>1. cache' = NoEntry /\ UNCHANGED <<clock, advertised, lastAt, state, began, seen>>
    BY <1>5, Zenon DEF Clear
  <2>2. NoEntry \in [at : Int, manifest : Manifests \union {None}]
    BY DEF NoEntry
  <2>3. ~(NoEntry' # NoEntry')
    BY Zenon
  <2>. QED BY <1>1, <2>1, <2>2, ZenonT(30) DEF HandshakeInv, NoEntry
<1>6. ASSUME NEW k \in Contracts, EditProcedure(k) PROVE HandshakeInv'
  BY <1>1, <1>6, Zenon DEF HandshakeInv, EditProcedure
<1>7. CASE UNCHANGED handshake
  BY <1>1, <1>7, Zenon DEF HandshakeInv, handshake
<1>. QED BY <1>3, <1>4, <1>5, <1>6, <1>7, Zenon

\* The inductive invariant holds in every reachable state.
THEOREM HandshakeInvHolds == HandshakeSpec => []HandshakeInv
<1>1. HandshakeInv /\ [HandshakeNext]_handshake => HandshakeInv'
  BY InvBegin, InvStore, InvCall, InvWorld, Zenon DEF HandshakeNext
<1>. QED BY HandshakeInvInit, <1>1, PTL DEF HandshakeSpec

\* A call never decides from a manifest that the backend stopped advertising
\* before the call began, or a cache lifetime before that if it may use the cache.
THEOREM ManifestIsRecentHolds == HandshakeSpec => []ManifestIsRecent
<1>1. HandshakeInv => ManifestIsRecent
  BY Zenon DEF HandshakeInv, ManifestIsRecent
<1>. QED BY HandshakeInvHolds, <1>1, PTL

\* An explicit procedure is accepted only if the backend advertised, that
\* recently, the contract it has when it is verified.
THEOREM AcceptedWasAdvertisedHolds == HandshakeSpec => []AcceptedWasAdvertised
<1>1. ASSUME HandshakeInv PROVE AcceptedWasAdvertised
  <2>. SUFFICES ASSUME NEW c \in Calls, Explicit, Accepted(c)
               PROVE  \E m \in Manifests : Describes(m, judged[c])
                   /\ lastAt[m] > began[c] - Window(c)
    BY Zenon DEF AcceptedWasAdvertised
  <2>1. seen[c] # None /\ Compatible(seen[c], judged[c])
    BY Zenon DEF Accepted, Accepts
  <2>2. Describes(seen[c], judged[c])
    BY <2>1, Zenon DEF Compatible, Describes, Envelopes
  <2>3. seen[c] \in Manifests /\ lastAt[seen[c]] > began[c] - Window(c)
    BY <1>1, <2>1, Zenon DEF HandshakeInv, Accepted
  <2>. QED BY <2>2, <2>3, Zenon
<1>. QED BY HandshakeInvHolds, <1>1, PTL

\* Every decision of the check follows a manifest the backend advertised
\* recently enough, for any number of overlapping calls and any clock.
THEOREM HandshakeIsCurrentHolds == HandshakeSpec => []HandshakeIsCurrent
BY HandshakeInvHolds, ManifestIsRecentHolds, AcceptedWasAdvertisedHolds, PTL
    DEF HandshakeIsCurrent

-----------------------------------------------------------------------------
(* SigningKeyFile: a signing key that is returned is the content of one    *)
(* file at one moment, and reading it is bounded.                          *)

\* The content of a file is a sequence of blocks.
LEMMA ContentsAreSequences == ASSUME NEW c \in Contents PROVE c \in Seq(Blocks)
<1>1. PICK n \in 0..MaxSize + 1 : c \in [1..n -> Blocks]
  BY Zenon DEF Contents
<1>2. n \in Nat
  BY SizeAssumption
<1>. QED BY <1>1, <1>2

\* The initial states satisfy the invariant.
LEMMA KeyFileInvInit == KeyFileInit => KeyFileInv
<1>. SUFFICES ASSUME KeyFileInit PROVE KeyFileInv
  BY Zenon
<1>1. Contents \subseteq Seq(Blocks)
  BY ContentsAreSequences, Zenon
<1>2. Files
  <2>1. file \in [Inodes -> [content : Contents, stamp : {0}, trusted : BOOLEAN]]
        /\ name \in Inodes /\ stamp = 0
    BY Zenon DEF KeyFileInit
  <2>2. [content : Contents, stamp : {0}, trusted : BOOLEAN]
            \subseteq [content : Seq(Blocks), stamp : Nat, trusted : BOOLEAN]
    BY <1>1
  <2>3. ASSUME NEW i \in Inodes PROVE file[i].stamp <= stamp
    BY <2>1
  <2>4. file \in [Inodes -> [content : Seq(Blocks), stamp : Nat, trusted : BOOLEAN]]
    BY <2>1, <2>2, Zenon
  <2>5. stamp \in Nat
    BY <2>1, Zenon
  <2>. QED BY <2>1, <2>3, <2>4, <2>5, Zenon DEF Files
<1>3. step = "stat" /\ fd = Nothing /\ material = <<>> /\ result = Nothing
  BY Zenon DEF KeyFileInit
<1>4. Reading
  BY <1>3, SizeAssumption DEF Reading
<1>5. Prefix /\ ReadIsOneVersion
  BY <1>3, Zenon DEF Prefix, ReadIsOneVersion
<1>6. ReadIsBounded
  BY <1>3, SizeAssumption DEF ReadIsBounded
<1>. QED BY <1>2, <1>4, <1>5, <1>6, Zenon DEF KeyFileInv

\* Giving up keeps it.
LEMMA InvGiveUp == ASSUME KeyFileInv, GiveUp, UNCHANGED <<file, name, stamp>>,
    step # "done" PROVE KeyFileInv'
BY Zenon DEF KeyFileInv, GiveUp, Files, Reading, Prefix, ReadIsOneVersion, ReadIsBounded

\* Finding and opening the file keep it.
LEMMA InvOpen == ASSUME KeyFileInv, Stat \/ Open \/ Fstat PROVE KeyFileInv'
<1>. USE DEF KeyFileInv
<1>1. CASE Stat
  BY <1>1, InvGiveUp, ZenonT(30) DEF Stat, Files, Reading, Prefix, ReadIsOneVersion, ReadIsBounded
<1>2. CASE Open
  BY <1>2, Zenon DEF Open, Files, Reading, Prefix, ReadIsOneVersion, ReadIsBounded
<1>3. CASE Fstat
  <2>1. CASE GiveUp
    BY <1>3, <2>1, InvGiveUp, Zenon DEF Fstat
  <2>2. CASE ~GiveUp
    <3>1. /\ step = "fstat" /\ step' = "read" /\ opened' = Metadata(fd)
          /\ UNCHANGED <<file, name, stamp, before, fd, material, result>>
      BY <1>3, <2>2, Zenon DEF Fstat
    <3>2. fd \in Inodes /\ material = <<>> /\ Len(material) = 0
      BY <3>1, Zenon DEF Reading
    <3>3. Prefix'
      <4>1. opened' = Metadata(fd) /\ opened' = Metadata(fd)'
        BY <3>1, Zenon DEF Metadata
      <4>2. /\ opened'.stamp = file[fd].stamp /\ file[fd].stamp \in Nat
            /\ file[fd].stamp <= stamp /\ file[fd].content \in Seq(Blocks)
        <5>1. opened'.stamp = file[fd].stamp
          BY <4>1 DEF Metadata
        <5>2. file[fd] \in [content : Seq(Blocks), stamp : Nat, trusted : BOOLEAN]
              /\ file[fd].stamp <= stamp
          BY <3>2, Zenon DEF Files
        <5>. QED BY <5>1, <5>2, Zenon
      <4>3. 0 <= Len(file[fd].content) /\ 1..0 = {}
        BY <4>2
      <4>. QED BY <3>1, <3>2, <4>1, <4>2, <4>3, Zenon DEF Prefix
    <3>4. Reading' /\ ReadIsOneVersion' /\ ReadIsBounded'
      BY <3>1, <3>2, Zenon DEF Reading, ReadIsOneVersion, ReadIsBounded
    <3>. QED BY <3>1, <3>3, <3>4, Zenon DEF Files
  <2>. QED BY <2>1, <2>2, Zenon
<1>. QED BY <1>1, <1>2, <1>3, Zenon

\* The first n of the elements of a content after the first k.
LEMMA Following ==
  ASSUME NEW S, NEW c \in Seq(S), NEW k \in Nat, SubSeq(c, k + 1, Len(c)) # <<>>,
         NEW n \in 1..Len(SubSeq(c, k + 1, Len(c)))
  PROVE  /\ SubSeq(SubSeq(c, k + 1, Len(c)), 1, n) \in Seq(S)
         /\ Len(SubSeq(SubSeq(c, k + 1, Len(c)), 1, n)) = n /\ n \in Nat /\ k + n <= Len(c)
         /\ \A j \in 1..n : SubSeq(SubSeq(c, k + 1, Len(c)), 1, n)[j] = c[k + j]
<1>. DEFINE left == SubSeq(c, k + 1, Len(c))
            more == SubSeq(left, 1, n)
<1>1. k < Len(c)
  <2>1. k + 1 > Len(c) => SubSeq(c, k + 1, Len(c)) = <<>>
    OBVIOUS
  <2>. QED BY <2>1
<1>2. /\ left \in Seq(S) /\ Len(left) = Len(c) - k
      /\ \A j \in 1..Len(c) - k : left[j] = c[k + j]
  BY <1>1
<1>3. n \in Nat /\ 1 <= n /\ n <= Len(c) - k
  BY <1>2
<1>4. more \in Seq(S) /\ Len(more) = n /\ \A j \in 1..n : more[j] = left[j]
  BY <1>2, <1>3
<1>. HIDE DEF left, more
<1>5. (\A j \in 1..n : j \in 1..Len(c) - k) /\ k + n <= Len(c)
  BY <1>3
<1>6. more \in Seq(S) /\ Len(more) = n /\ \A j \in 1..n : more[j] = c[k + j]
  BY <1>2, <1>4, <1>5, Zenon
<1>. QED BY <1>3, <1>5, <1>6, Zenon DEF left, more

\* A read appends what follows in the open file.
LEMMA InvRead == ASSUME KeyFileInv, Read PROVE KeyFileInv'
<1>1. /\ step = "read" /\ step' \in {"read", "check"} /\ fd \in Inodes
      /\ UNCHANGED <<file, name, stamp, before, opened, fd, result>>
  BY Zenon DEF Read, Reading, KeyFileInv
<1>. DEFINE c == file[fd].content
            left == SubSeq(c, Len(material) + 1, Len(c))
<1>2. c \in Seq(Blocks) /\ material \in Seq(Blocks) /\ result = Nothing
  BY <1>1, Zenon DEF Files, Reading, KeyFileInv
<1>3. CASE left = <<>>
  <2>1. material' = material
    BY <1>3, Zenon DEF Read
  <2>. QED BY <1>1, <2>1, Zenon DEF Files, Reading, Prefix, Metadata, ReadIsOneVersion,
           ReadIsBounded, KeyFileInv
<1>4. CASE left # <<>>
  <2>1. PICK n \in 1..Len(left) : n <= Remaining /\ material' = material \o SubSeq(left, 1, n)
    BY <1>4, Zenon DEF Read
  <2>2. MaxSize + 1 \in Nat
    BY SizeAssumption
  <2>3. /\ material' \in Seq(Blocks) /\ Len(material') <= Len(c) /\ Len(material') <= MaxSize + 1
        /\ (\A j \in 1..Len(material) : material[j] = c[j]) =>
              \A j \in 1..Len(material') : material'[j] = c[j]
    <3>. DEFINE more == SubSeq(left, 1, n)
    <3>1. Len(material) \in Nat
      BY <1>2
    <3>2. /\ more \in Seq(Blocks) /\ Len(more) = n /\ n \in Nat /\ Len(material) + n <= Len(c)
          /\ \A j \in 1..n : more[j] = c[Len(material) + j]
      <4>1. c \in Seq(Blocks)
        BY <1>2, Zenon
      <4>. HIDE DEF c
      <4>. QED BY <1>4, <2>1, <3>1, <4>1, Following, ZenonT(30)
    <3>3. \A j \in 1..Len(more) : more[j] = c[Len(material) + j]
      BY <3>2, Zenon
    <3>4. material' = material \o more
      BY <2>1, Zenon
    <3>. HIDE DEF left, more, c
    <3>5. /\ material' \in Seq(Blocks) /\ Len(material') = Len(material) + Len(more)
          /\ (\A j \in 1..Len(material) : material[j] = c[j]) =>
                \A j \in 1..Len(material') : material'[j] = c[j]
      <4>1. material \in Seq(Blocks) /\ more \in Seq(Blocks)
        BY <1>2, <3>2, Zenon
      <4>2. material' \in Seq(Blocks) /\ Len(material') = Len(material) + Len(more)
        BY <3>4, <4>1
      <4>3. \A j \in 1..Len(material) : material'[j] = material[j]
        BY <3>4, <4>1
      <4>4. ASSUME NEW j \in Len(material) + 1..Len(material) + Len(more)
            PROVE  material'[j] = c[j]
        <5>1. j - Len(material) \in 1..Len(more) /\ Len(material) + (j - Len(material)) = j
          BY <4>1
        <5>2. material'[j] = more[j - Len(material)]
          BY <3>4, <4>1
        <5>. QED BY <3>3, <5>1, <5>2, Zenon
      <4>5. \A j \in 1..Len(material) + Len(more) :
                j \in 1..Len(material) \/ j \in Len(material) + 1..Len(material) + Len(more)
        BY <4>1
      <4>. QED BY <4>2, <4>3, <4>4, <4>5, Zenon
    <3>6. n <= MaxSize + 1 - Len(material)
      BY <2>1, Zenon DEF Remaining
    <3>7. Len(material') <= Len(c) /\ Len(material') <= MaxSize + 1
      <4>1. Len(c) \in Nat
        BY <1>2
      <4>2. Len(material') = Len(material) + n
        BY <3>2, <3>5, Zenon
      <4>. QED BY <3>1, <3>2, <3>6, <4>1, <4>2, SizeAssumption
    <3>. QED BY <3>5, <3>7, Zenon
  <2>4. Prefix'
    <3>1. Metadata(fd)' = Metadata(fd)
      BY <1>1, Zenon DEF Metadata
    <3>. QED BY <1>1, <2>3, <3>1, Zenon DEF Prefix, KeyFileInv
  <2>5. Files'
    BY <1>1, Zenon DEF Files, KeyFileInv
  <2>6. Reading'
    BY <1>1, <1>2, <2>3, ZenonT(30) DEF Reading
  <2>. QED BY <1>1, <1>2, <2>3, <2>4, <2>5, <2>6, Zenon DEF ReadIsOneVersion, ReadIsBounded,
           KeyFileInv
<1>. QED BY <1>3, <1>4, Zenon

\* The last comparison succeeds only on a whole, unchanged file.
LEMMA InvCheck == ASSUME KeyFileInv, Check \/ ReadEnough \/ SystemError PROVE KeyFileInv'
<1>. USE DEF KeyFileInv
<1>1. CASE ReadEnough
  BY <1>1, Zenon DEF ReadEnough, Files, Reading, Prefix, Metadata, ReadIsOneVersion, ReadIsBounded
<1>2. CASE SystemError
  BY <1>2, InvGiveUp, Zenon DEF SystemError
<1>3. CASE Check /\ ~GiveUp
  <2>1. /\ step = "check" /\ step' = "done" /\ result' = material
        /\ UNCHANGED <<file, name, stamp, before, opened, fd, material>>
        /\ Len(material) = opened.size /\ TrustedKeyFile(Metadata(fd)) /\ Metadata(fd) = opened
    BY <1>3, Zenon DEF Check, SameFile
  <2>2. /\ fd \in Inodes /\ file[fd].stamp = opened.stamp
        /\ Len(material) = Len(file[fd].content) /\ file[fd].trusted
        /\ Len(file[fd].content) \in 1..MaxSize
    BY <2>1, Zenon DEF Reading, Metadata, TrustedKeyFile
  <2>3. material \in Seq(Blocks) /\ file[fd].content \in Seq(Blocks)
    BY <2>2, Zenon DEF Files, Reading
  <2>4. \A j \in 1..Len(material) : material[j] = file[fd].content[j]
    BY <2>1, <2>2, Zenon DEF Prefix
  <2>5. material = file[fd].content
    BY <2>2, <2>3, <2>4, SeqEqual, ZenonT(30)
  <2>. QED BY <2>1, <2>2, <2>5, ZenonT(30) DEF Files, Reading, Prefix, ReadIsOneVersion,
           ReadIsBounded
<1>4. CASE Check /\ GiveUp
  BY <1>4, InvGiveUp, Zenon DEF Check
<1>. QED BY <1>1, <1>2, <1>3, <1>4, Zenon

\* A change of any file gives it a stamp no open file was seen with.
LEMMA InvChange ==
  ASSUME KeyFileInv, NEW i \in Inodes, NEW n \in Inodes,
         NEW f \in [content : Seq(Blocks), stamp : Nat, trusted : BOOLEAN], Change(i, f, n)
  PROVE  KeyFileInv'
<1>. USE DEF KeyFileInv
<1>1. /\ step # "done" /\ stamp' = stamp + 1 /\ name' = n /\ UNCHANGED reader
      /\ file' = [file EXCEPT ![i] = [f EXCEPT !.stamp = stamp + 1]]
  BY Zenon DEF Change
<1>2. Files'
  <2>1. stamp \in Nat /\ stamp + 1 \in Nat
    BY DEF Files
  <2>2. [f EXCEPT !.stamp = stamp + 1] \in [content : Seq(Blocks), stamp : Nat, trusted : BOOLEAN]
    BY <2>1, Zenon
  <2>3. file' \in [Inodes -> [content : Seq(Blocks), stamp : Nat, trusted : BOOLEAN]]
    BY <1>1, <2>2, Zenon DEF Files
  <2>4. ASSUME NEW j \in Inodes PROVE file'[j].stamp <= stamp'
    <3>1. CASE j = i
      BY <1>1, <2>1, <3>1 DEF Files
    <3>2. CASE j # i
      <4>1. file'[j] = file[j] /\ file[j].stamp \in Nat /\ file[j].stamp <= stamp
        BY <1>1, <3>2, Zenon DEF Files
      <4>. QED BY <1>1, <2>1, <4>1
    <3>. QED BY <3>1, <3>2, Zenon
  <2>. QED BY <1>1, <2>1, <2>3, <2>4, Zenon DEF Files
<1>3. Reading' /\ ReadIsOneVersion' /\ ReadIsBounded'
  <2>1. result = Nothing /\ result' = Nothing /\ step' = step /\ fd' = fd /\ material' = material
    BY <1>1, Zenon DEF Reading, reader
  <2>2. Reading'
    BY <2>1, Zenon DEF Reading
  <2>. QED BY <2>1, <2>2, Zenon DEF ReadIsOneVersion, ReadIsBounded
<1>4. Prefix'
  <2>. SUFFICES ASSUME step \in {"read", "check"} PROVE Prefix'
    BY <1>1, Zenon DEF Prefix, reader
  <2>1. fd \in Inodes /\ opened' = opened /\ fd' = fd /\ material' = material /\ step' = step
    BY <1>1, Zenon DEF Reading, reader
  <2>2. CASE i = fd
    <3>1. file'[fd].stamp = stamp + 1
      BY <1>1, <2>1, <2>2, Zenon DEF Files
    <3>2. opened.stamp \in Nat /\ opened.stamp <= stamp /\ stamp \in Nat
      BY Zenon DEF Prefix, Files
    <3>3. opened.stamp <= stamp + 1 /\ opened.stamp # stamp + 1
      BY <3>2
    <3>4. stamp' = stamp + 1
      BY <1>1, Zenon
    <3>. QED BY <2>1, <3>1, <3>2, <3>3, <3>4, Zenon DEF Prefix
  <2>3. CASE i # fd
    <3>1. file'[fd] = file[fd]
      BY <1>1, <2>1, <2>3, Zenon DEF Files
    <3>2. opened.stamp \in Nat /\ opened.stamp <= stamp' /\ Metadata(fd)' = Metadata(fd)
      <4>1. Metadata(fd)' = Metadata(fd)
        BY <2>1, <3>1, Zenon DEF Metadata
      <4>2. opened.stamp \in Nat /\ opened.stamp <= stamp /\ stamp \in Nat
        BY Zenon DEF Prefix, Files
      <4>3. stamp' = stamp + 1
        BY <1>1, Zenon
      <4>. QED BY <4>1, <4>2, <4>3
    <3>. QED BY <2>1, <3>1, <3>2, Zenon DEF Prefix
  <2>. QED BY <2>2, <2>3, Zenon
<1>. QED BY <1>2, <1>3, <1>4, Zenon

\* Every way to change the file at the path is such a change.
LEMMA InvWriter ==
  ASSUME KeyFileInv, \/ Truncate \/ Chmod \/ (\E i \in Inodes, c \in Contents : Rename(i, c))
              \/ (\E k \in 1..MaxSize + 2, b \in Blocks : WriteAt(k, b))
  PROVE  KeyFileInv'
<1>. DEFINE F == [content : Seq(Blocks), stamp : Nat, trusted : BOOLEAN]
<1>1. name \in Inodes /\ file[name] \in F
  BY Zenon DEF KeyFileInv, Files
<1>2. CASE Truncate
  <2>0. <<>> \in Seq(Blocks)
    OBVIOUS
  <2>1. [file[name] EXCEPT !.content = <<>>] \in F
    BY <1>1, <2>0, Zenon
  <2>. QED BY <1>1, <1>2, <2>1, InvChange, Zenon DEF Truncate
<1>3. CASE Chmod
  <2>1. [file[name] EXCEPT !.trusted = ~@] \in F
    BY <1>1, Zenon
  <2>. QED BY <1>1, <1>3, <2>1, InvChange, Zenon DEF Chmod
<1>4. ASSUME NEW i \in Inodes, NEW c \in Contents, Rename(i, c) PROVE KeyFileInv'
  <2>1. c \in Seq(Blocks)
    BY ContentsAreSequences, Zenon
  <2>. QED BY <1>4, <2>1, InvChange, Zenon DEF Rename
<1>5. ASSUME NEW k \in 1..MaxSize + 2, NEW b \in Blocks, WriteAt(k, b) PROVE KeyFileInv'
  <2>. DEFINE c == file[name].content
              d == [j \in 1..(IF k > Len(c) THEN k ELSE Len(c)) |-> IF j = k THEN b ELSE c[j]]
  <2>1. c \in Seq(Blocks) /\ Len(c) \in Nat /\ k \in Nat /\ k <= Len(c) + 1
    BY <1>1, <1>5, SizeAssumption DEF WriteAt
  <2>2. d \in Seq(Blocks)
    BY <2>1
  <2>3. [file[name] EXCEPT !.content = d] \in F
    BY <1>1, <2>2, Zenon
  <2>4. Change(name, [file[name] EXCEPT !.content = d], name)
    BY <1>5, Zenon DEF WriteAt
  <2>. QED BY <1>1, <2>3, <2>4, InvChange, Zenon
<1>. QED BY <1>2, <1>3, <1>4, <1>5, Zenon

\* The invariant holds in every reachable state.
THEOREM KeyFileInvHolds == KeyFileSpec => []KeyFileInv
<1>1. KeyFileInv /\ [KeyFileNext]_keyFile => KeyFileInv'
  <2>. SUFFICES ASSUME KeyFileInv, [KeyFileNext]_keyFile PROVE KeyFileInv'
    BY Zenon
  <2>1. CASE UNCHANGED keyFile
    BY <2>1, Zenon DEF keyFile, KeyFileInv, Files, Reading, Prefix, Metadata, ReadIsOneVersion,
        ReadIsBounded
  <2>. QED BY <2>1, InvOpen, InvRead, InvCheck, InvWriter, Zenon DEF KeyFileNext
<1>. QED BY KeyFileInvInit, <1>1, PTL DEF KeyFileSpec

\* For files of any size and any number of changes, what is returned is the
\* whole content of a trusted file at one moment.
THEOREM ReadIsOneVersionHolds == KeyFileSpec => []ReadIsOneVersion
<1>1. KeyFileInv => ReadIsOneVersion
  BY Zenon DEF KeyFileInv
<1>. QED BY <1>1, KeyFileInvHolds, PTL

\* However the file grows, no more than the limit and one block is read.
THEOREM ReadIsBoundedHolds == KeyFileSpec => []ReadIsBounded
<1>1. KeyFileInv => ReadIsBounded
  BY Zenon DEF KeyFileInv
<1>. QED BY <1>1, KeyFileInvHolds, PTL
===============================================================================
