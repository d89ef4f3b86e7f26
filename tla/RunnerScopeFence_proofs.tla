----------------------- MODULE RunnerScopeFence_proofs -----------------------
(***************************************************************************)
(* Machine-checked proofs about RunnerScopeFence, for any set of           *)
(* executions, any number of faults and any lease, route and window        *)
(* lengths with Lease + Route < Window.                                    *)
(***************************************************************************)
EXTENDS RunnerScopeFence, TLAPS

-----------------------------------------------------------------------------
(* Type correctness.                                                       *)

\* The row that a save writes is well formed if its new columns are.
LEMMA RowType ==
    ASSUME NEW row \in FenceRow, NEW s \in {"clear", "pending", "blocked"},
           NEW b \in Executions \cup {NoExecution},
           NEW r \in Executions \cup {NoExecution},
           NEW d \in {"unknown", "known"}, NEW g \in Nat
    PROVE  /\ [row EXCEPT !.state = s, !.blocking = b, !.reconciliation = r,
                          !.digest = d, !.generation = g] \in FenceRow
           /\ [row EXCEPT !.state = s, !.blocking = b, !.reconciliation = r,
                          !.digest = d] \in FenceRow
           /\ [row EXCEPT !.state = s, !.reconciliation = r,
                          !.generation = g] \in FenceRow
           /\ [row EXCEPT !.state = s, !.reconciliation = r, !.digest = d] \in FenceRow
           /\ [row EXCEPT !.state = s, !.reconciliation = r] \in FenceRow
BY ZenonT(30) DEF FenceRow

\* The three locked transitions save a well-formed row.
LEMMA SavedType ==
    ASSUME TypeOK, NEW e \in Executions
    PROVE  /\ Released(e) \in Executions \cup {NoExecution}
           /\ AfterResponse(e) \in FenceRow
           /\ [fence EXCEPT !.state = "blocked",
                            !.reconciliation = Released(e)] \in FenceRow
           /\ CurrentSnapshot \in FenceSnapshot
<1>1. /\ fence \in FenceRow /\ fence.reconciliation \in Executions \cup {NoExecution}
      /\ fence.digest \in {"unknown", "known"} /\ fence.generation \in Nat
      /\ fence.state \in {"clear", "pending", "blocked"}
      /\ fence.blocking \in Executions \cup {NoExecution}
  BY Zenon DEF TypeOK, FenceRow
<1>2. Released(e) \in Executions \cup {NoExecution}
  BY <1>1, Zenon DEF Released
<1>3. AfterResponse(e) \in FenceRow
  <2>1. CASE Clears(e)
    BY <1>1, <2>1, RowType, ZenonT(30) DEF AfterResponse
  <2>2. CASE ~Clears(e)
    <3>1. (IF answer[e] = "unproven_digest" THEN "known" ELSE fence.digest)
             \in {"unknown", "known"}
      BY <1>1, Zenon
    <3> QED
      BY <1>1, <1>2, <2>2, <3>1, RowType, ZenonT(30) DEF AfterResponse
  <2> QED
    BY <2>1, <2>2, Zenon
<1>4. CurrentSnapshot \in FenceSnapshot
  BY <1>1 DEF CurrentSnapshot, FenceSnapshot
<1> QED
  BY <1>1, <1>2, <1>3, <1>4, RowType, ZenonT(30)

\* A fresh clear fence without executions is well typed.
LEMMA InitType == Init => TypeOK
<1> SUFFICES ASSUME Init  PROVE TypeOK
  BY Zenon
<1>1. fence \in FenceRow /\ snap \in [Executions -> FenceSnapshot]
  BY Zenon DEF Init, FenceRow, FenceSnapshot
<1>2. fenceAge \in 0..Window /\ leaseAge \in [Executions -> 0..(Lease + 1)]
      /\ remoteAge \in [Executions -> 0..Route] /\ faults \in 0..MaxFaults
  BY TimingAssumption, FaultsAssumption DEF Init
<1> QED
  BY <1>1, <1>2, ZenonT(30) DEF Init, TypeOK, Operations, Labels, Answers, Terminal

\* Requests and approvals only record a snapshot and move on.
LEMMA DecideType ==
    ASSUME TypeOK, NEW e \in Executions,
           Request(e) \/ Approve(e) \/ Claim(e) \/ Prepare(e)
    PROVE  TypeOK'
<1> USE TimingAssumption DEF scope, clocks, backend, Goto
<1>1. CASE Request(e)
  BY <1>1, SavedType, ZenonT(30) DEF Request, TypeOK, Labels
<1>2. CASE Approve(e)
  BY <1>2, Zenon DEF Approve, TypeOK, Labels
<1>3. CASE Claim(e)
  BY <1>3, Zenon DEF Claim, TypeOK, Labels
<1>4. CASE Prepare(e)
  BY <1>4 DEF Prepare, TypeOK, Labels
<1> QED
  BY <1>1, <1>2, <1>3, <1>4, Zenon

\* The locked fence transitions save a well-formed row.
LEMMA FenceType ==
    ASSUME TypeOK, NEW e \in Executions,
           \/ ReserveStart(e) \/ ReserveTakeover(e) \/ RecordResponse(e) \/ Block(e)
    PROVE  TypeOK'
<1>0. /\ snap[e] \in FenceSnapshot /\ snap[e].generation \in Nat /\ fence \in FenceRow
      /\ fence.digest \in {"unknown", "known"} /\ 0 \in 0..Window
      /\ fence.blocking \in Executions \cup {NoExecution}
  BY TimingAssumption DEF TypeOK, FenceSnapshot, FenceRow
<1> USE DEF clocks, backend, Goto, Save
<1>1. CASE ReserveStart(e)
  <2>1. fence' \in FenceRow
    <3>1. fence' = [fence EXCEPT !.state = "pending", !.blocking = e,
                                 !.reconciliation = NoExecution, !.digest = "unknown",
                                 !.generation = snap[e].generation]
      BY <1>1, Zenon DEF ReserveStart
    <3> QED
      BY <1>0, <3>1, RowType, ZenonT(30)
  <2> QED
    BY <1>0, <1>1, <2>1, Zenon DEF ReserveStart, TypeOK, Labels
<1>2. CASE ReserveTakeover(e)
  <2>1. fence' \in FenceRow
    <3>1. fence' = [fence EXCEPT !.state = "blocked", !.reconciliation = e,
                                 !.generation = snap[e].generation]
      BY <1>2, Zenon DEF ReserveTakeover
    <3> QED
      BY <1>0, <3>1, RowType, ZenonT(30)
  <2>2. status' \in [Executions -> {"open", "running"} \cup Terminal]
    BY <1>2, Zenon DEF ReserveTakeover, TypeOK, Terminal
  <2> QED
    BY <1>0, <1>2, <2>1, <2>2, Zenon DEF ReserveTakeover, TypeOK, Labels
<1>3. CASE RecordResponse(e)
  <2>1. fence' \in FenceRow
    BY <1>3, SavedType, Zenon DEF RecordResponse
  <2> QED
    BY <1>0, <1>3, <2>1, Zenon DEF RecordResponse, TypeOK, Labels, Answers
<1>4. CASE Block(e)
  <2>1. fence' \in FenceRow /\ fenceAge' \in 0..Window
    BY <1>0, <1>4, SavedType, Zenon DEF Block, scope, TypeOK
  <2> QED
    BY <1>0, <1>4, <2>1, Zenon DEF Block, AfterBlock, TypeOK, Labels
<1> QED
  BY <1>1, <1>2, <1>3, <1>4, Zenon

\* The rest of run_execution keeps the types.
LEMMA RunType ==
    ASSUME TypeOK, NEW e \in Executions,
           \/ RaiseUnreserved(e) \/ RaiseReserved(e) \/ RecordFailure(e) \/ Send(e)
           \/ ConnectTimeout(e) \/ TransportFails(e) \/ Fault(e)
    PROVE  TypeOK'
<1> USE FaultsAssumption DEF scope, clocks, backend, Goto
<1>1. CASE RaiseUnreserved(e) \/ RaiseReserved(e) \/ RecordFailure(e)
  BY <1>1 DEF RaiseUnreserved, RaiseReserved, RecordFailure, TypeOK, Labels, Terminal,
              Answers
<1>2. CASE Send(e) \/ ConnectTimeout(e) \/ TransportFails(e)
  BY <1>2, Zenon DEF Send, ConnectTimeout, TransportFails, TypeOK, Labels, Answers
<1>3. CASE WorkerDies(e)
  BY <1>3 DEF WorkerDies, TypeOK, Labels, Answers
<1>4. CASE RecordAborted(e)
  BY <1>4 DEF RecordAborted, TypeOK, Labels, Answers
<1>5. CASE BlockAborted(e)
  BY <1>5 DEF BlockAborted, AfterBlock, TypeOK, Labels
<1> QED
  BY <1>1, <1>2, <1>3, <1>4, <1>5, Zenon DEF Fault

\* The backend's own steps keep the types.
LEMMA RemoteType ==
    ASSUME TypeOK, NEW e \in Executions, Remote(e)
    PROVE  TypeOK'
<1>0. ASSUME NEW a \in Answers, Reply(e, a)
      PROVE  answer' \in [Executions -> Answers]
  BY <1>0, Zenon DEF Reply, TypeOK
<1> USE TimingAssumption DEF scope, clocks
<1>1. CASE Accept(e)
  BY <1>1 DEF Accept, TypeOK
<1>2. CASE RefuseLease(e)
  BY <1>0, <1>2, Zenon DEF RefuseLease, TypeOK, Answers
<1>3. CASE AcquireToken(e)
  BY <1>3, Zenon DEF AcquireToken, TypeOK
<1>4. CASE GiveUp(e)
  BY <1>0, <1>4, Zenon DEF GiveUp, TypeOK, Answers
<1>5. CASE Rotate(e)
  BY <1>0, <1>5, Zenon DEF Rotate, TypeOK, Answers
<1>6. CASE RotateFails(e)
  BY <1>0, <1>6, Zenon DEF RotateFails, TypeOK, Answers
<1> QED
  BY <1>1, <1>2, <1>3, <1>4, <1>5, <1>6, Zenon DEF Remote

\* Ages stay below their bounds when time passes.
LEMMA TickType ==
    ASSUME TypeOK, Tick
    PROVE  TypeOK'
<1>1. leaseAge' \in [Executions -> 0..(Lease + 1)]
  BY TimingAssumption DEF TypeOK, Tick, Older
<1>2. remoteAge' \in [Executions -> 0..Route]
  BY TimingAssumption DEF TypeOK, Tick, Older
<1>3. fenceAge' \in 0..Window
  BY TimingAssumption DEF TypeOK, Tick
<1> QED
  BY <1>1, <1>2, <1>3, Zenon DEF TypeOK, Tick, backend

\* No step leaves the type invariant.
LEMMA NextType == TypeOK /\ [Next]_vars => TypeOK'
<1> SUFFICES ASSUME TypeOK, [Next]_vars  PROVE TypeOK'
  BY Zenon
<1>1. CASE UNCHANGED vars
  BY <1>1, Zenon DEF vars, scope, clocks, backend, TypeOK
<1>2. CASE Next
  BY <1>2, DecideType, FenceType, RunType, RemoteType, TickType, Zenon
  DEF Next, Decide, Run
<1> QED
  BY <1>1, <1>2, Zenon

\* Every reachable state of the fence and its executions is well typed.
THEOREM TypeCorrect == Spec => []TypeOK
BY InitType, NextType, PTL DEF Spec
-----------------------------------------------------------------------------
(* The inductive invariant.                                                *)

\* The fence invariant holds of a fresh clear fence.
LEMMA InitInv == Init => FenceInvariant
<1> SUFFICES ASSUME Init  PROVE FenceInvariant
  BY Zenon
<1>1. TypeOK
  BY InitType, Zenon
<1>2. /\ \A e \in Executions : pc[e] = "none" /\ remote[e] = "none" /\ answer[e] = "none"
      /\ ~exposed /\ fence.state = "clear" /\ fence.blocking = NoExecution
      /\ fence.reconciliation = NoExecution /\ fence.digest = "unknown"
  BY Zenon DEF Init
<1>3. RowConsistent /\ AnswersAreLate /\ ExposedIsFenced
  BY <1>2, Zenon DEF RowConsistent, AnswersAreLate, ExposedIsFenced
<1>4. GenerationsDistinct /\ LiveIsLatest
  BY <1>2, Zenon DEF GenerationsDistinct, LiveIsLatest, Reserved, Live, AtWork, Holding
<1> QED
  BY <1>1, <1>3, <1>4, Zenon DEF FenceInvariant

\* A step that leaves the fence and the backend alone and reserves nothing: what
\* was reserved or live can only become less, and no final answer appears.
Fades == /\ UNCHANGED <<fence, fenceAge, remote, remoteAge, exposed>>
         /\ \A e \in Executions :
             /\ Reserved(e)' => /\ Reserved(e)
                                /\ snap'[e] = snap[e] /\ op'[e] = op[e]
             /\ Live(e)' => Live(e) /\ leaseAge'[e] = leaseAge[e]
             /\ answer'[e] \in {answer[e], "none", "unproven"}

\* A step that only takes reservations and live work away keeps the invariant.
LEMMA FadesInv ==
    ASSUME FenceInvariant, TypeOK', AnswersAreLate', Fades
    PROVE  FenceInvariant'
<1>1. RowConsistent'
  BY Zenon DEF FenceInvariant, RowConsistent, Fades
<1>2. GenerationsDistinct'
  BY Zenon DEF FenceInvariant, GenerationsDistinct, Fades
<1>3. LiveIsLatest'
  <2> SUFFICES ASSUME NEW e \in Executions, Live(e)'
               PROVE  /\ fence'.state # "clear"
                      /\ snap'[e].generation = fence'.generation
                      /\ fenceAge' <= IF AtWork(e)' THEN Lease + remoteAge'[e]
                                                    ELSE leaseAge'[e]
    BY Zenon DEF LiveIsLatest
  <2>1. Live(e) /\ leaseAge'[e] = leaseAge[e] /\ (AtWork(e)' <=> AtWork(e))
    BY Zenon DEF Fades, AtWork
  <2>2. Reserved(e)'
    BY Zenon DEF Live, AtWork, Reserved, Holding
  <2> QED
    BY <2>1, <2>2, Zenon DEF FenceInvariant, LiveIsLatest, Fades
<1>4. ExposedIsFenced'
  BY Zenon DEF FenceInvariant, ExposedIsFenced, Fades
<1> QED
  BY <1>1, <1>2, <1>3, <1>4, Zenon DEF FenceInvariant

\* The steps that only move a worker, and a block that finds the fence taken.
LEMMA QuietFades ==
    ASSUME FenceInvariant, NEW e \in Executions,
           \/ Request(e) \/ Approve(e) \/ Claim(e) \/ Prepare(e)
           \/ RaiseUnreserved(e) \/ RaiseReserved(e) \/ RecordFailure(e)
           \/ TransportFails(e) \/ Fault(e)
           \/ (Block(e) /\ ~Owns(e))
    PROVE  Fades /\ AnswersAreLate'
<1>0. /\ pc \in [Executions -> Labels] /\ answer \in [Executions -> Answers]
      /\ snap \in [Executions -> FenceSnapshot] /\ op \in [Executions -> Operations]
      /\ leaseAge \in [Executions -> 0..(Lease + 1)]
      /\ AnswersAreLate
  BY Zenon DEF FenceInvariant, TypeOK
<1> USE DEF scope, clocks, backend, Goto
<1>1. UNCHANGED <<fence, fenceAge, remote, remoteAge, exposed>>
  BY Zenon DEF Request, Approve, Claim, Prepare, RaiseUnreserved, RaiseReserved,
         RecordFailure, TransportFails, Fault, WorkerDies, RecordAborted,
         BlockAborted, Block
<1>2. AnswersAreLate'
  BY <1>0, <1>1
  DEF Request, Approve, Claim, Prepare, RaiseUnreserved, RaiseReserved,
      RecordFailure, TransportFails, Fault, WorkerDies, RecordAborted,
      BlockAborted, Block, AfterBlock, AnswersAreLate
<1>3. \A f \in Executions : answer'[f] \in {answer[f], "none", "unproven"}
  BY <1>0, Zenon
  DEF Request, Approve, Claim, Prepare, RaiseUnreserved, RaiseReserved,
      RecordFailure, TransportFails, Fault, WorkerDies, RecordAborted,
      BlockAborted, Block
<1>4. ASSUME NEW f \in Executions, Reserved(f)'
      PROVE  Reserved(f) /\ snap'[f] = snap[f] /\ op'[f] = op[f]
  BY <1>0, <1>1, <1>4
  DEF Request, Approve, Claim, Prepare, RaiseUnreserved, RaiseReserved,
      RecordFailure, TransportFails, Fault, WorkerDies, RecordAborted,
      BlockAborted, Block, AfterBlock, Reserved, Holding, AnswersAreLate
<1>5. ASSUME NEW f \in Executions, Live(f)'
      PROVE  Live(f) /\ leaseAge'[f] = leaseAge[f]
  BY <1>0, <1>1, <1>5
  DEF Request, Approve, Claim, Prepare, RaiseUnreserved, RaiseReserved,
      RecordFailure, TransportFails, Fault, WorkerDies, RecordAborted,
      BlockAborted, Block, AfterBlock, Live, AtWork, AnswersAreLate
<1> QED
  BY <1>1, <1>2, <1>3, <1>4, <1>5, Zenon DEF Fades
\* Nothing is live when the fence is clear or the window has passed: this is
\* where the lengths of lease, route and window meet.
LEMMA NoneLive ==
    ASSUME FenceInvariant, fence.state = "clear" \/ fenceAge >= Window
    PROVE  \A e \in Executions : ~Live(e)
<1> SUFFICES ASSUME NEW e \in Executions, Live(e)  PROVE FALSE
  BY Zenon
<1>1. /\ fence.state # "clear"
      /\ fenceAge <= IF AtWork(e) THEN Lease + remoteAge[e] ELSE leaseAge[e]
  BY Zenon DEF FenceInvariant, LiveIsLatest
<1>2. /\ fenceAge \in Nat /\ remoteAge[e] \in 0..Route /\ leaseAge[e] \in 0..(Lease + 1)
  BY TimingAssumption DEF FenceInvariant, TypeOK
<1>3. ~AtWork(e) => leaseAge[e] <= Lease
  BY Zenon DEF Live
<1> QED
  BY <1>1, <1>2, <1>3, TimingAssumption

\* A reservation starts a new generation that only its owner has.
LEMMA ReserveInv ==
    ASSUME FenceInvariant, TypeOK', NEW e \in Executions,
           ReserveStart(e) \/ ReserveTakeover(e)
    PROVE  FenceInvariant'
<1>0. /\ pc \in [Executions -> Labels] /\ remote[e] = "none" /\ answer[e] = "none"
      /\ fence \in FenceRow /\ fence.generation \in Nat /\ pc[e] = "leased"
      /\ leaseAge[e] \in 0..(Lease + 1) /\ TypeOK
      /\ \A f \in Executions : snap[f].generation \in Nat
  BY Zenon DEF FenceInvariant, TypeOK, AnswersAreLate, ReserveStart, ReserveTakeover,
         FenceRow, FenceSnapshot
<1>1. /\ UNCHANGED <<op, snap, leaseAge, remote, remoteAge, exposed, answer>>
      /\ pc' = [pc EXCEPT ![e] = "reserved"]
      /\ fenceAge' = 0 /\ fence'.generation = snap[e].generation
      /\ fence'.state # "clear"
      /\ snap[e].generation = fence.generation + 1
      /\ fence.state = "clear" \/ fenceAge >= Window
      /\ op[e] = "register" => fence.state = "clear"
  <2>1. /\ UNCHANGED <<op, snap, leaseAge, remote, remoteAge, exposed, answer>>
        /\ pc' = [pc EXCEPT ![e] = "reserved"] /\ fenceAge' = 0
        /\ snap[e] = CurrentSnapshot
    BY Zenon DEF ReserveStart, ReserveTakeover, clocks, backend, Goto, Save, SnapshotHolds
  <2>2. /\ fence'.generation = snap[e].generation /\ fence'.state # "clear"
    BY <1>0, Zenon DEF ReserveStart, ReserveTakeover, Save, FenceRow
  <2>3. snap[e].generation = fence.generation + 1
    BY <2>1 DEF CurrentSnapshot
  <2>4. /\ fence.state = "clear" \/ fenceAge >= Window
        /\ op[e] = "register" => fence.state = "clear"
    BY Zenon DEF ReserveStart, ReserveTakeover, Quiescent
  <2> QED
    BY <2>1, <2>2, <2>3, <2>4, Zenon
<1>2. \A f \in Executions : ~Live(f)
  BY <1>1, NoneLive, Zenon
<1>3. \A f \in Executions : Reserved(f)' <=> Reserved(f) \/ f = e
  BY <1>0, <1>1, Zenon DEF Reserved, Holding
<1>4. RowConsistent'
  BY <1>0, NoExecutionAssumption, ZenonT(30)
  DEF ReserveStart, ReserveTakeover, Save, FenceRow, FenceInvariant, RowConsistent
<1>5. AnswersAreLate'
  BY <1>0, <1>1, Zenon DEF FenceInvariant, AnswersAreLate
<1>6. \A f \in Executions : Reserved(f) => snap[f].generation < fence'.generation
  BY <1>0, <1>1 DEF FenceInvariant, GenerationsDistinct
<1>7. GenerationsDistinct'
  <2> SUFFICES ASSUME NEW f \in Executions, Reserved(f)'
               PROVE  /\ snap[f].generation <= fence'.generation
                      /\ \A g \in Executions :
                            Reserved(g)' /\ snap[g].generation = snap[f].generation
                               => f = g
    BY <1>1, Zenon DEF GenerationsDistinct
  <2>1. snap[f].generation <= fence'.generation
    BY <1>0, <1>1, <1>3, <1>6
  <2>2. ASSUME NEW g \in Executions, Reserved(g)',
               snap[g].generation = snap[f].generation
        PROVE  f = g
    BY <1>0, <1>1, <1>3, <1>6, <2>2 DEF FenceInvariant, GenerationsDistinct
  <2> QED
    BY <2>1, <2>2, Zenon
<1>8. LiveIsLatest'
  <2>1. \A f \in Executions : Live(f)' => f = e /\ ~AtWork(f)'
    <3> SUFFICES ASSUME NEW f \in Executions, Live(f)'  PROVE f = e /\ ~AtWork(f)'
      BY Zenon
    <3>1. AtWork(f)' <=> AtWork(f)
      BY <1>1, Zenon DEF AtWork
    <3>2. f # e => Live(f)
      BY <1>0, <1>1, <3>1, Zenon DEF Live
    <3>3. ~Live(f) /\ ~AtWork(f)
      BY <1>2, Zenon DEF Live
    <3> QED
      BY <3>1, <3>2, <3>3, Zenon
  <2> QED
    BY <1>0, <1>1, <2>1 DEF LiveIsLatest
<1>9. ExposedIsFenced'
  <2>1. \A f \in Executions :
            Reserved(f)' /\ snap[f].generation = fence'.generation => f = e
    BY <1>0, <1>3, <1>6
  <2>2. exposed => op[e] # "register"
    BY <1>1, Zenon DEF FenceInvariant, ExposedIsFenced
  <2> QED
    BY <1>0, <1>1, <2>1, <2>2, Zenon DEF ExposedIsFenced
<1> QED
  BY <1>4, <1>5, <1>7, <1>8, <1>9, Zenon DEF FenceInvariant

\* The two late transitions write only for the latest reservation.
LEMMA OwnerWriteInv ==
    ASSUME FenceInvariant, TypeOK', NEW e \in Executions,
           RecordResponse(e) \/ (Block(e) /\ Owns(e))
    PROVE  FenceInvariant'
<1>0. /\ pc \in [Executions -> Labels] /\ answer \in [Executions -> Answers]
      /\ fence \in FenceRow /\ Reserved(e) /\ TypeOK
      /\ snap[e].generation = fence.generation
      /\ fence.state # "clear" /\ fence.blocking # NoExecution
  BY NoExecutionAssumption, Zenon
  DEF FenceInvariant, TypeOK, RecordResponse, Block, Owns, Reserved, Holding,
      RowConsistent, Operations
<1>1. /\ UNCHANGED <<op, snap, leaseAge, remote, remoteAge, exposed>>
      /\ fenceAge' = 0 /\ fence'.generation = fence.generation
      /\ pc'[e] \in {"done", "recording"} /\ answer'[e] = "none"
      /\ \A f \in Executions \ {e} : pc'[f] = pc[f] /\ answer'[f] = answer[f]
  <2>1. /\ UNCHANGED <<op, snap, leaseAge, remote, remoteAge, exposed>>
        /\ fenceAge' = 0
    BY Zenon DEF RecordResponse, Block, clocks, backend, Save
  <2>2. fence'.generation = fence.generation
    BY <1>0, ZenonT(30) DEF RecordResponse, Block, AfterResponse, Save, FenceRow
  <2>3. /\ pc'[e] \in {"done", "recording"}
        /\ \A f \in Executions \ {e} : pc'[f] = pc[f] /\ answer'[f] = answer[f]
    BY <1>0, Zenon DEF RecordResponse, Block, AfterBlock, Goto
  <2>4. answer'[e] = "none"
    BY <1>0, Zenon DEF RecordResponse, Block, FenceInvariant, AnswersAreLate
  <2> QED
    BY <2>1, <2>2, <2>3, <2>4, Zenon
<1>2. \/ fence'.state = "blocked"
      \/ fence'.state = "clear" /\ Clears(e) /\ pc[e] = "calling"
  BY <1>0, Zenon DEF RecordResponse, Block, AfterResponse, Save, FenceRow
<1>3. /\ \A f \in Executions : Reserved(f)' => Reserved(f)
      /\ \A f \in Executions : Live(f)' => Live(f) /\ (AtWork(f)' <=> AtWork(f))
  BY <1>0, <1>1, Zenon DEF Reserved, Live, AtWork, Holding
<1>4. RowConsistent'
  BY <1>0, ZenonT(30) DEF RecordResponse, Block, AfterResponse, Save, FenceRow, FenceInvariant,
              RowConsistent
<1>5. AnswersAreLate'
  BY <1>0, <1>1 DEF FenceInvariant, AnswersAreLate, RecordResponse, Block
<1>6. GenerationsDistinct'
  BY <1>1, <1>3, Zenon DEF FenceInvariant, GenerationsDistinct
<1>7. ASSUME fence'.state = "clear"
      PROVE  ~exposed /\ \A f \in Executions : ~Live(f)
  <2>1. Clears(e) /\ pc[e] = "calling" /\ answer[e] \in {"proven", "no_token"}
    BY <1>2, <1>7, Zenon DEF Clears
  <2>2. ~Live(e)
    BY <2>1, Zenon DEF FenceInvariant, AnswersAreLate, Live, AtWork
  <2>3. ASSUME NEW f \in Executions, Live(f)  PROVE f = e
    <3>1. Reserved(f) /\ snap[f].generation = snap[e].generation
      BY <1>0, <2>3, Zenon DEF FenceInvariant, LiveIsLatest, Live, AtWork, Reserved, Holding
    <3> QED
      BY <1>0, <3>1, Zenon DEF FenceInvariant, GenerationsDistinct
  <2>4. ~exposed
    BY <1>0, <2>1, Zenon DEF FenceInvariant, ExposedIsFenced, Clears
  <2> QED
    BY <2>2, <2>3, <2>4, Zenon
<1>8. LiveIsLatest'
  <2> SUFFICES ASSUME NEW f \in Executions, Live(f)'
               PROVE  /\ fence'.state # "clear"
                      /\ snap[f].generation = fence'.generation
                      /\ 0 <= IF AtWork(f)' THEN Lease + remoteAge[f] ELSE leaseAge[f]
    BY <1>1, Zenon DEF LiveIsLatest
  <2>1. Live(f) /\ remoteAge[f] \in Nat /\ leaseAge[f] \in Nat
    <3>1. Live(f)
      BY <1>3, Zenon
    <3>2. remoteAge[f] \in 0..Route /\ leaseAge[f] \in 0..(Lease + 1)
      BY <1>0, Zenon DEF FenceInvariant, TypeOK
    <3> QED
      BY <3>1, <3>2, TimingAssumption
  <2> QED
    BY <1>1, <1>7, <2>1, TimingAssumption DEF FenceInvariant, LiveIsLatest
<1>9. ExposedIsFenced'
  BY <1>0, <1>1, <1>3, <1>7 DEF FenceInvariant, ExposedIsFenced
<1> QED
  BY <1>4, <1>5, <1>6, <1>8, <1>9, Zenon DEF FenceInvariant
\* The worker sends, or fails to connect.
LEMMA SendInv ==
    ASSUME FenceInvariant, TypeOK', NEW e \in Executions, Send(e) \/ ConnectTimeout(e)
    PROVE  FenceInvariant'
<1>0. /\ pc \in [Executions -> Labels] /\ answer \in [Executions -> Answers]
      /\ remote \in [Executions -> {"none", "sent", "working", "token", "over"}]
      /\ pc[e] = "reserved" /\ remote[e] = "none" /\ answer[e] = "none" /\ Reserved(e)
  BY Zenon DEF FenceInvariant, TypeOK, AnswersAreLate, Send, ConnectTimeout, Reserved, Holding
<1>1. /\ UNCHANGED <<fence, fenceAge, op, snap, leaseAge, remoteAge, exposed>>
      /\ pc' = [pc EXCEPT ![e] = "calling"]
      /\ \A f \in Executions \ {e} : remote'[f] = remote[f] /\ answer'[f] = answer[f]
      /\ \/ remote'[e] = "sent" /\ answer'[e] = "none"
         \/ remote'[e] = "none" /\ answer'[e] = "unproven"
         \/ remote'[e] = "none" /\ answer'[e] = "no_token" /\ op[e] = "register"
  BY <1>0, Zenon DEF Send, ConnectTimeout, scope, clocks, backend, Goto
<1>2. \A f \in Executions : /\ Reserved(f)' => Reserved(f)
                            /\ Live(f)' => Live(f)
                            /\ AtWork(f)' <=> AtWork(f)
  BY <1>0, <1>1, Zenon DEF Reserved, Live, AtWork, Holding
<1>3. RowConsistent' /\ AnswersAreLate'
  BY <1>0, <1>1 DEF FenceInvariant, RowConsistent, AnswersAreLate
<1>4. GenerationsDistinct' /\ LiveIsLatest'
  BY <1>1, <1>2, Zenon DEF FenceInvariant, GenerationsDistinct, LiveIsLatest
<1>5. ExposedIsFenced'
  BY <1>0, <1>1, <1>2 DEF FenceInvariant, ExposedIsFenced
<1> QED
  BY <1>3, <1>4, <1>5, Zenon DEF FenceInvariant

\* The steps of the backend.
LEMMA RemoteInv ==
    ASSUME FenceInvariant, TypeOK', NEW e \in Executions, Remote(e)
    PROVE  FenceInvariant'
<1>0. /\ pc \in [Executions -> Labels] /\ answer \in [Executions -> Answers]
      /\ remote \in [Executions -> {"none", "sent", "working", "token", "over"}]
      /\ remoteAge \in [Executions -> 0..Route] /\ leaseAge[e] \in 0..(Lease + 1)
      /\ fenceAge \in Nat /\ remote[e] # "none" /\ Reserved(e)
      /\ op[e] \in Operations
  BY TimingAssumption
  DEF FenceInvariant, TypeOK, Remote, Accept, RefuseLease, AcquireToken, GiveUp,
      Rotate, RotateFails, Reserved
<1>1. /\ UNCHANGED <<fence, fenceAge, op, snap, pc, leaseAge>>
      /\ \A f \in Executions \ {e} : /\ remote'[f] = remote[f]
                                     /\ remoteAge'[f] = remoteAge[f]
                                     /\ answer'[f] = answer[f]
      /\ remote'[e] # "none"
  BY <1>0, Zenon DEF Remote, Accept, RefuseLease, AcquireToken, GiveUp, Rotate, RotateFails,
              Reply, scope, clocks
<1>2. \/ /\ remote[e] = "sent" /\ remote'[e] = "working" /\ leaseAge[e] <= Lease
         /\ remoteAge'[e] = 0 /\ UNCHANGED <<exposed, answer>>
      \/ /\ remote[e] = "working" /\ remote'[e] = "token" /\ op[e] = "register"
         /\ exposed' /\ UNCHANGED <<remoteAge, answer>>
      \/ /\ remote'[e] = "over" /\ UNCHANGED <<remoteAge, exposed>>
         /\ answer'[e] \in {answer[e], "unproven", "unproven_digest"}
      \/ /\ remote[e] = "working" /\ op[e] = "register" /\ remote'[e] = "over"
         /\ UNCHANGED <<remoteAge, exposed>>
         /\ answer'[e] \in {answer[e], "no_token"}
      \/ /\ remote'[e] = "over" /\ ~exposed' /\ UNCHANGED remoteAge
         /\ answer'[e] \in {answer[e], "proven"}
  <2>1. CASE Accept(e)
    BY <1>0, <2>1 DEF Accept
  <2>2. CASE RefuseLease(e)
    BY <1>0, <2>2, Zenon DEF RefuseLease, Reply, clocks
  <2>3. CASE AcquireToken(e)
    BY <1>0, <2>3, Zenon DEF AcquireToken, clocks
  <2>4. CASE GiveUp(e)
    BY <1>0, <2>4, Zenon DEF GiveUp, Reply, clocks
  <2>5. CASE Rotate(e)
    BY <1>0, <2>5, Zenon DEF Rotate, Reply, clocks
  <2>6. CASE RotateFails(e)
    BY <1>0, <2>6, Zenon DEF RotateFails, Reply, clocks
  <2> QED
    BY <2>1, <2>2, <2>3, <2>4, <2>5, <2>6, Zenon DEF Remote
<1>3. answer'[e] = answer[e] \/ pc[e] = "calling"
  BY <1>0, Zenon DEF Remote, Accept, RefuseLease, AcquireToken, GiveUp, Rotate, RotateFails,
              Reply
<1>4. \A f \in Executions : /\ Reserved(f)' <=> Reserved(f)
                            /\ Live(f)' => Live(f)
                            /\ f # e => (AtWork(f)' <=> AtWork(f))
  BY <1>0, <1>1, <1>2, Zenon DEF Reserved, Live, AtWork, Holding
<1>5. RowConsistent' /\ GenerationsDistinct'
  BY <1>1, <1>4, ZenonT(30) DEF FenceInvariant, RowConsistent, GenerationsDistinct
<1>6. AnswersAreLate'
  BY <1>0, <1>1, <1>2, <1>3, Zenon DEF FenceInvariant, AnswersAreLate
<1>7. LiveIsLatest'
  <2> SUFFICES ASSUME NEW f \in Executions, Live(f)'
               PROVE  /\ fence.state # "clear"
                      /\ snap[f].generation = fence.generation
                      /\ fenceAge <= IF AtWork(f)' THEN Lease + remoteAge'[f]
                                                   ELSE leaseAge[f]
    BY <1>1, Zenon DEF LiveIsLatest
  <2>1. /\ Live(f) /\ fence.state # "clear" /\ snap[f].generation = fence.generation
        /\ fenceAge <= IF AtWork(f) THEN Lease + remoteAge[f] ELSE leaseAge[f]
    BY <1>4, Zenon DEF FenceInvariant, LiveIsLatest
  <2>2. CASE f # e
    BY <1>1, <1>4, <2>1, <2>2, Zenon
  <2>3. CASE f = e
    <3>1. CASE remote[e] = "sent"
      BY <1>0, <1>1, <1>2, <2>1, <2>3, <3>1, TimingAssumption DEF Live, AtWork,
         FenceInvariant, AnswersAreLate
    <3>2. CASE remote[e] # "sent"
      BY <1>0, <1>1, <1>2, <2>1, <2>3, <3>2, Zenon DEF Live, AtWork,
         FenceInvariant, AnswersAreLate
    <3> QED
      BY <3>1, <3>2, Zenon
  <2> QED
    BY <2>2, <2>3, Zenon
<1>8. ExposedIsFenced'
  <2>1. CASE ~exposed'
    BY <2>1, Zenon DEF ExposedIsFenced
  <2>2. CASE exposed' /\ ~exposed
    <3>1. /\ remote[e] = "working" /\ remote'[e] = "token" /\ op[e] = "register"
          /\ UNCHANGED answer
      BY <1>2, <2>2, Zenon
    <3>2. /\ fence.state # "clear" /\ snap[e].generation = fence.generation
          /\ answer[e] \notin {"proven", "no_token"}
      BY <3>1, Zenon DEF FenceInvariant, LiveIsLatest, Live, AtWork, AnswersAreLate
    <3>3. \A f \in Executions :
              Reserved(f) /\ snap[f].generation = fence.generation => f = e
      BY <1>0, <3>2, Zenon DEF FenceInvariant, GenerationsDistinct
    <3> QED
      BY <1>1, <1>4, <3>1, <3>2, <3>3 DEF ExposedIsFenced
  <2>3. CASE exposed' /\ exposed
    BY <1>0, <1>1, <1>2, <1>4, <2>3 DEF FenceInvariant, ExposedIsFenced
  <2> QED
    BY <2>1, <2>2, <2>3, Zenon DEF FenceInvariant, TypeOK
<1> QED
  BY <1>5, <1>6, <1>7, <1>8, Zenon DEF FenceInvariant
\* Time ages the fence no faster than it ages leases and remote work.
LEMMA TickInv ==
    ASSUME FenceInvariant, TypeOK', Tick
    PROVE  FenceInvariant'
<1>0. /\ UNCHANGED <<fence, op, snap, pc, remote, exposed, answer>>
      /\ remoteAge \in [Executions -> 0..Route]
      /\ leaseAge \in [Executions -> 0..(Lease + 1)]
      /\ fenceAge \in Nat
  BY TimingAssumption DEF Tick, backend, FenceInvariant, TypeOK
<1>1. /\ RowConsistent' /\ AnswersAreLate' /\ GenerationsDistinct' /\ ExposedIsFenced'
  BY <1>0, Zenon DEF FenceInvariant, RowConsistent, AnswersAreLate, GenerationsDistinct,
              ExposedIsFenced, Reserved
<1>2. LiveIsLatest'
  <2> SUFFICES ASSUME NEW e \in Executions, Live(e)'
               PROVE  /\ fence.state # "clear"
                      /\ snap[e].generation = fence.generation
                      /\ fenceAge' <= IF AtWork(e) THEN Lease + remoteAge'[e]
                                                   ELSE leaseAge'[e]
    BY <1>0, Zenon DEF LiveIsLatest, AtWork
  <2>1. /\ leaseAge[e] \in Nat /\ remoteAge[e] \in Nat /\ fenceAge' <= fenceAge + 1
        /\ leaseAge'[e] = IF leaseAge[e] < Lease + 1 THEN leaseAge[e] + 1 ELSE leaseAge[e]
        /\ AtWork(e) => remoteAge'[e] = remoteAge[e] + 1
        /\ fenceAge' \in Nat
    BY <1>0, TimingAssumption DEF Tick, Older
  <2>2. ~AtWork(e) => leaseAge'[e] <= Lease /\ leaseAge'[e] = leaseAge[e] + 1
    BY <1>0, <2>1, TimingAssumption DEF Live, AtWork
  <2>3. Live(e)
    BY <1>0, <2>1, <2>2, TimingAssumption DEF Live, AtWork
  <2>4. /\ fence.state # "clear" /\ snap[e].generation = fence.generation
        /\ fenceAge <= IF AtWork(e) THEN Lease + remoteAge[e] ELSE leaseAge[e]
    BY <2>3, Zenon DEF FenceInvariant, LiveIsLatest
  <2> QED
    BY <1>0, <2>1, <2>2, <2>4, TimingAssumption
<1> QED
  BY <1>1, <1>2, Zenon DEF FenceInvariant

\* Every step of workers, backend, faults and clock keeps the fence invariant.
LEMMA NextInv == FenceInvariant /\ [Next]_vars => FenceInvariant'
<1> SUFFICES ASSUME FenceInvariant, [Next]_vars  PROVE FenceInvariant'
  BY Zenon
<1>0. TypeOK'
  BY NextType, Zenon DEF FenceInvariant
<1>1. CASE UNCHANGED vars
  <2>1. UNCHANGED <<fence, fenceAge, op, snap, pc, leaseAge, remote, remoteAge, exposed,
                    answer>>
    BY <1>1, Zenon DEF vars, scope, clocks, backend
  <2> QED
    BY <1>0, <2>1 DEF FenceInvariant, RowConsistent, AnswersAreLate,
       GenerationsDistinct, LiveIsLatest, ExposedIsFenced, Reserved, Live, AtWork
<1>2. CASE Tick
  BY <1>0, <1>2, TickInv, Zenon
<1>3. ASSUME NEW e \in Executions, Decide(e) \/ Run(e) \/ Remote(e) \/ Fault(e)
      PROVE  FenceInvariant'
  <2>1. CASE \/ Request(e) \/ Approve(e) \/ Claim(e) \/ Prepare(e)
             \/ RaiseUnreserved(e) \/ RaiseReserved(e) \/ RecordFailure(e)
             \/ TransportFails(e) \/ Fault(e)
             \/ (Block(e) /\ ~Owns(e))
    BY <1>0, <2>1, QuietFades, FadesInv, Zenon
  <2>2. CASE ReserveStart(e) \/ ReserveTakeover(e)
    BY <1>0, <2>2, ReserveInv, Zenon
  <2>3. CASE RecordResponse(e) \/ (Block(e) /\ Owns(e))
    BY <1>0, <2>3, OwnerWriteInv, Zenon
  <2>4. CASE Send(e) \/ ConnectTimeout(e)
    BY <1>0, <2>4, SendInv, Zenon
  <2>5. CASE Remote(e)
    BY <1>0, <2>5, RemoteInv, Zenon
  <2> QED
    BY <1>3, <2>1, <2>2, <2>3, <2>4, <2>5, Zenon DEF Decide, Run
<1> QED
  BY <1>1, <1>2, <1>3, Zenon DEF Next

-----------------------------------------------------------------------------
(* The theorems.                                                           *)

\* FenceInvariant, which ties every piece of live remote work to the latest
\* reservation, holds in every reachable state.
THEOREM FenceInvariantHolds == Spec => []FenceInvariant
BY InitInv, NextInv, PTL DEF Spec

\* The backend works on one request of a scope at a time.
THEOREM RemoteWorkIsExclusive == Spec => []OneRemoteOperation
<1>1. FenceInvariant => OneRemoteOperation
  <2> SUFFICES ASSUME FenceInvariant, NEW e \in Executions, NEW f \in Executions,
                      AtWork(e), AtWork(f)
               PROVE  e = f
    BY Zenon DEF OneRemoteOperation
  <2>1. /\ Reserved(e) /\ Reserved(f)
        /\ snap[e].generation = fence.generation /\ snap[f].generation = fence.generation
    BY Zenon DEF FenceInvariant, LiveIsLatest, Live, AtWork, Reserved
  <2> QED
    BY <2>1, Zenon DEF FenceInvariant, GenerationsDistinct
<1> QED
  BY FenceInvariantHolds, <1>1, PTL

\* A clear fence means a token that was reset, or never handed out.
THEOREM ClearIsSafe == Spec => []ClearMeansReset
<1>1. FenceInvariant => ClearMeansReset
  BY Zenon DEF FenceInvariant, LiveIsLatest, Live, ExposedIsFenced, ClearMeansReset
<1> QED
  BY FenceInvariantHolds, <1>1, PTL

\* The CHECK constraints of the fence table are never violated.
THEOREM ConstraintsHold == Spec => []RowConsistent
<1>1. FenceInvariant => RowConsistent
  BY Zenon DEF FenceInvariant
<1> QED
  BY FenceInvariantHolds, <1>1, PTL

\* Each reservation uses a generation that no earlier one has used.
THEOREM GenerationsAdvance == Spec => ReservesNextGeneration
<1>1. ASSUME FenceInvariant, [Next]_vars, NEW e \in Executions,
             pc[e] = "leased", pc'[e] = "reserved"
      PROVE  /\ fence'.generation = fence.generation + 1
             /\ \A f \in Executions : pc[f] \in Holding =>
                    snap[f].generation < fence'.generation
  <2>0. /\ pc \in [Executions -> Labels] /\ fence \in FenceRow
        /\ fence.generation \in Nat /\ \A f \in Executions : snap[f].generation \in Nat
    BY <1>1, Zenon DEF FenceInvariant, TypeOK, FenceRow, FenceSnapshot
  <2>1. ReserveStart(e) \/ ReserveTakeover(e)
    <3> USE <1>1, <2>0
    <3>1. ASSUME NEW f \in Executions, Decide(f)  PROVE FALSE
      BY <3>1, Zenon DEF Decide, Request, Approve, Goto
    <3>2. ASSUME NEW f \in Executions, Run(f)  PROVE ReserveStart(e) \/ ReserveTakeover(e)
      <4>1. CASE Claim(f) \/ Prepare(f) \/ Send(f) \/ ConnectTimeout(f)
        BY <4>1 DEF Claim, Prepare, Send, ConnectTimeout, Goto
      <4>2. CASE TransportFails(f) \/ RecordResponse(f) \/ Block(f)
        BY <4>2, Zenon DEF TransportFails, RecordResponse, Block, AfterBlock, Goto
      <4>3. CASE RaiseUnreserved(f) \/ RaiseReserved(f) \/ RecordFailure(f)
        BY <4>3 DEF RaiseUnreserved, RaiseReserved, RecordFailure, Goto
      <4>4. CASE ReserveStart(f) \/ ReserveTakeover(f)
        BY <4>4, ZenonT(30) DEF ReserveStart, ReserveTakeover, Goto
      <4> QED
        BY <3>2, <4>1, <4>2, <4>3, <4>4, ZenonT(30) DEF Run
    <3>3. ASSUME NEW f \in Executions, Remote(f)  PROVE FALSE
      BY <3>3, Zenon DEF Remote, Accept, RefuseLease, AcquireToken, GiveUp, Rotate, RotateFails
    <3>4. ASSUME NEW f \in Executions, Fault(f)  PROVE FALSE
      BY <3>4, Zenon DEF Fault, WorkerDies, RecordAborted, BlockAborted, AfterBlock, Goto
    <3> QED
      BY <3>1, <3>2, <3>3, <3>4 DEF Next, Tick, vars
  <2>2. fence'.generation = snap[e].generation /\ snap[e] = CurrentSnapshot
    BY <2>0, <2>1, ZenonT(30) DEF ReserveStart, ReserveTakeover, Save, SnapshotHolds, FenceRow
  <2>3. fence'.generation = fence.generation + 1
    <3>1. CurrentSnapshot.generation = fence.generation + 1
      BY Zenon DEF CurrentSnapshot
    <3> QED
      BY <2>2, <3>1, Zenon
  <2> QED
    BY <1>1, <2>0, <2>3 DEF FenceInvariant, GenerationsDistinct, Reserved
<1>2. FenceInvariant /\ [Next]_vars =>
          [\A e \in Executions : pc[e] = "leased" /\ pc'[e] = "reserved" =>
              /\ fence'.generation = fence.generation + 1
              /\ \A f \in Executions : pc[f] \in Holding =>
                     snap[f].generation < fence'.generation]_vars
  BY <1>1, Zenon
<1> QED
  BY FenceInvariantHolds, <1>2, PTL DEF Spec, ReservesNextGeneration
\* A worker whose generation has passed leaves the fence as it is.
THEOREM OvertakenIsHarmless == Spec => OvertakenNeverWrites
<1>1. ASSUME TypeOK, [Next]_vars, NEW e \in Executions, pc[e] \in Holding,
             snap[e].generation # fence.generation, pc'[e] # pc[e]
      PROVE  fence' = fence
  <2>0. pc \in [Executions -> Labels]
    BY <1>1, Zenon DEF TypeOK
  <2> USE <1>1, <2>0
  <2>1. ASSUME NEW f \in Executions, Decide(f) \/ Remote(f) \/ Fault(f)
        PROVE  fence' = fence
    BY <2>1, Zenon DEF Decide, Request, Approve, Remote, Accept, RefuseLease, AcquireToken,
       GiveUp, Rotate, RotateFails, Fault, WorkerDies, RecordAborted, BlockAborted, scope
  <2>2. ASSUME NEW f \in Executions, Run(f)  PROVE fence' = fence
    <3>1. CASE \/ Claim(f) \/ Prepare(f) \/ Send(f) \/ ConnectTimeout(f)
               \/ TransportFails(f) \/ RaiseUnreserved(f) \/ RaiseReserved(f)
               \/ RecordFailure(f)
      BY <3>1, Zenon DEF Claim, Prepare, Send, ConnectTimeout, TransportFails,
         RaiseUnreserved, RaiseReserved, RecordFailure, scope
    <3>2. CASE ReserveStart(f) \/ ReserveTakeover(f)
      BY <3>2, Zenon DEF ReserveStart, ReserveTakeover, Goto, Holding
    <3>3. CASE RecordResponse(f) \/ Block(f)
      BY <3>3, Zenon DEF RecordResponse, Block, Goto, Owns, scope
    <3> QED
      BY <2>2, <3>1, <3>2, <3>3, ZenonT(30) DEF Run
  <2> QED
    BY <2>1, <2>2, Zenon DEF Next, Tick, vars
<1>2. TypeOK /\ [Next]_vars =>
          [\A e \in Executions :
              /\ pc[e] \in Holding /\ snap[e].generation # fence.generation
              /\ pc'[e] # pc[e]
              => fence' = fence]_vars
  BY <1>1, Zenon
<1> QED
  BY TypeCorrect, <1>2, PTL DEF Spec, OvertakenNeverWrites

-----------------------------------------------------------------------------
(* Who attends to a taken fence.                                           *)

\* What the lemmas below need of the type invariant and of the row's columns.
LEMMA FenceFacts ==
    ASSUME FenceInvariant
    PROVE  /\ pc \in [Executions -> Labels]
           /\ status \in [Executions -> {"open", "running"} \cup Terminal]
           /\ op \in [Executions -> Operations]
           /\ snap \in [Executions -> FenceSnapshot]
           /\ answer \in [Executions -> Answers]
           /\ fence \in FenceRow /\ faults \in Nat
           /\ fence.state # "clear" => fence.blocking \in Executions
           /\ fence.reconciliation # NoExecution =>
                  fence.state # "clear" /\ fence.reconciliation \in Executions
<1>1. fence \in FenceRow /\ faults \in Nat
  BY FaultsAssumption DEF FenceInvariant, TypeOK
<1>2. /\ fence.blocking \in Executions \cup {NoExecution}
      /\ fence.reconciliation \in Executions \cup {NoExecution}
  BY <1>1, Zenon DEF FenceRow
<1> QED
  BY <1>1, <1>2, Zenon DEF FenceInvariant, TypeOK, RowConsistent

\* Steps of a worker that leave the fence alone: a settled execution stays
\* settled, and a worker that owns the fence goes on towards saving it.
LEMMA AttendedQuiet ==
    ASSUME FenceInvariant, Attended, NEW e \in Executions,
           \/ Request(e) \/ Approve(e) \/ Claim(e) \/ Prepare(e)
           \/ RaiseUnreserved(e) \/ RaiseReserved(e) \/ RecordFailure(e)
           \/ Send(e) \/ ConnectTimeout(e) \/ TransportFails(e)
           \/ (Block(e) /\ ~Owns(e))
    PROVE  Attended'
<1> USE FenceFacts
<1>1. UNCHANGED <<fence, faults>>
  BY Zenon DEF Request, Approve, Claim, Prepare, RaiseUnreserved, RaiseReserved,
         RecordFailure, Send, ConnectTimeout, TransportFails, Block, scope
<1>2. faults = 0 => \A f \in Executions : Settles(f) => Settles(f)'
  <2> SUFFICES ASSUME faults = 0, NEW f \in Executions, Settles(f)  PROVE Settles(f)'
    BY Zenon
  <2>1. CASE f # e
    <3>1. pc'[f] = pc[f] /\ status'[f] = status[f]
      BY <2>1, Zenon DEF Request, Approve, Claim, Prepare, RaiseUnreserved, RaiseReserved,
         RecordFailure, Send, ConnectTimeout, TransportFails, Block, Goto
    <3> QED
      BY <3>1, Zenon DEF Settles
  <2>2. CASE f = e
    <3>1. pc[e] \in Holding \cup {"recording", "done"}
      BY <2>2, Zenon DEF Settles
    <3>2. \/ pc'[e] \in Holding \cup {"recording"}
          \/ pc'[e] = "done" /\ status'[e] \in Terminal
          \/ Block(e) /\ pc[e] = "unrecordable"
      BY <3>1, Zenon DEF Request, Approve, Claim, Prepare, RaiseUnreserved, RaiseReserved,
         RecordFailure, Send, ConnectTimeout, TransportFails, Block, AfterBlock, Goto,
         Holding, Terminal
    <3> QED
      BY <2>2, <3>2, Zenon DEF Settles, Attended
  <2> QED
    BY <2>1, <2>2
<1>3. \A f \in Executions : pc[f] \in Holding /\ Owns(f) => pc'[f] \in Holding
  BY Zenon DEF Request, Approve, Claim, Prepare, RaiseUnreserved, RaiseReserved,
     RecordFailure, Send, ConnectTimeout, TransportFails, Block, AfterBlock, Goto, Holding
<1>4. \A f \in Executions : pc[f] \in Holding => op'[f] = op[f] /\ snap'[f] = snap[f]
  BY Zenon DEF Request, Approve, Claim, Prepare, RaiseUnreserved, RaiseReserved,
     RecordFailure, Send, ConnectTimeout, TransportFails, Block, Holding
<1>5. \A f \in Executions : pc[f] # "unrecordable" => pc'[f] # "unrecordable"
  BY Zenon DEF Request, Approve, Claim, Prepare, RaiseUnreserved, RaiseReserved,
     RecordFailure, Send, ConnectTimeout, TransportFails, Block, AfterBlock, Goto
<1>6. \A f \in Executions : pc[f] \in Holding /\ Owns(f) => Owns(f)'
  <2> SUFFICES ASSUME NEW f \in Executions, pc[f] \in Holding, Owns(f)  PROVE Owns(f)'
    BY Zenon
  <2>1. op'[f] = op[f] /\ snap'[f] = snap[f] /\ fence' = fence
    BY <1>1, <1>4, Zenon
  <2> QED
    BY ONLY Owns(f), <2>1, ZenonT(30) DEF Owns
<1> QED
  BY <1>1, <1>2, <1>3, <1>5, <1>6, Zenon DEF Attended

\* A reservation makes its execution the blocker or the owner of the fence; the
\* blocker that a takeover finds is settled, failed by the takeover if need be.
LEMMA AttendedReserve ==
    ASSUME FenceInvariant, Attended, NEW e \in Executions,
           ReserveStart(e) \/ ReserveTakeover(e)
    PROVE  Attended'
<1> USE FenceFacts
<1>1. /\ UNCHANGED <<op, snap, faults>>
      /\ pc' = [pc EXCEPT ![e] = "reserved"] /\ pc[e] = "leased"
  BY Zenon DEF ReserveStart, ReserveTakeover, Goto
<1>2. /\ pc'[e] \in Holding
      /\ \A f \in Executions : pc[f] # "unrecordable" => pc'[f] # "unrecordable"
  BY <1>1, Zenon DEF Holding
<1>3. CASE ReserveStart(e)
  <2>1. fence'.blocking = e /\ fence'.reconciliation = NoExecution
    BY <1>3, Zenon DEF ReserveStart, Save, FenceRow
  <2> QED
    BY <1>1, <1>2, <2>1, Zenon DEF Attended, Settles
<1>4. CASE ReserveTakeover(e)
  <2>1. /\ fence'.blocking = fence.blocking /\ fence'.reconciliation = e
        /\ fence'.generation = snap[e].generation /\ fence.state # "clear"
        /\ op[e] = "reconcile"
    BY <1>4, Zenon DEF ReserveTakeover, Save, FenceRow
  <2>2. \A f \in Executions : status[f] \in Terminal => status'[f] \in Terminal
    BY <1>4, Zenon DEF ReserveTakeover, Terminal
  <2>3. \A f \in Executions : Settles(f) => Settles(f)'
    BY <1>1, <2>2, Zenon DEF Settles, Holding
  <2>4. Owns(e)'
    BY <1>1, <2>1, Zenon DEF Owns
  <2> QED
    BY <1>1, <1>2, <2>1, <2>3, <2>4, Zenon DEF Attended
<1> QED
  BY <1>3, <1>4, Zenon

\* An owner that saves the fence settles itself and leaves no reconciliation.
LEMMA AttendedWrite ==
    ASSUME FenceInvariant, Attended, NEW e \in Executions,
           RecordResponse(e) \/ (Block(e) /\ Owns(e))
    PROVE  Attended'
<1> USE FenceFacts
<1>1. /\ Owns(e) /\ faults' = faults
      /\ fence' \in {AfterResponse(e), [fence EXCEPT !.state = "blocked",
                                                     !.reconciliation = Released(e)]}
  BY Zenon DEF RecordResponse, Block, Save
<1>2. /\ fence'.reconciliation = NoExecution
      /\ fence'.blocking = fence.blocking \/ fence'.state = "clear"
  BY <1>1, ZenonT(30) DEF AfterResponse, Released, Owns, FenceRow, Operations
<1>3. fence.state # "clear"
  BY <1>1, NoExecutionAssumption, Zenon DEF FenceInvariant, RowConsistent, Owns, Operations
<1> SUFFICES ASSUME faults = 0  PROVE Attended'
  BY <1>1, Zenon DEF Attended
<1>4. \A f \in Executions : pc[f] # "unrecordable"
  BY Zenon DEF Attended
<1>5. \A f \in Executions : pc'[f] # "unrecordable"
  BY <1>4, Zenon DEF RecordResponse, Block, AfterBlock, Goto
<1>6. \A f \in Executions : Settles(f) => Settles(f)'
  BY <1>4 DEF Settles, RecordResponse, Block, AfterBlock, Goto, Holding, Terminal
<1>7. fence.blocking \in Executions /\ Settles(fence.blocking)
  BY <1>3, Zenon DEF Attended
<1>8. (fence.state # "clear" => Settles(fence.blocking))'
  <2>1. PICK f \in Executions : f = fence.blocking /\ Settles(f)
    BY <1>7, Zenon
  <2>2. Settles(f)'
    BY <1>6, <2>1, Zenon
  <2> QED
    BY <1>2, <2>1, <2>2, Zenon DEF Settles
<1> QED
  BY <1>2, <1>5, <1>8, Zenon DEF Attended

\* Every step keeps the fence attended.
LEMMA AttendedNext == FenceInvariant /\ Attended /\ [Next]_vars => Attended'
<1> SUFFICES ASSUME FenceInvariant, Attended, [Next]_vars  PROVE Attended'
  BY Zenon
<1>1. CASE \/ UNCHANGED vars \/ Tick \/ \E e \in Executions : Remote(e)
  <2>1. UNCHANGED <<fence, op, snap, status, pc, faults>>
    BY <1>1, Zenon DEF vars, scope, Tick, Remote, Accept, RefuseLease, AcquireToken, GiveUp,
       Rotate, RotateFails
  <2> QED
    BY <2>1, Zenon DEF Attended, Settles, Owns
<1>2. ASSUME NEW e \in Executions, Decide(e) \/ Run(e)  PROVE Attended'
  BY <1>2, AttendedQuiet, AttendedReserve, AttendedWrite, Zenon DEF Decide, Run
<1>3. ASSUME NEW e \in Executions, Fault(e)  PROVE Attended'
  <2>1. faults' # 0
    BY <1>3, FenceFacts DEF Fault, WorkerDies, RecordAborted, BlockAborted
  <2> QED
    BY <2>1, Zenon DEF Attended
<1> QED
  BY <1>1, <1>2, <1>3, Zenon DEF Next

\* In every behaviour, without faults, a taken fence has somebody to attend to it.
THEOREM AttendedHolds == Spec => []Attended
<1>1. Init => Attended
  BY DEF Init, Attended
<1> QED
  BY <1>1, AttendedNext, FenceInvariantHolds, PTL DEF Spec

\* A scope is never stuck except by a fault: once the workers of a taken fence
\* have gone, it has no reconciliation and its blocker has an outcome.
THEOREM StuckOnlyByFaultHolds == Spec => []StuckOnlyByFault
<1>1. FenceInvariant /\ Attended => StuckOnlyByFault
  <2> SUFFICES ASSUME FenceInvariant, Attended  PROVE StuckOnlyByFault
    BY Zenon
  <2> QED
    BY FenceFacts DEF Attended, Settles, StuckOnlyByFault
<1> QED
  BY <1>1, FenceInvariantHolds, AttendedHolds, PTL
=============================================================================
