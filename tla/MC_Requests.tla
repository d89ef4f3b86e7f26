------------------------------ MODULE MC_Requests ------------------------------
(***************************************************************************)
(* Requests that race in the web processes.  ExecutionAdmission: an intent *)
(* that creates a password user and then a Samba domain against a direct   *)
(* provision, with threads lost.  ProcedureEdit: an editor edits two       *)
(* procedures in two requests and weakens one in a third, and an approver  *)
(* edits both in bulk.  The two share no variable; each behaviour follows  *)
(* one of them, and the other rests in its initial state.                  *)
(***************************************************************************)
EXTENDS ExecutionAdmission, ProcedureEdit, TLC

CONSTANTS Parts,
          intent, direct, user, provision, rotate, vm, bound,
          rowP, rowQ, noteP, noteQ, weaken, bulk, alice, bob

VARIABLE part

\* The requests of the race.
RacePlan == (intent :> <<user, provision>>) @@ (direct :> <<provision>>)
RaceTarget == (intent :> vm) @@ (direct :> vm)
RacePassword == (intent :> "plain") @@ (direct :> "none")

\* The rows and the edits of the instance.
StoredRow == [approval_required |-> FALSE, enabled |-> TRUE, effect |-> "write",
              transport_driver |-> "ansible", description |-> "none"]
Nothing == [f \in Fields |-> Omitted]
Note == [Nothing EXCEPT !["description"] = "ops"]
Weaken == [Nothing EXCEPT !["approval_required"] = FALSE, !["effect"] = "read", !["enabled"] = TRUE]
Bulk == [Nothing EXCEPT !["approval_required"] = TRUE, !["enabled"] = FALSE,
                        !["transport_driver"] = "asyncssh"]

EditorOf == (noteP :> alice) @@ (noteQ :> alice) @@ (weaken :> alice) @@ (bulk :> bob)
PathOf == (noteP :> "form") @@ (noteQ :> "conditional") @@ (weaken :> "rest") @@ (bulk :> "rest")
RowsOf ==
  (noteP :> <<rowP>>) @@ (noteQ :> <<rowQ>>) @@ (weaken :> <<rowP>>) @@ (bulk :> <<rowQ, rowP>>)
RequestedBy == (noteP :> Note) @@ (noteQ :> Note) @@ (weaken :> Weaken) @@ (bulk :> Bulk)
StoredRows == (rowP :> StoredRow) @@ (rowQ :> StoredRow)
PermissionsOf == (alice :> {"paired"}) @@ (bob :> {"all"})

---------------------------------------------------------------------------
RequestsInit == part \in Parts /\ Init /\ EditInit

\* A step of the part followed; StepOf and EditStepOf are steps of one thread.
StepOf(r) == part = "race" /\ Step(r) /\ UNCHANGED <<part, editing>>
EditStepOf(e) == part = "edit" /\ EditStep(e) /\ UNCHANGED <<part, vars>>
RaceStep == part = "race" /\ Next /\ UNCHANGED <<part, editing>>
EditingStep == part = "edit" /\ EditNext /\ UNCHANGED <<part, vars>>
RequestsNext == RaceStep \/ EditingStep

RequestsVars == <<part, vars, editing>>
\* A request thread keeps running; nothing is assumed of operators,
\* administrators or workers.
RequestsSpec ==
  /\ RequestsInit /\ [][RequestsNext]_RequestsVars
  /\ \A r \in Requests : WF_RequestsVars(StepOf(r))
  /\ \A e \in Edits : WF_RequestsVars(EditStepOf(e))

---------------------------------------------------------------------------
\* Every request ends, also the one that waits for another's provision lock, and
\* so does every edit: all paths take the scope lock before a row lock.
EveryCallEnds ==
  /\ part = "race" => EveryRequestEnds
  /\ part = "edit" => EveryEditEnds
=============================================================================
