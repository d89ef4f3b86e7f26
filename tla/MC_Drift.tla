------------------------------- MODULE MC_Drift -------------------------------
(***************************************************************************)
(* Rows that change under a reader.  "admission": ExecutionAdmission, an   *)
(* intent whose second procedure is protected, while an operator edits     *)
(* backend, catalogue, grants and target.  "commands": two editors of the  *)
(* command chains of two procedures.  "policy": the editors of the         *)
(* transport policy and a normalisation.  "remap": the credential remap    *)
(* command, killed and run again, and administrators.  The four share no   *)
(* variable; each behaviour follows one of them, and the others rest in    *)
(* one of their initial states.                                            *)
(***************************************************************************)
EXTENDS ExecutionAdmission, CatalogueEditors, TLC

CONSTANTS Parts,
          intent, user, rotate, vm, bound, spare,
          cmd1, cmd2, web, shell, svc, plug, cred, obj1, obj2

VARIABLES part,
          legacy, assigned, assignments, phase, dry, cursor, allowlist, todo, current, found,
          planned, updated, changes

DriftPlan == intent :> <<user, rotate>>
OnVm == intent :> vm
OnePassword == intent :> "plain"

\* Chains of Ansible, raw and mixed drivers of either capability, and one that
\* mixes the capabilities.
FewChains == {<<>>, <<"ansible">>, <<"paramiko", "ansible">>, <<"ansible-network">>,
              <<"ansible", "scrapli">>}

\* A service row and a plugin row, which may name one credential; it may be
\* assigned on two objects.
Remap == INSTANCE CredentialRemap WITH
  Services <- {svc}, Plugins <- {plug}, Credentials <- {cred},
  Objects <- {obj1, obj2}, MaxAssignments <- 4, MaxEdits <- 3,
  pc <- phase, table <- allowlist, row <- current, edits <- changes

---------------------------------------------------------------------------
commanding == <<command, pending>>
normalizing ==
  <<procedure, platform, transport, copy, stage, policy, chain, context, during, saves>>
remapping == <<legacy, assigned, assignments, phase, dry, cursor, allowlist, todo, current,
               found, planned, updated, changes>>

DriftInit ==
  /\ part \in Parts
  /\ Init /\ CommandRows!Init
  /\ IF part = "policy" THEN Policy!Init
     ELSE /\ procedure = [chain |-> <<>>, pinned |-> FALSE, driver |-> "ansible"]
          /\ platform = FALSE /\ transport = Unset
          /\ Policy!Init
  /\ IF part = "remap" THEN Remap!Init
     ELSE legacy = [r \in {svc, plug} |-> None] /\ Remap!Init

\* A step of the instance followed.
AdmissionStep ==
  part = "admission" /\ Next /\ UNCHANGED <<part, commanding, normalizing, remapping>>
CommandStep ==
  part = "commands" /\ CommandRows!Next /\ UNCHANGED <<part, vars, normalizing, remapping>>
PolicyStep ==
  part = "policy" /\ Policy!Next /\ UNCHANGED <<part, vars, commanding, remapping>>
RemapStep ==
  part = "remap" /\ Remap!Next /\ UNCHANGED <<part, vars, commanding, normalizing>>
DriftNext == AdmissionStep \/ CommandStep \/ PolicyStep \/ RemapStep
DriftSpec == DriftInit /\ [][DriftNext]_<<part, vars, commanding, normalizing, remapping>>

---------------------------------------------------------------------------
\* The command may be killed and run again at any point: it creates nothing
\* twice and does what its dry run said.
RemapIsRepeatable == Remap!RemapIsRepeatable
=============================================================================
