---------------------------- MODULE CredentialRemap ----------------------------
(***************************************************************************)
(* The management command rpc_remap_credentials_to_openbao: allowlist rows *)
(* that carry a legacy credential get the assignment of the credential it  *)
(* was migrated to.  Each allowlist is read through a cursor; for each row *)
(* the command looks the assignment up, creates it when there is exactly   *)
(* one to copy the object from, and saves the row.  Each write commits by  *)
(* itself; the command may be killed at any point and run again, with or   *)
(* without --dry-run, and administrators work at the same time.            *)
(***************************************************************************)
EXTENDS Integers, FiniteSets

CONSTANTS Services, Plugins,  \* the rows of the two allowlists
          Credentials, Objects, None,
          MaxAssignments, MaxEdits

VARIABLES
  legacy,      \* [Rows -> the credential the legacy value was migrated to, or None]
  assigned,    \* [Rows -> openbao_assignment_id, or None]
  assignments, \* CredentialAssignment rows
  pc,          \* "idle", "next", "resolve", "create", "save"
  dry, cursor, \* the run: its mode, and what the cursor read of each row
  table,       \* the allowlist being read
  todo, row,
  found,       \* the assignment of the row, or the object to create one on
  planned,     \* rows the last dry run would update, or None once anything else changed
  updated,     \* rows updated since
  edits
vars == <<legacy, assigned, assignments, pc, dry, cursor, table, todo, row, found, planned, updated, edits>>

Rows == Services \union Plugins
Ids == 1..MaxAssignments
Assignments == [id : Ids, credential : Credentials, object : Objects, login : BOOLEAN,
                enabled : BOOLEAN, created : BOOLEAN]
NextId == Cardinality(assignments) + 1

Init ==
  /\ legacy \in [Rows -> Credentials \union {None}]
  /\ assigned = [r \in Rows |-> None] /\ assignments = {}
  /\ pc = "idle" /\ dry = TRUE /\ cursor = assigned /\ table = "services" /\ todo = {} /\ row = None /\ found = None
  /\ planned = None /\ updated = {} /\ edits = 0

---------------------------------------------------------------------------
ofCommand == <<pc, dry, cursor, table, todo, row, found>>
\* The cursor over the first allowlist is opened: its rows are seen as they are now.
Start(d) ==
  /\ pc = "idle" /\ pc' = "next"
  /\ dry' = d /\ cursor' = assigned /\ table' = "services" /\ todo' = Services
  /\ planned' = IF d THEN {} ELSE planned
  /\ updated' = IF d THEN {} ELSE updated
  /\ UNCHANGED <<legacy, assigned, assignments, row, found, edits>>

\* The cursor over the second allowlist is opened.
OpenPlugins ==
  /\ pc = "next" /\ todo = {} /\ table = "services"
  /\ table' = "plugins" /\ cursor' = assigned /\ todo' = Plugins
  /\ UNCHANGED <<legacy, assigned, assignments, pc, dry, row, found, planned, updated, edits>>

\* _remap_row: rows already set, or without a legacy value, are skipped.
Pick(r) ==
  /\ pc = "next" /\ r \in todo
  /\ todo' = todo \ {r}
  /\ IF cursor[r] = None /\ legacy[r] # None
     THEN pc' = "resolve" /\ row' = r
     ELSE UNCHANGED <<pc, row>>
  /\ UNCHANGED <<legacy, assigned, assignments, dry, cursor, table, found, planned, updated, edits>>

Of(c) == {a \in assignments : a.credential = c}
Logins(c) == {a \in Of(c) : a.login /\ a.enabled}
\* The one enabled login assignment of a credential.
OneLogin(c) == Cardinality(Logins(c)) = 1
\* Variant of OneToCopy: any assignment of the credential will do to copy from.
AnyToCopy(c) == Logins(c) = {} /\ Of(c) # {}
\* No login assignment yet, and one assignment of any purpose to copy the object of.
OneToCopy(c) == Logins(c) = {} /\ Cardinality(Of(c)) = 1
\* _resolve_or_create_assignment, up to the decision to create; -1 stands for an
\* assignment a dry run would create.
Resolve ==
  /\ pc = "resolve"
  /\ LET c == legacy[row]
     IN \/ OneLogin(c) /\ (\E a \in Logins(c) : found' = a.id) /\ pc' = "save"
        \/ OneToCopy(c) /\ dry /\ found' = -1 /\ pc' = "save"
        \/ OneToCopy(c) /\ ~dry /\ (\E a \in Of(c) : found' = a.object) /\ pc' = "create"
        \/ ~OneLogin(c) /\ ~OneToCopy(c) /\ found' = None /\ pc' = "next"
  /\ UNCHANGED <<legacy, assigned, assignments, dry, cursor, table, todo, row, planned, updated, edits>>
\* full_clean() refuses a second assignment of the purpose on the object and
\* ends the command; otherwise the new assignment is committed.
Create ==
  /\ pc = "create"
  /\ IF \E a \in Of(legacy[row]) : a.object = found /\ a.login
     THEN pc' = "idle" /\ planned' = None /\ UNCHANGED <<assignments, found>>
     ELSE /\ NextId \in Ids
          /\ assignments' = assignments \union
               {[id |-> NextId, credential |-> legacy[row], object |-> found, login |-> TRUE,
                 enabled |-> TRUE, created |-> TRUE]}
          /\ found' = NextId /\ pc' = "save" /\ UNCHANGED planned
  /\ UNCHANGED <<legacy, assigned, dry, cursor, table, todo, row, updated, edits>>
\* The row is saved, or only counted.
Save ==
  /\ pc = "save" /\ pc' = "next"
  /\ IF dry
     THEN planned' = (IF planned = None THEN None ELSE planned \union {row})
          /\ UNCHANGED <<assigned, updated>>
     ELSE /\ assigned' = [assigned EXCEPT ![row] = found]
          /\ updated' = updated \union {row}
          /\ UNCHANGED planned
  /\ UNCHANGED <<legacy, assignments, dry, cursor, table, todo, row, found, edits>>
Done ==
  /\ pc = "next" /\ todo = {} /\ table = "plugins" /\ pc' = "idle"
  /\ UNCHANGED <<legacy, assigned, assignments, dry, cursor, table, todo, row, found, planned, updated, edits>>
\* The command is killed; a dry run that did not finish predicts nothing.
Kill ==
  /\ pc # "idle" /\ pc' = "idle"
  /\ planned' = IF dry THEN None ELSE planned
  /\ UNCHANGED <<legacy, assigned, assignments, dry, cursor, table, todo, row, found, updated, edits>>

\* Administrators.
Edit == edits < MaxEdits /\ edits' = edits + 1 /\ planned' = None
        /\ UNCHANGED <<legacy, updated, ofCommand>>
Assign(c, o, l) ==
  /\ Edit /\ NextId \in Ids
  /\ ~\E a \in Of(c) : a.object = o /\ a.login = l
  /\ assignments' = assignments \union {[id |-> NextId, credential |-> c, object |-> o,
                                         login |-> l, enabled |-> TRUE, created |-> FALSE]}
  /\ UNCHANGED assigned
Disable(a) ==
  /\ Edit
  /\ assignments' = (assignments \ {a}) \union {[a EXCEPT !.enabled = FALSE]}
  /\ UNCHANGED assigned
SetRow(r, a) ==
  /\ Edit
  /\ assigned' = [assigned EXCEPT ![r] = a.id]
  /\ UNCHANGED assignments

Next ==
  \/ \E d \in BOOLEAN : Start(d)
  \/ \E r \in Rows : Pick(r)
  \/ OpenPlugins \/ Resolve \/ Create \/ Save \/ Done \/ Kill
  \/ \E c \in Credentials, o \in Objects, l \in BOOLEAN : Assign(c, o, l)
  \/ \E a \in assignments : Disable(a) \/ \E r \in Rows : SetRow(r, a)
Spec == Init /\ [][Next]_vars

---------------------------------------------------------------------------
TypeOK ==
  /\ assigned \in [Rows -> Ids \union {None}] /\ assignments \subseteq Assignments
  /\ pc \in {"idle", "next", "resolve", "create", "save"} /\ table \in {"services", "plugins"}
  /\ todo \subseteq Rows /\ updated \subseteq Rows
  /\ planned = None \/ planned \subseteq Rows

\* However often the command is killed and run again, it creates at most one
\* assignment for a credential, and administrators never find two it created.
CreatedOnce == \A c \in Credentials : Cardinality({a \in Of(c) : a.created}) <= 1

\* A dry run predicts the remap: when nobody interferes and no creation is
\* refused, the rows updated by the runs after it, killed ones included, are the
\* rows it reported once a run ends, and never others before.
DryRunPredicts ==
  planned # None /\ ~dry =>
    /\ updated \subseteq planned
    /\ pc = "next" /\ todo = {} /\ table = "plugins" => updated = planned

\* The command may be killed and run again at any point: it creates nothing
\* twice and does what its dry run said.
RemapIsRepeatable == TypeOK /\ CreatedOnce /\ DryRunPredicts

=============================================================================
