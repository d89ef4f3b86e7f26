---------------------------- MODULE ProcedureEdit ----------------------------
(***************************************************************************)
(* Concurrent edits of RPCProcedure rows through the REST serializer, its  *)
(* bulk and conditional (If-Match) forms, and the admin form.  A protected *)
(* field may be weakened only by a user whose approve scope holds the      *)
(* stored row, and no edit may widen its own editor's approve scope.       *)
(*                                                                         *)
(* An edit reads the row and the user's grants when the request starts,    *)
(* and again under two locks: the procedure scope lock, an advisory lock   *)
(* every edit takes first, and the lock of each row it writes.  draft      *)
(* holds the rows a transaction has written and not committed.             *)
(***************************************************************************)
EXTENDS Integers, Sequences, FiniteSets

CONSTANTS
    RPCProcedures,
    Edits,       \* edit requests
    Editor,      \* the user of each edit
    Path,        \* form, rest, or conditional (REST with If-Match)
    Rows,        \* the procedures each edit writes, in order
    Requested,   \* the field values each edit submits; Omitted where absent
    Initial,     \* the stored rows at first
    Permissions, \* the grants of each user at first
    MaxChanges,  \* bound on changes of grants
    Omitted,
    NoEdit

VARIABLES
    table,    \* committed RPCProcedure rows
    permissions, \* committed object permissions of each user
    scope,    \* holder of the procedure scope lock
    lock,     \* holder of each row lock
    edit,     \* each edit: pc, next row, the copies read at the start, the scope
              \* before the write; history: the grants it read under the locks and
              \* the rows it could approve when it checked them there
    draft,    \* rows written and not committed, per edit
    changes

editing == <<table, permissions, scope, lock, edit, draft, changes>>

Users == {Editor[e] : e \in Edits}
\* A field for each kind of rule of PROTECTED_PROCEDURE_FIELD_RULES: the other
\* thirteen fields have one of these rules (tags are compared by primary key).
ProtectedFields == {"approval_required", "enabled", "effect", "transport_driver"}
Fields == ProtectedFields \cup {"description"}
Grants == SUBSET {"all", "paired"}

ASSUME RowsAssumption == \A e \in Edits : Rows[e] \in Seq(RPCProcedures) /\ Rows[e] # <<>>
ASSUME StoredAssumption == /\ \A p \in RPCProcedures : DOMAIN Initial[p] = Fields
                           /\ Permissions \in [Users -> Grants]
ASSUME NoEditAssumption == NoEdit \notin Edits

-----------------------------------------------------------------------------
(* The protected-field rules of transport.py.                              *)

\* lowering_is_refused: from True to a falsy value.
LoweringRefused(previous, requested) == previous = TRUE /\ requested = FALSE

\* enabling_is_refused: from False to anything else.
EnablingRefused(previous, requested) == previous = FALSE /\ requested # FALSE

\* EFFECT_RANKS with the ranks of a stored and of a requested unknown value.
EffectRank(effect, unknown) ==
    CASE effect = "read" -> 0
      [] effect = "write" -> 1
      [] effect = "destructive" -> 2
      [] OTHER -> unknown

\* effect_lowering_is_refused: an unknown value always counts as lowering.
EffectRefused(previous, requested) ==
    /\ requested # previous
    /\ EffectRank(requested, -1) < EffectRank(previous, 3)

\* change_is_refused.
ChangeRefused(previous, requested) == previous # requested

\* PROTECTED_PROCEDURE_FIELD_RULES.
Rule(field, previous, requested) ==
    CASE field = "approval_required" -> LoweringRefused(previous, requested)
      [] field = "enabled" -> EnablingRefused(previous, requested)
      [] field = "effect" -> EffectRefused(previous, requested)
      [] field = "transport_driver" -> ChangeRefused(previous, requested)

\* protected_field_refusals: an omitted field is not being changed.
Refusals(stored, requested, mayApprove) ==
    {f \in ProtectedFields : /\ requested[f] # Omitted
                       /\ Rule(f, stored[f], requested[f])
                       /\ ~mayApprove}

\* NetBox's restrict(user, "approve"): a grant may be unconstrained, match a
\* field of the row, or follow a relation to another procedure.
ApproveScope(granted, rows) ==
    {p \in RPCProcedures :
        \/ "all" \in granted
        \/ "paired" \in granted /\ rows[p].description = "ops"
           /\ \E q \in RPCProcedures \ {p} : rows[q].description = "ops"}

-----------------------------------------------------------------------------

EditInit ==
    /\ table = Initial
    /\ permissions = Permissions
    /\ scope = NoEdit
    /\ lock = [p \in RPCProcedures |-> NoEdit]
    /\ edit = [e \in Edits |-> [pc |-> "start", next |-> 1, copy |-> Initial,
                                cached |-> {}, before |-> {}, granted |-> {},
                                entitled |-> {}]]
    /\ draft = [e \in Edits |-> [p \in {} |-> Initial[p]]]
    /\ changes = 0

At(e, p) == edit[e].pc = p
MoveTo(e, p) == edit' = [edit EXCEPT ![e].pc = p]
Row(e) == Rows[e][edit[e].next]

\* What a transaction sees: committed rows under its own writes.
Seen(e) == [p \in RPCProcedures |-> IF p \in DOMAIN draft[e] THEN draft[e][p] ELSE table[p]]

\* The end of a transaction releases both kinds of lock.
Release(e) ==
    /\ scope' = IF scope = e THEN NoEdit ELSE scope
    /\ lock' = [p \in RPCProcedures |-> IF lock[p] = e THEN NoEdit ELSE lock[p]]

\* An error raised inside the transaction rolls it back.
Abort(e) ==
    /\ MoveTo(e, "refused")
    /\ Release(e)
    /\ draft' = [draft EXCEPT ![e] = [p \in {} |-> Initial[p]]]
    /\ UNCHANGED <<table, permissions, changes>>

\* RPCProcedureForm.clean and RPCProcedureSerializer.validate: the rules over the
\* copies read when the request starts.
Validate(e) ==
    /\ At(e, "start")
    /\ LET refused == \E i \in DOMAIN Rows[e] :
             Refusals(table[Rows[e][i]], Requested[e],
                      Rows[e][i] \in ApproveScope(permissions[Editor[e]], table)) # {}
       IN  edit' = [edit EXCEPT ![e].pc = IF refused THEN "refused" ELSE "scope",
                                ![e].copy = table,
                                ![e].cached = permissions[Editor[e]]]
    /\ UNCHANGED <<table, permissions, scope, lock, draft, changes>>

\* Variant of LockScope: the lock is not taken.
LockNoScope(e) ==
    /\ At(e, "scope")
    /\ MoveTo(e, "row")
    /\ UNCHANGED <<table, permissions, scope, lock, draft, changes>>

\* Variant of LockScope: a conditional update locks its row first.
LockScopeLate(e) ==
    /\ \/ /\ At(e, "scope") /\ Path[e] = "conditional" /\ lock[Row(e)] # e
          /\ lock[Row(e)] = NoEdit
          /\ lock' = [lock EXCEPT ![Row(e)] = e]
          /\ UNCHANGED <<scope, edit>>
       \/ /\ At(e, "scope") /\ (Path[e] = "conditional" => lock[Row(e)] = e)
          /\ scope = NoEdit
          /\ scope' = e
          /\ MoveTo(e, "row")
          /\ UNCHANGED lock
    /\ UNCHANGED <<table, permissions, draft, changes>>

\* lock_procedure_scope, first in every transaction: in the view's perform_update
\* and perform_bulk_update (before NetBox's If-Match row lock), in the form's save.
LockScope(e) ==
    /\ At(e, "scope")
    /\ scope = NoEdit
    /\ scope' = e
    /\ MoveTo(e, "row")
    /\ UNCHANGED <<table, permissions, lock, draft, changes>>

\* select_for_update of the stored row.
LockRow(e) ==
    /\ At(e, "row")
    /\ lock[Row(e)] \in {NoEdit, e}
    /\ lock' = [lock EXCEPT ![Row(e)] = e]
    /\ MoveTo(e, "check")
    /\ UNCHANGED <<table, permissions, scope, draft, changes>>

\* reload_requesting_user: the grants committed now, not the cached ones.
CurrentGrants(e) == permissions[Editor[e]]

\* The rules again under the locks, and the approve scope before the write.
CheckLocked(e) ==
    /\ At(e, "check")
    /\ LET granted == CurrentGrants(e)
           stored == Seen(e)[Row(e)]
           may == Row(e) \in ApproveScope(granted, Seen(e))
       IN  IF Refusals(stored, Requested[e], may) # {}
           THEN Abort(e)
           ELSE /\ edit' = [edit EXCEPT ![e].pc = "write",
                                        ![e].before = ApproveScope(granted, Seen(e)),
                                        ![e].granted = @ \cup {permissions[Editor[e]]},
                                        ![e].entitled = @ \cup ({Row(e)} \cap
                                          ApproveScope(permissions[Editor[e]], Seen(e)))]
                /\ UNCHANGED <<table, permissions, scope, lock, draft, changes>>

\* Variant of Written: an omitted field keeps the copy read at the start.
WrittenStale(e) ==
    [f \in Fields |-> IF Requested[e][f] # Omitted THEN Requested[e][f]
                      ELSE edit[e].copy[Row(e)][f]]

\* The row that is saved: omitted protected fields come from the locked row, an
\* omitted unprotected field from the instance loaded at the start.
Written(e) ==
    [f \in Fields |-> IF Requested[e][f] # Omitted THEN Requested[e][f]
                      ELSE IF f \in ProtectedFields THEN Seen(e)[Row(e)][f]
                      ELSE edit[e].copy[Row(e)][f]]

\* super().update / super().save.
WriteRow(e) ==
    /\ At(e, "write")
    /\ draft' = [draft EXCEPT ![e] = [p \in DOMAIN @ \cup {Row(e)} |->
                    IF p = Row(e) THEN Written(e) ELSE @[p]]]
    /\ MoveTo(e, "gain")
    /\ UNCHANGED <<table, permissions, scope, lock, changes>>

\* refuse_approval_scope_gain; then the next row of a bulk edit, or the commit.
RefuseGain(e) ==
    /\ At(e, "gain")
    /\ IF ApproveScope(CurrentGrants(e), Seen(e)) \ edit[e].before # {}
       THEN Abort(e)
       ELSE /\ LET last == edit[e].next = Len(Rows[e])
               IN  edit' = [edit EXCEPT ![e].pc = IF last THEN "commit" ELSE "row",
                                        ![e].next = IF last THEN @ ELSE @ + 1,
                                        ![e].granted = @ \cup {permissions[Editor[e]]}]
            /\ UNCHANGED <<table, permissions, scope, lock, draft, changes>>

Commit(e) ==
    /\ At(e, "commit")
    /\ table' = Seen(e)
    /\ draft' = [draft EXCEPT ![e] = [p \in {} |-> Initial[p]]]
    /\ MoveTo(e, "done")
    /\ Release(e)
    /\ UNCHANGED <<permissions, changes>>

\* An administrator changes a user's object permissions; no edit lock is taken.
ChangeGrants(u, g) ==
    /\ changes < MaxChanges
    /\ g # permissions[u]
    /\ permissions' = [permissions EXCEPT ![u] = g]
    /\ changes' = changes + 1
    /\ UNCHANGED <<table, scope, lock, edit, draft>>

EditStep(e) ==
    \/ Validate(e) \/ LockScope(e) \/ LockRow(e) \/ CheckLocked(e)
    \/ WriteRow(e) \/ RefuseGain(e) \/ Commit(e)

EditNext ==
    \/ \E e \in Edits : EditStep(e)
    \/ \E u \in Users, g \in Grants : ChangeGrants(u, g)

EditSpec == EditInit /\ [][EditNext]_editing

-----------------------------------------------------------------------------
(* What the protected edits promise.                                       *)

Answered == {"done", "refused"}

\* Between the scope lock and the end of the transaction.
Inside == {"row", "check", "write", "gain", "commit"}
EditRecord(e) ==
    [pc : Inside \cup Answered \cup {"start", "scope"}, next : DOMAIN Rows[e],
     copy : {edit[e].copy}, cached : Grants, before : SUBSET RPCProcedures,
     granted : SUBSET Grants, entitled : SUBSET RPCProcedures]

\* The type of the state.
EditTypeOK ==
    /\ \A p \in RPCProcedures : DOMAIN table[p] = Fields
    /\ permissions \in [Users -> Grants]
    /\ scope \in Edits \cup {NoEdit}
    /\ lock \in [RPCProcedures -> Edits \cup {NoEdit}]
    /\ DOMAIN edit = Edits /\ DOMAIN draft = Edits
    /\ \A e \in Edits :
          /\ edit[e] \in EditRecord(e)
          /\ DOMAIN draft[e] \subseteq RPCProcedures
          /\ \A p \in DOMAIN draft[e] : DOMAIN draft[e][p] = Fields

\* The commit of edit e.
Commits(e) == At(e, "commit") /\ edit'[e].pc = "done"

\* refuse_approval_scope_gain, also against two edits of different procedures by
\* one user that each see no gain, and across the rows of a bulk edit: a commit
\* never widens its editor's own scope, under the grants the edit read, unless an
\* administrator changed them while it held its locks.
NoSelfGain ==
    [][\A e \in Edits, g \in Grants : Commits(e) /\ edit[e].granted = {g} =>
          ApproveScope(g, table') \subseteq ApproveScope(g, table)]_editing

\* Protected fields against the rows committed just before: what a commit
\* weakens, the editor could approve when the edit checked it under the locks,
\* and if the grants did not change meanwhile, on those rows as committed; a
\* field the edit did not mention keeps its value, although the edit may carry an
\* old copy of it while another commits a stricter one.
ProtectedFieldsKept ==
    [][\A e \in Edits : Commits(e) =>
          \A p \in RPCProcedures, f \in ProtectedFields :
              /\ Rule(f, table[p][f], table'[p][f]) =>
                    /\ p \in edit[e].entitled
                    /\ \A g \in Grants : edit[e].granted = {g} => p \in ApproveScope(g, table)
              /\ Requested[e][f] = Omitted => table'[p][f] = table[p][f]]_editing

\* Scope lock before row lock on every path: no edit waits for ever.
EveryEditEnds == \A e \in Edits : <>(edit[e].pc \in Answered)

-----------------------------------------------------------------------------
(* The inductive invariant behind the two action properties.               *)

\* Row p may be weakened by e: the editor could approve it when it was checked,
\* and on the committed rows if only one set of grants was read.
Entitled(e, p) ==
    /\ p \in edit[e].entitled
    /\ \A g \in Grants : edit[e].granted \subseteq {g} => p \in ApproveScope(g, table)

\* What holds of edit e: it is inside its transaction exactly while it holds the
\* scope lock, and only then has it written rows; no written row, and no row that
\* passed the locked check, weakens a protected field unless Entitled; and its
\* approve scope over what it sees has not grown.
EditKnows(e) ==
    LET r == edit[e]
    IN  /\ r.pc \in Inside <=> scope = e
        /\ DOMAIN draft[e] # {} => scope = e
        /\ \A p \in DOMAIN draft[e], f \in ProtectedFields :
              /\ draft[e][p][f] = IF Requested[e][f] # Omitted THEN Requested[e][f]
                                  ELSE table[p][f]
              /\ Rule(f, table[p][f], draft[e][p][f]) => Entitled(e, p)
        /\ r.pc = "write" =>
              \A f \in ProtectedFields :
                 Requested[e][f] # Omitted /\ Rule(f, Seen(e)[Row(e)][f], Requested[e][f]) =>
                    Entitled(e, Row(e))
        /\ \A g \in Grants : r.granted \subseteq {g} =>
              /\ r.pc \in {"row", "check", "commit"} =>
                    ApproveScope(g, Seen(e)) \subseteq ApproveScope(g, table)
              /\ r.pc \in {"write", "gain"} => r.before \subseteq ApproveScope(g, table)

EditInvariant == EditTypeOK /\ \A e \in Edits : EditKnows(e)
=============================================================================
