---------------------------- MODULE CatalogueOps ----------------------------
(***************************************************************************)
(* What the forward and reverse functions of the data migrations do to one *)
(* row of the catalogue.  A migration is a list of operations; an          *)
(* operation names the rows it is about and how it treats each of them.    *)
(* The migrations repeat a few idioms (update_or_create, create or refuse, *)
(* compare then accept, filter().update(), filter().delete()); each idiom  *)
(* is one operator below, mapped to a migration that uses it.              *)
(*                                                                         *)
(* A row keeps                                                             *)
(*   is      "absent"; "shipped": the content a migration wrote; "edited": *)
(*           an operator changed columns or steps that migrations compare; *)
(*           "own": an operator created it under that name; "refused": the *)
(*           operation raised, the transaction of the migration rolls back *)
(*   on      the enabled column                                            *)
(*   cmds    it has RPCProcedureCommand rows                               *)
(*   pin     transport_pinned                                              *)
(*   used    an RPCExecution points to it (on_delete=PROTECT)              *)
(*   linked  a shipped intent groups it (on_delete=PROTECT)                *)
(*   patch   the migrations whose amendment of a column is in the row      *)
(***************************************************************************)
EXTENDS CatalogueTables, Naturals, Sequences

Absent == [is |-> "absent", on |-> FALSE, cmds |-> FALSE, pin |-> FALSE,
           used |-> FALSE, linked |-> FALSE, patch |-> {}]
Refused == [Absent EXCEPT !.is = "refused"]
Present(r) == r.is # "absent"
\* A row somebody created by hand has another handler_id than the shipped one.
Handled(r) == r.is \in {"shipped", "edited"}

---------------------------------------------------------------------------
\* Operations.  parts: which of "cmds" and "pin" the idiom writes.
Op(do, table, on, parts) == [do |-> do, rows |-> DOMAIN table, on |-> on, parts |-> parts]
Upsert(table, on, parts)  == Op("upsert", table, on, parts)
Create(table, on, parts)  == Op("create", table, on, parts)
Strict(table, on, parts)  == Op("strict", table, on, parts)
Loose(table, on, parts)   == Op("loose", table, on, parts)
Relight(table, on, parts) == Op("relight", table, on, parts)
Do(do, table)             == Op(do, table, "kept", {})
Delete(table)     == Do("delete", table)
DeleteFree(table) == Do("delete_free", table)
Disable(table)    == Do("disable", table)
Commands(table)     == Do("commands", table)
DropCommands(table) == Do("drop_commands", table)
Patch(table)      == Do("patch", table)
PatchIf(table)    == Do("patch_if", table)
Unpatch(table)    == Do("unpatch", table)
Link(table)       == Do("link", table)
Unlink(table)     == Do("unlink", table)
Irreversible      == <<Do("refuse", <<>>)>>

---------------------------------------------------------------------------
\* The row a seed creates: enabled defaults to True in the model.
Fresh(op) == [Absent EXCEPT !.is = "shipped", !.on = op.on # "off",
                            !.cmds = "cmds" \in op.parts, !.pin = "pin" \in op.parts]

\* update_or_create(name=..., defaults=...): every column of the seed is
\* written; enabled only if it is among the defaults.
Upserted(op, r) ==
  IF ~Present(r) THEN Fresh(op)
  ELSE [r EXCEPT !.is = "shipped", !.on = IF op.on = "kept" THEN @ ELSE op.on = "on",
                 !.cmds = @ \/ "cmds" \in op.parts, !.pin = @ \/ "pin" \in op.parts,
                 !.patch = {}]

\* Variant of Created: the row is written whoever owns it.
CreatedOver(op, r) == Upserted(op, r)
\* create(), after raising if the name exists.
Created(op, r) == IF Present(r) THEN Refused ELSE Fresh(op)

SameContract(op, r) == r.is = "shipped" /\ r.cmds = ("cmds" \in op.parts)
\* create(), or accept the row whose immutable columns and steps equal the
\* seed; what happens to enabled distinguishes the three forms.
Matched(op, r) ==
  IF ~Present(r) THEN Fresh(op)
  ELSE IF ~SameContract(op, r) THEN Refused
  ELSE CASE op.do = "strict"  -> IF r.on = (op.on = "on") THEN r ELSE Refused
         [] op.do = "loose"   -> r
         [] op.do = "relight" -> [r EXCEPT !.on = TRUE]

\* filter(...).delete(): PROTECT raises when an execution or an intent points
\* to the row; the commands cascade.
Deleted(r) == IF r.used \/ r.linked THEN Refused ELSE Absent
\* The same, with ProtectedError caught: the row stays as it is.
DeletedFree(r) == IF r.used \/ r.linked THEN r ELSE Absent

\* Variant of Disabled: procedures in use stay enabled.
DisabledUnused(r) == IF r.used THEN r ELSE [r EXCEPT !.on = FALSE]
\* filter(...).update(enabled=False)
Disabled(r) == [r EXCEPT !.on = FALSE]

\* Steps are seeded for, and removed from, the procedures with a handler_id.
WithCommands(r, has) == IF Handled(r) THEN [r EXCEPT !.cmds = has] ELSE r

\* Amend a column of a row that is there.
Patched(m, r) == IF Present(r) THEN [r EXCEPT !.patch = @ \union {m}] ELSE r
\* The same, only while the column holds the value the seed gave it.
PatchedIf(m, r) == IF r.is = "shipped" THEN Patched(m, r) ELSE r
Unpatched(m, r) == [r EXCEPT !.patch = @ \ {m}]

\* 0099 and 0100: replace one exact value by another; raise on a third one.
Swapped(m, r, missing) ==
  IF ~Present(r) THEN missing
  ELSE IF m \in r.patch \/ r.is = "shipped" THEN Patched(m, r) ELSE Refused
Unswapped(m, r, missing) ==
  IF ~Present(r) THEN missing
  ELSE IF m \in r.patch \/ r.is = "shipped" THEN Unpatched(m, r) ELSE Refused

\* Variant of Pinned: only procedures in use are pinned.
PinnedInUse(r, pin) == IF Handled(r) /\ r.used THEN [r EXCEPT !.pin = pin] ELSE r
\* filter(handler_id__in=...).update(transport_pinned=...)
Pinned(r, pin) == IF Handled(r) THEN [r EXCEPT !.pin = pin] ELSE r

\* 0050: an install that already runs executions is opted in.
OptedIn(r) == IF Present(r) /\ r.used THEN [r EXCEPT !.on = TRUE] ELSE r

\* 0075: create the singleton, disabled; fill in the chains left empty.
PolicySeeded(m, r) == IF Present(r) THEN PatchedIf(m, r)
                      ELSE Patched(m, [Absent EXCEPT !.is = "shipped", !.used = r.used])

\* 0031: events recorded before the column existed get their hash; the update
\* is refused once the append-only trigger is in place.
Hashed(m, r) == IF r.pin THEN Refused ELSE Patched(m, r)
Guarded(r, on) == [r EXCEPT !.pin = on]

---------------------------------------------------------------------------
\* One operation on one row.
Step(m, op, r) ==
  CASE op.do = "upsert"        -> Upserted(op, r)
    [] op.do = "create"        -> Created(op, r)
    [] op.do \in {"strict", "loose", "relight"} -> Matched(op, r)
    [] op.do = "delete"        -> Deleted(r)
    [] op.do = "delete_free"   -> DeletedFree(r)
    [] op.do = "disable"       -> Disabled(r)
    [] op.do = "commands"      -> WithCommands(r, TRUE)
    [] op.do = "drop_commands" -> WithCommands(r, FALSE)
    [] op.do = "patch"         -> Patched(m, r)
    [] op.do = "patch_if"      -> PatchedIf(m, r)
    [] op.do = "unpatch"       -> Unpatched(m, r)
    [] op.do = "swap"          -> Swapped(m, r, r)
    [] op.do = "unswap"        -> Unswapped(m, r, r)
    [] op.do = "swap_all"      -> Swapped(m, r, Refused)
    [] op.do = "unswap_all"    -> Unswapped(m, r, Refused)
    [] op.do = "pin"           -> Pinned(r, TRUE)
    [] op.do = "unpin"         -> Pinned(r, FALSE)
    [] op.do = "link"          -> IF Present(r) THEN [r EXCEPT !.linked = TRUE] ELSE r
    [] op.do = "need"          -> IF Present(r) THEN [r EXCEPT !.linked = TRUE] ELSE Refused
    [] op.do = "unlink"        -> [r EXCEPT !.linked = FALSE]
    [] op.do = "opt_in"        -> OptedIn(r)
    [] op.do = "policy"        -> PolicySeeded(m, r)
    [] op.do = "hash"          -> Hashed(m, r)
    [] op.do = "guard"         -> Guarded(r, TRUE)
    [] op.do = "unguard"       -> Guarded(r, FALSE)
    [] op.do = "reset"         -> IF Present(r) THEN [r EXCEPT !.is = "shipped", !.patch = {}] ELSE r
    [] op.do = "wipe"          -> [Absent EXCEPT !.used = r.used]

\* The k-th operation of a list on row p.  An operation that raises ends the
\* list; no list has more than two (ListsAssumption of CatalogueMigrations).
Nth(m, ops, k, p, r) ==
  IF k > Len(ops) \/ r = Refused \/ p \notin ops[k].rows THEN r ELSE Step(m, ops[k], r)

Run(m, ops, p, r) == Nth(m, ops, 2, p, Nth(m, ops, 1, p, r))
=============================================================================
