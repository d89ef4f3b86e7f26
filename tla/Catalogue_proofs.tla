-------------------------- MODULE Catalogue_proofs --------------------------
(***************************************************************************)
(* Machine-checked proofs about the catalogue's migrations: any watched    *)
(* rows, any number of changes by the operator, upgrades and rollbacks in  *)
(* any order.  What the graph and the tables contain is taken from the     *)
(* closed assumptions of CatalogueMigrations, which TLC evaluates.         *)
(* PublicationPair: any rows found before the chain of migrations, any     *)
(* number of edits.                                                        *)
(***************************************************************************)
EXTENDS CatalogueMigrations, AdoptedPair, TLAPS

-----------------------------------------------------------------------------
(* What an operation does to a row.                                        *)

\* A row of the catalogue, outside a transaction that raised.
Row == [is : {"absent", "shipped", "edited", "own"}, on : BOOLEAN, cmds : BOOLEAN,
        pin : BOOLEAN, used : BOOLEAN, linked : BOOLEAN, patch : SUBSET Ids]

\* The row that stands for a raised operation is no row of the catalogue.
LEMMA RefusedIsNoRow ==
  ASSUME NEW r \in Row
  PROVE  r # Refused /\ Absent \in Row /\ Absent # Refused
BY DEF Row, Refused, Absent

\* The outcomes of the operations: of the quiet ones, the seeds, the ones that
\* erase, and the others.
Quieted(r, s) == s = Refused \/ (s \in Row /\ s.is = r.is /\ s.on = r.on /\ s.used = r.used)
SeededAs(op, r, s) ==
  \/ s = Refused
  \/ /\ s \in Row /\ s.is = "shipped"
     /\ s.on => r.on \/ Lights(op)
     /\ s.on /\ Present(r) => r.on \/ Relights(op)
     /\ s.used <=> r.used /\ Present(r)
     /\ Present(r) /\ op.do # "upsert" => r.is = "shipped"
Erased(op, r, s) ==
  \/ s = Refused
  \/ op.do = "delete_free" /\ s = r
  \/ /\ s \in Row /\ s.is = "absent" /\ ~s.on /\ s.used = r.used
     /\ op.do # "wipe" => ~r.used
Dimmed(r, s) == s \in Row /\ s.is = r.is /\ ~s.on /\ s.used = r.used /\ s.patch = r.patch
Opted(r, s) ==
  /\ s \in Row /\ s.is = r.is /\ s.used = r.used
  /\ s.on => r.on \/ r.used
  /\ ~Present(r) => s = r
Chained(r, s) ==
  /\ s \in Row /\ s.used = r.used /\ (s.on => r.on) /\ Present(s)
  /\ Present(r) => s.is = r.is
Unchained(r, s) ==
  /\ s \in Row /\ s.on = r.on /\ s.used = r.used
  /\ Present(s) <=> Present(r)

\* The operations of Quiet touch neither the existence of a row nor its enabled
\* column nor its executions.
LEMMA QuietSteps ==
  ASSUME NEW m \in Ids, NEW op, op.do \in Quiet, NEW r \in Row
  PROVE  Quieted(r, Step(m, op, r))
<1>1. CASE op.do = "commands"
  <2>1. Step(m, op, r) = WithCommands(r, TRUE)
    BY <1>1, Zenon DEF Step
  <2>. QED BY <2>1, ZenonT(30) DEF Quieted, Row, WithCommands
<1>2. CASE op.do = "drop_commands"
  <2>1. Step(m, op, r) = WithCommands(r, FALSE)
    BY <1>2, Zenon DEF Step
  <2>. QED BY <2>1, ZenonT(30) DEF Quieted, Row, WithCommands
<1>3. CASE op.do = "patch"
  <2>1. Step(m, op, r) = Patched(m, r)
    BY <1>3, Zenon DEF Step
  <2>. QED BY <2>1 DEF Quieted, Row, Patched
<1>4. CASE op.do = "patch_if"
  <2>1. Step(m, op, r) = PatchedIf(m, r)
    BY <1>4, Zenon DEF Step
  <2>. QED BY <2>1 DEF Quieted, Row, PatchedIf, Patched
<1>5. CASE op.do = "unpatch"
  <2>1. Step(m, op, r) = Unpatched(m, r)
    BY <1>5, Zenon DEF Step
  <2>. QED BY <2>1 DEF Quieted, Row, Unpatched
<1>6. CASE op.do = "swap"
  <2>1. Step(m, op, r) = Swapped(m, r, r)
    BY <1>6, Zenon DEF Step
  <2>. QED BY <2>1 DEF Quieted, Row, Swapped, Patched
<1>7. CASE op.do = "unswap"
  <2>1. Step(m, op, r) = Unswapped(m, r, r)
    BY <1>7, Zenon DEF Step
  <2>. QED BY <2>1 DEF Quieted, Row, Unswapped, Unpatched
<1>8. CASE op.do = "swap_all"
  <2>1. Step(m, op, r) = Swapped(m, r, Refused)
    BY <1>8, Zenon DEF Step
  <2>. QED BY <2>1 DEF Quieted, Row, Swapped, Patched
<1>9. CASE op.do = "unswap_all"
  <2>1. Step(m, op, r) = Unswapped(m, r, Refused)
    BY <1>9, Zenon DEF Step
  <2>. QED BY <2>1 DEF Quieted, Row, Unswapped, Unpatched
<1>10. CASE op.do = "pin"
  <2>1. Step(m, op, r) = Pinned(r, TRUE)
    BY <1>10, Zenon DEF Step
  <2>. QED BY <2>1, ZenonT(30) DEF Quieted, Row, Pinned
<1>11. CASE op.do = "unpin"
  <2>1. Step(m, op, r) = Pinned(r, FALSE)
    BY <1>11, Zenon DEF Step
  <2>. QED BY <2>1, ZenonT(30) DEF Quieted, Row, Pinned
<1>12. CASE op.do = "link"
  <2>1. Step(m, op, r) = (IF Present(r) THEN [r EXCEPT !.linked = TRUE] ELSE r)
    BY <1>12, Zenon DEF Step
  <2>. QED BY <2>1, ZenonT(30) DEF Quieted, Row
<1>13. CASE op.do = "need"
  <2>1. Step(m, op, r) = (IF Present(r) THEN [r EXCEPT !.linked = TRUE] ELSE Refused)
    BY <1>13, Zenon DEF Step
  <2>. QED BY <2>1, ZenonT(30) DEF Quieted, Row
<1>14. CASE op.do = "unlink"
  <2>1. Step(m, op, r) = [r EXCEPT !.linked = FALSE]
    BY <1>14, Zenon DEF Step
  <2>. QED BY <2>1, Zenon DEF Quieted, Row
<1>15. CASE op.do = "hash"
  <2>1. Step(m, op, r) = Hashed(m, r)
    BY <1>15, Zenon DEF Step
  <2>. QED BY <2>1 DEF Quieted, Row, Hashed, Patched
<1>16. CASE op.do = "guard"
  <2>1. Step(m, op, r) = Guarded(r, TRUE)
    BY <1>16, Zenon DEF Step
  <2>. QED BY <2>1, Zenon DEF Quieted, Row, Guarded
<1>17. CASE op.do = "unguard"
  <2>1. Step(m, op, r) = Guarded(r, FALSE)
    BY <1>17, Zenon DEF Step
  <2>. QED BY <2>1, Zenon DEF Quieted, Row, Guarded
<1>. QED BY <1>1, <1>2, <1>3, <1>4, <1>5, <1>6, <1>7, <1>8, <1>9, <1>10, <1>11, <1>12, <1>13,
         <1>14, <1>15, <1>16, <1>17, Zenon DEF Quiet

\* The row that is not there.
LEMMA AbsentRow ==
  /\ Absent \in Row /\ Absent.is = "absent" /\ Absent.on = FALSE /\ Absent.used = FALSE
  /\ Absent.patch = {}
BY Zenon DEF Absent, Row

\* A seed leaves a shipped row; it enables it only as its last argument says, and
\* raises rather than write over a row of the operator's, except for "upsert".
LEMMA SeedingSteps ==
  ASSUME NEW m \in Ids, NEW op, op.do \in Seeding, op.on \in {"on", "off", "kept"}, NEW r \in Row
  PROVE  SeededAs(op, r, Step(m, op, r))
<1>0. Fresh(op) \in Row /\ Fresh(op).is = "shipped" /\ Fresh(op).used = FALSE
      /\ (Fresh(op).on <=> op.on # "off")
  <2>1. ASSUME NEW a \in Row
        PROVE  LET f == [a EXCEPT !.is = "shipped", !.on = op.on # "off",
                                  !.cmds = "cmds" \in op.parts, !.pin = "pin" \in op.parts]
               IN  f \in Row /\ f.is = "shipped" /\ f.used = a.used /\ (f.on <=> op.on # "off")
    <3>. DEFINE f == [a EXCEPT !.is = "shipped", !.on = op.on # "off",
                               !.cmds = "cmds" \in op.parts, !.pin = "pin" \in op.parts]
    <3>1. f.is = "shipped" /\ f.used = a.used
      BY Zenon DEF Row
    <3>2. f.on <=> op.on # "off"
      BY Zenon DEF Row
    <3>3. f \in Row
      <4>1. f.on \in BOOLEAN /\ f.cmds \in BOOLEAN /\ f.pin \in BOOLEAN
        <5>1. f.on \in BOOLEAN BY Zenon DEF Row
        <5>2. f.cmds \in BOOLEAN BY DEF Row
        <5>3. f.pin \in BOOLEAN BY DEF Row
        <5>. QED BY <5>1, <5>2, <5>3, Zenon
      <4>2. f = [a EXCEPT !.is = "shipped", !.on = f.on, !.cmds = f.cmds, !.pin = f.pin]
        BY Zenon DEF Row
      <4>3. ASSUME NEW x \in BOOLEAN, NEW y \in BOOLEAN, NEW z \in BOOLEAN
            PROVE  [a EXCEPT !.is = "shipped", !.on = x, !.cmds = y, !.pin = z] \in Row
        BY Zenon DEF Row
      <4>. QED BY <4>1, <4>2, <4>3, Zenon
    <3>. QED BY <3>1, <3>2, <3>3, Zenon
  <2>. QED BY <2>1, AbsentRow, Zenon DEF Fresh
<1>1. CASE op.do = "upsert"
  <2>1. Step(m, op, r) = Upserted(op, r)
    BY <1>1, Zenon DEF Step
  <2>2. CASE ~Present(r)
    <3>1. Step(m, op, r) = Fresh(op)
      BY <2>1, <2>2, Zenon DEF Upserted
    <3>. QED BY <3>1, <2>2, <1>0, <1>1, Zenon DEF SeededAs, Lights, Seeding
  <2>3. CASE Present(r)
    <3>1. Step(m, op, r) =
            [r EXCEPT !.is = "shipped", !.on = IF op.on = "kept" THEN r.on ELSE op.on = "on",
                      !.cmds = r.cmds \/ "cmds" \in op.parts,
                      !.pin = r.pin \/ "pin" \in op.parts, !.patch = {}]
      BY <2>1, <2>3, Zenon DEF Upserted
    <3>. QED BY <3>1, <2>3, <1>1, ZenonT(30) DEF SeededAs, Lights, Relights, Seeding, Row
  <2>. QED BY <2>2, <2>3, Zenon
<1>2. CASE op.do = "create"
  <2>1. Step(m, op, r) = Created(op, r)
    BY <1>2, Zenon DEF Step
  <2>. QED BY <2>1, <1>0, <1>2, Zenon DEF SeededAs, Created, Lights, Seeding
<1>3. CASE op.do \in {"strict", "loose", "relight"}
  <2>1. Step(m, op, r) = Matched(op, r)
    BY <1>3, Zenon DEF Step
  <2>2. CASE ~Present(r)
    <3>1. Step(m, op, r) = Fresh(op)
      BY <2>1, <2>2, Zenon DEF Matched
    <3>. QED BY <3>1, <2>2, <1>0, <1>3, Zenon DEF SeededAs, Lights, Seeding
  <2>3. CASE Present(r) /\ ~SameContract(op, r)
    BY <2>1, <2>3, Zenon DEF SeededAs, Matched
  <2>4. CASE Present(r) /\ SameContract(op, r)
    <3>1. r.is = "shipped"
      BY <2>4, Zenon DEF SameContract
    <3>2. \/ Step(m, op, r) \in {r, Refused}
          \/ op.do = "relight" /\ Step(m, op, r) = [r EXCEPT !.on = TRUE]
      BY <2>1, <2>4, <1>3, Zenon DEF Matched
    <3>. QED BY <2>4, <3>1, <3>2, ZenonT(30) DEF SeededAs, Lights, Relights, Row
  <2>. QED BY <2>2, <2>3, <2>4, Zenon
<1>. QED BY <1>1, <1>2, <1>3, Zenon DEF Seeding

\* Deleting: PROTECT raises, or keeps the row, when something points to it.
LEMMA ErasingSteps ==
  ASSUME NEW m \in Ids, NEW op, op.do \in Erasing, NEW r \in Row
  PROVE  Erased(op, r, Step(m, op, r))
<1>1. CASE op.do = "delete"
  <2>1. Step(m, op, r) = Deleted(r)
    BY <1>1, Zenon DEF Step
  <2>2. Step(m, op, r) = Refused \/ (Step(m, op, r) = Absent /\ ~r.used)
    BY <2>1, Zenon DEF Deleted
  <2>. QED BY <2>2, <1>1, AbsentRow, Zenon DEF Erased, Row
<1>2. CASE op.do = "delete_free"
  <2>1. Step(m, op, r) = DeletedFree(r)
    BY <1>2, Zenon DEF Step
  <2>2. Step(m, op, r) = r \/ (Step(m, op, r) = Absent /\ ~r.used)
    BY <2>1, Zenon DEF DeletedFree
  <2>. QED BY <2>2, <1>2, AbsentRow, Zenon DEF Erased, Row
<1>3. CASE op.do = "wipe"
  <2>1. Step(m, op, r) = [Absent EXCEPT !.used = r.used]
    BY <1>3, Zenon DEF Step
  <2>. QED BY <2>1, <1>3, Zenon DEF Erased, Row, Absent
<1>. QED BY <1>1, <1>2, <1>3, Zenon DEF Erasing

\* "disable" only clears the enabled column.
LEMMA DisableStep ==
  ASSUME NEW m \in Ids, NEW op, op.do = "disable", NEW r \in Row
  PROVE  Dimmed(r, Step(m, op, r))
<1>1. Step(m, op, r) = Disabled(r)
  BY Zenon DEF Step
<1>. QED BY <1>1, Zenon DEF Dimmed, Disabled, Row

\* 0050 enables the integration where executions exist.
LEMMA OptInStep ==
  ASSUME NEW m \in Ids, NEW op, op.do = "opt_in", NEW r \in Row
  PROVE  Opted(r, Step(m, op, r))
<1>1. Step(m, op, r) = OptedIn(r)
  BY Zenon DEF Step
<1>. QED BY <1>1, ZenonT(30) DEF Opted, OptedIn, Row

\* 0075 creates the settings row disabled, and fills in only what is empty.
LEMMA PolicyStep ==
  ASSUME NEW m \in Ids, NEW op, op.do = "policy", NEW r \in Row
  PROVE  Chained(r, Step(m, op, r))
<1>1. Step(m, op, r) = PolicySeeded(m, r)
  BY Zenon DEF Step
<1>2. CASE Present(r)
  <2>1. Step(m, op, r) = r \/ Step(m, op, r) = [r EXCEPT !.patch = r.patch \union {m}]
    BY <1>1, <1>2, Zenon DEF PolicySeeded, PatchedIf, Patched
  <2>. QED BY <1>2, <2>1 DEF Chained, Row, Present
<1>3. CASE ~Present(r)
  <2>. DEFINE new == [Absent EXCEPT !.is = "shipped", !.used = r.used]
  <2>1. Step(m, op, r) = Patched(m, new)
    BY <1>1, <1>3, Zenon DEF PolicySeeded
  <2>2. new \in Row /\ new.is = "shipped" /\ ~new.on /\ new.used = r.used
    BY AbsentRow, Zenon DEF Row
  <2>3. ASSUME NEW x \in Row, x.is = "shipped"
        PROVE  /\ Patched(m, x) \in Row /\ Patched(m, x).is = "shipped"
               /\ Patched(m, x).on = x.on /\ Patched(m, x).used = x.used
    BY <2>3, Zenon DEF Patched, Present, Row
  <2>4. "shipped" # "absent"
    BY Zenon
  <2>. HIDE DEF new
  <2>. QED BY <1>3, <2>1, <2>2, <2>3, <2>4, Zenon DEF Chained, Present
<1>. QED BY <1>2, <1>3, Zenon

\* Dropping the columns of the transport chains keeps the settings row.
LEMMA ResetStep ==
  ASSUME NEW m \in Ids, NEW op, op.do = "reset", NEW r \in Row
  PROVE  Unchained(r, Step(m, op, r))
<1>1. Step(m, op, r) = IF Present(r) THEN [r EXCEPT !.is = "shipped", !.patch = {}] ELSE r
  BY Zenon DEF Step
<1>. QED BY <1>1, ZenonT(30) DEF Unchained, Row, Present


\* The operations of the lists, but for the one that always raises.
Doings == Seeding \union Erasing \union Quiet \union {"disable", "opt_in", "policy", "reset"}
\* A row that is not there is not enabled.
Sound(r) == ~Present(r) => ~r.on

\* What one operation that does not raise makes of a row.
Stepped(op, r, s) ==
  /\ s \in Row /\ Sound(s)
  /\ s.on => r.on \/ Lights(op)
  /\ s.on /\ Present(r) => r.on \/ Relights(op)
  /\ s.on /\ op.do \notin Seeding => r.on \/ r.used
  /\ op.do \in {"delete", "disable", "wipe"} => ~s.on
  /\ Present(r) /\ op.do \notin Erasing => Present(s)
  /\ s.used => r.used
  /\ r.used /\ op.do \notin Seeding => s.used
  /\ r.used /\ Present(r) => s.used /\ (op.do # "wipe" => Present(s))
  /\ op.do \in {"opt_in", "policy", "unpatch"} /\ r.is = "edited" => s.is = "edited"

\* One operation that does not raise, on a row of the catalogue.
LEMMA StepFacts ==
  ASSUME NEW m \in Ids, NEW op, op.do \in Doings, op.on \in {"on", "off", "kept"},
         NEW r \in Row, NEW s, s = Step(m, op, r), s # Refused, Sound(r)
  PROVE  Stepped(op, r, s)
<1>. USE DEF Stepped
<1>0. /\ "absent" # "shipped" /\ "delete" # "delete_free" /\ "wipe" # "delete_free"
      /\ "disable" # "delete_free"
  BY Zenon
<1>a. /\ Seeding \cap {"delete", "disable", "wipe", "opt_in", "policy", "unpatch"} = {}
      /\ Seeding \cap Erasing = {}
      /\ Quiet \cap (Seeding \union Erasing \union {"disable", "opt_in", "policy", "reset"}) = {}
      /\ {"disable", "opt_in", "policy", "reset"} \cap (Seeding \union Erasing) = {}
  BY DEF Seeding, Erasing, Quiet
<1>1. CASE op.do \in Quiet
  <2>1. s \in Row /\ s.is = r.is /\ s.on = r.on /\ s.used = r.used
    <3>1. Quieted(r, s)
      BY <1>1, QuietSteps, Zenon
    <3>. QED BY <3>1, Zenon DEF Quieted
  <2>2. op.do \notin Seeding /\ op.do \notin {"delete", "disable", "wipe"}
    BY <1>1, Zenon DEF Quiet, Seeding
  <2>. QED BY <2>1, <2>2, Zenon DEF Sound, Present
<1>2. CASE op.do \in Seeding
  <2>1. /\ s \in Row /\ s.is = "shipped"
        /\ s.on => r.on \/ Lights(op)
        /\ s.on /\ Present(r) => r.on \/ Relights(op)
        /\ s.used <=> r.used /\ Present(r)
    <3>1. SeededAs(op, r, s)
      BY <1>2, SeedingSteps, Zenon
    <3>. QED BY <3>1, Zenon DEF SeededAs
  <2>2. Present(s)
    BY <2>1, <1>0, Zenon DEF Present
  <2>3. op.do \notin {"delete", "disable", "wipe", "opt_in", "policy", "unpatch"}
    BY <1>2, <1>a, Zenon
  <2>4. /\ s.used => r.used
        /\ r.used /\ Present(r) => s.used
    BY <2>1, Zenon
  <2>. QED BY <1>2, <2>1, <2>2, <2>3, <2>4, Zenon DEF Sound
<1>3. CASE op.do \in Erasing
  <2>1. op.do \notin Seeding /\ op.do \notin {"disable", "opt_in", "policy", "unpatch"}
    BY <1>3, <1>a, Zenon DEF Erasing
  <2>2. CASE op.do = "delete_free" /\ s = r
    BY <1>3, <2>1, <2>2, <1>0, Zenon DEF Sound
  <2>3. CASE /\ s \in Row /\ s.is = "absent" /\ ~s.on /\ s.used = r.used
             /\ op.do # "wipe" => ~r.used
    BY <1>3, <2>1, <2>3, Zenon DEF Sound
  <2>4. Erased(op, r, s)
    BY <1>3, ErasingSteps, Zenon
  <2>. QED BY <2>2, <2>3, <2>4, Zenon DEF Erased
<1>4. CASE op.do \in {"disable", "opt_in", "policy", "reset"}
  <2>1. op.do \notin Seeding /\ op.do \notin Erasing /\ op.do # "wipe" /\ op.do # "delete"
    BY <1>4, <1>a, Zenon DEF Erasing
  <2>2. CASE op.do = "disable"
    <3>1. Dimmed(r, s)
      BY <2>2, DisableStep, Zenon
    <3>2. op.do \notin {"opt_in", "policy", "unpatch"}
      BY <2>2, Zenon
    <3>. QED BY <2>1, <3>1, <3>2, Zenon DEF Dimmed, Sound, Present
  <2>3. CASE op.do = "opt_in"
    <3>1. Lights(op) /\ Relights(op) /\ op.do # "disable"
      BY <2>3, Zenon DEF Lights, Relights
    <3>2. Opted(r, s)
      BY <2>3, OptInStep, Zenon
    <3>. QED BY <2>1, <3>1, <3>2, Zenon DEF Opted, Sound, Present
  <2>4. CASE op.do = "policy"
    <3>1. op.do # "disable"
      BY <2>4, Zenon
    <3>2. Chained(r, s)
      BY <2>4, PolicyStep, Zenon
    <3>3. r.is = "edited" => Present(r)
      BY Zenon DEF Present
    <3>. QED BY <2>1, <3>1, <3>2, <3>3, Zenon DEF Chained, Sound
  <2>5. CASE op.do = "reset"
    <3>1. op.do # "disable" /\ op.do \notin {"opt_in", "policy", "unpatch"}
      BY <2>5, Zenon
    <3>2. Unchained(r, s)
      BY <2>5, ResetStep, Zenon
    <3>. QED BY <2>1, <3>1, <3>2, Zenon DEF Unchained, Sound
  <2>. QED BY <1>4, <2>2, <2>3, <2>4, <2>5, Zenon
<1>. QED BY <1>1, <1>2, <1>3, <1>4, Zenon DEF Doings

\* The owned families: a row of the operator's is refused, and the column that
\* 0099 and 0100 swap is never swapped in it.
OwnedUp   == {"create", "strict", "loose", "relight", "swap", "swap_all"}
OwnedDown == {"disable", "unswap", "unswap_all"}
Owners(r) == r.is \in {"own", "edited"}
\* The operations of the owned families never touch such a row forwards, and
\* leave no swap in one.
LEMMA OwnedSteps ==
  ASSUME NEW m \in Ids, NEW op, op.do \in OwnedUp \union OwnedDown, op.on \in {"on", "off",
      "kept"},
         NEW r \in Row, NEW s, s = Step(m, op, r), s # Refused, Owners(r) => r.patch = {}
  PROVE  /\ Owners(s) => s.patch = {}
         /\ op.do \in OwnedUp => ~Owners(r)
<1>1. CASE op.do \in {"create", "strict", "loose", "relight"}
  <2>1. op.do \in Seeding /\ op.do # "upsert"
    BY <1>1, Zenon DEF Seeding
  <2>2. SeededAs(op, r, s)
    BY <2>1, SeedingSteps, Zenon
  <2>3. s.is = "shipped" /\ (Present(r) => r.is = "shipped")
    BY <2>1, <2>2, Zenon DEF SeededAs
  <2>. QED BY <2>3, Zenon DEF Owners, Present
<1>2. CASE op.do \in {"swap", "swap_all"}
  <2>1. s = Swapped(m, r, r) \/ s = Swapped(m, r, Refused)
    BY <1>2, Zenon DEF Step
  <2>2. ~Owners(r)
    BY <2>1, Zenon DEF Swapped, Owners, Present
  <2>3. op.do \in Quiet
    BY <1>2, Zenon DEF Quiet
  <2>4. Quieted(r, s)
    BY <2>3, QuietSteps, Zenon
  <2>. QED BY <2>2, <2>4, Zenon DEF Quieted, Owners
<1>3. CASE op.do = "disable"
  <2>1. Dimmed(r, s)
    BY <1>3, DisableStep, Zenon
  <2>. QED BY <1>3, <2>1, Zenon DEF Dimmed, Owners, OwnedUp
<1>4. CASE op.do \in {"unswap", "unswap_all"}
  <2>1. s = Unswapped(m, r, r) \/ s = Unswapped(m, r, Refused)
    BY <1>4, Zenon DEF Step
  <2>2. ~Owners(r)
    BY <2>1, Zenon DEF Unswapped, Owners, Present
  <2>3. op.do \in Quiet
    BY <1>4, Zenon DEF Quiet
  <2>4. Quieted(r, s)
    BY <2>3, QuietSteps, Zenon
  <2>. QED BY <2>2, <2>4, Zenon DEF Quieted, Owners
<1>. QED BY <1>1, <1>2, <1>3, <1>4, Zenon DEF OwnedUp, OwnedDown

-----------------------------------------------------------------------------
(* What the list of a migration does to a row.                             *)

\* What ListsAssumption says of one list.
Listed(ops) ==
  /\ Len(ops) \in 0..2 /\ DOMAIN ops = 1..Len(ops)
  /\ \A k \in DOMAIN ops :
       /\ ops[k].do \in Doings \union {"refuse"}
       /\ ops[k].do = "refuse" => ops[k].rows = {}
       /\ ops[k].on \in {"on", "off", "kept"}
  /\ Len(ops) = 2 /\ ops[1].do \in Erasing => ops[1].rows \intersect ops[2].rows = {}

\* The forward and the reverse list of every migration.
LEMMA ListsAreListed ==
  ASSUME NEW i \in Ids
  PROVE  Listed(Graph[i].up) /\ Listed(Graph[i].down)
<1>1. \A d : d \in Seeding \union Erasing \union Quiet
                   \union {"disable", "opt_in", "policy", "reset", "refuse"}
             => d \in Doings \union {"refuse"}
  BY Zenon DEF Doings
<1>2. ASSUME NEW ops, ops \in {Graph[i].up, Graph[i].down}
      PROVE  Listed(ops)
  BY <1>1, <1>2, ListsAssumption, Zenon DEF Listed
<1>. QED BY <1>2, Zenon

\* The k-th operation of a list passes over row p, or is a step on it.
One(i, ops, k, p, r, s) ==
  \/ s = r /\ (k \notin DOMAIN ops \/ p \notin ops[k].rows)
  \/ /\ k \in DOMAIN ops /\ p \in ops[k].rows /\ s = Step(i, ops[k], r)
     /\ ops[k].do \in Doings /\ ops[k].on \in {"on", "off", "kept"}
\* The k-th operation does one of the two.
LEMMA NthIsOne ==
  ASSUME NEW i, NEW ops, Listed(ops), NEW k \in 1..2, NEW p, NEW r \in Row
  PROVE  One(i, ops, k, p, r, Nth(i, ops, k, p, r))
<1>1. r # Refused
  BY RefusedIsNoRow, Zenon
<1>2. k > Len(ops) <=> k \notin DOMAIN ops
  BY DEF Listed
<1>3. CASE k \notin DOMAIN ops \/ p \notin ops[k].rows
  BY <1>2, <1>3, Zenon DEF One, Nth
<1>4. CASE k \in DOMAIN ops /\ p \in ops[k].rows
  <2>1. ops[k].do \in Doings \union {"refuse"} /\ ops[k].on \in {"on", "off", "kept"}
        /\ (ops[k].do = "refuse" => ops[k].rows = {})
    BY <1>4, Zenon DEF Listed
  <2>2. ops[k].do \in Doings
    BY <1>4, <2>1, Zenon
  <2>3. Nth(i, ops, k, p, r) = Step(i, ops[k], r)
    BY <1>1, <1>2, <1>4, Zenon DEF Nth
  <2>. QED BY <1>4, <2>1, <2>2, <2>3, Zenon DEF One
<1>. QED BY <1>3, <1>4, Zenon

\* From row r to row s by operations of O.
Moved(O, r, s) ==
  /\ s \in Row /\ Sound(s)
  /\ s.on => r.on \/ \E op \in O : Lights(op)
  /\ s.on /\ Present(r) => r.on \/ \E op \in O : Relights(op)
  /\ s.on /\ (\A op \in O : op.do \notin Seeding) => r.on \/ r.used
  /\ s.used => r.used
  /\ r.used /\ (\A op \in O : op.do \notin Seeding) => s.used
  /\ r.used /\ Present(r) /\ (\A op \in O : op.do # "wipe") => s.used /\ Present(s)
  /\ r.is = "edited" /\ (\A op \in O : op.do \in {"opt_in", "policy", "unpatch"})
       => s.is = "edited"

\* One operation of the list, seen as one of those that name the row.
LEMMA OneMoves ==
  ASSUME NEW i \in Ids, NEW ops, NEW k, NEW p, NEW r \in Row, Sound(r),
         NEW s, s # Refused, One(i, ops, k, p, r, s)
  PROVE  Moved(Named(ops, p), r, s)
<1>1. CASE s = r
  BY <1>1, Zenon DEF Moved
<1>2. CASE /\ k \in DOMAIN ops /\ p \in ops[k].rows /\ s = Step(i, ops[k], r)
           /\ ops[k].do \in Doings /\ ops[k].on \in {"on", "off", "kept"}
  <2>. DEFINE op == ops[k]
  <2>1. op \in Named(ops, p)
    BY <1>2, Zenon DEF Named
  <2>2. Stepped(op, r, s)
    BY <1>2, StepFacts, Zenon
  <2>. HIDE DEF op
  <2>. QED BY <2>1, <2>2, Zenon DEF Moved, Stepped
<1>. QED BY <1>1, <1>2, Zenon DEF One

\* Two moves make one, if a row that the first one erased is left alone.
LEMMA MovesCompose ==
  ASSUME NEW O, NEW r, NEW t, NEW s, Moved(O, r, t), Moved(O, t, s),
         Present(r) /\ ~Present(t) => s = t
  PROVE  Moved(O, r, s)
<1>1. /\ s \in Row /\ Sound(s)
      /\ s.on => r.on \/ \E op \in O : Lights(op)
      /\ s.used => r.used
  BY Zenon DEF Moved
<1>2. s.on /\ Present(r) => r.on \/ \E op \in O : Relights(op)
  BY Zenon DEF Moved
<1>3. s.on /\ (\A op \in O : op.do \notin Seeding) => r.on \/ r.used
  BY Zenon DEF Moved
<1>4. r.used /\ (\A op \in O : op.do \notin Seeding) => s.used
  BY Zenon DEF Moved
<1>5. r.used /\ Present(r) /\ (\A op \in O : op.do # "wipe") => s.used /\ Present(s)
  BY Zenon DEF Moved
<1>6. r.is = "edited" /\ (\A op \in O : op.do \in {"opt_in", "policy", "unpatch"})
        => s.is = "edited"
  BY Zenon DEF Moved
<1>. QED BY <1>1, <1>2, <1>3, <1>4, <1>5, <1>6, Zenon DEF Moved

\* A list that does not raise goes through one row between its two operations.
LEMMA RunSplits ==
  ASSUME NEW i \in Ids, NEW ops, Listed(ops), NEW p, NEW r \in Row, Sound(r),
         NEW s, s = Run(i, ops, p, r), s # Refused
  PROVE  \E t \in Row : /\ t # Refused /\ Sound(t)
                        /\ One(i, ops, 1, p, r, t) /\ One(i, ops, 2, p, t, s)
<1>. DEFINE t == Nth(i, ops, 1, p, r)
<1>1. s = Nth(i, ops, 2, p, t)
  BY Zenon DEF Run
<1>2. t # Refused
  BY <1>1, Zenon DEF Nth
<1>3. 1 \in 1..2 /\ 2 \in 1..2
  OBVIOUS
<1>4. One(i, ops, 1, p, r, t)
  BY <1>3, NthIsOne, Zenon
<1>5. t \in Row /\ Sound(t)
  BY <1>2, <1>4, OneMoves, Zenon DEF Moved
<1>6. One(i, ops, 2, p, t, s)
  BY <1>1, <1>3, <1>5, NthIsOne, Zenon
<1>. QED BY <1>2, <1>4, <1>5, <1>6, Zenon

\* What the list of a migration leaves of a row.
Ran(ops, p, r, s) ==
  /\ Moved(Named(ops, p), r, s)
  /\ Darkens(ops, p) => ~s.on
  /\ Named(ops, p) = {} => s = r
\* What the list of a migration leaves of a row.
LEMMA RunMoves ==
  ASSUME NEW i \in Ids, NEW ops, Listed(ops), NEW p, NEW r \in Row, Sound(r),
         NEW s, s = Run(i, ops, p, r), s # Refused
  PROVE  Ran(ops, p, r, s)
<1>1. PICK t \in Row : /\ t # Refused /\ Sound(t)
                       /\ One(i, ops, 1, p, r, t) /\ One(i, ops, 2, p, t, s)
  BY RunSplits, Zenon
<1>2. Moved(Named(ops, p), r, t) /\ Moved(Named(ops, p), t, s)
  BY <1>1, OneMoves, Zenon
<1>3. Present(r) /\ ~Present(t) => s = t
  <2>. SUFFICES ASSUME Present(r), ~Present(t)
                PROVE  s = t
    BY Zenon
  <2>1. /\ 1 \in DOMAIN ops /\ p \in ops[1].rows /\ t = Step(i, ops[1], r)
        /\ ops[1].do \in Doings /\ ops[1].on \in {"on", "off", "kept"}
    BY <1>1, Zenon DEF One
  <2>2. ops[1].do \in Erasing
    <3>1. Stepped(ops[1], r, t)
      BY <1>1, <2>1, StepFacts, Zenon
    <3>. QED BY <3>1, Zenon DEF Stepped
  <2>3. 2 \in DOMAIN ops => Len(ops) = 2
    BY DEF Listed
  <2>4. 2 \in DOMAIN ops => p \notin ops[2].rows
    BY <2>1, <2>2, <2>3, Zenon DEF Listed
  <2>. QED BY <1>1, <2>4, Zenon DEF One
<1>4. Moved(Named(ops, p), r, s)
  BY <1>2, <1>3, MovesCompose, Zenon
<1>5. ASSUME Darkens(ops, p)
      PROVE  ~s.on
  <2>1. PICK k \in DOMAIN ops :
          /\ p \in ops[k].rows /\ ops[k].do \in {"delete", "disable", "wipe"}
          /\ \A n \in DOMAIN ops : n > k => p \notin ops[n].rows
    BY <1>5, Zenon DEF Darkens
  <2>2. k = 1 \/ k = 2
    BY DEF Listed
  <2>3. CASE k = 1
    <3>0. Stepped(ops[1], r, t)
      BY <1>1, <2>1, <2>3, StepFacts, Zenon DEF One
    <3>1. ~t.on
      BY <2>1, <2>3, <3>0, Zenon DEF Stepped
    <3>2. 2 \in DOMAIN ops => p \notin ops[2].rows
      BY <2>1, <2>3
    <3>. QED BY <1>1, <3>1, <3>2, Zenon DEF One
  <2>4. CASE k = 2
    <3>1. Stepped(ops[2], t, s)
      BY <1>1, <2>1, <2>4, StepFacts, Zenon DEF One
    <3>. QED BY <2>1, <2>4, <3>1, Zenon DEF Stepped
  <2>. QED BY <2>2, <2>3, <2>4, Zenon
<1>6. ASSUME Named(ops, p) = {}
      PROVE  s = r
  <2>1. \A k \in DOMAIN ops : p \notin ops[k].rows
    BY <1>6, Zenon DEF Named
  <2>. QED BY <1>1, <2>1, Zenon DEF One
<1>. QED BY <1>4, <1>5, <1>6, Zenon DEF Ran

\* A row of the operator's is left alone forwards.
OwnedRun(ops, p, r, s) ==
  /\ Owners(s) => s.patch = {}
  /\ (\A op \in Named(ops, p) : op.do \in OwnedUp) /\ Owners(r) => s = r
\* The list of a migration of the owned families, forwards and backwards.
LEMMA RunOwned ==
  ASSUME NEW i \in Ids, NEW ops, Listed(ops), NEW p, NEW r \in Row, Sound(r),
         NEW s, s = Run(i, ops, p, r), s # Refused,
         \A op \in Named(ops, p) : op.do \in OwnedUp \union OwnedDown,
         Owners(r) => r.patch = {}
  PROVE  OwnedRun(ops, p, r, s)
<1>1. PICK t \in Row : /\ t # Refused /\ Sound(t)
                       /\ One(i, ops, 1, p, r, t) /\ One(i, ops, 2, p, t, s)
  BY RunSplits, Zenon
<1>2. ASSUME NEW k, NEW a \in Row, NEW b, b # Refused, One(i, ops, k, p, a, b),
             Owners(a) => a.patch = {}
      PROVE  /\ Owners(b) => b.patch = {}
             /\ (\A op \in Named(ops, p) : op.do \in OwnedUp) /\ Owners(a) => b = a
  <2>1. CASE b = a
    BY <1>2, <2>1, Zenon
  <2>2. CASE /\ k \in DOMAIN ops /\ p \in ops[k].rows /\ b = Step(i, ops[k], a)
             /\ ops[k].do \in Doings /\ ops[k].on \in {"on", "off", "kept"}
    <3>1. ops[k] \in Named(ops, p)
      BY <2>2, Zenon DEF Named
    <3>2. /\ Owners(b) => b.patch = {}
          /\ ops[k].do \in OwnedUp => ~Owners(a)
      BY <1>2, <2>2, <3>1, OwnedSteps, Zenon
    <3>. QED BY <3>1, <3>2, Zenon
  <2>. QED BY <1>2, <2>1, <2>2, Zenon DEF One
<1>3. /\ Owners(t) => t.patch = {}
      /\ (\A op \in Named(ops, p) : op.do \in OwnedUp) /\ Owners(r) => t = r
  BY <1>1, <1>2, Zenon
<1>4. Owners(s) => s.patch = {}
  BY <1>1, <1>2, <1>3
<1>5. (\A op \in Named(ops, p) : op.do \in OwnedUp) /\ Owners(t) => s = t
  BY <1>1, <1>2, <1>3, Zenon
<1>. QED BY <1>3, <1>4, <1>5, Zenon DEF OwnedRun

-----------------------------------------------------------------------------
(* The invariant.                                                          *)

\* The first edition of 0060 enabled its row, until 0061 disabled it.
Excepted(p, a) == p = "env_file.upsert_var" /\ lit0060 /\ "M0061" \notin a
\* Why row p, which is r, may be enabled: the operator chose w, a is applied.
Reasoned(p, r, w, a) ==
  \/ w = "on"
  \/ p = "settings" /\ r.used
  \/ p # "settings" /\ \E i \in a : Named(Graph[i].up, p) # {}
  \/ p \in DOMAIN (Pterodactyl @@ Minecraft)
  \/ Excepted(p, a)
\* What holds of a row on its own.
RowInvariant(p, r, w, a) ==
  /\ ~Present(r) => ~r.on /\ w = "none"
  /\ r.used => p = "settings" \/ (p \in DOMAIN Procedures /\ Present(r))
  /\ p \in DOMAIN Owned /\ Owners(r) => r.patch = {}
  /\ p \in Unlit /\ r.on => w = "on" \/ Excepted(p, a)
  /\ r.on => Reasoned(p, r, w, a)
  /\ p \notin DOMAIN Overriding /\ w = "off" /\ r.on => p = "env_file.upsert_var" /\ lit0060

CatalogueTypes ==
  /\ applied \subseteq Ids /\ watch \in Watches
  /\ cat \in [watch -> Row] /\ will \in [watch -> {"none", "on", "off"}]
  /\ lit0060 \in BOOLEAN /\ (lit0060 => "env_file.upsert_var" \in watch)
\* A migration is applied after everything it depends on.
Closed(a) == \A i \in a : Ancestors[i] \subseteq a
CatalogueInvariant ==
  /\ CatalogueTypes
  /\ Closed(applied)
  /\ \A p \in watch : RowInvariant(p, cat[p], will[p], applied)

\* The invariant gives the property.
LEMMA InvariantLights ==
  CatalogueInvariant => LitForAReason
<1>. SUFFICES ASSUME CatalogueInvariant
              PROVE  LitForAReason
  BY Zenon
<1>1. DarkUntilLit
  BY LightAssumption, Zenon DEF CatalogueInvariant, RowInvariant, Excepted, DarkUntilLit
<1>2. EnabledForAReason
  BY Zenon DEF CatalogueInvariant, RowInvariant, Reasoned, Excepted, EnabledForAReason
<1>3. OffStaysOff
  BY Zenon DEF CatalogueInvariant, RowInvariant, OffStaysOff
<1>. QED BY <1>1, <1>2, <1>3, Zenon DEF LitForAReason

\* Rows that are followed are rows of the catalogue.
LEMMA WatchedRows ==
  ASSUME CatalogueTypes, NEW p \in watch
  PROVE  /\ p \in DOMAIN Catalogue
         /\ cat[p] \in Row /\ will[p] \in {"none", "on", "off"}
BY WatchAssumption, Zenon DEF CatalogueTypes

\* The graph: a migration that is reversed is below no applied one, and one that
\* is applied comes after its ancestors.
LEMMA ClosedUnder ==
  ASSUME applied \subseteq Ids, Closed(applied)
  PROVE  /\ \A i \in Ready : Closed(applied \union {i})
         /\ \A i \in Tips : Closed(applied \ {i}) /\ i \notin Ancestors[i]
<1>1. ASSUME NEW i \in Ready
      PROVE  Closed(applied \union {i})
  <2>1. i \in Ids /\ Graph[i].needs \subseteq applied
    BY <1>1, Zenon DEF Ready
  <2>2. Ancestors[i] = UNION {{j} \union Ancestors[j] : j \in Graph[i].needs}
    BY <2>1, GraphAssumption, Zenon
  <2>3. Ancestors[i] \subseteq applied
    <3>. SUFFICES ASSUME NEW x \in Ancestors[i]
                  PROVE  x \in applied
      BY Zenon
    <3>1. PICK j \in Graph[i].needs : x \in {j} \union Ancestors[j]
      BY <2>2, Zenon
    <3>. QED BY <2>1, <3>1, Zenon DEF Closed
  <2>. QED BY <2>3, Zenon DEF Closed
<1>2. ASSUME NEW i \in Tips, NEW j \in applied, i \in Ancestors[j]
      PROVE  FALSE
  <2>1. \A k \in applied : i \notin Graph[k].needs
    BY <1>2, Zenon DEF Tips
  <2>2. PICK k \in {j} \union Ancestors[j] : i \in Graph[k].needs
    BY <1>2, GraphAssumption, Zenon
  <2>3. k \in applied
    BY <2>2, Zenon DEF Closed
  <2>. QED BY <2>1, <2>2, <2>3, Zenon
<1>3. ASSUME NEW i \in Tips
      PROVE  Closed(applied \ {i}) /\ i \notin Ancestors[i]
  <2>1. i \in applied
    BY <1>3, Zenon DEF Tips
  <2>. QED BY <1>2, <2>1, Zenon DEF Closed
<1>. QED BY <1>1, <1>3, Zenon

\* A row r that has become s, where the operator's choice is now v.
Kept(p, r, s, v, a) ==
  /\ s \in Row
  /\ ~Present(s) => ~s.on /\ v = "none"
  /\ s.used => p = "settings" \/ (p \in DOMAIN Procedures /\ Present(s))
  /\ r.used => s.used /\ (p \in DOMAIN Procedures => Present(s))
  /\ p \in DOMAIN Owned /\ Owners(s) => s.patch = {}
  /\ p \in Unlit /\ s.on => r.on /\ (v = "on" \/ Excepted(p, a))
  /\ p = "settings" /\ s.on => Reasoned(p, s, v, a)
  /\ p \notin DOMAIN Overriding /\ v = "off" /\ s.on => p = "env_file.upsert_var" /\ lit0060
\* What both directions of a migration keep of a row: everything but the reason
\* why it is enabled.
LEMMA ListKeeps ==
  ASSUME NEW i \in Ids, NEW p \in DOMAIN Catalogue, NEW a, NEW ops,
         ops \in {Graph[i].up, Graph[i].down},
         NEW r \in Row, NEW w, RowInvariant(p, r, w, a),
         NEW s, s = Run(i, ops, p, r), s # Refused,
         NEW v, v = (IF Present(s) THEN w ELSE "none")
  PROVE  Kept(p, r, s, v, a)
<1>1. Listed(ops) /\ Sound(r)
  BY ListsAreListed, Zenon DEF RowInvariant, Sound
<1>2. Moved(Named(ops, p), r, s)
  <2>1. Ran(ops, p, r, s)
    BY <1>1, RunMoves, Zenon
  <2>. QED BY <2>1, Zenon DEF Ran
<1>3. \A op \in Named(ops, p) : op \in Ops(i, p)
  BY Zenon DEF Ops
<1>4. s \in Row /\ (~Present(s) => ~s.on /\ v = "none")
  BY <1>2, Zenon DEF Moved, Sound
<1>5. s.on => Present(s) /\ v = w
  BY <1>4, Zenon
<1>6. r.used => s.used /\ (p \in DOMAIN Procedures => Present(s))
  <2>. SUFFICES ASSUME r.used
                PROVE  s.used /\ (p \in DOMAIN Procedures => Present(s))
    BY Zenon
  <2>1. CASE p = "settings"
    <3>1. \A op \in Named(ops, p) : op.do \notin Seeding
      BY <1>3, <2>1, LightAssumption, Zenon
    <3>. QED BY <1>2, <2>1, <3>1, KeepAssumption, Zenon DEF Moved
  <2>2. CASE p \in DOMAIN Procedures /\ Present(r)
    <3>1. \A op \in Named(ops, p) : op.do # "wipe"
      BY <1>3, <2>2, KeepAssumption, Zenon
    <3>. QED BY <1>2, <2>2, <3>1, Zenon DEF Moved
  <2>. QED BY <2>1, <2>2, Zenon DEF RowInvariant
<1>7. s.used => p = "settings" \/ (p \in DOMAIN Procedures /\ Present(s))
  <2>1. s.used => r.used
    BY <1>2, Zenon DEF Moved
  <2>. QED BY <1>6, <2>1, Zenon DEF RowInvariant
<1>8. p \in DOMAIN Owned /\ Owners(s) => s.patch = {}
  <2>. SUFFICES ASSUME p \in DOMAIN Owned, Owners(s)
                PROVE  s.patch = {}
    BY Zenon
  <2>1. \A op \in Named(ops, p) : op.do \in OwnedUp \union OwnedDown
    BY KeepAssumption, Zenon DEF OwnedUp, OwnedDown
  <2>2. Owners(r) => r.patch = {}
    BY Zenon DEF RowInvariant
  <2>3. OwnedRun(ops, p, r, s)
    BY <1>1, <2>1, <2>2, RunOwned, Zenon
  <2>. QED BY <2>3, Zenon DEF OwnedRun
<1>9. p \in Unlit /\ s.on => r.on /\ (v = "on" \/ Excepted(p, a))
  <2>1. p \in Unlit => \A op \in Named(ops, p) : ~Lights(op)
    BY <1>3, Zenon DEF Unlit
  <2>2. p \in Unlit /\ s.on => r.on
    BY <1>2, <2>1, Zenon DEF Moved
  <2>. QED BY <1>5, <2>2, Zenon DEF RowInvariant
<1>10. p = "settings" /\ s.on => Reasoned(p, s, v, a)
  <2>. SUFFICES ASSUME p = "settings", s.on
                PROVE  Reasoned(p, s, v, a)
    BY Zenon
  <2>1. \A op \in Named(ops, p) : op.do \notin Seeding
    BY <1>3, LightAssumption, Zenon
  <2>2. r.on \/ r.used
    BY <1>2, <2>1, Zenon DEF Moved
  <2>3. CASE r.used
    BY <1>6, <2>3, Zenon DEF Reasoned
  <2>4. CASE r.on
    <3>1. Reasoned(p, r, w, a)
      BY <2>4, Zenon DEF RowInvariant
    <3>. QED BY <1>5, <1>6, <3>1, Zenon DEF Reasoned
  <2>. QED BY <2>2, <2>3, <2>4, Zenon
<1>11. p \notin DOMAIN Overriding /\ v = "off" /\ s.on => p = "env_file.upsert_var" /\ lit0060
  <2>. SUFFICES ASSUME p \notin DOMAIN Overriding, v = "off", s.on
                PROVE  p = "env_file.upsert_var" /\ lit0060
    BY Zenon
  <2>1. \A op \in Named(ops, p) : ~Relights(op)
    BY <1>3, LightAssumption, Zenon
  <2>2. w = "off"
    BY <1>5, Zenon
  <2>3. Present(r)
    <3>1. "off" # "none"
      BY Zenon
    <3>. QED BY <2>2, <3>1, Zenon DEF RowInvariant
  <2>4. r.on
    BY <1>2, <2>1, <2>3, Zenon DEF Moved
  <2>. QED BY <2>2, <2>4, Zenon DEF RowInvariant
<1>. QED BY <1>4, <1>6, <1>7, <1>8, <1>9, <1>10, <1>11, Zenon DEF Kept

\* A migration applied: the row keeps its invariant.
LEMMA UpKeeps ==
  ASSUME NEW i \in Ids, NEW p \in DOMAIN Catalogue, NEW a,
         NEW r \in Row, NEW w, RowInvariant(p, r, w, a),
         NEW s, s = Run(i, Graph[i].up, p, r), s # Refused,
         NEW v, v = (IF Present(s) THEN w ELSE "none")
  PROVE  RowInvariant(p, s, v, a \union {i})
<1>. DEFINE ops == Graph[i].up
<1>0. ops \in {Graph[i].up, Graph[i].down} /\ Listed(ops) /\ Sound(r)
  BY ListsAreListed, Zenon DEF RowInvariant, Sound
<1>. HIDE DEF ops
<1>a. Kept(p, r, s, v, a)
  BY <1>0, ListKeeps, Zenon DEF ops
<1>b. Ran(ops, p, r, s)
  BY <1>0, RunMoves, Zenon DEF ops
<1>1. /\ s \in Row
      /\ ~Present(s) => ~s.on /\ v = "none"
      /\ s.used => p = "settings" \/ (p \in DOMAIN Procedures /\ Present(s))
      /\ p \in DOMAIN Owned /\ Owners(s) => s.patch = {}
      /\ p \in Unlit /\ s.on => r.on /\ (v = "on" \/ Excepted(p, a))
      /\ p = "settings" /\ s.on => Reasoned(p, s, v, a)
      /\ p \notin DOMAIN Overriding /\ v = "off" /\ s.on => p = "env_file.upsert_var" /\ lit0060
  BY <1>a, Zenon DEF Kept
<1>2. s.on /\ Excepted(p, a) => Excepted(p, a \union {i})
  <2>1. Darkens(ops, p) => ~s.on
    BY <1>b, Zenon DEF Ran
  <2>2. i = "M0061" /\ p = "env_file.upsert_var" => Darkens(ops, p)
    BY EnvFileAssumption, Zenon DEF ops
  <2>. QED BY <2>1, <2>2, Zenon DEF Excepted
<1>3. s.on /\ Reasoned(p, s, v, a) => Reasoned(p, s, v, a \union {i})
  BY <1>2, Zenon DEF Reasoned
<1>4. s.on => Reasoned(p, s, v, a \union {i})
  <2>. SUFFICES ASSUME s.on
                PROVE  Reasoned(p, s, v, a \union {i})
    BY Zenon
  <2>1. CASE p = "settings"
    BY <1>1, <1>3, <2>1, Zenon
  <2>2. CASE p # "settings" /\ Named(ops, p) # {}
    BY <2>2, Zenon DEF Reasoned, ops
  <2>3. CASE p # "settings" /\ Named(ops, p) = {}
    <3>1. s = r
      BY <1>b, <2>3, Zenon DEF Ran
    <3>2. v = w
      BY <1>1, Zenon
    <3>3. Reasoned(p, s, v, a)
      BY <3>1, <3>2, Zenon DEF RowInvariant
    <3>. QED BY <1>3, <3>3, Zenon
  <2>. QED BY <2>1, <2>2, <2>3, Zenon
<1>. QED BY <1>1, <1>2, <1>4, Zenon DEF RowInvariant

\* A migration reversed: the row keeps its invariant.
LEMMA DownKeeps ==
  ASSUME NEW i \in Ids, NEW p \in DOMAIN Catalogue, NEW a,
         Ancestors[i] \subseteq a, i \notin Ancestors[i], Graph[i].down # Irreversible,
         NEW r \in Row, NEW w, RowInvariant(p, r, w, a),
         NEW s, s = Run(i, Graph[i].down, p, r), s # Refused,
         NEW v, v = (IF Present(s) THEN w ELSE "none")
  PROVE  RowInvariant(p, s, v, a \ {i})
<1>. DEFINE ops == Graph[i].down
<1>0. ops \in {Graph[i].up, Graph[i].down} /\ Listed(ops) /\ Sound(r)
  BY ListsAreListed, Zenon DEF RowInvariant, Sound
<1>. HIDE DEF ops
<1>a. Kept(p, r, s, v, a)
  BY <1>0, ListKeeps, Zenon DEF ops
<1>b. Ran(ops, p, r, s)
  BY <1>0, RunMoves, Zenon DEF ops
<1>1. /\ s \in Row
      /\ ~Present(s) => ~s.on /\ v = "none"
      /\ s.used => p = "settings" \/ (p \in DOMAIN Procedures /\ Present(s))
      /\ p \in DOMAIN Owned /\ Owners(s) => s.patch = {}
      /\ p \in Unlit /\ s.on => r.on /\ (v = "on" \/ Excepted(p, a))
      /\ p = "settings" /\ s.on => Reasoned(p, s, v, a)
      /\ p \notin DOMAIN Overriding /\ v = "off" /\ s.on => p = "env_file.upsert_var" /\ lit0060
  BY <1>a, Zenon DEF Kept
<1>2. Excepted(p, a) => Excepted(p, a \ {i})
  BY Zenon DEF Excepted
<1>3. p = "settings" /\ Reasoned(p, s, v, a) => Reasoned(p, s, v, a \ {i})
  BY <1>2, Zenon DEF Reasoned
<1>4. s.on => Reasoned(p, s, v, a \ {i})
  <2>. SUFFICES ASSUME s.on
                PROVE  Reasoned(p, s, v, a \ {i})
    BY Zenon
  <2>0. Moved(Named(ops, p), r, s) /\ ~Darkens(ops, p)
    BY <1>b, Zenon DEF Ran
  <2>1. CASE p = "settings"
    BY <1>1, <1>3, <2>1, Zenon
  <2>2. CASE p \in Unlit
    BY <1>1, <1>2, <2>2, Zenon DEF Reasoned
  <2>3. CASE p \in DOMAIN (Pterodactyl @@ Minecraft)
    BY <2>3, Zenon DEF Reasoned
  <2>4. CASE p # "settings" /\ Named(Graph[i].up, p) = {}
    <3>1. \A op \in Named(ops, p) : ~Lights(op)
      BY <2>4, LightAssumption, Zenon DEF ops
    <3>2. r.on /\ v = w
      BY <1>1, <2>0, <3>1, Zenon DEF Moved
    <3>3. Reasoned(p, r, w, a)
      BY <3>2, Zenon DEF RowInvariant
    <3>. QED BY <1>2, <2>4, <3>2, <3>3, Zenon DEF Reasoned
  <2>5. CASE p # "settings" /\ \E j \in Ancestors[i] : Named(Graph[j].up, p) # {}
    <3>1. PICK j \in Ancestors[i] : Named(Graph[j].up, p) # {}
      BY <2>5, Zenon
    <3>2. j \in a \ {i}
      BY <3>1, Zenon
    <3>. QED BY <2>5, <3>1, <3>2, Zenon DEF Reasoned
  <2>. QED BY <2>0, <2>1, <2>2, <2>3, <2>4, <2>5, LightAssumption, Zenon DEF ops
<1>. QED BY <1>1, <1>2, <1>4, Zenon DEF RowInvariant

\* The seed of 0060 leaves its row there, and never raises.
LEMMA EnvFileSeeded ==
  ASSUME NEW r \in Row, Sound(r)
  PROVE  LET s == Run("M0060", Graph["M0060"].up, "env_file.upsert_var", r)
         IN  s \in Row /\ s # Refused /\ s.is = "shipped"
<1>. DEFINE ops == Graph["M0060"].up
            p == "env_file.upsert_var"
            t == Nth("M0060", ops, 1, p, r)
            s == Nth("M0060", ops, 2, p, t)
<1>1. "M0060" \in Ids
  BY EnvFileAssumption, GraphAssumption, Zenon
<1>2. Listed(ops)
  BY <1>1, ListsAreListed, Zenon
<1>3. PICK k \in DOMAIN ops : p \in ops[k].rows /\ ops[k].do = "upsert"
  BY EnvFileAssumption, Zenon DEF Named
<1>4. k = 1 /\ 2 \notin DOMAIN ops /\ 1 \in 1..2 /\ 2 \in 1..2
  BY <1>2, EnvFileAssumption DEF Listed
<1>5. One("M0060", ops, 1, p, r, t)
  BY <1>2, <1>4, NthIsOne, Zenon
<1>6. t = Step("M0060", ops[1], r) /\ ops[1].on \in {"on", "off", "kept"}
  BY <1>3, <1>4, <1>5, Zenon DEF One
<1>7. ops[1].do \in Seeding
  BY <1>3, <1>4, Zenon DEF Seeding
<1>8. t # Refused
  <2>1. t = Upserted(ops[1], r)
    BY <1>3, <1>4, <1>6, ZenonT(30) DEF Step
  <2>. HIDE DEF ops, t
  <2>2. t.is = "shipped"
    BY <2>1, Zenon DEF Upserted, Fresh, Absent, Row
  <2>. QED BY <2>2, Zenon DEF Refused, Absent
<1>9. SeededAs(ops[1], r, t)
  BY <1>1, <1>6, <1>7, SeedingSteps, Zenon
<1>10. t \in Row /\ t.is = "shipped"
  BY <1>8, <1>9, Zenon DEF SeededAs
<1>11. s = t
  <2>1. One("M0060", ops, 2, p, t, s)
    BY <1>2, <1>4, <1>10, NthIsOne, Zenon
  <2>. QED BY <1>4, <2>1, Zenon DEF One
<1>12. Run("M0060", ops, p, r) = s
  BY Zenon DEF Run
<1>. QED BY <1>8, <1>10, <1>11, <1>12, Zenon

\* Its row, enabled, keeps the invariant while 0061 is not applied.
LEMMA EnvFileKeeps ==
  ASSUME NEW a, "M0061" \notin a, lit0060, NEW p, p = "env_file.upsert_var",
         NEW w, NEW s \in Row, s.is = "shipped", RowInvariant(p, s, w, a)
  PROVE  [s EXCEPT !.on = TRUE] \in Row /\ RowInvariant(p, [s EXCEPT !.on = TRUE], w, a)
<1>. DEFINE x == [s EXCEPT !.on = TRUE]
<1>1. x \in Row /\ x.is = "shipped" /\ x.used = s.used /\ x.patch = s.patch
  BY Zenon DEF Row
<1>. HIDE DEF x
<1>2. Present(x) /\ Present(s) /\ ~Owners(x)
  BY <1>1, Zenon DEF Present, Owners
<1>3. Excepted(p, a)
  BY Zenon DEF Excepted
<1>4. RowInvariant(p, x, w, a)
  BY <1>1, <1>2, <1>3, Zenon DEF RowInvariant, Reasoned
<1>. QED BY <1>1, <1>4, Zenon DEF x

-----------------------------------------------------------------------------
(* The steps.                                                              *)

\* What KeptByMigrations says of row p.
KeptRow(p) ==
  /\ cat[p].used => cat'[p].used /\ (p \in DOMAIN Procedures => Present(cat'[p]))
  /\ applied' # applied /\ applied \subseteq applied' /\ p \in DOMAIN Owned
       /\ cat[p].is \in {"own", "edited"} => cat'[p] = cat[p]
  /\ p \in DOMAIN Settings /\ cat[p].is = "edited" /\ "policy" \in Columns'
       => cat'[p].is = "edited"

\* The case in which the first edition of 0060 enables row p.
Lit(i, p) == i = "M0060" /\ lit0060 /\ p = "env_file.upsert_var"

\* Forwards, a row is what the list of the migration makes of it.
LEMMA ForwardRow ==
  ASSUME CatalogueInvariant, NEW i \in Ready, Apply(i), NEW p \in watch
  PROVE  LET s == Run(i, Graph[i].up, p, cat[p])
         IN  /\ s # Refused
             /\ Lit(i, p) => cat'[p] = [s EXCEPT !.on = TRUE] /\ s.is = "shipped" /\ s \in Row
             /\ ~Lit(i, p) => cat'[p] = s
             /\ will'[p] = IF Present(s) THEN will[p] ELSE "none"
<1>. DEFINE s == Run(i, Graph[i].up, p, cat[p])
            rows == After(i, Graph[i].up)
<1>0. CatalogueTypes /\ cat[p] \in Row /\ Sound(cat[p])
  BY WatchedRows, Zenon DEF CatalogueInvariant, RowInvariant, Sound
<1>1. rows[p] = s /\ rows = [q \in watch |-> Run(i, Graph[i].up, q, cat[q])]
  BY Zenon DEF After
<1>2. /\ cat' = Forward(i) /\ cat'[p] # Refused
      /\ will' = [q \in watch |-> IF Present(cat'[q]) THEN will[q] ELSE "none"]
  BY Zenon DEF Apply, Raises, Remember
<1>. HIDE DEF s, rows
<1>3. CASE Lit(i, p)
  <2>1. s # Refused /\ s.is = "shipped" /\ s \in Row
    BY <1>0, <1>3, EnvFileSeeded, Zenon DEF Lit, s
  <2>2. cat' = [rows EXCEPT !["env_file.upsert_var"].on = TRUE]
    BY <1>2, <1>3, Zenon DEF Forward, Lit, rows
  <2>3. cat'[p] = [s EXCEPT !.on = TRUE]
    BY <1>1, <1>3, <2>2, Zenon DEF Lit
  <2>4. Present(cat'[p]) /\ Present(s)
    BY <2>1, <2>3, Zenon DEF Present, Row
  <2>. QED BY <1>2, <1>3, <2>1, <2>3, <2>4, Zenon DEF s
<1>4. CASE ~Lit(i, p)
  <2>1. cat' = rows \/ cat' = [rows EXCEPT !["env_file.upsert_var"].on = TRUE]
    BY <1>2, Zenon DEF Forward, rows
  <2>2. CASE cat' = rows
    BY <1>1, <1>2, <1>4, <2>2, Zenon DEF s
  <2>3. CASE cat' # rows
    <3>1. i = "M0060" /\ lit0060
      BY <1>2, <2>3, Zenon DEF Forward, rows
    <3>2. p # "env_file.upsert_var"
      BY <1>4, <3>1, Zenon DEF Lit
    <3>3. cat'[p] = rows[p]
      BY <1>1, <2>1, <2>3, <3>2, Zenon
    <3>. QED BY <1>1, <1>2, <1>4, <3>3, Zenon DEF s
  <2>. QED BY <2>2, <2>3, Zenon
<1>. QED BY <1>3, <1>4, Zenon

\* Backwards likewise.
LEMMA BackwardRow ==
  ASSUME CatalogueInvariant, NEW i, Unapply(i), NEW p \in watch
  PROVE  LET s == Run(i, Graph[i].down, p, cat[p])
         IN  /\ s # Refused /\ cat'[p] = s
             /\ will'[p] = IF Present(s) THEN will[p] ELSE "none"
BY Zenon DEF Unapply, After, Raises, Remember

\* Applying a migration keeps the invariant of each row.
LEMMA ApplyRow ==
  ASSUME CatalogueInvariant, NEW i \in Ready, Apply(i), NEW p \in watch
  PROVE  /\ cat'[p] \in Row
         /\ RowInvariant(p, cat'[p], will'[p], applied')
         /\ KeptRow(p)
<1>. DEFINE r == cat[p]
            w == will[p]
            s == Run(i, Graph[i].up, p, r)
            v == IF Present(s) THEN w ELSE "none"
<1>1. /\ i \in Ids /\ i \notin applied /\ CatalogueTypes /\ p \in DOMAIN Catalogue
      /\ r \in Row /\ w \in {"none", "on", "off"}
      /\ RowInvariant(p, r, w, applied)
      /\ applied' = applied \union {i}
  BY WatchedRows, Zenon DEF CatalogueInvariant, Ready, Apply
<1>2. /\ s # Refused
      /\ Lit(i, p) => cat'[p] = [s EXCEPT !.on = TRUE] /\ s.is = "shipped" /\ s \in Row
      /\ ~Lit(i, p) => cat'[p] = s
      /\ will'[p] = v
  BY ForwardRow, Zenon
<1>3. Kept(p, r, s, v, applied) /\ RowInvariant(p, s, v, applied \union {i})
  BY <1>1, <1>2, ListKeeps, UpKeeps, Zenon
<1>4. /\ p \in DOMAIN Owned /\ Owners(r) => s = r /\ ~Lit(i, p)
  <2>. SUFFICES ASSUME p \in DOMAIN Owned, Owners(r)
                PROVE  s = r /\ ~Lit(i, p)
    BY Zenon
  <2>1. \A op \in Named(Graph[i].up, p) : op.do \in OwnedUp
    BY <1>1, KeepAssumption, Zenon DEF OwnedUp
  <2>2. \A op \in Named(Graph[i].up, p) : op.do \in OwnedUp \union OwnedDown
    BY <2>1, Zenon
  <2>3. Listed(Graph[i].up) /\ Sound(r) /\ r.patch = {}
    BY <1>1, ListsAreListed, Zenon DEF RowInvariant, Sound
  <2>4. i \in Ids /\ r \in Row /\ s # Refused
    BY <1>1, <1>2, Zenon
  <2>5. s = r
    <3>1. OwnedRun(Graph[i].up, p, r, s)
      BY <2>2, <2>3, <2>4, RunOwned, Zenon
    <3>. QED BY <2>1, <3>1, Zenon DEF OwnedRun
  <2>6. "upsert" \notin OwnedUp
    BY Zenon DEF OwnedUp
  <2>. QED BY <2>1, <2>5, <2>6, EnvFileAssumption, Zenon DEF Lit
<1>5. p \in DOMAIN Settings /\ r.is = "edited" => s.is = "edited" /\ ~Lit(i, p)
  <2>. SUFFICES ASSUME p \in DOMAIN Settings, r.is = "edited"
                PROVE  s.is = "edited" /\ ~Lit(i, p)
    BY Zenon
  <2>1. p = "settings" /\ "settings" # "env_file.upsert_var"
    BY KeepAssumption, Zenon
  <2>2. \A op \in Named(Graph[i].up, p) : op.do \in {"opt_in", "policy", "unpatch"}
    BY <1>1, <2>1, KeepAssumption, Zenon
  <2>3. Listed(Graph[i].up) /\ Sound(r)
    BY <1>1, ListsAreListed, Zenon DEF RowInvariant, Sound
  <2>4. Ran(Graph[i].up, p, r, s)
    BY <1>1, <1>2, <2>3, RunMoves, Zenon
  <2>. QED BY <2>1, <2>2, <2>4, Zenon DEF Lit, Ran, Moved
<1>. HIDE DEF s, v
<1>6. CASE Lit(i, p)
  <2>0. "M0061" \notin applied \union {i}
    <3>1. "M0061" \in applied => "M0060" \in applied
      BY EnvFileAssumption, GraphAssumption DEF CatalogueInvariant, Closed
    <3>. QED BY <1>1, <1>6, <3>1, Zenon DEF Lit
  <2>1. lit0060 /\ p = "env_file.upsert_var"
    BY <1>6, Zenon DEF Lit
  <2>2. cat'[p] \in Row /\ RowInvariant(p, cat'[p], v, applied \union {i})
    <3>1. cat'[p] = [s EXCEPT !.on = TRUE] /\ s \in Row /\ s.is = "shipped"
      BY <1>2, <1>6, Zenon
    <3>2. /\ [s EXCEPT !.on = TRUE] \in Row
          /\ RowInvariant(p, [s EXCEPT !.on = TRUE], v, applied \union {i})
      BY <1>3, <2>0, <2>1, <3>1, EnvFileKeeps, Zenon
    <3>. QED BY <3>1, <3>2, Zenon
  <2>3. cat'[p].used = s.used /\ Present(cat'[p])
    BY <1>2, <1>6, Zenon DEF Row, Present
  <2>4. r.used => cat'[p].used
    BY <1>3, <2>3, Zenon DEF Kept
  <2>5. KeptRow(p)
    BY <1>4, <1>5, <1>6, <2>3, <2>4, Zenon DEF KeptRow, Owners
  <2>. QED BY <1>1, <1>2, <2>2, <2>5, Zenon
<1>7. CASE ~Lit(i, p)
  <2>1. cat'[p] = s
    BY <1>2, <1>7, Zenon
  <2>2. KeptRow(p)
    BY <1>3, <1>4, <1>5, <2>1, Zenon DEF KeptRow, Owners, Kept
  <2>. QED BY <1>1, <1>2, <1>3, <2>1, <2>2, Zenon DEF Kept
<1>. QED BY <1>6, <1>7, Zenon

\* Reversing one does too.
LEMMA UnapplyRow ==
  ASSUME CatalogueInvariant, NEW i \in Tips, Unapply(i), NEW p \in watch
  PROVE  /\ cat'[p] \in Row
         /\ RowInvariant(p, cat'[p], will'[p], applied')
         /\ KeptRow(p)
<1>. DEFINE r == cat[p]
            w == will[p]
            s == Run(i, Graph[i].down, p, r)
            v == IF Present(s) THEN w ELSE "none"
<1>1. /\ i \in applied /\ applied \subseteq Ids /\ i \in Ids
      /\ CatalogueTypes /\ p \in DOMAIN Catalogue
      /\ r \in Row /\ RowInvariant(p, r, w, applied)
      /\ applied' = applied \ {i} /\ Graph[i].down # Irreversible
      /\ Ancestors[i] \subseteq applied
  BY WatchedRows, Zenon DEF CatalogueInvariant, CatalogueTypes, Closed, Tips, Unapply
<1>2. s # Refused /\ cat'[p] = s /\ will'[p] = v
  BY BackwardRow, Zenon
<1>3. i \notin Ancestors[i] /\ Closed(applied \ {i})
  BY <1>1, ClosedUnder, Zenon DEF CatalogueInvariant
<1>4. Kept(p, r, s, v, applied) /\ RowInvariant(p, s, v, applied \ {i})
  BY <1>1, <1>2, <1>3, ListKeeps, DownKeeps, Zenon
<1>5. p \in DOMAIN Settings /\ r.is = "edited" /\ "policy" \in Columns' => s.is = "edited"
  <2>. SUFFICES ASSUME p \in DOMAIN Settings, r.is = "edited", "policy" \in Columns'
                PROVE  s.is = "edited"
    BY Zenon
  <2>1. p = "settings"
    BY KeepAssumption, Zenon
  <2>2. "M0074" \in applied \ {i}
    <3>1. PICK j \in applied \ {i} : "policy" \in Graph[j].adds
      BY <1>1, Zenon DEF Columns
    <3>. QED BY <1>1, <3>1, KeepAssumption, Zenon
  <2>3. i \notin Ancestors["M0074"] \union {"M0074"}
    BY <1>3, <2>2, Zenon DEF Closed
  <2>4. \A op \in Named(Graph[i].down, p) : op.do \in {"opt_in", "policy", "unpatch"}
    BY <1>1, <2>1, <2>3, KeepAssumption, Zenon
  <2>5. Listed(Graph[i].down) /\ Sound(r)
    BY <1>1, ListsAreListed, Zenon DEF RowInvariant, Sound
  <2>6. Ran(Graph[i].down, p, r, s)
    BY <1>1, <1>2, <2>5, RunMoves, Zenon
  <2>. QED BY <2>4, <2>6, Zenon DEF Ran, Moved
<1>6. ~(applied' # applied /\ applied \subseteq applied')
  BY <1>1, Zenon
<1>. HIDE DEF s, v
<1>7. KeptRow(p)
  BY <1>2, <1>4, <1>5, <1>6, Zenon DEF KeptRow, Kept
<1>. QED BY <1>1, <1>2, <1>4, <1>7, Zenon DEF Kept

\* A change by the operator, of one row.
LEMMA ChangeRow ==
  ASSUME CatalogueInvariant, NEW p \in watch, NEW x \in Row, NEW w \in {"none", "on", "off"},
         Change(p, x, w), RowInvariant(p, x, w, applied),
         cat[p].used => x.used /\ (p \in DOMAIN Procedures => Present(x)),
         p \in DOMAIN Settings /\ cat[p].is = "edited" => x.is = "edited"
  PROVE  CatalogueInvariant' /\ \A q \in watch : KeptRow(q)
<1>1. /\ applied' = applied /\ watch' = watch /\ lit0060' = lit0060
      /\ cat' = [cat EXCEPT ![p] = x] /\ will' = [will EXCEPT ![p] = w]
      /\ CatalogueTypes /\ Closed(applied)
      /\ \A q \in watch : RowInvariant(q, cat[q], will[q], applied)
  BY Zenon DEF Change, CatalogueInvariant
<1>2. /\ cat \in [watch -> Row] /\ will \in [watch -> {"none", "on", "off"}]
      /\ cat'[p] = x /\ will'[p] = w
      /\ \A q \in watch \ {p} : cat'[q] = cat[q] /\ will'[q] = will[q]
  BY <1>1, Zenon DEF CatalogueTypes
<1>3. CatalogueTypes'
  BY <1>1, <1>2, Zenon DEF CatalogueTypes
<1>4. Closed(applied)'
  BY <1>1, Zenon DEF Closed
<1>5. ASSUME NEW q \in watch
      PROVE  RowInvariant(q, cat'[q], will'[q], applied) /\ KeptRow(q)
  <2>1. CASE q = p
    BY <1>1, <1>2, <2>1, Zenon DEF KeptRow
  <2>2. CASE q # p
    <3>1. cat'[q] = cat[q] /\ will'[q] = will[q]
      BY <1>2, <2>2, Zenon
    <3>2. cat[q].used => (q \in DOMAIN Procedures => Present(cat[q]))
      BY <1>1, KeepAssumption, Zenon DEF RowInvariant
    <3>. QED BY <1>1, <3>1, <3>2, Zenon DEF KeptRow
  <2>. QED BY <2>1, <2>2, Zenon
<1>6. (\A q \in watch : RowInvariant(q, cat[q], will[q], applied))'
  BY <1>1, <1>5, Zenon DEF RowInvariant, Reasoned, Excepted
<1>. QED BY <1>3, <1>4, <1>5, <1>6, Zenon DEF CatalogueInvariant

\* The changes the operator makes.
LEMMA OperatorKeeps ==
  ASSUME CatalogueInvariant, Operator
  PROVE  CatalogueInvariant' /\ \A q \in watch : KeptRow(q)
<1>1. PICK p \in watch : \/ \E on \in BOOLEAN : Add(p, on)
                         \/ Edit(p) \/ Toggle(p) \/ Execute(p) \/ Discard(p)
  BY Zenon DEF Operator
<1>. DEFINE r == cat[p]
            w == will[p]
<1>2. CatalogueTypes /\ RowInvariant(p, r, w, applied) /\ applied \subseteq Ids
  BY Zenon DEF CatalogueInvariant, CatalogueTypes
<1>3. r \in Row /\ w \in {"none", "on", "off"} /\ p \in DOMAIN Catalogue
  BY <1>2, WatchedRows, Zenon
<1>4. /\ "none" \in {"none", "on", "off"} /\ "on" \in {"none", "on", "off"}
      /\ "off" \in {"none", "on", "off"} /\ "on" # "off" /\ "edited" # "shipped"
      /\ "absent" # "edited"
  BY Zenon
<1>. HIDE DEF r, w
<1>5. ASSUME NEW on \in BOOLEAN, Add(p, on)
      PROVE  CatalogueInvariant' /\ \A q \in watch : KeptRow(q)
  <2>. DEFINE x == [r EXCEPT !.is = IF p = "settings" THEN "shipped" ELSE "own",
                              !.on = on, !.patch = Conforming(p)]
              c == IF on THEN "on" ELSE "off"
  <2>1. ~Present(r) /\ Change(p, x, c)
    BY <1>5, Zenon DEF Add, r
  <2>2. Conforming(p) \subseteq Ids /\ (p \in DOMAIN Owned => Conforming(p) = {})
    BY <1>2, KeepAssumption, Zenon DEF Conforming
  <2>3. x \in Row /\ x.on = on /\ x.used = r.used /\ x.patch = Conforming(p) /\ Present(x)
    BY <1>3, <2>2, ZenonT(30) DEF Row, Present
  <2>4. c \in {"none", "on", "off"} /\ (x.on => c = "on") /\ (c = "off" => ~x.on)
    BY <2>3, Zenon
  <2>. HIDE DEF x, c
  <2>5. RowInvariant(p, x, c, applied)
    BY <1>2, <2>1, <2>2, <2>3, <2>4, Zenon DEF RowInvariant, Reasoned
  <2>6. r.is # "edited"
    BY <2>1, Zenon DEF Present
  <2>. QED BY <2>1, <2>3, <2>4, <2>5, <2>6, ChangeRow, Zenon DEF r
<1>6. CASE Edit(p)
  <2>. DEFINE x == [r EXCEPT !.is = "edited", !.patch = {}]
  <2>1. r.is = "shipped" /\ Change(p, x, w)
    BY <1>6, Zenon DEF Edit, r, w
  <2>2. /\ x \in Row /\ x.is = "edited" /\ x.on = r.on /\ x.used = r.used /\ x.patch = {}
        /\ Present(x) /\ Present(r)
    BY <1>3, <2>1, Zenon DEF Row, Present
  <2>. HIDE DEF x
  <2>3. RowInvariant(p, x, w, applied)
    BY <1>2, <2>2, Zenon DEF RowInvariant, Reasoned
  <2>. QED BY <1>3, <2>1, <2>2, <2>3, ChangeRow, Zenon DEF r
<1>7. CASE Toggle(p)
  <2>. DEFINE x == [r EXCEPT !.on = ~@]
              c == IF r.on THEN "off" ELSE "on"
  <2>1. Present(r) /\ Change(p, x, c)
    BY <1>7, Zenon DEF Toggle, r
  <2>2. /\ x \in Row /\ x.is = r.is /\ x.on = ~r.on /\ x.used = r.used /\ x.patch = r.patch
        /\ Present(x)
    BY <1>3, <2>1, Zenon DEF Row, Present
  <2>3. c \in {"none", "on", "off"} /\ (x.on => c = "on") /\ (c = "off" => ~x.on)
    BY <2>2, Zenon
  <2>. HIDE DEF x, c
  <2>4. RowInvariant(p, x, c, applied)
    BY <1>2, <2>1, <2>2, <2>3, Zenon DEF RowInvariant, Reasoned, Owners
  <2>. QED BY <2>1, <2>2, <2>3, <2>4, ChangeRow, Zenon DEF r
<1>8. CASE Execute(p)
  <2>. DEFINE x == [r EXCEPT !.used = TRUE]
  <2>1. Change(p, x, w) /\ ~r.used /\ (Present(r) \/ p = "settings")
        /\ p \in DOMAIN (Procedures @@ Settings)
    BY <1>8, Zenon DEF Execute, r, w
  <2>2. /\ x \in Row /\ x.is = r.is /\ x.on = r.on /\ x.used /\ x.patch = r.patch
        /\ (Present(x) <=> Present(r))
    BY <1>3, Zenon DEF Row, Present
  <2>. HIDE DEF x
  <2>3. p = "settings" \/ (p \in DOMAIN Procedures /\ Present(x))
    BY <2>1, <2>2, KeepAssumption, Zenon
  <2>4. RowInvariant(p, x, w, applied)
    BY <1>2, <2>1, <2>2, <2>3, Zenon DEF RowInvariant, Reasoned, Owners
  <2>. QED BY <1>3, <2>1, <2>2, <2>4, ChangeRow, Zenon DEF r
<1>9. CASE Discard(p)
  <2>1. /\ p \in DOMAIN Procedures /\ Deleted(r) # Refused
        /\ Change(p, Deleted(r), "none")
    BY <1>9, Zenon DEF Discard, r
  <2>2. Deleted(r) = Absent /\ ~r.used
    BY <2>1, Zenon DEF Deleted
  <2>3. /\ Absent \in Row /\ Absent.is = "absent" /\ ~Absent.on /\ ~Absent.used
            /\ Absent.patch = {}
        /\ ~Present(Absent)
    BY Zenon DEF Row, Absent, Present
  <2>4. RowInvariant(p, Absent, "none", applied)
    BY <1>4, <2>3, Zenon DEF RowInvariant
  <2>5. p \notin DOMAIN Settings
    BY <2>1, KeepAssumption, Zenon
  <2>. QED BY <1>4, <2>1, <2>2, <2>3, <2>4, <2>5, ChangeRow, Zenon DEF r
<1>. QED BY <1>1, <1>5, <1>6, <1>7, <1>8, <1>9, Zenon

\* The rows and the rest of a step of a migration.
LEMMA RowsKeep ==
  ASSUME CatalogueTypes, watch' = watch, lit0060' = lit0060, applied' \subseteq Ids,
         Closed(applied'), DOMAIN cat' = watch, cat' = [q \in watch |-> cat'[q]],
         will' = Remember(cat'),
         \A p \in watch : cat'[p] \in Row /\ RowInvariant(p, cat'[p], will'[p], applied')
  PROVE  CatalogueInvariant'
<1>1. cat' \in [watch -> Row]
  BY Zenon
<1>2. will' \in [watch -> {"none", "on", "off"}]
  BY Zenon DEF CatalogueTypes, Remember
<1>3. CatalogueTypes'
  BY <1>1, <1>2, Zenon DEF CatalogueTypes
<1>4. (\A p \in watch : RowInvariant(p, cat[p], will[p], applied))'
  BY Zenon DEF RowInvariant, Reasoned, Excepted
<1>5. Closed(applied)'
  BY Zenon DEF Closed
<1>. QED BY <1>3, <1>4, <1>5, Zenon DEF CatalogueInvariant

\* Every step keeps the invariant and what KeptByMigrations says.
LEMMA StepKeeps ==
  ASSUME CatalogueInvariant, [Next]_vars
  PROVE  CatalogueInvariant' /\ \A q \in watch : KeptRow(q)
<1>0. CatalogueTypes /\ applied \subseteq Ids /\ Closed(applied)
  BY Zenon DEF CatalogueInvariant, CatalogueTypes
<1>1. ASSUME NEW i \in Ready, Apply(i)
      PROVE  CatalogueInvariant' /\ \A q \in watch : KeptRow(q)
  <2>1. \A p \in watch : /\ cat'[p] \in Row /\ RowInvariant(p, cat'[p], will'[p], applied')
                         /\ KeptRow(p)
    BY <1>1, ApplyRow, Zenon
  <2>2. /\ applied' = applied \union {i} /\ watch' = watch /\ lit0060' = lit0060
        /\ will' = Remember(cat') /\ cat' = Forward(i)
    BY <1>1, Zenon DEF Apply
  <2>3. applied' \subseteq Ids /\ Closed(applied')
    <3>1. i \in Ids
      BY <1>1, Zenon DEF Ready
    <3>2. Closed(applied \union {i})
      BY <1>0, <1>1, ClosedUnder, Zenon
    <3>. QED BY <1>0, <2>2, <3>1, <3>2, Zenon
  <2>4. DOMAIN cat' = watch /\ cat' = [q \in watch |-> cat'[q]]
    BY <2>2, ZenonT(30) DEF Forward, After
  <2>5. CatalogueInvariant'
    BY <1>0, <2>1, <2>2, <2>3, <2>4, RowsKeep, Zenon
  <2>. QED BY <2>1, <2>5, Zenon
<1>2. ASSUME NEW i \in Tips, Unapply(i)
      PROVE  CatalogueInvariant' /\ \A q \in watch : KeptRow(q)
  <2>1. \A p \in watch : /\ cat'[p] \in Row /\ RowInvariant(p, cat'[p], will'[p], applied')
                         /\ KeptRow(p)
    BY <1>2, UnapplyRow, Zenon
  <2>2. /\ applied' = applied \ {i} /\ watch' = watch /\ lit0060' = lit0060
        /\ will' = Remember(cat') /\ cat' = After(i, Graph[i].down)
    BY <1>2, Zenon DEF Unapply
  <2>3. applied' \subseteq Ids /\ Closed(applied')
    <3>1. Closed(applied \ {i})
      BY <1>0, <1>2, ClosedUnder, Zenon
    <3>. QED BY <1>0, <2>2, <3>1, Zenon
  <2>4. DOMAIN cat' = watch /\ cat' = [q \in watch |-> cat'[q]]
    BY <2>2, Zenon DEF After
  <2>5. CatalogueInvariant'
    BY <1>0, <2>1, <2>2, <2>3, <2>4, RowsKeep, Zenon
  <2>. QED BY <2>1, <2>5, Zenon
<1>3. CASE Operator
  BY <1>3, OperatorKeeps, Zenon
<1>4. CASE UNCHANGED vars
  <2>1. /\ applied' = applied /\ watch' = watch /\ cat' = cat /\ will' = will
        /\ lit0060' = lit0060
    BY <1>4, Zenon DEF vars
  <2>2. CatalogueInvariant'
    BY <2>1, Zenon DEF CatalogueInvariant, CatalogueTypes, Closed, RowInvariant, Reasoned,
        Excepted
  <2>3. ASSUME NEW q \in watch
        PROVE  KeptRow(q)
    BY <2>1, KeepAssumption, Zenon DEF KeptRow, CatalogueInvariant, RowInvariant
  <2>. QED BY <2>2, <2>3, Zenon
<1>. QED BY <1>1, <1>2, <1>3, <1>4, Zenon DEF Next

\* An empty catalogue satisfies the invariant.
LEMMA InitKeeps ==
  Init => CatalogueInvariant
<1>. SUFFICES ASSUME Init
              PROVE  CatalogueInvariant
  BY Zenon
<1>1. /\ Absent \in Row /\ Absent.is = "absent" /\ ~Absent.on /\ ~Absent.used
      /\ ~Present(Absent)
  BY Zenon DEF Row, Absent, Present
<1>2. CatalogueTypes
  BY <1>1, Zenon DEF Init, CatalogueTypes
<1>3. Closed(applied)
  BY Zenon DEF Init, Closed
<1>4. "none" # "on" /\ "none" # "off" /\ "absent" \notin {"own", "edited"}
  BY Zenon
<1>5. ASSUME NEW p \in watch
      PROVE  RowInvariant(p, cat[p], will[p], applied)
  <2>1. cat[p] = Absent /\ will[p] = "none"
    BY Zenon DEF Init
  <2>. QED BY <1>1, <1>4, <2>1, Zenon DEF RowInvariant, Owners
<1>. QED BY <1>2, <1>3, <1>5, Zenon DEF CatalogueInvariant

\* The catalogue's invariant holds in every order of upgrades, rollbacks and
\* changes by the operator, whichever rows are followed.
THEOREM CatalogueInvariantHolds ==
  Spec => []CatalogueInvariant
<1>1. CatalogueInvariant /\ [Next]_vars => CatalogueInvariant'
  BY StepKeeps, Zenon
<1>. QED BY <1>1, InitKeeps, PTL DEF Spec

\* LitForAReason, for every set of watched rows and any number of changes: a
\* row is enabled only because the operator or an applied migration says so,
\* what is shipped disabled stays so until the operator enables it, and what
\* the operator disabled stays disabled.
THEOREM LitForAReasonHolds ==
  Spec => []LitForAReason
BY CatalogueInvariantHolds, InvariantLights, PTL

\* KeptByMigrations, likewise: no migration and no reversal destroys a
\* procedure with executions, a row of the owned families that is the
\* operator's, or transport chains the operator set.
THEOREM KeptByMigrationsHolds ==
  Spec => KeptByMigrations
<1>1. CatalogueInvariant /\ [Next]_vars => [\A p \in watch : KeptRow(p)]_vars
  BY StepKeeps, Zenon
<1>2. Spec => [][\A p \in watch : KeptRow(p)]_vars
  BY <1>1, CatalogueInvariantHolds, PTL DEF Spec
<1>. QED BY <1>2, Zenon DEF KeptByMigrations, KeptRow

-----------------------------------------------------------------------------
(* PublicationPair: the chain of migrations and an operator.               *)

\* A row of the pair, and what an installation may hold before the chain.
PairRow == [is : {"absent", "exact", "edited"}, on : BOOLEAN, marker : Pair!Markers]
PairsAreRows == Legacies \subseteq [Pair!Rows -> PairRow] /\ MaxPairEdits \in Nat

\* The ways in which a migration changes the pair: not at all, both rows of a
\* uniform pair alike, as the seed, or by disabling it.
PairKept == pairRows' = pairRows
Alike(on, marker) ==
  /\ Pair!Missing(pairRows) \/ \E o \in BOOLEAN, m \in Pair!Markers : Pair!Exact(pairRows, o, m)
  /\ pairRows' = Pair!Rewritten(pairRows, on, marker)
Seeded ==
  /\ \A n \in Pair!Rows : pairRows[n] \in {Pair!Nothing, Pair!Row("exact", FALSE, "current")}
  /\ pairRows' = [n \in Pair!Rows |-> Pair!Row("exact", FALSE, "current")]
Darkened == pairRows' = [n \in Pair!Rows |-> [pairRows[n] EXCEPT !.on = FALSE]]

\* The chain.
LEMMA ChainSteps ==
  ASSUME NEW p
  PROVE  /\ Pair!Chain(p)[1] = Pair!adopt_enabled(p)
         /\ Pair!Chain(p)[2] = Pair!report_drift(p)
         /\ Pair!Chain(p)[3] = Pair!normalize(p)
         /\ Pair!Chain(p)[4] = Pair!adopt_unmarked(p)
         /\ Pair!Chain(p)[5] = Pair!adopt_predecessor(p)
         /\ Pair!Chain(p)[6] = Pair!seed_pair(p)
BY Zenon DEF Pair!Chain

\* What each migration accepts and makes of the pair, forwards and backwards.
LEMMA EnabledAdopted ==
  ASSUME NEW p
  PROVE  LET m == Pair!adopt_enabled(p)
         IN  /\ m.fits => Pair!Missing(p) \/ Pair!Exact(p, TRUE, "unmarked")
             /\ m.up = Pair!Rewritten(p, FALSE, "unmarked")
             /\ m.unfits => Pair!Missing(p) \/ Pair!Exact(p, FALSE, "unmarked")
             /\ m.down = Pair!Rewritten(p, TRUE, "unmarked")
BY Zenon DEF Pair!adopt_enabled, Pair!Migration

\* 0103 only reports: it changes nothing in either direction.
LEMMA DriftReported ==
  ASSUME NEW p
  PROVE  Pair!report_drift(p).up = p /\ Pair!report_drift(p).down = p
BY Zenon DEF Pair!report_drift, Pair!Migration

\* normalize takes a missing pair or a disabled exact one, and is not undone.
LEMMA Normalized ==
  ASSUME NEW p
  PROVE  LET m == Pair!normalize(p)
         IN  /\ m.fits => Pair!Missing(p) \/ \E k \in Pair!Markers : Pair!Exact(p, FALSE, k)
             /\ m.up = Pair!Rewritten(p, FALSE, "unmarked")
             /\ m.down = p
BY Zenon DEF Pair!normalize, Pair!Migration

\* adopt_unmarked marks a disabled exact pair as the predecessor's, and unmarks it.
LEMMA UnmarkedAdopted ==
  ASSUME NEW p
  PROVE  LET m == Pair!adopt_unmarked(p)
         IN  /\ m.fits => Pair!Missing(p) \/ Pair!Exact(p, FALSE, "unmarked")
             /\ m.up = Pair!Rewritten(p, FALSE, "predecessor")
             /\ m.unfits => Pair!Missing(p) \/ Pair!Exact(p, FALSE, "predecessor")
             /\ m.down = Pair!Rewritten(p, FALSE, "unmarked")
BY Zenon DEF Pair!adopt_unmarked, Pair!Migration

\* adopt_predecessor takes a disabled pair of the predecessor over, and back.
LEMMA PredecessorAdopted ==
  ASSUME NEW p
  PROVE  LET m == Pair!adopt_predecessor(p)
         IN  /\ m.fits => Pair!Missing(p) \/ Pair!Exact(p, FALSE, "predecessor")
             /\ m.up = Pair!Rewritten(p, FALSE, "current")
             /\ m.unfits => Pair!Missing(p) \/ Pair!Exact(p, FALSE, "current")
             /\ m.down = Pair!Rewritten(p, FALSE, "predecessor")
BY Zenon DEF Pair!adopt_predecessor, Pair!Migration

\* seed_pair accepts missing rows and its own; backwards it disables both.
LEMMA PairSeeded ==
  ASSUME NEW p
  PROVE  LET m == Pair!seed_pair(p)
         IN  /\ m.fits => \A n \in Pair!Rows :
                            p[n] \in {Pair!Nothing, Pair!Row("exact", FALSE, "current")}
             /\ m.up = [n \in Pair!Rows |-> Pair!Row("exact", FALSE, "current")]
             /\ m.down = [n \in Pair!Rows |-> [p[n] EXCEPT !.on = FALSE]]
BY Zenon DEF Pair!seed_pair, Pair!Migration

\* Forwards the chain enables nothing, and ends with the seed.
LEMMA PairForwards ==
  ASSUME Pair!TypeOK, Pair!Apply
  PROVE  /\ pairDone' = pairDone + 1 /\ pairDone' \in 0..Pair!Top
         /\ UNCHANGED <<pairFound, pairEdits, pairWill>>
         /\ \/ pairDone' # Pair!Top /\ (PairKept \/ \E m \in Pair!Markers : Alike(FALSE, m))
            \/ pairDone' = Pair!Top /\ Seeded
<1>1. /\ pairDone \in 0..5 /\ pairDone' = pairDone + 1 /\ pairDone' \in 0..6
      /\ UNCHANGED <<pairFound, pairEdits, pairWill>>
  BY DEF Pair!TypeOK, Pair!Apply, Pair!Top
<1>0. /\ pairDone' = pairDone + 1 /\ pairDone' \in 0..Pair!Top
      /\ UNCHANGED <<pairFound, pairEdits, pairWill>>
  BY <1>1, Zenon DEF Pair!Top
<1>2. /\ Pair!Chain(pairRows)[pairDone'].fits
      /\ pairRows' = Pair!Chain(pairRows)[pairDone'].up
  BY <1>1, Zenon DEF Pair!Apply
<1>3. CASE pairDone' = 1
  <2>1. Alike(FALSE, "unmarked")
    BY <1>2, <1>3, ChainSteps, EnabledAdopted, Zenon
       DEF Pair!Markers, Alike
  <2>2. pairDone' # Pair!Top
    BY <1>3 DEF Pair!Top
  <2>. QED BY <1>0, <2>1, <2>2, Zenon DEF Pair!Markers
<1>4. CASE pairDone' = 2
  <2>1. PairKept
    BY <1>2, <1>4, ChainSteps, DriftReported, Zenon DEF PairKept
  <2>2. pairDone' # Pair!Top
    BY <1>4 DEF Pair!Top
  <2>. QED BY <1>0, <2>1, <2>2, Zenon
<1>5. CASE pairDone' = 3
  <2>1. Alike(FALSE, "unmarked")
    BY <1>2, <1>5, ChainSteps, Normalized, Zenon
       DEF Pair!Markers, Alike
  <2>2. pairDone' # Pair!Top
    BY <1>5 DEF Pair!Top
  <2>. QED BY <1>0, <2>1, <2>2, Zenon DEF Pair!Markers
<1>6. CASE pairDone' = 4
  <2>1. Alike(FALSE, "predecessor")
    BY <1>2, <1>6, ChainSteps, UnmarkedAdopted, Zenon
       DEF Pair!Markers, Alike
  <2>2. pairDone' # Pair!Top
    BY <1>6 DEF Pair!Top
  <2>. QED BY <1>0, <2>1, <2>2, Zenon DEF Pair!Markers
<1>7. CASE pairDone' = 5
  <2>1. Alike(FALSE, "current")
    BY <1>2, <1>7, ChainSteps, PredecessorAdopted, Zenon
       DEF Pair!Markers, Alike
  <2>2. pairDone' # Pair!Top
    BY <1>7 DEF Pair!Top
  <2>. QED BY <1>0, <2>1, <2>2, Zenon DEF Pair!Markers
<1>8. CASE pairDone' = 6
  <2>1. Pair!seed_pair(pairRows).fits /\ pairRows' = Pair!seed_pair(pairRows).up
    BY <1>2, <1>8, ChainSteps, Zenon
  <2>2. Seeded
    BY <2>1, PairSeeded, Zenon DEF Seeded
  <2>. QED BY <1>0, <1>8, <2>2, Zenon DEF Pair!Top
<1>9. \/ pairDone' = 1 \/ pairDone' = 2 \/ pairDone' = 3
      \/ pairDone' = 4 \/ pairDone' = 5 \/ pairDone' = 6
  BY <1>1
<1>. QED
  BY <1>3, <1>4, <1>5, <1>6, <1>7, <1>8, <1>9, Zenon

\* Backwards it writes uniform pairs, or disables the seed.
LEMMA PairBackwards ==
  ASSUME Pair!TypeOK, Pair!Unapply
  PROVE  /\ pairDone' = pairDone - 1 /\ pairDone' \in 0..5
         /\ UNCHANGED <<pairFound, pairEdits, pairWill>>
         /\ \/ PairKept
            \/ \E on \in BOOLEAN, m \in Pair!Markers : Alike(on, m)
            \/ Darkened
<1>1. /\ pairDone \in 1..6 /\ pairDone' = pairDone - 1 /\ pairDone' \in 0..5
      /\ UNCHANGED <<pairFound, pairEdits, pairWill>>
  BY DEF Pair!TypeOK, Pair!Unapply, Pair!Top
<1>2. /\ Pair!Chain(pairRows)[pairDone].unfits
      /\ pairRows' = Pair!Chain(pairRows)[pairDone].down
  BY Zenon DEF Pair!Unapply
<1>3. CASE pairDone = 1
  <2>1. Alike(TRUE, "unmarked")
    BY <1>2, <1>3, ChainSteps, EnabledAdopted, Zenon DEF Pair!Markers, Alike
  <2>. QED BY <1>1, <2>1, Zenon DEF Pair!Markers
<1>4. CASE pairDone = 2
  <2>1. PairKept
    BY <1>2, <1>4, ChainSteps, DriftReported, Zenon DEF PairKept
  <2>. QED BY <1>1, <2>1, Zenon
<1>5. CASE pairDone = 3
  <2>1. PairKept
    BY <1>2, <1>5, ChainSteps, Normalized, Zenon DEF PairKept
  <2>. QED BY <1>1, <2>1, Zenon
<1>6. CASE pairDone = 4
  <2>1. Alike(FALSE, "unmarked")
    BY <1>2, <1>6, ChainSteps, UnmarkedAdopted, Zenon DEF Pair!Markers, Alike
  <2>. QED BY <1>1, <2>1, Zenon DEF Pair!Markers
<1>7. CASE pairDone = 5
  <2>1. Alike(FALSE, "predecessor")
    BY <1>2, <1>7, ChainSteps, PredecessorAdopted, Zenon DEF Pair!Markers, Alike
  <2>. QED BY <1>1, <2>1, Zenon DEF Pair!Markers
<1>8. CASE pairDone = 6
  <2>1. pairRows' = Pair!seed_pair(pairRows).down
    BY <1>2, <1>8, ChainSteps, Zenon
  <2>2. Darkened
    BY <2>1, PairSeeded, Zenon DEF Darkened
  <2>. QED BY <1>1, <2>2, Zenon
<1>9. \/ pairDone = 1 \/ pairDone = 2 \/ pairDone = 3
      \/ pairDone = 4 \/ pairDone = 5 \/ pairDone = 6
  BY <1>1
<1>. QED
  BY <1>3, <1>4, <1>5, <1>6, <1>7, <1>8, <1>9, Zenon

\* A pair that is missing stays so; any other uniform pair gets two exact rows.
LEMMA AlikeRows ==
  ASSUME Pair!TypeOK, NEW on \in BOOLEAN, NEW m \in Pair!Markers, Alike(on, m)
  PROVE  \/ PairKept
         \/ /\ \A n \in Pair!Rows : pairRows[n].is = "exact"
            /\ \A n \in Pair!Rows : pairRows'[n] = Pair!Row("exact", on, m)
            /\ pairRows' \in [Pair!Rows -> PairRow]
<1>1. pairRows \in [Pair!Rows -> PairRow] /\ pairRows' = Pair!Rewritten(pairRows, on, m)
  BY Zenon DEF Pair!TypeOK, PairRow, Alike
<1>2. CASE Pair!Missing(pairRows)
  BY <1>1, <1>2, Zenon DEF Pair!Missing, Pair!Rewritten, PairKept
<1>3. CASE \E o \in BOOLEAN, k \in Pair!Markers : Pair!Exact(pairRows, o, k)
  <2>1. \A n \in Pair!Rows : pairRows[n].is = "exact"
    BY <1>3 DEF Pair!Exact, Pair!Row
  <2>2. \A n \in Pair!Rows : pairRows'[n] = Pair!Row("exact", on, m)
    BY <1>1, <2>1, Zenon DEF Pair!Rewritten
  <2>3. pairRows' \in [Pair!Rows -> PairRow]
    BY <1>1, <2>1, Zenon DEF Pair!Rewritten, PairRow, Pair!Row
  <2>. QED BY <2>1, <2>2, <2>3, Zenon
<1>. QED BY <1>2, <1>3, Zenon DEF Alike

\* A step of a migration: the pair is kept, gets two exact rows with one marker,
\* or is disabled.
LEMMA PairMoves ==
  ASSUME Pair!TypeOK, Pair!Apply \/ Pair!Unapply
  PROVE  /\ pairDone' \in 0..Pair!Top /\ UNCHANGED <<pairFound, pairEdits, pairWill>>
         /\ pairRows' \in [Pair!Rows -> PairRow]
         /\ \/ PairKept \/ Darkened
            \/ \E on \in BOOLEAN, m \in Pair!Markers :
                 \A n \in Pair!Rows : pairRows'[n] = Pair!Row("exact", on, m)
         /\ pairDone' = Pair!Top => Seeded
<1>0. pairRows \in [Pair!Rows -> PairRow]
  BY Zenon DEF Pair!TypeOK, PairRow
<1>1. CASE Pair!Apply
  <2>1. CASE PairKept
    BY <1>0, <1>1, <2>1, PairForwards, Zenon DEF PairKept
  <2>2. CASE Seeded
    <3>1. /\ pairRows' \in [Pair!Rows -> PairRow]
          /\ \A n \in Pair!Rows : pairRows'[n] = Pair!Row("exact", FALSE, "current")
      BY <2>2, Zenon DEF Seeded, PairRow, Pair!Row, Pair!Markers
    <3>. QED BY <1>1, <2>2, <3>1, PairForwards, Zenon DEF Pair!Markers
  <2>3. ASSUME NEW m \in Pair!Markers, Alike(FALSE, m), pairDone' # Pair!Top
        PROVE  /\ pairRows' \in [Pair!Rows -> PairRow]
               /\ PairKept \/ \A n \in Pair!Rows : pairRows'[n] = Pair!Row("exact", FALSE, m)
    BY <1>0, <2>3, AlikeRows, Zenon DEF PairKept
  <2>. QED BY <1>1, <2>1, <2>2, <2>3, PairForwards, Zenon
<1>2. CASE Pair!Unapply
  <2>1. pairDone' \in 0..Pair!Top /\ pairDone' # Pair!Top
    <3>1. pairDone' \in 0..5
      BY <1>2, PairBackwards, Zenon
    <3>. QED BY <3>1 DEF Pair!Top
  <2>2. CASE PairKept
    BY <1>0, <1>2, <2>1, <2>2, PairBackwards, Zenon DEF PairKept
  <2>3. CASE Darkened
    <3>1. pairRows' \in [Pair!Rows -> PairRow]
      BY <1>0, <2>3, Zenon DEF Darkened, PairRow
    <3>. QED BY <1>2, <2>1, <2>3, <3>1, PairBackwards, Zenon
  <2>4. ASSUME NEW on \in BOOLEAN, NEW m \in Pair!Markers, Alike(on, m)
        PROVE  /\ pairRows' \in [Pair!Rows -> PairRow]
               /\ PairKept \/ \A n \in Pair!Rows : pairRows'[n] = Pair!Row("exact", on, m)
    BY <1>0, <2>4, AlikeRows, Zenon DEF PairKept
  <2>. QED BY <1>2, <2>1, <2>2, <2>3, <2>4, PairBackwards, Zenon
<1>. QED BY <1>1, <1>2, Zenon

\* Whatever the database held, and in every order of upgrades, rollbacks and
\* changes by the operator: two exact rows carry one marker, and an untouched
\* pair is the shipped one at the head.
THEOREM PairIsWholeHolds == PairsAreRows => (Pair!Spec => []Pair!PairIsWhole)
<1>. SUFFICES ASSUME PairsAreRows PROVE Pair!Spec => []Pair!PairIsWhole
  BY Zenon
<1>1. Pair!Init => Pair!PairIsWhole
  <2>. SUFFICES ASSUME Pair!Init PROVE Pair!PairIsWhole
    BY Zenon
  <2>1. Pair!TypeOK
    BY DEF PairsAreRows, PairRow, Pair!Init, Pair!TypeOK, Pair!Top
  <2>2. Pair!OneProvenance
    BY Zenon DEF Pair!Init, Pair!OneProvenance, Pair!Rows
  <2>3. Pair!HeadPair
    BY DEF Pair!Init, Pair!HeadPair, Pair!Top
  <2>. QED BY <2>1, <2>2, <2>3, Zenon DEF Pair!PairIsWhole
<1>2. Pair!PairIsWhole /\ [Pair!Next]_Pair!vars => Pair!PairIsWhole'
  <2>. SUFFICES ASSUME Pair!TypeOK, Pair!OneProvenance, Pair!HeadPair, [Pair!Next]_Pair!vars
                PROVE  Pair!PairIsWhole'
    BY Zenon DEF Pair!PairIsWhole
  <2>1. CASE Pair!Apply \/ Pair!Unapply
    <3>1. Pair!TypeOK'
      BY <2>1, PairMoves, Zenon DEF Pair!TypeOK, PairRow
    <3>2. Pair!OneProvenance'
      <4>1. CASE PairKept
        BY <2>1, <4>1, PairMoves, Zenon DEF PairKept, Pair!OneProvenance
      <4>2. CASE Darkened
        <5>1. \A n \in Pair!Rows : /\ pairRows'[n].is = pairRows[n].is
                                   /\ pairRows'[n].marker = pairRows[n].marker
          BY <4>2, Zenon DEF Darkened, Pair!TypeOK
        <5>. QED BY <2>1, <5>1, PairMoves, Zenon DEF Pair!OneProvenance, Pair!Rows
      <4>3. ASSUME NEW on, NEW m, \A n \in Pair!Rows : pairRows'[n] = Pair!Row("exact", on, m)
            PROVE  pairRows'["prove"].marker = pairRows'["provision"].marker
        BY <4>3, Zenon DEF Pair!Rows
      <4>. QED BY <2>1, <4>1, <4>2, <4>3, PairMoves, Zenon DEF Pair!OneProvenance
    <3>3. Pair!HeadPair'
      <4>1. Seeded => Pair!Exact(pairRows, FALSE, "current")'
        BY Zenon DEF Seeded, Pair!Exact
      <4>. QED BY <2>1, <4>1, PairMoves, Zenon DEF Pair!HeadPair
    <3>. QED BY <3>1, <3>2, <3>3, Zenon DEF Pair!PairIsWhole
  <2>2. ASSUME NEW n \in Pair!Rows, Pair!Operator(n) PROVE Pair!PairIsWhole'
    <3>1. /\ pairDone' = pairDone /\ pairFound' = pairFound
          /\ pairEdits' \in 1..MaxPairEdits
      BY <2>2 DEF Pair!Operator, Pair!TypeOK, PairsAreRows
    <3>2. /\ pairRows' \in [Pair!Rows -> PairRow]
          /\ \A k \in Pair!Rows : pairRows'[k].is = "exact" =>
               pairRows[k].is = "exact" /\ pairRows'[k].marker = pairRows[k].marker
      <4>0. pairRows \in [Pair!Rows -> PairRow]
        BY Zenon DEF Pair!TypeOK, PairRow
      <4>1. CASE pairRows' = [pairRows EXCEPT ![n].is = "edited"]
        BY <4>0, <4>1 DEF PairRow
      <4>2. CASE pairRows' = [pairRows EXCEPT ![n].on = ~@]
        BY <4>0, <4>2, ZenonT(30) DEF PairRow
      <4>3. CASE pairRows' = [pairRows EXCEPT ![n] = Pair!Nothing]
        BY <4>0, <4>3, Zenon DEF PairRow, Pair!Nothing, Pair!Row, Pair!Markers
      <4>. QED BY <2>2, <4>1, <4>2, <4>3, Zenon DEF Pair!Operator
    <3>3. Pair!TypeOK'
      <4>1. pairEdits' \in 0..MaxPairEdits
        BY <3>1
      <4>. QED BY <3>1, <3>2, <4>1, Zenon DEF Pair!TypeOK, PairRow
    <3>4. Pair!OneProvenance'
      BY <3>1, <3>2, Zenon DEF Pair!OneProvenance, Pair!Rows
    <3>5. Pair!HeadPair'
      <4>1. pairEdits' # 0
        BY <3>1
      <4>. QED BY <4>1, Zenon DEF Pair!HeadPair
    <3>. QED BY <3>3, <3>4, <3>5, Zenon DEF Pair!PairIsWhole
  <2>3. CASE UNCHANGED Pair!vars
    BY <2>3, Zenon DEF Pair!vars, Pair!PairIsWhole, Pair!TypeOK, Pair!OneProvenance,
                       Pair!HeadPair, Pair!Exact
  <2>. QED BY <2>1, <2>2, <2>3, Zenon DEF Pair!Next
<1>. QED BY <1>1, <1>2, PTL DEF Pair!Spec

\* A migration leaves a row that the operator edited, or disables it on the way
\* back; it deletes no row, and none is enabled on the way to the head.
THEOREM AdoptsOnlyExactHolds == PairsAreRows => (Pair!Spec => AdoptsOnlyExact)
<1>. SUFFICES ASSUME PairsAreRows PROVE Pair!Spec => AdoptsOnlyExact
  BY Zenon
<1>. DEFINE Careful ==
       pairDone' # pairDone => \A n \in Pair!Rows :
         /\ pairRows[n].is = "edited" =>
              pairRows'[n] \in {pairRows[n], [pairRows[n] EXCEPT !.on = FALSE]}
         /\ pairRows[n].is # "absent" => pairRows'[n].is # "absent"
         /\ pairDone' > pairDone /\ pairRows'[n].on => pairRows[n].on
<1>1. Pair!PairIsWhole /\ [Pair!Next]_Pair!vars => [Careful]_Pair!vars
  <2>. SUFFICES ASSUME Pair!TypeOK, Pair!Next, pairDone' # pairDone, NEW n \in Pair!Rows
                PROVE  /\ pairRows[n].is = "edited" =>
                            pairRows'[n] \in {pairRows[n], [pairRows[n] EXCEPT !.on = FALSE]}
                       /\ pairRows[n].is # "absent" => pairRows'[n].is # "absent"
                       /\ pairDone' > pairDone /\ pairRows'[n].on => pairRows[n].on
    BY Zenon DEF Pair!PairIsWhole
  <2>1. Pair!Apply \/ Pair!Unapply
    BY Zenon DEF Pair!Next, Pair!Operator
  <2>2. CASE PairKept
    BY <2>2, Zenon DEF PairKept
  <2>3. CASE Darkened
    BY <2>3, Zenon DEF Darkened, Pair!TypeOK
  <2>4. CASE Seeded
    BY <2>4 DEF Seeded, Pair!Nothing, Pair!Row
  <2>5. ASSUME NEW on \in BOOLEAN, NEW m \in Pair!Markers, Alike(on, m), ~PairKept,
               on = FALSE \/ Pair!Unapply
        PROVE  /\ pairRows[n].is = "exact" /\ pairRows'[n].is = "exact"
               /\ pairRows'[n].on => Pair!Unapply
    <3>1. pairRows[n].is = "exact" /\ pairRows'[n] = Pair!Row("exact", on, m)
      BY <2>5, AlikeRows, Zenon
    <3>. QED BY <3>1, <2>5 DEF Pair!Row
  <2>6. Pair!Unapply => ~(pairDone' > pairDone)
    BY DEF Pair!TypeOK, Pair!Unapply
  <2>7. "exact" # "edited" /\ "exact" # "absent"
    BY Zenon
  <2>8. CASE Pair!Apply
    BY <2>8, <2>2, <2>4, <2>5, <2>6, <2>7, PairForwards, Zenon
  <2>9. CASE Pair!Unapply
    BY <2>9, <2>2, <2>3, <2>5, <2>6, <2>7, PairBackwards, Zenon
  <2>. QED BY <2>1, <2>8, <2>9, Zenon
<1>. QED BY <1>1, PairIsWholeHolds, PTL DEF Pair!Spec, AdoptsOnlyExact, Pair!AdoptsOnlyExact
=============================================================================
