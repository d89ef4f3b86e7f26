------------------------ MODULE CatalogueMigrations ------------------------
(***************************************************************************)
(* Installing, upgrading and rolling back the procedure catalogue while an *)
(* operator edits it.                                                      *)
(*                                                                         *)
(* Releases shipped the branches of the migration graph at different       *)
(* times, so a database may have applied its migrations in any order the   *)
(* graph allows; "migrate netbox_rpc <name>" reverses them from the end.   *)
(* Each migration runs in one transaction: if one of its operations        *)
(* raises, nothing of it stays and it is not recorded as applied.          *)
(*                                                                         *)
(* A behaviour follows the rows of watch.  A migration stopped by another  *)
(* row is a step not taken, so what holds here of the watched rows holds   *)
(* of them in the whole catalogue.  Uninstalling (reversing M0001) is left  *)
(* out.                                                                    *)
(***************************************************************************)
EXTENDS CatalogueGraph, Naturals, FiniteSets

CONSTANTS Watches,    \* the sets of rows to follow, one per behaviour
          MaxEdits,   \* bound on the operator's changes
          Rollbacks   \* whether migrations are reversed

VARIABLES applied,  \* names of the migrations in django_migrations
          watch,    \* the rows followed
          cat,      \* cat[p]: row p
          will,     \* will[p]: what the operator last chose for p's enabled column
          edits,    \* changes made by the operator so far
          rolled,   \* some migration was reversed
          lit0060   \* the database meets the first edition of 0060, which enabled its row

vars == <<applied, watch, cat, will, edits, rolled, lit0060>>

ASSUME BoundsAssumption == MaxEdits \in Nat /\ Rollbacks \in BOOLEAN
ASSUME WatchAssumption == \A w \in Watches : w # {} /\ w \subseteq DOMAIN Catalogue

Ids == DOMAIN Graph
\* The operations of a list that name row p.
Named(ops, p) == {ops[k] : k \in {n \in DOMAIN ops : p \in ops[n].rows}}

Init ==
  /\ applied = {}
  /\ watch \in Watches
  /\ cat = [p \in watch |-> Absent]
  /\ will = [p \in watch |-> "none"]
  /\ edits = 0
  /\ rolled = FALSE
  /\ lit0060 \in IF "env_file.upsert_var" \in watch THEN BOOLEAN ELSE {FALSE}

---------------------------------------------------------------------------
\* The tables and columns there are.
Columns == UNION {Graph[i].adds : i \in applied}
TableOf(p) == LET e == Catalogue[p]
              IN  CASE e \in {"read", "write", "destructive"} -> "procedure"
                    [] e = "intent" -> "intents"
                    [] OTHER -> e

\* migrate: the migrations whose dependencies are all applied, and the applied
\* ones nothing applied depends on.
Ready == {i \in Ids \ applied : Graph[i].needs \subseteq applied}
Tips  == applied \ UNION {Graph[i].needs : i \in applied}

\* Rows after a list of operations of migration i.
After(i, ops) == [p \in watch |-> Run(i, ops, p, cat[p])]
Raises(rows) == \E p \in watch : rows[p] = Refused
Forward(i) ==
  LET rows == After(i, Graph[i].up)
  IN  IF i = "M0060" /\ lit0060 THEN [rows EXCEPT !["env_file.upsert_var"].on = TRUE] ELSE rows

\* An operator's choice concerns a row; it goes with the row.
Remember(rows) == [p \in watch |-> IF Present(rows[p]) THEN will[p] ELSE "none"]

\* Executor.migrate, forwards: apply i in a transaction and record it.
Apply(i) ==
  /\ ~Raises(Forward(i))
  /\ applied' = applied \union {i}
  /\ cat' = Forward(i)
  /\ will' = Remember(cat')
  /\ UNCHANGED <<watch, edits, rolled, lit0060>>

\* Executor.migrate, backwards.
Unapply(i) ==
  /\ Rollbacks
  /\ i # "M0001"
  /\ Graph[i].down # Irreversible
  /\ ~Raises(After(i, Graph[i].down))
  /\ applied' = applied \ {i}
  /\ cat' = After(i, Graph[i].down)
  /\ will' = Remember(cat')
  /\ rolled' = TRUE
  /\ UNCHANGED <<watch, edits, lit0060>>

---------------------------------------------------------------------------
\* The operator, through the forms and the REST API.
Change(p, row, choice) ==
  /\ edits < MaxEdits
  /\ edits' = edits + 1
  /\ cat' = [cat EXCEPT ![p] = row]
  /\ will' = [will EXCEPT ![p] = choice]
  /\ UNCHANGED <<applied, watch, rolled, lit0060>>

\* The settings row is created empty by its accessor.  Code that knows a column fills it in (the ledger's hash, sequence >= 1).
Conforming(p) == {i \in applied : /\ p \in DOMAIN (Ledger @@ IntentSteps)
                                  /\ \E op \in Named(Graph[i].up, p) : op.do \in {"hash", "patch"}}
Add(p, on) ==
  /\ ~Present(cat[p])
  /\ TableOf(p) \in Columns
  /\ Change(p, [cat[p] EXCEPT !.is = IF p = "settings" THEN "shipped" ELSE "own",
                              !.on = on, !.patch = Conforming(p)],
            IF on THEN "on" ELSE "off")

\* A change of columns or steps that migrations compare; of the settings, the
\* transport chains.
Edit(p) ==
  /\ cat[p].is = "shipped"
  /\ p = "settings" => "policy" \in Columns
  /\ Change(p, [cat[p] EXCEPT !.is = "edited", !.patch = {}], will[p])

Toggle(p) ==
  /\ Present(cat[p])
  /\ Change(p, [cat[p] EXCEPT !.on = ~@], IF cat[p].on THEN "off" ELSE "on")

\* An execution of the procedure; for the settings row, any execution.
Execute(p) ==
  /\ p \in DOMAIN (Procedures @@ Settings)
  /\ Present(cat[p]) \/ p = "settings"
  /\ "execution" \in Columns
  /\ ~cat[p].used
  /\ Change(p, [cat[p] EXCEPT !.used = TRUE], will[p])

Discard(p) ==
  /\ p \in DOMAIN Procedures
  /\ Present(cat[p]) /\ Deleted(cat[p]) # Refused
  /\ Change(p, Deleted(cat[p]), "none")

Operator == \E p \in watch : \/ \E on \in BOOLEAN : Add(p, on)
                             \/ Edit(p) \/ Toggle(p) \/ Execute(p) \/ Discard(p)

Next == \/ \E i \in Ready : Apply(i)
        \/ \E i \in Tips : Unapply(i)
        \/ Operator

Spec == Init /\ [][Next]_vars
\* An upgrade, once begun, goes on while a migration can be applied.
FairSpec == Spec /\ WF_vars(\E i \in Ready : Apply(i))

---------------------------------------------------------------------------
\* Families the documentation calls disabled by default.
Dark == Akvorado @@ EnvFile @@ Huawei @@ Influx3 @@ GiteaUpgrade @@ RunnerRegister
        @@ PluginInstall @@ OrgRunner @@ AkvoradoBootstrap @@ AppRole @@ UserRunnerRecovery
        @@ OrgRunnerRecovery @@ ProxboxImages @@ Pbs
\* Rows whose migrations refuse to take over somebody else's row.
Owned == GiteaUpgrade @@ OpenBaoSlug @@ OpenBao @@ DnsPair @@ AkvoradoBootstrap @@ AppRole
         @@ UserRunnerRecovery @@ OrgRunnerRecovery @@ OciPull @@ OpenBaoImport
         @@ ReleaseMarker @@ ProxboxImages @@ SambaAdDc @@ RqWorker @@ IamUi @@ Fences
\* Rows whose seed writes enabled=True over what it finds.
Overriding == SshKey @@ Mellanox @@ AgentInstall @@ Exemplars @@ Systemctl @@ SambaRead
              @@ SambaWrite @@ SambaIdentity @@ Influx @@ InfluxOnboarding @@ Upgrade26
              @@ Rotation @@ ReleaseMarker @@ InfluxSlug @@ NetBoxSlugs @@ Influx3Slug
              @@ RunnerSlugs @@ SambaIntents @@ Upgrade26Intent @@ Settings
PinnedAtHead == Rotation @@ RunUpgrade @@ OrgRunner @@ DnsPair @@ AkvoradoBootstrap
                @@ UserRunnerRecovery @@ OrgRunnerRecovery @@ OciPull @@ ProxboxImages
                @@ SambaAdDc @@ RqWorker @@ PbsDatastore @@ IamUi
AmendedAtHead(p) ==
  {a[1] : a \in {b \in {<<"M0010", Mellanox>>, <<"M0015", VltDomainAndLacp>>,
                        <<"M0020", QemuLifecycle>>, <<"M0021", QemuLifecycle>>,
                        <<"M0022", QemuLifecycle>>, <<"M0023", QemuLifecycle>>,
                        <<"M0024", QemuLifecycle>>, <<"M0025", QemuLifecycle>>,
                        <<"M0036_harden", SshHosts>>, <<"M0066_limits", RunUpgrade>>,
                        <<"M0068_widen", RestartService>>, <<"M0095", Packer>>,
                        <<"M0099", OpenBaoImport>>, <<"M0100", OpenBaoImport>>}
                   : p \in DOMAIN b[2]}}

---------------------------------------------------------------------------
\* Facts about the tables and the graph, without variables: they are decided by
\* evaluating them, and the proofs rest on them.

\* Everything a migration comes after: what is at most 2, 4, ... 128 dependencies
\* away; GraphAssumption says that 128 are enough.
Doubled(R)  == [i \in Ids |-> R[i] \union UNION {R[j] : j \in R[i]}]
Within2   == Doubled([i \in Ids |-> Graph[i].needs])
Within4   == Doubled(Within2)
Within8   == Doubled(Within4)
Within16  == Doubled(Within8)
Within32  == Doubled(Within16)
Within64  == Doubled(Within32)
Ancestors == Doubled(Within64)
ASSUME GraphAssumption ==
  \A i \in Ids :
    /\ Graph[i].needs \subseteq Ids
    /\ Ancestors[i] = UNION {{j} \union Ancestors[j] : j \in Graph[i].needs}
    /\ \A j \in Ancestors[i] : \E k \in {i} \union Ancestors[i] : j \in Graph[k].needs

Seeding == {"upsert", "create", "strict", "loose", "relight"}
Erasing == {"delete", "delete_free", "wipe"}
Quiet   == {"commands", "drop_commands", "patch", "patch_if", "unpatch", "swap", "unswap",
            "swap_all", "unswap_all", "pin", "unpin", "link", "need", "unlink", "hash",
            "guard", "unguard"}
\* A list is short, consists of known operations, and never writes a row again
\* that it has erased.
ASSUME ListsAssumption ==
  \A i \in Ids : \A ops \in {Graph[i].up, Graph[i].down} :
    /\ Len(ops) \in 0..2 /\ DOMAIN ops = 1..Len(ops)
    /\ \A k \in DOMAIN ops :
         /\ ops[k].do \in Seeding \union Erasing \union Quiet
                          \union {"disable", "opt_in", "policy", "reset", "refuse"}
         /\ ops[k].do = "refuse" => ops[k].rows = {}
         /\ ops[k].on \in {"on", "off", "kept"}
    /\ Len(ops) = 2 /\ ops[1].do \in Erasing => ops[1].rows \intersect ops[2].rows = {}

\* The operations that may leave a row enabled that was not, and those that may
\* do so to a row that exists.
Lights(op) == op.do \in {"relight", "opt_in"} \/ (op.do \in Seeding /\ op.on # "off")
Relights(op) == op.do \in {"relight", "opt_in"} \/ (op.do = "upsert" /\ op.on = "on")
\* The list leaves row p disabled or deletes it.
Darkens(ops, p) ==
  \E k \in DOMAIN ops : /\ p \in ops[k].rows /\ ops[k].do \in {"delete", "disable", "wipe"}
                        /\ \A n \in DOMAIN ops : n > k => p \notin ops[n].rows
\* Operations of migration i on row p, in either direction.
Ops(i, p) == Named(Graph[i].up, p) \union Named(Graph[i].down, p)
\* The rows no migration enables.
Unlit == {p \in DOMAIN Catalogue : \A i \in Ids : \A op \in Ops(i, p) : ~Lights(op)}

\* What is shipped disabled is enabled by no migration, only the overriding seeds
\* enable a row they find, and what a migration may have enabled is disabled or
\* deleted on the way back, unless an earlier one is about the row too.
ASSUME LightAssumption ==
  /\ DOMAIN Dark \subseteq Unlit
  /\ \A i \in Ids : \A p \in DOMAIN Catalogue :
       /\ p \notin DOMAIN Overriding => \A op \in Ops(i, p) : ~Relights(op)
       /\ p = "settings" => \A op \in Ops(i, p) : op.do \notin Seeding
       /\ Named(Graph[i].up, p) = {} => \A op \in Named(Graph[i].down, p) : ~Lights(op)
       /\ \/ p \in Unlit \/ p = "settings" \/ p \in DOMAIN (Pterodactyl @@ Minecraft)
          \/ Named(Graph[i].up, p) = {} \/ Graph[i].down = Irreversible
          \/ Darkens(Graph[i].down, p)
          \/ \E j \in Ancestors[i] : Named(Graph[j].up, p) # {}

\* 0060 seeds one row and 0061 disables it.
ASSUME EnvFileAssumption ==
  /\ "env_file.upsert_var" \in Unlit
  /\ "M0061" \in Ids /\ "M0060" \in Graph["M0061"].needs
  /\ Darkens(Graph["M0061"].up, "env_file.upsert_var")
  /\ \E op \in Named(Graph["M0060"].up, "env_file.upsert_var") : op.do = "upsert"
  /\ Len(Graph["M0060"].up) = 1

\* No procedure is wiped; the migrations of the owned families seed a row, swap
\* a column or disable; transport chains go with their columns.
ASSUME KeepAssumption ==
  /\ "settings" \notin DOMAIN Procedures /\ DOMAIN Settings = {"settings"}
  /\ DOMAIN (Procedures @@ Settings) = DOMAIN Procedures \union {"settings"}
  /\ DOMAIN Owned \intersect (DOMAIN (Ledger @@ IntentSteps) \union {"settings"}) = {}
  /\ \A i \in Ids : \A p \in DOMAIN Catalogue :
       /\ p \in DOMAIN Procedures => \A op \in Ops(i, p) : op.do # "wipe"
       /\ p \in DOMAIN Owned =>
            /\ \A op \in Named(Graph[i].up, p) :
                 op.do \in {"create", "strict", "loose", "relight", "swap", "swap_all"}
            /\ \A op \in Named(Graph[i].down, p) : op.do \in {"disable", "unswap", "unswap_all"}
  /\ \A i \in Ids :
       /\ "policy" \in Graph[i].adds => i = "M0074"
       /\ \A op \in Named(Graph[i].up, "settings") : op.do \in {"opt_in", "policy"}
       /\ \A op \in Named(Graph[i].down, "settings") :
            \/ op.do = "unpatch"
            \/ op.do \in {"reset", "wipe"} /\ i \in Ancestors["M0074"] \union {"M0074"}

---------------------------------------------------------------------------
TypeOK ==
  /\ applied \subseteq Ids
  /\ \A i \in applied : Graph[i].needs \subseteq applied
  /\ watch \in Watches
  /\ \A p \in watch :
       /\ cat[p].is \in {"absent", "shipped", "edited", "own"}
       /\ cat[p].patch \subseteq applied
       /\ ~Present(cat[p]) => ~cat[p].on /\ ~cat[p].linked /\ will[p] = "none"
  /\ edits \in 0..MaxEdits

\* The functions of a migration only meet tables and columns that exist, in
\* every order the graph allows.
ColumnsThere ==
  LET there == Columns IN \A i \in Ready : Graph[i].uses \subseteq there \union Graph[i].adds

\* A procedure shipped disabled is enabled only by the operator; until 0061
\* has run, a database that met the first edition of 0060 is the exception.
DarkUntilLit ==
  \A p \in watch \intersect DOMAIN Dark : cat[p].on =>
    \/ will[p] = "on"
    \/ p = "env_file.upsert_var" /\ lit0060 /\ "M0061" \notin applied

\* What is enabled was enabled by the operator or by an applied migration: a
\* rollback leaves nothing running that it no longer knows (0016 and 0029 keep
\* their rows), and the integration is only opted in where it was in use.
EnabledForAReason ==
  \A p \in watch : cat[p].on =>
    \/ will[p] = "on"
    \/ p = "settings" /\ cat[p].used
    \/ p # "settings" /\ \E i \in applied : Named(Graph[i].up, p) # {}
    \/ p \in DOMAIN (Pterodactyl @@ Minecraft)
    \/ p = "env_file.upsert_var" /\ lit0060 /\ "M0061" \notin applied

\* What the operator disabled stays disabled, whatever is applied or reversed.
OffStaysOff ==
  \A p \in watch \ DOMAIN Overriding :
    will[p] = "off" => ~cat[p].on \/ (p = "env_file.upsert_var" /\ lit0060)

\* Once its migration is applied, every event has a hash and every intent step
\* a sequence of at least one, the old ones included.
Backfilled ==
  \A p \in watch : Present(cat[p]) =>
    /\ p = "ledger" /\ "M0031_payload_hash" \in applied => "M0031_payload_hash" \in cat[p].patch
    /\ p = "intent_steps" /\ "M0040" \in applied => "M0040" \in cat[p].patch

\* At the head of the graph an untouched catalogue is the same whichever order
\* was taken and whatever was reversed on the way, except that the RQ worker
\* and IAM UI rows stay as a rollback left them.
HeadCatalogue ==
  applied = Ids /\ edits = 0 =>
    \A p \in watch \intersect DOMAIN Procedures :
      /\ cat[p].is = "shipped"
      /\ \/ cat[p].on = (p \notin DOMAIN Dark)
         \/ rolled /\ p \in DOMAIN (RqWorker @@ IamUi)
      /\ cat[p].cmds = (p # "nmap-scan")
      /\ cat[p].pin = (p \in DOMAIN PinnedAtHead)
      /\ cat[p].patch = AmendedAtHead(p)
      /\ cat[p].linked = (p \in DOMAIN (SambaSteps @@ Upgrade26))

\* An upgrade comes to the head, whatever order it takes, unless the operator
\* touched a row whose migration refuses to take it over or to do without it.
UpgradeCompletes ==
  <>(\/ applied = Ids
     \/ /\ edits > 0
        /\ watch \subseteq DOMAIN (Owned @@ RunnerRegister @@ Upgrade26)
        /\ \E i \in Ready : Raises(Forward(i)))

\* A row is enabled only for a reason that still stands, in every order of
\* upgrades, rollbacks and changes by the operator.
LitForAReason == DarkUntilLit /\ EnabledForAReason /\ OffStaysOff

\* In every order the graph allows, functions meet the columns they need, old
\* rows are filled in, and the head is the same catalogue.
HeadIsComplete == TypeOK /\ ColumnsThere /\ Backfilled /\ HeadCatalogue

\* What a migration or its reversal never destroys: a procedure with executions
\* (nobody deletes one), a row of the owned families that the operator created
\* or edited (the migration refuses instead), and transport chains the operator
\* set, as long as their columns exist.
KeptByMigrations ==
  [][\A p \in watch :
       /\ cat[p].used => cat'[p].used /\ (p \in DOMAIN Procedures => Present(cat'[p]))
       /\ applied' # applied /\ applied \subseteq applied' /\ p \in DOMAIN Owned
            /\ cat[p].is \in {"own", "edited"} => cat'[p] = cat[p]
       /\ p \in DOMAIN Settings /\ cat[p].is = "edited" /\ "policy" \in Columns'
            => cat'[p].is = "edited"]_vars

=============================================================================
