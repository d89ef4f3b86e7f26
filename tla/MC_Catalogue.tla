----------------------------- MODULE MC_Catalogue -----------------------------
(***************************************************************************)
(* The migrations of the catalogue, followed in one of four ways.          *)
(* "history": upgrades, rollbacks and two changes by the operator, for one *)
(* row of each way in which rows are seeded, amended and reversed.         *)
(* "upgrade": an upgrade with one change, for every row of the catalogue   *)
(* up to treatment: rows that the same operations name stand for each      *)
(* other.                                                                  *)
(* "pair": upgrades, rollbacks and three changes of the publication pair,  *)
(* for databases without the pair, with a complete pair in each form, with *)
(* half of it and with one row changed.  "adoption": its upgrade alone.    *)
(***************************************************************************)
EXTENDS CatalogueMigrations, AdoptedPair

CONSTANT Parts

VARIABLE part

AllWatches == {{p} : p \in DOMAIN Catalogue}
\* The operations that name a row, and what the properties tell apart.
Treatment(p) ==
  LET named(ops) == {k \in DOMAIN ops : p \in ops[k].rows}
  IN  <<[i \in Ids |-> <<named(Graph[i].up), named(Graph[i].down)>>], TableOf(p),
        [k \in 1..4 |-> p \in DOMAIN <<Dark, Owned, Overriding, PinnedAtHead>>[k]]>>
\* One row of each treatment.
Representatives ==
  LET treatment == [p \in DOMAIN Catalogue |-> Treatment(p)]
  IN  {CHOOSE p \in DOMAIN Catalogue : treatment[p] = t :
         t \in {treatment[q] : q \in DOMAIN Catalogue}}
\* One row of each way in which rows are seeded, amended and reversed.
Followed == {
  "ubuntu.restart_service", "ubuntu.install_ssh_key", "proxmox.convert_mellanox",
  "dell.configure_vlt_domain", "pterodactyl.artisan", "minecraft.papermc", "nmap-scan",
  "samba.config_test", "influxdb.inspect", "akvorado.restart_stack", "env_file.upsert_var",
  "upgrade_26.run_upgrade", "ne8000.show_bgp_peer", "staging.rotate_backend_token",
  "gitea.upgrade_1_27_1", "gitea.runner.register", "runner.provision_org",
  "debian13.install_akvorado", "runner.recover_user", "proxmox.oci_registry_pull",
  "openbao_import.apply", "release_marker.reconcile", "release_images.recover",
  "samba_ad_dc.provision", "production.restart_rq_worker", "iam_ui.activate",
  "allow.netbox-rq", "allow.openbao", "intent.ubuntu_upgrade_26", "settings", "fence",
  "ledger", "intent_steps"}

PairRow(is, on, marker) == [is |-> is, on |-> on, marker |-> marker]
NoRow == PairRow("absent", FALSE, "unmarked")
Twice(row) == [n \in {"prove", "provision"} |-> row]
Found == {PairRow("exact", on, m) : on \in BOOLEAN, m \in {"unmarked", "predecessor"}}
EachLegacy ==
  {Twice(r) : r \in Found \union {NoRow}}
  \union {[Twice(r) EXCEPT !["provision"] = NoRow] : r \in Found}
  \union {[Twice(r) EXCEPT !["prove"].is = "edited"] : r \in Found}

---------------------------------------------------------------------------
pairing == <<pairDone, pairRows, pairFound, pairEdits, pairWill>>

CatalogueInit ==
  /\ part \in Parts
  /\ watch \in CASE part = "history" -> {{p} : p \in Followed}
                 [] part = "upgrade" -> {{p} : p \in Representatives}
                 [] OTHER -> {{"nmap-scan"}}
  /\ Init
  /\ IF part \in {"pair", "adoption"} THEN Pair!Init ELSE pairFound = Twice(NoRow) /\ Pair!Init

\* A step of the part followed.
History == part = "history" /\ Next /\ UNCHANGED <<part, pairing>>
Migrate == part = "upgrade" /\ (\E i \in Ready : Apply(i)) /\ UNCHANGED <<part, pairing>>
Operate == part = "upgrade" /\ edits = 0 /\ Operator /\ UNCHANGED <<part, pairing>>
PairHistory == part = "pair" /\ Pair!Next /\ UNCHANGED <<part, vars>>
Adopt == part = "adoption" /\ Pair!Apply /\ UNCHANGED <<part, vars>>
OperatePair ==
  /\ part = "adoption" /\ \E n \in {"prove", "provision"} : Pair!Operator(n)
  /\ UNCHANGED <<part, vars>>
CatalogueNext == History \/ Migrate \/ Operate \/ PairHistory \/ Adopt \/ OperatePair

CatalogueVars == <<part, vars, pairing>>
\* An upgrade, once begun, goes on while a migration can be applied.
CatalogueSpec ==
  /\ CatalogueInit /\ [][CatalogueNext]_CatalogueVars
  /\ WF_CatalogueVars(Migrate) /\ WF_CatalogueVars(Adopt)

---------------------------------------------------------------------------
\* Every order of upgrades and rollbacks leads to the same head: of the
\* catalogue, and of the publication pair with its provenance.
HeadIsOne == HeadIsComplete /\ Pair!PairIsWhole

\* An upgrade comes to the head, whatever order it takes, unless the operator
\* touched a row whose migration refuses to take it over or to do without it;
\* so does the adoption of a pair that is missing, or complete and enabled.
EveryUpgradeCompletes ==
  /\ part = "upgrade" => UpgradeCompletes
  /\ part = "adoption" => Pair!AdoptionCompletes
=============================================================================
