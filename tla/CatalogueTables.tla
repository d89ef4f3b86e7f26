-------------------------- MODULE CatalogueTables --------------------------
(***************************************************************************)
(* The procedures that the data migrations of netbox_rpc/migrations ship,  *)
(* one table per migration.  A table gives each procedure its effect; for  *)
(* a row of another model it says which.  Approval, handler, schemas,      *)
(* timeouts and descriptions are abstracted away: the properties are about *)
(* which rows there are and whether they are enabled.  The names drop the  *)
(* leading namespace ("service.nginx.1.reload" is "nginx.reload").         *)
(***************************************************************************)
EXTENDS TLC

Policy(S, effect) == [p \in S |-> effect]
Reads(S)    == Policy(S, "read")
Writes(S)   == Policy(S, "write")
Destroys(S) == Policy(S, "destructive")

Initial == Writes({"olt.start_ont", "ubuntu.restart_service"})
Nginx == Reads({"nginx.config_test"}) @@ Writes({"nginx.config_deploy", "nginx.reload"})
         @@ Destroys({"nginx.rollback"})
Systemd == Reads({"ubuntu.status_service", "ubuntu.journal_tail"})
           @@ Writes({"ubuntu.start_service", "ubuntu.stop_service",
                      "ubuntu.reload_service", "ubuntu.enable_service",
                      "ubuntu.disable_service", "ubuntu.daemon_reload"})
SshKey == Writes({"ubuntu.install_ssh_key"})
Mellanox == Destroys({"proxmox.convert_mellanox"})
Dell == Reads({"dell.show_version"})
        @@ Writes({"dell.bootstrap_restconf", "dell.set_interface_description",
                   "dell.set_vlan_description", "dell.write_memory"})
Vlt == Reads({"dell.show_vlt"})
       @@ Writes({"dell.configure_vlt_domain", "dell.configure_vlt_peer"})
PortChannel == Writes({"dell.configure_port_channel", "dell.configure_interface_lacp"})
Breakout == Writes({"dell.configure_interface_breakout"})
Fec == Writes({"dell.configure_interface_fec"})
Pterodactyl == Reads({"pterodactyl.container_logs"})
               @@ Writes({"pterodactyl.artisan", "pterodactyl.bootstrap_api_key"})
Transceiver == Writes({"dell.allow_third_party_transceiver"})
Packer == Reads({"packer.test_ssh_connectivity", "packer.check_agent_running",
                 "packer.verify_services", "packer.collect_info"})
QemuLifecycle == Destroys({"proxmox.qemu_vm_lifecycle"})
DnsHost == Reads({"dns_host.status"}) @@ Writes({"dns_host.deploy"})
AgentInstall == Writes({"ubuntu.install_qemu_guest_agent", "ubuntu.install_zabbix_agent2"})
Minecraft == Reads({"wings.status", "wings.logs"})
             @@ Writes({"wings.restart", "minecraft.plugin", "minecraft.viaversion",
                        "minecraft.papermc"})
Exemplars == Reads({"proxmox.pvesh_json", "linux.collect_facts", "dell.show_version_structured"})
Ookla == Reads({"ookla.diagnose", "ookla.check_service", "ookla.check_listeners",
                "ookla.check_tls", "ookla.check_firewall"})
Systemctl == Reads({"proxmox.show_systemctl_services"})
Nmap == Reads({"nmap-scan"})
Passbolt == Destroys({"passbolt.export", "passbolt.transfer", "passbolt.import",
                      "passbolt.cleanup"})
SambaRead == Reads({"samba.config_read", "samba.config_test", "samba.config_list_files",
                    "samba.include_file_read", "samba.service_status", "samba.version",
                    "samba.list_shares", "samba.status_report", "samba.domain_info",
                    "samba.user_list", "samba.group_list", "samba.share_acl_read"})
SambaWrite == Writes({"samba.config_deploy", "samba.include_file_write",
                      "samba.share_upsert", "samba.service_control"})
              @@ Destroys({"samba.config_rollback", "samba.include_file_delete",
                           "samba.share_delete"})
SambaIdentity == Writes({"samba.user_create", "samba.user_set_password", "samba.user_enable",
                         "samba.user_disable", "samba.group_create",
                         "samba.group_add_members", "samba.group_remove_members"})
                 @@ Destroys({"samba.user_delete", "samba.group_delete"})
InfluxReads == Reads({"influxdb.inspect", "influxdb.config_read", "influxdb.files_list",
                      "influxdb.file_read", "influxdb.service_status", "influxdb.health",
                      "influxdb.journal"})
InfluxWrites == Writes({"influxdb.config_deploy", "influxdb.file_write",
                        "influxdb.service_control"})
                @@ Destroys({"influxdb.config_rollback", "influxdb.file_delete"})
Influx == InfluxReads @@ InfluxWrites
InfluxOnboarding == Writes({"influxdb.bootstrap", "influxdb.database_create",
                            "influxdb.token_create"})
Akvorado == Reads({"akvorado.config_read", "akvorado.status_stack"})
            @@ Writes({"akvorado.config_deploy", "akvorado.restart_stack"})
EnvFile == Writes({"env_file.upsert_var"})
Upgrade26 == Reads({"upgrade_26.analyze", "upgrade_26.verify"})
             @@ Writes({"upgrade_26.save_state"}) @@ Destroys({"upgrade_26.run_upgrade"})
Huawei == Reads({"ne8000.show_bgp_peer"})
Rotation == Destroys({"staging.rotate_backend_token"})
Influx3 == Reads({"debian13.preflight_influxdb3"}) @@ Writes({"debian13.install_influxdb3"})
GiteaUpgrade == Destroys({"gitea.upgrade_1_27_1"})
OpenBaoReads == Reads({"openbao.inspect", "openbao.seal_status", "openbao.health",
                       "openbao.policies_list", "openbao.auth_list", "openbao.secrets_list",
                       "openbao.audit_list", "openbao.raft_list_peers",
                       "openbao.raft_autopilot_state", "openbao.snapshots_list"})
OpenBaoWrites == Writes({"openbao.auth_enable", "openbao.secrets_enable",
                         "openbao.audit_enable", "openbao.snapshot_create",
                         "openbao.service_action"})
OpenBaoDestroys == Destroys({"openbao.seal", "openbao.step_down",
                             "openbao.raft_remove_peer", "openbao.policy_delete",
                             "openbao.auth_disable", "openbao.secrets_disable",
                             "openbao.audit_disable"})
OpenBao == OpenBaoReads @@ OpenBaoWrites @@ OpenBaoDestroys
RunnerRegister == Destroys({"gitea.runner.register"})
PluginInstall == Writes({"netbox.plugin.install"})
OrgRunner == Writes({"runner.provision_org"})
DnsPair == Destroys({"staging.deploy_dns_pair"})
AkvoradoBootstrap == Reads({"debian13.preflight_akvorado"})
                     @@ Writes({"debian13.install_akvorado"})
AppRole == Writes({"openbao.provision_netbox_approle"})
UserRunnerRecovery == Reads({"runner.diagnose_user"}) @@ Writes({"runner.recover_user"})
OrgRunnerRecovery == Reads({"runner.diagnose_org"}) @@ Writes({"runner.recover_org"})
OciPull == Writes({"proxmox.oci_registry_pull"})
OpenBaoImport == Reads({"openbao_import.dry_run"}) @@ Destroys({"openbao_import.apply"})
ReleaseMarker == Reads({"release_marker.check"}) @@ Destroys({"release_marker.reconcile"})
ProxboxImages == Reads({"release_images.inspect"}) @@ Destroys({"release_images.recover"})
SambaAdDc == Reads({"samba_ad_dc.preflight", "samba_ad_dc.verify"})
             @@ Destroys({"samba_ad_dc.provision"})
RqWorker == Reads({"production.status_rq_worker"})
            @@ Writes({"production.restart_rq_worker"})
PbsReads == Reads({"pbs.status", "pbs.cert_fingerprint", "pbs.disk_list"})
PbsDatastore == Destroys({"pbs.datastore_from_disk"})
Pbs == PbsReads @@ PbsDatastore
IamUi == Reads({"iam_ui.inspect"})
         @@ Writes({"iam_ui.configure", "iam_ui.certificate", "iam_ui.activate"})

\* The rows that later migrations amend.
VltDomainAndLacp == Writes({"dell.configure_vlt_domain", "dell.configure_interface_lacp"})
RestartService   == Writes({"ubuntu.restart_service"})
RunUpgrade       == Destroys({"upgrade_26.run_upgrade"})

\* Linux service allowlist slugs; the twenty Gitea runner units are one row.
Slugs(S)    == Policy(S, "allowlist")
InfluxSlug  == Slugs({"allow.influxdb"})
NetBoxSlugs == Slugs({"allow.netbox", "allow.netbox-rq"})
Influx3Slug == Slugs({"allow.influxdb3-core"})
RunnerSlugs == Slugs({"allow.gitea-act-runner"})
OpenBaoSlug == Slugs({"allow.openbao"})
LegacyRqSlug == Slugs({"allow.netbox-rq"})

\* Intents, and the procedures the Samba ones group.
Intents(S) == Policy(S, "intent")
SambaIntents == Intents({"intent.samba.collect_state", "intent.samba.deploy_config"})
SambaSteps == Intents({"samba.version", "samba.service_status", "samba.config_read",
                       "samba.config_test", "samba.list_shares", "samba.status_report",
                       "samba.user_list", "samba.group_list", "samba.domain_info",
                       "samba.config_deploy", "samba.service_control"})
Upgrade26Intent == Intents({"intent.ubuntu_upgrade_26"})

\* The singleton row of RpcPluginSettings, and the Gitea runner scope fences.
Settings == Policy({"settings"}, "settings")
Fences   == Policy({"fence"}, "fence")
\* The events and the intent steps recorded so far, each taken as one row.
Ledger      == Policy({"ledger"}, "event")
IntentSteps == Policy({"intent_steps"}, "intents")

\* Every procedure of the catalogue with its effect; the protected publication
\* pair (0104) is module PublicationPair's.
Procedures ==
  Initial @@ Nginx @@ Systemd @@ SshKey @@ Mellanox @@ Dell @@ Vlt @@ PortChannel
  @@ Breakout @@ Fec @@ Pterodactyl @@ Transceiver @@ Packer @@ QemuLifecycle @@ DnsHost
  @@ AgentInstall @@ Minecraft @@ Exemplars @@ Ookla @@ Systemctl @@ Nmap @@ Passbolt
  @@ SambaRead @@ SambaWrite @@ SambaIdentity @@ Influx @@ InfluxOnboarding @@ Akvorado
  @@ EnvFile @@ Upgrade26 @@ Huawei @@ Rotation @@ Influx3 @@ GiteaUpgrade @@ OpenBao
  @@ RunnerRegister @@ PluginInstall @@ OrgRunner @@ DnsPair @@ AkvoradoBootstrap
  @@ AppRole @@ UserRunnerRecovery @@ OrgRunnerRecovery @@ OciPull @@ OpenBaoImport
  @@ ReleaseMarker @@ ProxboxImages @@ SambaAdDc @@ RqWorker @@ Pbs @@ IamUi

Catalogue == Procedures @@ InfluxSlug @@ NetBoxSlugs @@ Influx3Slug @@ RunnerSlugs
             @@ OpenBaoSlug @@ SambaIntents @@ Upgrade26Intent @@ Settings @@ Fences
             @@ Ledger @@ IntentSteps
=============================================================================
