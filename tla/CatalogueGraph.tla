--------------------------- MODULE CatalogueGraph ---------------------------
(***************************************************************************)
(* The migrations of netbox_rpc/migrations, one definition per file: the   *)
(* migrations it depends on (its dependencies, and the files that declare  *)
(* run_before it), the tables or columns it adds, the ones its functions   *)
(* use, and what its forward and reverse functions do to the catalogue.    *)
(* Column types, indexes, tags and constraint names are abstracted away.   *)
(***************************************************************************)
EXTENDS CatalogueOps

Migration(needs, adds, uses, up, down) ==
  [needs |-> needs, adds |-> adds, uses |-> uses, up |-> up, down |-> down]
Schema(needs, adds)         == Migration(needs, adds, {}, <<>>, <<>>)
Merge(needs)                == Schema(needs, {})
Seed(needs, uses, up, down) == Migration(needs, {}, uses, up, down)

\* The columns of a procedure's full contract.
Contract == {"commands", "drivers", "chain", "templating"}
Steps    == {"cmds"}
Sealed   == {"cmds", "pin"}

M0001 == Schema({}, {"procedure", "allowlist", "execution", "event"})
M0002 == Seed({"M0001"}, {}, <<Upsert(Initial, "kept", {})>>, <<Delete(Initial)>>)
M0003 == Seed({"M0002"}, {}, <<Upsert(Nginx, "kept", {})>>, <<Delete(Nginx)>>)
M0004 == Seed({"M0003"}, {}, <<Upsert(Systemd, "kept", {})>>, <<Delete(Systemd)>>)
M0005 == Schema({"M0004"}, {"ssh_credential_override"})
M0006 == Seed({"M0005"}, {}, <<Upsert(SshKey, "on", {})>>, <<Delete(SshKey)>>)
M0007 == Schema({"M0006"}, {"tags"})
M0008 == Seed({"M0007"}, {}, <<Upsert(Mellanox, "on", {})>>, <<Delete(Mellanox)>>)
M0009 == Seed({"M0008"}, {}, <<Upsert(Dell, "kept", {})>>, <<Delete(Dell)>>)
M0010 == Seed({"M0009"}, {}, <<Patch(Mellanox)>>, <<Unpatch(Mellanox)>>)
M0011 == Seed({"M0010"}, {}, <<Upsert(Vlt, "kept", {})>>, <<Delete(Vlt)>>)
M0012 == Seed({"M0011"}, {}, <<Upsert(PortChannel, "kept", {})>>, <<Delete(PortChannel)>>)
M0013 == Seed({"M0012"}, {}, <<Upsert(Breakout, "kept", {})>>, <<Delete(Breakout)>>)
M0014 == Seed({"M0013"}, {}, <<Upsert(Fec, "kept", {})>>, <<Delete(Fec)>>)
M0015 == Seed({"M0014"}, {}, <<Patch(VltDomainAndLacp)>>, <<Unpatch(VltDomainAndLacp)>>)
M0016 == Seed({"M0015"}, {}, <<Upsert(Pterodactyl, "kept", {})>>, <<>>)
M0017 == Seed({"M0016"}, {}, <<Upsert(Transceiver, "kept", {})>>, <<Delete(Transceiver)>>)
M0018 == Seed({"M0017"}, {}, <<Upsert(Packer, "kept", {})>>, <<Delete(Packer)>>)
M0019 == Seed({"M0017"}, {}, <<Upsert(QemuLifecycle, "kept", {})>>,
              <<Delete(QemuLifecycle)>>)
M0020 == Seed({"M0019"}, {}, <<Patch(QemuLifecycle)>>, <<Unpatch(QemuLifecycle)>>)
M0021 == Seed({"M0020"}, {}, <<Patch(QemuLifecycle)>>, <<Unpatch(QemuLifecycle)>>)
M0022 == Seed({"M0021"}, {}, <<Patch(QemuLifecycle)>>, <<Unpatch(QemuLifecycle)>>)
M0023 == Seed({"M0022"}, {}, <<Patch(QemuLifecycle)>>, <<Unpatch(QemuLifecycle)>>)
M0024 == Seed({"M0023"}, {}, <<Patch(QemuLifecycle)>>, <<Unpatch(QemuLifecycle)>>)
M0025 == Seed({"M0024"}, {}, <<Patch(QemuLifecycle)>>, <<Unpatch(QemuLifecycle)>>)
M0026 == Merge({"M0018", "M0025"})
M0027 == Seed({"M0026"}, {}, <<Upsert(DnsHost, "kept", {})>>, <<Delete(DnsHost)>>)
M0028 == Seed({"M0027"}, {}, <<Upsert(AgentInstall, "on", {})>>, <<Delete(AgentInstall)>>)
M0029 == Seed({"M0028"}, {}, <<Upsert(Minecraft, "kept", {})>>, <<>>)
M0030 == Schema({"M0029"}, {"drivers"})
M0031_payload_hash == Migration({"M0030"}, {"payload_hash"}, {"event"},
                                <<Do("hash", Ledger), Do("guard", Ledger)>>,
                                <<Do("unguard", Ledger), Unpatch(Ledger)>>)
M0031_exemplars == Seed({"M0030"}, {"drivers"},
                        <<Upsert(Exemplars, "on", {})>>, <<Delete(Exemplars)>>)
M0032 == Merge({"M0031_payload_hash", "M0031_exemplars"})
M0033 == Schema({"M0032"}, {"backend"})
M0034 == Schema({"M0033"}, {})
M0035 == Seed({"M0034"}, {}, <<Upsert(Ookla, "kept", {})>>, <<Delete(Ookla)>>)

SshHosts == AgentInstall @@ Minecraft @@ Ookla
M0036_harden == Seed({"M0035"}, {}, <<Patch(SshHosts)>>, <<Unpatch(SshHosts)>>)
M0036_commands == Schema({"M0035"}, {"commands"})
FirstFamilies == Initial @@ Nginx @@ Systemd @@ SshKey @@ Mellanox @@ Dell @@ Vlt
                 @@ PortChannel @@ Breakout @@ Fec @@ Pterodactyl @@ Transceiver @@ Packer
                 @@ QemuLifecycle @@ DnsHost @@ SshHosts @@ Exemplars
M0037 == Seed({"M0036_commands"}, {"commands"},
              <<Commands(FirstFamilies)>>, <<DropCommands(FirstFamilies)>>)
M0038 == Merge({"M0036_harden", "M0037"})
M0039 == Migration({"M0038"}, {"intents"}, {},
                   <<>>, <<Do("wipe", SambaIntents @@ Upgrade26Intent @@ IntentSteps)>>)
M0040 == Seed({"M0039"}, {"intents"}, <<Patch(IntentSteps)>>, <<Unpatch(IntentSteps)>>)
M0041 == Schema({"M0040"}, {"templating"})
M0042 == Schema({"M0041"}, {"chain"})
M0043 == Schema({"M0042"}, {"backend_address"})
M0044_settings == Migration({"M0043"}, {"settings"}, {},
                            <<>>, <<Do("wipe", Settings)>>)
M0044_systemctl == Seed({"M0043"}, {},
                        <<Upsert(Systemctl, "on", {})>>, <<Delete(Systemctl)>>)
M0045_nmap == Seed({"M0044_settings"}, {},
                   <<Upsert(Nmap, "kept", {})>>, <<Delete(Nmap)>>)
M0045_command == Seed({"M0044_systemctl"}, {"commands"},
                      <<Commands(Systemctl)>>, <<DropCommands(Systemctl)>>)
M0046 == Merge({"M0044_settings", "M0045_command"})
M0047 == Merge({"M0045_nmap", "M0046"})
M0048 == Seed({"M0047"}, {"commands"},
              <<Upsert(Passbolt, "kept", {}), Commands(Passbolt)>>,
              <<DropCommands(Passbolt), Delete(Passbolt)>>)
M0049_approval == Schema({"M0048"}, {"approval"})
M0049_samba == Seed({"M0048"}, {"drivers"},
                    <<Upsert(SambaRead, "on", {})>>, <<Delete(SambaRead)>>)
M0050_optin == Seed({"M0049_approval"}, {"settings", "backend"},
                    <<Do("opt_in", Settings)>>, <<>>)
M0050_samba == Seed({"M0049_samba"}, {"commands"},
                    <<Commands(SambaRead)>>, <<DropCommands(SambaRead)>>)
M0051 == Seed({"M0050_samba"}, {}, <<Upsert(SambaWrite, "on", {})>>, <<Delete(SambaWrite)>>)
M0052 == Seed({"M0051"}, {"commands"},
              <<Commands(SambaWrite)>>, <<DropCommands(SambaWrite)>>)
M0053 == Seed({"M0052"}, {}, <<Upsert(InfluxSlug, "on", {})>>, <<Delete(InfluxSlug)>>)
M0054 == Merge({"M0050_optin", "M0053"})
M0055_influx == Seed({"M0054"}, {"commands"},
                     <<Upsert(Influx, "on", Steps)>>, <<Delete(Influx)>>)
M0055_samba == Seed({"M0054"}, {},
                    <<Upsert(SambaIdentity, "on", {})>>, <<Delete(SambaIdentity)>>)
M0056_influx == Seed({"M0055_influx"}, {"commands"},
                     <<Upsert(InfluxOnboarding, "on", Steps)>>, <<Delete(InfluxOnboarding)>>)
M0056_samba == Seed({"M0055_samba"}, {"commands"},
                    <<Commands(SambaIdentity)>>, <<DropCommands(SambaIdentity)>>)
M0057_akvorado == Seed({"M0056_influx"}, {"commands", "drivers", "chain"},
                       <<Upsert(Akvorado, "off", Steps)>>, <<Disable(Akvorado)>>)
M0057_intents == Seed({"M0056_samba"}, {"intents"},
                      <<Upsert(SambaIntents, "on", {}), Link(SambaSteps)>>,
                      <<Unlink(SambaSteps), Delete(SambaIntents)>>)
M0058 == Seed({"M0057_intents"}, {}, <<Upsert(NetBoxSlugs, "on", {})>>,
              <<Delete(NetBoxSlugs)>>)
M0059 == Schema({"M0058"}, {"environment_file"})
M0060 == Seed({"M0059"}, {"commands", "environment_file"},
              <<Upsert(EnvFile, "off", Steps)>>, <<DeleteFree(EnvFile)>>)
M0061 == Seed({"M0060"}, {}, <<Disable(EnvFile)>>, <<>>)
M0062 == Merge({"M0057_akvorado", "M0061"})
M0063 == Seed({"M0062"}, {}, <<Upsert(Upgrade26, "on", {})>>, <<Delete(Upgrade26)>>)
M0064 == Seed({"M0063"}, {"commands"},
              <<Commands(Upgrade26)>>, <<DropCommands(Upgrade26)>>)
M0065 == Seed({"M0064"}, {"intents"},
              <<Upsert(Upgrade26Intent, "on", {}), Do("need", Upgrade26)>>,
              <<Unlink(Upgrade26), Delete(Upgrade26Intent)>>)

M0066_limits == Seed({"M0065"}, {}, <<PatchIf(RunUpgrade)>>, <<Unpatch(RunUpgrade)>>)
M0066_huawei == Seed({"M0065"}, {"commands"},
                     <<Upsert(Huawei, "off", Steps)>>, <<DeleteFree(Huawei)>>)
M0067 == Merge({"M0066_limits", "M0066_huawei"})
M0068_rotation == Seed({"M0067"}, Contract,
                       <<Upsert(Rotation, "on", Steps)>>, <<Disable(Rotation)>>)
M0068_widen == Seed({"M0067"}, {},
                    <<PatchIf(RestartService)>>, <<Unpatch(RestartService)>>)
M0069 == Schema({"M0068_rotation"}, {"approved_by"})
M0070 == Schema({"M0069"}, {"policy_hashes"})
M0071 == Seed({"M0070"}, {}, <<Upsert(Influx3Slug, "on", {})>>, <<Delete(Influx3Slug)>>)
M0072 == Seed({"M0071"}, {"commands"},
              <<Upsert(Influx3, "off", Steps)>>, <<Disable(Influx3)>>)
M0073_upgrade == Seed({"M0072"}, Contract,
                      <<Create(GiteaUpgrade, "off", Steps)>>, Irreversible)
M0073_allowlist == Seed({"M0072"}, {},
                        <<Upsert(RunnerSlugs, "on", {})>>, <<Delete(RunnerSlugs)>>)
M0074 == Migration({"M0073_allowlist"}, {"pin", "policy"}, {},
                   <<>>, <<Do("reset", Settings)>>)
M0075 == Seed({"M0074"}, {"pin", "policy", "settings"},
              <<Do("pin", Rotation @@ RunUpgrade), Do("policy", Settings)>>,
              <<Do("unpin", Rotation @@ RunUpgrade), Unpatch(Settings)>>)
M0076 == Merge({"M0073_upgrade", "M0075"})
M0077 == Seed({"M0076"}, {}, <<Create(OpenBaoSlug, "on", {})>>, Irreversible)
M0078 == Seed({"M0077"}, {"commands"}, <<Create(OpenBao, "on", Steps)>>, Irreversible)
M0079 == Schema({"M0078"}, {"source_intent"})
M0080 == Seed({"M0079"}, Contract, <<Create(RunnerRegister, "off", Steps)>>, Irreversible)
M0081 == Migration({"M0080"}, {"fence"}, {"fence"},
                   <<Create(Fences, "on", {})>>, Irreversible)
M0082 == Schema({"M0081"}, {"plugin_allowlist"})
M0083 == Seed({"M0082"}, {"commands", "plugin_allowlist"},
              <<Upsert(PluginInstall, "off", Steps)>>, <<DeleteFree(PluginInstall)>>)
M0084 == Seed({"M0083"}, Contract \union {"pin"},
              <<Upsert(OrgRunner, "off", Sealed)>>, <<Disable(OrgRunner)>>)
M0085 == Seed({"M0084"}, Contract \union {"pin"},
              <<Create(DnsPair, "on", Sealed)>>, Irreversible)
M0086 == Seed({"M0085"}, Contract \union {"pin"},
              <<Strict(AkvoradoBootstrap, "off", Sealed)>>, <<Disable(AkvoradoBootstrap)>>)
M0087 == Migration({"M0086"}, {"takeover"}, Contract \union {"pin", "fence"},
                   <<Upsert(OrgRunner, "off", Sealed), Upsert(RunnerRegister, "off", Steps)>>,
                   Irreversible)
M0088 == Schema({"M0087"}, {"command_tags"})
M0089 == Seed({"M0088"}, {"commands", "command_tags"},
              <<Create(AppRole, "off", Steps)>>, Irreversible)
M0090 == Schema({"M0089"}, {"credential_authority", "executor_identity"})
M0091 == Seed({"M0090"}, Contract \union {"pin"},
              <<Create(UserRunnerRecovery, "off", Sealed)>>, <<Disable(UserRunnerRecovery)>>)
M0092 == Seed({"M0091"}, Contract \union {"pin"},
              <<Create(OrgRunnerRecovery, "off", Sealed)>>, <<Disable(OrgRunnerRecovery)>>)
M0093 == Seed({"M0092"}, Contract \union {"pin"},
              <<Create(OciPull, "on", Sealed)>>, <<Disable(OciPull)>>)
M0094 == Schema({"M0093"}, {"openbao_assignment_id"})
M0095 == Seed({"M0094"}, {}, <<PatchIf(Packer)>>, <<Unpatch(Packer)>>)
M0096 == Seed({"M0095"}, Contract,
              <<Create(OpenBaoImport, "on", Steps)>>, <<Disable(OpenBaoImport)>>)
M0097 == Schema({"M0096"}, {"target_binding"})
M0098 == Seed({"M0097"}, Contract,
              <<Relight(ReleaseMarker, "on", Steps)>>, <<Disable(ReleaseMarker)>>)
M0099 == Seed({"M0098"}, {}, <<Do("swap", OpenBaoImport)>>, <<Do("unswap", OpenBaoImport)>>)
M0100 == Seed({"M0099"}, {},
              <<Do("swap_all", OpenBaoImport)>>, <<Do("unswap_all", OpenBaoImport)>>)
M0101 == Merge({"M0100", "M0068_widen"})
M0102 == Seed({"M0101"}, Contract \union {"pin"},
              <<Loose(ProxboxImages, "off", Sealed)>>, <<Disable(ProxboxImages)>>)
M0103_samba == Seed({"M0102"}, Contract \union {"pin"},
                    <<Strict(SambaAdDc, "on", Sealed)>>, <<Disable(SambaAdDc)>>)

\* The publication pair: module PublicationPair has what these seven do.
M0103_adopt_enabled     == Merge({"M0103_samba"})
\* Variant of M0103_report: run_before turned around.
M0103_report_after      == Merge({"M0103_samba", "M0103_normalize"})
M0103_report            == Merge({"M0103_samba", "M0103_adopt_enabled"})
M0103_normalize         == Merge({"M0103_samba", "M0103_report"})
M0103_adopt_unmarked    == Merge({"M0103_samba", "M0103_normalize"})
M0103_adopt_predecessor == Merge({"M0103_samba", "M0103_adopt_unmarked"})
M0104 == Merge({"M0103_samba", "M0103_adopt_predecessor"})
M0105 == Merge({"M0103_adopt_predecessor", "M0104"})
M0106 == Merge({"M0103_adopt_unmarked", "M0105"})
M0107 == Merge({"M0103_normalize", "M0106"})
M0108 == Merge({"M0103_report", "M0107"})
M0109 == Merge({"M0103_adopt_enabled", "M0108"})

M0110 == Seed({"M0109"}, Contract \union {"pin"},
              <<Loose(RqWorker, "on", Sealed), Disable(LegacyRqSlug)>>,
              <<Disable(RqWorker), Disable(LegacyRqSlug)>>)
M0111 == Seed({"M0110"}, Contract \union {"pin"},
              <<Upsert(PbsReads, "off", Steps), Upsert(PbsDatastore, "off", Sealed)>>,
              <<Disable(Pbs)>>)
M0112 == Seed({"M0111"}, Contract \union {"pin"},
              <<Loose(IamUi, "on", Sealed)>>, <<Disable(IamUi)>>)

\* The graph: every migration under its name.
Graph == [
  M0001 |-> M0001, M0002 |-> M0002, M0003 |-> M0003, M0004 |-> M0004, M0005 |-> M0005,
  M0006 |-> M0006, M0007 |-> M0007, M0008 |-> M0008, M0009 |-> M0009, M0010 |-> M0010,
  M0011 |-> M0011, M0012 |-> M0012, M0013 |-> M0013, M0014 |-> M0014, M0015 |-> M0015,
  M0016 |-> M0016, M0017 |-> M0017, M0018 |-> M0018, M0019 |-> M0019, M0020 |-> M0020,
  M0021 |-> M0021, M0022 |-> M0022, M0023 |-> M0023, M0024 |-> M0024, M0025 |-> M0025,
  M0026 |-> M0026, M0027 |-> M0027, M0028 |-> M0028, M0029 |-> M0029, M0030 |-> M0030,
  M0031_payload_hash |-> M0031_payload_hash, M0031_exemplars |-> M0031_exemplars,
  M0032 |-> M0032, M0033 |-> M0033, M0034 |-> M0034, M0035 |-> M0035,
  M0036_harden |-> M0036_harden, M0036_commands |-> M0036_commands, M0037 |-> M0037,
  M0038 |-> M0038, M0039 |-> M0039, M0040 |-> M0040, M0041 |-> M0041, M0042 |-> M0042,
  M0043 |-> M0043, M0044_settings |-> M0044_settings, M0044_systemctl |-> M0044_systemctl,
  M0045_nmap |-> M0045_nmap, M0045_command |-> M0045_command, M0046 |-> M0046,
  M0047 |-> M0047, M0048 |-> M0048, M0049_approval |-> M0049_approval,
  M0049_samba |-> M0049_samba, M0050_optin |-> M0050_optin, M0050_samba |-> M0050_samba,
  M0051 |-> M0051, M0052 |-> M0052, M0053 |-> M0053, M0054 |-> M0054,
  M0055_influx |-> M0055_influx, M0055_samba |-> M0055_samba, M0056_influx |-> M0056_influx,
  M0056_samba |-> M0056_samba, M0057_akvorado |-> M0057_akvorado,
  M0057_intents |-> M0057_intents, M0058 |-> M0058, M0059 |-> M0059, M0060 |-> M0060,
  M0061 |-> M0061, M0062 |-> M0062, M0063 |-> M0063, M0064 |-> M0064, M0065 |-> M0065,
  M0066_limits |-> M0066_limits, M0066_huawei |-> M0066_huawei, M0067 |-> M0067,
  M0068_rotation |-> M0068_rotation, M0068_widen |-> M0068_widen, M0069 |-> M0069,
  M0070 |-> M0070, M0071 |-> M0071, M0072 |-> M0072, M0073_upgrade |-> M0073_upgrade,
  M0073_allowlist |-> M0073_allowlist, M0074 |-> M0074, M0075 |-> M0075, M0076 |-> M0076,
  M0077 |-> M0077, M0078 |-> M0078, M0079 |-> M0079, M0080 |-> M0080, M0081 |-> M0081,
  M0082 |-> M0082, M0083 |-> M0083, M0084 |-> M0084, M0085 |-> M0085, M0086 |-> M0086,
  M0087 |-> M0087, M0088 |-> M0088, M0089 |-> M0089, M0090 |-> M0090, M0091 |-> M0091,
  M0092 |-> M0092, M0093 |-> M0093, M0094 |-> M0094, M0095 |-> M0095, M0096 |-> M0096,
  M0097 |-> M0097, M0098 |-> M0098, M0099 |-> M0099, M0100 |-> M0100, M0101 |-> M0101,
  M0102 |-> M0102, M0103_samba |-> M0103_samba, M0103_adopt_enabled |-> M0103_adopt_enabled,
  M0103_report |-> M0103_report, M0103_normalize |-> M0103_normalize,
  M0103_adopt_unmarked |-> M0103_adopt_unmarked,
  M0103_adopt_predecessor |-> M0103_adopt_predecessor, M0104 |-> M0104, M0105 |-> M0105,
  M0106 |-> M0106, M0107 |-> M0107, M0108 |-> M0108, M0109 |-> M0109, M0110 |-> M0110,
  M0111 |-> M0111, M0112 |-> M0112 ]
=============================================================================
