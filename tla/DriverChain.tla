----------------------------- MODULE DriverChain -----------------------------
(***************************************************************************)
(* The estate-wide transport policy and the driver chain of a run.  The    *)
(* policy is a row of settings that forms, the REST API and the command    *)
(* rpc_settings load, change and save as a whole.  Normalisation reads the *)
(* row once, resolves the chain of the procedure from it and then, if the  *)
(* chain has an Ansible driver, the connection settings of the target's    *)
(* platform.                                                               *)
(***************************************************************************)
EXTENDS Integers, Sequences, Functions

CONSTANTS Forms, Commands,  \* editors: forms and REST requests, rpc_settings
          Chains,      \* the driver chains editors and procedures may name
          MaxSaves,    \* bound on the saves of the settings
          None

VARIABLES
  procedure,   \* [chain, pinned, driver]
  platform,    \* whether the target has a platform the map may name
  settings,    \* the row, or None
  copy,        \* [Editors -> the row an editor loaded, or None]
  pc,          \* normalisation: "idle", "chain", "context", "done"
  policy,      \* the row normalisation read, or None
  chain, context,
  during,      \* rows stored since normalisation began
  saves
Editors == Forms \union Commands
vars == <<procedure, platform, settings, copy, pc, policy, chain, context, during, saves>>
editing == <<settings, copy, saves>>

---------------------------------------------------------------------------
\* The vocabulary of drivers.
LinuxShell == {"ansible", "asyncssh", "paramiko", "subprocess", "fabric"}
Ansible == {"ansible", "ansible-network"}
Capability(d) == IF d \in LinuxShell THEN "linux_shell" ELSE "network_cli"
RawDefault(c) == IF c = "linux_shell" THEN "asyncssh" ELSE "scrapli"
Has(ch, set) == \E i \in DOMAIN ch : ch[i] \in set

\* A row of settings; map is the connection the platform is mapped to, 0 if none.
Row == [enabled : BOOLEAN, linux : Chains, network : Chains, map : 0..2]
Default == [enabled |-> FALSE, linux |-> <<>>, network |-> <<>>, map |-> 0]
\* The row migration 0075 leaves, before and after the platform is mapped.
Seeded == {[Default EXCEPT !.linux = <<"ansible">>, !.network = <<"ansible-network">>, !.map = m] :
           m \in {0, 1}}
\* RpcPluginSettings.clean.
Clean(row) ==
  /\ \A i \in DOMAIN row.linux : Capability(row.linux[i]) = "linux_shell"
  /\ \A i \in DOMAIN row.network : Capability(row.network[i]) = "network_cli"
DefaultChainFor(row, c) == IF c = "network_cli" THEN row.network ELSE row.linux

\* resolve_driver_chain: the procedure's own chain, or the policy's with the
\* procedure's driver, and a raw driver, to fall back to.
ResolveDriverChain(proc, row) ==
  IF proc.chain # <<>> THEN proc.chain
  ELSE IF proc.pinned \/ row = None THEN <<>>
  ELSE LET c == Capability(proc.driver)
           default == DefaultChainFor(row, c)
           own == IF Has(default, {proc.driver}) THEN default ELSE Append(default, proc.driver)
       IN IF default = <<>> THEN <<>>
          ELSE IF Range(own) \subseteq Ansible THEN Append(own, RawDefault(c)) ELSE own

\* _apply_ansible_context.
AnsibleContext(ch, row) ==
  IF Has(ch, Ansible) /\ row # None /\ platform THEN row.map ELSE 0

---------------------------------------------------------------------------
Init ==
  /\ procedure \in [chain : Chains, pinned : BOOLEAN,
                    driver : {"ansible", "asyncssh", "paramiko", "ansible-network", "netmiko"}]
  /\ platform \in BOOLEAN
  /\ settings \in {None, Default} \union Seeded
  /\ copy = [e \in Editors |-> None]
  /\ pc = "idle" /\ policy = None /\ chain = <<>> /\ context = 0
  /\ during = {} /\ saves = 0

normalising == <<pc, policy, chain, context>>
Stored(row) == settings' = row /\ during' = IF pc = "idle" THEN {} ELSE during \union {row}

\* get_solo: the row is created when it is missing.
Load(e) ==
  /\ saves < MaxSaves /\ copy[e] = None
  /\ IF settings = None THEN Stored(Default) ELSE UNCHANGED <<settings, during>>
  /\ copy' = [copy EXCEPT ![e] = settings']
  /\ UNCHANGED <<procedure, platform, saves, normalising>>

\* full_clean() and save(): every column is written, or the edit is refused.
Save(e, row) ==
  /\ copy[e] # None /\ saves < MaxSaves
  /\ copy' = [copy EXCEPT ![e] = None] /\ saves' = saves + 1
  /\ IF Clean(row) THEN Stored(row) ELSE UNCHANGED <<settings, during>>
  /\ UNCHANGED <<procedure, platform, normalising>>
\* The form and PATCH set one of the fields of the policy.
EditPolicy(e) ==
  /\ copy[e] # None
  /\ \/ \E ch \in Chains : Save(e, [copy[e] EXCEPT !.linux = ch])
     \/ \E ch \in Chains : Save(e, [copy[e] EXCEPT !.network = ch])
     \/ \E m \in 0..2 : Save(e, [copy[e] EXCEPT !.map = m])
\* rpc_settings --enable or --disable.
Toggle(e) == copy[e] # None /\ Save(e, [copy[e] EXCEPT !.enabled = ~@])

\* _transport_policy: the row, or None when it is missing or cannot be read.
ReadPolicy ==
  /\ pc = "idle" /\ pc' = "chain"
  /\ policy' \in {settings, None} /\ during' = {settings, None}
  /\ UNCHANGED <<procedure, platform, chain, context, editing>>
Resolve ==
  /\ pc = "chain" /\ pc' = "context"
  /\ chain' = ResolveDriverChain(procedure, policy)
  /\ UNCHANGED <<procedure, platform, policy, context, during, editing>>
\* Variant of ApplyContext: the settings are read once more.
ApplyContextAgain ==
  /\ pc = "context" /\ pc' = "done"
  /\ context' = AnsibleContext(chain, settings)
  /\ UNCHANGED <<procedure, platform, policy, chain, during, editing>>
ApplyContext ==
  /\ pc = "context" /\ pc' = "done"
  /\ context' = AnsibleContext(chain, policy)
  /\ UNCHANGED <<procedure, platform, policy, chain, during, editing>>
\* The run is normalised again, at approval or when it is dispatched.
Again ==
  /\ pc = "done" /\ pc' = "idle"
  /\ policy' = None /\ chain' = <<>> /\ context' = 0 /\ during' = {}
  /\ UNCHANGED <<procedure, platform, editing>>

Next ==
  \/ \E e \in Editors : Load(e)
  \/ \E e \in Forms : EditPolicy(e)
  \/ \E e \in Commands : Toggle(e)
  \/ ReadPolicy \/ Resolve \/ ApplyContext \/ Again
Spec == Init /\ [][Next]_vars

---------------------------------------------------------------------------
\* Every stored row is one clean() accepts, also after a save of a stale copy.
TypeOK ==
  /\ settings = None \/ (settings \in Row /\ Clean(settings))
  /\ \A e \in Editors : copy[e] = None \/ copy[e] \in Row
  /\ pc \in {"idle", "chain", "context", "done"} /\ context \in 0..2

\* Chain and connection settings of a run come from one row that was stored
\* while the run was normalised, however the policy is edited meanwhile.
OnePolicy ==
  pc = "done" => \E row \in during : /\ chain = ResolveDriverChain(procedure, row)
                                     /\ context = AnsibleContext(chain, row)

\* A chain the policy gave a procedure keeps the procedure's own driver, has a
\* driver that needs no Ansible, and none the backend would pass over.
RawFallback ==
  procedure.chain = <<>> /\ chain # <<>> =>
    /\ Has(chain, {procedure.driver})
    /\ ~(Range(chain) \subseteq Ansible)
    /\ \A i \in DOMAIN chain : Capability(chain[i]) = Capability(procedure.driver)

\* A run uses one policy: chain and connection settings are of the same row; and
\* a chain that the policy gave a procedure has a driver that needs no Ansible.
RunsOnOnePolicy == TypeOK /\ OnePolicy /\ RawFallback

=============================================================================
