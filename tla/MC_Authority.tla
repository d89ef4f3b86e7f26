------------------------------ MODULE MC_Authority ------------------------------
(***************************************************************************)
(* What an execution may rely on when it acts.  "secrets":                 *)
(* SecretResolution, with two requests for the reference, lifetimes below  *)
(* and above the limit for references, time for a lease to expire during a *)
(* read, and one edit.  "handshake": CapabilityHandshake, with two calls,  *)
(* an explicit lifecycle procedure, reviewed and edited, and backends that *)
(* know only its commands or have another version.  "key": SigningKeyFile, *)
(* with two inodes and two contents of a block.  The three share no        *)
(* variable; each behaviour follows one of them, and the others rest in    *)
(* one of their initial states.                                            *)
(***************************************************************************)
EXTENDS SecretResolution, CapabilityHandshake, SigningKeyFile, TLC

CONSTANT Parts

VARIABLE part

Contract(v, h) == [version |-> v, effect |-> "write", hash |-> h, legacy |-> "commands"]
MCContracts == {Contract(1, "reviewed"), Contract(1, "edited")}
Manifest(e, v, h, others) ==
  [envelope |-> e, version |-> v, effect |-> "write", hash |-> h, compatible |-> others]
MCManifests == {Manifest(1, 1, "commands", {}), Manifest(1, 2, "reviewed", {"edited"})}
Symmetry == Permutations(Providers) \union Permutations(Calls)

---------------------------------------------------------------------------
\* Where a component rests: values that its initial predicate allows.
RestSecrets == class = "low" /\ approver = "none" /\ super = FALSE
RestHandshake ==
  /\ advertised = None /\ contract = Contract(1, "reviewed")
  /\ cached = [c \in Calls |-> TRUE]
RestKey ==
  /\ file = [i \in Inodes |-> [content |-> <<>>, stamp |-> 0, trusted |-> TRUE]]
  /\ name = CHOOSE i \in Inodes : TRUE

AuthorityInit ==
  /\ part \in Parts
  /\ IF part = "secrets" THEN Init ELSE RestSecrets /\ Init
  /\ IF part = "handshake" THEN HandshakeInit ELSE RestHandshake /\ HandshakeInit
  /\ IF part = "key" THEN KeyFileInit ELSE RestKey /\ KeyFileInit

\* A step of the component followed.
SecretsStep == part = "secrets" /\ Next /\ UNCHANGED <<part, handshake, keyFile>>
HandshakeStep == part = "handshake" /\ HandshakeNext /\ UNCHANGED <<part, vars, keyFile>>
KeyStep == part = "key" /\ KeyFileNext /\ UNCHANGED <<part, vars, handshake>>
AuthorityNext == SecretsStep \/ HandshakeStep \/ KeyStep
AuthoritySpec == AuthorityInit /\ [][AuthorityNext]_<<part, vars, handshake, keyFile>>
=============================================================================
