-------------------------- MODULE CapabilityHandshake --------------------------
(***************************************************************************)
(* capabilities: the manifest a backend advertises, its cache in a web     *)
(* process, and the decisions taken from it: advertisement and admission   *)
(* through the cache, approval and worker claim past it.  Calls overlap,   *)
(* the backend changes what it advertises or stops answering, an operator  *)
(* edits the procedure, and time passes during a fetch.                    *)
(*                                                                         *)
(* lastAt[m] is when the backend last advertised the manifest m; a call    *)
(* remembers when it began.                                                *)
(***************************************************************************)
EXTENDS Integers, FiniteSets

CONSTANTS Calls,      \* concurrent calls
          Manifests,  \* what the backend may advertise; None when it does not
          None,
          Contracts,  \* contracts of the procedure an operator may edit between
          Explicit,   \* the procedure is in EXPLICIT_BACKEND_CAPABILITY_PROCEDURE_NAMES
          Lifecycle,  \* the procedure has a reviewed Akvorado lifecycle hash
          Reviewed,   \* that hash
          Ttl,        \* _CACHE_TTL_SECONDS
          MaxClock

VARIABLES clock, advertised, lastAt, contract,
          cache,   \* [at, manifest] or NoEntry
          state,   \* "idle", "fetching", "answered", "fetched", "verified"
          began,   \* when the call read the clock
          cached,  \* the call may use the cache
          seen,    \* the manifest the call has
          judged   \* the contract it decided on
handshake == <<clock, advertised, lastAt, contract, cache, state, began, cached, seen, judged>>

\* A manifest: envelope version, and the handler's version, effect, contract
\* hash, compatible hashes; handler "absent" is one with version 0.
Envelopes == {1}
NoEntry == [at |-> -1, manifest |-> None]
Never == -Ttl - 1

ASSUME NoneAssumption == None \notin Manifests
ASSUME TimeAssumption == Ttl \in Nat \ {0} /\ MaxClock \in Nat

---------------------------------------------------------------------------
\* verify_procedure_capability: COMPATIBLE.
Compatible(m, c) ==
  /\ m.envelope \in Envelopes
  /\ m.version = c.version
  /\ m.effect = c.effect
  /\ \/ c.hash \in {m.hash} \union m.compatible
     \/ Lifecycle /\ c.hash = Reviewed /\ m.hash = c.legacy
\* _verify_backend_capability.
Accepts(m, c) == IF m = None THEN ~Explicit ELSE Compatible(m, c)

HandshakeInit ==
  /\ clock = 0 /\ advertised \in Manifests \union {None}
  /\ lastAt = [m \in Manifests \union {None} |-> IF m = advertised THEN 0 ELSE Never]
  /\ contract \in Contracts
  /\ cache = NoEntry
  /\ state = [c \in Calls |-> "idle"]
  /\ began = [c \in Calls |-> 0] /\ cached \in [Calls -> BOOLEAN]
  /\ seen = [c \in Calls |-> None]
  /\ judged = [c \in Calls |-> contract]

\* fetch_backend_capabilities reads the clock, then the cache.
Begin(c) ==
  LET hit == cached[c] /\ cache # NoEntry /\ clock - cache.at < Ttl
  IN  /\ state[c] = "idle"
      /\ state' = [state EXCEPT ![c] = IF hit THEN "fetched" ELSE "fetching"]
      /\ began' = [began EXCEPT ![c] = clock]
      /\ seen' = IF hit THEN [seen EXCEPT ![c] = cache.manifest] ELSE seen
      /\ UNCHANGED <<clock, advertised, lastAt, contract, cache, cached, judged>>

\* Variant of Stamp: an entry counts from when the answer was stored.
StampAtStore(c) == clock
\* The stamp of an entry: the clock as read before the fetch.
Stamp(c) == began[c]

\* _fetch_uncached: what the backend advertises, or None if the request fails
\* or the answer is not a manifest.  The answer is stored later.
Answer(c, m) ==
  /\ state[c] = "fetching"
  /\ state' = [state EXCEPT ![c] = "answered"]
  /\ seen' = [seen EXCEPT ![c] = m]
  /\ UNCHANGED <<clock, advertised, lastAt, contract, cache, began, cached, judged>>
Store(c) ==
  /\ state[c] = "answered"
  /\ state' = [state EXCEPT ![c] = "fetched"]
  /\ cache' = [at |-> Stamp(c), manifest |-> seen[c]]
  /\ UNCHANGED <<clock, advertised, lastAt, contract, began, cached, seen, judged>>

\* The call verifies the procedure as it is now against the manifest it has.
Verify(c) ==
  /\ state[c] = "fetched"
  /\ state' = [state EXCEPT ![c] = "verified"]
  /\ judged' = [judged EXCEPT ![c] = contract]
  /\ UNCHANGED <<clock, advertised, lastAt, contract, cache, began, cached, seen>>

\* The backend is upgraded, rolled back, stopped or started.
Drift(m) ==
  /\ advertised # m /\ advertised' = m
  /\ lastAt' = [lastAt EXCEPT ![m] = clock]
  /\ UNCHANGED <<clock, contract, cache, state, began, cached, seen, judged>>
\* clear_capability_cache.
Clear ==
  /\ cache # NoEntry /\ cache' = NoEntry
  /\ UNCHANGED <<clock, advertised, lastAt, contract, state, began, cached, seen, judged>>
EditProcedure(k) ==
  /\ contract # k /\ contract' = k
  /\ UNCHANGED <<clock, advertised, lastAt, cache, state, began, cached, seen, judged>>
\* Time passes, also during a call.
Elapse ==
  /\ clock < MaxClock
  /\ clock' = clock + 1
  /\ lastAt' = [lastAt EXCEPT ![advertised] = clock + 1]
  /\ UNCHANGED <<advertised, contract, cache, state, began, cached, seen, judged>>

HandshakeNext == \/ \E c \in Calls : Begin(c) \/ Store(c) \/ Verify(c)
                            \/ \E m \in {advertised, None} : Answer(c, m)
        \/ \E m \in Manifests \union {None} : Drift(m)
        \/ \E k \in Contracts : EditProcedure(k)
        \/ Clear \/ Elapse
HandshakeSpec == HandshakeInit /\ [][HandshakeNext]_handshake

---------------------------------------------------------------------------

\* How long before it began the call lets a manifest be.
Window(c) == IF cached[c] THEN Ttl ELSE 1
\* The manifest a call decides from, the backend advertised while the call ran or, if
\* the call may use the cache, less than Ttl before it began: a slow or late
\* fetch of another call never makes it older.
ManifestIsRecent ==
  \A c \in Calls : state[c] = "verified" /\ seen[c] # None =>
    lastAt[seen[c]] > began[c] - Window(c)

Accepted(c) == state[c] = "verified" /\ Accepts(seen[c], judged[c])
\* The inductive form: every manifest in the cache or in a call was advertised
\* at or after the instant it is stamped with, and the stamps never run ahead.
HandshakeInv ==
  /\ clock \in Nat
  /\ advertised \in Manifests \union {None}
  /\ lastAt \in [Manifests \union {None} -> Int]
  /\ lastAt[advertised] = clock
  /\ \A m \in Manifests : lastAt[m] <= clock
  /\ cache \in [at : Int, manifest : Manifests \union {None}]
  /\ cache # NoEntry /\ cache.manifest # None => lastAt[cache.manifest] >= cache.at
  /\ state \in [Calls -> {"idle", "fetching", "answered", "fetched", "verified"}]
  /\ began \in [Calls -> Nat]
  /\ seen \in [Calls -> Manifests \union {None}]
  /\ \A c \in Calls :
       /\ began[c] <= clock
       /\ state[c] = "answered" /\ seen[c] # None => lastAt[seen[c]] >= began[c]
       /\ state[c] \in {"fetched", "verified"} /\ seen[c] # None =>
            lastAt[seen[c]] > began[c] - Window(c)

\* Does the manifest describe the contract?  The hash of the commands alone
\* stands for the contract only as it was reviewed.
Describes(m, k) ==
  /\ m # None /\ m.envelope = 1 /\ m.version = k.version /\ m.effect = k.effect
  /\ k.hash \in {m.hash} \union m.compatible \/ (m.hash = k.legacy /\ k.hash = Reviewed)
\* An explicit procedure is accepted only if, recently enough, the backend
\* advertised the contract the procedure has when it is verified: an outage,
\* an upgrade or an edit in between fails closed.
AcceptedWasAdvertised ==
  \A c \in Calls : Explicit /\ Accepted(c) =>
    \E m \in Manifests : /\ Describes(m, judged[c])
                         /\ lastAt[m] > began[c] - Window(c)

\* Decisions follow what the backend advertised recently enough, however calls
\* overlap and however long fetches take.
HandshakeIsCurrent == HandshakeInv /\ ManifestIsRecent /\ AcceptedWasAdvertised

=============================================================================
