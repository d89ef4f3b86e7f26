SPECIFICATION AuthoritySpec
CONSTANTS
  Parts = {"secrets", "handshake", "key"}
  Providers = {p1, p2}
  Ttls = {1, 3}
  MaxReference = 2
  MaxTime = 2
  MaxEdits = 1
  Calls = {c1, c2}
  Manifests <- MCManifests
  None = None
  Contracts <- MCContracts
  Explicit = TRUE
  Lifecycle = TRUE
  Reviewed = "reviewed"
  Ttl = 1
  MaxClock = 1
  Inodes = {i1, i2}
  Blocks = {a, b}
  MaxSize = 2
  MaxChanges = 2
  Nothing = Nothing
SYMMETRY Symmetry
INVARIANTS ResolutionIsSafe HandshakeIsCurrent KeyFileInv
CHECK_DEADLOCK FALSE
