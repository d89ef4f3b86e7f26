SPECIFICATION RequestsSpec
CONSTANTS
  Parts = {"race", "edit"}
  None = None  Omitted = Omitted  NoEdit = NoEdit
  intent = intent  direct = direct  user = user  provision = provision
  rotate = rotate  vm = vm  bound = bound
  rowP = rowP  rowQ = rowQ  noteP = noteP  noteQ = noteQ  weaken = weaken  bulk = bulk
  alice = alice  bob = bob
  Requests = {intent, direct}
  Plan <- RacePlan
  Target <- RaceTarget
  Password <- RacePassword
  Provision = provision
  Protected = {rotate}
  Explicit = {rotate}
  Passwords = {user}
  Approval = {provision}
  Gated = {}
  Restart = rotate
  Scoped = {provision}
  Pinned = {rotate}
  Metadata = {}
  Backends = {bound}
  Bound = bound
  Timeouts = {30, 900}
  Headroom = 60
  Floor = 600
  MaxEdits = 0
  MaxFaults = 1
  RPCProcedures = {rowP, rowQ}
  Edits = {noteP, noteQ, weaken, bulk}
  Editor <- EditorOf
  Path <- PathOf
  Rows <- RowsOf
  Requested <- RequestedBy
  Initial <- StoredRows
  Permissions <- PermissionsOf
  MaxChanges = 1
INVARIANTS OneOpenProvision PublishedInOrder
PROPERTIES NoSelfGain ProtectedFieldsKept EveryCallEnds
CHECK_DEADLOCK FALSE
