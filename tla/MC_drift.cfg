SPECIFICATION DriftSpec
CONSTANTS
  Parts = {"admission", "commands", "policy", "remap"}
  intent = intent  user = user  rotate = rotate
  vm = vm  bound = bound  spare = spare  None = None  Unset = Unset
  cmd1 = cmd1  cmd2 = cmd2  web = web  shell = shell
  svc = svc  plug = plug  cred = cred  obj1 = obj1  obj2 = obj2
  Requests = {intent}
  Plan <- DriftPlan
  Target <- OnVm
  Password <- OnePassword
  Provision = "provision"
  Protected = {rotate}
  Explicit = {rotate}
  Passwords = {user}
  Approval = {}
  Gated = {}
  Restart = rotate
  Scoped = {}
  Pinned = {rotate}
  Metadata = {}
  Backends = {bound, spare}
  Bound = bound
  Timeouts = {30, 900}
  Headroom = 60
  Floor = 600
  MaxEdits = 3
  MaxFaults = 0
  ProcedureIds = {"first", "second"}
  CommandIds = {cmd1, cmd2}
  CommandEditors = {web, shell}
  Names = {"x"}
  MaxSequence = 2
  Forms = {web}
  SettingsCommands = {shell}
  Chains <- FewChains
  MaxSaves = 2
INVARIANTS UsedAsChecked RunsOnOnePolicy RemapIsRepeatable
PROPERTIES SaveResolves
CHECK_DEADLOCK FALSE
