SPECIFICATION Spec
SYMMETRY WorkerSymmetry
CONSTANTS
    NoUser = NoUser
    Users = {alice, bob}
    Targets = {1, 2}
    Workers = {w1, w2}
    Requester = alice
    Superusers = {alice}
    Kinds = {"protected", "restart"}
    MaxQueueAge = 1
    MaxDeliveries = 2
    MaxFaults = 1
INVARIANTS RunInvariant DispatchesWhatWasApproved AccountedFor
PROPERTIES ImplementsContract
