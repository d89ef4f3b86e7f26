SPECIFICATION FairSpec
CONSTANTS
    NoUser = NoUser
    Users = {alice, bob}
    Targets = {1}
    Workers = {w1, w2}
    Requester = alice
    Superusers = {}
    Kinds = {"ordinary", "restart"}
    MaxQueueAge = 1
    MaxDeliveries = 2
    MaxFaults = 1
INVARIANTS RebuildAgrees
PROPERTIES ImplementsContract QueueDrains
