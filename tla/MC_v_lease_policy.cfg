SPECIFICATION Spec
CONSTANTS
    NoUser = NoUser
    Users = {alice, bob}
    Targets = {1}
    Workers = {w1}
    Requester = alice
    Superusers = {}
    Kinds = {"protected"}
    MaxQueueAge = 1
    MaxDeliveries = 1
    MaxFaults = 0
PROPERTY RevalidationSeesDrift
