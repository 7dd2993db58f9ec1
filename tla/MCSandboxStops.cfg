\* Two commands at once, crash or shutdown with a takeover, no other fault.
CONSTANTS
    Job = {j1, j2}
    NoJob = NoJob
    Owner = {o1, o2}
    Nobody = Nobody
    Mortal = {o1}
    Faults = {}
    BatchLimit = 2
    Capacity = 2
    MaxAttempt = 2
SPECIFICATION FairSpec
INVARIANTS
    DeliveredCommandHasStopped
    BatchDeliveredTogether
PROPERTIES
    WaitingRunIsResumed
CHECK_DEADLOCK FALSE
