\* One command, two acquisitions that may overlap, every fault.
CONSTANTS
    Job = {j1}
    NoJob = NoJob
    Owner = {o1, o2}
    Nobody = Nobody
    Mortal = {o1}
    Faults <- AllFaults
    BatchLimit = 1
    Capacity = 1
    MaxAttempt = 2
SPECIFICATION Spec
INVARIANTS
    RunningJobIsAwaited
CHECK_DEADLOCK FALSE
