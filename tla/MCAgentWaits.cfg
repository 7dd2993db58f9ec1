\* Delegation: a parent and a specialist, one sweep, and a process that loses its lease
\* and takes it again, or stops and is started again.
CONSTANTS
    Root = {r1}
    Child = {c1}
    NoRun = NoRun
    Supervisor = {s1}
    Nobody = Nobody
    MaxStops <- OneStop
    Restarted = {s1}
    Faults = {}
    Sweep = {w1}
    MaxToken = 2
    MaxCalls <- OneCall
SPECIFICATION FairSpec
INVARIANTS
    RunningRunIsDriven
    DiscardedChildIsCanceled
PROPERTIES
    WaitingParentContinues
    CancellationIsHonoured
    AcceptedRunProceeds
CHECK_DEADLOCK FALSE
