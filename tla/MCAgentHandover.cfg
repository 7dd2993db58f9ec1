\* A primary Run and a specialist; two processes, each of which may stop for good, one
\* takeover, database errors, renewals judged by a stale clock.
CONSTANTS
    Root = {r1}
    Child = {c1}
    NoRun = NoRun
    Supervisor = {s1, s2}
    Nobody = Nobody
    MaxStops <- OneStop
    Restarted = {}
    Faults = {"db_error", "stale_renewal"}
    Sweep = {}
    MaxToken = 2
    MaxCalls <- OneRootCall
SYMMETRY PeerSymmetry
SPECIFICATION Spec
INVARIANTS
    WaitWillBeAnswered
    RunsOnSettledJournal
CHECK_DEADLOCK FALSE
