SPECIFICATION FairSpec
CONSTANTS
    Node = {n1, n2}
    Nobody = Nobody
    Report = {r1}
    Upload = {u1}
    n1 = n1
    Server <- ServedByFirst
    MaxFaults = 1
INVARIANTS PublishedIsIndexed
PROPERTIES ReportsArePublished OutboxSpec
CHECK_DEADLOCK FALSE
