SPECIFICATION SystemSpec
CONSTANTS
    Report <- Reports
    Event = {a}
    Task = {t1}
    Kind = {risk}
    Risk = risk
    MaxAnalyses = 2
    MaxReopened = 1
    Node = {n1}
    Nobody = Nobody
    Upload = {}
    Server <- NoUploads
    MaxFaults = 0
INVARIANTS ClosedCaseStands ClosedCaseIsIndexed
CHECK_DEADLOCK FALSE
