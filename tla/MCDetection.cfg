\* Two rules, one of them active from the start, and two sensors; two changes, and one
\* interruption, error, slow collection or change of what a sensor captures.
CONSTANTS
    Nothing = Nothing
    r1 = r1 r2 = r2 s1 = s1 s2 = s2
    Rule = {r1, r2}
    Builtin = {r1}
    Sensor = {s1, s2}
    Scope <- GlobalAndLocal
    TargetSets = {{s1}, {s1, s2}}
    Refreshed = {s1, s2}
    MaxVersion = 1
    MaxChanges = 2
    MaxCapture = 1
    MaxUpsets = 1
SPECIFICATION FairSpec
CHECK_DEADLOCK FALSE
INVARIANTS
    ChangesEndAsRecorded
    RulesRunTheirChange
    DeploymentsKeepOtherRules
PROPERTIES
    ChangesEnd
    SensorsConverge
