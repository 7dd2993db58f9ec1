\* Two nodes, one of which dies twice, and two revisions of two steps for an
\* environment whose container the platform provisions; Docker and commands fail.
CONSTANTS
    Nothing = Nothing
    c1 = c1 e1 = e1 s1 = s1 n1 = n1 n2 = n2 op1 = op1
    Box = {c1}
    Session = {e1}
    Actor = {n1, n2}
    Env = {e1}
    Node = {n1, n2}
    Mortal = {n1}
    Rev <- TwoRevisions
    Steps = 2
    MaxGen = 1
    MaxCrashes = 2
    Faults = {"docker_error", "command_fails"}
SPECIFICATION FairSpec
CHECK_DEADLOCK FALSE
INVARIANTS
    EnvironmentShape
    BaselineRestored
    NothingLeftBehind
PROPERTIES
    RevisionsSettle
