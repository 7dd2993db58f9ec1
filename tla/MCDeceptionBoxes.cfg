\* An operator and the status monitor at the container of an environment, adopted or
\* provisioned, that a chat session has selected; the container is started twice, and
\* commands of Runs that find it down save what they saw later.
CONSTANTS
    Nothing = Nothing
    c1 = c1 e1 = e1 s1 = s1 n1 = n1 n2 = n2 op1 = op1
    Box = {c1}
    Session = {e1, s1}
    Actor = {n1, op1}
    Env = {e1}
    Node = {n1}
    Mortal = {n1}
    Rev <- OneRevision
    Steps = 1
    MaxGen = 2
    MaxCrashes = 0
    Faults = {"docker_error", "exits", "commands"}
SPECIFICATION Spec
CHECK_DEADLOCK FALSE
INVARIANTS
    GenerationNamesOneBoot
PROPERTIES
    RunsKeepTheirBoot
