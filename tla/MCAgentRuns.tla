---------------------------- MODULE MCAgentRuns -----------------------------
(* Instances of AgentRuns for TLC.                                         *)
EXTENDS AgentRuns, TLC

\* Children are alike, and so are foreground Runs.
Symmetry == Permutations(Child) \cup Permutations(Root)

\* Supervisors are alike where each may stop as often as the others.
PeerSymmetry == Symmetry \cup Permutations(Supervisor)

OneStop == [s \in Supervisor |-> 1]

OneCall == [r \in Run |-> 1]
OneRootCall == [r \in Run |-> IF r \in Root THEN 1 ELSE 0]

=============================================================================
