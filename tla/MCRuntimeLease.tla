--------------------------- MODULE MCRuntimeLease ---------------------------
(* Instances of RuntimeLease for TLC.                                      *)
EXTENDS RuntimeLease, TLC

\* The acquisitions are interchangeable and no property names one.
Symmetry == Permutations(Owner)

=============================================================================
