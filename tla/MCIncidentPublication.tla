------------------------ MODULE MCIncidentPublication ------------------------
(* An instance of IncidentPublication for TLC. *)
EXTENDS IncidentPublication

Reports == 1..2

\* Nobody uploads anything here.
NoUploads == [u \in Upload |-> Nobody]
=============================================================================
