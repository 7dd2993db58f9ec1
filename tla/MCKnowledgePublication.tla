------------------------ MODULE MCKnowledgePublication ------------------------
(* An instance of KnowledgePublication for TLC. *)
EXTENDS KnowledgePublication

CONSTANTS n1

ServedByFirst == [u \in Upload |-> n1]
=============================================================================
