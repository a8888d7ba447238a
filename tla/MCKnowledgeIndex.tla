-------------------------- MODULE MCKnowledgeIndex --------------------------
(* Instances of the knowledge base model for TLC.                          *)
EXTENDS KnowledgeProperties, TLC

Symmetry == Permutations(Procs)
=============================================================================
