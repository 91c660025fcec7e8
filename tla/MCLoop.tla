------------------------------- MODULE MCLoop -------------------------------
(* Instances of Loop for TLC: see the configurations.                       *)
EXTENDS Loop
=============================================================================
