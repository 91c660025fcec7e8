-------------------------------- MODULE MCSp --------------------------------
(* Instances of Sp for TLC.                                                 *)
EXTENDS Sp, TLC
Perms == Permutations(Threads) \cup Permutations(Connectors)
=============================================================================
