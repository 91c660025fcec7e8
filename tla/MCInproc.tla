----------------------------- MODULE MCInproc ------------------------------
(* Instances of Inproc for TLC.                                            *)
EXTENDS Inproc, TLC
Perms == Permutations(Threads) \cup Permutations(Socks)
=============================================================================
