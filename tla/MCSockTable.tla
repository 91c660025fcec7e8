---------------------------- MODULE MCSockTable ----------------------------
(* Instances of SockTable for TLC.                                         *)
EXTENDS SockTable, TLC
Perms == Permutations(Threads) \cup Permutations(Socks)
=============================================================================
