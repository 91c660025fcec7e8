------------------------------ MODULE MCXpoll ------------------------------
(* Instances of Xpoll for TLC.                                             *)
EXTENDS Xpoll, TLC
CONSTANTS in, out
Both == {in, out}
MCAsks == {{out}, {in, out}}
MCFinds == {{}, {in}, {in, out}}
Perms == Permutations(Threads) \cup Permutations(Socks) \cup Permutations(Entries)
=============================================================================
