----------------------------- MODULE MCSioConn -----------------------------
(* Instances of SioConn for TLC.                                           *)
EXTENDS SioConn, TLC

CONSTANTS m1, m2, m3, p1, p2, p3

\* m2 and p2 are alone larger than a window of 2, m1 and p1 fit in it twice.
MCUsize == [m \in Msg |-> IF m \in {m2, p2} THEN 2 ELSE 1]
Perms == Permutations(Senders) \cup Permutations(Receivers)
=============================================================================
