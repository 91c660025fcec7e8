------------------------------- MODULE MCLive -------------------------------
(* Liveness of one connection for TLC.  A behaviour is one of two          *)
(* scenarios, fixed by which: users that send, or a user that goes on      *)
(* receiving; in both a close may come at any time.                        *)
EXTENDS Integers, Sequences, FiniteSets

CONSTANTS u1, u2, c1, m1, m2, p1, p2

VARIABLES
  which,  \* the scenario, "send" or "recv"
  pc, arg, unsent, unput, open, ref, snd, part, rcv, epipe, sendLock, evr, evw,
  sig, efd, reg, task, lpc, todo, rdy, back, lrc, wrote, rbuf, win, wout, link

\* m2 and p2 are alone larger than the window.
MCUsize(M) == [m \in M |-> IF m \in {m2, p2} THEN 2 ELSE 1]

S == INSTANCE SioConn WITH
  Senders <- {u1, u2}, Receivers <- {}, Closers <- {c1}, Out <- {m1, m2}, In <- {},
  Usize <- MCUsize({m1, m2}), SndWnd <- 1, RcvWnd <- 1, WireCap <- 1, NonBlock <- FALSE

\* u2 never calls: it has nothing to send.
R == INSTANCE SioConn WITH
  Senders <- {u2}, Receivers <- {u1}, Closers <- {c1}, Out <- {}, In <- {p1, p2},
  Usize <- MCUsize({p1, p2}), SndWnd <- 1, RcvWnd <- 1, WireCap <- 2, NonBlock <- FALSE

connVars == S!vars
vars == <<which, connVars>>

Init == (which = "send" /\ S!Init) \/ (which = "recv" /\ R!Init)

Next ==
  /\ (which = "send" /\ S!Next) \/ (which = "recv" /\ R!Next)
  /\ UNCHANGED which

\* The loop and the threads inside the library are scheduled, the peer reads
\* what it is sent, and in "recv" the application goes on receiving.
Sending(A) == which = "send" /\ A
Receiving(A) == which = "recv" /\ A
FairSpec ==
  /\ Init /\ [][Next]_vars
  /\ \A t \in {u1, u2, c1} :
       WF_connVars(Sending(S!Inside(t)) \/ Receiving(R!Inside(t)))
  /\ WF_connVars(Sending(S!Loop) \/ Receiving(R!Loop))
  /\ WF_connVars(Sending(S!PeerTake) \/ Receiving(R!xrecv(u1)))

\* Only users that send have anything to write.
SendProgress == which = "send" => S!SendProgress

\* Only they block in xsend.
SendersReturn == which = "send" => S!SendersReturn

\* Only the user that receives has messages coming.
RecvProgress == which = "recv" => R!RecvProgress

\* A close ends in both.
CloseCompletes == (which = "send" => S!CloseCompletes) /\ (which = "recv" => R!CloseCompletes)
=============================================================================
