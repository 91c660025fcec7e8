------------------------------- MODULE Inproc -------------------------------
(***************************************************************************)
(* The in-process transport (src/socket/inproc) and the accept queue       *)
(* (src/socket/listen.c): threads that listen at one address, connect,     *)
(* accept, send, receive and close.                                        *)
(*                                                                         *)
(* A connector and the socket accepted for it point at each other.  Each   *)
(* has sb->ref, for its descriptor and the calls inside, and a reference   *)
(* count of its memory, for itself and for its peer: the memory goes when  *)
(* both ends are closed.  Sockets are blocking.                            *)
(***************************************************************************)
EXTENDS Integers, Sequences, FiniteSets

CONSTANTS
  Threads,   \* threads of the application
  Socks,     \* memory for sockets, which bounds how many exist
  None,      \* null
  MaxRcv     \* bound of this model on a receive queue, which has none

ASSUME InprocAssumption ==
  /\ None \notin Socks /\ MaxRcv \in Nat \ {0}
  /\ IsFiniteSet(Threads) /\ IsFiniteSet(Socks)

VARIABLES
  map,       \* xgb.inproc_listeners: the listener at the address
  foreign,   \* history: a listener that was not in the map was removed from it
  live,      \* sockets whose memory is allocated
  kind,      \* "listener" or "connector"
  sref,      \* sb->ref
  iref,      \* the reference count of a connector's memory
  peer,      \* the other end, until the socket has put it
  epipe,     \* sb->flagset.epipe
  rcv,       \* the number of messages in sb->rcv
  accq,      \* sb->acceptq of a listener
  open,      \* descriptors the application has and has not closed
  th         \* what each thread has still to do, first things first

mapVars == <<map, foreign>>
refVars == <<sref, iref, peer>>
flowVars == <<epipe, rcv, accq>>
vars == <<mapVars, live, kind, refVars, flowVars, open, th>>

\* A step to do: the operation, its socket, and a second socket.
Frame == [op : {"addlistener", "getlistener", "pair", "acceptq_add", "accept", "asleep",
                "send", "recv", "rsleep", "epipe", "put", "rmlistener", "drain",
                "wakepeer", "putpeer", "putself", "return"},
          o : Socks, p : Socks \cup {None}]
Do(op, o) == [op |-> op, o |-> o, p |-> None]

\* Thread t is at operation op on o; it does fs next, and the threads of woken
\* go back to the test they slept on.
At(t, op) == th[t] # <<>> /\ Head(th[t]).op = op
Sock(t) == Head(th[t]).o
Peer(t) == Head(th[t]).p
Awake(f) == [f EXCEPT !.op = IF f.op = "asleep" THEN "accept" ELSE "recv"]
Goes(t, fs, woken) ==
  th' = [u \in Threads |->
           IF u = t THEN fs \o Tail(th[t])
           ELSE IF u \in woken THEN <<Awake(Head(th[u]))>> \o Tail(th[u])
           ELSE th[u]]

\* An application's call begins on an idle thread.
Calls(t, fs) == th[t] = <<>> /\ th' = [th EXCEPT ![t] = fs]

Sleepers(op, o) == {u \in Threads : At(u, op) /\ Sock(u) = o}

----------------------------------------------------------------------------
(* Faults, used by nothing below: a plausible bug in the definition each   *)
(* name begins with.  The other end is not counted, or counted twice;      *)
(* connections that were not accepted are forgotten; only a queue that is  *)
(* not empty wakes the accepters.                                          *)

PeerRef_none == 0
Drained_none(o) == <<>>
AcceptWoken_more(o) == IF accq[o] # <<>> THEN Sleepers("asleep", o) ELSE {}

----------------------------------------------------------------------------
(* Creating sockets: xsocket and the opens of inproc.                      *)

\* A new connector counts itself.
Own(k) == IF k = "connector" THEN 1 ELSE 0

\* The reference that each end holds on the other.
PeerRef == 1

\* mem_zalloc, sockbase_init and xalloc.
Open(o, k) ==
  /\ o \notin live /\ live' = live \cup {o}
  /\ kind' = [kind EXCEPT ![o] = k]
  /\ epipe' = [epipe EXCEPT ![o] = FALSE]
  /\ rcv' = [rcv EXCEPT ![o] = 0]
  /\ accq' = [accq EXCEPT ![o] = <<>>]

XSocket(o, k) ==
  /\ Open(o, k)
  /\ sref' = [sref EXCEPT ![o] = 1]
  /\ iref' = [iref EXCEPT ![o] = Own(k)]
  /\ peer' = [peer EXCEPT ![o] = None]
  /\ UNCHANGED <<mapVars, open>>

\* xclose: its own xget, __xclose, and two puts.
XClose(o) == <<Do("epipe", o), Do("put", o), Do("put", o)>>

----------------------------------------------------------------------------
(* Listening.                                                              *)

xlisten(t) == \E o \in Socks :
  XSocket(o, "listener") /\ Calls(t, <<Do("addlistener", o)>>)

\* Fault for ListenerVisible: an address in use is taken over.
addlistener_over(t) ==
  LET o == Sock(t)
  IN  /\ At(t, "addlistener")
      /\ map' = o /\ open' = open \cup {o} /\ Goes(t, <<>>, {})
      /\ UNCHANGED <<foreign, live, kind, refVars, flowVars>>

\* inproc_listener_bind: EADDRINUSE makes xlisten close the socket.
addlistener(t) ==
  LET o == Sock(t)
  IN  /\ At(t, "addlistener")
      /\ IF map = None
         THEN map' = o /\ open' = open \cup {o} /\ Goes(t, <<>>, {}) /\ UNCHANGED <<foreign, sref>>
         ELSE /\ sref' = [sref EXCEPT ![o] = @ + 1]
              /\ Goes(t, XClose(o), {})
              /\ UNCHANGED <<mapVars, open>>
      /\ UNCHANGED <<live, kind, iref, peer, flowVars>>

\* rmlistener erases the node of the closing listener.  In the tree of a single
\* address every node is the root or was never inserted; either way the erasure
\* of a node without parent and children leaves the tree empty.
rmlistener(t) ==
  /\ At(t, "rmlistener")
  /\ map' = None /\ foreign' = (foreign \/ map \notin {None, Sock(t)})
  /\ Goes(t, <<Do("drain", Sock(t))>>, {})
  /\ UNCHANGED <<live, kind, refVars, flowVars, open>>

\* What a closing listener does with the first connection of its queue.
Drained(n) == <<Do("epipe", n), Do("put", n)>>

\* inproc_listener_close: connections nobody accepted are closed, then the
\* listener is freed.
inproc_listener_close(t) ==
  LET o == Sock(t)
  IN  /\ At(t, "drain")
      /\ IF accq[o] = <<>>
         THEN Goes(t, <<>>, {}) /\ live' = live \ {o} /\ UNCHANGED accq
         ELSE /\ accq' = [accq EXCEPT ![o] = Tail(@)]
              /\ Goes(t, Drained(Head(accq[o])) \o <<Do("drain", o)>>, {})
              /\ UNCHANGED live
      /\ UNCHANGED <<mapVars, kind, refVars, epipe, rcv, open>>

----------------------------------------------------------------------------
(* Connecting and accepting.                                               *)

xconnect(t) == \E o \in Socks :
  XSocket(o, "connector") /\ Calls(t, <<Do("getlistener", o)>>)

\* getlistener counts a reference on a listener that is not being closed;
\* ECONNREFUSED makes xconnect close the socket.
getlistener(t) ==
  LET o == Sock(t)
      found == map # None /\ ~epipe[map]
      l == IF found THEN map ELSE o
  IN  /\ At(t, "getlistener")
      /\ sref' = [sref EXCEPT ![l] = @ + 1]
      /\ Goes(t, IF found THEN <<[op |-> "pair", o |-> o, p |-> l], Do("put", l), Do("return", o)>>
                 ELSE XClose(o), {})
      /\ UNCHANGED <<mapVars, live, kind, iref, peer, flowVars, open>>

\* The accepted end is allocated and the two ends point at each other.
Pair(t) ==
  LET o == Sock(t)
  IN  /\ At(t, "pair")
      /\ \E n \in Socks :
           /\ Open(n, "connector")
           /\ sref' = [sref EXCEPT ![n] = 1]
           /\ iref' = [iref EXCEPT ![o] = @ + PeerRef, ![n] = Own("connector") + PeerRef]
           /\ peer' = [peer EXCEPT ![o] = n, ![n] = o]
           /\ Goes(t, <<[op |-> "acceptq_add", o |-> Peer(t), p |-> n]>>, {})
      /\ UNCHANGED <<mapVars, open>>

\* EMFILE: the listener is put and the socket closed.
PairFails(t) ==
  LET o == Sock(t)
  IN  /\ At(t, "pair") /\ live = Socks
      /\ sref' = [sref EXCEPT ![o] = @ + 1]
      /\ th' = [th EXCEPT ![t] = <<Do("put", Peer(t))>> \o XClose(o)]
      /\ UNCHANGED <<mapVars, live, kind, iref, peer, flowVars, open>>

\* The accepters that a new connection wakes: those of an empty queue.
AcceptWoken(o) == IF accq[o] = <<>> THEN Sleepers("asleep", o) ELSE {}

acceptq_add(t) ==
  LET l == Sock(t)
      n == Peer(t)
  IN  /\ At(t, "acceptq_add")
      /\ accq' = [accq EXCEPT ![l] = Append(@, n)]
      /\ Goes(t, <<>>, AcceptWoken(l))
      /\ UNCHANGED <<mapVars, live, kind, refVars, epipe, rcv, open>>

\* xconnect and xaccept return: the application has the descriptor.
Return(t) ==
  /\ At(t, "return")
  /\ open' = open \cup {Sock(t)}
  /\ Goes(t, <<>>, {})
  /\ UNCHANGED <<mapVars, live, kind, refVars, flowVars>>

\* A call on an open descriptor: xget, the operation, xput.
Enter(t, o, op) ==
  /\ o \in open
  /\ Calls(t, <<Do(op, o), Do("put", o)>>)
  /\ sref' = [sref EXCEPT ![o] = @ + 1]
  /\ UNCHANGED <<mapVars, live, kind, iref, peer, flowVars, open>>

xaccept(t) == \E o \in open : kind[o] = "listener" /\ Enter(t, o, "accept")

\* acceptq_rm: a broken or closing listener goes on waiting.
acceptq_rm(t) ==
  LET o == Sock(t)
  IN  /\ At(t, "accept")
      /\ IF accq[o] = <<>>
         THEN Goes(t, <<Do("asleep", o)>>, {}) /\ UNCHANGED accq
         ELSE /\ accq' = [accq EXCEPT ![o] = Tail(@)]
              /\ th' = [th EXCEPT ![t] = Append(Tail(@), Do("return", Head(accq[o])))]
      /\ UNCHANGED <<mapVars, live, kind, refVars, epipe, rcv, open>>

----------------------------------------------------------------------------
(* Sending and receiving.                                                  *)

xsend(t) == \E o \in open : kind[o] = "connector" /\ Enter(t, o, "send")
xrecv(t) == \E o \in open : kind[o] = "connector" /\ Enter(t, o, "recv")

\* inproc_send queues at the peer, closed or not, whatever its window is.
inproc_send(t) ==
  LET p == peer[Sock(t)]
  IN  /\ At(t, "send") /\ rcv[p] < MaxRcv
      /\ rcv' = [rcv EXCEPT ![p] = @ + 1]
      /\ Goes(t, <<>>, Sleepers("rsleep", p))
      /\ UNCHANGED <<mapVars, live, kind, refVars, epipe, accq, open>>

rcv_msgbuf_head_rm(t) ==
  LET o == Sock(t)
  IN  /\ At(t, "recv")
      /\ Goes(t, IF rcv[o] = 0 /\ ~epipe[o] THEN <<Do("rsleep", o)>> ELSE <<>>, {})
      /\ rcv' = IF rcv[o] = 0 THEN rcv ELSE [rcv EXCEPT ![o] = @ - 1]
      /\ UNCHANGED <<mapVars, live, kind, refVars, epipe, accq, open>>

----------------------------------------------------------------------------
(* Closing.                                                                *)

\* The application closes each of its descriptors once.
xclose(t) == \E o \in open :
  /\ Calls(t, XClose(o))
  /\ sref' = [sref EXCEPT ![o] = @ + 1]
  /\ open' = open \ {o}
  /\ UNCHANGED <<mapVars, live, kind, iref, peer, flowVars>>

\* The threads that __xclose wakes.
CloseWoken(o) == Sleepers("asleep", o) \cup Sleepers("rsleep", o)

__xclose(t) ==
  LET o == Sock(t)
  IN  /\ At(t, "epipe")
      /\ epipe' = [epipe EXCEPT ![o] = TRUE]
      /\ Goes(t, <<>>, CloseWoken(o))
      /\ UNCHANGED <<mapVars, live, kind, refVars, rcv, accq, open>>

\* The closes of the two kinds of sockets.
VClose(o) ==
  IF kind[o] = "listener" THEN <<Do("rmlistener", o)>>
  ELSE IF peer[o] = None THEN <<Do("putself", o)>>
  ELSE <<Do("wakepeer", o), Do("putpeer", o), Do("putself", o)>>

\* xput: the last one closes the socket.
xput(t) ==
  LET o == Sock(t)
  IN  /\ At(t, "put")
      /\ sref' = [sref EXCEPT ![o] = @ - 1]
      /\ Goes(t, IF sref[o] = 1 THEN VClose(o) ELSE <<>>, {})
      /\ UNCHANGED <<mapVars, live, kind, iref, peer, flowVars, open>>

\* inproc_peer_close wakes the receivers of the other end, which go on waiting.
inproc_peer_close(t) ==
  /\ At(t, "wakepeer")
  /\ Goes(t, <<>>, Sleepers("rsleep", peer[Sock(t)]))
  /\ UNCHANGED <<mapVars, live, kind, refVars, flowVars, open>>

\* The last of the two references frees the memory.
Unref(o) ==
  /\ iref' = [iref EXCEPT ![o] = @ - 1]
  /\ live' = IF iref[o] = 1 THEN live \ {o} ELSE live

PutPeer(t) ==
  LET o == Sock(t)
  IN  /\ At(t, "putpeer")
      /\ Unref(peer[o])
      /\ peer' = [peer EXCEPT ![o] = None]
      /\ Goes(t, <<>>, {})
      /\ UNCHANGED <<mapVars, kind, sref, flowVars, open>>

inproc_connector_close(t) ==
  /\ At(t, "putself")
  /\ Unref(Sock(t))
  /\ Goes(t, <<>>, {})
  /\ UNCHANGED <<mapVars, kind, sref, peer, flowVars, open>>

----------------------------------------------------------------------------
Init ==
  /\ map = None /\ foreign = FALSE /\ live = {} /\ open = {}
  /\ kind = [o \in Socks |-> "connector"]
  /\ sref = [o \in Socks |-> 0] /\ iref = [o \in Socks |-> 0]
  /\ peer = [o \in Socks |-> None] /\ epipe = [o \in Socks |-> FALSE]
  /\ rcv = [o \in Socks |-> 0] /\ accq = [o \in Socks |-> <<>>]
  /\ th = [t \in Threads |-> <<>>]

Begin(t) == xlisten(t) \/ xconnect(t) \/ xaccept(t) \/ xsend(t) \/ xrecv(t) \/ xclose(t)

Inside(t) ==
  \/ addlistener(t) \/ rmlistener(t) \/ inproc_listener_close(t)
  \/ getlistener(t) \/ Pair(t) \/ PairFails(t) \/ acceptq_add(t) \/ acceptq_rm(t) \/ Return(t)
  \/ inproc_send(t) \/ rcv_msgbuf_head_rm(t)
  \/ __xclose(t) \/ xput(t) \/ inproc_peer_close(t) \/ PutPeer(t)
  \/ inproc_connector_close(t)

Next == \E t \in Threads : Begin(t) \/ Inside(t)

Spec == Init /\ [][Next]_vars

----------------------------------------------------------------------------
(* Properties.                                                             *)

\* The values of the variables; a connector has at most two references on its
\* memory, its own and its peer's.
TypeOK ==
  /\ map \in Socks \cup {None} /\ foreign \in BOOLEAN /\ live \subseteq Socks /\ open \subseteq Socks
  /\ kind \in [Socks -> {"listener", "connector"}]
  /\ sref \in [Socks -> Nat] /\ iref \in [Socks -> 0..2]
  /\ peer \in [Socks -> Socks \cup {None}] /\ epipe \in [Socks -> BOOLEAN]
  /\ rcv \in [Socks -> 0..MaxRcv]
  /\ \A o \in Socks : accq[o] \in Seq(Socks)
  /\ \A t \in Threads : th[t] \in Seq(Frame)

Frames == UNION {{<<t, i>> : i \in DOMAIN th[t]} : t \in Threads}
Of(f) == th[f[1]][f[2]]
Queued == UNION {{accq[o][i] : i \in DOMAIN accq[o]} : o \in Socks}

\* Whatever a thread, a queue, a peer, the map or the application may still use
\* is allocated: no close frees a socket too early.
NoDangling ==
  /\ open \cup Queued \subseteq live /\ map \in live \cup {None}
  /\ \A f \in Frames : Of(f).o \in live /\ Of(f).p \in live \cup {None}
  /\ \A o \in live : peer[o] \in live \cup {None}

\* Sockets whose descriptor a thread is about to return.
Building ==
  {Of(f).o : f \in {g \in Frames : Of(g).op \in {"addlistener", "getlistener", "return"}}}
    \cup {Of(f).p : f \in {g \in Frames : Of(g).op = "acceptq_add"}}

\* sb->ref counts the descriptor and the puts that are due; the memory of a
\* connector counts the socket until it is closed, and its peer until that is.
RefsExact == \A o \in live :
  /\ sref[o] = Cardinality({f \in Frames : Of(f).op = "put" /\ Of(f).o = o})
               + IF o \in open \cup Queued \cup Building THEN 1 ELSE 0
  /\ kind[o] = "connector" => iref[o] =
       Cardinality({p \in live : peer[p] = o})
       + IF sref[o] > 0 \/ \E f \in Frames : Of(f).op = "putself" /\ Of(f).o = o
         THEN 1 ELSE 0

\* No connection is lost: a socket in use is known to the application, to a
\* thread, to a queue that will be accepted from or drained, or to its peer.
NoOrphan == \A o \in live :
  \/ o \in open \cup Queued
  \/ \E f \in Frames : o \in {Of(f).o, Of(f).p}
  \/ \E p \in live : peer[p] = o

\* Nobody sleeps on a queue that is not empty, or in xrecv on a closed socket,
\* whoever else connects, sends, receives or closes.
SleepJustified == \A t \in Threads :
  /\ At(t, "asleep") => accq[Sock(t)] = <<>>
  /\ At(t, "rsleep") => rcv[Sock(t)] = 0 /\ ~epipe[Sock(t)]

\* A listener that is open is found under its address, whoever else listens,
\* connects and closes there (docs/xpf_inproc.7.txt:18-19).  The code keeps this
\* until a listen at an address in use fails: closing the socket it made erases a
\* node that was never inserted, and the tree with it (inproc_listener.c:111).
ListenerVisible == foreign \/ \A o \in open : kind[o] = "listener" => map = o

=============================================================================
