---------------------------------- MODULE Mix ----------------------------------
(***************************************************************************)
(* A mixed listener (socket/mix/mix_listener.c): one socket that listens   *)
(* on several addresses through children, each an ordinary listener whose  *)
(* connections acceptq_add redirects to the owner's queue.                 *)
(*                                                                         *)
(* Connections arrive from other threads, a loop's or a connecting user's. *)
(* acceptq_add reads the owner without a lock before it locks the queue it *)
(* found, so binding, arriving and closing interleave step by step.        *)
(***************************************************************************)
EXTENDS Naturals, Sequences, Functions

CONSTANTS
    Children,  \* the number of addresses in the name, joined by "+"
    Stream,    \* the children (1..Children) on stream sockets; others are in-process
    Conns      \* the connections that may arrive

Mixed == 0     \* the mixed listener among the listeners 0..Children
Kids == 1..Children

ASSUME MixAssumption == Children \in Nat /\ Stream \subseteq Kids

VARIABLES
    pc,       \* the thread that binds, uses and closes: [at, i, undo]
    state,    \* per listener: "none", "listening", "closing", "closed"
    owner,    \* per child: whether its owner is the mixed listener
    acceptq,  \* per listener: its queue of connections
    moving,   \* the connection taken from a child's queue and not yet added: <<>> or <<k>>
    conn,     \* per connection: [at, child, aim]
    late      \* history: connections queued at a child that had an owner by then

mixvars == <<pc, state, owner, acceptq, moving, conn, late>>

MixInit ==
    /\ pc = [at |-> "listen", i |-> 1, undo |-> FALSE]
    /\ state = [l \in 0..Children |-> IF l = Mixed THEN "listening" ELSE "none"]
    /\ owner = [c \in Kids |-> FALSE]
    /\ acceptq = [l \in 0..Children |-> <<>>]
    /\ moving = <<>>
    /\ conn = [k \in Conns |-> [at |-> "new", child |-> 0, aim |-> 0]]
    /\ late = {}

Go(at, i) == pc' = [pc EXCEPT !.at = at, !.i = i]

(* ------------------------------- arriving -------------------------------- *)

\* A connection reaches a listening child: its handler runs, or the connecting
\* thread holds a reference on it.
Arrive(k, c) ==
    /\ conn[k].at = "new"
    /\ state[c] = "listening"
    /\ conn' = [conn EXCEPT ![k] = [at |-> "arrived", child |-> c, aim |-> 0]]
    /\ UNCHANGED <<pc, state, owner, acceptq, moving, late>>

\* acceptq_add's first loop: the socket whose queue will be locked.
ReadOwner(k) ==
    /\ conn[k].at = "arrived"
    /\ conn' = [conn EXCEPT ![k].at = "aimed",
                            ![k].aim = IF owner[conn[k].child] THEN Mixed ELSE conn[k].child]
    /\ UNCHANGED <<pc, state, owner, acceptq, moving, late>>

\* The rest of acceptq_add, under the lock of the socket found.
acceptq_add(k) ==
    LET l == conn[k].aim
    IN  /\ conn[k].at = "aimed"
        /\ acceptq' = [acceptq EXCEPT ![l] = Append(@, k)]
        /\ conn' = [conn EXCEPT ![k].at = "queued"]
        /\ late' = IF l # Mixed /\ owner[l] THEN late \cup {k} ELSE late
        /\ UNCHANGED <<pc, state, owner, moving>>

(* -------------------------------- binding -------------------------------- *)

\* xlisten on the next address: the child listens before it has an owner.
Listen ==
    /\ pc.at = "listen" /\ pc.i \in Kids
    /\ state' = [state EXCEPT ![pc.i] = "listening"]
    /\ Go("own", pc.i)
    /\ UNCHANGED <<owner, acceptq, moving, conn, late>>

\* Or it fails, and what was bound is undone: the children are closed, with
\* their owner still set, and then by xlisten the mixed listener.
ListenFails ==
    /\ pc.at = "listen" /\ pc.i \in Kids
    /\ pc' = [at |-> "close", i |-> 1, undo |-> TRUE]
    /\ UNCHANGED <<state, owner, acceptq, moving, conn, late>>

\* Fault for Served: the child is emptied before it has an owner.
SetOwner_last ==
    /\ \/ pc.at = "own" /\ Go("drain", pc.i) /\ UNCHANGED owner
       \/ /\ pc.at = "listen" /\ pc.i > 1 /\ ~owner[pc.i - 1]
          /\ owner' = [owner EXCEPT ![pc.i - 1] = TRUE]
          /\ UNCHANGED pc
    /\ UNCHANGED <<state, acceptq, moving, conn, late>>

SetOwner ==
    /\ pc.at = "own"
    /\ owner' = [owner EXCEPT ![pc.i] = TRUE]
    /\ Go("drain", pc.i)
    /\ UNCHANGED <<state, acceptq, moving, conn, late>>

\* Connections that reached the child meanwhile are moved one by one.
acceptq_rm_nohup ==
    /\ pc.at = "drain" /\ moving = <<>>
    /\ IF acceptq[pc.i] = <<>>
       THEN Go("listen", pc.i + 1) /\ UNCHANGED <<acceptq, moving>>
       ELSE /\ moving' = <<Head(acceptq[pc.i])>>
            /\ acceptq' = [acceptq EXCEPT ![pc.i] = Tail(@)]
            /\ UNCHANGED pc
    /\ UNCHANGED <<state, owner, conn, late>>

Give ==
    /\ moving # <<>>
    /\ acceptq' = [acceptq EXCEPT ![Mixed] = @ \o moving]
    /\ moving' = <<>>
    /\ UNCHANGED <<pc, state, owner, conn, late>>

Bound == pc.at = "listen" /\ pc.i = Children + 1

(* ---------------------------- using and closing --------------------------- *)

xaccept ==
    /\ Bound /\ acceptq[Mixed] # <<>>
    /\ conn' = [conn EXCEPT ![Head(acceptq[Mixed])].at = "accepted"]
    /\ acceptq' = [acceptq EXCEPT ![Mixed] = Tail(@)]
    /\ UNCHANGED <<pc, state, owner, moving, late>>

xclose ==
    /\ Bound
    /\ Go("close", 1)
    /\ UNCHANGED <<state, owner, acceptq, moving, conn, late>>

\* mix_listener_close gives up its children one by one; each starts to close.
CloseChild ==
    /\ pc.at = "close" /\ pc.i \in Kids
    /\ owner' = [owner EXCEPT ![pc.i] = pc.undo /\ @]
    /\ state' = [state EXCEPT ![pc.i] = IF @ = "listening" THEN "closing" ELSE "closed"]
    /\ Go("wait", pc.i)
    /\ UNCHANGED <<acceptq, moving, conn, late>>

Inside(c) == {k \in Conns : conn[k].child = c /\ conn[k].at \in {"arrived", "aimed"}}

\* A child's own close, when no arrival is inside it: the loop has detached its
\* descriptor, or the last reference was dropped.  What it has queued is closed.
ChildGone(c) ==
    /\ state[c] = "closing"
    /\ Inside(c) = {}
    /\ conn' = [k \in Conns |-> IF k \in Range(acceptq[c])
                                THEN [conn[k] EXCEPT !.at = "closed"] ELSE conn[k]]
    /\ acceptq' = [acceptq EXCEPT ![c] = <<>>]
    /\ state' = [state EXCEPT ![c] = "closed"]
    /\ UNCHANGED <<pc, owner, moving, late>>

\* Fault for NothingLeft: the children are not waited for.
NextChild_hurried ==
    /\ pc.at = "wait"
    /\ Go("close", pc.i + 1)
    /\ UNCHANGED <<state, owner, acceptq, moving, conn, late>>

\* xclose of a stream child returns when it is gone, of another one at once.
NextChild ==
    /\ pc.at = "wait"
    /\ pc.i \in Stream => state[pc.i] = "closed"
    /\ Go("close", pc.i + 1)
    /\ UNCHANGED <<state, owner, acceptq, moving, conn, late>>

\* The last part of mix_listener_close: the mixed listener's own queue.
MixGone ==
    /\ pc.at = "close" /\ pc.i = Children + 1
    /\ state' = [state EXCEPT ![Mixed] = "closed"]
    /\ conn' = [k \in Conns |-> IF k \in Range(acceptq[Mixed])
                                THEN [conn[k] EXCEPT !.at = "closed"] ELSE conn[k]]
    /\ acceptq' = [acceptq EXCEPT ![Mixed] = <<>>]
    /\ Go("done", 0)
    /\ UNCHANGED <<owner, moving, late>>

MixNext ==
    \/ \E k \in Conns : (\E c \in Kids : Arrive(k, c)) \/ ReadOwner(k) \/ acceptq_add(k)
    \/ Listen \/ ListenFails \/ SetOwner \/ acceptq_rm_nohup \/ Give
    \/ xaccept \/ xclose \/ CloseChild \/ NextChild \/ MixGone
    \/ \E c \in Kids : ChildGone(c)

MixSpec == MixInit /\ [][MixNext]_mixvars

(* ------------------------------- properties ------------------------------- *)

\* While the mixed listener is open, a connection of a child that has been bound
\* is where xaccept finds it: one that reached the child before it had an owner
\* was moved, one that came later was redirected.  Only a connection whose thread
\* read the owner before it was set, and queued after, may stay at the child.
Served ==
    pc.at \in {"listen", "own", "drain"} =>
        \A k \in Conns : conn[k].at = "queued" /\ conn[k].child < pc.i =>
            k \in Range(acceptq[Mixed]) \cup late

\* Closing leaves nothing behind: an arrival through a stream child never aims at
\* a mixed listener that is gone, and when all the listeners are closed every
\* connection they had queued was accepted or closed.
NothingLeft ==
    /\ \A k \in Conns : conn[k].at = "aimed" /\ conn[k].aim = Mixed /\ conn[k].child \in Stream
           => state[Mixed] # "closed"
    /\ (\A l \in 0..Children : state[l] = "closed") =>
           \A k \in Conns : conn[k].at = "queued" => conn[k].child \notin Stream

\* A mixed listener loses no connection, from its binding to its close.
MixSound == Served /\ NothingLeft
================================================================================
