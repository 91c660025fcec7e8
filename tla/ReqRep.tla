------------------------------- MODULE ReqRep -------------------------------
(***************************************************************************)
(* Request/reply (src/sp/reqrep) over a network of endpoints: clients,     *)
(* proxies and servers.  A proxy is a "rep" endpoint joined by             *)
(* epbase_proxyto with a "req" endpoint.  Requests are balanced forward;   *)
(* each carries the stack of the links it came through, by which its reply *)
(* is routed back.                                                         *)
(*                                                                         *)
(* A link is one connection: its "req" end is a target with a uuid of its  *)
(* own (the link stands for it), its "rep" end a target that learns that   *)
(* uuid from the messages.  A link that breaks is never mended; a          *)
(* reconnection is another link.  Each action is what a thread does under  *)
(* the lock of an endpoint, with the xsend or xrecv next to it: what can   *)
(* happen between those is in Sp.  The runner of a proxy takes no lock     *)
(* (pipeline.c): it uses the queues and the balancing of both endpoints    *)
(* while another thread may join a connection under the lock of one.  Each *)
(* of its four handlers is one step here, as if it had the lock; the race  *)
(* of lbs->select with the add of reqep_join is not modelled.              *)
(*                                                                         *)
(* The application configures a proxy before it adds connections, answers  *)
(* with the control messages of the request (uctl, SSWITCH), and has no    *)
(* control messages of its own.                                            *)
(***************************************************************************)
EXTENDS Integers, Sequences, FiniteSets

CONSTANTS
  Clients, Proxies, Servers,   \* endpoints; a proxy is a pair of them
  Links, Src, Dst,             \* Src[l] is the node of the "req" end of l
  Reqs,                        \* requests
  None,
  TtlMod,                      \* 16 in the code: rrhdr.ttl has 4 bits
  MaxBreaks                    \* bound of this model on broken links

Nodes == Clients \cup Proxies \cup Servers

ASSUME ReqRepAssumption ==
  /\ Src \in [Links -> Clients \cup Proxies] /\ Dst \in [Links -> Proxies \cup Servers]
  /\ Clients \cap (Proxies \cup Servers) = {} /\ Proxies \cap Servers = {}
  /\ None \notin Clients \cup Links /\ TtlMod \in Nat \ {0, 1} /\ MaxBreaks \in Nat

\* No way through the network has more links than a ttl can count.  The code does not
\* see to it: it relies on how the proxies are set up.
Shallow ==
  \E rank \in [Nodes -> 0 .. TtlMod - 1] : \A l \in Links : rank[Src[l]] < rank[Dst[l]]

VARIABLES
  proxied,   \* proxies whose endpoints have been joined
  joined,    \* links that have been connected
  rr,        \* rr[n]: the links of n's "req" endpoint, as its load balancer lists them
  reps,      \* links whose "rep" end is in its endpoint
  uuid,      \* what the "rep" end of each link knows of its uuid
  broken,    \* broken links
  wire,      \* wire[l].fwd and wire[l].bwd: messages on the way
  ls,        \* ls[l].fwd and ls[l].bwd: the ls_head of its ends
  rcv,       \* requests that servers have received and not answered
  hdr,       \* the header that a refused sp_send leaves on a request, or None
  owner, served, got,   \* what the users see, as in Answers
  dropped,   \* requests a proxy had no connection for
  fault      \* the BUG_ON that fails, or "none"

netVars == <<proxied, joined, rr, reps, uuid, broken>>
msgVars == <<wire, ls, rcv, hdr>>
appVars == <<owner, served, got, dropped>>
vars == <<netVars, msgVars, appVars, fault>>

----------------------------------------------------------------------------
(* Faults, used by nothing below: a proxy sends a reply to any of its       *)
(* connections; it writes its uuid over the last one of a request; an       *)
(* accepted connection joins only when its uuid is known.                   *)

route_backward_any(p, h) == {l \in reps : Dst[l] = p}
rt_append_over(h, l) == [h EXCEPT !.rt = Append(SubSeq(@, 1, h.ttl - 1), l)]
repep_join_known(l) ==
  /\ l \in joined /\ l \notin reps \cup broken /\ uuid[l] # None
  /\ reps' = reps \cup {l}
  /\ UNCHANGED <<proxied, joined, rr, uuid, broken, msgVars, appVars, fault>>

----------------------------------------------------------------------------
(* The header: ttl is the number of entries of rt in use.                  *)

new_rrhdr(l) == [ttl |-> 1, rt |-> <<l>>, go |-> TRUE]

\* rt_append: one more entry, at the place the new ttl tells.
rt_append(h, l) ==
  LET n == (h.ttl + 1) % TtlMod
  IN  [h EXCEPT !.ttl = n, !.rt = Append(SubSeq(@, 1, n - 1), l)]

\* A reply leaves an entry behind.
Popped(h) == [h EXCEPT !.ttl = (@ - 1) % TtlMod]

rt_cur(h) == h.rt[h.ttl]
rt_prev(h) == h.rt[h.ttl - 1]
----------------------------------------------------------------------------
(* Connections.                                                            *)

Conns(n) == {l \in reps : Dst[l] = n}
Elems(q) == {q[k] : k \in DOMAIN q}
Balanced(l) == l \in Elems(rr[Src[l]])

epbase_proxyto(p) ==
  /\ p \notin proxied /\ Conns(p) = {} /\ rr[p] = <<>>
  /\ proxied' = proxied \cup {p}
  /\ UNCHANGED <<joined, rr, reps, uuid, broken, msgVars, appVars, fault>>

\* A proxy is of use once it is configured.
Configured(n) == n \in Proxies => n \in proxied

\* reqep_join, weight_rrbin_add: at the tail of the list.
reqep_join(l) ==
  /\ l \notin joined /\ Configured(Src[l]) /\ Configured(Dst[l])
  /\ joined' = joined \cup {l} /\ rr' = [rr EXCEPT ![Src[l]] = Append(@, l)]
  /\ UNCHANGED <<proxied, reps, uuid, broken, msgVars, appVars, fault>>

\* repep_join of the accepted connection: its uuid is not known.
repep_join(l) ==
  /\ l \in joined /\ l \notin reps \cup broken
  /\ reps' = reps \cup {l}
  /\ UNCHANGED <<proxied, joined, rr, uuid, broken, msgVars, appVars, fault>>

\* Of what is on the way, each end still gets a beginning.
Break(l) ==
  /\ l \in joined \ broken /\ Cardinality(broken) < MaxBreaks
  /\ broken' = broken \cup {l}
  /\ \E f \in 0 .. Len(wire[l].fwd), b \in 0 .. Len(wire[l].bwd) :
       wire' = [wire EXCEPT ![l] = [fwd |-> SubSeq(@.fwd, 1, f), bwd |-> SubSeq(@.bwd, 1, b)]]
  /\ UNCHANGED <<proxied, joined, rr, reps, uuid, ls, rcv, hdr, appVars, fault>>

\* reqep_term, weight_rrbin_rm: with the target goes what waits at it.
reqep_term(l) ==
  /\ l \in broken /\ Balanced(l)
  /\ \E k \in DOMAIN rr[Src[l]] :
       rr[Src[l]][k] = l /\ rr' = [rr EXCEPT ![Src[l]] = SubSeq(@, 1, k - 1) \o SubSeq(@, k + 1, Len(@))]
  /\ wire' = [wire EXCEPT ![l].bwd = <<>>] /\ ls' = [ls EXCEPT ![l].fwd = <<>>]
  /\ UNCHANGED <<proxied, joined, reps, uuid, broken, rcv, hdr, appVars, fault>>

repep_term(l) ==
  /\ l \in broken /\ l \in reps
  /\ reps' = reps \ {l}
  /\ wire' = [wire EXCEPT ![l].fwd = <<>>] /\ ls' = [ls EXCEPT ![l].bwd = <<>>]
  /\ UNCHANGED <<proxied, joined, rr, uuid, broken, rcv, hdr, appVars, fault>>

----------------------------------------------------------------------------
(* Messages.                                                               *)

\* weight_rrbin_select, all weights being 1: the first, which becomes the last.
Selected(n) == Head(rr[n])
Rotated(n) == [rr EXCEPT ![n] = Append(Tail(@), Head(@))]

\* xsend: a broken link swallows the message or, once its socket knows, refuses it.
Accepts(l) == IF l \in broken THEN {TRUE, FALSE} ELSE {TRUE}
Forward(l, m) == wire' = IF l \in broken THEN wire ELSE [wire EXCEPT ![l].fwd = Append(@, m)]
Back(l, m) == wire' = IF l \in broken THEN wire ELSE [wire EXCEPT ![l].bwd = Append(@, m)]

\* A client sends r, or sends it again after it was refused: the header that
\* the first try has left is then the one that counts.
reqep_send(c, r) ==
  /\ owner[r] = None \/ (owner[r] = c /\ hdr[r] # None)
  /\ rr[c] # <<>> /\ rr' = Rotated(c) /\ owner' = [owner EXCEPT ![r] = c]
  /\ LET l == Selected(c)
         h == IF hdr[r] = None THEN new_rrhdr(l) ELSE hdr[r]
     IN  \E accepted \in Accepts(l) :
           /\ hdr' = [hdr EXCEPT ![r] = IF accepted THEN None ELSE h]
           /\ IF accepted THEN Forward(l, [id |-> r, h |-> h]) ELSE UNCHANGED wire
  /\ UNCHANGED <<proxied, joined, reps, uuid, broken, ls, rcv, served, got, dropped, fault>>

\* What an assertion on the ttl stops.
Asserts(cond, where) == fault' = IF cond THEN fault ELSE where

\* A proxy's front, which learns the uuid of its connection from each message:
\* the request goes to a connection of the back, if there is one.
receiver_add(l) ==
  LET p == Dst[l]
      m == Head(wire[l].fwd)
  IN  /\ p \in Proxies /\ l \in reps /\ wire[l].fwd # <<>>
      /\ Asserts(m.h.ttl >= 1, "rt_cur")
      /\ wire' = [wire EXCEPT ![l].fwd = Tail(@)]
      /\ IF rr[p] = <<>> \/ m.h.ttl < 1
         THEN dropped' = dropped \cup {m.id} /\ UNCHANGED <<rr, ls, uuid>>
         ELSE /\ ls' = [ls EXCEPT ![Selected(p)].fwd = Append(@, m)] /\ rr' = Rotated(p)
              /\ uuid' = [uuid EXCEPT ![l] = rt_cur(m.h)] /\ UNCHANGED dropped
      /\ UNCHANGED <<proxied, joined, reps, broken, rcv, hdr, owner, served, got>>

\* A proxy's back sends what waits there, with its own uuid on the stack.  A
\* message that xsend refuses is freed.
dispatcher_rm(l) ==
  /\ Src[l] \in Proxies /\ ls[l].fwd # <<>> /\ Balanced(l)
  /\ ls' = [ls EXCEPT ![l].fwd = Tail(@)]
  /\ Forward(l, [Head(ls[l].fwd) EXCEPT !.h = rt_append(@, l)])
  /\ Asserts(rt_append(Head(ls[l].fwd).h, l).ttl >= 1, "rt_append")
  /\ UNCHANGED <<netVars, rcv, hdr, appVars>>

\* A server receives, and learns the uuid.
repep_add(l) ==
  LET s == Dst[l]
      m == Head(wire[l].fwd)
  IN  /\ s \in Servers /\ l \in reps /\ wire[l].fwd # <<>>
      /\ Asserts(m.h.ttl >= 1, "rt_cur")
      /\ wire' = [wire EXCEPT ![l].fwd = Tail(@)]
      /\ uuid' = [uuid EXCEPT ![l] = rt_cur(m.h)]
      /\ rcv' = [rcv EXCEPT ![s] = @ \cup {m}]
      /\ served' = [served EXCEPT ![m.id] = @ + 1]
      /\ UNCHANGED <<proxied, joined, rr, reps, broken, ls, hdr, owner, got, dropped>>

\* Threads of a server answer in any order.  Of several connections with the
\* uuid, the code takes the first of a list.  Without one, sp_send fails.
repep_send(s, m) ==
  LET h == [m.h EXCEPT !.go = FALSE]
      ts == {l \in Conns(s) : uuid[l] = rt_cur(h)}
  IN  /\ m \in rcv[s] /\ rcv' = [rcv EXCEPT ![s] = @ \ {m}]
      /\ \/ ts = {} /\ UNCHANGED wire
         \/ \E l \in ts : Back(l, [m EXCEPT !.h = h])
      /\ UNCHANGED <<netVars, ls, hdr, appVars, fault>>

\* The connections of p that the previous entry of the stack names.
route_backward(p, h) == {l \in Conns(p) : uuid[l] = rt_prev(h)}

dispatcher_add(l) ==
  LET p == Src[l]
      m == Head(wire[l].bwd)
  IN  /\ p \in Proxies /\ wire[l].bwd # <<>>
      /\ Asserts(m.h.ttl >= 2, "rt_prev")
      /\ wire' = [wire EXCEPT ![l].bwd = Tail(@)]
      /\ \/ m.h.ttl < 2 /\ UNCHANGED ls
         \/ m.h.ttl >= 2 /\ route_backward(p, m.h) = {} /\ UNCHANGED ls
         \/ /\ m.h.ttl >= 2
            /\ \E back \in route_backward(p, m.h) :
                 ls' = [ls EXCEPT ![back].bwd = Append(@, [m EXCEPT !.h = Popped(@)])]
      /\ UNCHANGED <<netVars, rcv, hdr, appVars>>

receiver_rm(l) ==
  /\ Dst[l] \in Proxies /\ ls[l].bwd # <<>>
  /\ ls' = [ls EXCEPT ![l].bwd = Tail(@)]
  /\ Back(l, Head(ls[l].bwd))
  /\ UNCHANGED <<netVars, rcv, hdr, appVars, fault>>

\* A client receives a reply.
reqep_add(l) ==
  LET c == Src[l]
  IN  /\ c \in Clients /\ wire[l].bwd # <<>>
      /\ wire' = [wire EXCEPT ![l].bwd = Tail(@)]
      /\ got' = [got EXCEPT ![Head(wire[l].bwd).id][c] = @ + 1]
      /\ UNCHANGED <<netVars, ls, rcv, hdr, owner, served, dropped, fault>>

----------------------------------------------------------------------------

Init ==
  /\ proxied = {} /\ joined = {} /\ reps = {} /\ broken = {} /\ dropped = {}
  /\ rr = [n \in Clients \cup Proxies |-> <<>>]
  /\ uuid = [l \in Links |-> None]
  /\ wire = [l \in Links |-> [fwd |-> <<>>, bwd |-> <<>>]] /\ ls = wire
  /\ rcv = [s \in Servers |-> {}] /\ hdr = [r \in Reqs |-> None]
  /\ owner = [r \in Reqs |-> None] /\ served = [r \in Reqs |-> 0]
  /\ got = [r \in Reqs |-> [c \in Clients |-> 0]] /\ fault = "none"

\* What the runners of the processes, and the threads of the servers, do.
Moves ==
  \/ \E l \in Links :
       \/ repep_join(l) \/ reqep_term(l) \/ repep_term(l)
       \/ receiver_add(l) \/ dispatcher_rm(l) \/ dispatcher_add(l) \/ receiver_rm(l)
       \/ repep_add(l) \/ reqep_add(l)
  \/ \E s \in Servers : \E m \in rcv[s] : repep_send(s, m)

Asks == \E c \in Clients, r \in Reqs : reqep_send(c, r)
Changes == (\E p \in Proxies : epbase_proxyto(p)) \/ \E l \in Links : reqep_join(l) \/ Break(l)

Next == fault = "none" /\ (Moves \/ Asks \/ Changes)

Spec == Init /\ [][Next]_vars /\ WF_vars(fault = "none" /\ Moves)

----------------------------------------------------------------------------
(* Properties.                                                             *)

A == INSTANCE Answers

\* Through any proxies, and whatever breaks and is sent again, a request is
\* served at most once and its answer reaches the client that asked, once
\* (docs/reqrep.7.txt, "route backward").
AnswersCorrect == A!Spec

Hop(x, y) == \E l \in Links : Src[l] = x /\ Dst[l] = y

\* The stack of a message is the path of nodes by which it came to n, the
\* client that asked being the first.
Path(m, n) ==
  LET h == m.h
  IN  /\ h.ttl \in 1 .. Len(h.rt)
      /\ Src[h.rt[1]] = owner[m.id] /\ Hop(Src[rt_cur(h)], n)
      /\ \A k \in 1 .. h.ttl - 1 : Hop(Src[h.rt[k]], Src[h.rt[k + 1]])

\* Every message is on the path its stack tells, in either direction, though the
\* links of the path may be other ones.
OnPath ==
  /\ \A l \in Links :
       /\ \A m \in Elems(wire[l].fwd) \cup Elems(wire[l].bwd) \cup Elems(ls[l].bwd) :
            Path(m, Dst[l]) /\ Src[rt_cur(m.h)] = Src[l]
       /\ \A m \in Elems(ls[l].fwd) : Path(m, Src[l])
  /\ \A s \in Servers : \A m \in rcv[s] : Path(m, s)

\* Messages follow their paths, and none of the assertions on the ttl fails
\* (rr.h:75, 85).
RouteSound == fault = "none" /\ OnPath

\* A request that a client got off is answered, unless a link breaks or a proxy
\* has no connection to pass it to.
AllAnswered ==
  \A r \in Reqs :
    owner[r] # None ~> broken # {} \/ r \in dropped \/ \E c \in Clients : got[r][c] > 0
=============================================================================
