--------------------------- MODULE ReqRep_proofs ----------------------------
(* Proofs about ReqRep, for any network of clients, proxies and servers and *)
(* any requests.                                                            *)
EXTENDS ReqRep, TLAPS

----------------------------------------------------------------------------
(* The inductive invariant.                                                 *)

Hdrs == [ttl : 0 .. TtlMod - 1, rt : Seq(Links), go : BOOLEAN]
Msgs == [id : Reqs, h : Hdrs]
Ends == [fwd : Seq(Msgs), bwd : Seq(Msgs)]

\* Types; a load balancer lists links of its own endpoint.
TypeInv ==
  /\ rr \in [Clients \cup Proxies -> Seq(Links)] /\ reps \subseteq Links
  /\ uuid \in [Links -> Links \cup {None}]
  /\ wire \in [Links -> Ends] /\ ls \in [Links -> Ends] /\ rcv \in [Servers -> SUBSET Msgs]
  /\ hdr \in [Reqs -> Hdrs \cup {None}]
  /\ A!TypeOK
  /\ \A n \in Clients \cup Proxies : \A l \in Elems(rr[n]) : Src[l] = n

\* The requests in a queue, which holds no two messages of one request.
Ids(q) == {m.id : m \in Elems(q)}
Distinct(q) == \A j, k \in DOMAIN q : q[j].id = q[k].id => j = k

\* The places where a request or its reply can be, and which are in each.
Forth == {"wf", "lf"}
Place == ((Forth \cup {"wb", "lb"}) \X Links) \cup ({"rcv"} \X Servers)
At(p) ==
  CASE p[1] = "wf" -> Ids(wire[p[2]].fwd)
    [] p[1] = "wb" -> Ids(wire[p[2]].bwd)
    [] p[1] = "lf" -> Ids(ls[p[2]].fwd)
    [] p[1] = "lb" -> Ids(ls[p[2]].bwd)
    [] p[1] = "rcv" -> {m.id : m \in rcv[p[2]]}

QueuesDistinct ==
  /\ \A l \in Links : /\ Distinct(wire[l].fwd) /\ Distinct(wire[l].bwd)
                      /\ Distinct(ls[l].fwd) /\ Distinct(ls[l].bwd)
  /\ \A s \in Servers : \A m, n \in rcv[s] : m.id = n.id => m = n

\* A request is in one place, on its way forth until it is served, and nowhere
\* before it is sent, while its sender has it back, and once it is answered.
Tokens ==
  /\ \A p, q \in Place : p # q => At(p) \cap At(q) = {}
  /\ \A r \in Reqs :
       /\ served[r] = 0 => \A c \in Clients : got[r][c] = 0
       /\ owner[r] = None => hdr[r] = None
       /\ owner[r] = None \/ hdr[r] # None => served[r] = 0 /\ \A p \in Place : r \notin At(p)
       /\ \A p \in Place :
            r \in At(p) => /\ served[r] = IF p[1] \in Forth THEN 0 ELSE 1
                           /\ \A c \in Clients : got[r][c] = 0

\* What a refused request keeps is a stack of one; what a "rep" end knows of its
\* uuid is a link from the node it is connected to.
HdrInv == \A r \in Reqs :
  hdr[r] # None => hdr[r].ttl = 1 /\ Len(hdr[r].rt) >= 1 /\ Src[hdr[r].rt[1]] = owner[r]
UuidInv == \A l \in Links : uuid[l] # None => Src[uuid[l]] = Src[l]

\* The paths are right until an assertion fails, where the model stops.
IInv ==
  /\ TypeInv /\ QueuesDistinct /\ Tokens
  /\ fault = "none" => OnPath /\ HdrInv /\ UuidInv

----------------------------------------------------------------------------
(* Queues.                                                                  *)

LEMMA Appended ==
  ASSUME NEW S, NEW q \in Seq(S), NEW x \in S
  PROVE  /\ Append(q, x) \in Seq(S)
         /\ Elems(Append(q, x)) = Elems(q) \cup {x}
  <1>1. /\ Append(q, x) \in Seq(S) /\ DOMAIN Append(q, x) = 1..Len(q)+1
        /\ \A k \in 1..Len(q) : Append(q, x)[k] = q[k]
        /\ Append(q, x)[Len(q)+1] = x
        /\ DOMAIN q = 1..Len(q) /\ Len(q) \in Nat
    OBVIOUS
  <1>2. Elems(Append(q, x)) \subseteq Elems(q) \cup {x}
     BY <1>1 DEF Elems
  <1>3. Elems(q) \cup {x} \subseteq Elems(Append(q, x))
     BY <1>1 DEF Elems
  <1>4. QED BY <1>1, <1>2, <1>3

LEMMA TailElems ==
  ASSUME NEW S, NEW q \in Seq(S), q # <<>>
  PROVE  /\ Tail(q) \in Seq(S) /\ Head(q) \in Elems(q) /\ Head(q) \in S
         /\ Elems(Tail(q)) \subseteq Elems(q)
  BY DEF Elems

LEMMA IdsOf == \A q : Ids(q) = {q[k].id : k \in DOMAIN q}
  BY DEF Ids, Elems

LEMMA TailIds ==
  ASSUME NEW q \in Seq(Msgs), q # <<>>, Distinct(q)
  PROVE  /\ Head(q).id \in Ids(q)
         /\ Ids(Tail(q)) = Ids(q) \ {Head(q).id} /\ Distinct(Tail(q))
  <1>1. /\ DOMAIN Tail(q) = 1..Len(q)-1 /\ DOMAIN q = 1..Len(q) /\ Len(q) \in Nat \ {0}
        /\ \A k \in 1..Len(q)-1 : Tail(q)[k] = q[k+1]
        /\ Head(q) = q[1]
    OBVIOUS
  <1>2. Ids(Tail(q)) = {q[k].id : k \in 2..Len(q)}
    <2>1. Ids(Tail(q)) = {Tail(q)[k].id : k \in 1..Len(q)-1}
      BY <1>1, IdsOf
    <2>2. {Tail(q)[k].id : k \in 1..Len(q)-1} \subseteq {q[k].id : k \in 2..Len(q)}
      BY <1>1
    <2>3. \A k \in 2..Len(q) : k - 1 \in 1..Len(q)-1 /\ Tail(q)[k - 1] = q[k]
      BY <1>1
    <2>4. {q[k].id : k \in 2..Len(q)} \subseteq {Tail(q)[k].id : k \in 1..Len(q)-1}
      BY <2>3
    <2>5. QED BY <2>1, <2>2, <2>4
  <1>3. Ids(q) = {q[k].id : k \in 1..Len(q)}
    BY <1>1, IdsOf
  <1>4. \A k \in 2..Len(q) : q[k].id # q[1].id
    BY <1>1 DEF Distinct
  <1>5. Distinct(Tail(q))
    BY <1>1 DEF Distinct
  <1>6. QED BY <1>1, <1>2, <1>3, <1>4, <1>5

LEMMA AppendIds ==
  ASSUME NEW q \in Seq(Msgs), NEW m \in Msgs, m.id \notin Ids(q), Distinct(q)
  PROVE  /\ Ids(Append(q, m)) = Ids(q) \cup {m.id} /\ Distinct(Append(q, m))
  <1>1. Elems(Append(q, m)) = Elems(q) \cup {m}
    BY Appended
  <1>2. Ids(Append(q, m)) = Ids(q) \cup {m.id}
    BY <1>1 DEF Ids
  <1>3. /\ DOMAIN Append(q, m) = 1..Len(q)+1 /\ DOMAIN q = 1..Len(q) /\ Len(q) \in Nat
        /\ \A k \in 1..Len(q) : Append(q, m)[k] = q[k]
        /\ Append(q, m)[Len(q)+1] = m
    OBVIOUS
  <1>4. \A k \in 1..Len(q) : q[k].id # m.id
    BY <1>3 DEF Ids, Elems
  <1>5. Distinct(Append(q, m))
    BY <1>3, <1>4 DEF Distinct
  <1>6. QED BY <1>2, <1>5

LEMMA Cut ==
  ASSUME NEW S, NEW q \in Seq(S), NEW n \in 0..Len(q)
  PROVE  /\ SubSeq(q, 1, n) \in Seq(S) /\ Elems(SubSeq(q,1,n)) \subseteq Elems(q)
  BY DEF Elems

LEMMA Remove ==
  ASSUME NEW S, NEW q \in Seq(S), NEW k \in DOMAIN q
  PROVE  /\ SubSeq(q, 1, k-1) \o SubSeq(q, k+1, Len(q)) \in Seq(S)
         /\ Elems(SubSeq(q, 1, k-1) \o SubSeq(q, k+1, Len(q))) \subseteq Elems(q)
  <1> DEFINE a == SubSeq(q, 1, k-1)
             b == SubSeq(q, k+1, Len(q))
  <1>1. a \in Seq(S) /\ Elems(a) \subseteq Elems(q)
    BY DEF Elems
  <1>2. b \in Seq(S) /\ Elems(b) \subseteq Elems(q)
    BY DEF Elems
  <1> HIDE DEF a, b
  <1>3. a \o b \in Seq(S) /\ Elems(a \o b) \subseteq Elems(a) \cup Elems(b)
    BY <1>1, <1>2 DEF Elems
  <1>4. QED BY <1>1, <1>2, <1>3 DEF a, b



----------------------------------------------------------------------------
(* Requests that move.                                                      *)

\* The places, one by one.
LEMMA Places ==
  \A p \in Place :
    \/ /\ p[2] \in Links
       /\ \/ p[1] = "wf" /\ At(p) = Ids(wire[p[2]].fwd)
          \/ p[1] = "wb" /\ At(p) = Ids(wire[p[2]].bwd)
          \/ p[1] = "lf" /\ At(p) = Ids(ls[p[2]].fwd)
          \/ p[1] = "lb" /\ At(p) = Ids(ls[p[2]].bwd)
    \/ p[1] = "rcv" /\ p[2] \in Servers /\ At(p) = {m.id : m \in rcv[p[2]]}
  BY DEF Place, At, Forth

LEMMA PlaceOf ==
  /\ \A l \in Links :
       /\ <<"wf", l>> \in Place /\ At(<<"wf", l>>) = Ids(wire[l].fwd)
       /\ <<"wb", l>> \in Place /\ At(<<"wb", l>>) = Ids(wire[l].bwd)
       /\ <<"lf", l>> \in Place /\ At(<<"lf", l>>) = Ids(ls[l].fwd)
       /\ <<"lb", l>> \in Place /\ At(<<"lb", l>>) = Ids(ls[l].bwd)
  /\ \A s \in Servers : <<"rcv", s>> \in Place /\ At(<<"rcv", s>>) = {m.id : m \in rcv[s]}
  /\ \A x : /\ <<"wf", x>>[1] \in Forth /\ <<"lf", x>>[1] \in Forth
            /\ <<"wb", x>>[1] \notin Forth /\ <<"lb", x>>[1] \notin Forth /\ <<"rcv", x>>[1] \notin Forth
  BY DEF Place, At, Forth

LEMMA PlaceNext ==
  /\ \A l \in Links : /\ At(<<"wf", l>>)' = Ids(wire'[l].fwd) /\ At(<<"wb", l>>)' = Ids(wire'[l].bwd)
                      /\ At(<<"lf", l>>)' = Ids(ls'[l].fwd) /\ At(<<"lb", l>>)' = Ids(ls'[l].bwd)
  /\ \A s \in Servers : At(<<"rcv", s>>)' = {m.id : m \in rcv'[s]}
  BY DEF At

\* A request that goes from a place to one at the same side of its server, or is lost
\* there, keeps the tokens.
LEMMA TokensMove ==
  ASSUME Tokens, UNCHANGED <<owner, served, got, hdr>>,
         NEW p \in Place, NEW q \in Place, NEW i \in At(p),
         p[1] \in Forth <=> q[1] \in Forth,
         \A x \in Place \ {p, q} : At(x)' \subseteq At(x),
         At(p)' \subseteq At(p) \ {i}, At(q)' \subseteq At(q) \cup {i}, p # q
  PROVE  Tokens'
  <1>1. \A x \in Place \ {q} : At(x)' \subseteq At(x) \ {i}
    BY DEF Tokens
  <1>2. ASSUME NEW x \in Place, NEW y \in Place, x # y PROVE At(x)' \cap At(y)' = {}
    BY <1>1, <1>2 DEF Tokens
  <1>3. \A r \in Reqs : \A x \in Place : r \in At(x)' => r \in At(x) \/ (r = i /\ x = q)
    BY <1>1
  <1>4. QED BY <1>2, <1>3 DEF Tokens

\* So does one that is lost.
LEMMA TokensLess ==
  ASSUME Tokens, UNCHANGED <<owner, served, got, hdr>>,
         \A x \in Place : At(x)' \subseteq At(x)
  PROVE  Tokens'
  BY DEF Tokens

\* A path depends on the variables only by the owner of its request.
LEMMA PathKept ==
  ASSUME NEW m, NEW n, Path(m, n), owner'[m.id] = owner[m.id]
  PROVE  Path(m, n)'
  BY DEF Path, Hop, rt_cur

----------------------------------------------------------------------------
(* Headers.                                                                 *)

\* One more entry, unless the ttl wraps.
LEMMA AppendedHdr ==
  ASSUME NEW h \in Hdrs, h.ttl \in 1 .. Len(h.rt), NEW l \in Links
  PROVE  LET g == rt_append(h, l)
         IN  /\ g \in Hdrs
             /\ g.ttl >= 1 => /\ g.ttl = h.ttl + 1 /\ Len(g.rt) = g.ttl /\ g.rt[g.ttl] = l
                              /\ \A k \in 1 .. h.ttl : g.rt[k] = h.rt[k]
  <1> DEFINE n == (h.ttl + 1) % TtlMod
             front == SubSeq(h.rt, 1, n - 1)
  <1>1. h.ttl \in 0 .. TtlMod - 1 /\ h.rt \in Seq(Links) /\ h.go \in BOOLEAN
    BY DEF Hdrs
  <1>2. n \in 0 .. TtlMod - 1 /\ (n = 0 \/ n = h.ttl + 1)
    <2>1. TtlMod \in Nat /\ TtlMod > 1
      BY ReqRepAssumption
    <2>2. CASE h.ttl + 1 < TtlMod
      BY <1>1, <2>1, <2>2
    <2>3. CASE h.ttl + 1 = TtlMod
      BY <1>1, <2>1, <2>3
    <2>4. QED BY <1>1, <2>1, <2>2, <2>3
  <1>3. front \in Seq(Links) /\ (n >= 1 => Len(front) = n - 1 /\ \A k \in 1 .. n - 1 : front[k] = h.rt[k])
    BY <1>1, <1>2
  <1> HIDE DEF front
  <1>4. /\ Append(front, l) \in Seq(Links) /\ Len(Append(front, l)) = Len(front) + 1
        /\ Append(front, l)[Len(front) + 1] = l
        /\ \A k \in 1 .. Len(front) : Append(front, l)[k] = front[k]
    BY <1>3
  <1>5. rt_append(h, l) = [h EXCEPT !.ttl = n, !.rt = Append(front, l)]
    BY DEF rt_append, front
  <1> HIDE DEF n
  <1>6. rt_append(h, l) \in Hdrs /\ rt_append(h, l).ttl = n /\ rt_append(h, l).rt = Append(front, l)
    BY <1>1, <1>2, <1>4, <1>5 DEF Hdrs
  <1>7. QED BY <1>1, <1>2, <1>3, <1>4, <1>6

LEMMA PathPushed ==
  ASSUME NEW m \in Msgs, NEW n \in Msgs, NEW l \in Links, Path(m, Src[l]), n.id = m.id,
         n.h = rt_append(m.h, l), n.h.ttl >= 1
  PROVE  Path(n, Dst[l]) /\ rt_cur(n.h) = l
  <1>1. /\ m.h.ttl \in 1 .. Len(m.h.rt) /\ m.h \in Hdrs /\ n.h \in Hdrs
        /\ Src[m.h.rt[1]] = owner[m.id] /\ Hop(Src[m.h.rt[m.h.ttl]], Src[l])
        /\ \A k \in 1 .. m.h.ttl - 1 : Hop(Src[m.h.rt[k]], Src[m.h.rt[k + 1]])
    BY DEF Path, Msgs, rt_cur
  <1>2. /\ n.h.ttl = m.h.ttl + 1 /\ Len(n.h.rt) = n.h.ttl /\ n.h.rt[n.h.ttl] = l
        /\ \A k \in 1 .. m.h.ttl : n.h.rt[k] = m.h.rt[k]
    BY <1>1, AppendedHdr
  <1>3. m.h.ttl \in Nat \ {0}
    BY <1>1 DEF Hdrs
  <1>4. n.h.ttl \in 1 .. Len(n.h.rt) /\ Src[n.h.rt[1]] = owner[n.id]
    BY <1>1, <1>2, <1>3
  <1>5. Hop(Src[l], Dst[l])
    BY DEF Hop
  <1>6. ASSUME NEW k \in 1 .. n.h.ttl - 1 PROVE Hop(Src[n.h.rt[k]], Src[n.h.rt[k + 1]])
    <2>1. CASE k = m.h.ttl
      <3>1. n.h.rt[k] = m.h.rt[m.h.ttl] /\ n.h.rt[k + 1] = l
        BY <1>2, <1>3, <2>1
      <3>2. QED BY <1>1, <3>1
    <2>2. CASE k # m.h.ttl
      <3>1. k \in 1 .. m.h.ttl - 1 /\ k \in 1 .. m.h.ttl /\ k + 1 \in 1 .. m.h.ttl
        BY <1>2, <1>3, <2>2
      <3>2. QED BY <1>1, <1>2, <3>1
    <2>3. QED BY <2>1, <2>2
  <1>7. QED BY <1>2, <1>4, <1>5, <1>6 DEF Path, rt_cur

\* The header of a message on its path has a current entry.
LEMMA PathTyped ==
  ASSUME NEW m \in Msgs, NEW n, Path(m, n)
  PROVE  m.h.ttl \in 1 .. Len(m.h.rt) /\ m.h \in Hdrs /\ rt_cur(m.h) \in Links
  <1>1. m.h.ttl \in 1 .. Len(m.h.rt)
    BY DEF Path
  <1>2. m.h \in Hdrs /\ m.h.rt \in Seq(Links)
    BY DEF Msgs, Hdrs
  <1>3. m.h.rt[m.h.ttl] \in Links
    BY <1>1, <1>2
  <1>4. QED BY <1>1, <1>2, <1>3 DEF rt_cur

----------------------------------------------------------------------------
(* One lemma per action: each keeps the invariant.                          *)

\* A proxy's back puts its own uuid on the stack of what it sends.
LEMMA DispatcherRm ==
  ASSUME IInv, fault = "none", NEW l \in Links, dispatcher_rm(l)
  PROVE  IInv'
  <1> DEFINE m == Head(ls[l].fwd)
             m2 == [m EXCEPT !.h = rt_append(@, l)]
  <1>1. /\ ls[l].fwd # <<>> /\ Src[l] \in Proxies
        /\ ls' = [ls EXCEPT ![l].fwd = Tail(@)]
        /\ wire' = IF l \in broken THEN wire ELSE [wire EXCEPT ![l].fwd = Append(@, m2)]
        /\ fault' = IF m2.h.ttl >= 1 THEN fault ELSE "rt_append"
        /\ UNCHANGED <<proxied, joined, rr, reps, uuid, broken, rcv, hdr, owner, served, got, dropped>>
    BY DEF dispatcher_rm, Forward, Asserts, netVars, appVars
  <1>2. /\ TypeInv /\ QueuesDistinct /\ Tokens /\ OnPath /\ HdrInv /\ UuidInv
        /\ ls[l] \in Ends /\ wire[l] \in Ends
    BY DEF IInv, TypeInv
  <1>3. /\ m \in Msgs /\ m \in Elems(ls[l].fwd) /\ Tail(ls[l].fwd) \in Seq(Msgs)
        /\ Elems(Tail(ls[l].fwd)) \subseteq Elems(ls[l].fwd)
        /\ m.id \in Ids(ls[l].fwd)
        /\ Ids(Tail(ls[l].fwd)) = Ids(ls[l].fwd) \ {m.id} /\ Distinct(Tail(ls[l].fwd))
    BY <1>1, <1>2, TailElems, TailIds DEF QueuesDistinct, Ends
  <1>4. Path(m, Src[l])
    BY <1>2, <1>3 DEF OnPath
  <1>5. m2 \in Msgs /\ m2.id = m.id /\ m2.h = rt_append(m.h, l)
    BY <1>3, <1>4, AppendedHdr DEF Msgs, Path
  <1> HIDE DEF m, m2
  <1>6. TypeInv'
    BY <1>1, <1>2, <1>3, <1>5, Appended DEF TypeInv, Ends, A!TypeOK
  <1>7. <<"lf", l>> \in Place /\ <<"wf", l>> \in Place /\ m.id \in At(<<"lf", l>>) /\ m.id \notin Ids(wire[l].fwd)
    <2>1. <<"lf", l>> \in Place /\ <<"wf", l>> \in Place /\ <<"lf", l>> # <<"wf", l>>
      BY PlaceOf
    <2>2. At(<<"lf", l>>) \cap At(<<"wf", l>>) = {}
      BY <1>2, <2>1 DEF Tokens
    <2>3. QED BY <1>3, <2>1, <2>2, PlaceOf
  <1>8. Elems(Append(wire[l].fwd, m2)) = Elems(wire[l].fwd) \cup {m2} /\ Ids(Append(wire[l].fwd, m2)) = Ids(wire[l].fwd) \cup {m.id} /\ Distinct(Append(wire[l].fwd, m2))
    BY <1>2, <1>5, <1>7, AppendIds, Appended DEF QueuesDistinct, Ends
  <1>9. QueuesDistinct'
    BY <1>1, <1>2, <1>3, <1>8 DEF QueuesDistinct, TypeInv, Ends
  <1>10. Tokens'
    <2>1. \A x \in Place \ {<<"lf", l>>, <<"wf", l>>} : At(x)' \subseteq At(x)
      BY <1>1, <1>2 DEF At, TypeInv, Ends, Place, Forth
    <2>2. /\ At(<<"lf", l>>)' \subseteq At(<<"lf", l>>) \ {m.id}
          /\ At(<<"wf", l>>)' \subseteq At(<<"wf", l>>) \cup {m.id}
      BY <1>1, <1>2, <1>3, <1>8 DEF At, TypeInv, Ends
    <2>3. QED BY <1>1, <1>2, <1>7, <2>1, <2>2, TokensMove DEF Forth
  <1>11. ASSUME fault' = "none" PROVE OnPath' /\ HdrInv' /\ UuidInv'
    <2>1. m2.h.ttl >= 1
      BY <1>1, <1>11
    <2>2. Path(m2, Dst[l]) /\ Src[rt_cur(m2.h)] = Src[l]
      BY <1>3, <1>4, <1>5, <2>1, PathPushed
    <2>3. /\ \A k \in Links : /\ Elems(wire'[k].fwd) \subseteq Elems(wire[k].fwd) \cup (IF k = l THEN {m2} ELSE {})
                              /\ wire'[k].bwd = wire[k].bwd /\ ls'[k].bwd = ls[k].bwd
                              /\ Elems(ls'[k].fwd) \subseteq Elems(ls[k].fwd)
      BY <1>1, <1>2, <1>3, <1>8 DEF TypeInv, Ends
    <2>4. \A x, n : Path(x, n) => Path(x, n)'
      BY <1>1, PathKept
    <2>5. \A h : rt_cur(h)' = rt_cur(h)
      BY DEF rt_cur
    <2>6. OnPath'
      <3>2. ASSUME NEW k \in Links, NEW x \in Elems(wire'[k].fwd)
            PROVE  Path(x, Dst[k])' /\ Src[rt_cur(x.h)] = Src[k]
        <4>1. Path(x, Dst[k]) /\ Src[rt_cur(x.h)] = Src[k]
          BY <1>2, <2>2, <2>3 DEF OnPath
        <4>2. QED BY <2>4, <4>1
      <3>3. ASSUME NEW k \in Links, NEW x \in Elems(wire[k].bwd) \cup Elems(ls[k].bwd)
            PROVE  Path(x, Dst[k])' /\ Src[rt_cur(x.h)] = Src[k]
        <4>1. Path(x, Dst[k]) /\ Src[rt_cur(x.h)] = Src[k]
          BY <1>2 DEF OnPath
        <4>2. QED BY <2>4, <4>1
      <3>4. ASSUME NEW k \in Links, NEW x \in Elems(ls'[k].fwd)
            PROVE  Path(x, Src[k])'
        <4>1. Path(x, Src[k])
          BY <1>2, <2>3 DEF OnPath
        <4>2. QED BY <2>4, <4>1
      <3>5. ASSUME NEW s \in Servers, NEW x \in rcv'[s]
            PROVE  Path(x, s)'
        <4>1. Path(x, s)
          BY <1>1, <1>2 DEF OnPath
        <4>2. QED BY <2>4, <4>1
      <3>6. QED BY <2>3, <2>5, <3>2, <3>3, <3>4, <3>5 DEF OnPath
    <2>7. QED BY <1>1, <1>2, <2>6 DEF HdrInv, UuidInv
  <1>12. QED BY <1>6, <1>9, <1>10, <1>11 DEF IInv

\* Connections that come, and proxies that are configured, touch no message.
LEMMA ConfigStep ==
  ASSUME IInv, fault = "none",
         \/ \E p \in Proxies : epbase_proxyto(p)
         \/ \E l \in Links : reqep_join(l) \/ repep_join(l)
  PROVE  IInv'
  <1>1. UNCHANGED <<uuid, wire, ls, rcv, hdr, owner, served, got, fault>>
    BY DEF epbase_proxyto, reqep_join, repep_join, msgVars, appVars
  <1>2. TypeInv /\ QueuesDistinct /\ Tokens /\ OnPath /\ HdrInv /\ UuidInv
    BY DEF IInv
  <1>3. \A p \in Place : At(p)' = At(p)
    BY <1>1 DEF At
  <1>4. QueuesDistinct' /\ HdrInv' /\ UuidInv'
    BY <1>1, <1>2 DEF QueuesDistinct, HdrInv, UuidInv
  <1>5. Tokens'
    BY <1>1, <1>2, <1>3, TokensLess
  <1>6. OnPath'
    BY <1>1, <1>2, PathKept DEF OnPath, rt_cur
  <1>7. CASE \E p \in Proxies : epbase_proxyto(p)
    <2>1. UNCHANGED <<rr, reps>>
      BY <1>7 DEF epbase_proxyto
    <2>2. TypeInv'
      BY <1>1, <1>2, <2>1 DEF TypeInv, A!TypeOK
    <2>3. QED BY <1>4, <1>5, <1>6, <2>2 DEF IInv
  <1>8. CASE \E l \in Links : reqep_join(l)
    <2>1. PICK l \in Links : reqep_join(l)
      BY <1>8
    <2>2. rr' = [rr EXCEPT ![Src[l]] = Append(@, l)] /\ reps' = reps
      BY <2>1 DEF reqep_join
    <2>3. Src[l] \in Clients \cup Proxies /\ rr[Src[l]] \in Seq(Links)
      BY <1>2, ReqRepAssumption DEF TypeInv
    <2>4. /\ Append(rr[Src[l]], l) \in Seq(Links)
          /\ Elems(Append(rr[Src[l]], l)) = Elems(rr[Src[l]]) \cup {l}
      BY <2>3, Appended
    <2>5. TypeInv'
      BY <1>1, <1>2, <2>2, <2>3, <2>4 DEF TypeInv, A!TypeOK
    <2>6. QED BY <1>4, <1>5, <1>6, <2>5 DEF IInv
  <1>9. CASE \E l \in Links : repep_join(l)
    <2>1. PICK l \in Links : repep_join(l)
      BY <1>9
    <2>2. rr' = rr /\ reps' = reps \cup {l}
      BY <2>1 DEF repep_join
    <2>3. TypeInv'
      BY <1>1, <1>2, <2>2 DEF TypeInv, A!TypeOK
    <2>4. QED BY <1>4, <1>5, <1>6, <2>3 DEF IInv
  <1>10. QED BY <1>7, <1>8, <1>9

\* What a queue keeps of a beginning, or of nothing.
LEMMA CutIds ==
  ASSUME NEW q \in Seq(Msgs), Distinct(q), NEW n \in 0 .. Len(q)
  PROVE  /\ SubSeq(q, 1, n) \in Seq(Msgs) /\ Elems(SubSeq(q, 1, n)) \subseteq Elems(q)
         /\ Ids(SubSeq(q, 1, n)) \subseteq Ids(q) /\ Distinct(SubSeq(q, 1, n))
         /\ <<>> \in Seq(Msgs) /\ Elems(<<>>) = {} /\ Ids(<<>>) = {} /\ Distinct(<<>>)
  <1>1. SubSeq(q, 1, n) \in Seq(Msgs) /\ Elems(SubSeq(q, 1, n)) \subseteq Elems(q)
    BY Cut
  <1>2. Ids(SubSeq(q, 1, n)) \subseteq Ids(q)
    BY <1>1 DEF Ids
  <1>3. DOMAIN SubSeq(q, 1, n) = 1 .. n /\ \A k \in 1 .. n : SubSeq(q, 1, n)[k] = q[k]
    OBVIOUS
  <1>4. Distinct(SubSeq(q, 1, n))
    BY <1>3 DEF Distinct
  <1>5. <<>> \in Seq(Msgs) /\ Elems(<<>>) = {} /\ Ids(<<>>) = {} /\ Distinct(<<>>)
    BY DEF Ids, Elems, Distinct
  <1>6. QED BY <1>1, <1>2, <1>4, <1>5

\* A step that only loses messages, and connections, keeps the invariant.
LEMMA LossStep ==
  ASSUME IInv, fault = "none", UNCHANGED <<uuid, rcv, hdr, owner, served, got, fault>>,
         wire' \in [Links -> Ends], ls' \in [Links -> Ends],
         \A l \in Links :
           /\ Elems(wire'[l].fwd) \subseteq Elems(wire[l].fwd) /\ Distinct(wire'[l].fwd)
           /\ Elems(wire'[l].bwd) \subseteq Elems(wire[l].bwd) /\ Distinct(wire'[l].bwd)
           /\ Elems(ls'[l].fwd) \subseteq Elems(ls[l].fwd) /\ Distinct(ls'[l].fwd)
           /\ Elems(ls'[l].bwd) \subseteq Elems(ls[l].bwd) /\ Distinct(ls'[l].bwd),
         rr' \in [Clients \cup Proxies -> Seq(Links)], reps' \subseteq reps,
         \A n \in Clients \cup Proxies : Elems(rr'[n]) \subseteq Elems(rr[n])
  PROVE  IInv'
  <1>1. TypeInv /\ QueuesDistinct /\ Tokens /\ OnPath /\ HdrInv /\ UuidInv
    BY DEF IInv
  <1>2. TypeInv'
    BY <1>1 DEF TypeInv, A!TypeOK
  <1>3. QueuesDistinct'
    BY <1>1 DEF QueuesDistinct
  <1>4. \A l \in Links :
          /\ Ids(wire'[l].fwd) \subseteq Ids(wire[l].fwd) /\ Ids(wire'[l].bwd) \subseteq Ids(wire[l].bwd)
          /\ Ids(ls'[l].fwd) \subseteq Ids(ls[l].fwd) /\ Ids(ls'[l].bwd) \subseteq Ids(ls[l].bwd)
    BY DEF Ids
  <1>5. \A p \in Place : At(p)' \subseteq At(p)
    BY <1>4 DEF At, Place, Forth
  <1>6. Tokens'
    BY <1>1, <1>5, TokensLess
  <1>7. \A x, n : Path(x, n) => Path(x, n)'
    BY PathKept
  <1>8. OnPath'
    BY <1>1, <1>7 DEF OnPath, rt_cur
  <1>9. HdrInv' /\ UuidInv'
    BY <1>1 DEF HdrInv, UuidInv
  <1>10. QED BY <1>2, <1>3, <1>6, <1>8, <1>9 DEF IInv

\* A connection breaks.
LEMMA BreakStep ==
  ASSUME IInv, fault = "none", NEW l \in Links, Break(l)
  PROVE  IInv'
  <1>1. TypeInv /\ QueuesDistinct /\ wire[l] \in Ends
    BY DEF IInv, TypeInv
  <1>2. PICK f \in 0 .. Len(wire[l].fwd), b \in 0 .. Len(wire[l].bwd) :
          wire' = [wire EXCEPT ![l] = [fwd |-> SubSeq(@.fwd, 1, f), bwd |-> SubSeq(@.bwd, 1, b)]]
    BY DEF Break
  <1>3. UNCHANGED <<rr, reps, uuid, ls, rcv, hdr, owner, served, got, fault>>
    BY DEF Break, appVars
  <1>4. /\ SubSeq(wire[l].fwd, 1, f) \in Seq(Msgs) /\ Distinct(SubSeq(wire[l].fwd, 1, f))
        /\ Elems(SubSeq(wire[l].fwd, 1, f)) \subseteq Elems(wire[l].fwd)
        /\ SubSeq(wire[l].bwd, 1, b) \in Seq(Msgs) /\ Distinct(SubSeq(wire[l].bwd, 1, b))
        /\ Elems(SubSeq(wire[l].bwd, 1, b)) \subseteq Elems(wire[l].bwd)
    BY <1>1, CutIds DEF QueuesDistinct, Ends
  <1>5. wire' \in [Links -> Ends]
    BY <1>1, <1>2, <1>4 DEF TypeInv, Ends
  <1>6. \A k \in Links :
           /\ Elems(wire'[k].fwd) \subseteq Elems(wire[k].fwd) /\ Distinct(wire'[k].fwd)
           /\ Elems(wire'[k].bwd) \subseteq Elems(wire[k].bwd) /\ Distinct(wire'[k].bwd)
    BY <1>1, <1>2, <1>4 DEF TypeInv, QueuesDistinct
  <1>7. QED BY <1>1, <1>3, <1>5, <1>6, LossStep DEF TypeInv, QueuesDistinct

\* An end of a broken connection goes, with what waits at it.
LEMMA TermStep ==
  ASSUME IInv, fault = "none", NEW l \in Links, reqep_term(l) \/ repep_term(l)
  PROVE  IInv'
  <1>1. TypeInv /\ QueuesDistinct /\ wire[l] \in Ends /\ ls[l] \in Ends
    BY DEF IInv, TypeInv
  <1>2. UNCHANGED <<uuid, rcv, hdr, owner, served, got, fault>>
    BY DEF reqep_term, repep_term, appVars
  <1>3. <<>> \in Seq(Msgs) /\ Elems(<<>>) = {} /\ Distinct(<<>>)
    BY DEF Elems, Distinct
  <1>4. CASE reqep_term(l)
    <2>1. PICK k \in DOMAIN rr[Src[l]] :
            rr' = [rr EXCEPT ![Src[l]] = SubSeq(@, 1, k - 1) \o SubSeq(@, k + 1, Len(@))]
      BY <1>4 DEF reqep_term
    <2>2. /\ wire' = [wire EXCEPT ![l].bwd = <<>>] /\ ls' = [ls EXCEPT ![l].fwd = <<>>] /\ reps' = reps
      BY <1>4 DEF reqep_term
    <2>3. Src[l] \in Clients \cup Proxies /\ rr[Src[l]] \in Seq(Links)
      BY <1>1, ReqRepAssumption DEF TypeInv
    <2>4. /\ SubSeq(rr[Src[l]], 1, k - 1) \o SubSeq(rr[Src[l]], k + 1, Len(rr[Src[l]])) \in Seq(Links)
          /\ Elems(SubSeq(rr[Src[l]], 1, k - 1) \o SubSeq(rr[Src[l]], k + 1, Len(rr[Src[l]])))
               \subseteq Elems(rr[Src[l]])
      BY <2>3, Remove
    <2>5. /\ rr' \in [Clients \cup Proxies -> Seq(Links)]
          /\ \A n \in Clients \cup Proxies : Elems(rr'[n]) \subseteq Elems(rr[n])
      BY <1>1, <2>1, <2>3, <2>4 DEF TypeInv
    <2>6. wire' \in [Links -> Ends] /\ ls' \in [Links -> Ends]
      BY <1>1, <1>3, <2>2 DEF TypeInv, Ends
    <2>7. \A j \in Links :
           /\ Elems(wire'[j].fwd) \subseteq Elems(wire[j].fwd) /\ Distinct(wire'[j].fwd)
           /\ Elems(wire'[j].bwd) \subseteq Elems(wire[j].bwd) /\ Distinct(wire'[j].bwd)
           /\ Elems(ls'[j].fwd) \subseteq Elems(ls[j].fwd) /\ Distinct(ls'[j].fwd)
           /\ Elems(ls'[j].bwd) \subseteq Elems(ls[j].bwd) /\ Distinct(ls'[j].bwd)
      BY <1>1, <1>3, <2>2 DEF TypeInv, QueuesDistinct, Ends
    <2>8. QED BY <1>2, <2>2, <2>5, <2>6, <2>7, LossStep
  <1>5. CASE repep_term(l)
    <2>1. /\ wire' = [wire EXCEPT ![l].fwd = <<>>] /\ ls' = [ls EXCEPT ![l].bwd = <<>>]
          /\ reps' = reps \ {l} /\ rr' = rr
      BY <1>5 DEF repep_term
    <2>2. wire' \in [Links -> Ends] /\ ls' \in [Links -> Ends]
      BY <1>1, <1>3, <2>1 DEF TypeInv, Ends
    <2>3. \A j \in Links :
           /\ Elems(wire'[j].fwd) \subseteq Elems(wire[j].fwd) /\ Distinct(wire'[j].fwd)
           /\ Elems(wire'[j].bwd) \subseteq Elems(wire[j].bwd) /\ Distinct(wire'[j].bwd)
           /\ Elems(ls'[j].fwd) \subseteq Elems(ls[j].fwd) /\ Distinct(ls'[j].fwd)
           /\ Elems(ls'[j].bwd) \subseteq Elems(ls[j].bwd) /\ Distinct(ls'[j].bwd)
      BY <1>1, <1>3, <2>1 DEF TypeInv, QueuesDistinct, Ends
    <2>4. QED BY <1>1, <1>2, <2>1, <2>2, <2>3, LossStep DEF TypeInv
  <1>6. QED BY <1>4, <1>5

\* Taking the first message out of a queue.
LEMMA Taken ==
  ASSUME NEW q \in Seq(Msgs), q # <<>>, Distinct(q)
  PROVE  /\ Head(q) \in Msgs /\ Head(q) \in Elems(q) /\ Head(q).id \in Ids(q)
         /\ Tail(q) \in Seq(Msgs) /\ Distinct(Tail(q))
         /\ Elems(Tail(q)) \subseteq Elems(q) /\ Ids(Tail(q)) = Ids(q) \ {Head(q).id}
  BY TailElems, TailIds

\* Putting a message at the end of a queue without its request.
LEMMA Put ==
  ASSUME NEW q \in Seq(Msgs), NEW m \in Msgs, m.id \notin Ids(q), Distinct(q)
  PROVE  /\ Append(q, m) \in Seq(Msgs) /\ Distinct(Append(q, m))
         /\ Elems(Append(q, m)) = Elems(q) \cup {m} /\ Ids(Append(q, m)) = Ids(q) \cup {m.id}
  BY Appended, AppendIds

\* A list that is turned round keeps its elements.
LEMMA Turned ==
  ASSUME TypeInv, NEW n \in Clients \cup Proxies, rr[n] # <<>>
  PROVE  /\ Selected(n) \in Links /\ Src[Selected(n)] = n
         /\ Rotated(n) \in [Clients \cup Proxies -> Seq(Links)]
         /\ \A x \in Clients \cup Proxies : Elems(Rotated(n)[x]) \subseteq Elems(rr[x])
  <1> DEFINE t == Tail(rr[n])
             h == Head(rr[n])
  <1>1. rr[n] \in Seq(Links)
    BY DEF TypeInv
  <1>2. h \in Links /\ t \in Seq(Links) /\ h \in Elems(rr[n]) /\ Elems(t) \subseteq Elems(rr[n])
    BY <1>1, TailElems
  <1> HIDE DEF t, h
  <1>3. Append(t, h) \in Seq(Links) /\ Elems(Append(t, h)) = Elems(t) \cup {h}
    BY <1>2, Appended
  <1>4. Selected(n) = h /\ Rotated(n) = [rr EXCEPT ![n] = Append(t, h)]
    BY DEF Selected, Rotated, t, h
  <1>5. QED BY <1>2, <1>3, <1>4 DEF TypeInv

\* The front of a proxy passes a request on, or has no connection for it.
LEMMA ReceiverAdd ==
  ASSUME IInv, fault = "none", NEW l \in Links, receiver_add(l)
  PROVE  IInv'
  <1> DEFINE p == Dst[l]
             m == Head(wire[l].fwd)
  <1>1. /\ p \in Proxies /\ wire[l].fwd # <<>>
        /\ wire' = [wire EXCEPT ![l].fwd = Tail(@)]
        /\ fault' = IF m.h.ttl >= 1 THEN fault ELSE "rt_cur"
        /\ UNCHANGED <<reps, rcv, hdr, owner, served, got>>
    BY DEF receiver_add, Asserts
  <1>2. /\ TypeInv /\ QueuesDistinct /\ Tokens /\ OnPath /\ HdrInv /\ UuidInv
        /\ ls[l] \in Ends /\ wire[l] \in Ends
    BY DEF IInv, TypeInv
  <1>3. /\ m \in Msgs /\ m \in Elems(wire[l].fwd) /\ Tail(wire[l].fwd) \in Seq(Msgs)
        /\ Elems(Tail(wire[l].fwd)) \subseteq Elems(wire[l].fwd) /\ m.id \in Ids(wire[l].fwd)
        /\ Ids(Tail(wire[l].fwd)) = Ids(wire[l].fwd) \ {m.id} /\ Distinct(Tail(wire[l].fwd))
    BY <1>1, <1>2, Taken DEF QueuesDistinct, Ends
  <1>4. Path(m, p) /\ Src[rt_cur(m.h)] = Src[l]
    BY <1>2, <1>3 DEF OnPath
  <1>5. m.h.ttl \in 1 .. Len(m.h.rt) /\ m.h \in Hdrs /\ rt_cur(m.h) \in Links
    BY <1>3, <1>4, PathTyped
  <1>6. m.h.ttl >= 1 /\ ~(m.h.ttl < 1) /\ fault' = fault
    BY <1>1, <1>5 DEF Hdrs
  <1>7. wire' \in [Links -> Ends]
    BY <1>1, <1>2, <1>3 DEF TypeInv, Ends
  <1>8. CASE rr[p] = <<>>
    <2>1. UNCHANGED <<rr, ls, uuid>>
      BY <1>8 DEF receiver_add
    <2>2. \A j \in Links :
            /\ Elems(wire'[j].fwd) \subseteq Elems(wire[j].fwd) /\ Distinct(wire'[j].fwd)
            /\ Elems(wire'[j].bwd) \subseteq Elems(wire[j].bwd) /\ Distinct(wire'[j].bwd)
      BY <1>1, <1>2, <1>3 DEF TypeInv, QueuesDistinct
    <2>3. QED BY <1>1, <1>2, <1>6, <1>7, <2>1, <2>2, LossStep DEF TypeInv, QueuesDistinct
  <1>9. CASE rr[p] # <<>>
    <2> DEFINE s == Selected(p)
    <2>0. /\ ls' = [ls EXCEPT ![s].fwd = Append(@, m)] /\ rr' = Rotated(p)
          /\ uuid' = [uuid EXCEPT ![l] = rt_cur(m.h)]
      <3>1. ~(rr[p] = <<>> \/ m.h.ttl < 1)
        BY <1>6, <1>9
      <3>2. QED BY <3>1 DEF receiver_add
    <2>a. /\ s \in Links /\ Src[s] = p /\ rr' \in [Clients \cup Proxies -> Seq(Links)]
           /\ \A x \in Clients \cup Proxies : Elems(rr'[x]) \subseteq Elems(rr[x])
      BY <1>1, <1>2, <1>9, <2>0, Turned
    <2> HIDE DEF s
    <2>b. PICK k \in Links : k = s
      BY <2>a
    <2>1. ls' = [ls EXCEPT ![k].fwd = Append(@, m)] /\ uuid' = [uuid EXCEPT ![l] = rt_cur(m.h)]
      BY <2>0, <2>b
    <2>2. /\ k \in Links /\ Src[k] = p /\ rr' \in [Clients \cup Proxies -> Seq(Links)]
          /\ \A x \in Clients \cup Proxies : Elems(rr'[x]) \subseteq Elems(rr[x])
      BY <2>a, <2>b
    <2>3. <<"wf", l>> \in Place /\ <<"lf", k>> \in Place /\ <<"wf", l>> # <<"lf", k>> /\ m.id \in At(<<"wf", l>>)
      BY <1>3, <2>2, PlaceOf
    <2>4. m.id \notin Ids(ls[k].fwd)
      <3>1. At(<<"wf", l>>) \cap At(<<"lf", k>>) = {}
        BY <1>2, <2>3 DEF Tokens
      <3>2. QED BY <2>2, <2>3, <3>1, PlaceOf
    <2>5. ls[k].fwd \in Seq(Msgs) /\ Distinct(ls[k].fwd)
      BY <1>2, <2>2 DEF TypeInv, QueuesDistinct, Ends
    <2> HIDE DEF m, p
    <2>6. /\ Append(ls[k].fwd, m) \in Seq(Msgs) /\ Distinct(Append(ls[k].fwd, m))
          /\ Elems(Append(ls[k].fwd, m)) = Elems(ls[k].fwd) \cup {m}
          /\ Ids(Append(ls[k].fwd, m)) = Ids(ls[k].fwd) \cup {m.id}
      BY <1>3, <2>4, <2>5, Put
    <2>7. ls' \in [Links -> Ends] /\ uuid' \in [Links -> Links \cup {None}]
      <3>1. uuid' \in [Links -> Links \cup {None}]
        BY <1>2, <1>5, <2>1 DEF TypeInv
      <3>2. ls' \in [Links -> Ends]
        <4>1. ls[k] \in Ends /\ ls \in [Links -> Ends]
          BY <1>2, <2>2 DEF TypeInv
        <4>2. [ls[k] EXCEPT !.fwd = Append(ls[k].fwd, m)] \in Ends
          BY <4>1, <2>6 DEF Ends
        <4>3. QED BY <2>1, <2>2, <4>1, <4>2
      <3>3. QED BY <3>1, <3>2
    <2>8. TypeInv'
      BY <1>1, <1>2, <1>7, <2>2, <2>7 DEF TypeInv, A!TypeOK
    <2>9. QueuesDistinct'
      BY SMTT(60), <1>1, <1>2, <1>3, <2>1, <2>2, <2>6 DEF QueuesDistinct, TypeInv, Ends
    <2>10. Tokens'
      <3>1. \A x \in Place \ {<<"wf", l>>, <<"lf", k>>} : At(x)' \subseteq At(x)
        BY SMTT(60), <1>1, <1>2, <2>1 DEF At, TypeInv, Ends, Place, Forth
      <3>2. /\ At(<<"wf", l>>)' \subseteq At(<<"wf", l>>) \ {m.id}
            /\ At(<<"lf", k>>)' \subseteq At(<<"lf", k>>) \cup {m.id}
        <4>1. Ids(wire'[l].fwd) = Ids(wire[l].fwd) \ {m.id} /\ Ids(ls'[k].fwd) = Ids(ls[k].fwd) \cup {m.id}
          BY <1>1, <1>2, <1>3, <2>1, <2>2, <2>6 DEF TypeInv, Ends
        <4>2. QED BY <4>1, <2>2, PlaceOf, PlaceNext
      <3>3. <<"wf", l>>[1] \in Forth <=> <<"lf", k>>[1] \in Forth
        BY PlaceOf
      <3>4. QED BY <1>1, <1>2, <2>3, <3>1, <3>2, <3>3, TokensMove
    <2>11. OnPath'
      <3>1. \A j \in Links : /\ Elems(wire'[j].fwd) \subseteq Elems(wire[j].fwd)
                             /\ wire'[j].bwd = wire[j].bwd /\ ls'[j].bwd = ls[j].bwd
                             /\ Elems(ls'[j].fwd) \subseteq Elems(ls[j].fwd) \cup (IF j = k THEN {m} ELSE {})
        BY SMTT(60), <1>1, <1>2, <1>3, <2>1, <2>2, <2>6 DEF TypeInv, Ends
      <3>2. \A x, n : Path(x, n) => Path(x, n)'
        BY <1>1, PathKept
      <3>3. \A h : rt_cur(h)' = rt_cur(h)
        BY DEF rt_cur
      <3>4. QED BY <1>1, <1>2, <1>4, <2>2, <3>1, <3>2, <3>3 DEF OnPath
    <2>12. HdrInv' /\ UuidInv'
      BY <1>1, <1>2, <1>4, <2>1 DEF HdrInv, UuidInv, TypeInv
    <2>13. QED BY <2>8, <2>9, <2>10, <2>11, <2>12 DEF IInv
  <1>10. QED BY <1>8, <1>9

\* The front of a proxy sends a reply on.
LEMMA ReceiverRm ==
  ASSUME IInv, fault = "none", NEW l \in Links, receiver_rm(l)
  PROVE  IInv'
  <1> DEFINE m == Head(ls[l].bwd)
  <1>1. /\ ls[l].bwd # <<>> /\ ls' = [ls EXCEPT ![l].bwd = Tail(@)]
        /\ wire' = IF l \in broken THEN wire ELSE [wire EXCEPT ![l].bwd = Append(@, m)]
        /\ UNCHANGED <<rr, reps, uuid, rcv, hdr, owner, served, got, fault>>
    BY DEF receiver_rm, Back, netVars, appVars
  <1>2. /\ TypeInv /\ QueuesDistinct /\ Tokens /\ OnPath /\ HdrInv /\ UuidInv
        /\ ls[l] \in Ends /\ wire[l] \in Ends
    BY DEF IInv, TypeInv
  <1>3. /\ m \in Msgs /\ m \in Elems(ls[l].bwd) /\ Tail(ls[l].bwd) \in Seq(Msgs)
        /\ Elems(Tail(ls[l].bwd)) \subseteq Elems(ls[l].bwd) /\ m.id \in Ids(ls[l].bwd)
        /\ Ids(Tail(ls[l].bwd)) = Ids(ls[l].bwd) \ {m.id} /\ Distinct(Tail(ls[l].bwd))
    BY <1>1, <1>2, Taken DEF QueuesDistinct, Ends
  <1>4. Path(m, Dst[l]) /\ Src[rt_cur(m.h)] = Src[l]
    BY <1>2, <1>3 DEF OnPath
  <1> HIDE DEF m
  <1>5. /\ <<"lb", l>> \in Place /\ <<"wb", l>> \in Place /\ <<"lb", l>> # <<"wb", l>>
        /\ m.id \in At(<<"lb", l>>) /\ m.id \notin Ids(wire[l].bwd)
    <2>1. <<"lb", l>> \in Place /\ <<"wb", l>> \in Place /\ <<"lb", l>> # <<"wb", l>>
      BY PlaceOf
    <2>2. At(<<"lb", l>>) \cap At(<<"wb", l>>) = {}
      BY <1>2, <2>1 DEF Tokens
    <2>3. QED BY <1>3, <2>1, <2>2, PlaceOf
  <1>6. /\ Append(wire[l].bwd, m) \in Seq(Msgs) /\ Distinct(Append(wire[l].bwd, m))
        /\ Elems(Append(wire[l].bwd, m)) = Elems(wire[l].bwd) \cup {m}
        /\ Ids(Append(wire[l].bwd, m)) = Ids(wire[l].bwd) \cup {m.id}
    BY <1>2, <1>3, <1>5, Put DEF QueuesDistinct, Ends
  <1>7. TypeInv'
    BY <1>1, <1>2, <1>3, <1>6 DEF TypeInv, Ends, A!TypeOK
  <1>8. QueuesDistinct'
    BY <1>1, <1>2, <1>3, <1>6 DEF QueuesDistinct, TypeInv, Ends
  <1>9. Tokens'
    <2>1. \A x \in Place \ {<<"lb", l>>, <<"wb", l>>} : At(x)' \subseteq At(x)
      BY <1>1, <1>2 DEF At, TypeInv, Ends, Place, Forth
    <2>2. /\ At(<<"lb", l>>)' \subseteq At(<<"lb", l>>) \ {m.id}
          /\ At(<<"wb", l>>)' \subseteq At(<<"wb", l>>) \cup {m.id}
      <3>1. /\ Ids(ls'[l].bwd) = Ids(ls[l].bwd) \ {m.id}
            /\ Ids(wire'[l].bwd) \subseteq Ids(wire[l].bwd) \cup {m.id}
        BY <1>1, <1>2, <1>3, <1>6 DEF TypeInv, Ends
      <3>2. QED BY <3>1, PlaceOf, PlaceNext
    <2>3. QED BY <1>1, <1>2, <1>5, <2>1, <2>2, PlaceOf, TokensMove
  <1>10. OnPath'
    <2>1. \A j \in Links : /\ Elems(wire'[j].bwd) \subseteq Elems(wire[j].bwd) \cup (IF j = l THEN {m} ELSE {})
                           /\ wire'[j].fwd = wire[j].fwd /\ ls'[j].fwd = ls[j].fwd
                           /\ Elems(ls'[j].bwd) \subseteq Elems(ls[j].bwd)
      BY <1>1, <1>2, <1>3, <1>6 DEF TypeInv, Ends
    <2>2. \A x, n : Path(x, n) => Path(x, n)'
      BY <1>1, PathKept
    <2>3. \A h : rt_cur(h)' = rt_cur(h)
      BY DEF rt_cur
    <2>4. \A j \in Links : \A x \in Elems(wire'[j].bwd) : Path(x, Dst[j]) /\ Src[rt_cur(x.h)] = Src[j]
      BY <1>2, <1>4, <2>1 DEF OnPath
    <2>5. \A j \in Links :
            /\ \A x \in Elems(wire'[j].fwd) \cup Elems(ls'[j].bwd) : Path(x, Dst[j]) /\ Src[rt_cur(x.h)] = Src[j]
            /\ \A x \in Elems(ls'[j].fwd) : Path(x, Src[j])
      BY <1>2, <2>1 DEF OnPath
    <2>6. \A s \in Servers : \A x \in rcv'[s] : Path(x, s)
      BY <1>1, <1>2 DEF OnPath
    <2>7. QED BY <2>2, <2>3, <2>4, <2>5, <2>6 DEF OnPath
  <1>11. HdrInv' /\ UuidInv'
    BY <1>1, <1>2 DEF HdrInv, UuidInv
  <1>12. QED BY <1>7, <1>8, <1>9, <1>10, <1>11 DEF IInv

\* A reply leaves the entry of the link it came by.
LEMMA PathPopped ==
  ASSUME TypeInv, NEW m \in Msgs, NEW n, NEW d, Path(m, d),
         Src[rt_cur(m.h)] \in Proxies, owner[m.id] \in Clients
  PROVE  /\ m.h.ttl >= 2 /\ Popped(m.h) \in Hdrs
         /\ n = [m EXCEPT !.h = Popped(@)] =>
              Path(n, Src[rt_cur(m.h)]) /\ rt_cur(n.h) = rt_prev(m.h) /\ n.id = m.id
  <1> DEFINE t == m.h.ttl
             s == m.h.rt
  <1>1. /\ t \in 1 .. Len(s) /\ m.h \in Hdrs /\ s \in Seq(Links) /\ t \in 0 .. TtlMod - 1
        /\ Src[s[1]] = owner[m.id] /\ rt_cur(m.h) = s[t]
        /\ \A k \in 1 .. t - 1 : Hop(Src[s[k]], Src[s[k + 1]])
    BY DEF Path, Msgs, Hdrs, rt_cur
  <1>2. t # 1
    BY <1>1, ReqRepAssumption
  <1>3. t >= 2 /\ (t - 1) % TtlMod = t - 1 /\ t - 1 \in 1 .. Len(s) /\ t - 1 \in 0 .. TtlMod - 1
    <2>1. t - 1 \in 0 .. TtlMod - 1 /\ t >= 2 /\ t - 1 \in 1 .. Len(s) /\ TtlMod \in Nat \ {0}
      BY <1>1, <1>2, ReqRepAssumption
    <2>2. \A x \in 0 .. TtlMod - 1 : x % TtlMod = x
      BY <2>1
    <2>3. QED BY <2>1, <2>2
  <1>4. Popped(m.h) = [m.h EXCEPT !.ttl = t - 1]
    BY <1>3 DEF Popped
  <1>5. Popped(m.h) \in Hdrs /\ Popped(m.h).ttl = t - 1 /\ Popped(m.h).rt = s
    BY <1>1, <1>3, <1>4 DEF Hdrs
  <1>6. ASSUME n = [m EXCEPT !.h = Popped(@)]
        PROVE  Path(n, Src[rt_cur(m.h)]) /\ rt_cur(n.h) = rt_prev(m.h) /\ n.id = m.id
    <2>1. n.h.ttl = t - 1 /\ n.h.rt = s /\ n.id = m.id
      BY <1>5, <1>6 DEF Msgs
    <2>2. Hop(Src[s[t - 1]], Src[s[t]])
      <3>1. t - 1 \in 1 .. t - 1 /\ (t - 1) + 1 = t
        BY <1>1, <1>3
      <3>2. QED BY <1>1, <3>1
    <2>3. \A k \in 1 .. (t - 1) - 1 : Hop(Src[s[k]], Src[s[k + 1]])
      BY <1>1, <1>3
    <2>4. QED BY <1>1, <1>3, <2>1, <2>2, <2>3 DEF Path, rt_cur, rt_prev
  <1>7. QED BY <1>3, <1>5, <1>6

\* The back of a proxy routes a reply, if the connection it came by is there.
LEMMA DispatcherAdd ==
  ASSUME IInv, fault = "none", NEW l \in Links, dispatcher_add(l)
  PROVE  IInv'
  <1> DEFINE p == Src[l]
             m == Head(wire[l].bwd)
             n == [m EXCEPT !.h = Popped(@)]
  <1>1. /\ p \in Proxies /\ wire[l].bwd # <<>> /\ wire' = [wire EXCEPT ![l].bwd = Tail(@)]
        /\ fault' = IF m.h.ttl >= 2 THEN fault ELSE "rt_prev"
        /\ \/ UNCHANGED ls
           \/ \E back \in route_backward(p, m.h) : ls' = [ls EXCEPT ![back].bwd = Append(@, n)]
        /\ UNCHANGED <<rr, reps, uuid, rcv, hdr, owner, served, got>>
    BY DEF dispatcher_add, Asserts, netVars, appVars
  <1>2. /\ TypeInv /\ QueuesDistinct /\ Tokens /\ OnPath /\ HdrInv /\ UuidInv
        /\ ls[l] \in Ends /\ wire[l] \in Ends
    BY DEF IInv, TypeInv
  <1>3. /\ m \in Msgs /\ m \in Elems(wire[l].bwd) /\ Tail(wire[l].bwd) \in Seq(Msgs)
        /\ Elems(Tail(wire[l].bwd)) \subseteq Elems(wire[l].bwd) /\ m.id \in Ids(wire[l].bwd)
        /\ Ids(Tail(wire[l].bwd)) = Ids(wire[l].bwd) \ {m.id} /\ Distinct(Tail(wire[l].bwd))
    BY <1>1, <1>2, Taken DEF QueuesDistinct, Ends
  <1>4. Path(m, Dst[l]) /\ Src[rt_cur(m.h)] = p
    BY <1>2, <1>3 DEF OnPath
  <1>5. m.id \in Reqs /\ owner[m.id] \in Clients
    <2>1. m.id \in Reqs /\ <<"wb", l>> \in Place /\ m.id \in At(<<"wb", l>>)
      BY <1>3, PlaceOf DEF Msgs
    <2>2. owner[m.id] # None /\ owner \in [Reqs -> Clients \cup {None}]
      BY <1>2, <2>1 DEF Tokens, TypeInv, A!TypeOK
    <2>3. QED BY <2>1, <2>2
  <1>6. m.h.ttl >= 2 /\ Popped(m.h) \in Hdrs /\ Path(n, p) /\ rt_cur(n.h) = rt_prev(m.h) /\ n.id = m.id
    BY <1>1, <1>2, <1>3, <1>4, <1>5, PathPopped
  <1>7. n \in Msgs /\ fault' = fault
    BY <1>1, <1>3, <1>6 DEF Msgs
  <1>8. wire' \in [Links -> Ends]
    BY <1>1, <1>2, <1>3 DEF TypeInv, Ends
  <1>9. CASE UNCHANGED ls
    <2>1. \A j \in Links :
            /\ Elems(wire'[j].fwd) \subseteq Elems(wire[j].fwd) /\ Distinct(wire'[j].fwd)
            /\ Elems(wire'[j].bwd) \subseteq Elems(wire[j].bwd) /\ Distinct(wire'[j].bwd)
      BY <1>1, <1>2, <1>3 DEF TypeInv, QueuesDistinct
    <2>2. QED BY <1>1, <1>2, <1>7, <1>8, <1>9, <2>1, LossStep DEF TypeInv, QueuesDistinct
  <1>10. ASSUME NEW k \in route_backward(p, m.h), ls' = [ls EXCEPT ![k].bwd = Append(@, n)]
         PROVE  IInv'
    <2>1. k \in Links /\ Dst[k] = p /\ uuid[k] = rt_prev(m.h)
      BY <1>2, <1>10 DEF route_backward, Conns, TypeInv
    <2>2. Src[rt_cur(n.h)] = Src[k]
      <3>1. rt_cur(n.h) \in Links
        BY <1>6, <1>7, PathTyped
      <3>2. uuid[k] # None
        BY <1>6, <2>1, <3>1, ReqRepAssumption
      <3>3. QED BY <1>2, <1>6, <2>1, <3>2 DEF UuidInv
    <2> HIDE DEF m, n, p
    <2>3. /\ <<"wb", l>> \in Place /\ <<"lb", k>> \in Place /\ <<"wb", l>> # <<"lb", k>>
          /\ m.id \in At(<<"wb", l>>)
      BY <1>3, <2>1, PlaceOf
    <2>4. n.id \notin Ids(ls[k].bwd)
      <3>1. At(<<"wb", l>>) \cap At(<<"lb", k>>) = {}
        BY <1>2, <2>3 DEF Tokens
      <3>2. QED BY <1>6, <2>1, <2>3, <3>1, PlaceOf
    <2>5. ls[k] \in Ends /\ ls[k].bwd \in Seq(Msgs) /\ Distinct(ls[k].bwd)
      BY <1>2, <2>1 DEF TypeInv, QueuesDistinct, Ends
    <2>6. /\ Append(ls[k].bwd, n) \in Seq(Msgs) /\ Distinct(Append(ls[k].bwd, n))
          /\ Elems(Append(ls[k].bwd, n)) = Elems(ls[k].bwd) \cup {n}
          /\ Ids(Append(ls[k].bwd, n)) = Ids(ls[k].bwd) \cup {m.id}
      BY <1>6, <1>7, <2>4, <2>5, Put
    <2>7. ls' \in [Links -> Ends]
      <3>1. [ls[k] EXCEPT !.bwd = Append(ls[k].bwd, n)] \in Ends
        BY <2>5, <2>6 DEF Ends
      <3>2. QED BY <1>2, <1>10, <2>1, <3>1 DEF TypeInv
    <2>8. TypeInv'
      BY <1>1, <1>2, <1>8, <2>7 DEF TypeInv, A!TypeOK
    <2>9. QueuesDistinct'
      BY <1>1, <1>2, <1>3, <1>10, <2>1, <2>6 DEF QueuesDistinct, TypeInv, Ends
    <2>10. Tokens'
      <3>1. \A x \in Place \ {<<"wb", l>>, <<"lb", k>>} : At(x)' \subseteq At(x)
        BY <1>1, <1>2, <1>10 DEF At, TypeInv, Ends, Place, Forth
      <3>2. /\ At(<<"wb", l>>)' \subseteq At(<<"wb", l>>) \ {m.id}
            /\ At(<<"lb", k>>)' \subseteq At(<<"lb", k>>) \cup {m.id}
        <4>1. Ids(wire'[l].bwd) = Ids(wire[l].bwd) \ {m.id} /\ Ids(ls'[k].bwd) = Ids(ls[k].bwd) \cup {m.id}
          <5>1. wire'[l].bwd = Tail(wire[l].bwd)
            BY <1>1, <1>2 DEF TypeInv, Ends
          <5>2. ls'[k].bwd = Append(ls[k].bwd, n)
            BY <1>2, <1>10, <2>1, <2>5 DEF TypeInv, Ends
          <5>3. QED BY <1>3, <2>6, <5>1, <5>2
        <4>2. QED BY <2>1, <4>1, PlaceOf, PlaceNext
      <3>3. QED BY <1>1, <1>2, <2>3, <3>1, <3>2, PlaceOf, TokensMove
    <2>11. OnPath'
      <3>1. \A j \in Links : /\ Elems(wire'[j].bwd) \subseteq Elems(wire[j].bwd)
                             /\ wire'[j].fwd = wire[j].fwd /\ ls'[j].fwd = ls[j].fwd
                             /\ Elems(ls'[j].bwd) \subseteq Elems(ls[j].bwd) \cup (IF j = k THEN {n} ELSE {})
        <4>1. \A j \in Links : Elems(wire'[j].bwd) \subseteq Elems(wire[j].bwd) /\ wire'[j].fwd = wire[j].fwd
          BY <1>1, <1>2, <1>3 DEF TypeInv, Ends
        <4>2. \A j \in Links : /\ ls'[j].fwd = ls[j].fwd
                               /\ Elems(ls'[j].bwd) \subseteq Elems(ls[j].bwd) \cup (IF j = k THEN {n} ELSE {})
          BY <1>2, <1>10, <2>1, <2>5, <2>6 DEF TypeInv, Ends
        <4>3. QED BY <4>1, <4>2
      <3>2. \A x, y : Path(x, y) => Path(x, y)'
        BY <1>1, PathKept
      <3>3. \A h : rt_cur(h)' = rt_cur(h)
        BY DEF rt_cur
      <3>4. \A j \in Links : \A x \in Elems(ls'[j].bwd) : Path(x, Dst[j]) /\ Src[rt_cur(x.h)] = Src[j]
        BY <1>2, <1>6, <2>1, <2>2, <3>1 DEF OnPath
      <3>5. \A j \in Links :
              /\ \A x \in Elems(wire'[j].fwd) \cup Elems(wire'[j].bwd) :
                   Path(x, Dst[j]) /\ Src[rt_cur(x.h)] = Src[j]
              /\ \A x \in Elems(ls'[j].fwd) : Path(x, Src[j])
        BY <1>2, <3>1 DEF OnPath
      <3>6. \A s \in Servers : \A x \in rcv'[s] : Path(x, s)
        BY <1>1, <1>2 DEF OnPath
      <3>7. QED BY <3>2, <3>3, <3>4, <3>5, <3>6 DEF OnPath
    <2>12. HdrInv' /\ UuidInv'
      BY <1>1, <1>2 DEF HdrInv, UuidInv
    <2>13. QED BY <2>8, <2>9, <2>10, <2>11, <2>12 DEF IInv
  <1>11. QED BY <1>1, <1>9, <1>10

\* A server answers, if a connection with the uuid is there.
LEMMA RepepSend ==
  ASSUME IInv, fault = "none", NEW s \in Servers, NEW m \in rcv[s], repep_send(s, m)
  PROVE  IInv'
  <1> DEFINE h == [m.h EXCEPT !.go = FALSE]
             n == [m EXCEPT !.h = h]
             ts == {l \in Conns(s) : uuid[l] = rt_cur(h)}
  <1>1. /\ rcv' = [rcv EXCEPT ![s] = @ \ {m}]
        /\ \/ UNCHANGED wire
           \/ \E l \in ts : wire' = IF l \in broken THEN wire ELSE [wire EXCEPT ![l].bwd = Append(@, n)]
        /\ UNCHANGED <<rr, reps, uuid, ls, hdr, owner, served, got, fault>>
    BY DEF repep_send, Back, netVars, appVars
  <1>2. /\ TypeInv /\ QueuesDistinct /\ Tokens /\ OnPath /\ HdrInv /\ UuidInv /\ m \in Msgs
    BY DEF IInv, TypeInv
  <1>3. /\ n \in Msgs /\ n.id = m.id /\ n.h.rt = m.h.rt /\ n.h.ttl = m.h.ttl /\ h.rt = m.h.rt /\ h.ttl = m.h.ttl
        /\ n.h = h
    BY <1>2 DEF Msgs, Hdrs
  <1>4. Path(n, s) /\ rt_cur(h) \in Links
    <2>1. Path(m, s)
      BY <1>2 DEF OnPath
    <2>2. Path(n, s)
      BY <1>3, <2>1 DEF Path, rt_cur
    <2>3. QED BY <1>3, <2>2, PathTyped
  <1>5. <<"rcv", s>> \in Place /\ m.id \in At(<<"rcv", s>>)
    BY PlaceOf
  <1>6. /\ At(<<"rcv", s>>)' \subseteq At(<<"rcv", s>>) \ {m.id}
        /\ rcv' \in [Servers -> SUBSET Msgs]
        /\ \A x \in Servers : rcv'[x] \subseteq rcv[x]
    <2>1. rcv'[s] = rcv[s] \ {m} /\ rcv' \in [Servers -> SUBSET Msgs] /\ \A x \in Servers : rcv'[x] \subseteq rcv[x]
      BY <1>1, <1>2 DEF TypeInv
    <2>2. \A x \in rcv'[s] : x \in rcv[s] /\ x.id # m.id
      BY <1>2, <2>1 DEF QueuesDistinct
    <2>3. QED BY <2>1, <2>2, PlaceOf, PlaceNext
  <1> HIDE DEF h, n
  <1>7. CASE UNCHANGED wire
    <2>1. TypeInv'
      BY <1>1, <1>2, <1>6, <1>7 DEF TypeInv, A!TypeOK
    <2>2. QueuesDistinct'
      BY <1>1, <1>2, <1>6, <1>7 DEF QueuesDistinct
    <2>3. \A x \in Place \ {<<"rcv", s>>} : At(x)' \subseteq At(x)
      BY <1>1, <1>2, <1>6, <1>7 DEF At, Place, Forth
    <2>4. Tokens'
      BY <1>1, <1>2, <1>6, <2>3, TokensLess
    <2>5. \A x, y : Path(x, y) => Path(x, y)'
      BY <1>1, PathKept
    <2>6. OnPath'
      BY <1>1, <1>2, <1>6, <1>7, <2>5 DEF OnPath, rt_cur
    <2>7. HdrInv' /\ UuidInv'
      BY <1>1, <1>2 DEF HdrInv, UuidInv
    <2>8. QED BY <2>1, <2>2, <2>4, <2>6, <2>7 DEF IInv
  <1>8. ASSUME NEW l \in ts, wire' = [wire EXCEPT ![l].bwd = Append(@, n)]
        PROVE  IInv'
    <2>1. l \in Links /\ Dst[l] = s /\ uuid[l] = rt_cur(h)
      BY <1>2, <1>8 DEF Conns, TypeInv
    <2>2. Src[rt_cur(n.h)] = Src[l]
      <3>1. uuid[l] # None
        BY <1>4, <2>1, ReqRepAssumption
      <3>2. QED BY <1>2, <1>3, <2>1, <3>1 DEF UuidInv
    <2>3. <<"wb", l>> \in Place /\ <<"rcv", s>> # <<"wb", l>>
      BY <2>1, PlaceOf
    <2>4. n.id \notin Ids(wire[l].bwd)
      <3>1. At(<<"rcv", s>>) \cap At(<<"wb", l>>) = {}
        BY <1>2, <1>5, <2>3 DEF Tokens
      <3>2. QED BY <1>3, <1>5, <2>1, <3>1, PlaceOf
    <2>5. wire[l] \in Ends /\ wire[l].bwd \in Seq(Msgs) /\ Distinct(wire[l].bwd)
      BY <1>2, <2>1 DEF TypeInv, QueuesDistinct, Ends
    <2>6. /\ Append(wire[l].bwd, n) \in Seq(Msgs) /\ Distinct(Append(wire[l].bwd, n))
          /\ Elems(Append(wire[l].bwd, n)) = Elems(wire[l].bwd) \cup {n}
          /\ Ids(Append(wire[l].bwd, n)) = Ids(wire[l].bwd) \cup {m.id}
      BY <1>3, <2>4, <2>5, Put
    <2>7. TypeInv'
      <3>1. wire' \in [Links -> Ends]
        BY <1>2, <1>8, <2>1, <2>5, <2>6 DEF TypeInv, Ends
      <3>2. QED BY <1>1, <1>2, <1>6, <3>1 DEF TypeInv, A!TypeOK
    <2>8. QueuesDistinct'
      BY <1>1, <1>2, <1>6, <1>8, <2>1, <2>6 DEF QueuesDistinct, TypeInv, Ends
    <2>9. Tokens'
      <3>1. \A x \in Place \ {<<"rcv", s>>, <<"wb", l>>} : At(x)' \subseteq At(x)
        BY <1>1, <1>2, <1>6, <1>8 DEF At, TypeInv, Ends, Place, Forth
      <3>2. At(<<"wb", l>>)' \subseteq At(<<"wb", l>>) \cup {m.id}
        <4>1. wire'[l].bwd = Append(wire[l].bwd, n)
          BY <1>2, <1>8, <2>1, <2>5 DEF TypeInv, Ends
        <4>2. QED BY <2>1, <2>6, <4>1, PlaceOf, PlaceNext
      <3>3. QED BY <1>1, <1>2, <1>5, <1>6, <2>3, <3>1, <3>2, PlaceOf, TokensMove
    <2>10. OnPath'
      <3>1. \A j \in Links : /\ Elems(wire'[j].bwd) \subseteq Elems(wire[j].bwd) \cup (IF j = l THEN {n} ELSE {})
                             /\ wire'[j].fwd = wire[j].fwd
        BY <1>2, <1>8, <2>1, <2>5, <2>6 DEF TypeInv, Ends
      <3>2. \A x, y : Path(x, y) => Path(x, y)'
        BY <1>1, PathKept
      <3>3. \A g : rt_cur(g)' = rt_cur(g)
        BY DEF rt_cur
      <3>4. \A j \in Links : \A x \in Elems(wire'[j].bwd) : Path(x, Dst[j]) /\ Src[rt_cur(x.h)] = Src[j]
        BY <1>2, <1>4, <2>1, <2>2, <3>1 DEF OnPath
      <3>5. \A j \in Links :
              /\ \A x \in Elems(wire'[j].fwd) \cup Elems(ls'[j].bwd) :
                   Path(x, Dst[j]) /\ Src[rt_cur(x.h)] = Src[j]
              /\ \A x \in Elems(ls'[j].fwd) : Path(x, Src[j])
        BY <1>1, <1>2, <3>1 DEF OnPath
      <3>6. \A x \in Servers : \A y \in rcv'[x] : Path(y, x)
        BY <1>2, <1>6 DEF OnPath
      <3>7. QED BY <3>2, <3>3, <3>4, <3>5, <3>6 DEF OnPath
    <2>11. HdrInv' /\ UuidInv'
      BY <1>1, <1>2 DEF HdrInv, UuidInv
    <2>12. QED BY <2>7, <2>8, <2>9, <2>10, <2>11 DEF IInv
  <1>9. QED BY <1>1, <1>7, <1>8

\* A server receives a request.
LEMMA RepepAdd ==
  ASSUME IInv, fault = "none", NEW l \in Links, repep_add(l)
  PROVE  IInv' /\ [A!Next]_<<owner, served, got>>
  <1> DEFINE s == Dst[l]
             m == Head(wire[l].fwd)
  <1>1. /\ s \in Servers /\ wire[l].fwd # <<>> /\ wire' = [wire EXCEPT ![l].fwd = Tail(@)]
        /\ fault' = IF m.h.ttl >= 1 THEN fault ELSE "rt_cur"
        /\ uuid' = [uuid EXCEPT ![l] = rt_cur(m.h)] /\ rcv' = [rcv EXCEPT ![s] = @ \cup {m}]
        /\ served' = [served EXCEPT ![m.id] = @ + 1]
        /\ UNCHANGED <<rr, reps, ls, hdr, owner, got>>
    BY DEF repep_add, Asserts
  <1>2. /\ TypeInv /\ QueuesDistinct /\ Tokens /\ OnPath /\ HdrInv /\ UuidInv /\ wire[l] \in Ends
    BY DEF IInv, TypeInv
  <1>3. /\ m \in Msgs /\ m \in Elems(wire[l].fwd) /\ Tail(wire[l].fwd) \in Seq(Msgs)
        /\ Elems(Tail(wire[l].fwd)) \subseteq Elems(wire[l].fwd) /\ m.id \in Ids(wire[l].fwd)
        /\ Ids(Tail(wire[l].fwd)) = Ids(wire[l].fwd) \ {m.id} /\ Distinct(Tail(wire[l].fwd))
    BY <1>1, <1>2, Taken DEF QueuesDistinct, Ends
  <1>4. Path(m, s) /\ Src[rt_cur(m.h)] = Src[l]
    BY <1>2, <1>3 DEF OnPath
  <1>5. m.h.ttl \in 1 .. Len(m.h.rt) /\ m.h \in Hdrs /\ rt_cur(m.h) \in Links
    BY <1>3, <1>4, PathTyped
  <1>6. fault' = fault
    BY <1>1, <1>5 DEF Hdrs
  <1> DEFINE i == m.id
  <1>7. /\ <<"wf", l>> \in Place /\ <<"rcv", s>> \in Place /\ <<"wf", l>> # <<"rcv", s>>
        /\ i \in At(<<"wf", l>>) /\ i \in Reqs
    BY <1>1, <1>3, PlaceOf DEF Msgs
  <1>8. /\ served[i] = 0 /\ owner[i] # None /\ hdr[i] = None /\ \A c \in Clients : got[i][c] = 0
        /\ \A x \in Place \ {<<"wf", l>>} : i \notin At(x)
    <2>1. served[i] = 0
      BY <1>2, <1>7, PlaceOf DEF Tokens
    <2>2. owner[i] # None /\ hdr[i] = None /\ \A c \in Clients : got[i][c] = 0
      BY <1>2, <1>7 DEF Tokens
    <2>3. \A x \in Place \ {<<"wf", l>>} : i \notin At(x)
      BY <1>2, <1>7 DEF Tokens
    <2>4. QED BY <2>1, <2>2, <2>3
  <1>9. A!Serve(i)
    BY <1>1, <1>2, <1>7, <1>8 DEF A!Serve, TypeInv, A!TypeOK
  <1>10. served' \in [Reqs -> 0 .. 1] /\ served'[i] = 1 /\ \A r \in Reqs \ {i} : served'[r] = served[r]
    BY <1>1, <1>2, <1>7, <1>8 DEF TypeInv, A!TypeOK
  <1> HIDE DEF m, i
  <1>11. TypeInv'
    <2>1. wire' \in [Links -> Ends]
      BY <1>1, <1>2, <1>3 DEF TypeInv, Ends
    <2>2. uuid' \in [Links -> Links \cup {None}] /\ rcv' \in [Servers -> SUBSET Msgs]
      BY <1>1, <1>2, <1>3, <1>5 DEF TypeInv
    <2>3. QED BY <1>1, <1>2, <1>10, <2>1, <2>2 DEF TypeInv, A!TypeOK
  <1>12. QueuesDistinct'
    <2>1. \A k \in Links : /\ Distinct(wire'[k].fwd) /\ Distinct(wire'[k].bwd)
                           /\ Distinct(ls'[k].fwd) /\ Distinct(ls'[k].bwd)
      BY <1>1, <1>2, <1>3 DEF QueuesDistinct, TypeInv, Ends
    <2>2. \A x \in rcv[s] : x.id # i
      BY <1>1, <1>7, <1>8, PlaceOf
    <2>3. \A t \in Servers : \A x, y \in rcv'[t] : x.id = y.id => x = y
      BY <1>1, <1>2, <2>2 DEF QueuesDistinct, TypeInv, i
    <2>4. QED BY <2>1, <2>3 DEF QueuesDistinct
  <1>13. Tokens'
    <2>1. \A x \in Place \ {<<"wf", l>>, <<"rcv", s>>} : At(x)' \subseteq At(x)
      BY <1>1, <1>2 DEF At, TypeInv, Ends, Place, Forth
    <2>2. /\ At(<<"wf", l>>)' \subseteq At(<<"wf", l>>) \ {i}
          /\ At(<<"rcv", s>>)' \subseteq At(<<"rcv", s>>) \cup {i}
      <3>1. wire'[l].fwd = Tail(wire[l].fwd)
        BY <1>1, <1>2 DEF TypeInv, Ends
      <3>2. rcv'[s] = rcv[s] \cup {m}
        BY <1>1, <1>2 DEF TypeInv
      <3>3. {x.id : x \in rcv'[s]} \subseteq {x.id : x \in rcv[s]} \cup {i}
        BY <3>2 DEF i
      <3>4. QED BY <1>1, <1>3, <3>1, <3>3, PlaceOf, PlaceNext DEF i
    <2>3. \A x \in Place : At(x)' \subseteq (At(x) \ {i}) \cup (IF x = <<"rcv", s>> THEN {i} ELSE {})
      <3>1. \A x \in Place \ {<<"rcv", s>>} : At(x)' \subseteq At(x) \ {i}
        BY <1>8, <2>1, <2>2
      <3>2. At(<<"rcv", s>>)' \subseteq (At(<<"rcv", s>>) \ {i}) \cup {i}
        BY <2>2
      <3>3. QED BY <3>1, <3>2
    <2>4. \A x, y \in Place : x # y => At(x)' \cap At(y)' = {}
      <3>1. \A x \in Place \ {<<"rcv", s>>} : At(x)' \subseteq At(x) \ {i}
        BY <1>8, <2>1, <2>2
      <3>2. QED BY <1>2, <1>7, <2>2, <3>1 DEF Tokens
    <2>5. ASSUME NEW r \in Reqs, r # i
          PROVE  /\ served'[r] = 0 => \A c \in Clients : got'[r][c] = 0
                 /\ owner'[r] = None => hdr'[r] = None
                 /\ owner'[r] = None \/ hdr'[r] # None => served'[r] = 0 /\ \A p \in Place : r \notin At(p)'
                 /\ \A p \in Place :
                      r \in At(p)' => /\ served'[r] = IF p[1] \in Forth THEN 0 ELSE 1
                                      /\ \A c \in Clients : got'[r][c] = 0
      BY <1>1, <1>2, <1>10, <2>3, <2>5 DEF Tokens
    <2>6. /\ served'[i] = 1 /\ owner'[i] # None /\ hdr'[i] = None
          /\ \A c \in Clients : got'[i][c] = 0
          /\ \A p \in Place : i \in At(p)' => p[1] \notin Forth
      BY <1>1, <1>7, <1>8, <1>10, <2>3, PlaceOf
    <2>7. QED BY <2>4, <2>5, <2>6 DEF Tokens
  <1>14. OnPath'
    <2>1. \A j \in Links : /\ Elems(wire'[j].fwd) \subseteq Elems(wire[j].fwd)
                           /\ wire'[j].bwd = wire[j].bwd /\ ls'[j] = ls[j]
      BY <1>1, <1>2, <1>3 DEF TypeInv, Ends
    <2>2. \A x \in Servers : \A y \in rcv'[x] : Path(y, x)
      BY <1>1, <1>2, <1>4 DEF OnPath, TypeInv
    <2>3. \A x, y : Path(x, y) => Path(x, y)'
      BY <1>1, PathKept
    <2>4. \A j \in Links :
            /\ \A x \in Elems(wire'[j].fwd) \cup Elems(wire'[j].bwd) \cup Elems(ls'[j].bwd) :
                 Path(x, Dst[j]) /\ Src[rt_cur(x.h)] = Src[j]
            /\ \A x \in Elems(ls'[j].fwd) : Path(x, Src[j])
      BY <1>2, <2>1 DEF OnPath
    <2>5. \A g : rt_cur(g)' = rt_cur(g)
      BY DEF rt_cur
    <2>6. QED BY <2>2, <2>3, <2>4, <2>5 DEF OnPath
  <1>15. HdrInv' /\ UuidInv'
    BY <1>1, <1>2, <1>4 DEF HdrInv, UuidInv, TypeInv
  <1>16. IInv'
    BY <1>11, <1>12, <1>13, <1>14, <1>15 DEF IInv
  <1>17. QED BY <1>7, <1>9, <1>16 DEF A!Next

\* A client receives the answer to a request of its own.
LEMMA ReqepAdd ==
  ASSUME IInv, fault = "none", NEW l \in Links, reqep_add(l)
  PROVE  IInv' /\ [A!Next]_<<owner, served, got>>
  <1> DEFINE c == Src[l]
             m == Head(wire[l].bwd)
             i == m.id
  <1>1. /\ c \in Clients /\ wire[l].bwd # <<>> /\ wire' = [wire EXCEPT ![l].bwd = Tail(@)]
        /\ got' = [got EXCEPT ![i][c] = @ + 1]
        /\ UNCHANGED <<rr, reps, uuid, ls, rcv, hdr, owner, served, fault>>
    BY DEF reqep_add, netVars
  <1>2. /\ TypeInv /\ QueuesDistinct /\ Tokens /\ OnPath /\ HdrInv /\ UuidInv /\ wire[l] \in Ends
    BY DEF IInv, TypeInv
  <1>3. /\ m \in Msgs /\ m \in Elems(wire[l].bwd) /\ Tail(wire[l].bwd) \in Seq(Msgs)
        /\ Elems(Tail(wire[l].bwd)) \subseteq Elems(wire[l].bwd) /\ i \in Ids(wire[l].bwd)
        /\ Ids(Tail(wire[l].bwd)) = Ids(wire[l].bwd) \ {i} /\ Distinct(Tail(wire[l].bwd))
    BY <1>1, <1>2, Taken DEF QueuesDistinct, Ends
  <1>4. Path(m, Dst[l]) /\ Src[rt_cur(m.h)] = c
    BY <1>2, <1>3 DEF OnPath
  <1>5. <<"wb", l>> \in Place /\ i \in At(<<"wb", l>>) /\ i \in Reqs
    BY <1>3, PlaceOf DEF Msgs
  <1>6. /\ served[i] = 1 /\ owner[i] # None /\ hdr[i] = None /\ \A d \in Clients : got[i][d] = 0
        /\ \A x \in Place \ {<<"wb", l>>} : i \notin At(x)
    <2>1. served[i] = 1
      BY <1>2, <1>5, PlaceOf DEF Tokens
    <2>2. owner[i] # None /\ hdr[i] = None /\ \A d \in Clients : got[i][d] = 0
      BY <1>2, <1>5 DEF Tokens
    <2>3. \A x \in Place \ {<<"wb", l>>} : i \notin At(x)
      BY <1>2, <1>5 DEF Tokens
    <2>4. QED BY <2>1, <2>2, <2>3
  <1>7. owner[i] = c
    <2> DEFINE t == m.h.ttl
               s == m.h.rt
    <2>1. /\ t \in 1 .. Len(s) /\ s \in Seq(Links) /\ Src[s[1]] = owner[i] /\ Src[s[t]] = c
          /\ \A k \in 1 .. t - 1 : Hop(Src[s[k]], Src[s[k + 1]])
      BY <1>3, <1>4 DEF Path, rt_cur, Msgs, Hdrs
    <2> HIDE DEF t, s
    <2>2. ASSUME t # 1 PROVE FALSE
      <3>1. t - 1 \in 1 .. t - 1 /\ (t - 1) + 1 = t
        <4>1. Len(s) \in Nat
          BY <2>1
        <4>2. t \in Nat \ {0, 1}
          BY <2>1, <2>2, <4>1
        <4>3. QED BY <4>2
      <3>2. Hop(Src[s[t - 1]], c)
        BY <2>1, <3>1
      <3>3. QED BY <1>1, <3>2, ReqRepAssumption DEF Hop
    <2>3. QED BY <2>1, <2>2
  <1>8. A!Answer(i)
    <2>1. got[i][owner[i]] = 0 /\ got \in [Reqs -> [Clients -> 0 .. 1]] /\ c \in Clients
      BY <1>1, <1>2, <1>6, <1>7 DEF TypeInv, A!TypeOK
    <2>2. got' = [got EXCEPT ![i][owner[i]] = 1]
      BY <1>1, <1>5, <1>7, <2>1
    <2>3. QED BY <1>1, <1>6, <2>1, <2>2 DEF A!Answer
  <1> HIDE DEF m, i
  <1>9. /\ got' \in [Reqs -> [Clients -> 0 .. 1]]
        /\ \A r \in Reqs \ {i} : got'[r] = got[r]
    BY <1>1, <1>2, <1>5, <1>6 DEF TypeInv, A!TypeOK
  <1>10. TypeInv'
    <2>1. wire' \in [Links -> Ends]
      BY <1>1, <1>2, <1>3 DEF TypeInv, Ends
    <2>2. QED BY <1>1, <1>2, <1>9, <2>1 DEF TypeInv, A!TypeOK
  <1>11. QueuesDistinct'
    BY <1>1, <1>2, <1>3 DEF QueuesDistinct, TypeInv, Ends
  <1>12. Tokens'
    <2>1. \A x \in Place \ {<<"wb", l>>} : At(x)' \subseteq At(x)
      BY <1>1, <1>2 DEF At, TypeInv, Ends, Place, Forth
    <2>2. At(<<"wb", l>>)' \subseteq At(<<"wb", l>>) \ {i}
      <3>1. wire'[l].bwd = Tail(wire[l].bwd)
        BY <1>1, <1>2 DEF TypeInv, Ends
      <3>2. QED BY <1>3, <3>1, PlaceOf, PlaceNext
    <2>3. \A x \in Place : At(x)' \subseteq At(x) \ {i}
      BY <1>6, <2>1, <2>2
    <2>4. \A x, y \in Place : x # y => At(x)' \cap At(y)' = {}
      BY <1>2, <2>3 DEF Tokens
    <2>5. ASSUME NEW r \in Reqs, r # i
          PROVE  /\ served'[r] = 0 => \A d \in Clients : got'[r][d] = 0
                 /\ owner'[r] = None => hdr'[r] = None
                 /\ owner'[r] = None \/ hdr'[r] # None => served'[r] = 0 /\ \A p \in Place : r \notin At(p)'
                 /\ \A p \in Place :
                      r \in At(p)' => /\ served'[r] = IF p[1] \in Forth THEN 0 ELSE 1
                                      /\ \A d \in Clients : got'[r][d] = 0
      BY <1>1, <1>2, <1>9, <2>3, <2>5 DEF Tokens
    <2>6. served'[i] = 1 /\ owner'[i] # None /\ hdr'[i] = None /\ \A p \in Place : i \notin At(p)'
      BY <1>1, <1>6, <2>3
    <2>7. QED BY <2>4, <2>5, <2>6 DEF Tokens
  <1>13. OnPath'
    <2>1. \A j \in Links : /\ Elems(wire'[j].bwd) \subseteq Elems(wire[j].bwd)
                           /\ wire'[j].fwd = wire[j].fwd /\ ls'[j] = ls[j]
      BY <1>1, <1>2, <1>3 DEF TypeInv, Ends
    <2>2. \A x, y : Path(x, y) => Path(x, y)'
      BY <1>1, PathKept
    <2>3. \A g : rt_cur(g)' = rt_cur(g)
      BY DEF rt_cur
    <2>4. \A j \in Links :
            /\ \A x \in Elems(wire'[j].fwd) \cup Elems(wire'[j].bwd) \cup Elems(ls'[j].bwd) :
                 Path(x, Dst[j]) /\ Src[rt_cur(x.h)] = Src[j]
            /\ \A x \in Elems(ls'[j].fwd) : Path(x, Src[j])
      BY <1>2, <2>1 DEF OnPath
    <2>5. \A s \in Servers : \A x \in rcv'[s] : Path(x, s)
      BY <1>1, <1>2 DEF OnPath
    <2>6. QED BY <2>2, <2>3, <2>4, <2>5 DEF OnPath
  <1>14. HdrInv' /\ UuidInv'
    BY <1>1, <1>2 DEF HdrInv, UuidInv
  <1>15. QED BY <1>5, <1>8, <1>10, <1>11, <1>12, <1>13, <1>14 DEF IInv, A!Next

\* A client sends a request, or sends one again that was refused.
LEMMA ReqepSend ==
  ASSUME IInv, fault = "none", NEW c \in Clients, NEW r \in Reqs, reqep_send(c, r)
  PROVE  IInv' /\ [A!Next]_<<owner, served, got>>
  <1>1. /\ TypeInv /\ QueuesDistinct /\ Tokens /\ OnPath /\ HdrInv /\ UuidInv
    BY DEF IInv
  <1>2. /\ owner[r] = None \/ (owner[r] = c /\ hdr[r] # None)
        /\ rr[c] # <<>> /\ rr' = Rotated(c) /\ owner' = [owner EXCEPT ![r] = c]
        /\ UNCHANGED <<reps, uuid, ls, rcv, served, got, fault>>
    BY DEF reqep_send
  <1>3. PICK l \in Links : l = Selected(c) /\ Src[l] = c
    BY <1>1, <1>2, Turned
  <1>4. /\ rr' \in [Clients \cup Proxies -> Seq(Links)]
        /\ \A x \in Clients \cup Proxies : Elems(rr'[x]) \subseteq Elems(rr[x])
    BY <1>1, <1>2, Turned
  <1>5. PICK h : h = IF hdr[r] = None THEN new_rrhdr(l) ELSE hdr[r]
    OBVIOUS
  <1> DEFINE m == [id |-> r, h |-> h]
  <1>6. \/ /\ hdr' = [hdr EXCEPT ![r] = None]
           /\ wire' = IF l \in broken THEN wire ELSE [wire EXCEPT ![l].fwd = Append(@, m)]
        \/ hdr' = [hdr EXCEPT ![r] = h] /\ UNCHANGED wire
    <2>1. \E accepted \in Accepts(l) :
            /\ hdr' = [hdr EXCEPT ![r] = IF accepted THEN None ELSE h]
            /\ IF accepted THEN Forward(l, m) ELSE UNCHANGED wire
      BY <1>3, <1>5 DEF reqep_send
    <2>2. PICK accepted \in BOOLEAN :
            /\ hdr' = [hdr EXCEPT ![r] = IF accepted THEN None ELSE h]
            /\ IF accepted THEN Forward(l, m) ELSE UNCHANGED wire
      BY <2>1 DEF Accepts
    <2>3. CASE accepted = TRUE
      <3>1. hdr' = [hdr EXCEPT ![r] = None] /\ Forward(l, m)
        BY <2>2, <2>3
      <3> HIDE DEF m
      <3>2. wire' = IF l \in broken THEN wire ELSE [wire EXCEPT ![l].fwd = Append(@, m)]
        BY <3>1, Zenon DEF Forward
      <3>3. QED BY <3>1, <3>2
    <2>4. CASE accepted = FALSE
      BY <2>2, <2>4
    <2>5. QED BY <2>2, <2>3, <2>4
  <1>7. h \in Hdrs /\ h.ttl = 1 /\ Len(h.rt) >= 1 /\ Src[h.rt[1]] = c /\ m \in Msgs
    <2>1. CASE hdr[r] = None
      <3>1. h = [ttl |-> 1, rt |-> <<l>>, go |-> TRUE] /\ <<l>> \in Seq(Links) /\ Len(<<l>>) = 1 /\ <<l>>[1] = l
        BY <1>5, <2>1 DEF new_rrhdr
      <3>2. 1 \in 0 .. TtlMod - 1
        BY ReqRepAssumption
      <3>3. QED BY <1>3, <3>1, <3>2 DEF Hdrs, Msgs
    <2>2. CASE hdr[r] # None
      <3>1. owner[r] = c
        BY <1>1, <1>2, <2>2 DEF Tokens
      <3>2. QED BY <1>1, <1>5, <2>2, <3>1 DEF TypeInv, HdrInv, Msgs
    <2>3. QED BY <2>1, <2>2
  <1> HIDE DEF m
  <1>8. /\ m.id = r /\ m.h = h
        /\ served[r] = 0 /\ \A d \in Clients : got[r][d] = 0
        /\ \A p \in Place : r \notin At(p)
    <2>1. owner[r] = None \/ hdr[r] # None
      BY <1>2
    <2>2. served[r] = 0 /\ \A p \in Place : r \notin At(p)
      BY <1>1, <2>1 DEF Tokens
    <2>3. \A d \in Clients : got[r][d] = 0
      BY <1>1, <2>2 DEF Tokens
    <2>4. QED BY <2>2, <2>3 DEF m
  <1>9. /\ wire[l] \in Ends /\ wire[l].fwd \in Seq(Msgs)
        /\ Append(wire[l].fwd, m) \in Seq(Msgs) /\ Distinct(Append(wire[l].fwd, m))
        /\ Elems(Append(wire[l].fwd, m)) = Elems(wire[l].fwd) \cup {m}
        /\ Ids(Append(wire[l].fwd, m)) = Ids(wire[l].fwd) \cup {r}
    <2>1. wire[l] \in Ends /\ wire[l].fwd \in Seq(Msgs) /\ Distinct(wire[l].fwd)
      BY <1>1 DEF TypeInv, QueuesDistinct, Ends
    <2>2. m.id \notin Ids(wire[l].fwd)
      BY <1>8, PlaceOf
    <2>3. QED BY <1>7, <1>8, <2>1, <2>2, Put
  <1>10. /\ owner'[r] = c /\ owner' \in [Reqs -> Clients \cup {None}]
         /\ \A x \in Reqs \ {r} : owner'[x] = owner[x] /\ hdr'[x] = hdr[x]
         /\ hdr' \in [Reqs -> Hdrs \cup {None}] /\ hdr'[r] \in {h, None}
    BY <1>1, <1>2, <1>6, <1>7 DEF TypeInv, A!TypeOK
  <1>11. wire' = wire \/ (hdr'[r] = None /\ wire' = [wire EXCEPT ![l].fwd = Append(@, m)])
    <2>1. CASE UNCHANGED wire
      BY <2>1
    <2>2. CASE /\ hdr' = [hdr EXCEPT ![r] = None]
               /\ wire' = IF l \in broken THEN wire ELSE [wire EXCEPT ![l].fwd = Append(@, m)]
      <3>1. hdr'[r] = None
        BY <1>1, <2>2 DEF TypeInv
      <3>2. QED BY <2>2, <3>1, Zenon
    <2>3. QED BY <1>6, <2>1, <2>2
  <1>12. /\ wire' \in [Links -> Ends]
         /\ \A j \in Links : /\ wire'[j].bwd = wire[j].bwd
                             /\ \/ wire'[j].fwd = wire[j].fwd
                                \/ j = l /\ wire'[j].fwd = Append(wire[j].fwd, m) /\ hdr'[r] = None
    <2>1. CASE wire' = wire
      BY <1>1, <2>1 DEF TypeInv
    <2>2. CASE hdr'[r] = None /\ wire' = [wire EXCEPT ![l].fwd = Append(@, m)]
      BY <1>1, <1>9, <2>2 DEF TypeInv, Ends
    <2>3. QED BY <1>11, <2>1, <2>2
  <1>13. TypeInv'
    BY <1>1, <1>2, <1>4, <1>10, <1>12 DEF TypeInv, A!TypeOK
  <1>14. QueuesDistinct'
    BY <1>1, <1>2, <1>9, <1>12 DEF QueuesDistinct
  <1>15. Tokens'
    <2>1. \A x \in Place \ {<<"wf", l>>} : At(x)' \subseteq At(x)
      BY <1>2, <1>12 DEF At, Place, Forth
    <2>2. At(<<"wf", l>>)' \subseteq At(<<"wf", l>>) \cup (IF hdr'[r] = None THEN {r} ELSE {})
      BY ZenonT(60), <1>9, <1>12, PlaceOf, PlaceNext
    <2>3. \A x \in Place :
            At(x)' \subseteq (At(x) \ {r}) \cup (IF x = <<"wf", l>> /\ hdr'[r] = None THEN {r} ELSE {})
      <3>1. \A x \in Place \ {<<"wf", l>>} : At(x)' \subseteq At(x) \ {r}
        BY <1>8, <2>1
      <3>2. QED BY <1>8, <2>2, <3>1
    <2>4. \A x, y \in Place : x # y => At(x)' \cap At(y)' = {}
      BY <1>1, <2>3 DEF Tokens
    <2>5. ASSUME NEW i \in Reqs, i # r
          PROVE  /\ served'[i] = 0 => \A d \in Clients : got'[i][d] = 0
                 /\ owner'[i] = None => hdr'[i] = None
                 /\ owner'[i] = None \/ hdr'[i] # None => served'[i] = 0 /\ \A p \in Place : i \notin At(p)'
                 /\ \A p \in Place :
                      i \in At(p)' => /\ served'[i] = IF p[1] \in Forth THEN 0 ELSE 1
                                      /\ \A d \in Clients : got'[i][d] = 0
      BY <1>1, <1>2, <1>10, <2>3, <2>5 DEF Tokens
    <2>6. /\ served'[r] = 0 /\ owner'[r] # None /\ \A d \in Clients : got'[r][d] = 0
          /\ hdr'[r] # None => \A p \in Place : r \notin At(p)'
          /\ \A p \in Place : r \in At(p)' => p[1] \in Forth
      BY <1>2, <1>8, <1>10, <2>3, PlaceOf, ReqRepAssumption
    <2>7. QED BY <2>4, <2>5, <2>6 DEF Tokens
  <1>16. \A x, n : Path(x, n) /\ x.id \in Reqs /\ owner[x.id] # None => Path(x, n)'
    <2>1. \A i \in Reqs : owner[i] # None => owner'[i] = owner[i]
      BY <1>2, <1>10
    <2>2. QED BY <2>1, PathKept
  <1>17. Path(m, Dst[l])' /\ Src[rt_cur(m.h)] = Src[l]
    <2>1. Src[rt_cur(m.h)] = Src[l] /\ Hop(Src[rt_cur(m.h)], Dst[l])
      BY <1>3, <1>7, <1>8 DEF rt_cur, Hop
    <2>2. m.h.ttl \in 1 .. Len(m.h.rt) /\ Src[m.h.rt[1]] = owner'[m.id]
      BY <1>7, <1>8, <1>10 DEF Hdrs
    <2>3. \A k \in 1 .. m.h.ttl - 1 : Hop(Src[m.h.rt[k]], Src[m.h.rt[k + 1]])
      BY <1>7, <1>8
    <2>4. QED BY <2>1, <2>2, <2>3 DEF Path, Hop, rt_cur
  <1>18. OnPath'
    <2>1. \A j \in Links :
            /\ \A x \in Elems(wire[j].fwd) \cup Elems(wire[j].bwd) \cup Elems(ls[j].bwd) :
                 Path(x, Dst[j])' /\ Src[rt_cur(x.h)] = Src[j]
            /\ \A x \in Elems(ls[j].fwd) : Path(x, Src[j])'
      <3>1. \A j \in Links :
              \A x \in Elems(wire[j].fwd) \cup Elems(wire[j].bwd) \cup Elems(ls[j].bwd) \cup Elems(ls[j].fwd) :
                x.id \in Reqs /\ owner[x.id] # None
        <4>1. ASSUME NEW j \in Links,
                     NEW x \in Elems(wire[j].fwd) \cup Elems(wire[j].bwd) \cup Elems(ls[j].bwd) \cup Elems(ls[j].fwd)
              PROVE  x.id \in Reqs /\ owner[x.id] # None
          <5>1. wire[j] \in Ends /\ ls[j] \in Ends
            BY <1>1 DEF TypeInv
          <5>2. x \in Msgs
            BY <4>1, <5>1 DEF Ends, Elems
          <5>3. \E p \in Place : x.id \in At(p)
            BY ZenonT(60), <4>1, PlaceOf DEF Ids
          <5>4. QED BY <1>1, <5>2, <5>3 DEF Tokens, Msgs
        <4>2. QED BY <4>1
      <3>2. QED BY <1>1, <1>16, <3>1 DEF OnPath
    <2>2. \A s \in Servers : \A x \in rcv[s] : Path(x, s)'
      <3>1. ASSUME NEW s \in Servers, NEW x \in rcv[s] PROVE x.id \in Reqs /\ owner[x.id] # None
        <4>1. x \in Msgs
          BY <1>1 DEF TypeInv
        <4>2. <<"rcv", s>> \in Place /\ x.id \in At(<<"rcv", s>>)
          BY PlaceOf
        <4>3. QED BY <1>1, <4>1, <4>2 DEF Tokens, Msgs
      <3>2. QED BY <1>1, <1>16, <3>1 DEF OnPath
    <2>3. \A j \in Links : Elems(wire'[j].fwd) \subseteq Elems(wire[j].fwd) \cup (IF j = l THEN {m} ELSE {})
      BY <1>9, <1>12
    <2>4. \A g : rt_cur(g)' = rt_cur(g)
      BY DEF rt_cur
    <2>5. \A j \in Links :
            /\ \A x \in Elems(wire'[j].fwd) \cup Elems(wire'[j].bwd) \cup Elems(ls'[j].bwd) :
                 Path(x, Dst[j])' /\ Src[rt_cur(x.h)] = Src[j]
            /\ \A x \in Elems(ls'[j].fwd) : Path(x, Src[j])'
      <3>1. \A j \in Links : \A x \in Elems(wire'[j].fwd) : x \in Elems(wire[j].fwd) \/ (j = l /\ x = m)
        BY <2>3
      <3>2. QED BY <1>2, <1>12, <1>17, <2>1, <3>1
    <2>6. QED BY <1>2, <2>2, <2>4, <2>5 DEF OnPath
  <1>19. HdrInv' /\ UuidInv'
    <2>1. \A x \in Reqs \ {r} : owner'[x] = owner[x] /\ hdr'[x] = hdr[x]
      BY <1>10
    <2>2. hdr'[r] # None => hdr'[r] = h /\ owner'[r] = c
      BY <1>10
    <2>3. QED BY <1>1, <1>2, <1>7, <2>1, <2>2 DEF HdrInv, UuidInv
  <1>20. [A!Next]_<<owner, served, got>>
    <2>1. CASE owner[r] = None
      BY <1>2, <2>1 DEF A!Next, A!Ask
    <2>2. CASE owner[r] = c
      BY <1>1, <1>2, <2>2 DEF TypeInv, A!TypeOK
    <2>3. QED BY <1>2, <2>1, <2>2
  <1>21. QED BY <1>13, <1>14, <1>15, <1>18, <1>19, <1>20 DEF IInv
----------------------------------------------------------------------------
(* The theorems.                                                            *)

\* The invariant holds at first.
LEMMA InitInv == Init => IInv /\ A!Init
  <1> SUFFICES ASSUME Init PROVE IInv /\ A!Init
    OBVIOUS
  <1>1. \A l \in Links : /\ wire[l] = [fwd |-> <<>>, bwd |-> <<>>]
                         /\ ls[l] = [fwd |-> <<>>, bwd |-> <<>>]
    BY DEF Init
  <1>2. Elems(<<>>) = {} /\ Ids(<<>>) = {} /\ Distinct(<<>>)
    BY DEF Elems, Ids, Distinct
  <1>3. \A p \in Place : At(p) = {}
    <2>1. \A s \in Servers : {m.id : m \in rcv[s]} = {}
      BY DEF Init
    <2>2. \A l \in Links : /\ wire[l].fwd = <<>> /\ wire[l].bwd = <<>>
                           /\ ls[l].fwd = <<>> /\ ls[l].bwd = <<>>
      BY <1>1
    <2>3. QED BY <1>2, <2>1, <2>2, Places
  <1>4. TypeInv
    <2>1. [fwd |-> <<>>, bwd |-> <<>>] \in Ends
      BY DEF Ends
    <2>2. \A n \in Clients \cup Proxies : rr[n] = <<>>
      BY DEF Init
    <2>3. QED BY <1>2, <2>1, <2>2 DEF Init, TypeInv, A!TypeOK
  <1>5. QueuesDistinct
    BY <1>1, <1>2 DEF QueuesDistinct, Init
  <1>6. Tokens
    BY <1>3 DEF Tokens, Init
  <1>7. OnPath /\ HdrInv /\ UuidInv
    <2>1. OnPath
      BY <1>1, <1>2 DEF OnPath, Init
    <2>2. QED BY <2>1 DEF HdrInv, UuidInv, Init
  <1>8. A!Init
    BY DEF Init, A!Init
  <1>9. QED BY <1>4, <1>5, <1>6, <1>7, <1>8 DEF IInv

\* Every step keeps it, and is a step of Answers or leaves its variables alone.
LEMMA NextInv == IInv /\ Next => IInv' /\ [A!Next]_<<owner, served, got>>
  <1> SUFFICES ASSUME IInv, Next PROVE IInv' /\ [A!Next]_<<owner, served, got>>
    OBVIOUS
  <1>1. fault = "none"
    BY DEF Next
  <1>2. ASSUME NEW l \in Links PROVE
          repep_join(l) \/ reqep_join(l) \/ reqep_term(l) \/ repep_term(l) \/ Break(l)
            => IInv' /\ UNCHANGED <<owner, served, got>>
    <2>1. repep_join(l) \/ reqep_join(l) => IInv' /\ UNCHANGED <<owner, served, got>>
      BY <1>1, ConfigStep DEF repep_join, reqep_join, appVars
    <2>2. reqep_term(l) \/ repep_term(l) => IInv' /\ UNCHANGED <<owner, served, got>>
      BY <1>1, TermStep DEF reqep_term, repep_term, appVars
    <2>3. Break(l) => IInv' /\ UNCHANGED <<owner, served, got>>
      BY <1>1, BreakStep DEF Break, appVars
    <2>4. QED BY <2>1, <2>2, <2>3
  <1>3. ASSUME NEW l \in Links PROVE
          receiver_add(l) \/ dispatcher_rm(l) \/ dispatcher_add(l) \/ receiver_rm(l)
            => IInv' /\ UNCHANGED <<owner, served, got>>
    <2>1. receiver_add(l) => IInv' /\ UNCHANGED <<owner, served, got>>
      BY <1>1, ReceiverAdd DEF receiver_add
    <2>2. dispatcher_rm(l) => IInv' /\ UNCHANGED <<owner, served, got>>
      BY <1>1, DispatcherRm DEF dispatcher_rm, appVars
    <2>3. dispatcher_add(l) => IInv' /\ UNCHANGED <<owner, served, got>>
      BY <1>1, DispatcherAdd DEF dispatcher_add, appVars
    <2>4. receiver_rm(l) => IInv' /\ UNCHANGED <<owner, served, got>>
      BY <1>1, ReceiverRm DEF receiver_rm, appVars
    <2>5. QED BY <2>1, <2>2, <2>3, <2>4
  <1>4. CASE Moves
    <2>1. ASSUME NEW s \in Servers, NEW m \in rcv[s], repep_send(s, m)
          PROVE  IInv' /\ UNCHANGED <<owner, served, got>>
      BY <1>1, <2>1, RepepSend DEF repep_send, appVars
    <2>2. ASSUME NEW l \in Links, repep_add(l) \/ reqep_add(l)
          PROVE  IInv' /\ [A!Next]_<<owner, served, got>>
      BY <1>1, <2>2, RepepAdd, ReqepAdd
    <2>3. QED BY <1>2, <1>3, <1>4, <2>1, <2>2 DEF Moves
  <1>5. CASE Asks
    BY <1>1, <1>5, ReqepSend DEF Asks
  <1>6. CASE Changes
    <2>1. ASSUME NEW p \in Proxies, epbase_proxyto(p) PROVE IInv' /\ UNCHANGED <<owner, served, got>>
      BY <1>1, <2>1, ConfigStep DEF epbase_proxyto, appVars
    <2>2. QED BY <1>2, <1>6, <2>1 DEF Changes
  <1>7. QED BY <1>4, <1>5, <1>6 DEF Next

\* Nothing in the invariant changes when nothing does.
LEMMA StutterInv == IInv /\ UNCHANGED vars => IInv'
  <1> SUFFICES ASSUME IInv, UNCHANGED vars PROVE IInv'
    OBVIOUS
  <1>1. UNCHANGED <<rr, reps, uuid, wire, ls, rcv, hdr, owner, served, got, fault>>
    BY DEF vars, netVars, msgVars, appVars
  <1>2. TypeInv' /\ QueuesDistinct'
    BY <1>1 DEF IInv, TypeInv, A!TypeOK, QueuesDistinct
  <1>3. Tokens'
    <2>1. \A p \in Place : At(p)' \subseteq At(p)
      BY <1>1 DEF At
    <2>2. QED BY <1>1, <2>1, TokensLess DEF IInv
  <1>4. fault' = "none" => OnPath' /\ HdrInv' /\ UuidInv'
    <2>1. SUFFICES ASSUME fault = "none" PROVE OnPath' /\ HdrInv' /\ UuidInv'
      BY <1>1
    <2>2. \A x, y : Path(x, y) => Path(x, y)'
      BY <1>1, PathKept
    <2>3. \A g : rt_cur(g)' = rt_cur(g)
      BY DEF rt_cur
    <2>4. OnPath'
      BY <1>1, <2>1, <2>2, <2>3 DEF IInv, OnPath
    <2>5. QED BY <1>1, <2>1, <2>4 DEF IInv, HdrInv, UuidInv
  <1>5. QED BY <1>2, <1>3, <1>4 DEF IInv

\* The inductive invariant: each request is in one place at a time, and on the path that
\* its stack tells.
THEOREM TokensOnPaths == Spec => []IInv
  <1>1. Init => IInv
    BY InitInv
  <1>2. IInv /\ [Next]_vars => IInv'
    BY NextInv, StutterInv
  <1>3. QED BY <1>1, <1>2, PTL DEF Spec

\* Through any network of proxies, and whatever breaks, is lost or is sent again, a
\* request is served at most once and answered at most once, to the client that asked it
\* (the stack of rr.h, pushed by dispatcher_rm and popped by dispatcher_add).
THEOREM AnswersImplemented == Spec => AnswersCorrect
  <1>1. Init => A!Init
    BY InitInv
  <1>2. IInv /\ [Next]_vars => [A!Next]_<<owner, served, got>>
    <2>1. UNCHANGED vars => UNCHANGED <<owner, served, got>>
      BY DEF vars, appVars
    <2>2. QED BY <2>1, NextInv
  <1>3. QED BY <1>1, <1>2, TokensOnPaths, PTL DEF Spec, AnswersCorrect, A!Spec

----------------------------------------------------------------------------
(* The assertions on the ttl, in a network that is shallow: an entry of a   *)
(* stack is at least as far from the clients as its place in the stack.     *)

IsRank(rank) ==
  rank \in [Nodes -> 0 .. TtlMod - 1] /\ \A l \in Links : rank[Src[l]] < rank[Dst[l]]

Held(m) ==
  \/ \E l \in Links : \/ m \in Elems(wire[l].fwd) \/ m \in Elems(wire[l].bwd)
                      \/ m \in Elems(ls[l].fwd) \/ m \in Elems(ls[l].bwd)
  \/ \E s \in Servers : m \in rcv[s]

Ranked(rank, m) == \A k \in 1 .. m.h.ttl : rank[Src[m.h.rt[k]]] >= k - 1
RankInv(rank) == fault = "none" /\ \A m \in Msgs : Held(m) => Ranked(rank, m)

\* A step adds to all the places what it adds to each.
LEMMA HeldMore ==
  ASSUME NEW N,
         \A l \in Links : /\ Elems(wire'[l].fwd) \subseteq Elems(wire[l].fwd) \cup N
                          /\ Elems(wire'[l].bwd) \subseteq Elems(wire[l].bwd) \cup N,
         \A l \in Links : /\ Elems(ls'[l].fwd) \subseteq Elems(ls[l].fwd) \cup N
                          /\ Elems(ls'[l].bwd) \subseteq Elems(ls[l].bwd) \cup N,
         \A s \in Servers : rcv'[s] \subseteq rcv[s] \cup N
  PROVE  \A m : Held(m)' => Held(m) \/ m \in N
  <1> SUFFICES ASSUME NEW m, Held(m)' PROVE Held(m) \/ m \in N
    OBVIOUS
  <1>1. \/ \E l \in Links : \/ m \in Elems(wire'[l].fwd) \/ m \in Elems(wire'[l].bwd)
                            \/ m \in Elems(ls'[l].fwd) \/ m \in Elems(ls'[l].bwd)
        \/ \E s \in Servers : m \in rcv'[s]
    BY DEF Held, Elems
  <1>2. QED BY <1>1 DEF Held

\* A queue that a step takes a message from, puts one to, or replaces.
LEMMA QueueStep ==
  ASSUME NEW q \in [Links -> Ends], NEW l \in Links, NEW N,
         NEW f \in Seq(Msgs), NEW b \in Seq(Msgs),
         Elems(f) \subseteq Elems(q[l].fwd) \cup N, Elems(b) \subseteq Elems(q[l].bwd) \cup N
  PROVE  /\ \A j \in Links : /\ Elems([q EXCEPT ![l].fwd = f][j].fwd) \subseteq Elems(q[j].fwd) \cup N
                             /\ Elems([q EXCEPT ![l].fwd = f][j].bwd) \subseteq Elems(q[j].bwd) \cup N
         /\ \A j \in Links : /\ Elems([q EXCEPT ![l].bwd = b][j].fwd) \subseteq Elems(q[j].fwd) \cup N
                             /\ Elems([q EXCEPT ![l].bwd = b][j].bwd) \subseteq Elems(q[j].bwd) \cup N
  BY DEF Ends

LEMMA RankKept ==
  ASSUME NEW rank, RankInv(rank), fault' = "none", NEW N, \A m \in N \cap Msgs : Ranked(rank, m),
         \A m : Held(m)' => Held(m) \/ m \in N
  PROVE  RankInv(rank)'
  <1>1. \A m : Ranked(rank, m)' <=> Ranked(rank, m)
    BY DEF Ranked
  <1>2. \A m \in Msgs : Held(m)' => Ranked(rank, m)
    BY DEF RankInv
  <1>3. Msgs' = Msgs
    BY DEF Msgs, Hdrs
  <1>4. QED BY <1>1, <1>2, <1>3 DEF RankInv

\* Connections come and go, and messages are lost.
LEMMA RankLoss ==
  ASSUME NEW rank, IsRank(rank), RankInv(rank), IInv, NEW l \in Links,
         reqep_join(l) \/ repep_join(l) \/ Break(l) \/ reqep_term(l) \/ repep_term(l) \/ reqep_add(l)
  PROVE  RankInv(rank)'
  <1> PICK N : N = {}
    OBVIOUS
  <1>1. /\ wire \in [Links -> Ends] /\ ls \in [Links -> Ends] /\ wire[l] \in Ends /\ ls[l] \in Ends
        /\ wire[l].fwd \in Seq(Msgs) /\ wire[l].bwd \in Seq(Msgs)
        /\ ls[l].fwd \in Seq(Msgs) /\ ls[l].bwd \in Seq(Msgs)
    BY DEF IInv, TypeInv, Ends
  <1>2. <<>> \in Seq(Msgs) /\ Elems(<<>>) = {}
    BY DEF Elems
  <1>3. fault' = "none" /\ UNCHANGED rcv
    BY DEF RankInv, reqep_join, repep_join, Break, reqep_term, repep_term, reqep_add, msgVars, netVars
  <1>4. \A m : Held(m)' => Held(m) \/ m \in N
    <2>1. CASE reqep_join(l) \/ repep_join(l)
      <3>1. UNCHANGED <<wire, ls, rcv>>
        BY <2>1 DEF reqep_join, repep_join, msgVars
      <3>2. QED BY <3>1 DEF Held, Elems
    <2>2. CASE Break(l)
      <3>1. PICK f \in 0 .. Len(wire[l].fwd), b \in 0 .. Len(wire[l].bwd) :
              wire' = [wire EXCEPT ![l] = [fwd |-> SubSeq(@.fwd, 1, f), bwd |-> SubSeq(@.bwd, 1, b)]]
        BY <2>2 DEF Break
      <3> DEFINE x == SubSeq(wire[l].fwd, 1, f)
                 y == SubSeq(wire[l].bwd, 1, b)
      <3>2. Elems(x) \subseteq Elems(wire[l].fwd) /\ Elems(y) \subseteq Elems(wire[l].bwd)
        BY <1>1, Cut
      <3>3. wire' = [wire EXCEPT ![l] = [fwd |-> x, bwd |-> y]] /\ UNCHANGED <<ls, rcv>>
        BY <2>2, <3>1 DEF Break
      <3> HIDE DEF x, y
      <3>4. \A j \in Links : /\ Elems(wire'[j].fwd) \subseteq Elems(wire[j].fwd) \cup N
                             /\ Elems(wire'[j].bwd) \subseteq Elems(wire[j].bwd) \cup N
        BY <1>1, <3>2, <3>3
      <3>5. QED BY <3>3, <3>4, HeldMore
    <2>3. CASE reqep_term(l)
      <3>1. wire' = [wire EXCEPT ![l].bwd = <<>>] /\ ls' = [ls EXCEPT ![l].fwd = <<>>] /\ UNCHANGED rcv
        BY <2>3 DEF reqep_term
      <3>2. /\ \A j \in Links : /\ Elems(wire'[j].fwd) \subseteq Elems(wire[j].fwd) \cup N
                                /\ Elems(wire'[j].bwd) \subseteq Elems(wire[j].bwd) \cup N
            /\ \A j \in Links : /\ Elems(ls'[j].fwd) \subseteq Elems(ls[j].fwd) \cup N
                                /\ Elems(ls'[j].bwd) \subseteq Elems(ls[j].bwd) \cup N
        BY <1>1, <1>2, <3>1, QueueStep
      <3>3. QED BY <3>1, <3>2, HeldMore
    <2>4. CASE repep_term(l)
      <3>1. wire' = [wire EXCEPT ![l].fwd = <<>>] /\ ls' = [ls EXCEPT ![l].bwd = <<>>] /\ UNCHANGED rcv
        BY <2>4 DEF repep_term
      <3>2. /\ \A j \in Links : /\ Elems(wire'[j].fwd) \subseteq Elems(wire[j].fwd) \cup N
                                /\ Elems(wire'[j].bwd) \subseteq Elems(wire[j].bwd) \cup N
            /\ \A j \in Links : /\ Elems(ls'[j].fwd) \subseteq Elems(ls[j].fwd) \cup N
                                /\ Elems(ls'[j].bwd) \subseteq Elems(ls[j].bwd) \cup N
        BY <1>1, <1>2, <3>1, QueueStep
      <3>3. QED BY <3>1, <3>2, HeldMore
    <2>5. CASE reqep_add(l)
      <3> DEFINE t == Tail(wire[l].bwd)
      <3>1. wire' = [wire EXCEPT ![l].bwd = t] /\ UNCHANGED <<ls, rcv>> /\ wire[l].bwd # <<>>
        BY <2>5 DEF reqep_add
      <3>2. t \in Seq(Msgs) /\ Elems(t) \subseteq Elems(wire[l].bwd)
        BY <1>1, <3>1, TailElems
      <3> HIDE DEF t
      <3>3. \A j \in Links : /\ Elems(wire'[j].fwd) \subseteq Elems(wire[j].fwd) \cup N
                             /\ Elems(wire'[j].bwd) \subseteq Elems(wire[j].bwd) \cup N
        BY <1>1, <3>1, <3>2, QueueStep
      <3>4. QED BY <3>1, <3>3, HeldMore
    <2>6. QED BY <2>1, <2>2, <2>3, <2>4, <2>5
  <1>5. QED BY <1>3, <1>4, RankKept

\* A server or the front of a proxy receives a request.
LEMMA RankReceive ==
  ASSUME NEW rank, IsRank(rank), RankInv(rank), IInv, NEW l \in Links, receiver_add(l) \/ repep_add(l)
  PROVE  RankInv(rank)'
  <1> DEFINE m == Head(wire[l].fwd)
             t == Tail(wire[l].fwd)
  <1>1. /\ TypeInv /\ wire \in [Links -> Ends] /\ ls \in [Links -> Ends] /\ wire[l].fwd \in Seq(Msgs)
        /\ wire[l].bwd \in Seq(Msgs) /\ wire[l].fwd # <<>> /\ wire' = [wire EXCEPT ![l].fwd = t]
    BY DEF IInv, TypeInv, Ends, receiver_add, repep_add
  <1>2. t \in Seq(Msgs) /\ Elems(t) \subseteq Elems(wire[l].fwd) /\ m \in Elems(wire[l].fwd) /\ m \in Msgs
    BY <1>1, TailElems
  <1>3. Held(m) /\ Path(m, Dst[l])
    BY <1>2 DEF Held, IInv, RankInv, OnPath
  <1>4. fault' = "none"
    <2>1. m.h.ttl \in 1 .. Len(m.h.rt) /\ m.h \in Hdrs
      BY <1>2, <1>3, PathTyped
    <2>2. m.h.ttl >= 1
      BY <2>1 DEF Hdrs
    <2>3. QED BY <2>2 DEF receiver_add, repep_add, Asserts, RankInv
  <1> PICK N : N = {m}
    OBVIOUS
  <1>5. \A j \in Links : /\ Elems(wire'[j].fwd) \subseteq Elems(wire[j].fwd) \cup N
                         /\ Elems(wire'[j].bwd) \subseteq Elems(wire[j].bwd) \cup N
    <2> HIDE DEF m, t
    <2>1. QED BY <1>1, <1>2, QueueStep
  <1>6. \A x : Held(x)' => Held(x) \/ x \in N
    <2>1. CASE repep_add(l)
      <3>1. UNCHANGED ls /\ rcv' = [rcv EXCEPT ![Dst[l]] = @ \cup {m}]
        BY <2>1 DEF repep_add
      <3>2. \A s \in Servers : rcv'[s] \subseteq rcv[s] \cup N
        BY <1>1, <3>1 DEF TypeInv
      <3>3. QED BY <1>5, <3>1, <3>2, HeldMore
    <2>2. CASE receiver_add(l) /\ UNCHANGED ls
      <3>1. UNCHANGED <<ls, rcv>>
        BY <2>2 DEF receiver_add
      <3>2. QED BY <1>5, <3>1, HeldMore
    <2>3. CASE receiver_add(l) /\ ls' # ls
      <3>1. /\ Dst[l] \in Clients \cup Proxies /\ rr[Dst[l]] # <<>> /\ UNCHANGED rcv
            /\ ls' = [ls EXCEPT ![Selected(Dst[l])].fwd = Append(@, m)]
        BY <2>3 DEF receiver_add
      <3>2. PICK k \in Links : k = Selected(Dst[l])
        BY <1>1, <3>1, Turned
      <3> DEFINE q == Append(ls[k].fwd, m)
      <3>3. ls[k].fwd \in Seq(Msgs) /\ ls[k].bwd \in Seq(Msgs)
        BY <1>1 DEF Ends
      <3>4. q \in Seq(Msgs) /\ Elems(q) \subseteq Elems(ls[k].fwd) \cup N
        BY <1>2, <3>3, Appended
      <3>5. ls' = [ls EXCEPT ![k].fwd = q]
        BY <3>1, <3>2
      <3> HIDE DEF q
      <3>6. \A j \in Links : /\ Elems(ls'[j].fwd) \subseteq Elems(ls[j].fwd) \cup N
                             /\ Elems(ls'[j].bwd) \subseteq Elems(ls[j].bwd) \cup N
        BY <1>1, <3>3, <3>4, <3>5, QueueStep
      <3>7. QED BY <1>5, <3>1, <3>6, HeldMore
    <2>4. QED BY <2>1, <2>2, <2>3
  <1>7. QED BY <1>2, <1>3, <1>4, <1>6, RankKept DEF RankInv

\* Messages that go on: what a step takes from one queue, changed or not, it puts to another.
LEMMA RankGoOn ==
  ASSUME NEW rank, IsRank(rank), RankInv(rank), IInv, NEW l \in Links,
         receiver_rm(l) \/ dispatcher_rm(l)
  PROVE  RankInv(rank)'
  <1>1. /\ wire \in [Links -> Ends] /\ ls \in [Links -> Ends] /\ wire[l].fwd \in Seq(Msgs)
        /\ wire[l].bwd \in Seq(Msgs) /\ ls[l].fwd \in Seq(Msgs) /\ ls[l].bwd \in Seq(Msgs)
    BY DEF IInv, TypeInv, Ends
  <1>2. UNCHANGED rcv /\ OnPath
    BY DEF receiver_rm, dispatcher_rm, IInv, RankInv
  <1>3. CASE receiver_rm(l)
    <2> DEFINE m == Head(ls[l].bwd)
               t == Tail(ls[l].bwd)
               q == Append(wire[l].bwd, m)
    <2>1. /\ ls[l].bwd # <<>> /\ ls' = [ls EXCEPT ![l].bwd = t] /\ Back(l, m) /\ fault' = "none"
      BY <1>3 DEF receiver_rm, RankInv
    <2>2. t \in Seq(Msgs) /\ Elems(t) \subseteq Elems(ls[l].bwd) /\ m \in Elems(ls[l].bwd) /\ m \in Msgs
      BY <1>1, <2>1, TailElems
    <2> PICK N : N = {m}
      OBVIOUS
    <2>3. q \in Seq(Msgs) /\ Elems(q) \subseteq Elems(wire[l].bwd) \cup N
      BY <1>1, <2>2, Appended
    <2>4. Held(m)
      BY <2>2 DEF Held
    <2>5. wire' = wire \/ wire' = [wire EXCEPT ![l].bwd = q]
      BY <2>1, Zenon DEF Back
    <2> HIDE DEF m, t, q
    <2>6. \A j \in Links : /\ Elems(wire'[j].fwd) \subseteq Elems(wire[j].fwd) \cup N
                           /\ Elems(wire'[j].bwd) \subseteq Elems(wire[j].bwd) \cup N
      <3>1. CASE wire' = wire
        BY <3>1
      <3>2. CASE wire' = [wire EXCEPT ![l].bwd = q]
        BY <1>1, <2>3, <3>2, QueueStep
      <3>3. QED BY <2>5, <3>1, <3>2
    <2>7. \A j \in Links : /\ Elems(ls'[j].fwd) \subseteq Elems(ls[j].fwd) \cup N
                           /\ Elems(ls'[j].bwd) \subseteq Elems(ls[j].bwd) \cup N
      BY <1>1, <2>1, <2>2, QueueStep
    <2>8. \A x : Held(x)' => Held(x) \/ x \in N
      BY <1>2, <2>6, <2>7, HeldMore
    <2>9. QED BY <2>1, <2>2, <2>4, <2>8, RankKept DEF RankInv
  <1>4. CASE dispatcher_rm(l)
    <2> DEFINE m == Head(ls[l].fwd)
               t == Tail(ls[l].fwd)
               n == [m EXCEPT !.h = rt_append(@, l)]
               q == Append(wire[l].fwd, n)
    <2>1. /\ ls[l].fwd # <<>> /\ ls' = [ls EXCEPT ![l].fwd = t] /\ Forward(l, n)
          /\ rt_append(m.h, l).ttl >= 1 => fault' = "none"
      BY <1>4 DEF dispatcher_rm, RankInv, Asserts
    <2>2. t \in Seq(Msgs) /\ Elems(t) \subseteq Elems(ls[l].fwd) /\ m \in Elems(ls[l].fwd) /\ m \in Msgs
      BY <1>1, <2>1, TailElems
    <2>3. Held(m) /\ Path(m, Src[l])
      BY <1>2, <2>2 DEF Held, OnPath
    <2>4. /\ m.h.ttl \in 1 .. Len(m.h.rt) /\ m.h \in Hdrs /\ rt_cur(m.h) \in Links
          /\ m.h.ttl \in Nat \ {0} /\ Len(m.h.rt) \in Nat
      <3>1. m.h.ttl \in 1 .. Len(m.h.rt) /\ m.h \in Hdrs /\ rt_cur(m.h) \in Links
        BY <2>2, <2>3, PathTyped
      <3>2. QED BY <3>1 DEF Hdrs
    <2>5. /\ rank[Src[l]] \in 0 .. TtlMod - 1 /\ rank[Dst[l]] \in 0 .. TtlMod - 1
          /\ rank[Src[l]] < rank[Dst[l]] /\ TtlMod \in Nat
          /\ rank[Src[rt_cur(m.h)]] \in 0 .. TtlMod - 1
      BY <2>4, ReqRepAssumption DEF IsRank, Nodes
    <2>6. rank[Src[rt_cur(m.h)]] >= m.h.ttl - 1
      <3>1. \A k \in 1 .. m.h.ttl : rank[Src[m.h.rt[k]]] >= k - 1
        BY <2>2, <2>3 DEF RankInv, Ranked
      <3>2. m.h.ttl \in 1 .. m.h.ttl
        BY <2>4
      <3> HIDE DEF m
      <3>3. QED BY <3>1, <3>2 DEF rt_cur
    <2>7. rank[Src[rt_cur(m.h)]] < rank[Src[l]]
      <3>1. Hop(Src[rt_cur(m.h)], Src[l])
        BY <2>3 DEF Path
      <3>2. QED BY <3>1 DEF Hop, IsRank
    <2>8. rank[Src[l]] >= m.h.ttl /\ m.h.ttl + 1 < TtlMod
      BY SMTT(60), <2>4, <2>5, <2>6, <2>7
    <2>9. rt_append(m.h, l) \in Hdrs /\ rt_append(m.h, l).ttl = m.h.ttl + 1
      <3>1. (m.h.ttl + 1) % TtlMod = m.h.ttl + 1
        <4>1. m.h.ttl + 1 \in 0 .. TtlMod - 1 /\ TtlMod \in Nat \ {0}
          BY SMTT(60), <2>4, <2>5, <2>8
        <4>2. \A x \in 0 .. TtlMod - 1 : x % TtlMod = x
          BY <4>1
        <4>3. QED BY <4>1, <4>2
      <3>2. rt_append(m.h, l).ttl = m.h.ttl + 1
        BY <2>4, <3>1 DEF rt_append, Hdrs
      <3>3. QED BY <2>4, <3>2, AppendedHdr
    <2>10. fault' = "none"
      BY <2>1, <2>4, <2>9
    <2>11. n \in Msgs /\ Ranked(rank, n)
      <3>1. n.h = rt_append(m.h, l) /\ n \in Msgs
        BY <2>2, <2>9 DEF Msgs
      <3>2. /\ n.h.ttl = m.h.ttl + 1 /\ n.h.rt[n.h.ttl] = l
            /\ \A k \in 1 .. m.h.ttl : n.h.rt[k] = m.h.rt[k]
        <4>1. PICK h : h = m.h
          OBVIOUS
        <4>2. h \in Hdrs /\ h.ttl \in 1 .. Len(h.rt) /\ h.ttl >= 1
          BY <2>4, <4>1
        <4>3. PICK g : g = rt_append(h, l)
          OBVIOUS
        <4>4. n.h = g /\ g.ttl = h.ttl + 1 /\ g.ttl >= 1
          BY <2>9, <3>1, <4>1, <4>2, <4>3
        <4>5. g.rt[g.ttl] = l /\ \A k \in 1 .. h.ttl : g.rt[k] = h.rt[k]
          BY <4>2, <4>3, <4>4, AppendedHdr
        <4>6. QED BY <4>1, <4>4, <4>5
      <3>3. \A k \in 1 .. m.h.ttl : rank[Src[m.h.rt[k]]] >= k - 1
        BY <2>2, <2>3 DEF RankInv, Ranked
      <3>4. \A k \in 1 .. m.h.ttl + 1 : k \in 1 .. m.h.ttl \/ k = m.h.ttl + 1
        BY <2>4
      <3>5. rank[Src[n.h.rt[m.h.ttl + 1]]] >= (m.h.ttl + 1) - 1
        <4>1. n.h.rt[m.h.ttl + 1] = l
          <5> HIDE DEF m, n
          <5>1. QED BY <3>2
        <4>2. rank[Src[l]] >= (m.h.ttl + 1) - 1
          <5> HIDE DEF m
          <5>1. QED BY <2>4, <2>5, <2>8
        <4> HIDE DEF m, n
        <4>3. QED BY <4>1, <4>2
      <3> HIDE DEF m, n
      <3>6. QED BY <3>1, <3>2, <3>3, <3>4, <3>5 DEF Ranked
    <2> PICK N : N = {n}
      OBVIOUS
    <2>12. q \in Seq(Msgs) /\ Elems(q) \subseteq Elems(wire[l].fwd) \cup N
      <3> HIDE DEF n
      <3>1. QED BY <1>1, <2>11, Appended
    <2>13. wire' = wire \/ wire' = [wire EXCEPT ![l].fwd = q]
      BY <2>1, Zenon DEF Forward
    <2> HIDE DEF m, t, n, q
    <2>14. \A j \in Links : /\ Elems(wire'[j].fwd) \subseteq Elems(wire[j].fwd) \cup N
                            /\ Elems(wire'[j].bwd) \subseteq Elems(wire[j].bwd) \cup N
      <3>1. CASE wire' = wire
        BY <3>1
      <3>2. CASE wire' = [wire EXCEPT ![l].fwd = q]
        BY <1>1, <2>12, <3>2, QueueStep
      <3>3. QED BY <2>13, <3>1, <3>2
    <2>15. \A j \in Links : /\ Elems(ls'[j].fwd) \subseteq Elems(ls[j].fwd) \cup N
                            /\ Elems(ls'[j].bwd) \subseteq Elems(ls[j].bwd) \cup N
      BY <1>1, <2>1, <2>2, QueueStep
    <2>16. \A x : Held(x)' => Held(x) \/ x \in N
      BY <1>2, <2>14, <2>15, HeldMore
    <2>17. QED BY <2>10, <2>11, <2>16, RankKept
  <1>5. QED BY <1>3, <1>4

\* A server answers.
LEMMA RankAnswer ==
  ASSUME NEW rank, IsRank(rank), RankInv(rank), IInv, NEW s \in Servers, NEW m \in rcv[s], repep_send(s, m)
  PROVE  RankInv(rank)'
  <1> DEFINE h == [m.h EXCEPT !.go = FALSE]
             n == [m EXCEPT !.h = h]
  <1>1. /\ wire \in [Links -> Ends] /\ rcv' = [rcv EXCEPT ![s] = @ \ {m}] /\ m \in Msgs
        /\ UNCHANGED <<ls, fault>> /\ rcv \in [Servers -> SUBSET Msgs]
    BY DEF IInv, TypeInv, repep_send
  <1>2. n \in Msgs /\ n.h.ttl = m.h.ttl /\ n.h.rt = m.h.rt /\ Held(m)
    BY <1>1 DEF Msgs, Hdrs, Held
  <1>3. Ranked(rank, n)
    <2>1. Ranked(rank, m)
      BY <1>1, <1>2 DEF RankInv
    <2> HIDE DEF n
    <2>2. QED BY <1>2, <2>1 DEF Ranked
  <1>4. wire' = wire \/ \E l \in reps : wire' = [wire EXCEPT ![l].bwd = Append(@, n)]
    <2>1. wire' = wire \/ \E l \in Conns(s) : Back(l, n)
      BY DEF repep_send
    <2> HIDE DEF n
    <2>2. QED BY <2>1, Zenon DEF Back, Conns
  <1> PICK N : N = {n}
    OBVIOUS
  <1> HIDE DEF h, n
  <1>5. \A j \in Links : /\ Elems(wire'[j].fwd) \subseteq Elems(wire[j].fwd) \cup N
                         /\ Elems(wire'[j].bwd) \subseteq Elems(wire[j].bwd) \cup N
    <2>1. CASE wire' = wire
      BY <2>1
    <2>2. ASSUME NEW l \in reps, wire' = [wire EXCEPT ![l].bwd = Append(@, n)]
          PROVE  \A j \in Links : /\ Elems(wire'[j].fwd) \subseteq Elems(wire[j].fwd) \cup N
                                  /\ Elems(wire'[j].bwd) \subseteq Elems(wire[j].bwd) \cup N
      <3> DEFINE q == Append(wire[l].bwd, n)
      <3>1. l \in Links /\ wire[l].fwd \in Seq(Msgs) /\ wire[l].bwd \in Seq(Msgs)
        BY <1>1, <2>2 DEF IInv, TypeInv, Ends
      <3>2. q \in Seq(Msgs) /\ Elems(q) \subseteq Elems(wire[l].bwd) \cup N
        BY <1>2, <3>1, Appended
      <3> HIDE DEF q
      <3>3. wire' = [wire EXCEPT ![l].bwd = q]
        BY <2>2 DEF q
      <3>4. QED BY <1>1, <3>1, <3>2, <3>3, QueueStep
    <2>3. QED BY <1>4, <2>1, <2>2
  <1>6. \A x \in Servers : rcv'[x] \subseteq rcv[x] \cup N
    BY <1>1
  <1>7. \A x : Held(x)' => Held(x) \/ x \in N
    BY <1>1, <1>5, <1>6, HeldMore
  <1>8. QED BY <1>1, <1>3, <1>7, RankKept DEF RankInv

\* The back of a proxy takes a reply.
LEMMA RankBack ==
  ASSUME NEW rank, IsRank(rank), RankInv(rank), IInv, NEW l \in Links, dispatcher_add(l)
  PROVE  RankInv(rank)'
  <1> DEFINE m == Head(wire[l].bwd)
             t == Tail(wire[l].bwd)
             n == [m EXCEPT !.h = Popped(@)]
  <1>1. /\ TypeInv /\ wire \in [Links -> Ends] /\ ls \in [Links -> Ends] /\ wire[l].fwd \in Seq(Msgs)
        /\ wire[l].bwd \in Seq(Msgs) /\ wire[l].bwd # <<>> /\ wire' = [wire EXCEPT ![l].bwd = t]
        /\ Src[l] \in Proxies /\ UNCHANGED rcv
    BY DEF IInv, TypeInv, Ends, dispatcher_add
  <1>2. t \in Seq(Msgs) /\ Elems(t) \subseteq Elems(wire[l].bwd) /\ m \in Elems(wire[l].bwd) /\ m \in Msgs
    BY <1>1, TailElems
  <1>3. Held(m) /\ Path(m, Dst[l]) /\ Src[rt_cur(m.h)] = Src[l]
    BY <1>2 DEF Held, IInv, RankInv, OnPath
  <1>4. owner[m.id] \in Clients
    <2>1. m.id \in At(<<"wb", l>>) /\ <<"wb", l>> \in Place /\ m.id \in Reqs
      BY <1>2, PlaceOf DEF Ids, Msgs
    <2>2. owner[m.id] # None
      BY <2>1 DEF IInv, Tokens
    <2>3. QED BY <1>1, <2>1, <2>2 DEF TypeInv, A!TypeOK
  <1>5. m.h.ttl >= 2 /\ Popped(m.h) \in Hdrs
    BY <1>1, <1>2, <1>3, <1>4, PathPopped
  <1>6. fault' = "none"
    BY <1>5 DEF dispatcher_add, Asserts, RankInv
  <1>7. n \in Msgs /\ n.h = Popped(m.h)
    BY <1>2, <1>5 DEF Msgs
  <1>8. Ranked(rank, n)
    <2>1. m.h \in Hdrs /\ m.h.ttl \in 2 .. TtlMod - 1 /\ TtlMod \in Nat \ {0}
      BY <1>2, <1>5, ReqRepAssumption DEF Msgs, Hdrs
    <2>2. (m.h.ttl - 1) % TtlMod = m.h.ttl - 1
      <3>1. \A x \in 0 .. TtlMod - 1 : x % TtlMod = x
        BY <2>1
      <3>2. m.h.ttl - 1 \in 0 .. TtlMod - 1
        BY <2>1
      <3>3. QED BY <3>1, <3>2
    <2>3. n.h.ttl = m.h.ttl - 1 /\ n.h.rt = m.h.rt
      BY <1>7, <2>1, <2>2 DEF Popped, Hdrs
    <2>4. \A k \in 1 .. m.h.ttl : rank[Src[m.h.rt[k]]] >= k - 1
      BY <1>2, <1>3 DEF RankInv, Ranked
    <2>5. \A k \in 1 .. m.h.ttl - 1 : k \in 1 .. m.h.ttl
      BY <2>1
    <2> HIDE DEF m, n
    <2>6. QED BY <2>3, <2>4, <2>5 DEF Ranked
  <1> PICK N : N = {n}
    OBVIOUS
  <1>9. ls' = ls \/ \E k \in reps : ls' = [ls EXCEPT ![k].bwd = Append(@, n)]
    BY DEF dispatcher_add, route_backward, Conns
  <1> HIDE DEF m, t, n
  <1>10. \A j \in Links : /\ Elems(ls'[j].fwd) \subseteq Elems(ls[j].fwd) \cup N
                          /\ Elems(ls'[j].bwd) \subseteq Elems(ls[j].bwd) \cup N
    <2>1. CASE ls' = ls
      BY <2>1
    <2>2. ASSUME NEW k \in reps, ls' = [ls EXCEPT ![k].bwd = Append(@, n)]
          PROVE  \A j \in Links : /\ Elems(ls'[j].fwd) \subseteq Elems(ls[j].fwd) \cup N
                                  /\ Elems(ls'[j].bwd) \subseteq Elems(ls[j].bwd) \cup N
      <3> DEFINE q == Append(ls[k].bwd, n)
      <3>1. k \in Links /\ ls[k].fwd \in Seq(Msgs) /\ ls[k].bwd \in Seq(Msgs)
        BY <1>1, <2>2 DEF TypeInv, Ends
      <3>2. q \in Seq(Msgs) /\ Elems(q) \subseteq Elems(ls[k].bwd) \cup N
        BY <1>7, <3>1, Appended
      <3> HIDE DEF q
      <3>3. ls' = [ls EXCEPT ![k].bwd = q]
        BY <2>2 DEF q
      <3>4. QED BY <1>1, <3>1, <3>2, <3>3, QueueStep
    <2>3. QED BY <1>9, <2>1, <2>2
  <1>11. \A j \in Links : /\ Elems(wire'[j].fwd) \subseteq Elems(wire[j].fwd) \cup N
                          /\ Elems(wire'[j].bwd) \subseteq Elems(wire[j].bwd) \cup N
    BY <1>1, <1>2, QueueStep
  <1>12. \A x : Held(x)' => Held(x) \/ x \in N
    BY <1>1, <1>10, <1>11, HeldMore
  <1>13. QED BY <1>6, <1>8, <1>12, RankKept

\* A client sends.
LEMMA RankSend ==
  ASSUME NEW rank, IsRank(rank), RankInv(rank), IInv, NEW c \in Clients, NEW r \in Reqs, reqep_send(c, r)
  PROVE  RankInv(rank)'
  <1>1. /\ TypeInv /\ HdrInv /\ wire \in [Links -> Ends] /\ UNCHANGED <<ls, rcv, fault>> /\ rr[c] # <<>>
    BY DEF IInv, TypeInv, reqep_send, RankInv
  <1>2. PICK l \in Links : l = Selected(c) /\ Src[l] = c
    BY <1>1, Turned
  <1>3. PICK h : h = IF hdr[r] = None THEN new_rrhdr(l) ELSE hdr[r]
    OBVIOUS
  <1> DEFINE n == [id |-> r, h |-> h]
             q == Append(wire[l].fwd, n)
  <1>4. wire' = wire \/ wire' = [wire EXCEPT ![l].fwd = q]
    <2>1. wire' = wire \/ Forward(l, n)
      BY <1>2, <1>3 DEF reqep_send
    <2>2. QED BY <2>1, Zenon DEF Forward
  <1>5. h \in Hdrs /\ h.ttl = 1 /\ h.rt[1] \in Links
    <2>1. CASE hdr[r] = None
      <3>1. h = [ttl |-> 1, rt |-> <<l>>, go |-> TRUE] /\ <<l>> \in Seq(Links) /\ <<l>>[1] = l
        BY <1>3, <2>1 DEF new_rrhdr
      <3>2. 1 \in 0 .. TtlMod - 1
        BY ReqRepAssumption
      <3>3. QED BY <3>1, <3>2 DEF Hdrs
    <2>2. CASE hdr[r] # None
      <3>1. h \in Hdrs /\ h.ttl = 1 /\ Len(h.rt) >= 1
        BY <1>1, <1>3, <2>2 DEF TypeInv, HdrInv
      <3>2. h.rt \in Seq(Links)
        BY <3>1 DEF Hdrs
      <3>3. QED BY <3>1, <3>2
    <2>3. QED BY <2>1, <2>2
  <1>6. n \in Msgs /\ n.h = h
    BY <1>5 DEF Msgs
  <1> HIDE DEF n
  <1>7. Ranked(rank, n)
    <2>1. rank[Src[h.rt[1]]] \in 0 .. TtlMod - 1 /\ TtlMod \in Nat
      BY <1>5, ReqRepAssumption DEF IsRank, Nodes
    <2>2. \A k \in 1 .. 1 : k = 1
      OBVIOUS
    <2>3. rank[Src[h.rt[1]]] >= 1 - 1
      BY <2>1
    <2>4. QED BY <1>5, <1>6, <2>2, <2>3 DEF Ranked
  <1> PICK N : N = {n}
    OBVIOUS
  <1>8. q \in Seq(Msgs) /\ Elems(q) \subseteq Elems(wire[l].fwd) \cup N
        /\ wire[l].fwd \in Seq(Msgs) /\ wire[l].bwd \in Seq(Msgs)
    <2>1. wire[l].fwd \in Seq(Msgs) /\ wire[l].bwd \in Seq(Msgs)
      BY <1>1 DEF Ends
    <2>2. QED BY <1>6, <2>1, Appended
  <1> HIDE DEF q
  <1>9. \A j \in Links : /\ Elems(wire'[j].fwd) \subseteq Elems(wire[j].fwd) \cup N
                         /\ Elems(wire'[j].bwd) \subseteq Elems(wire[j].bwd) \cup N
    <2>1. CASE wire' = wire
      BY <2>1
    <2>2. CASE wire' = [wire EXCEPT ![l].fwd = q]
      BY <1>1, <1>8, <2>2, QueueStep
    <2>3. QED BY <1>4, <2>1, <2>2
  <1>10. \A x : Held(x)' => Held(x) \/ x \in N
    BY <1>1, <1>9, HeldMore
  <1>11. QED BY <1>1, <1>7, <1>10, RankKept DEF RankInv

LEMMA RankNext ==
  ASSUME NEW rank, IsRank(rank), RankInv(rank), IInv, [Next]_vars
  PROVE  RankInv(rank)'
  <1>1. CASE UNCHANGED vars
    <2>1. UNCHANGED <<wire, ls, rcv, fault>>
      BY <1>1 DEF vars, msgVars
    <2>2. \A m : Held(m)' => Held(m) \/ m \in {}
      BY <2>1 DEF Held, Elems
    <2>3. QED BY <2>1, <2>2, RankKept DEF RankInv
  <1>2. ASSUME NEW p \in Proxies, epbase_proxyto(p) PROVE RankInv(rank)'
    <2>1. UNCHANGED <<wire, ls, rcv, fault>>
      BY <1>2 DEF epbase_proxyto, msgVars
    <2>2. \A m : Held(m)' => Held(m) \/ m \in {}
      BY <2>1 DEF Held, Elems
    <2>3. QED BY <2>1, <2>2, RankKept DEF RankInv
  <1>3. CASE Moves
    BY <1>3, RankLoss, RankReceive, RankGoOn, RankAnswer, RankBack DEF Moves
  <1>4. CASE Asks
    BY <1>4, RankSend DEF Asks
  <1>5. CASE Changes
    BY <1>2, <1>5, RankLoss DEF Changes
  <1>6. QED BY <1>1, <1>3, <1>4, <1>5 DEF Next

\* Where no way through the network is longer than a ttl can count, every message is on
\* the path its stack tells, and no assertion on the ttl fails (rr.h:75, 85).
THEOREM RoutesSound == Shallow => (Spec => []RouteSound)
  <1> SUFFICES ASSUME Shallow PROVE Spec => []RouteSound
    OBVIOUS
  <1>1. PICK rank : IsRank(rank)
    BY DEF Shallow, IsRank
  <1>2. Init => RankInv(rank)
    <2> SUFFICES ASSUME Init PROVE RankInv(rank)
      OBVIOUS
    <2>1. Elems(<<>>) = {}
      BY DEF Elems
    <2>2. \A l \in Links : /\ wire[l].fwd = <<>> /\ wire[l].bwd = <<>>
                           /\ ls[l].fwd = <<>> /\ ls[l].bwd = <<>>
      BY DEF Init
    <2>3. \A m : ~ Held(m)
      BY <2>1, <2>2 DEF Held, Init
    <2>4. QED BY <2>3 DEF RankInv, Init
  <1>3. IInv /\ RankInv(rank) /\ [Next]_vars => RankInv(rank)'
    BY <1>1, RankNext
  <1>4. IInv /\ RankInv(rank) => RouteSound
    BY DEF IInv, RankInv, RouteSound
  <1>5. QED BY <1>2, <1>3, <1>4, TokensOnPaths, PTL DEF Spec

=============================================================================
