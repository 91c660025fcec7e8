---------------------------- MODULE Xpoll_proofs ----------------------------
(* Proofs about Xpoll, for any number of threads, sockets, entries and      *)
(* events.                                                                  *)
EXTENDS Xpoll, FiniteSetTheorems, TLAPS

----------------------------------------------------------------------------
(* The inductive invariant.                                                 *)

\* A thread that emits; one that makes an entry; one in a call on a socket; one with
\* an entry of its own.
Emits(x) == x.pc \in {"emit", "apply", "eput"}
Makes(x) == x.pc \in {"fill", "attach"}
OnSock(x) ==
  \/ x.back = "unref" \/ Emits(x) \/ Makes(x)
  \/ x.pc \in {"add", "added", "broken", "mod", "modev", "modset", "modput", "rm", "xclose"}
OnEntry(x) ==
  \/ Makes(x) \/ x.pc \in {"modev", "modset", "modput"}
  \/ Emits(x) /\ x.eback = "modput"
  \/ x.back = "unref" /\ x.pc # "walk"

\* The fields of a thread agree with its place.
Shape(x) ==
  /\ OnSock(x) => x.s \in Socks
  /\ x.pc \in {"apply", "eput", "rmput"} => x.cur \in Entries
  /\ x.e # None <=> OnEntry(x)
  /\ x.back = "unref" => x.pc \in {"walk", "rm", "rmput", "ret", "unref"}
  /\ x.pc \in {"walk", "unref"} => x.back = "unref"
  /\ x.back = "close" => x.pc \in {"close", "rmput", "ret2"}
  /\ x.pc \in {"close", "ret2"} => x.back = "close"
Shaped == {x \in Local : Shape(x)}

TypeInv ==
  /\ lru \in Seq(Entries) /\ pollref \in Int /\ pclosed \in BOOLEAN
  /\ live \subseteq Entries /\ ref \in [Entries -> Nat]
  /\ fdof \in [Entries -> Socks \cup {None}]
  /\ events \in [Entries -> SUBSET Events] /\ happened \in [Entries -> SUBSET Events]
  /\ atts \in [Socks -> Seq(Entries)] /\ cond \in [Socks -> SUBSET Events]
  /\ life \in [Socks -> {"open", "closing", "closed"}]
  /\ lock \in [Socks -> Threads \cup {None}]
  /\ th \in [Threads -> Shaped]

\* A list has an entry once.
Once(q) == \A i, j \in DOMAIN q : q[i] = q[j] => i = j

\* The lists of entries, and the entries' descriptors.
ListInv ==
  /\ Once(lru) /\ \A s \in Socks : Once(atts[s])
  /\ \A e \in On(lru) : fdof[e] \in Socks
  /\ \A s \in Socks : \A e \in On(atts[s]) : fdof[e] = s
  /\ \A t \in Threads :
       Makes(th[t]) \/ th[t].pc = "modev" => fdof[th[t].e] = th[t].s

\* An entry that is being made is that of one thread, and not on a socket yet.
MakeInv == \A t \in Threads : Makes(th[t]) =>
  /\ \A s \in Socks : th[t].e \notin On(atts[s])
  /\ \A u \in Threads : th[u].back = "unref" => th[t].e \notin On(th[u].todo)
  /\ \A u \in Threads : Makes(th[u]) /\ th[u].e = th[t].e => u = t
  /\ th[t].pc = "fill" => happened[th[t].e] = {}

\* The lock of a socket is that of the thread that emits; it has found what the socket is
\* ready for, and what it has still to visit is attached.
LockInv ==
  /\ \A s \in Socks : \A t \in Threads : lock[s] = t <=> Emits(th[t]) /\ th[t].s = s
  /\ \A t \in Threads : Emits(th[t]) =>
       /\ th[t].hap = cond[th[t].s]
       /\ Once(th[t].todo) /\ On(th[t].todo) \subseteq On(atts[th[t].s])
       /\ th[t].pc = "apply" => th[t].cur \in On(atts[th[t].s]) \ On(th[t].todo)

\* A socket that is closed has no entries left, and gets none.
LifeInv ==
  /\ \A s \in Socks : life[s] # "open" => Adding(s) = {}
  /\ \A s \in Socks : life[s] = "closed" => atts[s] = <<>>
  /\ \A t \in Threads : th[t].pc = "xclose" \/ th[t].back = "unref" => life[th[t].s] # "open"
  /\ \A t \in Threads : th[t].back = "unref" => atts[th[t].s] = <<>> /\ Once(th[t].todo)

\* The thread that closes the poll is one.
CloserInv == \A t \in Threads : th[t].back = "close" =>
  pclosed /\ \A u \in Threads : th[u].back = "close" => u = t

\* A listed entry of an open socket is attached, but for one that is being made.
AttachInv == \A e \in On(lru) :
  \/ life[fdof[e]] # "open" \/ e \in On(atts[fdof[e]])
  \/ \E t \in Threads : Makes(th[t]) /\ th[t].e = e

\* The references of an entry are its holders.
RefInv == \A e \in Entries : ref[e] = Holders(e) /\ (e \in live <=> ref[e] > 0)

\* What is not exact will be: a thread is about to emit, or the one that emits has the
\* entry before it; and what that has read of the entry is what holds, or a thread that
\* changed it is about to emit.
Due(s) == \E t \in Threads : th[t].s = s /\ th[t].pc \in {"added", "modset", "broken"}
Visits(t, e) == Emits(th[t]) /\ (e \in On(th[t].todo) \/ (th[t].pc = "apply" /\ th[t].cur = e))
ExactInv ==
  /\ \A s \in Socks : \A e \in On(atts[s]) \cap On(lru) :
       \/ Due(s) \/ happened[e] = cond[s] \cap events[e]
       \/ \E t \in Threads : th[t].s = s /\ Visits(t, e)
  /\ \A t \in Threads : th[t].pc = "apply" =>
       Due(th[t].s) \/ th[t].ev = cond[th[t].s] \cap events[th[t].cur]

\* A new entry that nothing was emitted to since it was filled: the thread that adds it,
\* or one that adds another of its socket, has still to emit.
Brings(t, e) ==
  \/ Makes(th[t]) \/ th[t].pc = "added" \/ (th[t].eback = "ret" /\ Visits(t, e))
Raw(e) == \E t \in Threads : th[t].s = fdof[e] /\ Brings(t, e)

\* Entries that are not ready are behind those that are.
Before(q, x, y) == \E i, j \in DOMAIN q : i < j /\ q[i] = x /\ q[j] = y
OrderInv == \A x, y \in On(lru) :
  Before(lru, x, y) /\ happened[y] # {} => Raw(y) \/ happened[x] # {}
QuietInv == \A t \in Threads : At(t, "sleep") => \A e \in On(lru) : Raw(e) \/ happened[e] = {}

IInv ==
  /\ TypeInv /\ ListInv /\ MakeInv /\ LockInv /\ LifeInv /\ CloserInv /\ AttachInv
  /\ RefInv /\ PollRefs /\ ExactInv /\ OrderInv /\ QuietInv

----------------------------------------------------------------------------
(* Lists of entries.                                                        *)

LEMMA NoneOn == On(<<>>) = {} /\ Once(<<>>)
  BY DEF On, Once

LEMMA Appended ==
  ASSUME NEW q \in Seq(Entries), NEW e \in Entries
  PROVE  /\ Append(q, e) \in Seq(Entries)
         /\ On(Append(q, e)) = On(q) \cup {e}
         /\ Once(q) /\ e \notin On(q) => Once(Append(q, e))
         /\ \A x, y : Before(Append(q, e), x, y) => Before(q, x, y) \/ y = e
  <1>1. /\ Append(q, e) \in Seq(Entries) /\ DOMAIN Append(q, e) = 1 .. Len(q) + 1
        /\ \A k \in 1 .. Len(q) : Append(q, e)[k] = q[k]
        /\ Append(q, e)[Len(q) + 1] = e
        /\ DOMAIN q = 1 .. Len(q) /\ Len(q) \in Nat
    OBVIOUS
  <1>2. On(Append(q, e)) \subseteq On(q) \cup {e}
    BY <1>1 DEF On
  <1>3. On(q) \cup {e} \subseteq On(Append(q, e))
    BY <1>1 DEF On
  <1>4. ASSUME Once(q), e \notin On(q) PROVE Once(Append(q, e))
    BY <1>1, <1>4 DEF Once, On
  <1>5. ASSUME NEW x, NEW y, Before(Append(q, e), x, y), y # e PROVE Before(q, x, y)
    BY <1>1, <1>5 DEF Before
  <1>6. QED BY <1>1, <1>2, <1>3, <1>4, <1>5

LEMMA Pushed ==
  ASSUME NEW q \in Seq(Entries), NEW e \in Entries
  PROVE  /\ <<e>> \o q \in Seq(Entries)
         /\ On(<<e>> \o q) = On(q) \cup {e}
         /\ Once(q) /\ e \notin On(q) => Once(<<e>> \o q)
         /\ \A x, y : Before(<<e>> \o q, x, y) => Before(q, x, y) \/ x = e
  <1>1. /\ <<e>> \o q \in Seq(Entries) /\ DOMAIN (<<e>> \o q) = 1 .. Len(q) + 1
        /\ \A k \in 2 .. Len(q) + 1 : (<<e>> \o q)[k] = q[k - 1]
        /\ (<<e>> \o q)[1] = e
        /\ DOMAIN q = 1 .. Len(q) /\ Len(q) \in Nat
    OBVIOUS
  <1> DEFINE r == <<e>> \o q
  <1> HIDE DEF r
  <1>2. /\ r \in Seq(Entries) /\ DOMAIN r = 1 .. Len(q) + 1
        /\ \A k \in 2 .. Len(q) + 1 : r[k] = q[k - 1] /\ k - 1 \in DOMAIN q
        /\ r[1] = e
        /\ \A k \in DOMAIN q : k + 1 \in DOMAIN r /\ r[k + 1] = q[k]
    BY <1>1 DEF r
  <1>3. \A k \in DOMAIN r : k = 1 \/ (k \in 2 .. Len(q) + 1 /\ r[k] \in On(q))
    <2>1. ASSUME NEW k \in DOMAIN r, k # 1 PROVE k \in 2 .. Len(q) + 1
      BY <1>1, <1>2, <2>1
    <2>2. QED BY <1>2, <2>1 DEF On
  <1>4. On(r) \subseteq On(q) \cup {e}
    BY ZenonT(60), <1>2, <1>3 DEF On
  <1>5. On(q) \cup {e} \subseteq On(r)
    <2>1. e \in On(r)
      BY <1>1, <1>2 DEF On
    <2>2. ASSUME NEW x \in On(q) PROVE x \in On(r)
      BY <1>2 DEF On
    <2>3. QED BY <2>1, <2>2
  <1>6. ASSUME Once(q), e \notin On(q) PROVE Once(r)
    <2>1. SUFFICES ASSUME NEW i \in DOMAIN r, NEW j \in DOMAIN r, r[i] = r[j] PROVE i = j
      BY DEF Once
    <2>3. CASE i = 1 \/ j = 1
      BY <1>2, <1>6, <1>3, <2>1, <2>3
    <2>4. CASE i # 1 /\ j # 1
      <3>1. i - 1 \in DOMAIN q /\ j - 1 \in DOMAIN q /\ q[i - 1] = q[j - 1]
        BY <1>2, <1>3, <2>1, <2>4
      <3>2. i - 1 = j - 1
        BY <1>6, <3>1 DEF Once
      <3>3. QED BY <1>1, <1>2, <3>2
    <2>5. QED BY <2>3, <2>4
  <1>7. ASSUME NEW x, NEW y, Before(r, x, y), x # e PROVE Before(q, x, y)
    <2>1. PICK i, j \in DOMAIN r : i < j /\ r[i] = x /\ r[j] = y
      BY <1>7 DEF Before
    <2>2. i - 1 \in DOMAIN q /\ j - 1 \in DOMAIN q /\ q[i - 1] = x /\ q[j - 1] = y /\ i - 1 < j - 1
      BY <1>1, <1>2, <1>7, <2>1
    <2>3. QED BY <2>2 DEF Before
  <1>8. QED BY <1>2, <1>4, <1>5, <1>6, <1>7 DEF r

LEMMA Headed ==
  ASSUME NEW q \in Seq(Entries), q # <<>>
  PROVE  /\ Head(q) \in Entries /\ Head(q) \in On(q) /\ Tail(q) \in Seq(Entries)
         /\ On(Tail(q)) \subseteq On(q)
         /\ Once(q) => Once(Tail(q)) /\ On(Tail(q)) = On(q) \ {Head(q)}
         /\ \A y \in On(q) : y = Head(q) \/ Before(q, Head(q), y)
  <1>1. /\ Tail(q) \in Seq(Entries) /\ DOMAIN Tail(q) = 1 .. Len(q) - 1
        /\ \A k \in 1 .. Len(q) - 1 : Tail(q)[k] = q[k + 1]
        /\ DOMAIN q = 1 .. Len(q) /\ Len(q) \in Nat \ {0} /\ Head(q) = q[1] /\ q[1] \in Entries
    OBVIOUS
  <1>2. Once(q) => Once(Tail(q))
    BY <1>1 DEF Once
  <1>3. On(Tail(q)) \subseteq On(q)
    BY <1>1 DEF On
  <1>4. Once(q) => Head(q) \notin On(Tail(q))
    BY <1>1 DEF On, Once
  <1>5. ASSUME NEW y \in On(q), y # Head(q) PROVE y \in On(Tail(q)) /\ Before(q, Head(q), y)
    <2>1. PICK k \in DOMAIN q : y = q[k]
      BY DEF On
    <2>2. k - 1 \in DOMAIN Tail(q) /\ Tail(q)[k - 1] = y /\ 1 < k
      BY <1>1, <1>5, <2>1
    <2>3. QED BY <1>1, <2>1, <2>2 DEF On, Before
  <1>6. Head(q) \in On(q)
    BY <1>1 DEF On
  <1>7. QED BY <1>1, <1>2, <1>3, <1>4, <1>5, <1>6

\* list_del keeps the others, in their order.
LEMMA Removed ==
  ASSUME NEW q \in Seq(Entries), NEW e
  PROVE  /\ Without(q, e) \in Seq(Entries)
         /\ On(Without(q, e)) \subseteq On(q)
         /\ Once(q) => /\ Once(Without(q, e)) /\ On(Without(q, e)) = On(q) \ {e}
                       /\ \A x, y : Before(Without(q, e), x, y) => Before(q, x, y)
  <1>1. CASE e \notin On(q)
    BY <1>1 DEF Without
  <1>2. CASE e \in On(q)
    <2> DEFINE k == CHOOSE i \in DOMAIN q : q[i] = e
               w == Without(q, e)
    <2>1. k \in DOMAIN q /\ q[k] = e
      BY <1>2 DEF On
    <2>2. w = [i \in 1 .. Len(q) - 1 |-> q[IF i < k THEN i ELSE i + 1]]
      BY <1>2 DEF Without
    <2> HIDE DEF k, w
    <2>3. DOMAIN q = 1 .. Len(q) /\ Len(q) \in Nat /\ \A i \in DOMAIN q : q[i] \in Entries
      OBVIOUS
    <2>4. /\ DOMAIN w = 1 .. Len(q) - 1 /\ w \in Seq(Entries)
          /\ \A i \in DOMAIN w : w[i] = q[IF i < k THEN i ELSE i + 1]
      <3>1. Len(q) - 1 \in Nat
        BY <2>1, <2>3
      <3>2. w \in [1 .. Len(q) - 1 -> Entries]
        BY <2>1, <2>2, <2>3
      <3>3. QED BY <2>2, <3>1, <3>2
    <2>5. On(w) \subseteq On(q)
      BY SMTT(60), <2>1, <2>3, <2>4 DEF On
    <2>6. ASSUME Once(q) PROVE /\ Once(w) /\ e \notin On(w)
                               /\ \A x, y : Before(w, x, y) => Before(q, x, y)
      <3>1. Once(w) /\ e \notin On(w)
        BY SMTT(60), <2>1, <2>3, <2>4, <2>6 DEF Once, On
      <3>2. ASSUME NEW x, NEW y, Before(w, x, y) PROVE Before(q, x, y)
        <4>1. PICK i, j \in DOMAIN w : i < j /\ w[i] = x /\ w[j] = y
          BY <3>2 DEF Before
        <4>2. /\ (IF i < k THEN i ELSE i + 1) \in DOMAIN q
              /\ (IF j < k THEN j ELSE j + 1) \in DOMAIN q
              /\ (IF i < k THEN i ELSE i + 1) < (IF j < k THEN j ELSE j + 1)
          BY <2>1, <2>3, <2>4, <4>1
        <4>3. QED BY <2>4, <4>1, <4>2 DEF Before
      <3>3. QED BY <3>1, <3>2
    <2>7. ASSUME NEW x \in On(q), x # e PROVE x \in On(w)
      <3>1. PICK i \in DOMAIN q : x = q[i]
        BY DEF On
      <3>2. CASE i < k
        BY <2>1, <2>3, <2>4, <3>1, <3>2 DEF On
      <3>3. CASE i > k
        <4>1. i - 1 \in DOMAIN w /\ w[i - 1] = x
          BY <2>1, <2>3, <2>4, <3>1, <3>3
        <4>2. QED BY <4>1 DEF On
      <3>4. i # k
        BY <2>1, <2>7, <3>1
      <3>5. QED BY <2>1, <2>3, <3>1, <3>2, <3>3, <3>4
    <2>8. QED BY <2>4, <2>5, <2>6, <2>7 DEF w
  <1>3. QED BY <1>1, <1>2

----------------------------------------------------------------------------
(* Types.                                                                   *)

LEMMA Threading == TypeInv => \A t \in Threads : th[t] \in Local /\ Shape(th[t])
  BY DEF TypeInv, Shaped

LEMMA Gone ==
  ASSUME TypeInv, NEW t \in Threads, NEW r \in Local, r.pc # "idle" => Shape(r), Goes(t, r)
  PROVE  /\ th' \in [Threads -> Shaped] /\ \A u \in Threads \ {t} : th'[u] = th[u]
         /\ IF r.pc = "idle" THEN th'[t] = Idle ELSE th'[t] = r
  <1>1. Idle \in Local /\ Shape(Idle)
    BY DEF Idle, Local, Pcs, Shape, OnSock, OnEntry, Emits, Makes
  <1>2. QED BY <1>1 DEF TypeInv, Goes, Shaped

LEMMA TypesEmit ==
  ASSUME TypeInv, NEW t \in Threads, NEW s \in Socks, NEW found \in SUBSET Events,
         NEW eback \in {"idle", "ret", "modput"}, Emit(t, s, eback, found),
         th[t].back = "idle",
         eback = "modput" <=> OnEntry(th[t])
  PROVE  /\ th' \in [Threads -> Shaped] /\ lock' \in [Socks -> Threads \cup {None}]
         /\ \A u \in Threads \ {t} : th'[u] = th[u]
         /\ th'[t] = [th[t] EXCEPT !.pc = "emit", !.s = s, !.eback = eback,
                                   !.hap = found, !.todo = atts[s]]
         /\ th'[t].pc = "emit" /\ th'[t].s = s /\ th'[t].e = th[t].e /\ th'[t].todo = atts[s]
  <1> DEFINE r == [th[t] EXCEPT !.pc = "emit", !.s = s, !.eback = eback,
                                !.hap = found, !.todo = atts[s]]
  <1>1. th[t] \in Local /\ Shape(th[t]) /\ atts[s] \in Seq(Entries)
    BY Threading DEF TypeInv
  <1>2. r \in Local /\ r.pc = "emit" /\ r.s = s /\ r.e = th[t].e /\ r.eback = eback /\ r.back = th[t].back
     /\ r.todo = atts[s]
    BY ZenonT(60), <1>1 DEF Local, Pcs
  <1>3. Shape(r)
    BY <1>1, <1>2 DEF Shape, OnSock, OnEntry, Emits, Makes
  <1>4. QED BY ZenonT(60), <1>2, <1>3, Gone DEF Emit, TypeInv

\* poll_entry_put is all that a step does to the entries.
LEMMA Puts ==
  ASSUME TypeInv, NEW e \in Entries, poll_entry_put(e)
  PROVE  /\ live' \subseteq Entries /\ ref' \in [Entries -> Nat]
         /\ fdof' \in [Entries -> Socks \cup {None}]
         /\ events' \in [Entries -> SUBSET Events] /\ happened' \in [Entries -> SUBSET Events]
         /\ pollref' \in Int
  <1>1. pollref' \in Int
    BY DEF TypeInv, poll_entry_put, poll_put
  <1>2. CASE ref[e] > 1
    <2>1. ref' = [ref EXCEPT ![e] = @ - 1] /\ UNCHANGED <<live, fdof, events, happened>>
      BY <1>2 DEF poll_entry_put, Unref
    <2>2. ref' \in [Entries -> Nat]
      BY <1>2, <2>1 DEF TypeInv
    <2>3. QED BY <1>1, <2>1, <2>2 DEF TypeInv
  <1>3. CASE ~ ref[e] > 1
    <2>1. /\ live' = live \ {e} /\ ref' = [ref EXCEPT ![e] = 0]
          /\ fdof' = [fdof EXCEPT ![e] = None] /\ events' = [events EXCEPT ![e] = {}]
          /\ happened' = [happened EXCEPT ![e] = {}]
      BY <1>3 DEF poll_entry_put, Unref
    <2>2. QED BY <1>1, <2>1 DEF TypeInv
  <1>4. QED BY <1>2, <1>3

LEMMA TypesBegin ==
  ASSUME TypeInv, NEW t \in Threads, Begin(t)
  PROVE  TypeInv'
  <1>1. th[t] \in Local /\ Shape(th[t])
    BY Threading
  <1>2. ASSUME NEW s \in Socks, Change(t, s) PROVE TypeInv'
    <2>1. PICK c \in Finds : cond' = [cond EXCEPT ![s] = c] /\ Emit(t, s, "idle", cond'[s])
      BY <1>2 DEF Change
    <2>2. cond' \in [Socks -> SUBSET Events] /\ cond'[s] \in SUBSET Events
      BY <2>1, XpollAssumption DEF TypeInv
    <2>3. th[t].back = "idle" /\ ~ OnEntry(th[t])
      BY <1>1, <1>2 DEF Change, At, Local, Shape, OnEntry, Emits, Makes
    <2>4. th' \in [Threads -> Shaped] /\ lock' \in [Socks -> Threads \cup {None}]
      BY <2>1, <2>2, <2>3, TypesEmit
    <2>5. QED BY <1>2, <2>2, <2>4 DEF Change, TypeInv, pollVars, entVars
  <1>3. ASSUME NEW s \in Socks, Break(t, s) PROVE TypeInv'
    <2>1. th' \in [Threads -> Shaped]
      BY ZenonT(60), <1>1, <1>3, Gone DEF Break, Local, Pcs, At, Shape, OnSock, OnEntry, Emits, Makes
    <2>2. cond' \in [Socks -> SUBSET Events]
      <3>1. PICK c \in Finds : cond' = [cond EXCEPT ![s] = c]
        BY <1>3 DEF Break
      <3>2. QED BY <3>1, XpollAssumption DEF TypeInv
    <2>3. QED BY <1>3, <2>1, <2>2 DEF Break, TypeInv, pollVars, entVars
  <1>4. ASSUME NEW s \in Socks \cup {None}, NEW pc \in {"add", "mod", "ret", "rm", "wait"},
               pc \in {"add", "mod", "rm"} => s \in Socks, Call(t, s, pc)
        PROVE  TypeInv'
    <2>1. th' \in [Threads -> Shaped]
      BY ZenonT(60), <1>1, <1>4, Gone DEF Call, Local, Pcs, At, Shape, OnSock, OnEntry, Emits, Makes
    <2>2. QED BY <1>4, <2>1 DEF Call, poll_get, TypeInv, entVars, sockVars
  <1>5. ASSUME NEW s \in Socks, xclose(t, s) PROVE TypeInv'
    <2>1. th' \in [Threads -> Shaped]
      BY ZenonT(60), <1>1, <1>5, Gone DEF xclose, Local, Pcs, At, Shape, OnSock, OnEntry, Emits, Makes
    <2>2. QED BY <1>5, <2>1 DEF xclose, TypeInv, pollVars, entVars
  <1>6. ASSUME xpoll_close(t) PROVE TypeInv'
    <2>1. th' \in [Threads -> Shaped]
      BY ZenonT(60), <1>1, <1>6, Gone DEF xpoll_close, Local, Pcs, At, Shape, OnSock, OnEntry, Emits, Makes
    <2>2. QED BY <1>6, <2>1 DEF xpoll_close, poll_get, TypeInv, entVars, sockVars
  <1>7. QED BY <1>2, <1>3, <1>4, <1>5, <1>6 DEF Begin, CallAdd, CallMod, CallRm, CallWait

LEMMA TypesEmission ==
  ASSUME TypeInv, NEW t \in Threads,
         \/ EmitRead(t) \/ EmitDetached(t) \/ EmitPut(t) \/ xpollbase_emit(t) \/ EmitEnd(t)
         \/ EmitBroken(t) \/ EmitAdded(t) \/ EmitModified(t)
  PROVE  TypeInv'
  <1>1. th[t] \in Local /\ Shape(th[t])
    BY Threading
  <1>2. CASE EmitRead(t)
    <2>1. Head(th[t].todo) \in Entries /\ Tail(th[t].todo) \in Seq(Entries)
      BY <1>1, <1>2, Headed DEF EmitRead, Local
    <2>2. th' \in [Threads -> Shaped]
      BY <1>1, <1>2, <2>1, Gone
      DEF EmitRead, Emitted, Local, Pcs, At, Shape, OnSock, OnEntry, Emits, Makes
    <2>3. QED BY <1>2, <2>2 DEF EmitRead, TypeInv, pollVars, entVars, sockVars
  <1>3. CASE EmitDetached(t)
    <2>1. th' \in [Threads -> Shaped]
      BY <1>1, <1>3, Gone DEF EmitDetached, To, Local, Pcs, At, Shape, OnSock, OnEntry, Emits, Makes
    <2>2. th[t].s \in Socks /\ atts[th[t].s] \in Seq(Entries)
      BY <1>1, <1>3 DEF EmitDetached, TypeInv, At, Shape, OnSock, Emits
    <2>3. atts' \in [Socks -> Seq(Entries)]
      BY <1>3, <2>2, Removed DEF EmitDetached, TypeInv
    <2>4. QED BY <1>3, <2>1, <2>3 DEF EmitDetached, TypeInv, pollVars, entVars
  <1>4. CASE EmitPut(t)
    <2>1. th' \in [Threads -> Shaped]
      BY <1>1, <1>4, Gone DEF EmitPut, To, Local, Pcs, At, Shape, OnSock, OnEntry, Emits, Makes
    <2>2. th[t].cur \in Entries
      BY <1>1, <1>4 DEF EmitPut, At, Shape
    <2>3. QED BY <1>4, <2>1, <2>2, Puts DEF EmitPut, TypeInv, sockVars
  <1>5. CASE xpollbase_emit(t)
    <2>1. th[t].cur \in Entries /\ th[t].ev \in SUBSET Events /\ lru \in Seq(Entries)
      BY <1>1, <1>5 DEF xpollbase_emit, At, Shape, Local, TypeInv
    <2>2. Without(lru, th[t].cur) \in Seq(Entries)
      BY <2>1, Removed
    <2>3. lru' \in Seq(Entries)
      BY <1>5, <2>1, <2>2, Appended, Pushed DEF xpollbase_emit, Moved
    <2>4. [th[t] EXCEPT !.pc = "emit"] \in Shaped
      BY <1>1, <1>5 DEF xpollbase_emit, At, Shaped, Local, Pcs, Shape, OnSock, OnEntry, Emits, Makes
    <2>5. ASSUME NEW u \in Threads, u \in Woken(th[t].ev) PROVE [th[u] EXCEPT !.pc = "ret"] \in Shaped
      <3>1. th[u] \in Local /\ Shape(th[u]) /\ th[u].pc = "sleep"
        BY <2>5, Threading DEF Woken, At
      <3>2. QED BY <3>1 DEF Shaped, Local, Pcs, Shape, OnSock, OnEntry, Emits, Makes
    <2>6. th' \in [Threads -> Shaped]
      BY <1>5, <2>4, <2>5 DEF xpollbase_emit, TypeInv
    <2>7. happened' \in [Entries -> SUBSET Events]
      BY <1>5, <2>1 DEF xpollbase_emit, TypeInv
    <2>8. QED BY <1>5, <2>3, <2>6, <2>7 DEF xpollbase_emit, TypeInv, sockVars
  <1>6. CASE EmitEnd(t)
    <2>1. th' \in [Threads -> Shaped]
      BY <1>1, <1>6, Gone DEF EmitEnd, Local, Pcs, At, Shape, OnSock, OnEntry, Emits, Makes
    <2>2. QED BY <1>6, <2>1 DEF EmitEnd, TypeInv, pollVars, entVars
  <1>7. ASSUME NEW from \in {"added", "modset", "broken"}, NEW eback \in {"idle", "ret", "modput"},
               from = "modset" <=> eback = "modput", emit_pollevents(t, from, eback)
        PROVE  TypeInv'
    <2>1. th[t].s \in Socks /\ cond[th[t].s] \in SUBSET Events /\ th[t].back = "idle"
      BY <1>1, <1>7 DEF emit_pollevents, TypeInv, At, Shape, OnSock, Local
    <2>2. eback = "modput" <=> OnEntry(th[t])
      BY <1>1, <1>7, <2>1 DEF emit_pollevents, At, OnEntry, Makes, Emits
    <2>3. th' \in [Threads -> Shaped] /\ lock' \in [Socks -> Threads \cup {None}]
      BY <1>7, <2>1, <2>2, TypesEmit DEF emit_pollevents
    <2>4. QED BY <1>7, <2>3 DEF emit_pollevents, TypeInv, pollVars, entVars
  <1>8. QED BY <1>2, <1>3, <1>4, <1>5, <1>6, <1>7 DEF EmitBroken, EmitAdded, EmitModified

LEMMA TypesCalls ==
  ASSUME TypeInv, NEW t \in Threads,
         \/ add_poll_entry(t) \/ AddFails(t) \/ Fill(t) \/ add_pollbase(t)
         \/ rm_poll_entry(t) \/ RmPut(t) \/ Return(t) \/ get_poll_entry(t) \/ xpoll_mod(t)
         \/ ModPut(t) \/ xpoll_wait(t) \/ Timeout(t)
  PROVE  TypeInv'
  <1>1. th[t] \in Local /\ Shape(th[t])
    BY Threading
  <1>2. CASE add_poll_entry(t)
    <2>1. PICK e \in Entries \ live :
            /\ live' = live \cup {e} /\ ref' = [ref EXCEPT ![e] = NewRef]
            /\ fdof' = [fdof EXCEPT ![e] = th[t].s] /\ events' = [events EXCEPT ![e] = {}]
            /\ happened' = [happened EXCEPT ![e] = {}] /\ lru' = Append(lru, e)
            /\ Goes(t, [th[t] EXCEPT !.pc = "fill", !.e = e])
      BY <1>2 DEF add_poll_entry
    <2>2. th' \in [Threads -> Shaped]
      <3>1. e # None /\ th[t].pc = "add"
        BY <1>2, XpollAssumption DEF add_poll_entry, At
      <3>2. QED BY <1>1, <2>1, <3>1, Gone DEF Local, Pcs, Shape, OnSock, OnEntry, Emits, Makes
    <2>3. lru' \in Seq(Entries)
      BY <2>1, Appended DEF TypeInv
    <2>4. th[t].s \in Socks
      BY <1>1, <1>2 DEF add_poll_entry, At, Shape, OnSock
    <2>5. /\ ref' \in [Entries -> Nat] /\ live' \subseteq Entries /\ fdof' \in [Entries -> Socks \cup {None}]
          /\ events' \in [Entries -> SUBSET Events] /\ happened' \in [Entries -> SUBSET Events]
      BY <2>1, <2>4 DEF NewRef, TypeInv
    <2>6. pollref' = pollref + 1 /\ UNCHANGED <<pclosed, sockVars>>
      BY <1>2 DEF add_poll_entry, poll_get
    <2>7. QED BY <2>2, <2>3, <2>5, <2>6 DEF TypeInv, sockVars
  <1>3. CASE AddFails(t) \/ xpoll_wait(t) \/ Timeout(t)
    <2>1. PICK pc \in {"sleep", "ret"} : To(t, pc)
      BY <1>3 DEF AddFails, xpoll_wait, Timeout
    <2>2. th' \in [Threads -> Shaped]
      BY SMTT(60), <1>1, <1>3, <2>1, Gone
      DEF AddFails, xpoll_wait, Timeout, To, Local, Pcs, At, Shape, OnSock, OnEntry, Emits, Makes
    <2>3. QED BY <1>3, <2>2 DEF AddFails, xpoll_wait, Timeout, TypeInv, pollVars, entVars, sockVars
  <1>4. CASE Fill(t)
    <2>1. th' \in [Threads -> Shaped] /\ th[t].e \in Entries
      BY <1>1, <1>4, Gone DEF Fill, To, Local, Pcs, At, Shape, OnSock, OnEntry, Emits, Makes
    <2>2. events' \in [Entries -> SUBSET Events] /\ happened' \in [Entries -> SUBSET Events]
      BY <1>4, <2>1, XpollAssumption DEF Fill, TypeInv
    <2>3. QED BY <1>4, <2>1, <2>2 DEF Fill, TypeInv, pollVars, sockVars
  <1>5. CASE add_pollbase(t)
    <2>1. th' \in [Threads -> Shaped] /\ th[t].e \in Entries /\ th[t].s \in Socks
      BY ZenonT(60), <1>1, <1>5, Gone DEF add_pollbase, Local, Pcs, At, Shape, OnSock, OnEntry, Emits, Makes
    <2>2. atts' \in [Socks -> Seq(Entries)]
      BY <1>5, <2>1, Appended DEF add_pollbase, TypeInv
    <2>3. QED BY <1>5, <2>1, <2>2 DEF add_pollbase, TypeInv, pollVars, entVars
  <1>6. CASE rm_poll_entry(t)
    <2>1. CASE Registered(th[t].s) = {}
      <3>1. th' \in [Threads -> Shaped]
        BY <1>1, <1>6, <2>1, Gone
        DEF rm_poll_entry, To, Local, Pcs, At, Shape, OnSock, OnEntry, Emits, Makes
      <3>2. QED BY <1>6, <2>1, <3>1 DEF rm_poll_entry, TypeInv, entVars, sockVars
    <2>2. CASE Registered(th[t].s) # {}
      <3>1. PICK e \in Registered(th[t].s) :
              Unlist(e) /\ Goes(t, [th[t] EXCEPT !.pc = "rmput", !.cur = e])
        BY <1>6, <2>2 DEF rm_poll_entry
      <3>2. e \in Entries
        BY DEF Registered, On, TypeInv
      <3>3. th' \in [Threads -> Shaped]
        BY <1>1, <1>6, <3>1, <3>2, Gone
        DEF rm_poll_entry, Local, Pcs, At, Shape, OnSock, OnEntry, Emits, Makes
      <3>4. lru' \in Seq(Entries)
        BY <3>1, Removed DEF Unlist, TypeInv
      <3>5. QED BY <1>6, <3>3, <3>4 DEF rm_poll_entry, TypeInv, entVars, sockVars
    <2>3. QED BY <2>1, <2>2
  <1>7. CASE RmPut(t)
    <2>1. th' \in [Threads -> Shaped] /\ th[t].cur \in Entries
      BY ZenonT(60), <1>1, <1>7, Gone DEF RmPut, Local, Pcs, At, Shape, OnSock, OnEntry, Emits, Makes
    <2>2. QED BY <1>7, <2>1, Puts DEF RmPut, TypeInv, sockVars
  <1>8. CASE Return(t)
    <2>1. th' \in [Threads -> Shaped]
      BY <1>1, <1>8, Gone DEF Return, To, Local, Pcs, At, Shape, OnSock, OnEntry, Emits, Makes
    <2>2. QED BY <1>8, <2>1 DEF Return, poll_put, TypeInv, entVars, sockVars
  <1>9. CASE get_poll_entry(t)
    <2>1. CASE Registered(th[t].s) = {}
      <3>1. th' \in [Threads -> Shaped]
        BY <1>1, <1>9, <2>1, Gone
        DEF get_poll_entry, To, Local, Pcs, At, Shape, OnSock, OnEntry, Emits, Makes
      <3>2. QED BY <1>9, <2>1, <3>1 DEF get_poll_entry, TypeInv, pollVars, sockVars
    <2>2. CASE Registered(th[t].s) # {}
      <3>1. PICK e \in Registered(th[t].s) :
              /\ ref' = [ref EXCEPT ![e] = @ + 1]
              /\ Goes(t, [th[t] EXCEPT !.pc = "modev", !.e = e])
        BY <1>9, <2>2 DEF get_poll_entry
      <3>2. e \in Entries
        BY DEF Registered, On, TypeInv
      <3>3. th' \in [Threads -> Shaped]
        BY ZenonT(60), <1>1, <1>9, <3>1, <3>2, Gone, XpollAssumption
        DEF get_poll_entry, Local, Pcs, At, Shape, OnSock, OnEntry, Emits, Makes
      <3>4. ref' \in [Entries -> Nat]
        BY <3>1, <3>2 DEF TypeInv
      <3>5. QED BY <1>9, <3>3, <3>4 DEF get_poll_entry, TypeInv, pollVars, sockVars
    <2>3. QED BY <2>1, <2>2
  <1>10. CASE xpoll_mod(t)
    <2>1. th' \in [Threads -> Shaped] /\ th[t].e \in Entries
      BY <1>1, <1>10, Gone DEF xpoll_mod, To, Local, Pcs, At, Shape, OnSock, OnEntry, Emits, Makes
    <2>2. events' \in [Entries -> SUBSET Events]
      BY <1>10, <2>1, XpollAssumption DEF xpoll_mod, TypeInv
    <2>3. QED BY <1>10, <2>1, <2>2 DEF xpoll_mod, TypeInv, pollVars, sockVars
  <1>11. CASE ModPut(t)
    <2>1. th' \in [Threads -> Shaped] /\ th[t].e \in Entries
      BY <1>1, <1>11, Gone DEF ModPut, Local, Pcs, At, Shape, OnSock, OnEntry, Emits, Makes
    <2>2. QED BY <1>11, <2>1, Puts DEF ModPut, TypeInv, sockVars
  <1>12. QED BY <1>2, <1>3, <1>4, <1>5, <1>6, <1>7, <1>8, <1>9, <1>10, <1>11

LEMMA TypesClose ==
  ASSUME TypeInv, NEW t \in Threads,
         \/ CloseNext(t) \/ ClosePut(t) \/ __xclose(t) \/ xpollbase_close(t) \/ CloseUnref(t)
         \/ CloseEnd(t)
  PROVE  TypeInv'
  <1>1. th[t] \in Local /\ Shape(th[t])
    BY Threading
  <1>2. CASE CloseNext(t)
    <2>1. CASE lru = <<>>
      <3>1. th' \in [Threads -> Shaped]
        BY <1>1, <1>2, <2>1, Gone
        DEF CloseNext, To, Local, Pcs, At, Shape, OnSock, OnEntry, Emits, Makes
      <3>2. QED BY <1>2, <2>1, <3>1 DEF CloseNext, TypeInv, entVars, sockVars
    <2>2. CASE lru # <<>>
      <3>1. Head(lru) \in Entries /\ lru' \in Seq(Entries)
        BY <1>2, <2>2, Headed, Removed DEF CloseNext, Unlist, TypeInv
      <3>2. th' \in [Threads -> Shaped]
        BY ZenonT(60), <1>1, <1>2, <2>2, <3>1, Gone
        DEF CloseNext, Local, Pcs, At, Shape, OnSock, OnEntry, Emits, Makes
      <3>3. QED BY <1>2, <3>1, <3>2 DEF CloseNext, TypeInv, entVars, sockVars
    <2>3. QED BY <2>1, <2>2
  <1>3. CASE ClosePut(t)
    <2>1. th' \in [Threads -> Shaped]
      BY ZenonT(60), <1>1, <1>3, Gone DEF ClosePut, Local, Pcs, At, Shape, OnSock, OnEntry, Emits, Makes
    <2>2. QED BY <1>3, <2>1 DEF ClosePut, poll_put, TypeInv, entVars, sockVars
  <1>4. CASE __xclose(t)
    <2>1. th[t].s \in Socks /\ atts[th[t].s] \in Seq(Entries)
      BY <1>1, <1>4 DEF __xclose, At, TypeInv, Shape, OnSock
    <2>2. th' \in [Threads -> Shaped]
      BY ZenonT(60), <1>1, <1>4, <2>1, Gone DEF __xclose, Local, Pcs, At, Shape, OnSock, OnEntry, Emits, Makes
    <2>3. QED BY <1>4, <2>1, <2>2 DEF __xclose, Spliced, TypeInv, pollVars, entVars
  <1>5. CASE xpollbase_close(t)
    <2>1. Head(th[t].todo) \in Entries /\ Tail(th[t].todo) \in Seq(Entries)
      BY <1>1, <1>5, Headed DEF xpollbase_close, Local
    <2>2. th' \in [Threads -> Shaped]
      BY ZenonT(60), <1>1, <1>5, <2>1, Gone, XpollAssumption
      DEF xpollbase_close, Local, Pcs, At, Shape, OnSock, OnEntry, Emits, Makes
    <2>3. QED BY <1>5, <2>2 DEF xpollbase_close, poll_get, TypeInv, entVars, sockVars
  <1>6. CASE CloseUnref(t)
    <2>1. th' \in [Threads -> Shaped] /\ th[t].e \in Entries
      BY <1>1, <1>6, Gone DEF CloseUnref, Local, Pcs, At, Shape, OnSock, OnEntry, Emits, Makes
    <2>2. QED BY <1>6, <2>1, Puts DEF CloseUnref, TypeInv, sockVars
  <1>7. CASE CloseEnd(t)
    <2>1. th' \in [Threads -> Shaped] /\ th[t].s \in Socks
      BY <1>1, <1>7, Gone DEF CloseEnd, To, Local, Pcs, At, Shape, OnSock, OnEntry, Emits, Makes
    <2>2. QED BY <1>7, <2>1 DEF CloseEnd, TypeInv, pollVars, entVars
  <1>8. QED BY <1>2, <1>3, <1>4, <1>5, <1>6, <1>7

LEMMA TypesStep ==
  ASSUME TypeInv, [Next]_vars
  PROVE  TypeInv'
  <1>1. CASE UNCHANGED vars
    BY <1>1 DEF vars, pollVars, entVars, sockVars, TypeInv
  <1>2. CASE Next
    BY <1>2, TypesBegin, TypesEmission, TypesCalls, TypesClose DEF Next, Inside
  <1>3. QED BY <1>1, <1>2

----------------------------------------------------------------------------
(* What a step makes of its thread.                                         *)

Now(t, pc, s, e, cur, todo, hap, ev, back, eback) ==
  /\ th'[t].pc = pc /\ th'[t].s = s /\ th'[t].e = e /\ th'[t].cur = cur /\ th'[t].todo = todo
  /\ th'[t].hap = hap /\ th'[t].ev = ev /\ th'[t].back = back /\ th'[t].eback = eback
  /\ \A u \in Threads \ {t} : th'[u] = th[u]
NowAt(t, pc) ==
  Now(t, pc, th[t].s, th[t].e, th[t].cur, th[t].todo, th[t].hap, th[t].ev, th[t].back, th[t].eback)
NowIdle(t) == Now(t, "idle", None, None, None, <<>>, {}, {}, "idle", "idle")

LEMMA Tos ==
  ASSUME TypeInv, NEW t \in Threads, NEW pc \in Pcs \ {"idle"}, To(t, pc)
  PROVE  NowAt(t, pc)
  <1>1. th \in [Threads -> Local] /\ th[t] \in Local
    BY DEF TypeInv, Shaped
  <1>2. QED BY <1>1 DEF To, Goes, Local, NowAt, Now

LEMMA Idles ==
  ASSUME TypeInv, NEW t \in Threads, NEW r, r.pc = "idle", Goes(t, r)
  PROVE  NowIdle(t)
  BY DEF TypeInv, Goes, NowIdle, Now, Idle

LEMMA FxChange ==
  ASSUME TypeInv, NEW t \in Threads, NEW s, Change(t, s)
  PROVE  /\ Now(t, "emit", s, None, th[t].cur, atts[s], cond'[s], th[t].ev, "idle", "idle")
         /\ th[t].pc = "idle" /\ th[t].back = "idle" /\ th[t].e = None
         /\ lock[s] = None /\ lock' = [lock EXCEPT ![s] = t]
         /\ cond' \in {[cond EXCEPT ![s] = c] : c \in Finds}
         /\ UNCHANGED <<pollVars, entVars, atts, life>>
  <1>1. th \in [Threads -> Local] /\ th[t] \in Local /\ Shape(th[t]) /\ th[t].pc = "idle"
    BY Threading DEF TypeInv, Shaped, Change, At
  <1>2. th[t].back = "idle" /\ th[t].e = None
    BY <1>1 DEF Local, Shape, OnEntry, Emits, Makes
  <1>3. Emit(t, s, "idle", cond'[s])
    BY DEF Change
  <1>4. QED BY <1>1, <1>2, <1>3 DEF Emit, Goes, Change, Local, Now

LEMMA FxBreak ==
  ASSUME TypeInv, NEW t \in Threads, NEW s, Break(t, s)
  PROVE  /\ Now(t, "broken", s, None, th[t].cur, th[t].todo, th[t].hap, th[t].ev, "idle", th[t].eback)
         /\ th[t].pc = "idle" /\ th[t].back = "idle" /\ th[t].e = None
         /\ lock[s] = None /\ cond' \in {[cond EXCEPT ![s] = c] : c \in Finds}
         /\ UNCHANGED <<pollVars, entVars, atts, life, lock>>
  <1>1. th \in [Threads -> Local] /\ th[t] \in Local /\ Shape(th[t]) /\ th[t].pc = "idle"
    BY Threading DEF TypeInv, Shaped, Break, At
  <1>2. th[t].back = "idle" /\ th[t].e = None
    BY <1>1 DEF Local, Shape, OnEntry, Emits, Makes
  <1>3. QED BY <1>1, <1>2 DEF Goes, Break, Local, Now

LEMMA FxCall ==
  ASSUME TypeInv, NEW t \in Threads, NEW s, NEW pc \in {"add", "mod", "ret", "rm", "wait"}, Call(t, s, pc)
  PROVE  /\ Now(t, pc, s, None, th[t].cur, th[t].todo, th[t].hap, th[t].ev, "idle", th[t].eback)
         /\ th[t].pc = "idle" /\ th[t].back = "idle" /\ th[t].e = None
         /\ ~ pclosed /\ pollref' = pollref + 1
         /\ UNCHANGED <<lru, pclosed, entVars, sockVars>>
  <1>1. th \in [Threads -> Local] /\ th[t] \in Local /\ Shape(th[t]) /\ th[t].pc = "idle"
    BY Threading DEF TypeInv, Shaped, Call, At
  <1>2. th[t].back = "idle" /\ th[t].e = None
    BY <1>1 DEF Local, Shape, OnEntry, Emits, Makes
  <1>3. QED BY <1>1, <1>2 DEF Goes, Call, poll_get, Local, Now

LEMMA FxXclose ==
  ASSUME TypeInv, NEW t \in Threads, NEW s, xclose(t, s)
  PROVE  /\ Now(t, "xclose", s, None, th[t].cur, th[t].todo, th[t].hap, th[t].ev, "idle", th[t].eback)
         /\ th[t].pc = "idle" /\ th[t].back = "idle" /\ th[t].e = None
         /\ life[s] = "open" /\ Adding(s) = {} /\ life' = [life EXCEPT ![s] = "closing"]
         /\ UNCHANGED <<pollVars, entVars, atts, cond, lock>>
  <1>1. th \in [Threads -> Local] /\ th[t] \in Local /\ Shape(th[t]) /\ th[t].pc = "idle"
    BY Threading DEF TypeInv, Shaped, xclose, At
  <1>2. th[t].back = "idle" /\ th[t].e = None
    BY <1>1 DEF Local, Shape, OnEntry, Emits, Makes
  <1>3. QED BY <1>1, <1>2 DEF Goes, xclose, Local, Now

LEMMA FxPollClose ==
  ASSUME TypeInv, NEW t \in Threads, xpoll_close(t)
  PROVE  /\ Now(t, "close", th[t].s, None, th[t].cur, th[t].todo, th[t].hap, th[t].ev, "close", th[t].eback)
         /\ th[t].pc = "idle" /\ th[t].back = "idle" /\ th[t].e = None
         /\ ~ pclosed /\ pclosed' = TRUE /\ pollref' = pollref + 1
         /\ UNCHANGED <<lru, entVars, sockVars>>
  <1>1. th \in [Threads -> Local] /\ th[t] \in Local /\ Shape(th[t]) /\ th[t].pc = "idle"
    BY Threading DEF TypeInv, Shaped, xpoll_close, At
  <1>2. th[t].back = "idle" /\ th[t].e = None
    BY <1>1 DEF Local, Shape, OnEntry, Emits, Makes
  <1>3. QED BY <1>1, <1>2 DEF Goes, xpoll_close, poll_get, Local, Now

LEMMA FxEmitRead ==
  ASSUME TypeInv, NEW t \in Threads, EmitRead(t)
  PROVE  /\ Now(t, "apply", th[t].s, th[t].e, Head(th[t].todo), Tail(th[t].todo), th[t].hap,
                th[t].hap \cap events[Head(th[t].todo)], th[t].back, th[t].eback)
         /\ th[t].pc = "emit" /\ th[t].s \in Socks /\ th[t].todo # <<>> /\ th[t].todo \in Seq(Entries)
         /\ th[t].back = "idle"
         /\ UNCHANGED <<pollVars, entVars, sockVars>>
  <1>1. th \in [Threads -> Local] /\ th[t] \in Local /\ Shape(th[t]) /\ th[t].pc = "emit"
    BY Threading DEF TypeInv, Shaped, EmitRead, At
  <1>2. th[t].s \in Socks /\ th[t].todo # <<>> /\ th[t].todo \in Seq(Entries) /\ th[t].back = "idle"
    BY <1>1 DEF Shape, OnSock, Emits, EmitRead, Local
  <1>3. QED BY <1>1, <1>2 DEF Goes, EmitRead, Emitted, Local, Now

LEMMA FxDetached ==
  ASSUME TypeInv, NEW t \in Threads, EmitDetached(t)
  PROVE  /\ NowAt(t, "eput")
         /\ th[t].pc = "apply" /\ th[t].s \in Socks /\ th[t].cur \in Entries /\ th[t].back = "idle"
         /\ th[t].cur \notin On(lru)
         /\ atts' = [atts EXCEPT ![th[t].s] = Without(@, th[t].cur)]
         /\ UNCHANGED <<pollVars, entVars, cond, life, lock>>
  <1>1. th[t] \in Local /\ Shape(th[t]) /\ th[t].pc = "apply"
    BY Threading DEF TypeInv, Shaped, EmitDetached, At
  <1>2. th[t].s \in Socks /\ th[t].cur \in Entries /\ th[t].back = "idle"
    BY <1>1 DEF Shape, OnSock, Emits, Local
  <1>3. NowAt(t, "eput")
    BY Tos DEF EmitDetached, Pcs
  <1>4. QED BY <1>1, <1>2, <1>3 DEF EmitDetached

LEMMA FxEmitPut ==
  ASSUME TypeInv, NEW t \in Threads, EmitPut(t)
  PROVE  /\ NowAt(t, "emit")
         /\ th[t].pc = "eput" /\ th[t].s \in Socks /\ th[t].cur \in Entries /\ th[t].back = "idle"
         /\ poll_entry_put(th[t].cur)
         /\ UNCHANGED <<lru, pclosed, sockVars>>
  <1>1. th[t] \in Local /\ Shape(th[t]) /\ th[t].pc = "eput"
    BY Threading DEF TypeInv, Shaped, EmitPut, At
  <1>2. th[t].s \in Socks /\ th[t].cur \in Entries /\ th[t].back = "idle"
    BY <1>1 DEF Shape, OnSock, Emits, Local
  <1>3. NowAt(t, "emit")
    BY Tos DEF EmitPut, Pcs
  <1>4. QED BY <1>1, <1>2, <1>3 DEF EmitPut

\* The threads that an emission wakes change only their place.
OnlyTo(u, pc) ==
  /\ th'[u].pc = pc /\ th'[u].s = th[u].s /\ th'[u].e = th[u].e /\ th'[u].cur = th[u].cur
  /\ th'[u].todo = th[u].todo /\ th'[u].hap = th[u].hap /\ th'[u].ev = th[u].ev
  /\ th'[u].back = th[u].back /\ th'[u].eback = th[u].eback
LEMMA FxEmit ==
  ASSUME TypeInv, NEW t \in Threads, xpollbase_emit(t)
  PROVE  /\ OnlyTo(t, "emit")
         /\ \A u \in Threads \ {t} :
              \/ th[u].pc = "sleep" /\ th[t].ev # {} /\ OnlyTo(u, "ret")
              \/ ~ (th[u].pc = "sleep" /\ th[t].ev # {}) /\ th'[u] = th[u]
         /\ th[t].pc = "apply" /\ th[t].s \in Socks /\ th[t].cur \in On(lru) /\ th[t].back = "idle"
         /\ th[t].cur \in Entries /\ th[t].ev \in SUBSET Events
         /\ happened' = [happened EXCEPT ![th[t].cur] = th[t].ev]
         /\ lru' = Moved(th[t].cur, th[t].ev)
         /\ UNCHANGED <<pollref, pclosed, live, ref, fdof, events, sockVars>>
  <1>1. th[t] \in Local /\ Shape(th[t]) /\ th[t].pc = "apply"
    BY Threading DEF TypeInv, Shaped, xpollbase_emit, At
  <1>2. th[t].s \in Socks /\ th[t].cur \in Entries /\ th[t].back = "idle" /\ th[t].ev \in SUBSET Events
    BY <1>1 DEF Shape, OnSock, Emits, Local
  <1>3. th' = [u \in Threads |->
                  IF u = t THEN [th[t] EXCEPT !.pc = "emit"]
                  ELSE IF u \in Woken(th[t].ev) THEN [th[u] EXCEPT !.pc = "ret"]
                  ELSE th[u]]
    BY DEF xpollbase_emit
  <1>4. OnlyTo(t, "emit")
    BY <1>1, <1>3 DEF OnlyTo, Local
  <1>5. ASSUME NEW u \in Threads \ {t}, th[u].pc = "sleep" /\ th[t].ev # {} PROVE OnlyTo(u, "ret")
    <2>1. th[u] \in Local
      BY Threading
    <2>2. u \in Woken(th[t].ev)
      BY <1>5 DEF Woken, At
    <2>3. QED BY <1>3, <2>1, <2>2 DEF OnlyTo, Local
  <1>6. ASSUME NEW u \in Threads \ {t}, ~ (th[u].pc = "sleep" /\ th[t].ev # {}) PROVE th'[u] = th[u]
    BY <1>3, <1>6 DEF Woken, At
  <1>7. QED BY <1>1, <1>2, <1>4, <1>5, <1>6 DEF xpollbase_emit

LEMMA FxEmitEnd ==
  ASSUME TypeInv, NEW t \in Threads, EmitEnd(t)
  PROVE  /\ \/ th[t].eback = "idle" /\ NowIdle(t) /\ th[t].e = None
            \/ /\ th[t].eback \in {"ret", "modput"}
               /\ Now(t, th[t].eback, th[t].s, th[t].e, None, <<>>, {}, {}, "idle", th[t].eback)
         /\ th[t].pc = "emit" /\ th[t].s \in Socks /\ th[t].todo = <<>> /\ th[t].back = "idle"
         /\ lock' = [lock EXCEPT ![th[t].s] = None]
         /\ UNCHANGED <<pollVars, entVars, atts, cond, life>>
  <1>1. th \in [Threads -> Local] /\ th[t] \in Local /\ Shape(th[t]) /\ th[t].pc = "emit"
    BY Threading DEF TypeInv, Shaped, EmitEnd, At
  <1>2. th[t].s \in Socks /\ th[t].todo = <<>> /\ th[t].back = "idle"
    BY <1>1 DEF Shape, OnSock, Emits, EmitEnd, Local
  <1>3. CASE th[t].eback = "idle"
    <2>1. NowIdle(t) /\ th[t].e = None
      BY <1>1, <1>2, <1>3, Idles DEF EmitEnd, Local, Shape, OnEntry, Makes
    <2>2. QED BY <1>1, <1>2, <1>3, <2>1 DEF EmitEnd
  <1>4. CASE th[t].eback \in {"ret", "modput"}
    BY <1>1, <1>2, <1>4 DEF Goes, EmitEnd, Local, Now
  <1>5. QED BY <1>1, <1>3, <1>4 DEF Local

LEMMA FxPollevents ==
  ASSUME TypeInv, NEW t \in Threads, NEW from \in {"added", "modset", "broken"},
         NEW eback \in {"idle", "ret", "modput"}, emit_pollevents(t, from, eback)
  PROVE  /\ Now(t, "emit", th[t].s, th[t].e, th[t].cur, atts[th[t].s], cond[th[t].s], th[t].ev,
                "idle", eback)
         /\ th[t].pc = from /\ th[t].s \in Socks /\ th[t].back = "idle"
         /\ lock[th[t].s] = None /\ lock' = [lock EXCEPT ![th[t].s] = t]
         /\ UNCHANGED <<pollVars, entVars, atts, cond, life>>
  <1>1. th \in [Threads -> Local] /\ th[t] \in Local /\ Shape(th[t]) /\ th[t].pc = from
    BY Threading DEF TypeInv, Shaped, emit_pollevents, At
  <1>2. th[t].s \in Socks /\ th[t].back = "idle"
    BY <1>1 DEF Shape, OnSock, Emits, Local
  <1>3. QED BY <1>1, <1>2 DEF Emit, Goes, emit_pollevents, Local, Now

LEMMA FxAdd ==
  ASSUME TypeInv, NEW t \in Threads, add_poll_entry(t)
  PROVE  \E e \in Entries \ live :
           /\ Now(t, "fill", th[t].s, e, th[t].cur, th[t].todo, th[t].hap, th[t].ev, "idle", th[t].eback)
           /\ th[t].pc = "add" /\ th[t].s \in Socks /\ th[t].back = "idle" /\ th[t].e = None
           /\ Registered(th[t].s) = {} /\ e # None
           /\ live' = live \cup {e} /\ ref' = [ref EXCEPT ![e] = 2]
           /\ fdof' = [fdof EXCEPT ![e] = th[t].s] /\ events' = [events EXCEPT ![e] = {}]
           /\ happened' = [happened EXCEPT ![e] = {}] /\ lru' = Append(lru, e)
           /\ pollref' = pollref + 1 /\ UNCHANGED <<pclosed, sockVars>>
  <1>1. th \in [Threads -> Local] /\ th[t] \in Local /\ Shape(th[t]) /\ th[t].pc = "add"
    BY Threading DEF TypeInv, Shaped, add_poll_entry, At
  <1>2. th[t].s \in Socks /\ th[t].back = "idle" /\ th[t].e = None
    BY <1>1 DEF Shape, OnSock, OnEntry, Emits, Makes, Local
  <1>3. PICK e \in Entries \ live :
          /\ live' = live \cup {e} /\ ref' = [ref EXCEPT ![e] = NewRef]
          /\ fdof' = [fdof EXCEPT ![e] = th[t].s] /\ events' = [events EXCEPT ![e] = {}]
          /\ happened' = [happened EXCEPT ![e] = {}] /\ lru' = Append(lru, e)
          /\ Goes(t, [th[t] EXCEPT !.pc = "fill", !.e = e])
    BY DEF add_poll_entry
  <1>4. Now(t, "fill", th[t].s, e, th[t].cur, th[t].todo, th[t].hap, th[t].ev, "idle", th[t].eback)
    BY <1>1, <1>2, <1>3 DEF Goes, Local, Now
  <1>5. Registered(th[t].s) = {} /\ pollref' = pollref + 1 /\ UNCHANGED <<pclosed, sockVars>>
    BY DEF add_poll_entry, poll_get
  <1>6. e # None
    BY XpollAssumption
  <1>7. QED BY <1>1, <1>2, <1>3, <1>4, <1>5, <1>6 DEF NewRef

\* A call that gives up, one that waits, one that has waited.
LEMMA FxRet ==
  ASSUME TypeInv, NEW t \in Threads, AddFails(t) \/ xpoll_wait(t) \/ Timeout(t)
  PROVE  /\ \/ NowAt(t, "ret")
            \/ /\ NowAt(t, "sleep") /\ th[t].pc = "wait"
               /\ lru = <<>> \/ happened[Head(lru)] = {}
         /\ th[t].pc \in {"add", "wait", "sleep"} /\ th[t].back = "idle" /\ th[t].e = None
         /\ UNCHANGED <<pollVars, entVars, sockVars>>
  <1>1. th[t] \in Local /\ Shape(th[t]) /\ th[t].pc \in {"add", "wait", "sleep"}
    BY Threading DEF AddFails, xpoll_wait, Timeout, At
  <1>2. th[t].back = "idle" /\ th[t].e = None
    BY <1>1 DEF Shape, OnEntry, Emits, Makes, Local
  <1>3. CASE AddFails(t) \/ Timeout(t)
    BY <1>1, <1>2, <1>3, Tos DEF AddFails, Timeout, Pcs
  <1>4. CASE xpoll_wait(t)
    <2>1. PICK ready \in Ready, to \in {0, 1} : To(t, IF ~ready /\ to > 0 THEN "sleep" ELSE "ret")
      BY <1>4 DEF xpoll_wait
    <2>2. CASE ~ ready /\ to > 0
      <3>1. NowAt(t, "sleep")
        BY <2>1, <2>2, Tos DEF Pcs
      <3>2. lru = <<>> \/ happened[Head(lru)] = {}
        BY <2>2 DEF Ready
      <3>3. QED BY <1>1, <1>2, <1>4, <3>1, <3>2 DEF xpoll_wait, At
    <2>3. CASE ready \/ ~ to > 0
      <3>1. NowAt(t, "ret")
        BY <2>1, <2>3, Tos DEF Pcs
      <3>2. QED BY <1>1, <1>2, <1>4, <3>1 DEF xpoll_wait
    <2>4. QED BY <2>2, <2>3
  <1>5. QED BY <1>3, <1>4

LEMMA FxFill ==
  ASSUME TypeInv, NEW t \in Threads, Fill(t)
  PROVE  /\ NowAt(t, "attach")
         /\ th[t].pc = "fill" /\ th[t].s \in Socks /\ th[t].back = "idle" /\ th[t].e \in Entries
         /\ \E ev \in Asks, old \in Finds : /\ events' = [events EXCEPT ![th[t].e] = ev]
                                            /\ happened' = [happened EXCEPT ![th[t].e] = old]
         /\ UNCHANGED <<pollVars, live, ref, fdof, sockVars>>
  <1>1. th[t] \in Local /\ Shape(th[t]) /\ th[t].pc = "fill"
    BY Threading DEF Fill, At
  <1>2. th[t].s \in Socks /\ th[t].back = "idle" /\ th[t].e \in Entries
    BY <1>1 DEF Shape, OnSock, OnEntry, Makes, Local
  <1>3. NowAt(t, "attach")
    BY Tos DEF Fill, Pcs
  <1>4. QED BY <1>1, <1>2, <1>3 DEF Fill

LEMMA FxAttach ==
  ASSUME TypeInv, NEW t \in Threads, add_pollbase(t)
  PROVE  /\ Now(t, "added", th[t].s, None, th[t].cur, th[t].todo, th[t].hap, th[t].ev, "idle", th[t].eback)
         /\ th[t].pc = "attach" /\ th[t].s \in Socks /\ th[t].back = "idle" /\ th[t].e \in Entries
         /\ lock[th[t].s] = None
         /\ atts' = [atts EXCEPT ![th[t].s] = Append(@, th[t].e)]
         /\ UNCHANGED <<pollVars, entVars, cond, life, lock>>
  <1>1. th \in [Threads -> Local] /\ th[t] \in Local /\ Shape(th[t]) /\ th[t].pc = "attach"
    BY Threading DEF TypeInv, Shaped, add_pollbase, At
  <1>2. th[t].s \in Socks /\ th[t].back = "idle" /\ th[t].e \in Entries
    BY <1>1 DEF Shape, OnSock, OnEntry, Makes, Local
  <1>3. QED BY <1>1, <1>2 DEF add_pollbase, Goes, Local, Now

LEMMA FxRm ==
  ASSUME TypeInv, NEW t \in Threads, rm_poll_entry(t)
  PROVE  /\ \/ NowAt(t, "ret") /\ Registered(th[t].s) = {} /\ lru' = lru
            \/ \E e \in Registered(th[t].s) :
                 /\ Now(t, "rmput", th[t].s, th[t].e, e, th[t].todo, th[t].hap, th[t].ev,
                        th[t].back, th[t].eback)
                 /\ e \in Entries /\ e \in On(lru) /\ lru' = Without(lru, e)
         /\ th[t].pc = "rm" /\ th[t].s \in Socks /\ th[t].back \in {"idle", "unref"}
         /\ UNCHANGED <<pollref, pclosed, entVars, sockVars>>
  <1>1. th \in [Threads -> Local] /\ th[t] \in Local /\ Shape(th[t]) /\ th[t].pc = "rm"
    BY Threading DEF TypeInv, Shaped, rm_poll_entry, At
  <1>2. th[t].s \in Socks /\ th[t].back \in {"idle", "unref"}
    BY <1>1 DEF Shape, OnSock, Local
  <1>3. CASE Registered(th[t].s) = {}
    <2>1. NowAt(t, "ret")
      BY <1>3, Tos DEF rm_poll_entry, Pcs
    <2>2. QED BY <1>1, <1>2, <1>3, <2>1 DEF rm_poll_entry
  <1>4. CASE Registered(th[t].s) # {}
    <2>1. PICK e \in Registered(th[t].s) :
            Unlist(e) /\ Goes(t, [th[t] EXCEPT !.pc = "rmput", !.cur = e])
      BY <1>4 DEF rm_poll_entry
    <2>2. e \in Entries /\ e \in On(lru) /\ lru' = Without(lru, e)
      BY <2>1 DEF Unlist, Registered, On, TypeInv
    <2>3. Now(t, "rmput", th[t].s, th[t].e, e, th[t].todo, th[t].hap, th[t].ev, th[t].back, th[t].eback)
      BY <1>1, <2>1 DEF Goes, Local, Now
    <2>4. QED BY <1>1, <1>2, <2>2, <2>3 DEF rm_poll_entry
  <1>5. QED BY <1>3, <1>4

LEMMA FxRmPut ==
  ASSUME TypeInv, NEW t \in Threads, RmPut(t)
  PROVE  /\ \E pc \in {"close", "ret"} :
              /\ pc = "close" <=> th[t].back = "close"
              /\ Now(t, pc, th[t].s, th[t].e, None, th[t].todo, th[t].hap, th[t].ev,
                     th[t].back, th[t].eback)
         /\ th[t].pc = "rmput" /\ th[t].cur \in Entries
         /\ poll_entry_put(th[t].cur)
         /\ UNCHANGED <<lru, pclosed, sockVars>>
  <1>1. th \in [Threads -> Local] /\ th[t] \in Local /\ Shape(th[t]) /\ th[t].pc = "rmput"
    BY Threading DEF TypeInv, Shaped, RmPut, At
  <1>2. th[t].cur \in Entries
    BY <1>1 DEF Shape
  <1>3. PICK pc \in {"close", "ret"} :
              /\ pc = "close" <=> th[t].back = "close"
              /\ Goes(t, [th[t] EXCEPT !.pc = pc, !.cur = None])
    <2>1. CASE th[t].back = "close"
      BY <2>1 DEF RmPut
    <2>2. CASE th[t].back # "close"
      BY <2>2 DEF RmPut
    <2>3. QED BY <2>1, <2>2
  <1>4. Now(t, pc, th[t].s, th[t].e, None, th[t].todo, th[t].hap, th[t].ev, th[t].back, th[t].eback)
    BY <1>1, <1>3 DEF Goes, Local, Now
  <1>5. QED BY <1>1, <1>2, <1>3, <1>4 DEF RmPut

LEMMA FxReturn ==
  ASSUME TypeInv, NEW t \in Threads, Return(t)
  PROVE  /\ \/ th[t].back = "idle" /\ th[t].e = None /\ NowIdle(t)
            \/ th[t].back = "unref" /\ NowAt(t, "unref")
         /\ th[t].pc = "ret" /\ pollref' = pollref - 1
         /\ UNCHANGED <<lru, pclosed, entVars, sockVars>>
  <1>1. th[t] \in Local /\ Shape(th[t]) /\ th[t].pc = "ret"
    BY Threading DEF Return, At
  <1>2. th[t].back \in {"idle", "unref"} /\ (th[t].back = "idle" => th[t].e = None)
    BY <1>1 DEF Shape, OnEntry, Emits, Makes, Local
  <1>3. CASE th[t].back = "idle"
    <2>1. NowIdle(t)
      BY <1>1, <1>3, Idles DEF Return, To, Local
    <2>2. QED BY <1>1, <1>2, <1>3, <2>1 DEF Return, poll_put
  <1>4. CASE th[t].back = "unref"
    <2>1. NowAt(t, "unref")
      BY <1>4, Tos DEF Return, Pcs
    <2>2. QED BY <1>1, <1>4, <2>1 DEF Return, poll_put
  <1>5. QED BY <1>2, <1>3, <1>4

LEMMA FxGet ==
  ASSUME TypeInv, NEW t \in Threads, get_poll_entry(t)
  PROVE  /\ \/ NowAt(t, "ret") /\ UNCHANGED ref
            \/ \E e \in Registered(th[t].s) :
                 /\ Now(t, "modev", th[t].s, e, th[t].cur, th[t].todo, th[t].hap, th[t].ev,
                        "idle", th[t].eback)
                 /\ e \in Entries /\ e # None /\ ref' = [ref EXCEPT ![e] = @ + 1]
         /\ th[t].pc = "mod" /\ th[t].s \in Socks /\ th[t].back = "idle" /\ th[t].e = None
         /\ UNCHANGED <<pollVars, live, fdof, events, happened, sockVars>>
  <1>1. th \in [Threads -> Local] /\ th[t] \in Local /\ Shape(th[t]) /\ th[t].pc = "mod"
    BY Threading DEF TypeInv, Shaped, get_poll_entry, At
  <1>2. th[t].s \in Socks /\ th[t].back = "idle" /\ th[t].e = None
    BY <1>1 DEF Shape, OnSock, OnEntry, Emits, Makes, Local
  <1>3. CASE Registered(th[t].s) = {}
    <2>1. NowAt(t, "ret")
      BY <1>3, Tos DEF get_poll_entry, Pcs
    <2>2. QED BY <1>1, <1>2, <1>3, <2>1 DEF get_poll_entry
  <1>4. CASE Registered(th[t].s) # {}
    <2>1. PICK e \in Registered(th[t].s) :
            /\ ref' = [ref EXCEPT ![e] = @ + 1]
            /\ Goes(t, [th[t] EXCEPT !.pc = "modev", !.e = e])
      BY <1>4 DEF get_poll_entry
    <2>2. e \in Entries
      BY DEF Registered, On, TypeInv
    <2>3. Now(t, "modev", th[t].s, e, th[t].cur, th[t].todo, th[t].hap, th[t].ev, "idle", th[t].eback)
      BY <1>1, <1>2, <2>1 DEF Goes, Local, Now
    <2>4. e # None
      BY <2>2, XpollAssumption
    <2>5. QED BY <1>1, <1>2, <2>1, <2>2, <2>3, <2>4 DEF get_poll_entry
  <1>5. QED BY <1>3, <1>4

LEMMA FxMod ==
  ASSUME TypeInv, NEW t \in Threads, xpoll_mod(t)
  PROVE  /\ NowAt(t, "modset")
         /\ th[t].pc = "modev" /\ th[t].s \in Socks /\ th[t].back = "idle" /\ th[t].e \in Entries
         /\ \E ev \in Asks : events' = [events EXCEPT ![th[t].e] = ev]
         /\ UNCHANGED <<pollVars, live, ref, fdof, happened, sockVars>>
  <1>1. th[t] \in Local /\ Shape(th[t]) /\ th[t].pc = "modev"
    BY Threading DEF xpoll_mod, At
  <1>2. th[t].s \in Socks /\ th[t].back = "idle" /\ th[t].e \in Entries
    BY <1>1 DEF Shape, OnSock, OnEntry, Makes, Local
  <1>3. NowAt(t, "modset")
    BY Tos DEF xpoll_mod, Pcs
  <1>4. QED BY <1>1, <1>2, <1>3 DEF xpoll_mod

LEMMA FxModPut ==
  ASSUME TypeInv, NEW t \in Threads, ModPut(t)
  PROVE  /\ Now(t, "ret", th[t].s, None, th[t].cur, th[t].todo, th[t].hap, th[t].ev, "idle", th[t].eback)
         /\ th[t].pc = "modput" /\ th[t].back = "idle" /\ th[t].e \in Entries
         /\ poll_entry_put(th[t].e)
         /\ UNCHANGED <<lru, pclosed, sockVars>>
  <1>1. th \in [Threads -> Local] /\ th[t] \in Local /\ Shape(th[t]) /\ th[t].pc = "modput"
    BY Threading DEF TypeInv, Shaped, ModPut, At
  <1>2. th[t].back = "idle" /\ th[t].e \in Entries
    BY <1>1 DEF Shape, OnSock, OnEntry, Makes, Local
  <1>3. QED BY <1>1, <1>2 DEF ModPut, Goes, Local, Now

LEMMA FxCloseNext ==
  ASSUME TypeInv, NEW t \in Threads, CloseNext(t)
  PROVE  /\ \/ NowAt(t, "ret2") /\ lru = <<>> /\ lru' = lru
            \/ \E e \in On(lru) :
                 /\ Now(t, "rmput", th[t].s, None, e, th[t].todo, th[t].hap, th[t].ev,
                        "close", th[t].eback)
                 /\ e \in Entries /\ lru' = Without(lru, e)
         /\ th[t].pc = "close" /\ th[t].back = "close" /\ th[t].e = None
         /\ UNCHANGED <<pollref, pclosed, entVars, sockVars>>
  <1>1. th \in [Threads -> Local] /\ th[t] \in Local /\ Shape(th[t]) /\ th[t].pc = "close"
    BY Threading DEF TypeInv, Shaped, CloseNext, At
  <1>2. th[t].back = "close" /\ th[t].e = None
    BY <1>1 DEF Shape, OnEntry, Makes, Emits, Local
  <1>3. CASE lru = <<>>
    <2>1. NowAt(t, "ret2")
      BY <1>3, Tos DEF CloseNext, Pcs
    <2>2. QED BY <1>1, <1>2, <1>3, <2>1 DEF CloseNext
  <1>4. CASE lru # <<>>
    <2>1. Head(lru) \in Entries /\ Head(lru) \in On(lru) /\ lru' = Without(lru, Head(lru))
      BY <1>4, Headed DEF CloseNext, Unlist, TypeInv
    <2>2. PICK e : e = Head(lru)
      OBVIOUS
    <2>3. Goes(t, [th[t] EXCEPT !.pc = "rmput", !.cur = e])
      BY <1>4, <2>2 DEF CloseNext
    <2>4. Now(t, "rmput", th[t].s, None, e, th[t].todo, th[t].hap, th[t].ev, "close", th[t].eback)
      BY <1>1, <1>2, <2>3 DEF Goes, Local, Now
    <2>5. QED BY <1>1, <1>2, <2>1, <2>2, <2>4 DEF CloseNext
  <1>5. QED BY <1>3, <1>4

LEMMA FxClosePut ==
  ASSUME TypeInv, NEW t \in Threads, ClosePut(t)
  PROVE  /\ Now(t, "ret", th[t].s, None, th[t].cur, th[t].todo, th[t].hap, th[t].ev, "idle", th[t].eback)
         /\ th[t].pc = "ret2" /\ th[t].back = "close" /\ th[t].e = None
         /\ pollref' = pollref - 1
         /\ UNCHANGED <<lru, pclosed, entVars, sockVars>>
  <1>1. th \in [Threads -> Local] /\ th[t] \in Local /\ Shape(th[t]) /\ th[t].pc = "ret2"
    BY Threading DEF TypeInv, Shaped, ClosePut, At
  <1>2. th[t].back = "close" /\ th[t].e = None
    BY <1>1 DEF Shape, OnEntry, Makes, Emits, Local
  <1>3. QED BY <1>1, <1>2 DEF ClosePut, poll_put, Goes, Local, Now

LEMMA FxSplice ==
  ASSUME TypeInv, NEW t \in Threads, __xclose(t)
  PROVE  /\ Now(t, "walk", th[t].s, None, th[t].cur, atts[th[t].s], th[t].hap, th[t].ev, "unref", th[t].eback)
         /\ th[t].pc = "xclose" /\ th[t].s \in Socks /\ th[t].back = "idle" /\ th[t].e = None
         /\ lock[th[t].s] = None /\ atts' = [atts EXCEPT ![th[t].s] = <<>>]
         /\ UNCHANGED <<pollVars, entVars, cond, life, lock>>
  <1>1. th \in [Threads -> Local] /\ th[t] \in Local /\ Shape(th[t]) /\ th[t].pc = "xclose"
    BY Threading DEF TypeInv, Shaped, __xclose, At
  <1>2. th[t].s \in Socks /\ th[t].back = "idle" /\ th[t].e = None
    BY <1>1 DEF Shape, OnSock, OnEntry, Makes, Emits, Local
  <1>3. QED BY <1>1, <1>2 DEF __xclose, Spliced, Goes, Local, Now

LEMMA FxWalk ==
  ASSUME TypeInv, NEW t \in Threads, xpollbase_close(t)
  PROVE  /\ Now(t, "rm", th[t].s, Head(th[t].todo), th[t].cur, Tail(th[t].todo), th[t].hap, th[t].ev,
                "unref", th[t].eback)
         /\ th[t].pc = "walk" /\ th[t].s \in Socks /\ th[t].back = "unref" /\ th[t].e = None
         /\ th[t].todo # <<>> /\ th[t].todo \in Seq(Entries)
         /\ pollref' = pollref + 1
         /\ UNCHANGED <<lru, pclosed, entVars, sockVars>>
  <1>1. th \in [Threads -> Local] /\ th[t] \in Local /\ Shape(th[t]) /\ th[t].pc = "walk"
    BY Threading DEF TypeInv, Shaped, xpollbase_close, At
  <1>2. /\ th[t].s \in Socks /\ th[t].back = "unref" /\ th[t].e = None
        /\ th[t].todo # <<>> /\ th[t].todo \in Seq(Entries)
    BY <1>1 DEF xpollbase_close, Shape, OnSock, OnEntry, Makes, Emits, Local
  <1>3. QED BY <1>1, <1>2 DEF xpollbase_close, poll_get, Goes, Local, Now

LEMMA FxCloseUnref ==
  ASSUME TypeInv, NEW t \in Threads, CloseUnref(t)
  PROVE  /\ Now(t, "walk", th[t].s, None, th[t].cur, th[t].todo, th[t].hap, th[t].ev, "unref", th[t].eback)
         /\ th[t].pc = "unref" /\ th[t].s \in Socks /\ th[t].back = "unref" /\ th[t].e \in Entries
         /\ poll_entry_put(th[t].e)
         /\ UNCHANGED <<lru, pclosed, sockVars>>
  <1>1. th \in [Threads -> Local] /\ th[t] \in Local /\ Shape(th[t]) /\ th[t].pc = "unref"
    BY Threading DEF TypeInv, Shaped, CloseUnref, At
  <1>2. th[t].s \in Socks /\ th[t].back = "unref" /\ th[t].e \in Entries
    BY <1>1 DEF Shape, OnSock, OnEntry, Makes, Emits, Local
  <1>3. QED BY <1>1, <1>2 DEF CloseUnref, Goes, Local, Now

LEMMA FxCloseEnd ==
  ASSUME TypeInv, NEW t \in Threads, CloseEnd(t)
  PROVE  /\ NowIdle(t)
         /\ th[t].pc = "walk" /\ th[t].s \in Socks /\ th[t].back = "unref" /\ th[t].e = None
         /\ th[t].todo = <<>> /\ life' = [life EXCEPT ![th[t].s] = "closed"]
         /\ UNCHANGED <<pollVars, entVars, atts, cond, lock>>
  <1>1. th[t] \in Local /\ Shape(th[t]) /\ th[t].pc = "walk"
    BY Threading DEF CloseEnd, At
  <1>2. th[t].s \in Socks /\ th[t].back = "unref" /\ th[t].e = None
    BY <1>1 DEF Shape, OnSock, OnEntry, Makes, Emits, Local
  <1>3. NowIdle(t)
    BY <1>1, Idles DEF CloseEnd, To, Local
  <1>4. QED BY <1>1, <1>2, <1>3 DEF CloseEnd

----------------------------------------------------------------------------
(* Holders of an entry.                                                     *)

LEMMA Finite ==
  ASSUME NEW e
  PROVE  /\ IsFiniteSet(On(lru) \cap {e}) /\ IsFiniteSet(SocksOf(e)) /\ IsFiniteSet(ClosersOf(e))
         /\ IsFiniteSet(CallsOn(e)) /\ IsFiniteSet(PutsOf(e))
         /\ Cardinality(On(lru) \cap {e}) \in Nat /\ Cardinality(SocksOf(e)) \in Nat
         /\ Cardinality(ClosersOf(e)) \in Nat /\ Cardinality(CallsOn(e)) \in Nat
         /\ Cardinality(PutsOf(e)) \in Nat
  <1>1. IsFiniteSet({e})
    BY FS_Singleton
  <1>2. IsFiniteSet(On(lru) \cap {e})
    BY <1>1, FS_Subset, On(lru) \cap {e} \subseteq {e}
  <1>3. IsFiniteSet(SocksOf(e))
    BY FS_Subset, XpollAssumption DEF SocksOf
  <1>4. IsFiniteSet(ClosersOf(e)) /\ IsFiniteSet(CallsOn(e)) /\ IsFiniteSet(PutsOf(e))
    BY FS_Subset, XpollAssumption DEF ClosersOf, CallsOn, PutsOf
  <1>5. QED BY <1>2, <1>3, <1>4, FS_CardinalityType

LEMMA Counted ==
  ASSUME NEW e
  PROVE  \E l, s, c, k, p \in Nat :
           /\ Cardinality(On(lru) \cap {e}) = l /\ Cardinality(SocksOf(e)) = s
           /\ Cardinality(ClosersOf(e)) = c /\ Cardinality(CallsOn(e)) = k
           /\ Cardinality(PutsOf(e)) = p /\ Holders(e) = l + s + c + k + p
  BY Finite DEF Holders

LEMMA FiniteNext ==
  ASSUME NEW e
  PROVE  /\ IsFiniteSet(SocksOf(e)') /\ IsFiniteSet(ClosersOf(e)')
         /\ IsFiniteSet(CallsOn(e)') /\ IsFiniteSet(PutsOf(e)')
  <1>1. IsFiniteSet(SocksOf(e)')
    BY FS_Subset, XpollAssumption DEF SocksOf
  <1>2. IsFiniteSet(ClosersOf(e)') /\ IsFiniteSet(CallsOn(e)') /\ IsFiniteSet(PutsOf(e)')
    BY FS_Subset, XpollAssumption DEF ClosersOf, CallsOn, PutsOf
  <1>3. QED BY <1>1, <1>2

LEMMA None0 ==
  ASSUME NEW S, IsFiniteSet(S)
  PROVE  Cardinality(S) = 0 => S = {}
  BY FS_EmptySet

LEMMA Plus ==
  ASSUME NEW S, IsFiniteSet(S), NEW x, x \notin S
  PROVE  Cardinality(S \cup {x}) = Cardinality(S) + 1
  BY FS_AddElement

LEMMA Minus ==
  ASSUME NEW S, IsFiniteSet(S), NEW x \in S
  PROVE  Cardinality(S \ {x}) = Cardinality(S) - 1
  BY FS_RemoveElement, FS_CardinalityType

\* An entry that nobody holds is nowhere.
LEMMA Dead ==
  ASSUME TypeInv, RefInv, NEW e \in Entries, e \notin live
  PROVE  /\ e \notin On(lru) /\ \A s \in Socks : e \notin On(atts[s])
         /\ \A u \in Threads : /\ th[u].back = "unref" => e \notin On(th[u].todo)
                               /\ th[u].e # e /\ u \notin PutsOf(e)
  <1>1. ref[e] \in Nat /\ ref[e] = 0 /\ Holders(e) = 0
    BY DEF RefInv, TypeInv
  <1>2. /\ On(lru) \cap {e} = {} /\ SocksOf(e) = {} /\ ClosersOf(e) = {} /\ CallsOn(e) = {}
        /\ PutsOf(e) = {}
    <2>1. /\ Cardinality(On(lru) \cap {e}) = 0 /\ Cardinality(SocksOf(e)) = 0
          /\ Cardinality(ClosersOf(e)) = 0 /\ Cardinality(CallsOn(e)) = 0 /\ Cardinality(PutsOf(e)) = 0
      <3>1. PICK l, s, c, k, p \in Nat :
              /\ Cardinality(On(lru) \cap {e}) = l /\ Cardinality(SocksOf(e)) = s
              /\ Cardinality(ClosersOf(e)) = c /\ Cardinality(CallsOn(e)) = k
              /\ Cardinality(PutsOf(e)) = p
        BY Finite
      <3>2. l + s + c + k + p = 0
        BY <1>1, <3>1 DEF Holders
      <3>3. QED BY <3>1, <3>2
    <2>2. QED BY <2>1, Finite, None0
  <1>3. QED BY <1>2 DEF SocksOf, ClosersOf, CallsOn

\* Whoever puts an entry holds it; with the last reference nobody else does.
LEMMA Alone ==
  ASSUME TypeInv, RefInv, NEW e \in Entries, NEW t \in Threads,
         \/ th[t].e = e \/ t \in PutsOf(e)
  PROVE  /\ ref[e] >= 1 /\ e \in live
         /\ ~ (ref[e] > 1) =>
              /\ ref[e] = 1
              /\ e \notin On(lru) /\ \A s \in Socks : e \notin On(atts[s])
              /\ \A u \in Threads : th[u].back = "unref" => e \notin On(th[u].todo)
              /\ \A u \in Threads \ {t} : th[u].e # e /\ u \notin PutsOf(e)
              /\ ~ (th[t].e = e /\ t \in PutsOf(e))
  <1>1. ref[e] \in Nat /\ ref[e] = Holders(e) /\ (e \in live <=> ref[e] > 0)
    BY DEF RefInv, TypeInv
  <1>2. t \in CallsOn(e) \/ t \in PutsOf(e)
    BY DEF CallsOn
  <1>3. Cardinality(CallsOn(e)) >= 1 \/ Cardinality(PutsOf(e)) >= 1
    <2>1. CASE t \in CallsOn(e)
      <3>1. Cardinality(CallsOn(e)) # 0 /\ Cardinality(CallsOn(e)) \in Nat
        BY <2>1, Finite, None0
      <3>2. QED BY <3>1
    <2>2. CASE t \in PutsOf(e)
      <3>1. Cardinality(PutsOf(e)) # 0 /\ Cardinality(PutsOf(e)) \in Nat
        BY <2>2, Finite, None0
      <3>2. QED BY <3>1
    <2>3. QED BY <1>2, <2>1, <2>2
  <1>4. ref[e] >= 1 /\ e \in live
    BY <1>1, <1>3, Finite DEF Holders
  <1>5. ASSUME ~ (ref[e] > 1)
        PROVE  /\ ref[e] = 1 /\ On(lru) \cap {e} = {} /\ SocksOf(e) = {} /\ ClosersOf(e) = {}
               /\ CallsOn(e) \cup PutsOf(e) = {t} /\ (CallsOn(e) = {} \/ PutsOf(e) = {})
    <2>1. ref[e] = 1
      BY <1>1, <1>4, <1>5
    <2>2. CASE t \in CallsOn(e)
      <3>1. Cardinality(CallsOn(e) \ {t}) = Cardinality(CallsOn(e)) - 1 /\ IsFiniteSet(CallsOn(e) \ {t})
        BY <2>2, Finite, Minus, FS_RemoveElement
      <3>2. /\ Cardinality(On(lru) \cap {e}) = 0 /\ Cardinality(SocksOf(e)) = 0
            /\ Cardinality(ClosersOf(e)) = 0 /\ Cardinality(CallsOn(e) \ {t}) = 0
            /\ Cardinality(PutsOf(e)) = 0
        BY <1>1, <2>1, <3>1, Finite, FS_CardinalityType DEF Holders
      <3>3. CallsOn(e) \ {t} = {}
        BY <3>1, <3>2, None0
      <3>4. On(lru) \cap {e} = {} /\ SocksOf(e) = {} /\ ClosersOf(e) = {} /\ PutsOf(e) = {}
        BY <3>2, Finite, None0
      <3>5. QED BY <2>1, <2>2, <3>3, <3>4
    <2>3. CASE t \in PutsOf(e)
      <3>1. Cardinality(PutsOf(e) \ {t}) = Cardinality(PutsOf(e)) - 1 /\ IsFiniteSet(PutsOf(e) \ {t})
        BY <2>3, Finite, Minus, FS_RemoveElement
      <3>2. /\ Cardinality(On(lru) \cap {e}) = 0 /\ Cardinality(SocksOf(e)) = 0
            /\ Cardinality(ClosersOf(e)) = 0 /\ Cardinality(PutsOf(e) \ {t}) = 0
            /\ Cardinality(CallsOn(e)) = 0
        BY <1>1, <2>1, <3>1, Finite, FS_CardinalityType DEF Holders
      <3>3. PutsOf(e) \ {t} = {}
        BY <3>1, <3>2, None0
      <3>4. On(lru) \cap {e} = {} /\ SocksOf(e) = {} /\ ClosersOf(e) = {} /\ CallsOn(e) = {}
        BY <3>2, Finite, None0
      <3>5. QED BY <2>1, <2>3, <3>3, <3>4
    <2>4. QED BY <1>2, <2>2, <2>3
  <1>6. QED BY <1>4, <1>5 DEF SocksOf, ClosersOf, CallsOn

LEMMA RefPut ==
  ASSUME TypeInv, RefInv, NEW d \in Entries, poll_entry_put(d), ref[d] >= 1,
         \A e \in Entries : Holders(e)' = IF e = d THEN Holders(e) - 1 ELSE Holders(e)
  PROVE  RefInv'
  <1>1. CASE ref[d] > 1
    <2>1. ref' = [ref EXCEPT ![d] = @ - 1] /\ live' = live
      BY <1>1 DEF poll_entry_put, Unref
    <2>2. QED BY <1>1, <2>1 DEF RefInv, TypeInv
  <1>2. CASE ~ ref[d] > 1
    <2>1. ref' = [ref EXCEPT ![d] = 0] /\ live' = live \ {d} /\ ref[d] = 1
      BY <1>2 DEF poll_entry_put, Unref, TypeInv
    <2>2. QED BY <1>2, <2>1 DEF RefInv, TypeInv
  <1>3. QED BY <1>1, <1>2

\* A step that leaves the lists as they are, and every thread with what it holds.
Holds(u, e) ==
  /\ th'[u].e = e <=> th[u].e = e
  /\ th'[u].back = "unref" /\ e \in On(th'[u].todo) <=> th[u].back = "unref" /\ e \in On(th[u].todo)
  /\ th'[u].pc \in {"eput", "rmput"} /\ th'[u].cur = e
       <=> th[u].pc \in {"eput", "rmput"} /\ th[u].cur = e

LEMMA SetsKept ==
  ASSUME NEW e, \A u \in Threads : Holds(u, e)
  PROVE  ClosersOf(e)' = ClosersOf(e) /\ CallsOn(e)' = CallsOn(e) /\ PutsOf(e)' = PutsOf(e)
  BY DEF Holds, ClosersOf, CallsOn, PutsOf

LEMMA RefKeep ==
  ASSUME RefInv, On(lru') = On(lru), UNCHANGED <<atts, ref, live>>,
         \A u \in Threads : \A e \in Entries : Holds(u, e)
  PROVE  RefInv'
  <1>1. ASSUME NEW e \in Entries PROVE Holders(e)' = Holders(e)
    <2>1. ClosersOf(e)' = ClosersOf(e) /\ CallsOn(e)' = CallsOn(e) /\ PutsOf(e)' = PutsOf(e)
      BY SetsKept
    <2>2. SocksOf(e)' = SocksOf(e) /\ (On(lru) \cap {e})' = On(lru) \cap {e}
      BY DEF SocksOf, On
    <2>3. QED BY <2>1, <2>2 DEF Holders
  <1>2. QED BY <1>1 DEF RefInv

\* What every call that begins leaves alone, and where it goes.
Starts(t) ==
  /\ UNCHANGED <<lru, atts, entVars>>
  /\ \A u \in Threads \ {t} : th'[u] = th[u]
  /\ th[t].e = None /\ th[t].back = "idle" /\ th[t].pc = "idle"
  /\ th'[t].e = None /\ th'[t].back \in {"idle", "close"}
  /\ th'[t].pc \in {"emit", "broken", "add", "mod", "ret", "rm", "wait", "xclose", "close"}
  /\ th'[t].pc = "emit" => th'[t].eback = "idle"

LEMMA Begins ==
  ASSUME TypeInv, NEW t \in Threads, Begin(t)
  PROVE  Starts(t)
  <1>1. ASSUME NEW s, Change(t, s) PROVE Starts(t)
    BY <1>1, FxChange DEF Now, pollVars, Starts
  <1>2. ASSUME NEW s, Break(t, s) PROVE Starts(t)
    BY <1>2, FxBreak DEF Now, pollVars, Starts
  <1>3. ASSUME NEW s, NEW pc \in {"add", "mod", "ret", "rm", "wait"}, Call(t, s, pc)
        PROVE Starts(t)
    BY <1>3, FxCall DEF Now, sockVars, Starts
  <1>4. ASSUME NEW s, xclose(t, s) PROVE Starts(t)
    BY <1>4, FxXclose DEF Now, pollVars, Starts
  <1>5. ASSUME xpoll_close(t) PROVE Starts(t)
    BY <1>5, FxPollClose DEF Now, sockVars, Starts
  <1>6. QED BY <1>1, <1>2, <1>3, <1>4, <1>5 DEF Begin, CallAdd, CallMod, CallRm, CallWait

LEMMA RefBegin ==
  ASSUME TypeInv, RefInv, NEW t \in Threads, Begin(t)
  PROVE  RefInv'
  <1>1. Starts(t)
    BY Begins
  <1>2. \A u \in Threads : \A e \in Entries : Holds(u, e)
    BY <1>1 DEF Starts, Holds
  <1>3. QED BY <1>1, <1>2, RefKeep DEF Starts, entVars

\* The list of the poll has the same entries after an emission.
LEMMA MovedOn ==
  ASSUME NEW q \in Seq(Entries), Once(q), NEW e \in On(q)
  PROVE  /\ Without(q, e) \in Seq(Entries) /\ e \notin On(Without(q, e))
         /\ On(<<e>> \o Without(q, e)) = On(q) /\ Once(<<e>> \o Without(q, e))
         /\ On(Append(Without(q, e), e)) = On(q) /\ Once(Append(Without(q, e), e))
  <1>1. /\ Without(q, e) \in Seq(Entries) /\ Once(Without(q, e))
        /\ On(Without(q, e)) = On(q) \ {e} /\ e \in Entries
    <2>1. e \in Entries
      BY DEF On
    <2>2. QED BY <2>1, Removed
  <1>2. PICK w \in Seq(Entries) : w = Without(q, e)
    BY <1>1
  <1>3. /\ On(<<e>> \o w) = On(w) \cup {e} /\ Once(<<e>> \o w)
        /\ On(Append(w, e)) = On(w) \cup {e} /\ Once(Append(w, e))
    BY <1>1, <1>2, Appended, Pushed
  <1>4. QED BY <1>1, <1>2, <1>3

LEMMA MovedSame ==
  ASSUME TypeInv, ListInv, NEW e \in On(lru), NEW ev, lru' = Moved(e, ev)
  PROVE  On(lru') = On(lru) /\ Once(lru')
  <1>1. lru \in Seq(Entries) /\ Once(lru)
    BY DEF TypeInv, ListInv
  <1>2. QED BY <1>1, MovedOn DEF Moved

\* A thread that lets go of d, and nothing else changes hands.
LEMMA LetsGo ==
  ASSUME TypeInv, RefInv, NEW t \in Threads, NEW d \in Entries, poll_entry_put(d),
         UNCHANGED <<lru, atts>>, \A u \in Threads \ {t} : th'[u] = th[u],
         th'[t].back = th[t].back, th'[t].todo = th[t].todo,
         \/ /\ th[t].e = d /\ th'[t].e = None
            /\ th[t].pc \notin {"eput", "rmput"} /\ th'[t].pc \notin {"eput", "rmput"}
         \/ /\ th'[t].e = th[t].e /\ th[t].cur = d
            /\ th[t].pc \in {"eput", "rmput"} /\ th'[t].pc \notin {"eput", "rmput"}
  PROVE  RefInv'
  <1>1. None \notin Entries
    BY XpollAssumption
  <1>2. ASSUME NEW e \in Entries, e # d PROVE Holders(e)' = Holders(e)
    <2>1. \A u \in Threads : Holds(u, e)
      BY <1>1, <1>2 DEF Holds
    <2>2. ClosersOf(e)' = ClosersOf(e) /\ CallsOn(e)' = CallsOn(e) /\ PutsOf(e)' = PutsOf(e)
      BY <2>1, SetsKept
    <2>3. SocksOf(e)' = SocksOf(e)
      BY DEF SocksOf
    <2>4. QED BY <2>2, <2>3 DEF Holders
  <1>3. SocksOf(d)' = SocksOf(d) /\ ClosersOf(d)' = ClosersOf(d) /\ On(lru)' = On(lru)
    BY DEF SocksOf, ClosersOf, On
  <1>4. CASE th[t].e = d /\ th'[t].e = None /\ th[t].pc \notin {"eput", "rmput"} /\ th'[t].pc \notin {"eput", "rmput"}
    <2>1. t \in CallsOn(d) /\ CallsOn(d)' = CallsOn(d) \ {t} /\ PutsOf(d)' = PutsOf(d)
      BY <1>1, <1>4 DEF CallsOn, PutsOf
    <2>2. Cardinality(CallsOn(d)') = Cardinality(CallsOn(d)) - 1
      BY <2>1, Minus, Finite
    <2>3. Holders(d)' = Holders(d) - 1
      BY <1>3, <2>1, <2>2, Counted DEF Holders
    <2>4. ref[d] >= 1
      BY <1>4, Alone
    <2>5. QED BY <1>2, <2>3, <2>4, RefPut
  <1>5. CASE /\ th'[t].e = th[t].e /\ th[t].cur = d
             /\ th[t].pc \in {"eput", "rmput"} /\ th'[t].pc \notin {"eput", "rmput"}
    <2>1. t \in PutsOf(d) /\ PutsOf(d)' = PutsOf(d) \ {t} /\ CallsOn(d)' = CallsOn(d)
      BY <1>1, <1>5 DEF CallsOn, PutsOf
    <2>2. Cardinality(PutsOf(d)') = Cardinality(PutsOf(d)) - 1
      BY <2>1, Minus, Finite
    <2>3. Holders(d)' = Holders(d) - 1
      BY <1>3, <2>1, <2>2, Counted DEF Holders
    <2>4. ref[d] >= 1
      BY <2>1, Alone
    <2>5. QED BY <1>2, <2>3, <2>4, RefPut
  <1>6. QED BY <1>4, <1>5

LEMMA RefSame ==
  ASSUME RefInv, UNCHANGED <<ref, live>>, \A e \in Entries : Holders(e)' = Holders(e)
  PROVE  RefInv'
  BY DEF RefInv

\* From a socket to the thread that will put it.
LEMMA RefDetached ==
  ASSUME TypeInv, ListInv, LockInv, RefInv, NEW t \in Threads, EmitDetached(t)
  PROVE  RefInv'
  <1> DEFINE s == th[t].s
             d == th[t].cur
  <1>1. /\ NowAt(t, "eput") /\ th[t].pc = "apply" /\ s \in Socks /\ d \in Entries
        /\ th[t].back = "idle" /\ lru' = lru /\ UNCHANGED <<ref, live>>
        /\ atts' = [atts EXCEPT ![s] = Without(@, d)]
    BY FxDetached DEF pollVars, entVars
  <1>2. d \in On(atts[s]) /\ Once(atts[s]) /\ atts[s] \in Seq(Entries)
    BY <1>1 DEF LockInv, Emits, ListInv, TypeInv
  <1> HIDE DEF s, d
  <1>3. atts' \in [Socks -> Seq(Entries)] /\ On(atts'[s]) = On(atts[s]) \ {d}
        /\ \A x \in Socks \ {s} : atts'[x] = atts[x]
    BY <1>1, <1>2, Removed DEF TypeInv
  <1>4. ASSUME NEW e \in Entries, e # d PROVE Holders(e)' = Holders(e)
    <2>1. \A u \in Threads : Holds(u, e)
      BY <1>1, <1>4 DEF Holds, NowAt, Now, d
    <2>2. ClosersOf(e)' = ClosersOf(e) /\ CallsOn(e)' = CallsOn(e) /\ PutsOf(e)' = PutsOf(e)
      BY <2>1, SetsKept
    <2>3. \A x \in Socks : e \in On(atts'[x]) <=> e \in On(atts[x])
      BY <1>1, <1>3, <1>4
    <2>4. SocksOf(e)' = SocksOf(e) /\ On(lru)' = On(lru)
      BY <1>1, <2>3 DEF SocksOf, On
    <2>5. QED BY <2>2, <2>4 DEF Holders
  <1>5. PICK f \in Entries : f = d
    BY <1>1
  <1>6. Holders(f)' = Holders(f)
    <2>1. ClosersOf(f)' = ClosersOf(f) /\ CallsOn(f)' = CallsOn(f) /\ On(lru)' = On(lru)
      BY <1>1 DEF ClosersOf, CallsOn, NowAt, Now, On
    <2>2. t \notin PutsOf(f) /\ PutsOf(f)' = PutsOf(f) \cup {t}
      BY <1>1, <1>5 DEF PutsOf, NowAt, Now, d
    <2>3. \A x \in Socks : f \in On(atts'[x]) <=> f \in On(atts[x]) /\ x # s
      BY <1>1, <1>3, <1>5
    <2>4. s \in SocksOf(f) /\ SocksOf(f)' = SocksOf(f) \ {s}
      BY <1>1, <1>2, <1>5, <2>3 DEF SocksOf
    <2>5. /\ Cardinality(PutsOf(f)') = Cardinality(PutsOf(f)) + 1
          /\ Cardinality(SocksOf(f)') = Cardinality(SocksOf(f)) - 1
      BY <2>2, <2>4, Finite, Plus, Minus
    <2>6. QED BY <2>1, <2>5, Counted DEF Holders
  <1>7. QED BY <1>1, <1>4, <1>5, <1>6, RefSame

\* From the thread that adds it to its socket.
LEMMA RefAttach ==
  ASSUME TypeInv, MakeInv, RefInv, NEW t \in Threads, add_pollbase(t)
  PROVE  RefInv'
  <1> DEFINE s == th[t].s
             d == th[t].e
  <1>1. /\ Now(t, "added", s, None, th[t].cur, th[t].todo, th[t].hap, th[t].ev, "idle", th[t].eback)
        /\ th[t].pc = "attach" /\ s \in Socks /\ d \in Entries
        /\ th[t].back = "idle" /\ lru' = lru /\ UNCHANGED <<ref, live>>
        /\ atts' = [atts EXCEPT ![s] = Append(@, d)]
    BY FxAttach DEF pollVars, entVars
  <1>2. d \notin On(atts[s]) /\ atts[s] \in Seq(Entries) /\ None \notin Entries
    BY <1>1, XpollAssumption DEF MakeInv, Makes, TypeInv
  <1> HIDE DEF s
  <1>3. On(atts'[s]) = On(atts[s]) \cup {d} /\ \A x \in Socks \ {s} : atts'[x] = atts[x]
    BY <1>1, <1>2, Appended DEF TypeInv
  <1>4. ASSUME NEW e \in Entries, e # d PROVE Holders(e)' = Holders(e)
    <2>1. \A u \in Threads : Holds(u, e)
      BY <1>1, <1>2, <1>4 DEF Holds, Now
    <2>2. ClosersOf(e)' = ClosersOf(e) /\ CallsOn(e)' = CallsOn(e) /\ PutsOf(e)' = PutsOf(e)
      BY <2>1, SetsKept
    <2>3. \A x \in Socks : e \in On(atts'[x]) <=> e \in On(atts[x])
      BY <1>1, <1>3, <1>4
    <2>4. SocksOf(e)' = SocksOf(e) /\ On(lru)' = On(lru)
      BY <1>1, <2>3 DEF SocksOf, On
    <2>5. QED BY <2>2, <2>4 DEF Holders
  <1>5. PICK f \in Entries : f = d
    BY <1>1
  <1>6. Holders(f)' = Holders(f)
    <2>1. ClosersOf(f)' = ClosersOf(f) /\ PutsOf(f)' = PutsOf(f) /\ On(lru)' = On(lru)
      BY <1>1 DEF ClosersOf, PutsOf, Now, On
    <2>2. t \in CallsOn(f) /\ CallsOn(f)' = CallsOn(f) \ {t}
      BY <1>1, <1>2, <1>5 DEF CallsOn, Now
    <2>3. \A x \in Socks : f \in On(atts'[x]) <=> f \in On(atts[x]) \/ x = s
      BY <1>1, <1>3, <1>5
    <2>4. s \notin SocksOf(f) /\ SocksOf(f)' = SocksOf(f) \cup {s}
      BY <1>1, <1>2, <1>5, <2>3 DEF SocksOf
    <2>5. /\ Cardinality(CallsOn(f)') = Cardinality(CallsOn(f)) - 1
          /\ Cardinality(SocksOf(f)') = Cardinality(SocksOf(f)) + 1
      BY <2>2, <2>4, Finite, Plus, Minus
    <2>6. QED BY <2>1, <2>5, Counted DEF Holders
  <1>7. QED BY <1>1, <1>4, <1>5, <1>6, RefSame

\* From the list to the thread that will put it.
LEMMA RefUnlist ==
  ASSUME TypeInv, ListInv, RefInv, NEW t \in Threads, NEW d \in On(lru), lru' = Without(lru, d),
         UNCHANGED <<atts, ref, live>>, \A u \in Threads \ {t} : th'[u] = th[u],
         th'[t].e = th[t].e, th'[t].back = th[t].back, th'[t].todo = th[t].todo,
         th[t].pc \in {"rm", "close"}, th'[t].pc = "rmput", th'[t].cur = d
  PROVE  RefInv'
  <1>1. d \in Entries /\ On(lru') = On(lru) \ {d}
    <2>1. d \in Entries /\ lru \in Seq(Entries) /\ Once(lru)
      BY DEF TypeInv, ListInv, On
    <2>2. QED BY <2>1, Removed
  <1>2. ASSUME NEW e \in Entries PROVE SocksOf(e)' = SocksOf(e) /\ ClosersOf(e)' = ClosersOf(e) /\ CallsOn(e)' = CallsOn(e)
    BY DEF SocksOf, ClosersOf, CallsOn
  <1>3. ASSUME NEW e \in Entries, e # d PROVE Holders(e)' = Holders(e)
    <2>1. PutsOf(e)' = PutsOf(e)
      BY <1>3 DEF PutsOf
    <2>2. (On(lru) \cap {e})' = On(lru) \cap {e}
      BY <1>1, <1>3 DEF On
    <2>3. QED BY <1>2, <2>1, <2>2 DEF Holders
  <1>4. Holders(d)' = Holders(d)
    <2>1. t \notin PutsOf(d) /\ PutsOf(d)' = PutsOf(d) \cup {t}
      BY DEF PutsOf
    <2>2. On(lru) \cap {d} = {d} /\ (On(lru) \cap {d})' = {}
      BY <1>1 DEF On
    <2>3. Cardinality(On(lru) \cap {d}) = 1 /\ Cardinality((On(lru) \cap {d})') = 0
      BY SMTT(60), <2>2, FS_Singleton, FS_EmptySet
    <2>4. Cardinality(PutsOf(d)') = Cardinality(PutsOf(d)) + 1
      BY ZenonT(60), <2>1, Finite, Plus
    <2>5. QED BY <1>1, <1>2, <2>3, <2>4, Counted DEF Holders
  <1>5. QED BY <1>1, <1>3, <1>4, RefSame

\* From a socket to the thread that closes it.
LEMMA RefSplice ==
  ASSUME TypeInv, RefInv, NEW t \in Threads, __xclose(t)
  PROVE  RefInv'
  <1> DEFINE s == th[t].s
  <1>1. /\ Now(t, "walk", s, None, th[t].cur, atts[s], th[t].hap, th[t].ev, "unref", th[t].eback)
        /\ th[t].pc = "xclose" /\ s \in Socks /\ th[t].back = "idle" /\ th[t].e = None
        /\ lru' = lru /\ UNCHANGED <<ref, live>> /\ atts' = [atts EXCEPT ![s] = <<>>]
    BY FxSplice DEF pollVars, entVars
  <1> HIDE DEF s
  <1>2. On(atts'[s]) = {} /\ \A x \in Socks \ {s} : atts'[x] = atts[x]
    BY <1>1, NoneOn DEF TypeInv
  <1>3. ASSUME NEW e \in Entries PROVE Holders(e)' = Holders(e)
    <2>1. CallsOn(e)' = CallsOn(e) /\ PutsOf(e)' = PutsOf(e) /\ On(lru)' = On(lru)
      BY <1>1 DEF CallsOn, PutsOf, Now, On
    <2>2. CASE e \in On(atts[s])
      <3>1. t \notin ClosersOf(e) /\ ClosersOf(e)' = ClosersOf(e) \cup {t}
        BY <1>1, <2>2 DEF ClosersOf, Now
      <3>2. s \in SocksOf(e) /\ SocksOf(e)' = SocksOf(e) \ {s}
        BY <1>1, <1>2, <2>2 DEF SocksOf
      <3>3. /\ Cardinality(ClosersOf(e)') = Cardinality(ClosersOf(e)) + 1
            /\ Cardinality(SocksOf(e)') = Cardinality(SocksOf(e)) - 1
        BY <3>1, <3>2, Finite, Plus, Minus
      <3>4. QED BY <2>1, <3>3, Counted DEF Holders
    <2>3. CASE e \notin On(atts[s])
      <3>1. ClosersOf(e)' = ClosersOf(e)
        BY <1>1, <2>3 DEF ClosersOf, Now
      <3>2. SocksOf(e)' = SocksOf(e)
        BY <1>1, <1>2, <2>3 DEF SocksOf
      <3>3. QED BY <2>1, <3>1, <3>2 DEF Holders
    <2>4. QED BY <2>2, <2>3
  <1>4. QED BY <1>1, <1>3, RefSame

\* From what is left to close to the call that closes it.
LEMMA RefWalk ==
  ASSUME TypeInv, LifeInv, RefInv, NEW t \in Threads, xpollbase_close(t)
  PROVE  RefInv'
  <1>1. PICK d : d = Head(th[t].todo)
    OBVIOUS
  <1>2. /\ Now(t, "rm", th[t].s, d, th[t].cur, Tail(th[t].todo), th[t].hap, th[t].ev,
                "unref", th[t].eback)
        /\ th[t].pc = "walk" /\ th[t].back = "unref" /\ th[t].e = None
        /\ th[t].todo # <<>> /\ th[t].todo \in Seq(Entries)
        /\ lru' = lru /\ UNCHANGED <<ref, live, atts>>
    BY <1>1, FxWalk DEF entVars, sockVars
  <1>3. /\ d \in Entries /\ d \in On(th[t].todo) /\ None \notin Entries
        /\ On(th'[t].todo) = On(th[t].todo) \ {d}
    BY <1>1, <1>2, Headed, XpollAssumption DEF LifeInv, Now
  <1>4. ASSUME NEW e \in Entries PROVE PutsOf(e)' = PutsOf(e) /\ SocksOf(e)' = SocksOf(e) /\ On(lru)' = On(lru)
    BY <1>2 DEF PutsOf, SocksOf, Now, On
  <1>5. ASSUME NEW e \in Entries, e # d PROVE Holders(e)' = Holders(e)
    <2>1. ClosersOf(e)' = ClosersOf(e) /\ CallsOn(e)' = CallsOn(e)
      BY <1>2, <1>3, <1>5 DEF ClosersOf, CallsOn, Now
    <2>2. QED BY <1>4, <2>1 DEF Holders
  <1>6. Holders(d)' = Holders(d)
    <2>1. /\ t \in ClosersOf(d) /\ ClosersOf(d)' = ClosersOf(d) \ {t}
          /\ t \notin CallsOn(d) /\ CallsOn(d)' = CallsOn(d) \cup {t}
      BY <1>2, <1>3 DEF ClosersOf, CallsOn, Now
    <2>2. /\ Cardinality(ClosersOf(d)') = Cardinality(ClosersOf(d)) - 1
          /\ Cardinality(CallsOn(d)') = Cardinality(CallsOn(d)) + 1
      BY <2>1, Finite, Plus, Minus
    <2>3. PICK l, x, c, k, p \in Nat :
            /\ Cardinality(On(lru) \cap {d}) = l /\ Cardinality(SocksOf(d)) = x
            /\ Cardinality(ClosersOf(d)) = c /\ Cardinality(CallsOn(d)) = k
            /\ Cardinality(PutsOf(d)) = p /\ Holders(d) = l + x + c + k + p
      BY Counted
    <2>4. /\ Cardinality(ClosersOf(d)') = c - 1 /\ Cardinality(CallsOn(d)') = k + 1
          /\ SocksOf(d)' = SocksOf(d) /\ PutsOf(d)' = PutsOf(d) /\ (On(lru) \cap {d})' = On(lru) \cap {d}
      BY <1>3, <1>4, <2>2, <2>3
    <2>5. QED BY <2>3, <2>4 DEF Holders
  <1>7. QED BY <1>2, <1>5, <1>6, RefSame

\* A new entry has the references of the list and of the caller.
LEMMA RefAdd ==
  ASSUME TypeInv, RefInv, NEW t \in Threads, add_poll_entry(t)
  PROVE  RefInv'
  <1>1. PICK d \in Entries \ live :
          /\ Now(t, "fill", th[t].s, d, th[t].cur, th[t].todo, th[t].hap, th[t].ev, "idle", th[t].eback)
          /\ th[t].pc = "add" /\ th[t].back = "idle" /\ th[t].e = None
          /\ live' = live \cup {d} /\ ref' = [ref EXCEPT ![d] = 2]
          /\ lru' = Append(lru, d) /\ UNCHANGED atts
    BY FxAdd DEF sockVars
  <1>2. On(lru') = On(lru) \cup {d} /\ None \notin Entries
    BY <1>1, Appended, XpollAssumption DEF TypeInv
  <1>3. ASSUME NEW e \in Entries PROVE SocksOf(e)' = SocksOf(e) /\ ClosersOf(e)' = ClosersOf(e) /\ PutsOf(e)' = PutsOf(e)
    BY <1>1 DEF SocksOf, ClosersOf, PutsOf, Now
  <1>4. ASSUME NEW e \in Entries, e # d PROVE Holders(e)' = Holders(e)
    <2>1. CallsOn(e)' = CallsOn(e)
      BY <1>1, <1>2, <1>4 DEF CallsOn, Now
    <2>2. (On(lru) \cap {e})' = On(lru) \cap {e}
      BY <1>2, <1>4 DEF On
    <2>3. QED BY <1>3, <2>1, <2>2 DEF Holders
  <1>5. Holders(d) = 0 /\ d \notin On(lru)
    BY <1>1, Dead DEF RefInv, TypeInv
  <1>6. Holders(d)' = 2
    <2>1. t \notin CallsOn(d) /\ CallsOn(d)' = CallsOn(d) \cup {t}
      BY <1>1, <1>2 DEF CallsOn, Now
    <2>2. On(lru) \cap {d} = {} /\ (On(lru) \cap {d})' = {d}
      BY <1>2, <1>5 DEF On
    <2>3. Cardinality(On(lru) \cap {d}) = 0 /\ Cardinality((On(lru) \cap {d})') = 1
      BY <2>2, FS_Singleton, FS_EmptySet
    <2>4. Cardinality(CallsOn(d)') = Cardinality(CallsOn(d)) + 1
      BY <2>1, Finite, Plus
    <2>5. QED BY <1>3, <1>5, <2>3, <2>4, Counted DEF Holders
  <1>7. QED BY <1>1, <1>4, <1>6 DEF RefInv, TypeInv

LEMMA RefGet ==
  ASSUME TypeInv, RefInv, NEW t \in Threads, get_poll_entry(t)
  PROVE  RefInv'
  <1>1. /\ th[t].pc = "mod" /\ th[t].back = "idle" /\ th[t].e = None /\ lru' = lru
        /\ UNCHANGED <<live, atts>>
    BY FxGet DEF pollVars, sockVars
  <1>2. CASE NowAt(t, "ret") /\ UNCHANGED ref
    <2>1. \A u \in Threads : \A e \in Entries : Holds(u, e)
      BY <1>1, <1>2 DEF Holds, NowAt, Now
    <2>2. QED BY <1>1, <1>2, <2>1, RefKeep
  <1>3. ASSUME NEW d \in Entries, d \in Registered(th[t].s), ref' = [ref EXCEPT ![d] = @ + 1],
               Now(t, "modev", th[t].s, d, th[t].cur, th[t].todo, th[t].hap, th[t].ev, "idle", th[t].eback)
        PROVE  RefInv'
    <2>1. None \notin Entries
      BY XpollAssumption
    <2>2. ASSUME NEW e \in Entries PROVE SocksOf(e)' = SocksOf(e) /\ ClosersOf(e)' = ClosersOf(e) /\ PutsOf(e)' = PutsOf(e) /\ On(lru)' = On(lru)
      BY <1>1, <1>3 DEF SocksOf, ClosersOf, PutsOf, Now, On
    <2>3. ASSUME NEW e \in Entries, e # d PROVE Holders(e)' = Holders(e)
      <3>1. CallsOn(e)' = CallsOn(e)
        BY <1>1, <1>3, <2>1, <2>3 DEF CallsOn, Now
      <3>2. QED BY <2>2, <3>1 DEF Holders
    <2>4. Holders(d)' = Holders(d) + 1
      <3>1. t \notin CallsOn(d) /\ CallsOn(d)' = CallsOn(d) \cup {t}
        BY <1>1, <1>3, <2>1 DEF CallsOn, Now
      <3>2. Cardinality(CallsOn(d)') = Cardinality(CallsOn(d)) + 1
        BY <3>1, Finite, Plus
      <3>3. PICK l, x, c, k, p \in Nat :
              /\ Cardinality(On(lru) \cap {d}) = l /\ Cardinality(SocksOf(d)) = x
              /\ Cardinality(ClosersOf(d)) = c /\ Cardinality(CallsOn(d)) = k
              /\ Cardinality(PutsOf(d)) = p /\ Holders(d) = l + x + c + k + p
        BY Counted
      <3>4. /\ Cardinality(CallsOn(d)') = k + 1 /\ ClosersOf(d)' = ClosersOf(d)
            /\ SocksOf(d)' = SocksOf(d) /\ PutsOf(d)' = PutsOf(d) /\ (On(lru) \cap {d})' = On(lru) \cap {d}
        BY <1>3, <2>2, <3>2, <3>3
      <3>5. QED BY <3>3, <3>4 DEF Holders
    <2>5. d \in live
      <3>1. CASE d \notin live
        <4>1. d \notin On(lru)
          BY <1>3, <3>1, Dead
        <4>2. QED BY <1>3, <4>1 DEF Registered
      <3>2. QED BY <3>1
    <2>6. QED BY <1>1, <1>3, <2>3, <2>4, <2>5 DEF RefInv, TypeInv
  <1>4. QED BY <1>2, <1>3, FxGet

LEMMA RefPuts ==
  ASSUME TypeInv, RefInv, NEW t \in Threads,
         EmitPut(t) \/ RmPut(t) \/ ModPut(t) \/ CloseUnref(t)
  PROVE  RefInv'
  <1>1. CASE EmitPut(t)
    BY <1>1, FxEmitPut, LetsGo DEF NowAt, Now, sockVars
  <1>2. CASE RmPut(t)
    BY <1>2, FxRmPut, LetsGo DEF Now, sockVars
  <1>3. CASE ModPut(t)
    BY <1>3, FxModPut, LetsGo DEF Now, sockVars
  <1>4. CASE CloseUnref(t)
    BY <1>4, FxCloseUnref, LetsGo DEF Now, sockVars
  <1>5. QED BY <1>1, <1>2, <1>3, <1>4

LEMMA RefEmits ==
  ASSUME TypeInv, ListInv, LockInv, RefInv, NEW t \in Threads,
         \/ EmitRead(t) \/ EmitDetached(t) \/ xpollbase_emit(t) \/ EmitEnd(t)
         \/ EmitBroken(t) \/ EmitAdded(t) \/ EmitModified(t)
  PROVE  RefInv'
  <1>1. CASE EmitRead(t)
    <2>1. \A u \in Threads : \A e \in Entries : Holds(u, e)
      BY <1>1, FxEmitRead DEF Now, Holds
    <2>2. QED BY <1>1, <2>1, FxEmitRead, RefKeep DEF pollVars, entVars, sockVars
  <1>2. CASE EmitDetached(t)
    BY <1>2, RefDetached
  <1>3. CASE xpollbase_emit(t)
    <2>1. \A u \in Threads : \A e \in Entries : Holds(u, e)
      BY <1>3, FxEmit DEF OnlyTo, Holds
    <2>2. On(lru') = On(lru)
      BY <1>3, FxEmit, MovedSame
    <2>3. QED BY <1>3, <2>1, <2>2, FxEmit, RefKeep DEF sockVars
  <1>4. CASE EmitEnd(t)
    <2>1. \A u \in Threads : \A e \in Entries : Holds(u, e)
      BY <1>4, FxEmitEnd DEF Now, NowIdle, Holds
    <2>2. QED BY <1>4, <2>1, FxEmitEnd, RefKeep DEF pollVars, entVars
  <1>5. ASSUME NEW from \in {"added", "modset", "broken"}, NEW eback \in {"idle", "ret", "modput"},
               emit_pollevents(t, from, eback)
        PROVE  RefInv'
    <2>1. \A u \in Threads : \A e \in Entries : Holds(u, e)
      BY <1>5, FxPollevents DEF Now, Holds
    <2>2. QED BY <1>5, <2>1, FxPollevents, RefKeep DEF pollVars, entVars
  <1>6. QED BY <1>1, <1>2, <1>3, <1>4, <1>5 DEF EmitBroken, EmitAdded, EmitModified

LEMMA RefCalls ==
  ASSUME TypeInv, ListInv, LifeInv, RefInv, NEW t \in Threads,
         \/ AddFails(t) \/ Fill(t) \/ rm_poll_entry(t) \/ Return(t) \/ xpoll_mod(t)
         \/ xpoll_wait(t) \/ Timeout(t) \/ CloseNext(t) \/ ClosePut(t) \/ CloseEnd(t)
  PROVE  RefInv'
  <1>1. CASE AddFails(t) \/ xpoll_wait(t) \/ Timeout(t)
    <2>1. \A u \in Threads : \A e \in Entries : Holds(u, e)
      BY <1>1, FxRet DEF NowAt, Now, Holds
    <2>2. QED BY <1>1, <2>1, FxRet, RefKeep DEF pollVars, entVars, sockVars
  <1>2. CASE Fill(t)
    <2>1. \A u \in Threads : \A e \in Entries : Holds(u, e)
      BY <1>2, FxFill DEF NowAt, Now, Holds
    <2>2. QED BY <1>2, <2>1, FxFill, RefKeep DEF pollVars, sockVars
  <1>3. CASE rm_poll_entry(t)
    <2>1. CASE NowAt(t, "ret") /\ lru' = lru
      <3>1. \A u \in Threads : \A e \in Entries : Holds(u, e)
        BY <1>3, <2>1, FxRm DEF NowAt, Now, Holds
      <3>2. QED BY <1>3, <2>1, <3>1, FxRm, RefKeep DEF entVars, sockVars
    <2>2. CASE ~ (NowAt(t, "ret") /\ lru' = lru)
      BY <1>3, <2>2, FxRm, RefUnlist DEF Now, entVars, sockVars
    <2>3. QED BY <2>1, <2>2
  <1>4. CASE Return(t)
    <2>1. \A u \in Threads : \A e \in Entries : Holds(u, e)
      BY <1>4, FxReturn DEF NowAt, NowIdle, Now, Holds
    <2>2. QED BY <1>4, <2>1, FxReturn, RefKeep DEF entVars, sockVars
  <1>5. CASE xpoll_mod(t)
    <2>1. \A u \in Threads : \A e \in Entries : Holds(u, e)
      BY <1>5, FxMod DEF NowAt, Now, Holds
    <2>2. QED BY <1>5, <2>1, FxMod, RefKeep DEF pollVars, sockVars
  <1>6. CASE CloseNext(t)
    <2>1. CASE NowAt(t, "ret2") /\ lru' = lru
      <3>1. \A u \in Threads : \A e \in Entries : Holds(u, e)
        BY <1>6, <2>1, FxCloseNext DEF NowAt, Now, Holds
      <3>2. QED BY <1>6, <2>1, <3>1, FxCloseNext, RefKeep DEF entVars, sockVars
    <2>2. CASE ~ (NowAt(t, "ret2") /\ lru' = lru)
      BY <1>6, <2>2, FxCloseNext, RefUnlist DEF Now, entVars, sockVars
    <2>3. QED BY <2>1, <2>2
  <1>7. CASE ClosePut(t)
    <2>1. \A u \in Threads : \A e \in Entries : Holds(u, e)
      BY <1>7, FxClosePut DEF Now, Holds
    <2>2. QED BY <1>7, <2>1, FxClosePut, RefKeep DEF entVars, sockVars
  <1>8. CASE CloseEnd(t)
    <2>1. \A u \in Threads : \A e \in Entries : Holds(u, e)
      BY <1>8, FxCloseEnd, NoneOn DEF NowIdle, Now, Holds
    <2>2. QED BY <1>8, <2>1, FxCloseEnd, RefKeep DEF pollVars, entVars
  <1>9. QED BY <1>1, <1>2, <1>3, <1>4, <1>5, <1>6, <1>7, <1>8

LEMMA RefStep ==
  ASSUME TypeInv, ListInv, MakeInv, LockInv, LifeInv, RefInv, NEW t \in Threads, Begin(t) \/ Inside(t)
  PROVE  RefInv'
  BY RefBegin, RefPuts, RefEmits, RefCalls, RefAdd, RefAttach, RefGet, RefSplice, RefWalk DEF Inside

----------------------------------------------------------------------------
(* Lists, and the descriptors of their entries.                             *)

\* What is put by a thread leaves the fields of all other entries in use alone.
LEMMA PutFrame ==
  ASSUME TypeInv, RefInv, NEW t \in Threads, NEW d \in Entries, poll_entry_put(d),
         th[t].e = d \/ t \in PutsOf(d)
  PROVE  \A e \in Entries :
           \/ e # d \/ e \in On(lru) \/ (\E s \in Socks : e \in On(atts[s]))
           \/ (\E u \in Threads \ {t} : th[u].e = e)
           => fdof'[e] = fdof[e] /\ events'[e] = events[e] /\ happened'[e] = happened[e]
  <1>1. CASE ref[d] > 1
    BY <1>1 DEF poll_entry_put, Unref
  <1>2. CASE ~ ref[d] > 1
    <2>1. /\ fdof' = [fdof EXCEPT ![d] = None] /\ events' = [events EXCEPT ![d] = {}]
          /\ happened' = [happened EXCEPT ![d] = {}]
      BY <1>2 DEF poll_entry_put, Unref
    <2>2. /\ d \notin On(lru) /\ \A s \in Socks : d \notin On(atts[s])
          /\ \A u \in Threads \ {t} : th[u].e # d
      BY <1>2, Alone
    <2>3. QED BY <2>1, <2>2 DEF TypeInv
  <1>3. QED BY <1>1, <1>2

\* The steps that put an entry, as one.
PutStep(t, d) ==
  /\ d \in Entries /\ poll_entry_put(d)
  /\ UNCHANGED <<lru, pclosed, sockVars>> /\ \A u \in Threads \ {t} : th'[u] = th[u]
  /\ th'[t].back = th[t].back /\ th'[t].todo = th[t].todo /\ th'[t].s = th[t].s
  /\ th'[t].hap = th[t].hap /\ th'[t].ev = th[t].ev /\ th'[t].eback = th[t].eback
  /\ <<th[t].pc, th'[t].pc>> \in {<<"eput", "emit">>, <<"rmput", "close">>, <<"rmput", "ret">>,
                                  <<"modput", "ret">>, <<"unref", "walk">>}
  /\ th[t].pc \in {"eput", "rmput"} => th[t].cur = d /\ th'[t].e = th[t].e
  /\ th[t].pc \notin {"eput", "rmput"} => th[t].e = d /\ th'[t].e = None
  /\ th'[t].pc = "close" <=> th[t].back = "close"
  /\ th[t].pc \in {"eput", "modput"} => th[t].back = "idle"

LEMMA PutSteps ==
  ASSUME TypeInv, NEW t \in Threads, EmitPut(t) \/ RmPut(t) \/ ModPut(t) \/ CloseUnref(t)
  PROVE  \E d \in Entries : PutStep(t, d) /\ (th[t].e = d \/ t \in PutsOf(d))
  <1>1. CASE EmitPut(t)
    BY <1>1, FxEmitPut DEF NowAt, Now, PutStep, PutsOf
  <1>2. CASE RmPut(t)
    BY <1>2, FxRmPut DEF Now, PutStep, PutsOf
  <1>3. CASE ModPut(t)
    BY <1>3, FxModPut DEF Now, PutStep
  <1>4. CASE CloseUnref(t)
    BY <1>4, FxCloseUnref DEF Now, PutStep
  <1>5. QED BY <1>1, <1>2, <1>3, <1>4

LEMMA ListKeep ==
  ASSUME ListInv, On(lru') \subseteq On(lru), Once(lru'),
         \A s \in Socks : Once(atts'[s]) /\ On(atts'[s]) \subseteq On(atts[s]),
         \A e \in On(lru') : fdof'[e] = fdof[e],
         \A s \in Socks : \A e \in On(atts'[s]) : fdof'[e] = fdof[e],
         \A u \in Threads : Makes(th'[u]) \/ th'[u].pc = "modev" =>
           /\ Makes(th[u]) \/ th[u].pc = "modev"
           /\ th'[u].e = th[u].e /\ th'[u].s = th[u].s /\ fdof'[th[u].e] = fdof[th[u].e]
  PROVE  ListInv'
  BY DEF ListInv

LEMMA ListPuts ==
  ASSUME TypeInv, ListInv, RefInv, NEW t \in Threads,
         EmitPut(t) \/ RmPut(t) \/ ModPut(t) \/ CloseUnref(t)
  PROVE  ListInv'
  <1>1. PICK d \in Entries : PutStep(t, d) /\ (th[t].e = d \/ t \in PutsOf(d))
    BY PutSteps
  <1>2. \A e \in Entries :
           \/ e \in On(lru) \/ (\E s \in Socks : e \in On(atts[s]))
           \/ (\E u \in Threads \ {t} : th[u].e = e)
           => fdof'[e] = fdof[e]
    BY <1>1, PutFrame DEF PutStep
  <1>3. \A u \in Threads \ {t} : Makes(th[u]) \/ th[u].pc = "modev" => th[u].e \in Entries
    BY Threading DEF Shape, OnEntry, Local
  <1>4. ~ Makes(th'[t]) /\ th'[t].pc # "modev"
    BY <1>1 DEF PutStep, Makes
  <1>5. /\ lru' = lru /\ atts' = atts /\ \A e \in On(lru) : e \in Entries
        /\ \A s \in Socks : \A e \in On(atts[s]) : e \in Entries
    BY <1>1 DEF PutStep, sockVars, TypeInv, On
  <1>6. /\ \A e \in On(lru') : fdof'[e] = fdof[e]
        /\ \A s \in Socks : \A e \in On(atts'[s]) : fdof'[e] = fdof[e]
        /\ \A u \in Threads \ {t} : th'[u] = th[u]
    BY <1>1, <1>2, <1>5 DEF PutStep
  <1>7. /\ On(lru') \subseteq On(lru) /\ Once(lru')
        /\ \A s \in Socks : Once(atts'[s]) /\ On(atts'[s]) \subseteq On(atts[s])
    BY <1>5 DEF ListInv
  <1>8. QED BY <1>2, <1>3, <1>4, <1>6, <1>7, ListKeep

LEMMA ListAdd ==
  ASSUME TypeInv, ListInv, RefInv, NEW t \in Threads, add_poll_entry(t)
  PROVE  ListInv'
  <1>1. PICK d \in Entries \ live :
          /\ Now(t, "fill", th[t].s, d, th[t].cur, th[t].todo, th[t].hap, th[t].ev, "idle", th[t].eback)
          /\ th[t].s \in Socks
          /\ fdof' = [fdof EXCEPT ![d] = th[t].s] /\ lru' = Append(lru, d) /\ UNCHANGED atts
    BY FxAdd DEF sockVars
  <1>2. /\ d \notin On(lru) /\ \A s \in Socks : d \notin On(atts[s])
        /\ \A u \in Threads : th[u].e # d
    BY <1>1, Dead
  <1>3. On(lru') = On(lru) \cup {d} /\ Once(lru')
    BY <1>1, <1>2, Appended DEF TypeInv, ListInv
  <1>4. fdof'[d] = th[t].s /\ \A e \in Entries \ {d} : fdof'[e] = fdof[e]
    BY <1>1 DEF TypeInv
  <1>5. /\ \A e \in On(lru) : e \in Entries
        /\ \A s \in Socks : \A e \in On(atts[s]) : e \in Entries
    BY DEF TypeInv, On
  <1>6. ASSUME NEW u \in Threads, Makes(th'[u]) \/ th'[u].pc = "modev" PROVE fdof'[th'[u].e] = th'[u].s
    <2>1. CASE u = t
      BY <1>1, <1>4, <2>1 DEF Now
    <2>2. CASE u # t
      <3>1. th'[u] = th[u]
        BY <1>1, <2>2 DEF Now
      <3>2. th[u].e \in Entries /\ fdof[th[u].e] = th[u].s
        BY <1>6, <3>1, Threading DEF Shape, OnEntry, Local, ListInv
      <3>3. QED BY <1>2, <1>4, <3>1, <3>2
    <2>3. QED BY <2>1, <2>2
  <1>7. /\ \A s \in Socks : Once(atts'[s])
        /\ \A e \in On(lru') : fdof'[e] \in Socks
        /\ \A s \in Socks : \A e \in On(atts'[s]) : fdof'[e] = s
    BY <1>1, <1>2, <1>3, <1>4, <1>5 DEF ListInv
  <1>8. QED BY <1>3, <1>6, <1>7 DEF ListInv

LEMMA ListAttach ==
  ASSUME TypeInv, ListInv, MakeInv, NEW t \in Threads, add_pollbase(t)
  PROVE  ListInv'
  <1>1. /\ Now(t, "added", th[t].s, None, th[t].cur, th[t].todo, th[t].hap, th[t].ev, "idle", th[t].eback)
        /\ th[t].pc = "attach" /\ th[t].s \in Socks /\ th[t].e \in Entries
        /\ lru' = lru /\ fdof' = fdof
        /\ atts' = [atts EXCEPT ![th[t].s] = Append(@, th[t].e)]
    BY FxAttach DEF pollVars, entVars
  <1>2. th[t].e \notin On(atts[th[t].s]) /\ fdof[th[t].e] = th[t].s
    BY <1>1 DEF MakeInv, ListInv, Makes
  <1>3. /\ On(atts'[th[t].s]) = On(atts[th[t].s]) \cup {th[t].e} /\ Once(atts'[th[t].s])
        /\ \A s \in Socks \ {th[t].s} : atts'[s] = atts[s]
    BY <1>1, <1>2, Appended DEF TypeInv, ListInv
  <1>4. \A s \in Socks : Once(atts'[s]) /\ \A e \in On(atts'[s]) : fdof'[e] = s
    BY <1>1, <1>2, <1>3 DEF ListInv
  <1>5. \A u \in Threads : Makes(th'[u]) \/ th'[u].pc = "modev" => fdof'[th'[u].e] = th'[u].s
    BY <1>1 DEF ListInv, Makes, Now
  <1>6. Once(lru') /\ \A e \in On(lru') : fdof'[e] \in Socks
    BY <1>1 DEF ListInv
  <1>7. QED BY <1>4, <1>5, <1>6 DEF ListInv

\* The lists and the descriptors stay; whoever makes or changes an entry did so before.
LEMMA ListStay ==
  ASSUME ListInv, UNCHANGED <<lru, atts, fdof>>,
         \A u \in Threads : Makes(th'[u]) \/ th'[u].pc = "modev" =>
           /\ Makes(th[u]) \/ th[u].pc = "modev"
           /\ th'[u].e = th[u].e /\ th'[u].s = th[u].s
  PROVE  ListInv'
  BY ListKeep DEF ListInv

LEMMA ListLess ==
  ASSUME TypeInv, ListInv, NEW t \in Threads, rm_poll_entry(t) \/ CloseNext(t) \/ EmitDetached(t) \/ __xclose(t)
  PROVE  ListInv'
  <1>1. /\ fdof' = fdof /\ \A u \in Threads \ {t} : th'[u] = th[u]
        /\ ~ Makes(th'[t]) /\ th'[t].pc # "modev"
    BY FxRm, FxCloseNext, FxDetached, FxSplice DEF NowAt, Now, entVars, Makes
  <1>2. On(lru') \subseteq On(lru) /\ Once(lru')
    <2>1. CASE lru' = lru
      BY <2>1 DEF ListInv
    <2>2. CASE lru' # lru
      <3>1. \E e : lru' = Without(lru, e)
        BY <2>2, FxRm, FxCloseNext, FxDetached, FxSplice DEF pollVars
      <3>2. QED BY <3>1, Removed DEF TypeInv, ListInv
    <2>3. QED BY <2>1, <2>2
  <1>3. ASSUME NEW s \in Socks PROVE Once(atts'[s]) /\ On(atts'[s]) \subseteq On(atts[s])
    <2>1. CASE rm_poll_entry(t) \/ CloseNext(t)
      BY <2>1, FxRm, FxCloseNext DEF sockVars, ListInv
    <2>2. CASE EmitDetached(t)
      <3>1. atts' = [atts EXCEPT ![th[t].s] = Without(@, th[t].cur)]
        BY <2>2, FxDetached
      <3>2. QED BY <3>1, Removed DEF TypeInv, ListInv
    <2>3. CASE __xclose(t)
      <3>1. atts' = [atts EXCEPT ![th[t].s] = <<>>]
        BY <2>3, FxSplice
      <3>2. QED BY <3>1, NoneOn DEF TypeInv, ListInv
    <2>4. QED BY <2>1, <2>2, <2>3
  <1>4. QED BY <1>1, <1>2, <1>3, ListKeep

LEMMA ListRest ==
  ASSUME TypeInv, ListInv, NEW t \in Threads,
         \/ EmitRead(t) \/ EmitEnd(t) \/ EmitBroken(t) \/ EmitAdded(t) \/ EmitModified(t)
         \/ AddFails(t) \/ Fill(t) \/ Return(t) \/ xpoll_mod(t) \/ xpoll_wait(t) \/ Timeout(t)
         \/ ClosePut(t) \/ xpollbase_close(t) \/ CloseEnd(t)
  PROVE  ListInv'
  <1>1. CASE \/ EmitRead(t) \/ EmitEnd(t) \/ AddFails(t) \/ xpoll_wait(t) \/ Timeout(t) \/ CloseEnd(t)
             \/ Fill(t) \/ xpoll_mod(t)
    BY <1>1, ListStay, FxEmitRead, FxEmitEnd, FxRet, FxCloseEnd, FxFill, FxMod
    DEF Makes, NowAt, NowIdle, Now, pollVars, entVars, sockVars
  <1>2. CASE Return(t) \/ ClosePut(t) \/ xpollbase_close(t)
    BY <1>2, ListStay, FxReturn, FxClosePut, FxWalk
    DEF Makes, NowAt, NowIdle, Now, entVars, sockVars
  <1>3. ASSUME NEW from \in {"added", "modset", "broken"}, NEW eback \in {"idle", "ret", "modput"},
               emit_pollevents(t, from, eback)
        PROVE  ListInv'
    BY <1>3, ListStay, FxPollevents DEF Makes, Now, pollVars, entVars
  <1>4. QED BY <1>1, <1>2, <1>3 DEF EmitBroken, EmitAdded, EmitModified

LEMMA ListStep ==
  ASSUME TypeInv, ListInv, MakeInv, RefInv, NEW t \in Threads, Begin(t) \/ Inside(t)
  PROVE  ListInv'
  <1>1. CASE Begin(t)
    BY <1>1, Begins, ListStay DEF Starts, Makes, entVars
  <1>2. CASE xpollbase_emit(t)
    <2>1. On(lru') = On(lru) /\ Once(lru')
      BY <1>2, FxEmit, MovedSame
    <2>2. \A u \in Threads : Makes(th'[u]) \/ th'[u].pc = "modev" =>
            /\ Makes(th[u]) \/ th[u].pc = "modev"
            /\ th'[u].e = th[u].e /\ th'[u].s = th[u].s
      BY <1>2, FxEmit DEF OnlyTo, Makes
    <2>3. fdof' = fdof /\ atts' = atts
      BY <1>2, FxEmit DEF sockVars
    <2>4. \A s \in Socks : Once(atts'[s]) /\ On(atts'[s]) \subseteq On(atts[s])
      BY <2>3 DEF ListInv
    <2>5. QED BY <2>1, <2>2, <2>3, <2>4, ListKeep
  <1>3. CASE get_poll_entry(t)
    <2>1. lru' = lru /\ atts' = atts /\ fdof' = fdof
      BY <1>3, FxGet DEF pollVars, sockVars
    <2>2. \A u \in Threads : Makes(th'[u]) \/ th'[u].pc = "modev" => fdof'[th'[u].e] = th'[u].s
      BY <1>3, <2>1, FxGet DEF Registered, ListInv, Makes, NowAt, Now
    <2>3. QED BY <2>1, <2>2 DEF ListInv
  <1>4. QED BY <1>1, <1>2, <1>3, ListPuts, ListAdd, ListAttach, ListLess, ListRest DEF Inside

----------------------------------------------------------------------------
(* The locks of the sockets.                                                *)

\* The calls that neither emit nor attach.
Aside(t) ==
  /\ UNCHANGED <<lock, cond, atts>> /\ \A u \in Threads \ {t} : th'[u] = th[u]
  /\ ~ Emits(th[t]) /\ ~ Emits(th'[t])

LEMMA Asides ==
  ASSUME TypeInv, NEW t \in Threads,
         \/ add_poll_entry(t) \/ AddFails(t) \/ Fill(t) \/ rm_poll_entry(t) \/ RmPut(t) \/ Return(t)
         \/ get_poll_entry(t) \/ xpoll_mod(t) \/ ModPut(t) \/ xpoll_wait(t) \/ Timeout(t)
         \/ CloseNext(t) \/ ClosePut(t) \/ xpollbase_close(t) \/ CloseUnref(t) \/ CloseEnd(t)
  PROVE  Aside(t)
  <1>1. CASE add_poll_entry(t)
    BY <1>1, FxAdd DEF Aside, Emits, Now, sockVars
  <1>2. CASE AddFails(t) \/ xpoll_wait(t) \/ Timeout(t)
    BY <1>2, FxRet DEF Aside, Emits, NowAt, Now, sockVars
  <1>3. CASE Fill(t) \/ xpoll_mod(t)
    BY <1>3, FxFill, FxMod DEF Aside, Emits, NowAt, Now, sockVars
  <1>4. CASE rm_poll_entry(t)
    BY <1>4, FxRm DEF Aside, Emits, NowAt, Now, sockVars
  <1>5. CASE CloseNext(t)
    BY <1>5, FxCloseNext DEF Aside, Emits, NowAt, Now, sockVars
  <1>6. CASE RmPut(t)
    BY <1>6, FxRmPut DEF Aside, Emits, Now, sockVars
  <1>7. CASE ModPut(t) \/ CloseUnref(t)
    BY <1>7, FxModPut, FxCloseUnref DEF Aside, Emits, Now, sockVars
  <1>8. CASE Return(t)
    BY <1>8, FxReturn DEF Aside, Emits, NowAt, NowIdle, Now, sockVars
  <1>9. CASE get_poll_entry(t)
    BY <1>9, FxGet DEF Aside, Emits, NowAt, Now, sockVars
  <1>10. CASE ClosePut(t) \/ xpollbase_close(t)
    BY <1>10, FxClosePut, FxWalk DEF Aside, Emits, Now, sockVars
  <1>11. CASE CloseEnd(t)
    BY <1>11, FxCloseEnd DEF Aside, Emits, NowIdle, Now
  <1>12. QED BY <1>1, <1>2, <1>3, <1>4, <1>5, <1>6, <1>7, <1>8, <1>9, <1>10, <1>11

\* A socket has one thread that emits, the holder of its lock.
LEMMA Emitter ==
  ASSUME TypeInv, LockInv, NEW t \in Threads, Emits(th[t])
  PROVE  /\ th[t].s \in Socks /\ lock[th[t].s] = t
         /\ \A u \in Threads : Emits(th[u]) /\ th[u].s = th[t].s => u = t
  <1>1. th[t].s \in Socks
    BY Threading DEF Shape, OnSock
  <1>2. QED BY <1>1 DEF LockInv

LEMMA LockKeep ==
  ASSUME TypeInv, LockInv, lock' = lock,
         \A u \in Threads : Emits(th'[u]) <=> Emits(th[u]),
         \A u \in Threads : Emits(th[u]) =>
           /\ th'[u].s = th[u].s /\ th'[u].hap = th[u].hap /\ cond'[th[u].s] = cond[th[u].s]
           /\ Once(th'[u].todo) /\ On(th'[u].todo) \subseteq On(atts'[th[u].s])
           /\ th'[u].pc = "apply" => th'[u].cur \in On(atts'[th[u].s]) \ On(th'[u].todo)
  PROVE  LockInv'
  <1>1. \A s \in Socks : \A u \in Threads : lock'[s] = u <=> Emits(th'[u]) /\ th'[u].s = s
    BY DEF LockInv
  <1>2. \A u \in Threads : Emits(th'[u]) =>
           /\ th'[u].hap = cond'[th'[u].s]
           /\ Once(th'[u].todo) /\ On(th'[u].todo) \subseteq On(atts'[th'[u].s])
           /\ th'[u].pc = "apply" => th'[u].cur \in On(atts'[th'[u].s]) \ On(th'[u].todo)
    BY DEF LockInv
  <1>3. QED BY <1>1, <1>2 DEF LockInv, Emits

\* The thread that emits goes on.
LEMMA LockGoesOn ==
  ASSUME TypeInv, LockInv, lock' = lock, cond' = cond, NEW t \in Threads,
         Emits(th[t]), Emits(th'[t]), th'[t].s = th[t].s, th'[t].hap = th[t].hap,
         Once(th'[t].todo), On(th'[t].todo) \subseteq On(atts'[th[t].s]),
         th'[t].pc = "apply" => th'[t].cur \in On(atts'[th[t].s]) \ On(th'[t].todo),
         \A u \in Threads \ {t} : Emits(th[u]) \/ Emits(th'[u]) =>
           th'[u] = th[u] /\ atts'[th[u].s] = atts[th[u].s]
  PROVE  LockInv'
  <1>1. \A u \in Threads : Emits(th'[u]) <=> Emits(th[u])
    OBVIOUS
  <1>2. ASSUME NEW u \in Threads, Emits(th[u])
        PROVE  /\ th'[u].s = th[u].s /\ th'[u].hap = th[u].hap /\ cond'[th[u].s] = cond[th[u].s]
               /\ Once(th'[u].todo) /\ On(th'[u].todo) \subseteq On(atts'[th[u].s])
               /\ th'[u].pc = "apply" => th'[u].cur \in On(atts'[th[u].s]) \ On(th'[u].todo)
    <2>1. CASE u = t
      BY <2>1
    <2>2. CASE u # t
      BY <1>2, <2>2 DEF LockInv
    <2>3. QED BY <2>1, <2>2
  <1>3. QED BY <1>1, <1>2, LockKeep

\* Nobody emits on a socket whose lock is free.
LEMMA LockFree ==
  ASSUME TypeInv, LockInv, NEW s \in Socks, lock[s] = None, lock' = lock,
         \A x \in Socks \ {s} : cond'[x] = cond[x] /\ atts'[x] = atts[x],
         \A u \in Threads : Emits(th'[u]) \/ Emits(th[u]) => th'[u] = th[u]
  PROVE  LockInv'
  <1>1. \A u \in Threads : Emits(th[u]) => th[u].s # s /\ th[u].s \in Socks
    BY Emitter, XpollAssumption
  <1>2. \A u \in Threads : Emits(th'[u]) <=> Emits(th[u])
    OBVIOUS
  <1>3. \A u \in Threads : Emits(th[u]) =>
           /\ th'[u].s = th[u].s /\ th'[u].hap = th[u].hap /\ cond'[th[u].s] = cond[th[u].s]
           /\ Once(th'[u].todo) /\ On(th'[u].todo) \subseteq On(atts'[th[u].s])
           /\ th'[u].pc = "apply" => th'[u].cur \in On(atts'[th[u].s]) \ On(th'[u].todo)
    BY <1>1 DEF LockInv
  <1>4. QED BY <1>2, <1>3, LockKeep

LEMMA LockTake ==
  ASSUME TypeInv, ListInv, LockInv, NEW t \in Threads, NEW s \in Socks, lock[s] = None,
         lock' = [lock EXCEPT ![s] = t], atts' = atts,
         \A x \in Socks \ {s} : cond'[x] = cond[x],
         \A u \in Threads \ {t} : th'[u] = th[u],
         ~ Emits(th[t]), th'[t].pc = "emit", th'[t].s = s, th'[t].hap = cond'[s], th'[t].todo = atts[s]
  PROVE  LockInv'
  <1>1. lock'[s] = t /\ \A x \in Socks \ {s} : lock'[x] = lock[x]
    BY DEF TypeInv
  <1>2. \A u \in Threads : Emits(th[u]) => th[u].s # s /\ th[u].s \in Socks
    BY Emitter, XpollAssumption
  <1>3. Emits(th'[t])
    BY DEF Emits
  <1>4. ASSUME NEW x \in Socks, NEW u \in Threads PROVE lock'[x] = u <=> Emits(th'[u]) /\ th'[u].s = x
    <2>1. CASE u = t
      BY <1>1, <1>3, <2>1 DEF LockInv
    <2>2. CASE u # t
      BY <1>1, <1>2, <2>2 DEF LockInv
    <2>3. QED BY <2>1, <2>2
  <1>5. ASSUME NEW u \in Threads, Emits(th'[u])
        PROVE  /\ th'[u].hap = cond'[th'[u].s]
               /\ Once(th'[u].todo) /\ On(th'[u].todo) \subseteq On(atts'[th'[u].s])
               /\ th'[u].pc = "apply" => th'[u].cur \in On(atts'[th'[u].s]) \ On(th'[u].todo)
    <2>1. CASE u = t
      BY <2>1 DEF ListInv
    <2>2. CASE u # t
      BY <1>2, <1>5, <2>2 DEF LockInv
    <2>3. QED BY <2>1, <2>2
  <1>6. QED BY <1>4, <1>5 DEF LockInv, Emits

LEMMA LockEmission ==
  ASSUME TypeInv, ListInv, LockInv, NEW t \in Threads,
         EmitRead(t) \/ EmitDetached(t) \/ EmitPut(t) \/ xpollbase_emit(t)
  PROVE  LockInv'
  <1>1. Emits(th[t]) /\ lock' = lock /\ cond' = cond /\ th[t].todo \in Seq(Entries)
    BY FxEmitRead, FxDetached, FxEmitPut, FxEmit, Threading DEF Emits, sockVars, Local
  <1>2. \A u \in Threads : Emits(th[u]) => th[u].s \in Socks /\ (th[u].s = th[t].s => u = t)
    BY <1>1, Emitter
  <1>3. CASE EmitRead(t)
    <2>1. /\ Once(Tail(th[t].todo)) /\ On(Tail(th[t].todo)) = On(th[t].todo) \ {Head(th[t].todo)}
          /\ Head(th[t].todo) \in On(th[t].todo)
      BY <1>1, <1>3, FxEmitRead, Headed DEF LockInv
    <2>2. /\ \A u \in Threads : Emits(th'[u]) <=> Emits(th[u])
          /\ \A u \in Threads \ {t} : th'[u] = th[u]
          /\ th'[t].s = th[t].s /\ th'[t].hap = th[t].hap /\ th'[t].todo = Tail(th[t].todo)
          /\ th'[t].cur = Head(th[t].todo) /\ atts' = atts /\ Emits(th'[t])
      BY <1>3, FxEmitRead DEF Now, Emits, sockVars
    <2>3. On(th[t].todo) \subseteq On(atts[th[t].s])
      BY <1>1 DEF LockInv
    <2>4. QED BY <1>1, <2>1, <2>2, <2>3, LockGoesOn
  <1>4. CASE EmitDetached(t)
    <2>1. PICK s \in Socks : s = th[t].s
      BY <1>1, Emitter
    <2>2. /\ Once(atts[s]) /\ atts[s] \in Seq(Entries) /\ th[t].cur \notin On(th[t].todo)
          /\ atts' = [atts EXCEPT ![s] = Without(@, th[t].cur)]
      BY <1>1, <1>4, <2>1, FxDetached DEF LockInv, ListInv, TypeInv
    <2>3. On(atts'[s]) = On(atts[s]) \ {th[t].cur} /\ \A x \in Socks \ {s} : atts'[x] = atts[x]
      BY <2>2, Removed DEF TypeInv
    <2>4. /\ \A u \in Threads : Emits(th'[u]) <=> Emits(th[u])
          /\ \A u \in Threads \ {t} : th'[u] = th[u]
          /\ th'[t].s = th[t].s /\ th'[t].hap = th[t].hap /\ th'[t].todo = th[t].todo /\ th'[t].pc = "eput"
      BY <1>4, FxDetached DEF NowAt, Now, Emits
    <2>5. \A u \in Threads \ {t} : Emits(th[u]) => atts'[th[u].s] = atts[th[u].s]
      BY <1>2, <2>1, <2>3
    <2>6. Once(th[t].todo) /\ On(th[t].todo) \subseteq On(atts'[s])
      BY <1>1, <2>1, <2>2, <2>3 DEF LockInv
    <2>7. QED BY <1>1, <2>1, <2>4, <2>5, <2>6, LockKeep DEF LockInv
  <1>5. CASE EmitPut(t)
    <2>1. /\ \A u \in Threads : Emits(th'[u]) <=> Emits(th[u])
          /\ \A u \in Threads \ {t} : th'[u] = th[u]
          /\ th'[t].s = th[t].s /\ th'[t].hap = th[t].hap /\ th'[t].todo = th[t].todo
          /\ th'[t].pc = "emit" /\ atts' = atts
      BY <1>5, FxEmitPut DEF NowAt, Now, Emits, sockVars
    <2>2. QED BY <1>1, <2>1, LockGoesOn DEF LockInv, Emits
  <1>6. CASE xpollbase_emit(t)
    <2>1. /\ \A u \in Threads : Emits(th'[u]) <=> Emits(th[u])
          /\ \A u \in Threads \ {t} : th[u].pc = "sleep" \/ th'[u] = th[u]
          /\ th'[t].s = th[t].s /\ th'[t].hap = th[t].hap /\ th'[t].todo = th[t].todo
          /\ th'[t].pc = "emit" /\ atts' = atts
      BY <1>6, FxEmit DEF OnlyTo, Emits, sockVars
    <2>2. \A u \in Threads \ {t} : Emits(th[u]) => th'[u] = th[u]
      BY <2>1 DEF Emits
    <2>3. QED BY SMTT(60), <1>1, <2>1, <2>2, LockGoesOn DEF LockInv, Emits
  <1>7. QED BY <1>3, <1>4, <1>5, <1>6

LEMMA LockEnd ==
  ASSUME TypeInv, LockInv, NEW t \in Threads, EmitEnd(t)
  PROVE  LockInv'
  <1>1. /\ Emits(th[t]) /\ lock' = [lock EXCEPT ![th[t].s] = None] /\ UNCHANGED <<atts, cond>>
        /\ ~ Emits(th'[t]) /\ \A u \in Threads \ {t} : th'[u] = th[u]
    BY FxEmitEnd DEF NowIdle, Now, Emits
  <1>2. PICK s \in Socks : s = th[t].s
    BY <1>1, Emitter
  <1>3. \A u \in Threads \ {t} : Emits(th[u]) => th[u].s \in Socks /\ th[u].s # s
    BY <1>1, <1>2, Emitter
  <1>4. lock'[s] = None /\ \A x \in Socks \ {s} : lock'[x] = lock[x]
    BY <1>1, <1>2 DEF TypeInv
  <1>5. ASSUME NEW x \in Socks, NEW u \in Threads PROVE lock'[x] = u <=> Emits(th'[u]) /\ th'[u].s = x
    <2>1. u # None
      BY XpollAssumption
    <2>2. QED BY <1>1, <1>2, <1>3, <1>4, <2>1 DEF LockInv
  <1>6. QED BY <1>1, <1>5 DEF LockInv, Emits

LEMMA LockStep ==
  ASSUME TypeInv, ListInv, LockInv, NEW t \in Threads, Begin(t) \/ Inside(t)
  PROVE  LockInv'
  <1>1. ASSUME NEW s \in Socks, Change(t, s) PROVE LockInv'
    <2>1. \A x \in Socks \ {s} : cond'[x] = cond[x]
      BY <1>1, FxChange DEF TypeInv
    <2>2. QED BY <1>1, <2>1, FxChange, LockTake DEF Now, Emits
  <1>2. ASSUME NEW s \in Socks, Break(t, s) PROVE LockInv'
    <2>1. \A x \in Socks \ {s} : cond'[x] = cond[x]
      BY <1>2, FxBreak DEF TypeInv
    <2>2. QED BY <1>2, <2>1, FxBreak, LockFree DEF Now, Emits
  <1>3. ASSUME Aside(t) PROVE LockInv'
    BY <1>3, LockKeep DEF Aside, LockInv
  <1>4. CASE Begin(t)
    <2>1. ASSUME NEW s, NEW pc \in {"add", "mod", "ret", "rm", "wait"}, Call(t, s, pc) PROVE Aside(t)
      BY <2>1, FxCall DEF Now, Aside, Emits, sockVars
    <2>2. ASSUME NEW s \in Socks, xclose(t, s) PROVE Aside(t)
      BY <2>2, FxXclose DEF Now, Aside, Emits
    <2>3. ASSUME xpoll_close(t) PROVE Aside(t)
      BY <2>3, FxPollClose DEF Now, Aside, Emits, sockVars
    <2>4. QED BY <1>1, <1>2, <1>3, <1>4, <2>1, <2>2, <2>3 DEF Begin, CallAdd, CallMod, CallRm, CallWait
  <1>5. ASSUME NEW from \in {"added", "modset", "broken"}, NEW eback \in {"idle", "ret", "modput"},
               emit_pollevents(t, from, eback)
        PROVE  LockInv'
    BY <1>5, FxPollevents, LockTake DEF Now, Emits
  <1>6. CASE add_pollbase(t) \/ __xclose(t)
    <2>1. /\ th[t].s \in Socks /\ lock[th[t].s] = None /\ lock' = lock /\ cond' = cond
          /\ \A u \in Threads : Emits(th'[u]) \/ Emits(th[u]) => th'[u] = th[u]
          /\ \A x \in Socks \ {th[t].s} : atts'[x] = atts[x]
      BY <1>6, FxAttach, FxSplice DEF Now, Emits, TypeInv
    <2>2. QED BY <2>1, LockFree
  <1>7. QED BY <1>3, <1>4, <1>5, <1>6, Asides, LockEmission, LockEnd
        DEF Inside, EmitBroken, EmitAdded, EmitModified

----------------------------------------------------------------------------
(* The life of the sockets, and of the poll.                                *)

Adds(x) == x.pc \in {"add", "fill", "attach", "added"} \/ (Emits(x) /\ x.eback = "ret")

LEMMA AddingIs == \A s : Adding(s) = {t \in Threads : th[t].s = s /\ Adds(th[t])}
  BY DEF Adding, Adds, Emits

LEMMA AddingNext == \A s : Adding(s)' = {t \in Threads : th'[t].s = s /\ Adds(th'[t])}
  BY DEF Adding, Adds, Emits

LEMMA Sockets ==
  ASSUME TypeInv
  PROVE  \A u \in Threads : \/ Adds(th[u]) \/ th[u].pc = "xclose" \/ th[u].back = "unref"
                            => th[u].s \in Socks
  BY Threading DEF Shape, OnSock, Makes, Adds

LEMMA LifeKeep ==
  ASSUME TypeInv, TypeInv', LifeInv,
         \A x \in Socks : life[x] # "open" => life'[x] # "open",
         \A x \in Socks : life'[x] # "open" => Adding(x) = {},
         \A x \in Socks : life'[x] = "closed" => atts[x] = <<>>,
         \A x \in Socks : life'[x] # "open" /\ atts[x] = <<>> => atts'[x] = <<>>,
         \A u \in Threads : Adds(th'[u]) =>
           life'[th'[u].s] = "open" \/ (Adds(th[u]) /\ th'[u].s = th[u].s),
         \A u \in Threads : th'[u].pc = "xclose" \/ th'[u].back = "unref" =>
           life'[th'[u].s] # "open",
         \A u \in Threads : th'[u].back = "unref" =>
           Once(th'[u].todo) /\ atts'[th'[u].s] = <<>>
  PROVE  LifeInv'
  <1>1. ASSUME NEW s \in Socks, life'[s] # "open" PROVE Adding(s)' = {}
    BY <1>1, AddingIs, AddingNext
  <1>2. ASSUME NEW s \in Socks, life'[s] = "closed" PROVE atts'[s] = <<>>
    BY <1>2
  <1>3. QED BY <1>1, <1>2 DEF LifeInv

LEMMA LifeStay ==
  ASSUME TypeInv, TypeInv', LifeInv, life' = life,
         \A x \in Socks : life[x] # "open" /\ atts[x] = <<>> => atts'[x] = <<>>,
         \A u \in Threads : Adds(th'[u]) =>
           life[th'[u].s] = "open" \/ (Adds(th[u]) /\ th'[u].s = th[u].s),
         \A u \in Threads : th'[u].pc = "xclose" \/ th'[u].back = "unref" =>
           (th[u].pc = "xclose" \/ th[u].back = "unref") /\ th'[u].s = th[u].s,
         \A u \in Threads : th'[u].back = "unref" =>
           Once(th'[u].todo) /\ (th[u].back = "unref" \/ atts'[th[u].s] = <<>>)
  PROVE  LifeInv'
  <1>1. \A u \in Threads : th[u].pc = "xclose" \/ th[u].back = "unref" =>
          th[u].s \in Socks /\ life[th[u].s] # "open"
    BY Sockets DEF LifeInv
  <1>2. \A u \in Threads : th'[u].back = "unref" => atts'[th'[u].s] = <<>>
    BY <1>1 DEF LifeInv
  <1>3. QED BY <1>1, <1>2, LifeKeep DEF LifeInv

LEMMA LifeBegin ==
  ASSUME TypeInv, TypeInv', LifeInv, NEW t \in Threads, Begin(t)
  PROVE  LifeInv'
  <1>1. Starts(t) /\ ~ Adds(th[t])
    BY Begins DEF Starts, Adds, Emits
  <1>2. ASSUME NEW s \in Socks, xclose(t, s) PROVE LifeInv'
    <2>1. /\ Now(t, "xclose", s, None, th[t].cur, th[t].todo, th[t].hap, th[t].ev, "idle", th[t].eback)
          /\ life[s] = "open" /\ Adding(s) = {} /\ life'[s] = "closing"
          /\ \A x \in Socks \ {s} : life'[x] = life[x]
          /\ atts' = atts
      BY <1>2, FxXclose DEF TypeInv
    <2>2. ~ Adds(th'[t]) /\ th'[t].s = s /\ th'[t].back = "idle"
      BY <2>1 DEF Now, Adds, Emits
    <2>3. \A u \in Threads \ {t} : th'[u] = th[u]
      BY <2>1 DEF Now
    <2>4. \A x \in Socks : /\ life[x] # "open" => life'[x] # "open"
                           /\ life'[x] # "open" => Adding(x) = {}
                           /\ life'[x] = "closed" => atts[x] = <<>>
      BY <2>1 DEF LifeInv
    <2>5. \A u \in Threads : th'[u].pc = "xclose" \/ th'[u].back = "unref" => life'[th'[u].s] # "open"
      BY <2>1, <2>2, <2>3, <2>4, Sockets DEF LifeInv
    <2>6. \A u \in Threads : th'[u].back = "unref" => Once(th'[u].todo) /\ atts'[th'[u].s] = <<>>
      BY <2>1, <2>2, <2>3 DEF LifeInv
    <2>7. \A u \in Threads : Adds(th'[u]) => Adds(th[u]) /\ th'[u].s = th[u].s
      BY <2>2, <2>3
    <2>8. \A x \in Socks : atts[x] = <<>> => atts'[x] = <<>>
      BY <2>1
    <2>9. QED BY <2>4, <2>5, <2>6, <2>7, <2>8, LifeKeep
  <1>3. ASSUME life' = life, th'[t].pc # "xclose", Adds(th'[t]) => life[th'[t].s] = "open" PROVE LifeInv'
    BY <1>1, <1>3, LifeStay DEF Starts, LifeInv
  <1>4. ASSUME NEW s, Change(t, s) \/ Break(t, s)
        PROVE  life' = life /\ th'[t].pc # "xclose" /\ ~ Adds(th'[t])
    BY <1>4, FxChange, FxBreak DEF Now, Adds, Emits
  <1>5. ASSUME NEW s, NEW pc \in {"mod", "ret", "rm", "wait"}, Call(t, s, pc)
        PROVE  life' = life /\ th'[t].pc # "xclose" /\ ~ Adds(th'[t])
    BY <1>5, FxCall DEF Now, sockVars, Adds, Emits
  <1>6. ASSUME NEW s, CallAdd(t, s)
        PROVE  life' = life /\ th'[t].pc # "xclose" /\ life[th'[t].s] = "open"
    BY <1>6, FxCall DEF CallAdd, Now, sockVars
  <1>7. ASSUME xpoll_close(t) PROVE life' = life /\ th'[t].pc # "xclose" /\ ~ Adds(th'[t])
    BY <1>7, FxPollClose DEF Now, sockVars, Adds, Emits
  <1>8. QED BY <1>2, <1>3, <1>4, <1>5, <1>6, <1>7 DEF Begin, CallMod, CallRm, CallWait

LEMMA LifeEmits ==
  ASSUME TypeInv, TypeInv', LifeInv, LockInv, NEW t \in Threads,
         \/ EmitRead(t) \/ EmitDetached(t) \/ EmitPut(t) \/ xpollbase_emit(t) \/ EmitEnd(t)
         \/ EmitBroken(t) \/ EmitAdded(t) \/ EmitModified(t)
  PROVE  LifeInv'
  <1>1. ASSUME life' = life, th[t].back = "idle", th'[t].back = "idle", th'[t].pc # "xclose",
               Adds(th'[t]) => Adds(th[t]) /\ th'[t].s = th[t].s,
               \A u \in Threads \ {t} : th'[u] = th[u] \/ (th[u].pc = "sleep" /\ OnlyTo(u, "ret")),
               \A x \in Socks : atts[x] = <<>> => atts'[x] = <<>>
        PROVE  LifeInv'
    <2>1. ASSUME NEW u \in Threads \ {t}
          PROVE  /\ Adds(th'[u]) => Adds(th[u]) /\ th'[u].s = th[u].s
                 /\ th'[u].pc = "xclose" \/ th'[u].back = "unref" =>
                      (th[u].pc = "xclose" \/ th[u].back = "unref") /\ th'[u].s = th[u].s
                 /\ th'[u].back = "unref" => th[u].back = "unref" /\ Once(th'[u].todo)
      BY <1>1, <2>1 DEF OnlyTo, Adds, Emits, LifeInv
    <2>2. QED BY <1>1, <2>1, LifeStay
  <1>2. CASE EmitRead(t) \/ EmitPut(t)
    BY <1>1, <1>2, FxEmitRead, FxEmitPut DEF NowAt, Now, sockVars, Adds, Emits
  <1>3. CASE EmitDetached(t)
    <2>1. th[t].cur \in On(atts[th[t].s])
      BY <1>3, FxDetached DEF LockInv, Emits
    <2>2. \A x \in Socks : atts[x] = <<>> => atts'[x] = <<>>
      BY <1>3, <2>1, FxDetached, NoneOn DEF TypeInv
    <2>3. QED BY <1>1, <1>3, <2>2, FxDetached DEF NowAt, Now, Adds, Emits
  <1>4. CASE xpollbase_emit(t)
    <2>1. /\ life' = life /\ atts' = atts /\ th[t].back = "idle" /\ th'[t].back = "idle"
          /\ th'[t].pc # "xclose"
          /\ Adds(th'[t]) => Adds(th[t]) /\ th'[t].s = th[t].s
      BY <1>4, FxEmit DEF OnlyTo, sockVars, Adds, Emits
    <2>2. \A u \in Threads \ {t} : th'[u] = th[u] \/ (th[u].pc = "sleep" /\ OnlyTo(u, "ret"))
      BY <1>4, FxEmit
    <2>3. QED BY <1>1, <2>1, <2>2
  <1>5. CASE EmitEnd(t)
    BY <1>1, <1>5, FxEmitEnd DEF NowIdle, Now, Adds, Emits
  <1>6. ASSUME NEW from \in {"added", "modset", "broken"}, NEW eback \in {"idle", "ret", "modput"},
               eback = "ret" => from = "added", emit_pollevents(t, from, eback)
        PROVE  LifeInv'
    BY <1>1, <1>6, FxPollevents DEF Now, Adds, Emits
  <1>7. QED BY <1>2, <1>3, <1>4, <1>5, <1>6 DEF EmitBroken, EmitAdded, EmitModified

LEMMA LifeStep ==
  ASSUME TypeInv, TypeInv', ListInv, LockInv, LifeInv, NEW t \in Threads, Begin(t) \/ Inside(t)
  PROVE  LifeInv'
  <1>1. ASSUME life' = life, \A u \in Threads \ {t} : th'[u] = th[u], atts' = atts,
               th'[t].back = "unref" => th[t].back = "unref" /\ Once(th'[t].todo) /\ th'[t].s = th[t].s,
               th'[t].pc # "xclose", Adds(th'[t]) => Adds(th[t]) /\ th'[t].s = th[t].s
        PROVE  LifeInv'
    BY <1>1, LifeStay DEF LifeInv
  <1>2. CASE \/ AddFails(t) \/ xpoll_wait(t) \/ Timeout(t) \/ Fill(t) \/ xpoll_mod(t)
             \/ ClosePut(t) \/ ModPut(t)
    BY <1>1, <1>2, FxRet, FxFill, FxMod, FxClosePut, FxModPut
    DEF NowAt, Now, sockVars, Adds, Emits, Makes
  <1>3. CASE rm_poll_entry(t) \/ get_poll_entry(t) \/ CloseNext(t)
    BY <1>1, <1>3, FxRm, FxGet, FxCloseNext DEF NowAt, Now, sockVars, Adds, Emits, LifeInv
  <1>4. CASE RmPut(t) \/ Return(t) \/ CloseUnref(t)
    BY <1>1, <1>4, FxRmPut, FxReturn, FxCloseUnref
    DEF NowAt, NowIdle, Now, sockVars, Adds, Emits, LifeInv
  <1>5. CASE add_poll_entry(t)
    BY <1>1, <1>5, FxAdd DEF Now, sockVars, Adds, Emits
  <1>6. CASE xpollbase_close(t)
    <2>1. Once(Tail(th[t].todo))
      BY <1>6, FxWalk, Headed DEF LifeInv
    <2>2. QED BY <1>1, <1>6, <2>1, FxWalk DEF Now, sockVars, Adds, Emits
  <1>7. CASE add_pollbase(t)
    <2>1. /\ th[t].s \in Socks /\ Adds(th[t]) /\ th'[t].s = th[t].s /\ th'[t].back = "idle"
          /\ th'[t].pc = "added" /\ \A u \in Threads \ {t} : th'[u] = th[u]
          /\ life' = life /\ \A x \in Socks \ {th[t].s} : atts'[x] = atts[x]
      BY <1>7, FxAttach DEF Now, Adds, TypeInv
    <2>2. life[th[t].s] = "open"
      BY <2>1, AddingIs DEF LifeInv
    <2>3. QED BY <2>1, <2>2, LifeStay DEF LifeInv
  <1>8. CASE __xclose(t)
    <2>1. /\ th[t].s \in Socks /\ th'[t].s = th[t].s /\ th'[t].back = "unref" /\ th[t].pc = "xclose"
          /\ th'[t].todo = atts[th[t].s] /\ atts'[th[t].s] = <<>>
          /\ th'[t].pc = "walk" /\ \A u \in Threads \ {t} : th'[u] = th[u]
          /\ life' = life /\ \A x \in Socks \ {th[t].s} : atts'[x] = atts[x]
      BY <1>8, FxSplice DEF Now, TypeInv
    <2>2. ~ Adds(th'[t]) /\ Once(th'[t].todo)
      BY <2>1 DEF Adds, Emits, ListInv
    <2>3. \A x \in Socks : atts[x] = <<>> => atts'[x] = <<>>
      BY <2>1
    <2>4. QED BY <2>1, <2>2, <2>3, LifeStay DEF LifeInv
  <1>9. CASE CloseEnd(t)
    <2>1. PICK s \in Socks : s = th[t].s /\ life[s] # "open" /\ atts[s] = <<>>
      BY <1>9, FxCloseEnd DEF LifeInv
    <2>2. /\ life'[s] = "closed" /\ \A x \in Socks \ {s} : life'[x] = life[x]
          /\ atts' = atts /\ th'[t].pc = "idle" /\ th'[t].back = "idle"
          /\ \A u \in Threads \ {t} : th'[u] = th[u]
      BY <1>9, <2>1, FxCloseEnd DEF NowIdle, Now, TypeInv
    <2>3. ~ Adds(th'[t])
      BY <2>2 DEF Adds, Emits
    <2>4. \A x \in Socks : /\ life[x] # "open" => life'[x] # "open"
                           /\ life'[x] # "open" => Adding(x) = {}
                           /\ life'[x] = "closed" => atts[x] = <<>>
      BY <2>1, <2>2 DEF LifeInv
    <2>5. \A u \in Threads : th'[u].pc = "xclose" \/ th'[u].back = "unref" => life'[th'[u].s] # "open"
      BY <2>2, <2>4, Sockets DEF LifeInv
    <2>6. \A u \in Threads : th'[u].back = "unref" => Once(th'[u].todo) /\ atts'[th'[u].s] = <<>>
      BY <2>2 DEF LifeInv
    <2>7. \A u \in Threads : Adds(th'[u]) => Adds(th[u]) /\ th'[u].s = th[u].s
      BY <2>2, <2>3
    <2>8. \A x \in Socks : atts[x] = <<>> => atts'[x] = <<>>
      BY <2>2
    <2>9. QED BY <2>4, <2>5, <2>6, <2>7, <2>8, LifeKeep
  <1>10. QED BY <1>2, <1>3, <1>4, <1>5, <1>6, <1>7, <1>8, <1>9, LifeBegin, LifeEmits DEF Inside

\* One thread closes the poll.
LEMMA CloserStep ==
  ASSUME TypeInv, CloserInv, NEW t \in Threads, Begin(t) \/ Inside(t)
  PROVE  CloserInv'
  <1>1. ASSUME pclosed' = pclosed,
               \A u \in Threads : th'[u].back = "close" => th[u].back = "close"
        PROVE  CloserInv'
    BY <1>1 DEF CloserInv
  <1>2. CASE xpoll_close(t)
    <2>1. /\ ~ pclosed /\ pclosed' = TRUE /\ \A u \in Threads \ {t} : th'[u] = th[u]
      BY <1>2, FxPollClose DEF Now
    <2>2. QED BY <2>1 DEF CloserInv
  <1>3. ASSUME Begin(t), ~ xpoll_close(t) PROVE CloserInv'
    <2>1. ASSUME NEW s, Change(t, s) \/ Break(t, s) \/ xclose(t, s)
          PROVE  pclosed' = pclosed /\ th'[t].back # "close" /\ \A u \in Threads \ {t} : th'[u] = th[u]
      BY <2>1, FxChange, FxBreak, FxXclose DEF Now, pollVars
    <2>2. ASSUME NEW s, NEW pc \in {"add", "mod", "ret", "rm", "wait"}, Call(t, s, pc)
          PROVE  pclosed' = pclosed /\ th'[t].back # "close" /\ \A u \in Threads \ {t} : th'[u] = th[u]
      BY <2>2, FxCall DEF Now
    <2>3. QED BY <1>1, <1>3, <2>1, <2>2 DEF Begin, CallAdd, CallMod, CallRm, CallWait
  <1>4. CASE \/ EmitRead(t) \/ EmitDetached(t) \/ EmitPut(t) \/ EmitEnd(t)
             \/ AddFails(t) \/ xpoll_wait(t) \/ Timeout(t) \/ Fill(t) \/ xpoll_mod(t)
    BY <1>1, <1>4, FxEmitRead, FxDetached, FxEmitPut, FxEmitEnd, FxRet, FxFill, FxMod
    DEF NowAt, NowIdle, Now, pollVars
  <1>5. CASE xpollbase_emit(t)
    BY <1>1, <1>5, FxEmit DEF OnlyTo
  <1>6. ASSUME NEW from \in {"added", "modset", "broken"}, NEW eback \in {"idle", "ret", "modput"},
               emit_pollevents(t, from, eback)
        PROVE  CloserInv'
    BY <1>1, <1>6, FxPollevents DEF Now, pollVars
  <1>7. CASE \/ add_poll_entry(t) \/ add_pollbase(t) \/ ClosePut(t) \/ ModPut(t) \/ __xclose(t)
             \/ xpollbase_close(t) \/ CloseUnref(t) \/ CloseEnd(t)
    BY <1>1, <1>7, FxAdd, FxAttach, FxClosePut, FxModPut, FxSplice, FxWalk, FxCloseUnref, FxCloseEnd
    DEF NowIdle, Now, pollVars
  <1>8. CASE rm_poll_entry(t) \/ get_poll_entry(t) \/ CloseNext(t) \/ RmPut(t) \/ Return(t)
    BY <1>1, <1>8, FxRm, FxGet, FxCloseNext, FxRmPut, FxReturn DEF NowAt, NowIdle, Now, pollVars
  <1>9. QED BY <1>2, <1>3, <1>4, <1>5, <1>6, <1>7, <1>8
        DEF Inside, EmitBroken, EmitAdded, EmitModified

----------------------------------------------------------------------------
(* Entries that are being made.                                             *)

\* Only add_poll_entry begins to make an entry, only add_pollbase ends it.
MakersStay(t) ==
  \A u \in Threads :
    /\ Makes(th'[u]) <=> Makes(th[u])
    /\ Makes(th[u]) => th'[u].e = th[u].e /\ th'[u].s = th[u].s
    /\ th'[u].pc = "fill" => th[u].pc = "fill"
    /\ u # t /\ Makes(th[u]) => th'[u] = th[u]

LEMMA Makers ==
  ASSUME TypeInv, NEW t \in Threads, Begin(t) \/ Inside(t)
  PROVE  MakersStay(t) \/ add_poll_entry(t) \/ add_pollbase(t)
  <1>1. CASE Begin(t)
    BY <1>1, Begins DEF Starts, MakersStay, Makes
  <1>2. CASE \/ EmitRead(t) \/ EmitDetached(t) \/ EmitPut(t) \/ EmitEnd(t)
             \/ AddFails(t) \/ xpoll_wait(t) \/ Timeout(t) \/ Fill(t) \/ xpoll_mod(t)
    BY <1>2, FxEmitRead, FxDetached, FxEmitPut, FxEmitEnd, FxRet, FxFill, FxMod
    DEF NowAt, NowIdle, Now, MakersStay, Makes
  <1>3. CASE xpollbase_emit(t)
    BY <1>3, FxEmit DEF OnlyTo, MakersStay, Makes
  <1>4. ASSUME NEW from \in {"added", "modset", "broken"}, NEW eback \in {"idle", "ret", "modput"},
               emit_pollevents(t, from, eback)
        PROVE  MakersStay(t)
    BY <1>4, FxPollevents DEF Now, MakersStay, Makes
  <1>5. CASE \/ ClosePut(t) \/ ModPut(t) \/ __xclose(t)
             \/ xpollbase_close(t) \/ CloseUnref(t) \/ CloseEnd(t)
    BY <1>5, FxClosePut, FxModPut, FxSplice, FxWalk, FxCloseUnref, FxCloseEnd
    DEF NowIdle, Now, MakersStay, Makes
  <1>6. CASE rm_poll_entry(t) \/ get_poll_entry(t) \/ CloseNext(t) \/ RmPut(t) \/ Return(t)
    BY <1>6, FxRm, FxGet, FxCloseNext, FxRmPut, FxReturn DEF NowAt, NowIdle, Now, MakersStay, Makes
  <1>7. QED BY <1>1, <1>2, <1>3, <1>4, <1>5, <1>6
        DEF Inside, EmitBroken, EmitAdded, EmitModified

\* The lists of the sockets get an entry in add_pollbase, and lose one in
\* EmitDetached and all in __xclose.
LEMMA AttsStay ==
  ASSUME TypeInv, NEW t \in Threads, Begin(t) \/ Inside(t)
  PROVE  atts' = atts \/ add_pollbase(t) \/ EmitDetached(t) \/ __xclose(t)
  <1>1. CASE Begin(t)
    BY <1>1, Begins DEF Starts
  <1>2. CASE \/ EmitRead(t) \/ EmitPut(t) \/ EmitEnd(t) \/ xpollbase_emit(t)
    BY <1>2, FxEmitRead, FxEmitPut, FxEmitEnd, FxEmit DEF sockVars
  <1>3. ASSUME NEW from \in {"added", "modset", "broken"}, NEW eback \in {"idle", "ret", "modput"},
               emit_pollevents(t, from, eback)
        PROVE  atts' = atts
    BY <1>3 DEF emit_pollevents
  <1>4. QED BY <1>1, <1>2, <1>3, Asides DEF Aside, Inside, EmitBroken, EmitAdded, EmitModified

\* The descriptor of an entry changes when it is made, and when it is freed.
LEMMA FdsStay ==
  ASSUME TypeInv, NEW t \in Threads, Begin(t) \/ Inside(t)
  PROVE  \/ fdof' = fdof \/ add_poll_entry(t)
         \/ EmitPut(t) \/ RmPut(t) \/ ModPut(t) \/ CloseUnref(t)
  <1>1. CASE Begin(t)
    BY <1>1, Begins DEF Starts, entVars
  <1>2. CASE Inside(t)
    BY <1>2 DEF Inside, EmitRead, EmitDetached, xpollbase_emit, EmitEnd, EmitBroken, EmitAdded,
           EmitModified, emit_pollevents, AddFails, Fill, add_pollbase, rm_poll_entry, Return,
           get_poll_entry, xpoll_mod, xpoll_wait, Timeout, CloseNext, ClosePut, __xclose,
           xpollbase_close, CloseEnd, entVars
  <1>3. QED BY <1>1, <1>2

LEMMA LifeGrows ==
  ASSUME TypeInv, NEW t \in Threads, Begin(t) \/ Inside(t)
  PROVE  \A s \in Socks : life[s] # "open" => life'[s] # "open"
  <1>1. ASSUME NEW s \in Socks, xclose(t, s) PROVE life' = [life EXCEPT ![s] = "closing"]
    BY <1>1 DEF xclose
  <1>2. CASE CloseEnd(t)
    BY <1>2, FxCloseEnd DEF TypeInv
  <1>3. ASSUME Begin(t), \A s \in Socks : ~ xclose(t, s) PROVE life' = life
    BY <1>3 DEF Begin, Change, Break, CallAdd, CallMod, CallRm, CallWait, Call, xpoll_close, sockVars
  <1>4. ASSUME Inside(t), ~ CloseEnd(t) PROVE life' = life
    BY <1>4 DEF Inside, EmitRead, EmitDetached, EmitPut, xpollbase_emit, EmitEnd, EmitBroken, EmitAdded,
           EmitModified, emit_pollevents, add_poll_entry, AddFails, Fill, add_pollbase, rm_poll_entry,
           RmPut, Return, get_poll_entry, xpoll_mod, ModPut, xpoll_wait, Timeout, CloseNext, ClosePut,
           __xclose, xpollbase_close, CloseUnref, sockVars
  <1>5. QED BY <1>1, <1>2, <1>3, <1>4 DEF TypeInv

\* The descriptor of an entry that is listed, attached or held by another thread stays.
LEMMA FdKept ==
  ASSUME TypeInv, RefInv, NEW t \in Threads, Begin(t) \/ Inside(t)
  PROVE  \A e \in Entries :
           \/ e \in On(lru) \/ (\E s \in Socks : e \in On(atts[s]))
           \/ (\E u \in Threads \ {t} : th[u].e = e)
           => fdof'[e] = fdof[e]
  <1>1. CASE fdof' = fdof
    BY <1>1
  <1>2. CASE add_poll_entry(t)
    <2>1. PICK d \in Entries \ live : fdof' = [fdof EXCEPT ![d] = th[t].s]
      BY <1>2, FxAdd
    <2>2. /\ d \notin On(lru) /\ \A s \in Socks : d \notin On(atts[s])
          /\ \A u \in Threads : th[u].e # d
      BY <2>1, Dead
    <2>3. QED BY <2>1, <2>2 DEF TypeInv
  <1>3. CASE EmitPut(t) \/ RmPut(t) \/ ModPut(t) \/ CloseUnref(t)
    <2>1. PICK d \in Entries : PutStep(t, d) /\ (th[t].e = d \/ t \in PutsOf(d))
      BY <1>3, PutSteps
    <2>2. QED BY <2>1, PutFrame DEF PutStep
  <1>4. QED BY <1>1, <1>2, <1>3, FdsStay

LEMMA LruStay ==
  ASSUME TypeInv, ListInv, NEW t \in Threads, Begin(t) \/ Inside(t)
  PROVE  \/ lru' = lru \/ add_poll_entry(t)
         \/ xpollbase_emit(t) /\ On(lru') = On(lru) /\ lru' = Moved(th[t].cur, th[t].ev)
         \/ /\ rm_poll_entry(t) \/ CloseNext(t)
            /\ \E d \in On(lru) : On(lru') = On(lru) \ {d} /\ lru' = Without(lru, d)
  <1>1. CASE Begin(t)
    BY <1>1, Begins DEF Starts
  <1>2. CASE xpollbase_emit(t)
    BY <1>2, FxEmit, MovedSame
  <1>3. CASE rm_poll_entry(t) \/ CloseNext(t)
    <2>1. lru' = lru \/ \E d \in On(lru) : lru' = Without(lru, d)
      BY <1>3, FxRm, FxCloseNext
    <2>2. QED BY <1>3, <2>1, Removed DEF TypeInv, ListInv
  <1>4. ASSUME Inside(t), ~ add_poll_entry(t), ~ xpollbase_emit(t), ~ rm_poll_entry(t), ~ CloseNext(t)
        PROVE  lru' = lru
    BY <1>4 DEF Inside, EmitRead, EmitDetached, EmitPut, EmitEnd, EmitBroken, EmitAdded,
           EmitModified, emit_pollevents, AddFails, Fill, add_pollbase,
           RmPut, Return, get_poll_entry, xpoll_mod, ModPut, xpoll_wait, Timeout, ClosePut,
           __xclose, xpollbase_close, CloseUnref, CloseEnd, pollVars
  <1>5. QED BY <1>1, <1>2, <1>3, <1>4

LEMMA AttachStep ==
  ASSUME TypeInv, ListInv, MakeInv, LockInv, LifeInv, AttachInv, RefInv, NEW t \in Threads,
         Begin(t) \/ Inside(t)
  PROVE  AttachInv'
  <1>1. \A e \in On(lru) : e \in Entries /\ fdof'[e] = fdof[e] /\ fdof[e] \in Socks
    <2>1. \A e \in On(lru) : e \in Entries
      BY DEF On, TypeInv
    <2>2. QED BY <2>1, FdKept DEF ListInv
  <1>2. ASSUME NEW e \in On(lru'), e \in On(lru), ~ add_pollbase(t)
        PROVE  \/ life'[fdof'[e]] # "open" \/ e \in On(atts'[fdof'[e]])
               \/ \E u \in Threads : Makes(th'[u]) /\ th'[u].e = e
    <2>1. CASE life[fdof[e]] # "open"
      BY <1>1, <1>2, <2>1, LifeGrows
    <2>2. CASE e \in On(atts[fdof[e]]) /\ life[fdof[e]] = "open"
      <3>1. CASE atts' = atts
        BY <1>1, <1>2, <2>2, <3>1
      <3>2. CASE EmitDetached(t)
        <4>1. /\ atts' = [atts EXCEPT ![th[t].s] = Without(@, th[t].cur)] /\ th[t].cur \notin On(lru)
              /\ th[t].s \in Socks
          BY <3>2, FxDetached
        <4>2. \A x \in Socks : On(atts'[x]) = On(atts[x]) \ {th[t].cur} \/ atts'[x] = atts[x]
          BY <4>1, Removed DEF TypeInv, ListInv
        <4>3. QED BY <1>1, <1>2, <2>2, <4>1, <4>2
      <3>3. CASE __xclose(t)
        BY <1>1, <1>2, <2>2, <3>3, FxSplice DEF LifeInv, TypeInv
      <3>4. QED BY <1>2, <3>1, <3>2, <3>3, AttsStay
    <2>3. ASSUME NEW u \in Threads, Makes(th[u]), th[u].e = e
          PROVE  \E v \in Threads : Makes(th'[v]) /\ th'[v].e = e
      <3>1. CASE MakersStay(t)
        BY <2>3, <3>1 DEF MakersStay
      <3>2. CASE add_poll_entry(t)
        BY <2>3, <3>2, FxAdd DEF Now, Makes
      <3>3. QED BY <1>2, <3>1, <3>2, Makers
    <2>4. QED BY <1>2, <2>1, <2>2, <2>3 DEF AttachInv
  <1>3. CASE add_pollbase(t)
    <2>1. /\ Now(t, "added", th[t].s, None, th[t].cur, th[t].todo, th[t].hap, th[t].ev, "idle", th[t].eback)
          /\ th[t].pc = "attach" /\ th[t].s \in Socks /\ th[t].e \in Entries
          /\ lru' = lru /\ fdof' = fdof /\ life' = life
          /\ atts' = [atts EXCEPT ![th[t].s] = Append(@, th[t].e)]
      BY <1>3, FxAttach DEF pollVars, entVars
    <2>2. /\ On(atts'[th[t].s]) = On(atts[th[t].s]) \cup {th[t].e}
          /\ \A x \in Socks \ {th[t].s} : atts'[x] = atts[x]
      BY <2>1, Appended DEF TypeInv
    <2>3. fdof[th[t].e] = th[t].s
      BY <2>1 DEF ListInv, Makes
    <2>4. ASSUME NEW e \in On(lru)
          PROVE  \/ life'[fdof'[e]] # "open" \/ e \in On(atts'[fdof'[e]])
                 \/ \E u \in Threads : Makes(th'[u]) /\ th'[u].e = e
      <3>1. CASE e = th[t].e
        BY <2>1, <2>2, <2>3, <3>1
      <3>2. CASE e # th[t].e
        <4>1. \A u \in Threads : Makes(th[u]) /\ th[u].e = e => th'[u] = th[u]
          BY <2>1, <3>2 DEF Now
        <4>2. e \in On(atts[fdof[e]]) => e \in On(atts'[fdof[e]])
          BY <1>1, <2>2
        <4>3. QED BY <2>1, <4>1, <4>2 DEF AttachInv
      <3>3. QED BY <3>1, <3>2
    <2>5. QED BY <2>1, <2>4 DEF AttachInv
  <1>4. CASE add_poll_entry(t)
    <2>1. PICK d \in Entries \ live :
            /\ Now(t, "fill", th[t].s, d, th[t].cur, th[t].todo, th[t].hap, th[t].ev, "idle", th[t].eback)
            /\ lru' = Append(lru, d) /\ th[t].pc = "add"
      BY <1>4, FxAdd
    <2>2. On(lru') = On(lru) \cup {d} /\ Makes(th'[t]) /\ th'[t].e = d
      BY <2>1, Appended DEF TypeInv, Now, Makes
    <2>3. ~ add_pollbase(t)
      BY <2>1 DEF add_pollbase, At
    <2>4. \A e \in On(lru') : \/ life'[fdof'[e]] # "open" \/ e \in On(atts'[fdof'[e]])
                              \/ \E u \in Threads : Makes(th'[u]) /\ th'[u].e = e
      BY <1>2, <2>2, <2>3
    <2>5. QED BY <2>4 DEF AttachInv, Makes
  <1>5. ASSUME ~ add_pollbase(t), ~ add_poll_entry(t) PROVE AttachInv'
    <2>1. On(lru') \subseteq On(lru)
      BY <1>5, LruStay
    <2>2. \A e \in On(lru') : \/ life'[fdof'[e]] # "open" \/ e \in On(atts'[fdof'[e]])
                              \/ \E u \in Threads : Makes(th'[u]) /\ th'[u].e = e
      BY <1>2, <1>5, <2>1
    <2>3. QED BY <2>2 DEF AttachInv, Makes
  <1>6. QED BY <1>3, <1>4, <1>5

LEMMA MakeStep ==
  ASSUME TypeInv, ListInv, MakeInv, LockInv, LifeInv, RefInv, NEW t \in Threads, Begin(t) \/ Inside(t)
  PROVE  MakeInv'
  <1>1. \A u \in Threads : Makes(th[u]) => th[u].e \in Entries /\ th[u].e \in live /\ ~ th[u].back = "unref"
    <2>1. \A u \in Threads : Makes(th[u]) => th[u].e \in Entries /\ ~ th[u].back = "unref"
      BY Threading DEF Shape, OnEntry, Makes, Local
    <2>2. QED BY <2>1, Dead
  <1>2. ASSUME NEW u \in Threads, Makes(th[u]), u # t \/ th'[t].pc # "attach"
        PROVE  happened'[th[u].e] = happened[th[u].e]
    <2>1. CASE happened' = happened
      BY <2>1
    <2>2. CASE EmitPut(t) \/ RmPut(t) \/ ModPut(t) \/ CloseUnref(t)
      <3>1. PICK d \in Entries : PutStep(t, d) /\ (th[t].e = d \/ t \in PutsOf(d))
        BY <2>2, PutSteps
      <3>2. ~ Makes(th[t])
        BY <3>1 DEF PutStep, Makes
      <3>3. QED BY <1>1, <1>2, <3>1, <3>2, PutFrame DEF PutStep
    <2>3. CASE add_poll_entry(t)
      BY <1>1, <1>2, <2>3, FxAdd DEF TypeInv
    <2>4. CASE Fill(t)
      <3>1. /\ th[t].pc = "fill" /\ th'[t].pc = "attach" /\ th[t].e \in Entries
            /\ \E old : happened' = [happened EXCEPT ![th[t].e] = old]
        BY <2>4, FxFill DEF NowAt, Now
      <3>2. u # t /\ th[u].e # th[t].e
        BY <1>2, <3>1 DEF MakeInv, Makes
      <3>3. QED BY <1>1, <1>2, <3>1, <3>2 DEF TypeInv
    <2>5. CASE xpollbase_emit(t)
      <3>1. /\ th[t].cur \in On(atts[th[t].s]) /\ th[t].s \in Socks
            /\ \E ev : happened' = [happened EXCEPT ![th[t].cur] = ev]
        BY <2>5, FxEmit DEF LockInv, Emits
      <3>2. th[u].e # th[t].cur
        BY <1>2, <3>1 DEF MakeInv
      <3>3. QED BY <1>1, <1>2, <3>1, <3>2 DEF TypeInv
    <2>6. ASSUME Inside(t), ~ (EmitPut(t) \/ RmPut(t) \/ ModPut(t) \/ CloseUnref(t)),
                 ~ add_poll_entry(t), ~ Fill(t), ~ xpollbase_emit(t)
          PROVE  happened' = happened
      BY <2>6 DEF Inside, EmitRead, EmitDetached, EmitEnd, EmitBroken, EmitAdded,
             EmitModified, emit_pollevents, AddFails, add_pollbase, rm_poll_entry,
             Return, get_poll_entry, xpoll_mod, xpoll_wait, Timeout, CloseNext, ClosePut,
             __xclose, xpollbase_close, CloseEnd, entVars
    <2>7. Begin(t) => happened' = happened
      BY Begins DEF Starts, entVars
    <2>8. QED BY <2>1, <2>2, <2>3, <2>4, <2>5, <2>6, <2>7
  <1> DEFINE Fresh(e) == /\ \A s \in Socks : e \notin On(atts'[s])
                         /\ \A u \in Threads : th'[u].back = "unref" => e \notin On(th'[u].todo)
  <1>3. \A u \in Threads :
          \/ th'[u].back = "unref" => th[u].back = "unref" /\ On(th'[u].todo) \subseteq On(th[u].todo)
          \/ __xclose(t) /\ u = t /\ \E s \in Socks : th'[u].todo = atts[s]
    <2>1. CASE Begin(t)
      BY <2>1, Begins DEF Starts
    <2>2. CASE __xclose(t)
      BY <2>2, FxSplice DEF Now
    <2>3. CASE xpollbase_close(t)
      BY <2>3, FxWalk, Headed DEF Now
    <2>4. CASE xpollbase_emit(t)
      BY <2>4, FxEmit DEF OnlyTo
    <2>5. CASE \/ EmitRead(t) \/ EmitDetached(t) \/ EmitPut(t) \/ EmitEnd(t)
               \/ AddFails(t) \/ xpoll_wait(t) \/ Timeout(t) \/ Fill(t) \/ xpoll_mod(t)
      BY <2>5, FxEmitRead, FxDetached, FxEmitPut, FxEmitEnd, FxRet, FxFill, FxMod
      DEF NowAt, NowIdle, Now
    <2>6. ASSUME NEW from \in {"added", "modset", "broken"}, NEW eback \in {"idle", "ret", "modput"},
                 emit_pollevents(t, from, eback)
          PROVE  \A u \in Threads : th'[u].back = "unref" => th'[u] = th[u]
      BY <2>6, FxPollevents DEF Now
    <2>7. CASE \/ add_poll_entry(t) \/ add_pollbase(t) \/ ClosePut(t) \/ ModPut(t)
               \/ CloseUnref(t) \/ CloseEnd(t)
      BY <2>7, FxAdd, FxAttach, FxClosePut, FxModPut, FxCloseUnref, FxCloseEnd DEF NowIdle, Now
    <2>8. CASE rm_poll_entry(t) \/ get_poll_entry(t) \/ CloseNext(t) \/ RmPut(t) \/ Return(t)
      BY <2>8, FxRm, FxGet, FxCloseNext, FxRmPut, FxReturn DEF NowAt, NowIdle, Now
    <2>9. QED BY <2>1, <2>2, <2>3, <2>4, <2>5, <2>6, <2>7, <2>8
          DEF Inside, EmitBroken, EmitAdded, EmitModified
  <1>4. ASSUME NEW e \in Entries, \A s \in Socks : e \notin On(atts[s]),
               \A u \in Threads : th[u].back = "unref" => e \notin On(th[u].todo),
               add_pollbase(t) => th[t].e # e
        PROVE  Fresh(e)
    <2>1. ASSUME NEW s \in Socks PROVE e \notin On(atts'[s])
      <3>1. CASE atts' = atts
        BY <1>4, <3>1
      <3>2. CASE add_pollbase(t)
        <4>1. /\ th[t].s \in Socks /\ th[t].e \in Entries /\ th[t].e # e
              /\ atts' = [atts EXCEPT ![th[t].s] = Append(@, th[t].e)]
          BY <1>4, <3>2, FxAttach
        <4>2. On(Append(atts[th[t].s], th[t].e)) = On(atts[th[t].s]) \cup {th[t].e}
          BY <4>1, Appended DEF TypeInv
        <4>3. QED BY <1>4, <4>1, <4>2 DEF TypeInv
      <3>3. CASE EmitDetached(t)
        <4>1. th[t].s \in Socks /\ atts' = [atts EXCEPT ![th[t].s] = Without(@, th[t].cur)]
          BY <3>3, FxDetached
        <4>2. On(Without(atts[th[t].s], th[t].cur)) \subseteq On(atts[th[t].s])
          BY <4>1, Removed DEF TypeInv
        <4>3. QED BY <1>4, <4>1, <4>2 DEF TypeInv
      <3>4. CASE __xclose(t)
        BY <1>4, <3>4, FxSplice, NoneOn DEF TypeInv
      <3>5. QED BY <3>1, <3>2, <3>3, <3>4, AttsStay
    <2>2. QED BY <1>3, <1>4, <2>1
  <1> HIDE DEF Fresh
  <1>5. CASE add_poll_entry(t)
    <2>1. PICK d \in Entries \ live :
            /\ Now(t, "fill", th[t].s, d, th[t].cur, th[t].todo, th[t].hap, th[t].ev, "idle", th[t].eback)
            /\ happened' = [happened EXCEPT ![d] = {}] /\ th[t].pc = "add"
      BY <1>5, FxAdd
    <2>2. /\ \A s \in Socks : d \notin On(atts[s])
          /\ \A u \in Threads : th[u].e # d /\ (th[u].back = "unref" => d \notin On(th[u].todo))
      BY <2>1, Dead
    <2>3. ~ add_pollbase(t) /\ \A u \in Threads \ {t} : th'[u] = th[u]
      BY <2>1 DEF add_pollbase, At, Now
    <2>4. Fresh(d)
      BY <1>4, <2>1, <2>2, <2>3
    <2>5. \A u \in Threads \ {t} : Makes(th[u]) => Fresh(th[u].e)
      BY <1>1, <1>4, <2>3 DEF MakeInv
    <2>6. th'[t].e = d /\ th'[t].pc = "fill" /\ happened'[d] = {}
      BY <2>1 DEF Now, TypeInv
    <2>7. \A u \in Threads \ {t} : Makes(th[u]) => happened'[th[u].e] = happened[th[u].e]
      BY <1>2
    <2>8. QED BY <2>2, <2>3, <2>4, <2>5, <2>6, <2>7 DEF MakeInv, Fresh, Makes
  <1>6. CASE add_pollbase(t)
    <2>1. /\ th'[t].pc = "added" /\ \A u \in Threads \ {t} : th'[u] = th[u]
          /\ Makes(th[t])
      BY <1>6, FxAttach DEF Now, Makes
    <2>2. \A u \in Threads \ {t} : Makes(th[u]) => Fresh(th[u].e) /\ happened'[th[u].e] = happened[th[u].e]
      BY <1>1, <1>2, <1>4, <2>1 DEF MakeInv
    <2>3. ~ Makes(th'[t])
      BY <2>1 DEF Makes
    <2>4. QED BY <2>1, <2>2, <2>3 DEF MakeInv, Fresh, Makes
  <1>7. ASSUME MakersStay(t), ~ add_pollbase(t) PROVE MakeInv'
    <2>1. \A u \in Threads : Makes(th[u]) => Fresh(th[u].e)
      BY <1>1, <1>4, <1>7 DEF MakeInv
    <2>2. \A u \in Threads : th'[u].pc = "fill" =>
            Makes(th[u]) /\ th[u].pc = "fill" /\ happened'[th[u].e] = happened[th[u].e]
      BY <1>2, <1>7 DEF MakersStay, Makes
    <2>3. QED BY <1>7, <2>1, <2>2 DEF MakersStay, MakeInv, Fresh, Makes
  <1>8. QED BY <1>5, <1>6, <1>7, Makers

----------------------------------------------------------------------------
(* References of the poll.                                                  *)

\* The threads in a call on the poll, and whether the poll is the user's.
InCall(x) ==
  /\ x.pc \notin {"idle", "broken", "xclose", "walk", "unref"}
  /\ ~ (Emits(x) /\ x.eback = "idle")
Calls == {t \in Threads : InCall(th[t])}
Kept == ~ pclosed \/ \E t \in Threads : th[t].back = "close"

LEMMA PollIs ==
  ASSUME TypeInv
  PROVE  /\ Threads \ Outside = Calls /\ (Kept => Opened = 1) /\ (~ Kept => Opened = 0)
         /\ IsFiniteSet(live) /\ Cardinality(live) \in Nat
         /\ IsFiniteSet(Calls) /\ Cardinality(Calls) \in Nat
  <1>1. Threads \ Outside = Calls
    BY DEF Outside, Calls, InCall, Emits
  <1>2. \A t \in Threads : th[t].back = "close" => th[t].pc \in {"close", "rmput", "ret2"}
    BY Threading DEF Shape
  <1>3. (Kept => Opened = 1) /\ (~ Kept => Opened = 0)
    BY <1>2 DEF Kept, Opened
  <1>4. IsFiniteSet(live) /\ IsFiniteSet(Calls)
    BY FS_Subset, XpollAssumption DEF Calls, TypeInv
  <1>5. QED BY <1>1, <1>3, <1>4, FS_CardinalityType

LEMMA PollIsNext ==
  ASSUME TypeInv'
  PROVE  (Threads \ Outside)' = Calls' /\ (Kept' => Opened' = 1) /\ (~ Kept' => Opened' = 0)
  <1>1. (Threads \ Outside)' = Calls'
    BY DEF Outside, Calls, InCall, Emits
  <1>2. \A t \in Threads : th'[t].back = "close" => th'[t].pc \in {"close", "rmput", "ret2"}
    BY DEF TypeInv, Shaped, Shape
  <1>3. QED BY <1>1, <1>2 DEF Kept, Opened

LEMMA PollDelta ==
  ASSUME TypeInv, TypeInv', PollRefs, NEW o \in Int, NEW l \in Int, NEW c \in Int,
         Opened' = Opened + o, Cardinality(live') = Cardinality(live) + l,
         Cardinality(Calls') = Cardinality(Calls) + c, pollref' = pollref + (o + l + c)
  PROVE  PollRefs'
  <1>1. PICK x, y, z \in Int : x = Opened /\ y = Cardinality(live) /\ z = Cardinality(Calls)
    BY PollIs
  <1>2. pollref = x + y + z
    BY <1>1, PollIs DEF PollRefs
  <1>3. pollref' = (x + o) + (y + l) + (z + c)
    BY <1>1, <1>2
  <1>4. pollref' = Opened' + Cardinality(live') + Cardinality(Calls')
    BY <1>1, <1>3
  <1>5. QED BY <1>4, PollIsNext DEF PollRefs

\* No step but the last of xpoll_close gives up the poll; one thread changes its place.
LEMMA PollMoves ==
  ASSUME TypeInv, TypeInv', PollRefs, live' = live, Opened' = Opened, NEW t \in Threads,
         \A u \in Threads \ {t} : InCall(th'[u]) <=> InCall(th[u]),
         \/ pollref' = pollref /\ (InCall(th'[t]) <=> InCall(th[t]))
         \/ pollref' = pollref + 1 /\ InCall(th'[t]) /\ ~ InCall(th[t])
         \/ pollref' = pollref - 1 /\ ~ InCall(th'[t]) /\ InCall(th[t])
  PROVE  PollRefs'
  <1>1. Opened \in Int /\ Cardinality(live) \in Int /\ Cardinality(Calls) \in Int /\ pollref \in Int
    BY PollIs DEF TypeInv
  <1>2. CASE pollref' = pollref /\ (InCall(th'[t]) <=> InCall(th[t]))
    <2>1. Calls' = Calls
      BY <1>2 DEF Calls, InCall, Emits
    <2>2. /\ Opened' = Opened + 0 /\ Cardinality(live') = Cardinality(live) + 0
          /\ Cardinality(Calls') = Cardinality(Calls) + 0 /\ pollref' = pollref + (0 + 0 + 0)
      BY <1>1, <1>2, <2>1
    <2>3. QED BY <2>2, PollDelta
  <1>3. CASE pollref' = pollref + 1 /\ InCall(th'[t]) /\ ~ InCall(th[t])
    <2>1. t \notin Calls /\ Calls' = Calls \cup {t}
      BY <1>3 DEF Calls, InCall, Emits
    <2>2. Cardinality(Calls') = Cardinality(Calls) + 1
      BY <2>1, PollIs, Plus
    <2>3. /\ Opened' = Opened + 0 /\ Cardinality(live') = Cardinality(live) + 0
          /\ pollref' = pollref + (0 + 0 + 1)
      BY <1>1, <1>3
    <2>4. QED BY <2>2, <2>3, PollDelta
  <1>4. CASE pollref' = pollref - 1 /\ ~ InCall(th'[t]) /\ InCall(th[t])
    <2>1. t \in Calls /\ Calls' = Calls \ {t}
      BY <1>4 DEF Calls, InCall, Emits
    <2>2. Cardinality(Calls') = Cardinality(Calls) + (-1)
      BY <1>1, <2>1, PollIs, Minus
    <2>3. pollref' = pollref + (0 + 0 + (-1))
      BY <1>1, <1>4
    <2>4. QED BY <1>1, <2>2, <2>3, PollDelta
  <1>5. QED BY <1>2, <1>3, <1>4

LEMMA OpenedStays ==
  ASSUME TypeInv, TypeInv', pclosed' = pclosed,
         \A u \in Threads : th'[u].back = "close" <=> th[u].back = "close"
  PROVE  Opened' = Opened
  <1>1. Kept' <=> Kept
    BY DEF Kept
  <1>2. QED BY <1>1, PollIs, PollIsNext

LEMMA PollPuts ==
  ASSUME TypeInv, TypeInv', RefInv, PollRefs, NEW t \in Threads,
         EmitPut(t) \/ RmPut(t) \/ ModPut(t) \/ CloseUnref(t)
  PROVE  PollRefs'
  <1>1. PICK d \in Entries : PutStep(t, d) /\ (th[t].e = d \/ t \in PutsOf(d))
    BY PutSteps
  <1>2. \A u \in Threads \ {t} : th'[u] = th[u]
    BY <1>1 DEF PutStep
  <1>3. th[t].pc = "modput" => th[t].eback \in {"idle", "ret", "modput"}
    BY Threading DEF Local
  <1>4. Calls' = Calls /\ \A u \in Threads : th'[u].back = "close" <=> th[u].back = "close"
    <2>1. InCall(th'[t]) <=> InCall(th[t])
      BY <1>1 DEF PutStep, InCall, Emits
    <2>2. QED BY <1>1, <1>2, <2>1 DEF Calls, InCall, Emits, PutStep
  <1>5. Opened' = Opened
    BY <1>1, <1>4, OpenedStays DEF PutStep
  <1>6. Opened \in Int /\ Cardinality(live) \in Int /\ Cardinality(Calls) \in Int /\ pollref \in Int
    BY PollIs DEF TypeInv
  <1>7. poll_entry_put(d) /\ ref[d] \in Nat
    BY <1>1 DEF PutStep, TypeInv
  <1>8. CASE ref[d] > 1
    <2>1. live' = live /\ pollref' = pollref
      BY <1>6, <1>7, <1>8 DEF poll_entry_put, Unref, poll_put
    <2>2. /\ Opened' = Opened + 0 /\ Cardinality(live') = Cardinality(live) + 0
          /\ Cardinality(Calls') = Cardinality(Calls) + 0 /\ pollref' = pollref + (0 + 0 + 0)
      BY <1>4, <1>5, <1>6, <2>1
    <2>3. QED BY <2>2, PollDelta
  <1>9. CASE ~ ref[d] > 1
    <2>1. ref[d] = 1 /\ d \in live
      BY <1>1, <1>9, Alone
    <2>2. live' = live \ {d} /\ pollref' = pollref - 1
      BY <1>6, <1>7, <1>9, <2>1 DEF poll_entry_put, Unref, poll_put
    <2>3. Cardinality(live') = Cardinality(live) + (-1)
      BY <1>6, <2>1, <2>2, PollIs, Minus
    <2>4. pollref' = pollref + (0 + (-1) + 0)
      BY <1>6, <2>2
    <2>5. QED BY <1>4, <1>5, <1>6, <2>3, <2>4, PollDelta
  <1>10. QED BY <1>8, <1>9

LEMMA PollStep ==
  ASSUME TypeInv, TypeInv', CloserInv, RefInv, PollRefs, NEW t \in Threads, Begin(t) \/ Inside(t)
  PROVE  PollRefs'
  <1>1. Opened \in Int /\ Cardinality(live) \in Int /\ Cardinality(Calls) \in Int /\ pollref \in Int
    BY PollIs DEF TypeInv
  <1>2. ASSUME live' = live, pclosed' = pclosed, \A u \in Threads \ {t} : th'[u] = th[u],
               th'[t].back = "close" <=> th[t].back = "close",
               \/ pollref' = pollref /\ (InCall(th'[t]) <=> InCall(th[t]))
               \/ pollref' = pollref + 1 /\ InCall(th'[t]) /\ ~ InCall(th[t])
               \/ pollref' = pollref - 1 /\ ~ InCall(th'[t]) /\ InCall(th[t])
        PROVE  PollRefs'
    BY <1>2, OpenedStays, PollMoves
  <1>3. CASE Begin(t)
    <2>1. ASSUME NEW s, Change(t, s) \/ Break(t, s) \/ xclose(t, s) PROVE PollRefs'
      BY <1>2, <2>1, FxChange, FxBreak, FxXclose DEF Now, pollVars, entVars, InCall, Emits
    <2>2. ASSUME NEW s, NEW pc \in {"add", "mod", "ret", "rm", "wait"}, Call(t, s, pc) PROVE PollRefs'
      BY <1>2, <2>2, FxCall DEF Now, entVars, InCall, Emits
    <2>3. ASSUME xpoll_close(t) PROVE PollRefs'
      <3>1. /\ Now(t, "close", th[t].s, None, th[t].cur, th[t].todo, th[t].hap, th[t].ev, "close", th[t].eback)
            /\ th[t].pc = "idle" /\ ~ pclosed /\ pollref' = pollref + 1 /\ live' = live
        BY <2>3, FxPollClose DEF entVars
      <3>2. Opened' = Opened
        <4>1. Kept /\ Kept'
          BY <3>1 DEF Kept, Now
        <4>2. QED BY <4>1, PollIs, PollIsNext
      <3>3. QED BY <3>1, <3>2, PollMoves DEF Now, InCall, Emits
    <2>4. QED BY <1>3, <2>1, <2>2, <2>3 DEF Begin, CallAdd, CallMod, CallRm, CallWait
  <1>4. CASE EmitRead(t) \/ EmitDetached(t) \/ EmitEnd(t)
    BY <1>2, <1>4, FxEmitRead, FxDetached, FxEmitEnd
    DEF NowAt, NowIdle, Now, pollVars, entVars, InCall, Emits
  <1>5. CASE xpollbase_emit(t)
    <2>1. /\ UNCHANGED <<pollref, pclosed, live>>
          /\ \A u \in Threads : /\ InCall(th'[u]) <=> InCall(th[u])
                                /\ th'[u].back = "close" <=> th[u].back = "close"
      BY <1>5, FxEmit DEF OnlyTo, InCall, Emits
    <2>2. QED BY <2>1, OpenedStays, PollMoves
  <1>6. ASSUME NEW from \in {"added", "modset", "broken"}, NEW eback \in {"idle", "ret", "modput"},
               from = "broken" <=> eback = "idle", emit_pollevents(t, from, eback)
        PROVE  PollRefs'
    BY <1>2, <1>6, FxPollevents DEF Now, pollVars, entVars, InCall, Emits
  <1>7. CASE AddFails(t) \/ xpoll_wait(t) \/ Timeout(t) \/ Fill(t) \/ xpoll_mod(t)
    BY <1>2, <1>7, FxRet, FxFill, FxMod DEF NowAt, Now, pollVars, entVars, InCall, Emits
  <1>8. CASE rm_poll_entry(t) \/ CloseNext(t)
    BY <1>2, <1>8, FxRm, FxCloseNext DEF NowAt, Now, entVars, InCall, Emits
  <1>9. CASE get_poll_entry(t) \/ add_pollbase(t) \/ __xclose(t) \/ CloseEnd(t)
    BY <1>2, <1>9, FxGet, FxAttach, FxSplice, FxCloseEnd
    DEF NowAt, NowIdle, Now, pollVars, entVars, InCall, Emits
  <1>10. CASE Return(t) \/ xpollbase_close(t)
    BY <1>2, <1>10, FxReturn, FxWalk DEF NowAt, NowIdle, Now, entVars, InCall, Emits
  <1>11. CASE add_poll_entry(t)
    <2>1. PICK d \in Entries \ live :
            /\ Now(t, "fill", th[t].s, d, th[t].cur, th[t].todo, th[t].hap, th[t].ev, "idle", th[t].eback)
            /\ th[t].pc = "add" /\ th[t].back = "idle" /\ live' = live \cup {d}
            /\ pollref' = pollref + 1 /\ pclosed' = pclosed
      BY <1>11, FxAdd
    <2>2. Calls' = Calls /\ Opened' = Opened
      BY <2>1, OpenedStays DEF Now, Calls, InCall, Emits
    <2>3. Cardinality(live') = Cardinality(live) + 1
      BY <2>1, PollIs, Plus
    <2>4. /\ Opened' = Opened + 0 /\ Cardinality(Calls') = Cardinality(Calls) + 0
          /\ pollref' = pollref + (0 + 1 + 0)
      BY <1>1, <2>1, <2>2
    <2>5. QED BY <2>3, <2>4, PollDelta
  <1>12. CASE ClosePut(t)
    <2>1. /\ Now(t, "ret", th[t].s, None, th[t].cur, th[t].todo, th[t].hap, th[t].ev, "idle", th[t].eback)
          /\ th[t].pc = "ret2" /\ th[t].back = "close" /\ pollref' = pollref - 1
          /\ live' = live /\ pclosed' = pclosed
      BY <1>12, FxClosePut DEF entVars
    <2>2. Kept /\ ~ Kept'
      BY <2>1 DEF Kept, Now, CloserInv
    <2>3. Cardinality(Calls') = Cardinality(Calls) + 0
      <3>1. Calls' = Calls
        BY <2>1 DEF Now, Calls, InCall, Emits
      <3>2. QED BY <1>1, <3>1
    <2>4. Opened' = Opened + (-1)
      BY <2>2, PollIs, PollIsNext
    <2>5. pollref' = pollref + ((-1) + 0 + 0)
      BY <1>1, <2>1
    <2>6. Cardinality(live') = Cardinality(live) + 0
      BY <1>1, <2>1
    <2>7. QED BY <2>3, <2>4, <2>5, <2>6, PollDelta
  <1>13. QED BY <1>3, <1>4, <1>5, <1>6, <1>7, <1>8, <1>9, <1>10, <1>11, <1>12, PollPuts
         DEF Inside, EmitBroken, EmitAdded, EmitModified

----------------------------------------------------------------------------
(* What xpoll_wait would report.                                            *)

\* The other threads stay as they are, or are woken.
LEMMA Others ==
  ASSUME TypeInv, NEW t \in Threads, Begin(t) \/ Inside(t)
  PROVE  \A u \in Threads \ {t} : th'[u] = th[u] \/ (th[u].pc = "sleep" /\ OnlyTo(u, "ret"))
  <1>1. CASE Begin(t)
    BY <1>1, Begins DEF Starts
  <1>2. CASE EmitRead(t) \/ EmitDetached(t) \/ EmitPut(t) \/ EmitEnd(t)
    BY <1>2, FxEmitRead, FxDetached, FxEmitPut, FxEmitEnd DEF NowAt, NowIdle, Now
  <1>3. CASE xpollbase_emit(t)
    BY <1>3, FxEmit
  <1>4. ASSUME NEW from \in {"added", "modset", "broken"}, NEW eback \in {"idle", "ret", "modput"},
               emit_pollevents(t, from, eback)
        PROVE  \A u \in Threads \ {t} : th'[u] = th[u]
    BY <1>4, FxPollevents DEF Now
  <1>5. CASE add_pollbase(t) \/ __xclose(t)
    BY <1>5, FxAttach, FxSplice DEF Now
  <1>6. QED BY <1>1, <1>2, <1>3, <1>4, <1>5, Asides
        DEF Aside, Inside, EmitBroken, EmitAdded, EmitModified

\* A thread that is about to emit begins to, and does nothing else.
Pollevents(t) == EmitAdded(t) \/ EmitModified(t) \/ EmitBroken(t)

LEMMA FxPollevent ==
  ASSUME TypeInv, NEW t \in Threads, Pollevents(t)
  PROVE  /\ th'[t].pc = "emit" /\ th'[t].s = th[t].s /\ th'[t].todo = atts[th[t].s]
         /\ th[t].pc \in {"added", "modset", "broken"}
         /\ th[t].pc = "added" => th'[t].eback = "ret"
         /\ \A u \in Threads \ {t} : th'[u] = th[u]
         /\ th[t].s \in Socks /\ lock[th[t].s] = None
         /\ UNCHANGED <<pollVars, entVars, atts, cond, life>>
  BY FxPollevents DEF Pollevents, EmitAdded, EmitModified, EmitBroken, Now

LEMMA Places ==
  ASSUME NEW t \in Threads, Begin(t) \/ Inside(t)
  PROVE  /\ ~ Pollevents(t) => th[t].pc \notin {"added", "modset", "broken"}
         /\ th[t].pc = "apply" => xpollbase_emit(t) \/ EmitDetached(t)
         /\ th[t].pc \in {"emit", "eput"} => EmitRead(t) \/ EmitPut(t) \/ EmitEnd(t)
  <1>1. CASE Begin(t)
    BY <1>1 DEF Begin, Change, Break, CallAdd, CallMod, CallRm, CallWait, Call, xclose, xpoll_close, At
  <1>2. CASE Inside(t)
    <2>1. \/ Pollevents(t) \/ EmitRead(t) \/ EmitPut(t) \/ EmitEnd(t)
          \/ xpollbase_emit(t) \/ EmitDetached(t)
          \/ th[t].pc \notin {"added", "modset", "broken", "emit", "eput", "apply"}
      BY <1>2 DEF Inside, Pollevents, add_poll_entry, AddFails, Fill, add_pollbase, rm_poll_entry,
             RmPut, Return, get_poll_entry, xpoll_mod, ModPut, xpoll_wait, Timeout, CloseNext, ClosePut,
             __xclose, xpollbase_close, CloseUnref, CloseEnd, At
    <2>2. /\ EmitRead(t) => th[t].pc = "emit"
          /\ EmitPut(t) => th[t].pc = "eput"
          /\ EmitEnd(t) => th[t].pc = "emit"
          /\ xpollbase_emit(t) \/ EmitDetached(t) => th[t].pc = "apply"
          /\ Pollevents(t) => th[t].pc \in {"added", "modset", "broken"}
      BY DEF EmitRead, EmitPut, EmitEnd, xpollbase_emit, EmitDetached, Pollevents,
             EmitAdded, EmitModified, EmitBroken, emit_pollevents, At
    <2>3. QED BY <2>1, <2>2
  <1>3. QED BY <1>1, <1>2

LEMMA DueStay ==
  ASSUME TypeInv, NEW t \in Threads, Begin(t) \/ Inside(t), NEW s \in Socks, Due(s)
  PROVE  Due(s)' \/ (Pollevents(t) /\ th[t].s = s)
  <1>1. PICK u \in Threads : th[u].s = s /\ th[u].pc \in {"added", "modset", "broken"}
    BY DEF Due
  <1>2. CASE u = t
    BY <1>1, <1>2, Places
  <1>3. CASE u # t
    <2>1. th'[u] = th[u]
      BY <1>1, <1>3, Others
    <2>2. QED BY <1>1, <2>1 DEF Due
  <1>4. QED BY <1>2, <1>3

LEMMA VisitStay ==
  ASSUME TypeInv, LockInv, NEW t \in Threads, Begin(t) \/ Inside(t),
         NEW u \in Threads, NEW e, Visits(u, e)
  PROVE  \/ Visits(u, e)' /\ th'[u].s = th[u].s /\ th'[u].eback = th[u].eback
         \/ u = t /\ e = th[t].cur /\ (xpollbase_emit(t) \/ EmitDetached(t))
  <1>1. CASE u # t
    <2>1. th'[u] = th[u]
      BY <1>1, Others DEF Visits, Emits
    <2>2. QED BY <2>1 DEF Visits, Emits
  <1>2. CASE u = t
    <2>1. Emits(th[t]) /\ (e \in On(th[t].todo) \/ (th[t].pc = "apply" /\ th[t].cur = e))
      BY <1>2 DEF Visits
    <2>2. CASE EmitRead(t)
      <3>1. th[t].pc = "emit"
        BY <2>2, FxEmitRead
      <3>2. e = Head(th[t].todo) \/ e \in On(Tail(th[t].todo))
        <4>1. th[t].todo \in Seq(Entries) /\ th[t].todo # <<>> /\ Once(th[t].todo) /\ e \in On(th[t].todo)
          BY <2>1, <2>2, <3>1, FxEmitRead DEF LockInv
        <4>2. On(Tail(th[t].todo)) = On(th[t].todo) \ {Head(th[t].todo)}
          BY <4>1, Headed
        <4>3. QED BY <4>1, <4>2
      <3>3. QED BY <1>2, <2>2, <3>2, FxEmitRead DEF Now, Visits, Emits
    <2>3. CASE EmitPut(t)
      BY <1>2, <2>1, <2>3, FxEmitPut DEF NowAt, Now, Visits, Emits
    <2>4. CASE EmitEnd(t)
      BY <2>1, <2>4, FxEmitEnd, NoneOn
    <2>5. CASE xpollbase_emit(t)
      BY <1>2, <2>1, <2>5, FxEmit DEF OnlyTo, Visits, Emits
    <2>6. CASE EmitDetached(t)
      BY <1>2, <2>1, <2>6, FxDetached DEF NowAt, Now, Visits, Emits
    <2>7. QED BY <2>1, <2>2, <2>3, <2>4, <2>5, <2>6, Places DEF Emits
  <1>3. QED BY <1>1, <1>2

\* What changes of an entry on a socket, and who changes it.
LEMMA AttachedStays ==
  ASSUME TypeInv, ListInv, MakeInv, RefInv, NEW t \in Threads, Begin(t) \/ Inside(t),
         NEW s \in Socks, NEW e \in On(atts[s])
  PROVE  /\ events'[e] = events[e] \/ (xpoll_mod(t) /\ th[t].s = s)
         /\ happened'[e] = happened[e] \/ (xpollbase_emit(t) /\ e = th[t].cur)
  <1>1. e \in Entries /\ fdof[e] = s
    BY DEF TypeInv, On, ListInv
  <1>2. CASE EmitPut(t) \/ RmPut(t) \/ ModPut(t) \/ CloseUnref(t)
    <2>1. PICK d \in Entries : PutStep(t, d) /\ (th[t].e = d \/ t \in PutsOf(d))
      BY <1>2, PutSteps
    <2>2. QED BY <1>1, <2>1, PutFrame DEF PutStep
  <1>3. CASE add_poll_entry(t)
    <2>1. PICK d \in Entries \ live : events' = [events EXCEPT ![d] = {}] /\ happened' = [happened EXCEPT ![d] = {}]
      BY <1>3, FxAdd
    <2>2. e # d
      BY <2>1, Dead
    <2>3. QED BY <1>1, <2>1, <2>2 DEF TypeInv
  <1>4. CASE Fill(t)
    <2>1. /\ th[t].pc = "fill" /\ th[t].e \in Entries
          /\ \E ev : events' = [events EXCEPT ![th[t].e] = ev]
          /\ \E old : happened' = [happened EXCEPT ![th[t].e] = old]
      BY <1>4, FxFill
    <2>2. e # th[t].e
      BY <2>1 DEF MakeInv, Makes
    <2>3. QED BY <1>1, <2>1, <2>2 DEF TypeInv
  <1>5. CASE xpoll_mod(t)
    <2>1. /\ th[t].pc = "modev" /\ th[t].e \in Entries /\ happened' = happened
          /\ \E ev : events' = [events EXCEPT ![th[t].e] = ev]
      BY <1>5, FxMod
    <2>2. fdof[th[t].e] = th[t].s
      BY <2>1 DEF ListInv
    <2>3. QED BY <1>1, <1>5, <2>1, <2>2 DEF TypeInv
  <1>6. CASE xpollbase_emit(t)
    BY <1>1, <1>6, FxEmit DEF TypeInv
  <1>7. CASE Begin(t)
    BY <1>7, Begins DEF Starts, entVars
  <1>8. ASSUME Inside(t), ~ (EmitPut(t) \/ RmPut(t) \/ ModPut(t) \/ CloseUnref(t)),
               ~ add_poll_entry(t), ~ Fill(t), ~ xpoll_mod(t), ~ xpollbase_emit(t)
        PROVE  UNCHANGED <<happened, events>>
    BY <1>8 DEF Inside, EmitRead, EmitDetached, EmitEnd, EmitBroken, EmitAdded,
           EmitModified, emit_pollevents, AddFails, add_pollbase, rm_poll_entry,
           Return, get_poll_entry, xpoll_wait, Timeout, CloseNext, ClosePut,
           __xclose, xpollbase_close, CloseEnd, entVars
  <1>9. QED BY <1>2, <1>3, <1>4, <1>5, <1>6, <1>7, <1>8

LEMMA CondStays ==
  ASSUME TypeInv, NEW t \in Threads, Begin(t) \/ Inside(t), NEW s \in Socks
  PROVE  cond'[s] = cond[s] \/ Change(t, s) \/ Break(t, s)
  <1>1. ASSUME NEW x \in Socks, Change(t, x) \/ Break(t, x), x # s PROVE cond'[s] = cond[s]
    BY <1>1, FxChange, FxBreak DEF TypeInv
  <1>2. ASSUME Begin(t), \A x \in Socks : ~ (Change(t, x) \/ Break(t, x)) PROVE cond' = cond
    BY <1>2 DEF Begin, CallAdd, CallMod, CallRm, CallWait, Call, xclose, xpoll_close, sockVars
  <1>3. ASSUME Inside(t) PROVE cond' = cond
    BY <1>3 DEF Inside, EmitRead, EmitDetached, EmitPut, xpollbase_emit, EmitEnd, EmitBroken, EmitAdded,
           EmitModified, emit_pollevents, add_poll_entry, AddFails, Fill, add_pollbase, rm_poll_entry,
           RmPut, Return, get_poll_entry, xpoll_mod, ModPut, xpoll_wait, Timeout, CloseNext, ClosePut,
           __xclose, xpollbase_close, CloseUnref, CloseEnd, sockVars
  <1>4. QED BY <1>1, <1>2, <1>3

LEMMA ExactStep ==
  ASSUME TypeInv, ListInv, MakeInv, LockInv, RefInv, ExactInv, NEW t \in Threads,
         Begin(t) \/ Inside(t)
  PROVE  ExactInv'
  <1> DEFINE Due1(s) == \E u \in Threads : th'[u].s = s /\ th'[u].pc \in {"added", "modset", "broken"}
             Visits1(u, e) == Emits(th'[u]) /\ (e \in On(th'[u].todo) \/ (th'[u].pc = "apply" /\ th'[u].cur = e))
  <1>1. \A s \in Socks : Due(s) => Due1(s) \/ (Pollevents(t) /\ th[t].s = s)
    BY DueStay DEF Due
  <1>2. \A u \in Threads : \A e : Visits(u, e) =>
          \/ Visits1(u, e) /\ th'[u].s = th[u].s
          \/ u = t /\ e = th[t].cur /\ (xpollbase_emit(t) \/ EmitDetached(t))
    BY VisitStay DEF Visits, Emits
  <1>3. \A s \in Socks : xpoll_mod(t) /\ th[t].s = s => Due1(s)
    BY FxMod DEF NowAt, Now
  <1>4. ASSUME NEW s \in Socks, Change(t, s) \/ Break(t, s)
        PROVE  /\ lock[s] = None
               /\ Due1(s) \/ \A e \in On(atts[s]) : th'[t].s = s /\ Visits1(t, e)
    BY <1>4, FxChange, FxBreak DEF Now, Emits
  <1>5. ASSUME Pollevents(t) PROVE /\ lock[th[t].s] = None /\ th[t].s \in Socks
                                   /\ \A e \in On(atts[th[t].s]) : th'[t].s = th[t].s /\ Visits1(t, e)
    BY <1>5, FxPollevent DEF Emits
  <1> HIDE DEF Due1, Visits1
  <1>6. ASSUME NEW s \in Socks, NEW e \in On(atts'[s]) \cap On(lru')
        PROVE  \/ Due1(s) \/ happened'[e] = cond'[s] \cap events'[e]
               \/ \E u \in Threads : th'[u].s = s /\ Visits1(u, e)
    <2>1. CASE e \in On(atts[s]) \cap On(lru)
      <3>1. \/ Due(s) \/ happened[e] = cond[s] \cap events[e]
            \/ \E u \in Threads : th[u].s = s /\ Visits(u, e)
        BY <2>1 DEF ExactInv
      <3>2. CASE Due(s)
        BY <1>1, <1>5, <2>1, <3>2
      <3>3. CASE xpollbase_emit(t) /\ e = th[t].cur
        <4>1. /\ th[t].pc = "apply" /\ th[t].s \in Socks /\ th[t].cur \in Entries
              /\ happened' = [happened EXCEPT ![th[t].cur] = th[t].ev] /\ events' = events /\ cond' = cond
          BY <3>3, FxEmit DEF sockVars
        <4>2. th[t].s = s
          <5>1. th[t].cur \in On(atts[th[t].s])
            BY <4>1 DEF LockInv, Emits
          <5>2. QED BY <2>1, <3>3, <4>1, <5>1 DEF ListInv
        <4>3. Due(s) \/ th[t].ev = cond[s] \cap events[e]
          BY <3>3, <4>1, <4>2 DEF ExactInv
        <4>4. QED BY <3>2, <3>3, <4>1, <4>3 DEF TypeInv
      <3>4. ASSUME NEW u \in Threads, th[u].s = s, Visits(u, e), ~ (xpollbase_emit(t) /\ e = th[t].cur)
            PROVE  th'[u].s = s /\ Visits1(u, e)
        BY <1>2, <2>1, <3>4, FxDetached
      <3>5. CASE happened[e] = cond[s] \cap events[e] /\ ~ (xpollbase_emit(t) /\ e = th[t].cur)
        <4>1. happened'[e] = happened[e] /\ (events'[e] = events[e] \/ Due1(s))
          BY <1>3, <2>1, <3>5, AttachedStays
        <4>2. cond'[s] = cond[s] \/ Due1(s) \/ \E u \in Threads : th'[u].s = s /\ Visits1(u, e)
          BY <1>4, <2>1, CondStays
        <4>3. QED BY <3>5, <4>1, <4>2
      <3>6. QED BY <3>1, <3>2, <3>3, <3>4, <3>5
    <2>2. CASE e \notin On(atts[s])
      <3>1. ~ EmitDetached(t) /\ ~ __xclose(t) /\ atts' # atts
        <4>1. ASSUME EmitDetached(t) PROVE On(atts'[s]) \subseteq On(atts[s])
          <5>1. th[t].s \in Socks /\ atts' = [atts EXCEPT ![th[t].s] = Without(@, th[t].cur)]
            BY <4>1, FxDetached
          <5>2. On(Without(atts[th[t].s], th[t].cur)) \subseteq On(atts[th[t].s])
            BY <5>1, Removed DEF TypeInv
          <5>3. QED BY <5>1, <5>2 DEF TypeInv
        <4>2. ASSUME __xclose(t) PROVE On(atts'[s]) \subseteq On(atts[s])
          BY <4>2, FxSplice, NoneOn DEF TypeInv
        <4>3. QED BY <1>6, <2>2, <4>1, <4>2
      <3>2. add_pollbase(t)
        BY <3>1, AttsStay
      <3>3. th'[t].pc = "added" /\ th'[t].s = th[t].s /\ atts' = [atts EXCEPT ![th[t].s] = Append(@, th[t].e)]
        BY <3>2, FxAttach DEF Now
      <3>4. th[t].s = s
        BY <1>6, <2>2, <3>3 DEF TypeInv
      <3>5. QED BY <3>3, <3>4 DEF Due1
    <2>3. CASE e \notin On(lru)
      <3>1. add_poll_entry(t)
        BY <1>6, <2>3, LruStay
      <3>2. PICK d \in Entries \ live : lru' = Append(lru, d) /\ atts' = atts
        BY <3>1, FxAdd DEF sockVars
      <3>3. On(lru') = On(lru) \cup {d} /\ d \notin On(atts[s])
        BY <3>2, Appended, Dead DEF TypeInv
      <3>4. QED BY <1>6, <2>3, <3>2, <3>3
    <2>4. QED BY <2>1, <2>2, <2>3
  <1>7. ASSUME NEW u \in Threads, th'[u].pc = "apply"
        PROVE  Due1(th'[u].s) \/ th'[u].ev = cond'[th'[u].s] \cap events'[th'[u].cur]
    <2>1. CASE u # t
      <3>1. th'[u] = th[u] /\ Emits(th[u])
        BY <1>7, <2>1, Others DEF OnlyTo, Emits
      <3>2. PICK s \in Socks : s = th[u].s /\ lock[s] = u /\ lock[s] # None
        BY <3>1, Emitter, XpollAssumption
      <3>3. th[u].cur \in On(atts[s])
        BY <1>7, <3>1, <3>2 DEF LockInv
      <3>4. CASE Due(s)
        BY <1>1, <1>5, <3>1, <3>2, <3>4
      <3>5. CASE th[u].ev = cond[s] \cap events[th[u].cur]
        <4>1. events'[th[u].cur] = events[th[u].cur] \/ Due1(s)
          BY <1>3, <3>3, AttachedStays
        <4>2. cond'[s] = cond[s]
          BY <1>4, <3>2, CondStays
        <4>3. QED BY <3>1, <3>2, <3>5, <4>1, <4>2
      <3>6. QED BY <1>7, <3>1, <3>2, <3>4, <3>5 DEF ExactInv
    <2>2. CASE u = t
      <3>1. EmitRead(t)
        <4>1. CASE Begin(t)
          BY <1>7, <2>2, <4>1, Begins DEF Starts
        <4>2. CASE Inside(t) /\ Emits(th[t])
          <5>1. th'[t].pc # "apply" \/ EmitRead(t)
            BY <4>2, Places, FxDetached, FxEmit, FxEmitPut, FxEmitEnd
            DEF NowAt, NowIdle, Now, OnlyTo, Emits
          <5>2. QED BY <1>7, <2>2, <5>1
        <4>3. CASE Inside(t) /\ ~ Emits(th[t])
          <5>1. th'[t].pc # "apply"
            <6>1. CASE Pollevents(t)
              BY <6>1, FxPollevent
            <6>2. CASE add_pollbase(t) \/ __xclose(t)
              BY <6>2, FxAttach, FxSplice DEF Now
            <6>3. CASE EmitRead(t) \/ EmitDetached(t) \/ EmitPut(t) \/ xpollbase_emit(t) \/ EmitEnd(t)
              BY <4>3, <6>3 DEF EmitRead, EmitDetached, EmitPut, xpollbase_emit, EmitEnd, At, Emits
            <6>4. QED BY <4>3, <6>1, <6>2, <6>3, Asides DEF Inside, Pollevents, Aside, Emits
          <5>2. QED BY <1>7, <2>2, <5>1
        <4>4. QED BY <4>1, <4>2, <4>3
      <3>2. /\ th'[t].s = th[t].s /\ th'[t].cur = Head(th[t].todo) /\ Emits(th[t])
            /\ th'[t].ev = th[t].hap \cap events[Head(th[t].todo)] /\ UNCHANGED <<cond, events>>
        BY <3>1, FxEmitRead DEF Now, Emits, sockVars, entVars
      <3>3. th[t].hap = cond[th[t].s]
        BY <3>2 DEF LockInv
      <3>4. QED BY <2>2, <3>2, <3>3
    <2>3. QED BY <2>1, <2>2
  <1>8. QED BY <1>6, <1>7 DEF ExactInv, Due, Visits, Emits, Due1, Visits1

----------------------------------------------------------------------------
(* The order of the list, and the threads that sleep.                       *)

Brings1(u, e) ==
  \/ Makes(th'[u]) \/ th'[u].pc = "added"
  \/ /\ th'[u].eback = "ret" /\ Emits(th'[u])
     /\ e \in On(th'[u].todo) \/ (th'[u].pc = "apply" /\ th'[u].cur = e)
Raw1(e) == \E u \in Threads : th'[u].s = fdof'[e] /\ Brings1(u, e)

\* A new entry stays so until something is emitted to it.
LEMMA RawKept ==
  ASSUME TypeInv, ListInv, MakeInv, LockInv, LifeInv, AttachInv, RefInv, NEW t \in Threads,
         Begin(t) \/ Inside(t), NEW e \in On(lru), Raw(e), ~ (xpollbase_emit(t) /\ e = th[t].cur)
  PROVE  Raw1(e)
  <1>1. e \in Entries /\ fdof'[e] = fdof[e] /\ fdof[e] \in Socks
    <2>1. e \in Entries /\ fdof[e] \in Socks
      BY DEF On, TypeInv, ListInv
    <2>2. QED BY <2>1, FdKept
  <1>2. PICK u \in Threads : th[u].s = fdof[e] /\ Brings(u, e)
    BY DEF Raw
  <1>3. ASSUME NEW v \in Threads, Makes(th[v]), th[v].s = fdof[e] PROVE Raw1(e)
    <2>1. CASE MakersStay(t)
      BY <1>1, <1>3, <2>1 DEF MakersStay, Raw1, Brings1
    <2>2. CASE add_poll_entry(t)
      BY <1>1, <1>3, <2>2, FxAdd DEF Now, Makes, Raw1, Brings1
    <2>3. CASE add_pollbase(t)
      BY <1>1, <1>3, <2>3, FxAttach DEF Now, Makes, Raw1, Brings1
    <2>4. QED BY <2>1, <2>2, <2>3, Makers
  <1>4. CASE th[u].pc = "added"
    <2>1. CASE u # t
      <3>1. th'[u] = th[u]
        BY <1>4, <2>1, Others
      <3>2. QED BY <1>1, <1>2, <1>4, <3>1 DEF Raw1, Brings1
    <2>2. CASE u = t
      <3>1. /\ th'[t].pc = "emit" /\ th'[t].s = th[t].s /\ th'[t].todo = atts[th[t].s]
            /\ th'[t].eback = "ret"
        BY <1>4, <2>2, Places, FxPollevent
      <3>2. CASE e \in On(atts[fdof[e]])
        BY <1>1, <1>2, <2>2, <3>1, <3>2 DEF Raw1, Brings1, Emits
      <3>3. CASE e \notin On(atts[fdof[e]])
        <4>1. life[fdof[e]] = "open"
          BY <1>1, <1>2, <1>4, AddingIs DEF LifeInv, Adds
        <4>2. PICK v \in Threads : Makes(th[v]) /\ th[v].e = e
          BY <3>3, <4>1 DEF AttachInv
        <4>3. th[v].s = fdof[e]
          BY <4>2 DEF ListInv
        <4>4. QED BY <1>3, <4>2, <4>3
      <3>4. QED BY <3>2, <3>3
    <2>3. QED BY <2>1, <2>2
  <1>5. CASE th[u].eback = "ret" /\ Visits(u, e)
    <2>1. ~ (EmitDetached(t) /\ e = th[t].cur)
      BY FxDetached
    <2>2. Visits(u, e)' /\ th'[u].s = th[u].s /\ th'[u].eback = "ret"
      BY <1>5, <2>1, VisitStay
    <2>3. QED BY <1>1, <1>2, <2>2 DEF Raw1, Brings1, Visits, Emits
  <1>6. QED BY <1>2, <1>3, <1>4, <1>5 DEF Brings

\* What happened to a listed entry changes in the emission to it, and when it is filled.
LEMMA ListedStays ==
  ASSUME TypeInv, ListInv, MakeInv, RefInv, NEW t \in Threads, Begin(t) \/ Inside(t), NEW e \in On(lru)
  PROVE  \/ happened'[e] = happened[e] \/ (xpollbase_emit(t) /\ e = th[t].cur)
         \/ happened[e] = {} /\ Raw1(e)
  <1>1. e \in Entries
    BY DEF TypeInv, On
  <1>2. CASE EmitPut(t) \/ RmPut(t) \/ ModPut(t) \/ CloseUnref(t)
    <2>1. PICK d \in Entries : PutStep(t, d) /\ (th[t].e = d \/ t \in PutsOf(d))
      BY <1>2, PutSteps
    <2>2. QED BY <1>1, <2>1, PutFrame DEF PutStep
  <1>3. CASE add_poll_entry(t)
    <2>1. PICK d \in Entries \ live : happened' = [happened EXCEPT ![d] = {}]
      BY <1>3, FxAdd
    <2>2. e # d
      BY <2>1, Dead
    <2>3. QED BY <1>1, <2>1, <2>2 DEF TypeInv
  <1>4. CASE Fill(t)
    <2>1. /\ th[t].pc = "fill" /\ th[t].e \in Entries /\ NowAt(t, "attach") /\ fdof' = fdof
          /\ \E old : happened' = [happened EXCEPT ![th[t].e] = old]
      BY <1>4, FxFill
    <2>2. CASE e # th[t].e
      BY <1>1, <2>1, <2>2 DEF TypeInv
    <2>3. CASE e = th[t].e
      <3>1. happened[e] = {} /\ fdof[e] = th[t].s
        BY <2>1, <2>3 DEF MakeInv, ListInv, Makes
      <3>2. Raw1(e)
        BY <2>1, <3>1 DEF Raw1, Brings1, NowAt, Now, Makes
      <3>3. QED BY <3>1, <3>2
    <2>4. QED BY <2>2, <2>3
  <1>5. CASE xpollbase_emit(t)
    BY <1>1, <1>5, FxEmit DEF TypeInv
  <1>6. CASE Begin(t)
    BY <1>6, Begins DEF Starts, entVars
  <1>7. ASSUME Inside(t), ~ (EmitPut(t) \/ RmPut(t) \/ ModPut(t) \/ CloseUnref(t)),
               ~ add_poll_entry(t), ~ Fill(t), ~ xpollbase_emit(t)
        PROVE  happened' = happened
    BY <1>7 DEF Inside, EmitRead, EmitDetached, EmitEnd, EmitBroken, EmitAdded,
           EmitModified, emit_pollevents, AddFails, add_pollbase, rm_poll_entry,
           Return, get_poll_entry, xpoll_mod, xpoll_wait, Timeout, CloseNext, ClosePut,
           __xclose, xpollbase_close, CloseEnd, entVars
  <1>8. QED BY <1>2, <1>3, <1>4, <1>5, <1>6, <1>7

\* Ready entries are in front of the others, in any list that keeps their order.
LEMMA OrderKept ==
  ASSUME TypeInv, ListInv, MakeInv, LockInv, LifeInv, AttachInv, RefInv, OrderInv, NEW t \in Threads,
         Begin(t) \/ Inside(t), NEW x \in On(lru), NEW y \in On(lru), Before(lru, x, y),
         ~ (xpollbase_emit(t) /\ (x = th[t].cur \/ y = th[t].cur)), happened'[y] # {}
  PROVE  Raw1(y) \/ happened'[x] # {}
  <1>1. happened'[x] = happened[x] \/ happened[x] = {}
    BY ListedStays
  <1>2. happened'[y] = happened[y] \/ Raw1(y)
    BY ListedStays
  <1>3. happened[y] # {} => Raw(y) \/ happened[x] # {}
    BY DEF OrderInv
  <1>4. Raw(y) => Raw1(y)
    BY RawKept
  <1>5. QED BY <1>1, <1>2, <1>3, <1>4

LEMMA BeforeOn == \A q, x, y : Before(q, x, y) => x \in On(q) /\ y \in On(q)
  BY DEF Before, On

LEMMA OrderStep ==
  ASSUME TypeInv, ListInv, MakeInv, LockInv, LifeInv, AttachInv, RefInv, OrderInv, NEW t \in Threads,
         Begin(t) \/ Inside(t)
  PROVE  OrderInv'
  <1>1. SUFFICES ASSUME NEW x, NEW y, Before(lru', x, y), happened'[y] # {}
                 PROVE  Raw1(y) \/ happened'[x] # {}
    BY DEF OrderInv, Before, Raw, Raw1, Brings, Brings1, Visits, Makes, Emits
  <1>2. CASE xpollbase_emit(t)
    <2>1. /\ lru \in Seq(Entries) /\ Once(lru) /\ lru' = Moved(th[t].cur, th[t].ev)
          /\ th[t].cur \in On(lru) /\ th[t].cur \in Entries
          /\ happened' = [happened EXCEPT ![th[t].cur] = th[t].ev]
      BY <1>2, FxEmit DEF TypeInv, ListInv
    <2>2. PICK c \in Entries : c = th[t].cur
      BY <2>1
    <2>3. PICK w \in Seq(Entries) : /\ w = Without(lru, c) /\ On(w) = On(lru) \ {c}
                                    /\ \A a, b : Before(w, a, b) => Before(lru, a, b)
      BY <2>1, <2>2, Removed
    <2>4. happened'[c] = th[t].ev
      BY <2>1, <2>2 DEF TypeInv
    <2>5. ASSUME Before(lru, x, y), x # c, y # c PROVE Raw1(y) \/ happened'[x] # {}
      BY <1>1, <2>2, <2>5, BeforeOn, OrderKept
    <2>6. ASSUME Before(w, x, y) PROVE Raw1(y) \/ happened'[x] # {}
      <3>1. x # c /\ y # c /\ Before(lru, x, y)
        BY <2>3, <2>6, BeforeOn
      <3>2. QED BY <2>5, <3>1
    <2>7. CASE th[t].ev # {}
      <3>1. lru' = <<c>> \o w
        BY <2>1, <2>2, <2>3, <2>7 DEF Moved
      <3>2. Before(w, x, y) \/ x = c
        BY <1>1, <3>1, Pushed
      <3>3. QED BY <2>4, <2>6, <2>7, <3>2
    <2>8. CASE th[t].ev = {} /\ happened[c] # {}
      <3>1. lru' = Append(w, c)
        BY <2>1, <2>2, <2>3, <2>8 DEF Moved
      <3>2. Before(w, x, y) \/ y = c
        BY <1>1, <3>1, Appended
      <3>3. QED BY <1>1, <2>4, <2>6, <2>8, <3>2
    <2>9. CASE th[t].ev = {} /\ happened[c] = {}
      <3>1. lru' = lru
        BY <2>1, <2>2, <2>9 DEF Moved
      <3>2. x # c \/ y = c \/ Raw1(y)
        <4>1. ASSUME x = c, y # c PROVE Raw1(y)
          <5>1. y \in On(lru) /\ x \in On(lru) /\ Before(lru, x, y)
            BY <1>1, <3>1, BeforeOn
          <5>2. happened'[y] = happened[y] \/ Raw1(y)
            BY <2>2, <4>1, <5>1, ListedStays
          <5>3. happened[y] # {} => Raw(y)
            BY <2>9, <4>1, <5>1 DEF OrderInv
          <5>4. Raw(y) => Raw1(y)
            BY <2>2, <4>1, <5>1, RawKept
          <5>5. QED BY <1>1, <5>2, <5>3, <5>4
        <4>2. QED BY <4>1
      <3>3. y # c
        BY <1>1, <2>4, <2>9
      <3>4. QED BY <1>1, <2>5, <3>1, <3>2, <3>3
    <2>10. QED BY <2>7, <2>8, <2>9
  <1>3. CASE add_poll_entry(t)
    <2>1. PICK d \in Entries \ live : lru' = Append(lru, d) /\ happened' = [happened EXCEPT ![d] = {}]
      BY <1>3, FxAdd
    <2>2. happened'[d] = {} /\ lru \in Seq(Entries)
      BY <2>1 DEF TypeInv
    <2>3. Before(lru, x, y)
      BY <1>1, <2>1, <2>2, Appended
    <2>4. ~ xpollbase_emit(t)
      BY <1>3 DEF add_poll_entry, xpollbase_emit, At
    <2>5. QED BY <1>1, <2>3, <2>4, BeforeOn, OrderKept
  <1>4. ASSUME ~ xpollbase_emit(t), ~ add_poll_entry(t) PROVE Raw1(y) \/ happened'[x] # {}
    <2>1. lru' = lru \/ \E d : lru' = Without(lru, d)
      BY <1>4, LruStay
    <2>2. Before(lru, x, y)
      BY <1>1, <2>1, Removed DEF TypeInv, ListInv
    <2>3. QED BY <1>1, <1>4, <2>2, BeforeOn, OrderKept
  <1>5. QED BY <1>2, <1>3, <1>4

LEMMA QuietStep ==
  ASSUME TypeInv, ListInv, MakeInv, LockInv, LifeInv, AttachInv, RefInv, OrderInv, QuietInv,
         NEW t \in Threads, Begin(t) \/ Inside(t)
  PROVE  QuietInv'
  <1>1. SUFFICES ASSUME NEW u \in Threads, th'[u].pc = "sleep", NEW e \in On(lru')
                 PROVE  Raw1(e) \/ happened'[e] = {}
    BY DEF QuietInv, At, Raw, Raw1, Brings, Brings1, Visits, Makes, Emits
  <1>2. th[u].pc = "sleep" \/ xpoll_wait(t)
    <2>1. CASE u # t
      BY <1>1, <2>1, Others DEF OnlyTo
    <2>2. CASE u = t /\ Begin(t)
      BY <1>1, <2>2, Begins DEF Starts
    <2>3. CASE u = t /\ (EmitRead(t) \/ EmitDetached(t) \/ EmitPut(t) \/ xpollbase_emit(t) \/ EmitEnd(t))
      BY <1>1, <2>3, FxEmitRead, FxDetached, FxEmitPut, FxEmit, FxEmitEnd DEF NowAt, NowIdle, Now, OnlyTo
    <2>4. CASE u = t /\ Pollevents(t)
      BY <1>1, <2>4, FxPollevent
    <2>5. CASE u = t /\ (add_poll_entry(t) \/ Fill(t) \/ add_pollbase(t) \/ xpoll_mod(t) \/ ModPut(t))
      BY <1>1, <2>5, FxAdd, FxFill, FxAttach, FxMod, FxModPut DEF NowAt, Now
    <2>6. CASE u = t /\ (rm_poll_entry(t) \/ RmPut(t) \/ Return(t) \/ get_poll_entry(t))
      BY <1>1, <2>6, FxRm, FxRmPut, FxReturn, FxGet DEF NowAt, NowIdle, Now
    <2>7. CASE u = t /\ (CloseNext(t) \/ ClosePut(t) \/ __xclose(t) \/ xpollbase_close(t) \/ CloseUnref(t)
                         \/ CloseEnd(t))
      BY <1>1, <2>7, FxCloseNext, FxClosePut, FxSplice, FxWalk, FxCloseUnref, FxCloseEnd DEF NowAt, NowIdle, Now
    <2>8. CASE u = t /\ (AddFails(t) \/ Timeout(t))
      <3>1. th[t].pc # "wait" /\ (th'[t].pc = "ret" \/ th[t].pc = "wait")
        BY <2>8, FxRet DEF AddFails, Timeout, At, NowAt, Now
      <3>2. QED BY <1>1, <2>8, <3>1
    <2>9. QED BY <2>1, <2>2, <2>3, <2>4, <2>5, <2>6, <2>7, <2>8 DEF Inside, Pollevents
  <1>3. CASE xpoll_wait(t) /\ th[u].pc # "sleep"
    <2>1. u = t
      BY <1>1, <1>3, Others DEF OnlyTo
    <2>2. /\ lru = <<>> \/ happened[Head(lru)] = {}
          /\ UNCHANGED <<pollVars, entVars>> /\ th[t].pc = "wait"
      <3>1. NowAt(t, "ret") => th'[t].pc = "ret"
        BY DEF NowAt, Now
      <3>2. QED BY <1>1, <1>3, <2>1, <3>1, FxRet
    <2>3. e \in On(lru) /\ happened' = happened /\ lru \in Seq(Entries) /\ lru # <<>>
      BY <1>1, <2>2, NoneOn DEF pollVars, entVars, TypeInv
    <2>4. e = Head(lru) \/ (Before(lru, Head(lru), e) /\ Head(lru) \in On(lru))
      BY <2>3, Headed
    <2>5. Raw(e) \/ happened[e] = {}
      BY <2>2, <2>3, <2>4 DEF OrderInv
    <2>6. ~ xpollbase_emit(t)
      BY <2>2 DEF xpollbase_emit, At
    <2>7. QED BY <2>3, <2>5, <2>6, RawKept
  <1>4. CASE th[u].pc = "sleep"
    <2>1. CASE xpollbase_emit(t)
      <3>1. th[t].ev = {}
        <4>1. ASSUME th[t].ev # {} PROVE FALSE
          <5>1. th'[u].pc # "sleep"
            BY <1>4, <2>1, <4>1, FxEmit DEF OnlyTo
          <5>2. QED BY <1>1, <5>1
        <4>2. QED BY <4>1
      <3>2. e \in On(lru) /\ th[t].cur \in Entries /\ happened' = [happened EXCEPT ![th[t].cur] = {}]
        BY <1>1, <2>1, <3>1, FxEmit, MovedSame
      <3>3. CASE e = th[t].cur
        BY <3>2, <3>3 DEF TypeInv
      <3>4. CASE e # th[t].cur
        BY <1>4, <3>2, <3>4, RawKept, ListedStays DEF QuietInv, At
      <3>5. QED BY <3>3, <3>4
    <2>2. CASE add_poll_entry(t) /\ e \notin On(lru)
      <3>1. PICK d \in Entries \ live : lru' = Append(lru, d) /\ happened' = [happened EXCEPT ![d] = {}]
        BY <2>2, FxAdd
      <3>2. e = d
        BY <1>1, <2>2, <3>1, Appended DEF TypeInv
      <3>3. QED BY <3>1, <3>2 DEF TypeInv
    <2>3. CASE ~ xpollbase_emit(t) /\ e \in On(lru)
      BY <1>4, <2>3, RawKept, ListedStays DEF QuietInv, At
    <2>4. e \in On(lru) \/ add_poll_entry(t)
      BY <1>1, LruStay
    <2>5. QED BY <2>1, <2>2, <2>3, <2>4
  <1>5. QED BY <1>2, <1>3, <1>4

----------------------------------------------------------------------------
(* The theorems.                                                            *)

LEMMA InitSound == Init => IInv
  <1> SUFFICES ASSUME Init PROVE IInv
    OBVIOUS
  <1>1. /\ lru = <<>> /\ pollref = 1 /\ pclosed = FALSE
        /\ live = {} /\ ref = [e \in Entries |-> 0]
        /\ fdof = [e \in Entries |-> None]
        /\ events = [e \in Entries |-> {}] /\ happened = [e \in Entries |-> {}]
        /\ atts = [s \in Socks |-> <<>>] /\ cond = [s \in Socks |-> {}]
        /\ life = [s \in Socks |-> "open"] /\ lock = [s \in Socks |-> None]
        /\ th = [t \in Threads |-> Idle]
    BY DEF Init
  <1>2. Idle \in Local /\ Shape(Idle)
    BY DEF Idle, Local, Pcs, Shape, OnSock, OnEntry, Emits, Makes
  <1>3. \A t \in Threads : /\ th[t] = Idle /\ th[t].pc = "idle" /\ th[t].back = "idle" /\ th[t].e = None
                           /\ th[t].s = None /\ th[t].eback = "idle"
                           /\ ~ Emits(th[t]) /\ ~ Makes(th[t])
    BY <1>1 DEF Idle, Emits, Makes
  <1>4. TypeInv
    <2>1. <<>> \in Seq(Entries)
      OBVIOUS
    <2>2. pollref \in Int /\ live \subseteq Entries
      BY <1>1
    <2>3. pclosed \in BOOLEAN
      BY <1>1
    <2>4. /\ atts \in [Socks -> Seq(Entries)] /\ lru \in Seq(Entries)
          /\ th \in [Threads -> Shaped]
      BY <1>1, <1>2, <2>1 DEF Shaped
    <2>5. /\ ref \in [Entries -> Nat] /\ fdof \in [Entries -> Socks \cup {None}]
          /\ events \in [Entries -> SUBSET Events] /\ happened \in [Entries -> SUBSET Events]
          /\ cond \in [Socks -> SUBSET Events]
          /\ life \in [Socks -> {"open", "closing", "closed"}]
          /\ lock \in [Socks -> Threads \cup {None}]
      BY <1>1
    <2>6. QED BY <2>2, <2>3, <2>4, <2>5 DEF TypeInv
  <1>5. On(lru) = {} /\ Once(lru) /\ \A s \in Socks : On(atts[s]) = {} /\ Once(atts[s])
    BY <1>1, NoneOn
  <1>6. ListInv /\ MakeInv /\ CloserInv /\ AttachInv /\ OrderInv /\ QuietInv
    BY <1>3, <1>5 DEF ListInv, MakeInv, CloserInv, AttachInv, OrderInv, QuietInv, At
  <1>7. LockInv
    BY <1>1, <1>3, XpollAssumption DEF LockInv
  <1>8. LifeInv
    BY <1>1, <1>3, AddingIs DEF LifeInv, Adds
  <1>9. RefInv
    <2>1. ASSUME NEW e \in Entries PROVE Holders(e) = 0
      <3>1. /\ On(lru) \cap {e} = {} /\ SocksOf(e) = {} /\ ClosersOf(e) = {} /\ CallsOn(e) = {}
            /\ PutsOf(e) = {}
        BY <1>3, <1>5, XpollAssumption DEF SocksOf, ClosersOf, CallsOn, PutsOf
      <3>2. QED BY <3>1, FS_EmptySet DEF Holders
    <2>2. QED BY <1>1, <2>1 DEF RefInv
  <1>10. PollRefs
    <2>1. Kept /\ Calls = {}
      BY <1>1, <1>3 DEF Kept, Calls, InCall
    <2>2. Opened = 1 /\ Threads \ Outside = {}
      BY <1>4, <2>1, PollIs
    <2>3. Cardinality(live) = 0 /\ Cardinality(Threads \ Outside) = 0
      BY <1>1, <2>2, FS_EmptySet
    <2>4. QED BY <1>1, <2>2, <2>3 DEF PollRefs
  <1>11. ExactInv
    BY <1>3, <1>5 DEF ExactInv
  <1>12. QED BY <1>4, <1>6, <1>7, <1>8, <1>9, <1>10, <1>11 DEF IInv

LEMMA StepSound ==
  ASSUME IInv, NEW t \in Threads, Begin(t) \/ Inside(t)
  PROVE  IInv'
  <1> USE DEF IInv
  <1>1. TypeInv'
    BY TypesStep DEF Next
  <1>2. ListInv' /\ MakeInv' /\ LockInv' /\ CloserInv' /\ AttachInv' /\ RefInv'
    BY ListStep, MakeStep, LockStep, CloserStep, AttachStep, RefStep
  <1>3. LifeInv' /\ PollRefs'
    BY <1>1, LifeStep, PollStep
  <1>4. ExactInv' /\ OrderInv' /\ QuietInv'
    BY ExactStep, OrderStep, QuietStep
  <1>5. QED BY <1>1, <1>2, <1>3, <1>4

LEMMA NextSound ==
  ASSUME IInv, [Next]_vars
  PROVE  IInv'
  <1>1. CASE UNCHANGED vars
    <2>1. /\ UNCHANGED <<lru, pollref, pclosed, live, ref, fdof, events, happened, atts, cond, life, lock, th>>
      BY <1>1 DEF vars, pollVars, entVars, sockVars
    <2>2. TypeInv' /\ ListInv' /\ MakeInv'
      BY <1>1, <2>1, TypesStep DEF IInv, ListInv, MakeInv, On, Once, Makes
    <2>3. LockInv' /\ CloserInv' /\ AttachInv'
      BY <2>1 DEF IInv, LockInv, CloserInv, AttachInv, On, Once, Makes, Emits
    <2>4. LifeInv'
      BY <2>1 DEF IInv, LifeInv, Adding, Once
    <2>5. PollRefs'
      BY <2>1 DEF IInv, PollRefs, Opened, Outside
    <2>6. RefInv'
      <3>1. ASSUME NEW e \in Entries PROVE Holders(e)' = Holders(e)
        BY <2>1 DEF Holders, On, SocksOf, ClosersOf, CallsOn, PutsOf
      <3>2. QED BY <2>1, <3>1, RefSame DEF IInv
    <2>7. ExactInv' /\ OrderInv' /\ QuietInv'
      BY <2>1 DEF IInv, ExactInv, OrderInv, QuietInv, On, Before, Raw, Brings, Visits, Due, Makes, Emits, At
    <2>8. QED BY <2>2, <2>3, <2>4, <2>5, <2>6, <2>7 DEF IInv
  <1>2. CASE Next
    BY <1>2, StepSound DEF Next
  <1>3. QED BY <1>1, <1>2

\* The invariant holds in every state that the poll reaches.
THEOREM Invariant == Spec => []IInv
  <1>1. Init => IInv
    BY InitSound
  <1>2. IInv /\ [Next]_vars => IInv'
    BY NextSound
  <1>3. QED BY <1>1, <1>2, PTL DEF Spec

\* An entry has a reference for each of its holders, and lives as long as it has one:
\* poll_entry_put never frees an entry under the list, a socket or a thread, and none is
\* leaked; and a socket that is freed has no entry left.
THEOREM EntriesCounted == Spec => []EntryRefs
  <1>1. ASSUME IInv PROVE EntryRefs
    <2>1. \A s \in Socks : ~ Alive(s) => atts[s] = <<>>
      BY <1>1 DEF IInv, LifeInv, Alive
    <2>2. QED BY <1>1, <2>1 DEF IInv, RefInv, EntryRefs
  <1>2. QED BY <1>1, Invariant, PTL

\* The references of a poll are those of the user, of its entries and of the calls in
\* it: xclose may use the poll long after xpoll_close.
THEOREM PollCounted == Spec => []PollRefs
  <1>1. IInv => PollRefs
    BY DEF IInv
  <1>2. QED BY <1>1, Invariant, PTL

\* The two together: entries and polls are freed when the last holder puts them.
THEOREM RefsAreCounted == Spec => []RefsCounted
  BY EntriesCounted, PollCounted, PTL DEF RefsCounted

\* When no thread has still to emit the readiness of a socket, the entries of the list
\* show exactly what the socket is ready for, masked by what was asked.
THEOREM ReadinessIsExact == Spec => []ReadinessExact
  <1>1. ASSUME IInv PROVE ReadinessExact
    <2>1. SUFFICES ASSUME NEW s \in Socks, NEW e \in On(atts[s]) \cap On(lru), ~ Pending(s)
                   PROVE  happened[e] = cond[s] \cap events[e]
      BY DEF ReadinessExact
    <2>2. ~ Due(s) /\ lock[s] = None
      BY <2>1 DEF Pending, Due
    <2>3. \A t \in Threads : ~ (th[t].s = s /\ Visits(t, e))
      BY <1>1, <2>2, XpollAssumption DEF IInv, LockInv, Visits
    <2>4. QED BY <1>1, <2>2, <2>3 DEF IInv, ExactInv
  <1>2. QED BY <1>1, Invariant, PTL

\* Ready entries are at the front of the list, where xpoll_wait looks, and no thread
\* sleeps while one is ready, but for those whose call to xpoll_add is not over.
THEOREM SleepersAreQuiet == Spec => []SleepersQuiet
  <1>1. ASSUME IInv PROVE SleepersQuiet
    <2>1. \A e \in Settled : ~ Raw(e) /\ e \in On(lru)
      BY AddingIs DEF Settled, Raw, Brings, Visits, Adds, Makes
    <2>2. ASSUME NEW i \in DOMAIN lru, NEW j \in DOMAIN lru, i < j, lru[j] \in Settled,
                 happened[lru[j]] # {}
          PROVE  happened[lru[i]] # {}
      <3>1. Before(lru, lru[i], lru[j]) /\ lru[i] \in On(lru) /\ lru[j] \in On(lru)
        BY <2>2 DEF Before, On
      <3>2. QED BY <1>1, <2>1, <2>2, <3>1 DEF IInv, OrderInv
    <2>3. \A t \in Threads : At(t, "sleep") => \A e \in Settled : happened[e] = {}
      BY <1>1, <2>1 DEF IInv, QuietInv
    <2>4. QED BY <2>2, <2>3 DEF SleepersQuiet
  <1>2. QED BY <1>1, Invariant, PTL

====
