---------------------------- MODULE Inproc_proofs ----------------------------
(* Proofs about Inproc, for any threads and any memory for sockets.         *)
EXTENDS Inproc, FiniteSetTheorems, TLAPS

----------------------------------------------------------------------------
(* Counting.  A function G gives a sequence to each index (the steps of each *)
(* thread, the queue of each listener); Count(G, S) is how often a member of *)
(* S is in one.                                                             *)

Hits(q, S) == {i \in DOMAIN q : q[i] \in S}
Num(q, S) == Cardinality(Hits(q, S))
Places(G, S) == {x \in (DOMAIN G) \X Nat : x[2] \in Hits(G[x[1]], S)}
Count(G, S) == Cardinality(Places(G, S))
Is(b) == IF b THEN 1 ELSE 0

----------------------------------------------------------------------------
(* The inductive invariant.                                                 *)

Held == {Of(f) : f \in Frames}

TypeInv ==
  /\ map \in Socks \cup {None} /\ foreign \in BOOLEAN
  /\ live \subseteq Socks /\ open \subseteq Socks
  /\ kind \in [Socks -> {"listener", "connector"}]
  /\ sref \in [Socks -> Nat] /\ iref \in [Socks -> 0..2]
  /\ peer \in [Socks -> Socks \cup {None}] /\ epipe \in [Socks -> BOOLEAN]
  /\ rcv \in [Socks -> 0..MaxRcv]
  /\ accq \in [Socks -> Seq(Socks)]
  /\ th \in [Threads -> Seq(Frame)]

\* What a thread has still to do after the step it is at.
Later == {"put", "return", "epipe", "putpeer", "putself", "drain"}
Follows(f, r) ==
  /\ f.op = "epipe" => r # <<>> /\ Head(r) = Do("put", f.o)
  /\ f.op = "wakepeer" => r # <<>> /\ Head(r) = Do("putpeer", f.o)
  /\ f.op = "putpeer" => r # <<>> /\ Head(r) = Do("putself", f.o)
Rest(q) == \A i \in DOMAIN q :
  /\ q[i].op \in Later /\ q[i].p = None
  /\ q[i].op = "epipe" => i + 1 \in DOMAIN q /\ q[i + 1] = Do("put", q[i].o)
  /\ q[i].op = "putpeer" => i + 1 \in DOMAIN q /\ q[i + 1] = Do("putself", q[i].o)

\* The steps r that come after a step f.
First(f, r) ==
  /\ Follows(f, r)
  /\ f.op \in {"addlistener", "getlistener"} => r = <<>>
  /\ f.op = "pair" => f.p \in Socks /\ r = <<Do("put", f.p), Do("return", f.o)>>
  /\ f.op = "acceptq_add" => f.p \in Socks /\ \E c \in Socks : r = <<Do("put", f.o), Do("return", c)>>
  /\ f.op \in {"accept", "asleep", "send", "recv", "rsleep"} => r = <<Do("put", f.o)>>
  /\ f.op \notin {"pair", "acceptq_add"} => f.p = None
Stack(q) == q # <<>> => Rest(Tail(q)) /\ First(Head(q), Tail(q))
ShapeInv == \A t \in Threads : Stack(th[t])

\* Which steps are for listeners, and which for connectors.
OfListener == {"addlistener", "accept", "asleep", "rmlistener", "drain", "acceptq_add"}
OfConnector == {"getlistener", "pair", "send", "recv", "rsleep", "return",
                "wakepeer", "putpeer", "putself"}
FrameKind(f) ==
  /\ f.op \in OfListener => kind[f.o] = "listener"
  /\ f.op \in OfConnector => kind[f.o] = "connector"
  /\ f.op = "pair" => kind[f.p] = "listener"
  /\ f.op = "acceptq_add" => kind[f.p] = "connector"

\* The references of a socket: the puts that are due, and one for the descriptor, which
\* is with a thread that builds the connection, in a queue, or open.
Solid == {f \in Frame : f.op \notin {"accept", "asleep", "recv", "rsleep"}}
PutSet(o) == {f \in Solid : f.op = "put" /\ f.o = o}
MakeSet(o) == {f \in Solid : \/ f.op \in {"addlistener", "getlistener", "return"} /\ f.o = o
                             \/ f.op = "acceptq_add" /\ f.p = o}
Puts(o) == Count(th, PutSet(o))
Makes(o) == Count(th, MakeSet(o))
Waits(o) == Count(accq, {o})
Base(o) == Makes(o) + Waits(o) + Is(o \in open)
RefInv == \A o \in Socks : sref[o] = Puts(o) + Base(o) /\ Base(o) <= 1

\* A socket without references is torn down by one thread, and lives on for as long as
\* its peer points at it.
DownSet(o) == {f \in Solid : f.op \in {"rmlistener", "drain", "putself"} /\ f.o = o}
Downs(o) == Count(th, DownSet(o))
Pointers(o) == {p \in Socks : peer[p] = o}
LifeInv == \A o \in Socks :
  /\ o \in live <=> sref[o] > 0 \/ Downs(o) > 0 \/ Pointers(o) # {}
  /\ Downs(o) <= 1
  /\ Downs(o) > 0 => sref[o] = 0

\* The memory of a connector.
MemInv == \A o \in live : kind[o] = "connector" =>
  iref[o] = Cardinality(Pointers(o)) + Is(sref[o] > 0) + Downs(o)

\* Connectors point at connectors; a socket that nobody refers to any more has put its
\* peer, but for the thread that is about to.
LeaveSet(o) == {f \in Solid : f.op = "putpeer" /\ f.o = o}
Leaves(o) == Count(th, LeaveSet(o))
PeerInv == \A o \in Socks :
  /\ peer[o] # None => kind[o] = "connector" /\ kind[peer[o]] = "connector"
  /\ Leaves(o) = Is(peer[o] # None /\ sref[o] = 0)

\* A connector whose connection is still to be made is not part of one; the listener in
\* the map is not being drained.
FrameOK(f) ==
  /\ FrameKind(f)
  /\ f.op \in {"getlistener", "pair"} => peer[f.o] = None /\ Pointers(f.o) = {}
  /\ f.op = "drain" => map # f.o
HandInv == \A f \in Held : FrameOK(f)

\* A queue is that of a listener, and its sockets are connectors.
QueueInv == \A l \in Socks :
  /\ accq[l] # <<>> => l \in live /\ kind[l] = "listener"
  /\ \A i \in DOMAIN accq[l] : kind[accq[l][i]] = "connector"
MapInv == map # None => map \in live /\ kind[map] = "listener"

\* A socket without a descriptor is closing, or somebody is about to close it.
EpipeInv == \A o \in live : Base(o) = 0 => epipe[o] \/ Do("epipe", o) \in Held

IInv == TypeInv /\ ShapeInv /\ RefInv /\ LifeInv /\ MemInv /\ PeerInv /\ HandInv /\ QueueInv
          /\ MapInv /\ EpipeInv /\ SleepJustified /\ ListenerVisible

----------------------------------------------------------------------------
(* Counting in one sequence.                                                *)

\* The places are finitely many.
LEMMA HitsFinite ==
  ASSUME NEW F, NEW q \in Seq(F), NEW S
  PROVE  IsFiniteSet(Hits(q, S)) /\ Num(q, S) \in Nat /\ Hits(q, S) \subseteq Nat
  <1>1. IsFiniteSet(1..Len(q)) /\ Hits(q, S) \subseteq 1..Len(q)
    BY FS_Interval DEF Hits
  <1>2. QED BY <1>1, FS_Subset, FS_CardinalityType DEF Num

LEMMA NumEmpty ==
  ASSUME NEW S
  PROVE  Num(<<>>, S) = 0
  <1>1. Hits(<<>>, S) = {}
    BY DEF Hits
  <1>2. QED BY <1>1, FS_EmptySet DEF Num

\* A concatenation counts as its two parts do.
LEMMA NumConcat ==
  ASSUME NEW F, NEW p \in Seq(F), NEW q \in Seq(F), NEW S
  PROVE  Num(p \o q, S) = Num(p, S) + Num(q, S)
  <1>0. PICK r : r = p \o q
    OBVIOUS
  <1> DEFINE n == Len(p)
             H == Hits(q, S)
             M == {i + n : i \in H}
             f == [i \in H |-> i + n]
  <1>1. IsFiniteSet(H) /\ H \subseteq 1..Len(q) /\ IsFiniteSet(Hits(p, S)) /\ Hits(p, S) \subseteq 1..n
    <2>1. IsFiniteSet(H) /\ IsFiniteSet(Hits(p, S))
      BY HitsFinite
    <2>2. H \subseteq 1..Len(q) /\ Hits(p, S) \subseteq 1..n
      BY DEF Hits
    <2>3. QED BY <2>1, <2>2
  <1>2. /\ n \in Nat /\ Len(q) \in Nat
        /\ DOMAIN r = 1..(n + Len(q)) /\ DOMAIN p = 1..n /\ DOMAIN q = 1..Len(q)
        /\ \A i \in 1..n : r[i] = p[i]
        /\ \A i \in 1..Len(q) : r[i + n] = q[i]
    BY <1>0
  <1>3. \A i \in (n + 1)..(n + Len(q)) : i - n \in 1..Len(q) /\ r[i] = q[i - n] /\ i = (i - n) + n
    <2> TAKE i \in (n + 1)..(n + Len(q))
    <2>1. i - n \in 1..Len(q) /\ i = (i - n) + n
      BY <1>2
    <2>2. r[(i - n) + n] = q[i - n]
      BY <2>1, <1>2
    <2>3. QED BY <2>1, <2>2
  <1>4. IsFiniteSet(M) /\ Cardinality(M) = Num(q, S)
    <2>1. f \in Bijection(H, M)
      BY <1>1, <1>2 DEF Bijection, Injection, Surjection, IsInjective
    <2>2. QED BY <1>1, <2>1, FS_Bijection DEF ExistsBijection, Num
  <1>5. M \subseteq (n + 1)..(n + Len(q))
    BY <1>1, <1>2
  <1>6. Hits(r, S) = Hits(p, S) \cup M
    <2>1. ASSUME NEW i \in Hits(r, S) PROVE i \in Hits(p, S) \cup M
      <3>1. i \in 1..(n + Len(q)) /\ r[i] \in S
        BY <1>2 DEF Hits
      <3>2. CASE i <= n
        <4>1. i \in 1..n
          BY <1>2, <3>1, <3>2
        <4>2. QED BY <1>2, <3>1, <4>1 DEF Hits
      <3>3. CASE i > n
        <4>1. i \in (n + 1)..(n + Len(q))
          BY <1>2, <3>1, <3>3
        <4>2. i - n \in H /\ i = (i - n) + n
          BY <1>2, <1>3, <3>1, <4>1 DEF Hits
        <4>3. QED BY <4>2
      <3>4. QED BY <1>2, <3>1, <3>2, <3>3
    <2>2. ASSUME NEW i \in Hits(p, S) PROVE i \in Hits(r, S)
      BY <1>1, <1>2 DEF Hits
    <2>3. ASSUME NEW i \in H PROVE i + n \in Hits(r, S)
      <3>1. i \in 1..Len(q) /\ q[i] \in S
        BY <1>2 DEF Hits
      <3>2. i + n \in 1..(n + Len(q)) /\ r[i + n] = q[i]
        BY <1>2, <3>1
      <3>3. QED BY <1>2, <3>1, <3>2 DEF Hits
    <2>4. QED BY <2>1, <2>2, <2>3
  <1>7. Hits(p, S) \cap M = {}
    BY <1>1, <1>2, <1>5
  <1>8. Cardinality(Hits(p, S) \cup M) = Cardinality(Hits(p, S)) + Cardinality(M) - Cardinality({})
    <2> HIDE DEF M
    <2>1. Cardinality(Hits(p, S) \cup M) = Cardinality(Hits(p, S)) + Cardinality(M) - Cardinality(Hits(p, S) \cap M)
      BY <1>1, <1>4, FS_Union
    <2>2. QED BY <1>7, <2>1
  <1>9. Cardinality(Hits(p, S)) \in Nat /\ Cardinality(M) \in Nat /\ Cardinality({}) = 0
    BY <1>1, <1>4, FS_CardinalityType, FS_EmptySet
  <1>10. QED BY <1>0, <1>4, <1>6, <1>8, <1>9 DEF Num

\* Short sequences.
LEMMA NumOne ==
  ASSUME NEW a, NEW S
  PROVE  Num(<<a>>, S) = Is(a \in S) /\ Is(a \in S) \in Nat
  <1>1. Hits(<<a>>, S) = IF a \in S THEN {1} ELSE {}
    BY DEF Hits
  <1>2. QED BY <1>1, FS_Singleton, FS_EmptySet DEF Num, Is

\* Short sequences are concatenations of shorter ones.
LEMMA JoinTwo ==
  ASSUME NEW a, NEW b
  PROVE  <<a>> \o <<b>> = <<a, b>>
  <1>1. PICK F : F = {a, b}
    OBVIOUS
  <1>2. <<a>> \in Seq(F) /\ <<b>> \in Seq(F) /\ <<a, b>> \in Seq(F)
    BY <1>1
  <1>3. PICK p \in Seq(F), q \in Seq(F), r \in Seq(F) : p = <<a>> /\ q = <<b>> /\ r = <<a, b>>
    BY <1>2
  <1>4. p \o q \in Seq(F)
    OBVIOUS
  <1>5. PICK s \in Seq(F) : s = p \o q
    BY <1>4
  <1>6. Len(s) = 2 /\ s[1] = a /\ s[2] = b
    BY <1>3, <1>5
  <1>7. Len(r) = 2 /\ r[1] = a /\ r[2] = b
    BY <1>3
  <1>8. \A k \in 1..2 : k = 1 \/ k = 2
    OBVIOUS
  <1>9. s = r
    BY <1>6, <1>7, <1>8
  <1>10. QED BY <1>3, <1>5, <1>9

LEMMA JoinThree ==
  ASSUME NEW a, NEW b, NEW c
  PROVE  <<a>> \o <<b, c>> = <<a, b, c>> /\ <<a, b>> \o <<c>> = <<a, b, c>>
  <1>1. <<a>> \o <<b, c>> = <<a, b, c>>
    <2>1. PICK F : F = {a, b, c}
      OBVIOUS
    <2>2. <<a>> \in Seq(F) /\ <<b, c>> \in Seq(F) /\ <<a, b, c>> \in Seq(F)
      BY <2>1
    <2>3. PICK p \in Seq(F), q \in Seq(F), r \in Seq(F) : p = <<a>> /\ q = <<b, c>> /\ r = <<a, b, c>>
      BY <2>2
    <2>4. p \o q \in Seq(F)
      OBVIOUS
    <2>5. PICK s \in Seq(F) : s = p \o q
      BY <2>4
    <2>6. Len(s) = 3 /\ s[1] = a /\ s[2] = b /\ s[3] = c
      BY <2>3, <2>5
    <2>7. Len(r) = 3 /\ r[1] = a /\ r[2] = b /\ r[3] = c
      BY <2>3
    <2>8. \A k \in 1..3 : k = 1 \/ k = 2 \/ k = 3
      OBVIOUS
    <2>9. s = r
      BY <2>6, <2>7, <2>8
    <2>10. QED BY <2>3, <2>5, <2>9
  <1>2. <<a, b>> \o <<c>> = <<a, b, c>>
    <2>1. PICK F : F = {a, b, c}
      OBVIOUS
    <2>2. <<a, b>> \in Seq(F) /\ <<c>> \in Seq(F) /\ <<a, b, c>> \in Seq(F)
      BY <2>1
    <2>3. PICK p \in Seq(F), q \in Seq(F), r \in Seq(F) : p = <<a, b>> /\ q = <<c>> /\ r = <<a, b, c>>
      BY <2>2
    <2>4. p \o q \in Seq(F)
      OBVIOUS
    <2>5. PICK s \in Seq(F) : s = p \o q
      BY <2>4
    <2>6. Len(s) = 3 /\ s[1] = a /\ s[2] = b /\ s[3] = c
      BY <2>3, <2>5
    <2>7. Len(r) = 3 /\ r[1] = a /\ r[2] = b /\ r[3] = c
      BY <2>3
    <2>8. \A k \in 1..3 : k = 1 \/ k = 2 \/ k = 3
      OBVIOUS
    <2>9. s = r
      BY <2>6, <2>7, <2>8
    <2>10. QED BY <2>3, <2>5, <2>9
  <1>3. QED BY <1>1, <1>2

LEMMA JoinFour ==
  ASSUME NEW a, NEW b, NEW c, NEW d
  PROVE  <<a, b>> \o <<c, d>> = <<a, b, c, d>> /\ <<a>> \o <<b, c, d>> = <<a, b, c, d>>
  <1>1. <<a, b>> \o <<c, d>> = <<a, b, c, d>>
    <2>1. PICK F : F = {a, b, c, d}
      OBVIOUS
    <2>2. <<a, b>> \in Seq(F) /\ <<c, d>> \in Seq(F) /\ <<a, b, c, d>> \in Seq(F)
      BY <2>1
    <2>3. PICK p \in Seq(F), q \in Seq(F), r \in Seq(F) : p = <<a, b>> /\ q = <<c, d>> /\ r = <<a, b, c, d>>
      BY <2>2
    <2>4. p \o q \in Seq(F)
      OBVIOUS
    <2>5. PICK s \in Seq(F) : s = p \o q
      BY <2>4
    <2>6. Len(s) = 4 /\ s[1] = a /\ s[2] = b /\ s[3] = c /\ s[4] = d
      BY <2>3, <2>5
    <2>7. Len(r) = 4 /\ r[1] = a /\ r[2] = b /\ r[3] = c /\ r[4] = d
      BY <2>3
    <2>8. \A k \in 1..4 : k = 1 \/ k = 2 \/ k = 3 \/ k = 4
      OBVIOUS
    <2>9. s = r
      BY SMTT(60), <2>6, <2>7, <2>8
    <2>10. QED BY <2>3, <2>5, <2>9
  <1>2. <<a>> \o <<b, c, d>> = <<a, b, c, d>>
    <2>1. PICK F : F = {a, b, c, d}
      OBVIOUS
    <2>2. <<a>> \in Seq(F) /\ <<b, c, d>> \in Seq(F) /\ <<a, b, c, d>> \in Seq(F)
      BY <2>1
    <2>3. PICK p \in Seq(F), q \in Seq(F), r \in Seq(F) : p = <<a>> /\ q = <<b, c, d>> /\ r = <<a, b, c, d>>
      BY <2>2
    <2>4. p \o q \in Seq(F)
      OBVIOUS
    <2>5. PICK s \in Seq(F) : s = p \o q
      BY <2>4
    <2>6. Len(s) = 4 /\ s[1] = a /\ s[2] = b /\ s[3] = c /\ s[4] = d
      BY <2>3, <2>5
    <2>7. Len(r) = 4 /\ r[1] = a /\ r[2] = b /\ r[3] = c /\ r[4] = d
      BY <2>3
    <2>8. \A k \in 1..4 : k = 1 \/ k = 2 \/ k = 3 \/ k = 4
      OBVIOUS
    <2>9. s = r
      BY SMTT(60), <2>6, <2>7, <2>8
    <2>10. QED BY <2>3, <2>5, <2>9
  <1>3. QED BY <1>1, <1>2

LEMMA NumShort ==
  ASSUME NEW a, NEW b, NEW c, NEW d, NEW S
  PROVE  /\ Num(<<>>, S) = 0
         /\ Num(<<a>>, S) = Is(a \in S)
         /\ Num(<<a, b>>, S) = Is(a \in S) + Is(b \in S)
         /\ Num(<<a, b, c>>, S) = Is(a \in S) + Is(b \in S) + Is(c \in S)
         /\ Num(<<a, b, c, d>>, S) = Is(a \in S) + Is(b \in S) + Is(c \in S) + Is(d \in S)
  <1>0. PICK F : F = {a, b, c, d}
    OBVIOUS
  <1>1. /\ <<a>> \in Seq(F) /\ <<b>> \in Seq(F) /\ <<c>> \in Seq(F) /\ <<d>> \in Seq(F)
        /\ <<a, b>> \in Seq(F) /\ <<c, d>> \in Seq(F)
    BY <1>0
  <1>2. /\ <<a>> \o <<b>> = <<a, b>> /\ <<c>> \o <<d>> = <<c, d>>
        /\ <<a, b>> \o <<c>> = <<a, b, c>> /\ <<a, b>> \o <<c, d>> = <<a, b, c, d>>
    BY ZenonT(60), JoinTwo, JoinThree, JoinFour
  <1>3. /\ Num(<<a>> \o <<b>>, S) = Num(<<a>>, S) + Num(<<b>>, S)
        /\ Num(<<c>> \o <<d>>, S) = Num(<<c>>, S) + Num(<<d>>, S)
        /\ Num(<<a, b>> \o <<c>>, S) = Num(<<a, b>>, S) + Num(<<c>>, S)
        /\ Num(<<a, b>> \o <<c, d>>, S) = Num(<<a, b>>, S) + Num(<<c, d>>, S)
    BY ZenonT(60), <1>1, NumConcat
  <1>4. /\ Num(<<a>>, S) = Is(a \in S) /\ Num(<<b>>, S) = Is(b \in S)
        /\ Num(<<c>>, S) = Is(c \in S) /\ Num(<<d>>, S) = Is(d \in S)
        /\ Is(a \in S) \in Nat /\ Is(b \in S) \in Nat /\ Is(c \in S) \in Nat /\ Is(d \in S) \in Nat
    BY NumOne
  <1>5. Num(<<a, b>>, S) = Is(a \in S) + Is(b \in S) /\ Num(<<c, d>>, S) = Is(c \in S) + Is(d \in S)
    BY <1>2, <1>3, <1>4
  <1>6. Num(<<a, b, c>>, S) = Num(<<a, b>>, S) + Is(c \in S)
    BY <1>2, <1>3, <1>4
  <1>7. Num(<<a, b, c, d>>, S) = Num(<<a, b>>, S) + Num(<<c, d>>, S)
    BY <1>2, <1>3
  <1>8. /\ Num(<<a, b, c>>, S) = Is(a \in S) + Is(b \in S) + Is(c \in S)
        /\ Num(<<a, b, c, d>>, S) = Is(a \in S) + Is(b \in S) + Is(c \in S) + Is(d \in S)
    <2>1. PICK m \in Nat, n \in Nat : m = Is(a \in S) /\ n = Is(b \in S)
      BY <1>4
    <2>2. PICK k \in Nat, l \in Nat : k = Is(c \in S) /\ l = Is(d \in S)
      BY <1>4
    <2>3. Num(<<a, b>>, S) = m + n /\ Num(<<c, d>>, S) = k + l
      BY <1>5, <2>1, <2>2
    <2>4. Num(<<a, b, c>>, S) = m + n + k
      BY <1>6, <2>2, <2>3
    <2>5. Num(<<a, b, c, d>>, S) = m + n + k + l
      <3>1. (m + n) + (k + l) = m + n + k + l
        OBVIOUS
      <3>2. QED BY <1>7, <2>3, <3>1
    <2>6. QED BY <2>1, <2>2, <2>4, <2>5
  <1>9. QED BY <1>4, <1>5, <1>8, NumEmpty

\* A sequence is its first element and the rest.
LEMMA HeadTail ==
  ASSUME NEW F, NEW q \in Seq(F), q # <<>>
  PROVE  Head(q) \in F /\ Tail(q) \in Seq(F) /\ q = <<Head(q)>> \o Tail(q)
  <1>1. Len(q) > 0 /\ Head(q) \in F /\ Tail(q) \in Seq(F)
    OBVIOUS
  <1>2. Len(<<Head(q)>> \o Tail(q)) = Len(q)
    BY <1>1
  <1>3. \A i \in 1..Len(q) : (<<Head(q)>> \o Tail(q))[i] = q[i]
    BY <1>1
  <1>4. QED BY <1>1, <1>2, <1>3

LEMMA NumTail ==
  ASSUME NEW F, NEW q \in Seq(F), q # <<>>, NEW S
  PROVE  Num(q, S) = Is(Head(q) \in S) + Num(Tail(q), S)
  <1>1. PICK a \in F, r \in Seq(F) : a = Head(q) /\ r = Tail(q) /\ q = <<a>> \o r
    BY HeadTail
  <1>2. Num(<<a>> \o r, S) = Num(<<a>>, S) + Num(r, S)
    <2>1. <<a>> \in Seq(F)
      OBVIOUS
    <2>2. QED BY <2>1, NumConcat
  <1>3. QED BY <1>1, <1>2, NumOne

LEMMA NumAppend ==
  ASSUME NEW F, NEW q \in Seq(F), NEW a \in F, NEW S
  PROVE  Num(Append(q, a), S) = Num(q, S) + Is(a \in S)
  <1>1. Append(q, a) = q \o <<a>>
    OBVIOUS
  <1>2. Num(q \o <<a>>, S) = Num(q, S) + Num(<<a>>, S)
    <2>1. <<a>> \in Seq(F)
      OBVIOUS
    <2>2. QED BY <2>1, NumConcat
  <1>3. QED BY <1>1, <1>2, NumOne
----------------------------------------------------------------------------
(* Counting in all of them.                                                 *)

\* Sequences with elements in F, for the finitely many indexes I.
Family(G, I, F) == IsFiniteSet(I) /\ G \in [I -> Seq(F)]

\* The places with index t, and the others.
Others(G, S, t) == {x \in Places(G, S) : x[1] # t}
LEMMA CountSplit ==
  ASSUME NEW I, NEW F, NEW G, Family(G, I, F), NEW t \in I, NEW S
  PROVE  /\ IsFiniteSet(Places(G, S)) /\ Count(G, S) \in Nat
         /\ IsFiniteSet(Others(G, S, t)) /\ Cardinality(Others(G, S, t)) \in Nat
         /\ Count(G, S) = Cardinality(Others(G, S, t)) + Num(G[t], S)
  <1> DEFINE O == Others(G, S, t)
             Row(u) == {x \in Places(G, S) : x[1] = u}
             g(u) == [i \in Hits(G[u], S) |-> <<u, i>>]
  <1>0. IsFiniteSet(I) /\ G \in [I -> Seq(F)]
    BY DEF Family
  <1>1. \A u \in I : G[u] \in Seq(F)
    BY <1>0
  <1>2. ASSUME NEW u \in I PROVE IsFiniteSet(Row(u)) /\ Cardinality(Row(u)) = Num(G[u], S)
    <2>1. IsFiniteSet(Hits(G[u], S)) /\ Hits(G[u], S) \subseteq Nat
      BY <1>1, HitsFinite
    <2>2. Row(u) = {<<u, i>> : i \in Hits(G[u], S)}
      BY <1>0, <2>1 DEF Places
    <2>3. g(u) \in Bijection(Hits(G[u], S), Row(u))
      BY <2>2 DEF Bijection, Injection, Surjection, IsInjective
    <2>4. QED BY <2>1, <2>3, FS_Bijection DEF ExistsBijection, Num
  <1>3. IsFiniteSet(Places(G, S))
    <2>1. Places(G, S) = UNION {Row(u) : u \in I}
      BY <1>0 DEF Places
    <2>2. IsFiniteSet({Row(u) : u \in I})
      <3>1. [u \in I |-> Row(u)] \in Surjection(I, {Row(u) : u \in I})
        BY DEF Surjection
      <3>2. QED BY <1>0, <3>1, FS_Surjection
    <2>3. PICK R : R = {Row(u) : u \in I}
      OBVIOUS
    <2>4. \A T \in R : IsFiniteSet(T)
      BY <1>2, <2>3
    <2>5. IsFiniteSet(UNION R)
      BY <2>2, <2>3, <2>4, FS_UNION
    <2>6. QED BY <2>1, <2>3, <2>5
  <1>4. IsFiniteSet(O) /\ O \cap Row(t) = {} /\ Places(G, S) = O \cup Row(t)
    <2>1. O \in SUBSET Places(G, S) /\ O \cap Row(t) = {} /\ Places(G, S) = O \cup Row(t)
      BY DEF Others
    <2>2. QED BY <1>3, <2>1, FS_Subset
  <1>5. Count(G, S) = Cardinality(O) + Cardinality(Row(t)) - Cardinality(O \cap Row(t))
    BY <1>2, <1>4, FS_Union DEF Count
  <1>6. Cardinality(O) \in Nat /\ Cardinality(Row(t)) \in Nat /\ Cardinality(O \cap Row(t)) = 0
    BY <1>2, <1>4, FS_EmptySet, FS_CardinalityType
  <1>7. Cardinality(Row(t)) = Num(G[t], S)
    BY <1>2
  <1> HIDE DEF O, Row
  <1>8. Count(G, S) = Cardinality(O) + Num(G[t], S)
    BY <1>5, <1>6, <1>7
  <1>9. Count(G, S) \in Nat
    BY <1>3, FS_CardinalityType DEF Count
  <1>10. QED BY <1>3, <1>4, <1>6, <1>8, <1>9 DEF O

\* The count changes by what one index has before and after.
LEMMA CountMove ==
  ASSUME NEW I, NEW F, NEW G, NEW H, Family(G, I, F), Family(H, I, F),
         NEW t \in I, NEW S,
         \A u \in I : u # t => Hits(H[u], S) = Hits(G[u], S)
  PROVE  /\ Count(G, S) \in Nat /\ Count(H, S) \in Nat
         /\ Num(G[t], S) \in Nat /\ Num(H[t], S) \in Nat
         /\ Count(H, S) + Num(G[t], S) = Count(G, S) + Num(H[t], S)
  <1>0. G \in [I -> Seq(F)] /\ H \in [I -> Seq(F)]
    BY DEF Family
  <1>1. Others(G, S, t) = Others(H, S, t)
    BY <1>0 DEF Others, Places
  <1>2. ASSUME NEW K, Family(K, I, F)
        PROVE  /\ Cardinality(Others(K, S, t)) \in Nat /\ Count(K, S) \in Nat
               /\ Count(K, S) = Cardinality(Others(K, S, t)) + Num(K[t], S)
    BY <1>2, CountSplit
  <1>3. PICK n \in Nat : n = Cardinality(Others(G, S, t)) /\ Count(G, S) = n + Num(G[t], S)
    BY <1>2
  <1>4. Count(H, S) = n + Num(H[t], S)
    BY <1>1, <1>2, <1>3
  <1>5. Num(G[t], S) \in Nat /\ Num(H[t], S) \in Nat
    BY <1>0, HitsFinite
  <1>6. QED BY <1>2, <1>3, <1>4, <1>5

\* What is counted is somewhere.
LEMMA CountSome ==
  ASSUME NEW I, NEW F, NEW G, Family(G, I, F), NEW S
  PROVE  /\ Count(G, S) \in Nat
         /\ \A t \in I : \A i \in DOMAIN G[t] : G[t][i] \in S => Count(G, S) > 0
         /\ Count(G, S) > 0 => \E t \in I : \E i \in DOMAIN G[t] : G[t][i] \in S
  <1>0. G \in [I -> Seq(F)]
    BY DEF Family
  <1>1. \A t \in I : DOMAIN G[t] \subseteq Nat
    <2> TAKE t \in I
    <2>1. G[t] \in Seq(F)
      BY <1>0
    <2>2. QED BY <2>1
  <1>2. CASE I = {}
    <2>1. Places(G, S) = {}
      BY <1>0, <1>2 DEF Places
    <2>2. QED BY <1>2, <2>1, FS_EmptySet DEF Count
  <1>3. CASE I # {}
    <2>1. IsFiniteSet(Places(G, S))
      BY <1>3, CountSplit
    <2>2. Count(G, S) \in Nat /\ (Count(G, S) = 0 <=> Places(G, S) = {})
      BY <2>1, FS_EmptySet, FS_CardinalityType DEF Count
    <2>3. ASSUME NEW t \in I, NEW i \in DOMAIN G[t], G[t][i] \in S
          PROVE  <<t, i>> \in Places(G, S)
      BY <1>0, <1>1, <2>3 DEF Places, Hits
    <2>4. ASSUME NEW x \in Places(G, S)
          PROVE  \E t \in I : \E i \in DOMAIN G[t] : G[t][i] \in S
      BY <1>0, <2>4 DEF Places, Hits
    <2>5. \A t \in I : \A i \in DOMAIN G[t] : G[t][i] \in S => Places(G, S) # {}
      BY <2>3
    <2>6. Places(G, S) # {} => \E t \in I : \E i \in DOMAIN G[t] : G[t][i] \in S
      BY <2>4
    <2>7. Count(G, S) \in Nat /\ (Count(G, S) > 0 <=> Places(G, S) # {})
      BY <2>2
    <2>8. QED BY <2>5, <2>6, <2>7
  <1>4. QED BY <1>2, <1>3

\* Two places count twice.
LEMMA CountTwo ==
  ASSUME NEW I, NEW F, NEW G, Family(G, I, F), NEW S, Count(G, S) <= 1,
         NEW t \in I, NEW u \in I, NEW i \in DOMAIN G[t], NEW j \in DOMAIN G[u],
         G[t][i] \in S, G[u][j] \in S
  PROVE  t = u /\ i = j
  <1>0. G \in [I -> Seq(F)]
    BY DEF Family
  <1>1. DOMAIN G[t] \subseteq Nat /\ DOMAIN G[u] \subseteq Nat
    <2>1. G[t] \in Seq(F) /\ G[u] \in Seq(F)
      BY <1>0
    <2>2. QED BY <2>1
  <1>2. <<t, i>> \in Places(G, S) /\ <<u, j>> \in Places(G, S)
    BY <1>0, <1>1 DEF Places, Hits
  <1>3. IsFiniteSet(Places(G, S))
    BY CountSplit
  <1>4. SUFFICES ASSUME <<t, i>> # <<u, j>> PROVE FALSE
    OBVIOUS
  <1>5. /\ IsFiniteSet({<<t, i>>}) /\ Cardinality({<<t, i>>}) = 1
    BY FS_Singleton
  <1>6. Cardinality({<<t, i>>} \cup {<<u, j>>}) = 2
    <2>1. PICK A : A = {<<t, i>>}
      OBVIOUS
    <2>2. <<u, j>> \notin A
      BY <1>4, <2>1
    <2>3. Cardinality(A \cup {<<u, j>>}) = Cardinality(A) + 1
      BY <1>5, <2>1, <2>2, FS_AddElement
    <2>4. QED BY <1>5, <2>1, <2>3
  <1>7. Cardinality({<<t, i>>} \cup {<<u, j>>}) <= Cardinality(Places(G, S))
    BY <1>2, <1>3, FS_Subset
  <1>8. QED BY <1>3, <1>6, <1>7, FS_CardinalityType DEF Count
----------------------------------------------------------------------------
(* What a thread has in hand, and how a step changes it.                    *)

LEMMA HeldIs ==
  /\ \A f : f \in Held <=> \E t \in Threads : \E i \in DOMAIN th[t] : f = th[t][i]
  /\ \A f : f \in Held' <=> \E t \in Threads : \E i \in DOMAIN th'[t] : f = th'[t][i]
  <1>1. ASSUME NEW f PROVE f \in Held <=> \E t \in Threads : \E i \in DOMAIN th[t] : f = th[t][i]
    <2>1. ASSUME f \in Held PROVE \E t \in Threads : \E i \in DOMAIN th[t] : f = th[t][i]
      BY <2>1 DEF Held, Frames, Of
    <2>2. ASSUME NEW t \in Threads, NEW i \in DOMAIN th[t], f = th[t][i] PROVE f \in Held
      <3>1. <<t, i>> \in Frames /\ f = Of(<<t, i>>)
        BY <2>2 DEF Frames, Of
      <3>2. QED BY <3>1 DEF Held
    <2>3. QED BY <2>1, <2>2
  <1>2. ASSUME NEW f PROVE f \in Held' <=> \E t \in Threads : \E i \in DOMAIN th'[t] : f = th'[t][i]
    <2>1. ASSUME f \in Held' PROVE \E t \in Threads : \E i \in DOMAIN th'[t] : f = th'[t][i]
      BY <2>1 DEF Held, Frames, Of
    <2>2. ASSUME NEW t \in Threads, NEW i \in DOMAIN th'[t], f = th'[t][i] PROVE f \in Held'
      <3>1. <<t, i>> \in Frames' /\ f = th'[<<t, i>>[1]][<<t, i>>[2]]
        BY <2>2 DEF Frames
      <3>2. QED BY <3>1 DEF Held, Of
    <2>3. QED BY <2>1, <2>2
  <1>3. QED BY <1>1, <1>2

\* The step that a thread is at, and those after it.
LEMMA InHand ==
  ASSUME TypeInv, NEW t \in Threads, th[t] # <<>>
  PROVE  /\ th[t] \in Seq(Frame) /\ Head(th[t]) \in Frame /\ Tail(th[t]) \in Seq(Frame)
         /\ th[t] = <<Head(th[t])>> \o Tail(th[t])
         /\ Head(th[t]) \in Held /\ Head(th[t]) = th[t][1] /\ 1 \in DOMAIN th[t]
         /\ \A i \in DOMAIN Tail(th[t]) : Tail(th[t])[i] \in Held
         /\ Sock(t) \in Socks /\ Sock(t) = Head(th[t]).o
  <1>1. th[t] \in Seq(Frame)
    BY DEF TypeInv
  <1>2. Head(th[t]) \in Frame /\ Tail(th[t]) \in Seq(Frame) /\ th[t] = <<Head(th[t])>> \o Tail(th[t])
    BY <1>1, HeadTail
  <1>3. 1 \in DOMAIN th[t] /\ Head(th[t]) = th[t][1]
    BY <1>1
  <1>4. ASSUME NEW i \in DOMAIN Tail(th[t])
        PROVE  i + 1 \in DOMAIN th[t] /\ Tail(th[t])[i] = th[t][i + 1]
    BY <1>1
  <1>5. QED BY <1>1, <1>2, <1>3, <1>4, HeldIs DEF Sock, Frame

\* What is woken, and what becomes of a thread that makes a step.
Woken(u) ==
  /\ th[u] # <<>> /\ Head(th[u]).op \in {"asleep", "rsleep"}
  /\ th'[u] = <<Awake(Head(th[u]))>> \o Tail(th[u])
Turns(t, q) ==
  /\ th' \in [Threads -> Seq(Frame)] /\ th'[t] = q
  /\ \A u \in Threads : u # t => th'[u] = th[u] \/ Woken(u)

LEMMA AwakeIs ==
  ASSUME NEW f \in Frame, f.op \in {"asleep", "rsleep"}
  PROVE  /\ Awake(f) \in Frame /\ Awake(f).o = f.o /\ Awake(f).p = f.p
         /\ Awake(f).op = IF f.op = "asleep" THEN "accept" ELSE "recv"
  BY DEF Awake, Frame

\* Threads that sleep; what becomes of the others when those of W are woken.
Asleep(W) == \A u \in W \cap Threads : At(u, "asleep") \/ At(u, "rsleep")
Wakes(t, W) == \A u \in Threads : u # t => IF u \in W THEN Woken(u) ELSE th'[u] = th[u]

LEMMA Sleeping ==
  ASSUME NEW o
  PROVE  /\ Asleep({}) /\ Asleep(Sleepers("asleep", o)) /\ Asleep(Sleepers("rsleep", o))
         /\ Asleep(Sleepers("asleep", o) \cup Sleepers("rsleep", o))
  BY DEF Asleep, Sleepers

LEMMA GoesTurns ==
  ASSUME TypeInv, NEW t \in Threads, th[t] # <<>>, NEW fs \in Seq(Frame), NEW W,
         Asleep(W), Goes(t, fs, W)
  PROVE  /\ Turns(t, fs \o Tail(th[t])) /\ fs \o Tail(th[t]) \in Seq(Frame)
         /\ Wakes(t, W)
  <1>1. \A u \in Threads : th'[u] = IF u = t THEN fs \o Tail(th[t])
                                     ELSE IF u \in W THEN <<Awake(Head(th[u]))>> \o Tail(th[u])
                                     ELSE th[u]
    BY DEF Goes
  <1>2. fs \o Tail(th[t]) \in Seq(Frame)
    <2>1. PICK r \in Seq(Frame) : r = Tail(th[t])
      BY InHand
    <2>2. fs \o r \in Seq(Frame)
      OBVIOUS
    <2>3. QED BY <2>1, <2>2
  <1>3. \A u \in Threads \cap W : th[u] # <<>> /\ Head(th[u]).op \in {"asleep", "rsleep"}
    BY DEF At, Asleep
  <1>4. \A u \in Threads \cap W : <<Awake(Head(th[u]))>> \o Tail(th[u]) \in Seq(Frame)
    <2> TAKE u \in Threads \cap W
    <2>1. Head(th[u]) \in Frame /\ Tail(th[u]) \in Seq(Frame)
      BY <1>3, InHand
    <2>2. Awake(Head(th[u])) \in Frame
      BY <1>3, <2>1, AwakeIs
    <2>3. QED BY <2>1, <2>2
  <1>5. th' \in [Threads -> Seq(Frame)]
    <2>1. ASSUME NEW u \in Threads PROVE th'[u] \in Seq(Frame)
      <3>1. CASE u = t
        BY <1>1, <1>2, <3>1
      <3>2. CASE u # t /\ u \in W
        BY <1>1, <1>4, <3>2
      <3>3. CASE u # t /\ u \notin W
        <4>1. th'[u] = th[u]
          BY <1>1, <3>3
        <4>2. th[u] \in Seq(Frame)
          BY DEF TypeInv
        <4>3. QED BY <4>1, <4>2
      <3>4. QED BY <3>1, <3>2, <3>3
    <2>2. th' = [u \in Threads |-> th'[u]]
      BY DEF Goes
    <2>3. QED BY <2>1, <2>2
  <1>6. QED BY <1>1, <1>2, <1>3, <1>5 DEF Turns, Wakes, Woken

LEMMA SetTurns ==
  ASSUME TypeInv, NEW t \in Threads, NEW q \in Seq(Frame), th' = [th EXCEPT ![t] = q]
  PROVE  Turns(t, q)
  BY DEF TypeInv, Turns

\* A thread that is woken has what it had, but for its first step.
LEMMA WokenIs ==
  ASSUME TypeInv, NEW u \in Threads, Woken(u)
  PROVE  /\ th[u] # <<>> /\ DOMAIN th'[u] = DOMAIN th[u] /\ 1 \in DOMAIN th[u]
         /\ th[u][1] \in Held /\ th[u][1] \in Frame /\ th[u][1].op \in {"asleep", "rsleep"}
         /\ th'[u][1] = Awake(th[u][1])
         /\ \A i \in DOMAIN th[u] : i # 1 => th'[u][i] = th[u][i]
         /\ Head(th'[u]) = Awake(th[u][1]) /\ Tail(th'[u]) = Tail(th[u])
  <1>1. th[u] # <<>> /\ Head(th[u]).op \in {"asleep", "rsleep"}
    BY DEF Woken
  <1>2. PICK a \in Frame, r \in Seq(Frame) : /\ a = Head(th[u]) /\ r = Tail(th[u]) /\ th[u] = <<a>> \o r
                                             /\ a \in Held /\ a = th[u][1]
    BY <1>1, InHand
  <1>3. PICK b \in Frame : b = Awake(a) /\ th'[u] = <<b>> \o r
    BY <1>1, <1>2, AwakeIs DEF Woken
  <1>4. /\ DOMAIN (<<a>> \o r) = 1..(Len(r) + 1) /\ DOMAIN (<<b>> \o r) = 1..(Len(r) + 1)
        /\ Len(r) \in Nat
        /\ (<<b>> \o r)[1] = b /\ Head(<<b>> \o r) = b /\ Tail(<<b>> \o r) = r
        /\ \A i \in 1..(Len(r) + 1) : i # 1 => (<<b>> \o r)[i] = (<<a>> \o r)[i]
    OBVIOUS
  <1>5. QED BY <1>1, <1>2, <1>3, <1>4

\* What is counted but the steps of sleepers changes with the thread's own stack.
LEMMA TurnsCount ==
  ASSUME TypeInv, NEW t \in Threads, NEW q \in Seq(Frame), Turns(t, q), NEW S \in SUBSET Solid
  PROVE  /\ Count(th, S) \in Nat /\ Count(th', S) \in Nat
         /\ Count(th', S) + Num(th[t], S) = Count(th, S) + Num(q, S)
         /\ Num(th[t], S) \in Nat /\ Num(q, S) \in Nat
  <1>1. ASSUME NEW u \in Threads, u # t PROVE Hits(th'[u], S) = Hits(th[u], S)
    <2>1. CASE Woken(u)
      <3>1. th[u][1] \notin S
        BY <2>1, WokenIs DEF Solid
      <3>2. th'[u][1] \notin S
        BY <2>1, WokenIs, AwakeIs DEF Solid
      <3>3. DOMAIN th'[u] = DOMAIN th[u] /\ \A i \in DOMAIN th[u] : i # 1 => th'[u][i] = th[u][i]
        BY <2>1, WokenIs
      <3>4. QED BY <3>1, <3>2, <3>3 DEF Hits
    <2>2. CASE th'[u] = th[u]
      BY <2>2
    <2>3. QED BY <1>1, <2>1, <2>2 DEF Turns
  <1>2. th \in [Threads -> Seq(Frame)] /\ th' \in [Threads -> Seq(Frame)] /\ th'[t] = q /\ IsFiniteSet(Threads)
    BY InprocAssumption DEF TypeInv, Turns
  <1>3. PICK G, H : G = th /\ H = th'
    OBVIOUS
  <1>4. Family(G, Threads, Frame) /\ Family(H, Threads, Frame)
    BY <1>2, <1>3 DEF Family
  <1>5. \A u \in Threads : u # t => Hits(H[u], S) = Hits(G[u], S)
    BY <1>1, <1>3
  <1>6. /\ Count(G, S) \in Nat /\ Count(H, S) \in Nat
        /\ Num(G[t], S) \in Nat /\ Num(H[t], S) \in Nat
        /\ Count(H, S) + Num(G[t], S) = Count(G, S) + Num(H[t], S)
    BY <1>4, <1>5, CountMove
  <1>7. QED BY <1>2, <1>3, <1>6

LEMMA GoesCount ==
  ASSUME TypeInv, NEW t \in Threads, th[t] # <<>>, NEW fs \in Seq(Frame),
         Turns(t, fs \o Tail(th[t])), NEW S \in SUBSET Solid
  PROVE  /\ Count(th, S) \in Nat /\ Count(th', S) \in Nat
         /\ Count(th', S) + Is(Head(th[t]) \in S) = Count(th, S) + Num(fs, S)
  <1>1. PICK r \in Seq(Frame) : r = Tail(th[t]) /\ th[t] \in Seq(Frame)
    BY InHand
  <1>2. fs \o r \in Seq(Frame)
    OBVIOUS
  <1>3. PICK q \in Seq(Frame) : q = fs \o r
    BY <1>2
  <1>4. Num(q, S) = Num(fs, S) + Num(r, S)
    BY <1>3, NumConcat
  <1>5. Num(th[t], S) = Is(Head(th[t]) \in S) + Num(r, S)
    BY <1>1, NumTail
  <1>6. Num(r, S) \in Nat /\ Num(fs, S) \in Nat /\ Is(Head(th[t]) \in S) \in Nat
    BY HitsFinite DEF Is
  <1>7. /\ Count(th, S) \in Nat /\ Count(th', S) \in Nat
        /\ Count(th', S) + Num(th[t], S) = Count(th, S) + Num(q, S)
    BY <1>1, <1>3, TurnsCount
  <1>8. PICK k \in Nat, l \in Nat, m \in Nat, n \in Nat, w \in Nat :
          /\ k = Count(th, S) /\ l = Count(th', S) /\ m = Num(r, S) /\ n = Num(fs, S)
          /\ w = Is(Head(th[t]) \in S)
    BY <1>6, <1>7
  <1>9. l + (w + m) = k + (n + m)
    BY <1>4, <1>5, <1>7, <1>8
  <1>10. l + w = k + n
    BY <1>9
  <1>11. QED BY <1>8, <1>10
----------------------------------------------------------------------------
(* The shape of stacks.                                                     *)

LEMMA StackPop ==
  ASSUME NEW r \in Seq(Frame), Rest(r)
  PROVE  Stack(r)
  <1>1. SUFFICES ASSUME r # <<>> PROVE Rest(Tail(r)) /\ First(Head(r), Tail(r))
    BY DEF Stack
  <1>2. PICK a \in Frame, q \in Seq(Frame) : a = Head(r) /\ q = Tail(r) /\ r = <<a>> \o q
    BY <1>1, HeadTail
  <1>3. /\ DOMAIN r = 1..(Len(q) + 1) /\ DOMAIN q = 1..Len(q) /\ Len(q) \in Nat /\ r[1] = a
        /\ \A i \in 1..Len(q) : r[i + 1] = q[i] /\ i + 1 \in 1..(Len(q) + 1) /\ i + 1 + 1 = (i + 1) + 1
    BY <1>2
  <1>4. Rest(q)
    <2> SUFFICES ASSUME NEW i \in DOMAIN q
                 PROVE  /\ q[i].op \in Later /\ q[i].p = None
                        /\ q[i].op = "epipe" => i + 1 \in DOMAIN q /\ q[i + 1] = Do("put", q[i].o)
                        /\ q[i].op = "putpeer" => i + 1 \in DOMAIN q /\ q[i + 1] = Do("putself", q[i].o)
      BY DEF Rest
    <2>1. i \in 1..Len(q) /\ i + 1 \in DOMAIN r /\ r[i + 1] = q[i]
      BY <1>3
    <2>2. /\ q[i].op \in Later /\ q[i].p = None
          /\ q[i].op = "epipe" => (i + 1) + 1 \in DOMAIN r /\ r[(i + 1) + 1] = Do("put", q[i].o)
          /\ q[i].op = "putpeer" => (i + 1) + 1 \in DOMAIN r /\ r[(i + 1) + 1] = Do("putself", q[i].o)
      BY <2>1 DEF Rest
    <2>3. (i + 1) + 1 \in DOMAIN r => i + 1 \in DOMAIN q /\ r[(i + 1) + 1] = q[i + 1]
      BY <1>3, <2>1
    <2>4. QED BY <2>2, <2>3
  <1>5. /\ a.op \in Later /\ a.p = None
        /\ a.op = "epipe" => 1 + 1 \in DOMAIN r /\ r[1 + 1] = Do("put", a.o)
        /\ a.op = "putpeer" => 1 + 1 \in DOMAIN r /\ r[1 + 1] = Do("putself", a.o)
    BY <1>3 DEF Rest
  <1>6. 1 + 1 \in DOMAIN r => q # <<>> /\ Head(q) = r[1 + 1]
    BY <1>3
  <1>7. First(a, q)
    BY <1>5, <1>6 DEF First, Follows, Later
  <1>8. QED BY <1>2, <1>4, <1>7

LEMMA StackPush ==
  ASSUME NEW r \in Seq(Frame), Rest(r), NEW a \in Frame, First(a, r)
  PROVE  Stack(<<a>> \o r)
  <1>1. Head(<<a>> \o r) = a /\ Tail(<<a>> \o r) = r
    OBVIOUS
  <1>2. QED BY <1>1 DEF Stack

LEMMA RestPush ==
  ASSUME NEW r \in Seq(Frame), Rest(r), NEW a \in Frame, a.op \in Later, a.p = None, Follows(a, r)
  PROVE  Rest(<<a>> \o r) /\ <<a>> \o r \in Seq(Frame) /\ First(a, r)
  <1>0. <<a>> \o r \in Seq(Frame)
    <2>1. <<a>> \in Seq(Frame)
      OBVIOUS
    <2>2. QED BY <2>1
  <1>1. PICK q \in Seq(Frame) : q = <<a>> \o r
    BY <1>0
  <1>2. /\ DOMAIN q = 1..(Len(r) + 1) /\ DOMAIN r = 1..Len(r) /\ Len(r) \in Nat /\ q[1] = a
        /\ \A i \in 1..Len(r) : q[i + 1] = r[i] /\ i + 1 \in 1..(Len(r) + 1)
        /\ r # <<>> => 1 \in DOMAIN r /\ Head(r) = r[1]
    BY <1>1
  <1>3. ASSUME NEW i \in DOMAIN q
        PROVE  /\ q[i].op \in Later /\ q[i].p = None
               /\ q[i].op = "epipe" => i + 1 \in DOMAIN q /\ q[i + 1] = Do("put", q[i].o)
               /\ q[i].op = "putpeer" => i + 1 \in DOMAIN q /\ q[i + 1] = Do("putself", q[i].o)
    <2>1. CASE i = 1
      BY <1>2, <2>1 DEF Follows
    <2>2. CASE i # 1
      <3>1. PICK j \in 1..Len(r) : i = j + 1 /\ q[i] = r[j] /\ j \in DOMAIN r
        <4>1. i - 1 \in 1..Len(r) /\ i = (i - 1) + 1
          BY <1>2, <2>2
        <4>2. QED BY <1>2, <4>1
      <3>2. /\ r[j].op \in Later /\ r[j].p = None
            /\ r[j].op = "epipe" => j + 1 \in DOMAIN r /\ r[j + 1] = Do("put", r[j].o)
            /\ r[j].op = "putpeer" => j + 1 \in DOMAIN r /\ r[j + 1] = Do("putself", r[j].o)
        BY <3>1 DEF Rest
      <3>3. j + 1 \in DOMAIN r => (j + 1) + 1 \in DOMAIN q /\ q[(j + 1) + 1] = r[j + 1]
        BY <1>2
      <3>4. QED BY <3>1, <3>2, <3>3
    <2>3. QED BY <2>1, <2>2
  <1>4. Rest(q)
    BY <1>3 DEF Rest
  <1>5. First(a, r)
    BY DEF First, Later
  <1>6. QED BY <1>1, <1>4, <1>5

LEMMA RestEmpty == Rest(<<>>)
  BY DEF Rest

LEMMA RestShort ==
  ASSUME NEW a \in Frame, NEW b \in Frame, NEW c \in Frame,
         a.op \in {"put", "return"}, b.op \in {"put", "return"}, c.op = "epipe", c.p = None,
         a.p = None, b.p = None
  PROVE  /\ Rest(<<a>>) /\ Rest(<<a, b>>)
         /\ a = Do("put", c.o) => Rest(<<c, a, b>>)
  <1>1. <<>> \in Seq(Frame) /\ <<b>> \in Seq(Frame) /\ <<a>> \in Seq(Frame) /\ <<a, b>> \in Seq(Frame)
    OBVIOUS
  <1>2. Rest(<<a>>) /\ Rest(<<b>>)
    BY DEF Rest, Later
  <1>3. <<a>> \o <<b>> = <<a, b>> /\ <<c>> \o <<a, b>> = <<c, a, b>>
    BY JoinTwo, JoinThree
  <1>4. Rest(<<a, b>>)
    <2>1. Follows(a, <<b>>) /\ a.op \in Later
      BY DEF Follows, Later
    <2>2. Rest(<<a>> \o <<b>>)
      BY <1>1, <1>2, <2>1, RestPush
    <2>3. QED BY <1>3, <2>2
  <1>5. ASSUME a = Do("put", c.o) PROVE Rest(<<c, a, b>>)
    <2>1. Head(<<a, b>>) = a /\ <<a, b>> # <<>>
      OBVIOUS
    <2>2. Follows(c, <<a, b>>) /\ c.op \in Later
      BY <1>5, <2>1 DEF Follows, Later
    <2>3. Rest(<<c>> \o <<a, b>>)
      BY <1>1, <1>4, <2>2, RestPush
    <2>4. QED BY <1>3, <2>3
  <1>6. QED BY <1>2, <1>4, <1>5

\* The shape after a step.
LEMMA TurnsShape ==
  ASSUME TypeInv, ShapeInv, NEW t \in Threads, NEW q, Turns(t, q), Stack(q)
  PROVE  ShapeInv'
  <1>1. ASSUME NEW u \in Threads PROVE Stack(th'[u])
    <2>1. CASE u = t
      BY <2>1 DEF Turns
    <2>2. CASE u # t /\ Woken(u)
      <3>1. PICK a \in Frame, r \in Seq(Frame) :
              a = Head(th[u]) /\ r = Tail(th[u]) /\ th[u] # <<>> /\ a.op \in {"asleep", "rsleep"}
        BY <2>2, InHand DEF Woken
      <3>2. PICK b \in Frame : b = Awake(a)
        BY <3>1, AwakeIs
      <3>3. Rest(r) /\ First(a, r)
        BY <3>1 DEF ShapeInv, Stack
      <3>4. First(b, r)
        BY <3>1, <3>2, <3>3, AwakeIs DEF First, Follows
      <3>5. th'[u] = <<b>> \o r
        BY <2>2, <3>1, <3>2 DEF Woken
      <3>6. QED BY <3>3, <3>4, <3>5, StackPush
    <2>3. CASE th'[u] = th[u]
      BY <2>3 DEF ShapeInv
    <2>4. QED BY <2>1, <2>2, <2>3 DEF Turns
  <1>2. QED BY <1>1 DEF ShapeInv, Stack, First, Follows, Rest

\* What is in hand after a step, if M has what is in hand elsewhere and what the thread
\* does next.
LEMMA HandStep ==
  ASSUME TypeInv, NEW t \in Threads, NEW q, Turns(t, q),
         NEW M, \A i \in DOMAIN q : q[i] \in M,
         \A u \in Threads : u # t => \A i \in DOMAIN th[u] : th[u][i] \in M,
         \A f \in M : FrameOK(f)'
  PROVE  HandInv'
  <1>1. SUFFICES ASSUME NEW f \in Held' PROVE FrameOK(f)'
    BY DEF HandInv
  <1>2. PICK u \in Threads : \E i \in DOMAIN th'[u] : f = th'[u][i]
    BY HeldIs
  <1> PICK i \in DOMAIN th'[u] : f = th'[u][i]
    BY <1>2
  <1>3. CASE u = t
    BY <1>2, <1>3 DEF Turns
  <1>4. CASE u # t /\ th'[u] = th[u]
    BY <1>2, <1>4
  <1>5. CASE u # t /\ Woken(u)
    <2>1. CASE i = 1
      <3>1. PICK g \in Frame : g = th[u][1] /\ g \in M /\ g.op \in {"asleep", "rsleep"} /\ f = Awake(g)
        BY <1>2, <1>5, <2>1, WokenIs
      <3>2. FrameOK(g)'
        BY <3>1
      <3>3. f.o = g.o /\ f.p = g.p /\ f.op = IF g.op = "asleep" THEN "accept" ELSE "recv"
        BY <3>1, AwakeIs
      <3>4. QED BY <3>1, <3>2, <3>3 DEF FrameOK, FrameKind, OfListener, OfConnector
    <2>2. CASE i # 1
      <3>1. DOMAIN th'[u] = DOMAIN th[u] /\ \A k \in DOMAIN th[u] : k # 1 => th'[u][k] = th[u][k]
        BY <1>5, WokenIs
      <3>2. i \in DOMAIN th[u] /\ f = th[u][i]
        BY <2>2, <3>1
      <3>3. f \in M
        BY <1>5, <3>2
      <3>4. QED BY <3>3
    <2>3. QED BY <2>1, <2>2
  <1>6. QED BY <1>3, <1>4, <1>5 DEF Turns
----------------------------------------------------------------------------
(* What the invariant says of the frames in hand.                           *)

\* What is due after a step in hand is in hand.
LEMMA Due ==
  ASSUME TypeInv, ShapeInv, NEW f \in Held
  PROVE  /\ f \in Frame
         /\ f.op \in {"epipe", "accept", "asleep", "send", "recv", "rsleep", "acceptq_add"}
              => Do("put", f.o) \in Held
         /\ f.op = "wakepeer" => Do("putpeer", f.o) \in Held
         /\ f.op = "putpeer" => Do("putself", f.o) \in Held
         /\ f.op = "pair" => Do("put", f.p) \in Held /\ Do("return", f.o) \in Held
         /\ f.op \in {"pair", "acceptq_add"} => f.p \in Socks
         /\ f.op \notin {"pair", "acceptq_add"} => f.p = None
  <1>0. PICK t \in Threads : \E i \in DOMAIN th[t] : f = th[t][i]
    BY HeldIs
  <1>1. PICK i \in DOMAIN th[t] : f = th[t][i]
    BY <1>0
  <1>2. th[t] \in Seq(Frame) /\ f \in Frame /\ th[t] # <<>>
    BY <1>1 DEF TypeInv
  <1>3. PICK a \in Frame, r \in Seq(Frame) :
          a = Head(th[t]) /\ r = Tail(th[t]) /\ th[t] = <<a>> \o r /\ \A j \in DOMAIN r : r[j] \in Held
    BY <1>2, InHand
  <1>4. Rest(r) /\ First(a, r)
    BY <1>2, <1>3 DEF ShapeInv, Stack
  <1>5. CASE i = 1
    <2>1. f = a
      BY <1>1, <1>3, <1>5
    <2>2. r # <<>> => Head(r) \in Held
      <3>1. r # <<>> => 1 \in DOMAIN r /\ Head(r) = r[1]
        OBVIOUS
      <3>2. QED BY <1>3, <3>1
    <2>3. /\ \A x : r = <<x>> => x \in Held
          /\ \A x, y : r = <<x, y>> => x \in Held /\ y \in Held
      <3>1. \A x : r = <<x>> => 1 \in DOMAIN r /\ r[1] = x
        OBVIOUS
      <3>2. \A x, y : r = <<x, y>> => 1 \in DOMAIN r /\ r[1] = x /\ 2 \in DOMAIN r /\ r[2] = y
        OBVIOUS
      <3>3. QED BY <1>3, <3>1, <3>2
    <2>4. QED BY <1>2, <1>4, <2>1, <2>2, <2>3 DEF First, Follows
  <1>6. CASE i # 1
    <2>1. PICK j \in DOMAIN r : f = r[j]
      <3>1. i - 1 \in DOMAIN r /\ (<<a>> \o r)[i] = r[i - 1]
        BY <1>1, <1>3, <1>6
      <3>2. QED BY <1>1, <1>3, <3>1
    <2>2. QED BY <1>2, <1>3, <1>4, <2>1 DEF Rest, Later
  <1>7. QED BY <1>5, <1>6

\* The counts are numbers, above zero if and only if something is counted.
LEMMA Tallies ==
  ASSUME TypeInv, NEW x \in Socks
  PROVE  /\ Puts(x) \in Nat /\ Makes(x) \in Nat /\ Waits(x) \in Nat /\ Downs(x) \in Nat
         /\ Leaves(x) \in Nat /\ Base(x) \in Nat
         /\ \A f \in Held : f \in PutSet(x) => Puts(x) > 0
         /\ \A f \in Held : f \in MakeSet(x) => Makes(x) > 0
         /\ \A f \in Held : f \in DownSet(x) => Downs(x) > 0
         /\ \A f \in Held : f \in LeaveSet(x) => Leaves(x) > 0
         /\ \A l \in Socks : \A i \in DOMAIN accq[l] : accq[l][i] = x => Waits(x) > 0
         /\ Puts(x) > 0 => \E f \in Held : f \in PutSet(x)
         /\ Makes(x) > 0 => \E f \in Held : f \in MakeSet(x)
         /\ Downs(x) > 0 => \E f \in Held : f \in DownSet(x)
         /\ Leaves(x) > 0 => \E f \in Held : f \in LeaveSet(x)
         /\ Waits(x) > 0 => \E l \in Socks : \E i \in DOMAIN accq[l] : accq[l][i] = x
  <1>1. Family(th, Threads, Frame) /\ Family(accq, Socks, Socks)
    BY InprocAssumption DEF TypeInv, Family
  <1>2. ASSUME NEW S
        PROVE  /\ Count(th, S) \in Nat
               /\ \A f \in Held : f \in S => Count(th, S) > 0
               /\ Count(th, S) > 0 => \E f \in Held : f \in S
    BY <1>1, CountSome, HeldIs
  <1>3. /\ Count(accq, {x}) \in Nat
        /\ \A l \in Socks : \A i \in DOMAIN accq[l] : accq[l][i] = x => Count(accq, {x}) > 0
        /\ Count(accq, {x}) > 0 => \E l \in Socks : \E i \in DOMAIN accq[l] : accq[l][i] = x
    <2>1. \A y : y \in {x} <=> y = x
      OBVIOUS
    <2>2. QED BY <1>1, <2>1, CountSome
  <1>4. Is(x \in open) \in Nat
    BY DEF Is
  <1>5. QED BY <1>2, <1>3, <1>4 DEF Puts, Makes, Downs, Leaves, Waits, Base

\* A socket with references, or one that is being torn down, is allocated.
LEMMA Referenced ==
  ASSUME TypeInv, RefInv, LifeInv, NEW x \in Socks
  PROVE  /\ Puts(x) > 0 \/ Makes(x) > 0 \/ Waits(x) > 0 \/ x \in open => sref[x] > 0
         /\ sref[x] \in Nat
         /\ sref[x] > 0 \/ Downs(x) > 0 \/ Pointers(x) # {} => x \in live
         /\ x \notin live => /\ sref[x] = 0 /\ Puts(x) = 0 /\ Base(x) = 0 /\ Makes(x) = 0 /\ Waits(x) = 0
                             /\ x \notin open /\ Downs(x) = 0 /\ Pointers(x) = {}
  <1>1. /\ Puts(x) \in Nat /\ Makes(x) \in Nat /\ Waits(x) \in Nat /\ Downs(x) \in Nat
        /\ Is(x \in open) = IF x \in open THEN 1 ELSE 0
    BY Tallies DEF Is
  <1>2. sref[x] = Puts(x) + Base(x) /\ Base(x) = Makes(x) + Waits(x) + Is(x \in open)
    BY DEF RefInv, Base
  <1>3. sref[x] \in Nat
    BY DEF TypeInv
  <1>4. x \in live <=> sref[x] > 0 \/ Downs(x) > 0 \/ Pointers(x) # {}
    BY DEF LifeInv
  <1>5. QED BY <1>1, <1>2, <1>3, <1>4

\* Whatever is in hand, in a queue, a peer, in the map or open is allocated.
LEMMA Alive ==
  ASSUME IInv
  PROVE  /\ \A f \in Held : f \in Frame /\ f.o \in live /\ (f.p = None \/ f.p \in live)
         /\ open \subseteq live
         /\ \A l \in Socks : \A i \in DOMAIN accq[l] : accq[l][i] \in live
         /\ \A o \in Socks : peer[o] # None => peer[o] \in live /\ o \in live
  <1>0. TypeInv /\ ShapeInv /\ RefInv /\ LifeInv /\ PeerInv
    BY DEF IInv
  <1>1. \A f \in Held : f \in Frame /\ f.o \in Socks
    BY <1>0, Due DEF Frame
  <1>2. ASSUME NEW f \in Held, f.op \in {"put", "return", "addlistener", "getlistener",
                                         "rmlistener", "drain", "putself"}
        PROVE  f.o \in live
    <2>1. f \in PutSet(f.o) \/ f \in MakeSet(f.o) \/ f \in DownSet(f.o)
      BY <1>1, <1>2 DEF PutSet, MakeSet, DownSet, Solid
    <2>2. QED BY <1>0, <1>1, <2>1, Tallies, Referenced
  <1>3. ASSUME NEW f \in Held, NEW op \in {"put", "return", "putself"}, NEW x \in Socks, Do(op, x) \in Held
        PROVE  x \in live
    BY <1>2, <1>3 DEF Do
  <1>4. ASSUME NEW f \in Held, f.op = "putpeer" PROVE f.o \in live
    BY <1>0, <1>1, <1>3, <1>4, Due
  <1>5. ASSUME NEW f \in Held PROVE f.o \in live /\ (f.p = None \/ f.p \in live)
    <2>1. CASE f.op \in {"put", "return", "addlistener", "getlistener", "rmlistener", "drain", "putself"}
      BY <1>0, <1>2, <2>1, Due
    <2>2. CASE f.op \in {"epipe", "accept", "asleep", "send", "recv", "rsleep"}
      BY <1>0, <1>1, <1>3, <2>2, Due
    <2>3. CASE f.op = "putpeer"
      BY <1>0, <1>4, <2>3, Due
    <2>4. CASE f.op = "wakepeer"
      <3>1. Do("putpeer", f.o) \in Held /\ f.p = None
        BY <1>0, <2>4, Due
      <3>2. QED BY <3>1, <1>4 DEF Do
    <2>5. CASE f.op = "pair"
      BY <1>0, <1>1, <1>3, <2>5, Due
    <2>6. CASE f.op = "acceptq_add"
      <3>1. Do("put", f.o) \in Held /\ f.p \in Socks
        BY <1>0, <2>6, Due
      <3>2. f \in MakeSet(f.p)
        BY <1>1, <2>6 DEF MakeSet, Solid
      <3>3. QED BY <1>0, <1>1, <1>3, <3>1, <3>2, Tallies, Referenced
    <2>7. QED BY <1>1, <2>1, <2>2, <2>3, <2>4, <2>5, <2>6 DEF Frame
  <1>6. open \subseteq live
    BY <1>0, Referenced DEF TypeInv
  <1>7. \A l \in Socks : \A i \in DOMAIN accq[l] : accq[l][i] \in live
    <2> TAKE l \in Socks
    <2> TAKE i \in DOMAIN accq[l]
    <2>1. accq[l][i] \in Socks
      BY <1>0 DEF TypeInv
    <2>2. QED BY <1>0, <2>1, Tallies, Referenced
  <1>8. ASSUME NEW o \in Socks, peer[o] # None PROVE peer[o] \in live /\ o \in live
    <2>1. peer[o] \in Socks /\ o \in Pointers(peer[o])
      BY <1>0, <1>8 DEF TypeInv, Pointers
    <2>2. peer[o] \in live
      BY <1>0, <2>1, Referenced
    <2>3. CASE sref[o] > 0
      BY <1>0, <2>2, <2>3, Referenced
    <2>4. CASE sref[o] = 0
      <3>1. Leaves(o) > 0
        BY <1>0, <1>8, <2>4 DEF PeerInv, Is
      <3>2. PICK f \in Held : f \in LeaveSet(o)
        BY <1>0, <3>1, Tallies
      <3>3. QED BY <1>4, <2>2, <3>2 DEF LeaveSet
    <2>5. QED BY <1>0, <2>3, <2>4, Referenced
  <1>9. QED BY <1>1, <1>5, <1>6, <1>7, <1>8

----------------------------------------------------------------------------
(* What a step changes of the counts.                                       *)

PutW(f, x) == Is(f.op = "put" /\ f.o = x)
MakeW(f, x) == Is(\/ f.op \in {"addlistener", "getlistener", "return"} /\ f.o = x
                  \/ f.op = "acceptq_add" /\ f.p = x)
DownW(f, x) == Is(f.op \in {"rmlistener", "drain", "putself"} /\ f.o = x)
LeaveW(f, x) == Is(f.op = "putpeer" /\ f.o = x)

LEMMA Weights ==
  ASSUME NEW f \in Frame, NEW x \in Socks
  PROVE  /\ Is(f \in PutSet(x)) = PutW(f, x) /\ Is(f \in MakeSet(x)) = MakeW(f, x)
         /\ Is(f \in DownSet(x)) = DownW(f, x) /\ Is(f \in LeaveSet(x)) = LeaveW(f, x)
         /\ PutW(f, x) \in Nat /\ MakeW(f, x) \in Nat /\ DownW(f, x) \in Nat /\ LeaveW(f, x) \in Nat
  <1>1. f \in PutSet(x) <=> f.op = "put" /\ f.o = x
    BY DEF PutSet, Solid
  <1>2. f \in MakeSet(x) <=> \/ f.op \in {"addlistener", "getlistener", "return"} /\ f.o = x
                             \/ f.op = "acceptq_add" /\ f.p = x
    BY DEF MakeSet, Solid
  <1>3. f \in DownSet(x) <=> f.op \in {"rmlistener", "drain", "putself"} /\ f.o = x
    BY DEF DownSet, Solid
  <1>4. f \in LeaveSet(x) <=> f.op = "putpeer" /\ f.o = x
    BY DEF LeaveSet, Solid
  <1>5. QED BY <1>1, <1>2, <1>3, <1>4 DEF Is, PutW, MakeW, DownW, LeaveW

\* What a short sequence adds to the counts of x.
LEMMA ShortW ==
  ASSUME NEW a \in Frame, NEW b \in Frame, NEW c \in Frame, NEW d \in Frame, NEW x \in Socks
  PROVE  /\ /\ Num(<<>>, PutSet(x)) = 0 /\ Num(<<>>, MakeSet(x)) = 0
            /\ Num(<<>>, DownSet(x)) = 0 /\ Num(<<>>, LeaveSet(x)) = 0
         /\ /\ Num(<<a>>, PutSet(x)) = PutW(a, x) /\ Num(<<a>>, MakeSet(x)) = MakeW(a, x)
            /\ Num(<<a>>, DownSet(x)) = DownW(a, x) /\ Num(<<a>>, LeaveSet(x)) = LeaveW(a, x)
         /\ /\ Num(<<a, b>>, PutSet(x)) = PutW(a, x) + PutW(b, x)
            /\ Num(<<a, b>>, MakeSet(x)) = MakeW(a, x) + MakeW(b, x)
            /\ Num(<<a, b>>, DownSet(x)) = DownW(a, x) + DownW(b, x)
            /\ Num(<<a, b>>, LeaveSet(x)) = LeaveW(a, x) + LeaveW(b, x)
         /\ /\ Num(<<a, b, c>>, PutSet(x)) = PutW(a, x) + PutW(b, x) + PutW(c, x)
            /\ Num(<<a, b, c>>, MakeSet(x)) = MakeW(a, x) + MakeW(b, x) + MakeW(c, x)
            /\ Num(<<a, b, c>>, DownSet(x)) = DownW(a, x) + DownW(b, x) + DownW(c, x)
            /\ Num(<<a, b, c>>, LeaveSet(x)) = LeaveW(a, x) + LeaveW(b, x) + LeaveW(c, x)
         /\ /\ Num(<<a, b, c, d>>, PutSet(x)) = PutW(a, x) + PutW(b, x) + PutW(c, x) + PutW(d, x)
            /\ Num(<<a, b, c, d>>, MakeSet(x)) = MakeW(a, x) + MakeW(b, x) + MakeW(c, x) + MakeW(d, x)
            /\ Num(<<a, b, c, d>>, DownSet(x)) = DownW(a, x) + DownW(b, x) + DownW(c, x) + DownW(d, x)
            /\ Num(<<a, b, c, d>>, LeaveSet(x)) = LeaveW(a, x) + LeaveW(b, x) + LeaveW(c, x) + LeaveW(d, x)
  <1>1. ASSUME NEW S
        PROVE  /\ Num(<<>>, S) = 0 /\ Num(<<a>>, S) = Is(a \in S)
               /\ Num(<<a, b>>, S) = Is(a \in S) + Is(b \in S)
               /\ Num(<<a, b, c>>, S) = Is(a \in S) + Is(b \in S) + Is(c \in S)
               /\ Num(<<a, b, c, d>>, S) = Is(a \in S) + Is(b \in S) + Is(c \in S) + Is(d \in S)
    BY NumShort
  <1>2. ASSUME NEW f \in Frame
        PROVE  /\ Is(f \in PutSet(x)) = PutW(f, x) /\ Is(f \in MakeSet(x)) = MakeW(f, x)
               /\ Is(f \in DownSet(x)) = DownW(f, x) /\ Is(f \in LeaveSet(x)) = LeaveW(f, x)
    BY Weights
  <1>3. QED BY <1>1, <1>2, Zenon

LEMMA OneW ==
  ASSUME NEW a \in Frame, NEW x \in Socks
  PROVE  /\ Num(<<a>>, PutSet(x)) = PutW(a, x) /\ Num(<<a>>, MakeSet(x)) = MakeW(a, x)
         /\ Num(<<a>>, DownSet(x)) = DownW(a, x) /\ Num(<<a>>, LeaveSet(x)) = LeaveW(a, x)
  BY ZenonT(60), ShortW

LEMMA TwoW ==
  ASSUME NEW a \in Frame, NEW b \in Frame, NEW x \in Socks
  PROVE  /\ Num(<<a, b>>, PutSet(x)) = PutW(a, x) + PutW(b, x)
         /\ Num(<<a, b>>, MakeSet(x)) = MakeW(a, x) + MakeW(b, x)
         /\ Num(<<a, b>>, DownSet(x)) = DownW(a, x) + DownW(b, x)
         /\ Num(<<a, b>>, LeaveSet(x)) = LeaveW(a, x) + LeaveW(b, x)
  <1>1. ASSUME NEW S PROVE Num(<<a, b>>, S) = Is(a \in S) + Is(b \in S)
    <2>1. /\ Num(<<>>, S) = 0 /\ Num(<<a>>, S) = Is(a \in S)
          /\ Num(<<a, b>>, S) = Is(a \in S) + Is(b \in S)
          /\ Num(<<a, b, a>>, S) = Is(a \in S) + Is(b \in S) + Is(a \in S)
          /\ Num(<<a, b, a, b>>, S) = Is(a \in S) + Is(b \in S) + Is(a \in S) + Is(b \in S)
      BY NumShort
    <2>2. QED BY <2>1
  <1>2. ASSUME NEW f \in Frame
        PROVE  /\ Is(f \in PutSet(x)) = PutW(f, x) /\ Is(f \in MakeSet(x)) = MakeW(f, x)
               /\ Is(f \in DownSet(x)) = DownW(f, x) /\ Is(f \in LeaveSet(x)) = LeaveW(f, x)
    BY Weights
  <1>3. QED BY <1>1, <1>2, Zenon

LEMMA ThreeW ==
  ASSUME NEW a \in Frame, NEW b \in Frame, NEW c \in Frame, NEW x \in Socks
  PROVE  /\ Num(<<a, b, c>>, PutSet(x)) = PutW(a, x) + PutW(b, x) + PutW(c, x)
         /\ Num(<<a, b, c>>, MakeSet(x)) = MakeW(a, x) + MakeW(b, x) + MakeW(c, x)
         /\ Num(<<a, b, c>>, DownSet(x)) = DownW(a, x) + DownW(b, x) + DownW(c, x)
         /\ Num(<<a, b, c>>, LeaveSet(x)) = LeaveW(a, x) + LeaveW(b, x) + LeaveW(c, x)
  <1>1. ASSUME NEW S PROVE Num(<<a, b, c>>, S) = Is(a \in S) + Is(b \in S) + Is(c \in S)
    <2>1. /\ Num(<<>>, S) = 0 /\ Num(<<a>>, S) = Is(a \in S)
          /\ Num(<<a, b>>, S) = Is(a \in S) + Is(b \in S)
          /\ Num(<<a, b, c>>, S) = Is(a \in S) + Is(b \in S) + Is(c \in S)
          /\ Num(<<a, b, c, a>>, S) = Is(a \in S) + Is(b \in S) + Is(c \in S) + Is(a \in S)
      BY NumShort
    <2>2. QED BY <2>1
  <1>2. ASSUME NEW f \in Frame
        PROVE  /\ Is(f \in PutSet(x)) = PutW(f, x) /\ Is(f \in MakeSet(x)) = MakeW(f, x)
               /\ Is(f \in DownSet(x)) = DownW(f, x) /\ Is(f \in LeaveSet(x)) = LeaveW(f, x)
    BY Weights
  <1>3. QED BY <1>1, <1>2, Zenon

LEMMA StackEffect ==
  ASSUME TypeInv, NEW t \in Threads, NEW q \in Seq(Frame), Turns(t, q), NEW x \in Socks
  PROVE  /\ Puts(x)' + Num(th[t], PutSet(x)) = Puts(x) + Num(q, PutSet(x))
         /\ Makes(x)' + Num(th[t], MakeSet(x)) = Makes(x) + Num(q, MakeSet(x))
         /\ Downs(x)' + Num(th[t], DownSet(x)) = Downs(x) + Num(q, DownSet(x))
         /\ Leaves(x)' + Num(th[t], LeaveSet(x)) = Leaves(x) + Num(q, LeaveSet(x))
         /\ Puts(x)' \in Nat /\ Makes(x)' \in Nat /\ Downs(x)' \in Nat /\ Leaves(x)' \in Nat
         /\ Puts(x) \in Nat /\ Makes(x) \in Nat /\ Downs(x) \in Nat /\ Leaves(x) \in Nat
  <1>1. /\ PutSet(x) \in SUBSET Solid /\ MakeSet(x) \in SUBSET Solid
        /\ DownSet(x) \in SUBSET Solid /\ LeaveSet(x) \in SUBSET Solid
    BY DEF PutSet, MakeSet, DownSet, LeaveSet
  <1>2. ASSUME NEW S \in SUBSET Solid
        PROVE  /\ Count(th', S) + Num(th[t], S) = Count(th, S) + Num(q, S)
               /\ Count(th, S) \in Nat /\ Count(th', S) \in Nat
    BY TurnsCount
  <1>3. QED BY <1>1, <1>2 DEF Puts, Makes, Downs, Leaves

LEMMA GoEffect ==
  ASSUME TypeInv, NEW t \in Threads, th[t] # <<>>, NEW fs \in Seq(Frame),
         Turns(t, fs \o Tail(th[t])), NEW x \in Socks
  PROVE  /\ Puts(x)' + PutW(Head(th[t]), x) = Puts(x) + Num(fs, PutSet(x))
         /\ Makes(x)' + MakeW(Head(th[t]), x) = Makes(x) + Num(fs, MakeSet(x))
         /\ Downs(x)' + DownW(Head(th[t]), x) = Downs(x) + Num(fs, DownSet(x))
         /\ Leaves(x)' + LeaveW(Head(th[t]), x) = Leaves(x) + Num(fs, LeaveSet(x))
         /\ Puts(x)' \in Nat /\ Makes(x)' \in Nat /\ Downs(x)' \in Nat /\ Leaves(x)' \in Nat
         /\ Puts(x) \in Nat /\ Makes(x) \in Nat /\ Downs(x) \in Nat /\ Leaves(x) \in Nat
  <1>1. /\ PutSet(x) \in SUBSET Solid /\ MakeSet(x) \in SUBSET Solid
        /\ DownSet(x) \in SUBSET Solid /\ LeaveSet(x) \in SUBSET Solid
    BY DEF PutSet, MakeSet, DownSet, LeaveSet
  <1>2. ASSUME NEW S \in SUBSET Solid
        PROVE  /\ Count(th', S) + Is(Head(th[t]) \in S) = Count(th, S) + Num(fs, S)
               /\ Count(th, S) \in Nat /\ Count(th', S) \in Nat
    BY GoesCount
  <1>3. Head(th[t]) \in Frame
    BY InHand
  <1>4. QED BY <1>1, <1>2, <1>3, Weights DEF Puts, Makes, Downs, Leaves

\* The queues.
LEMMA WaitsAdd ==
  ASSUME TypeInv, NEW l \in Socks, NEW n \in Socks, accq' = [accq EXCEPT ![l] = Append(@, n)], NEW x \in Socks
  PROVE  Waits(x)' = Waits(x) + Is(n = x) /\ Waits(x) \in Nat /\ Waits(x)' \in Nat
  <1>1. PICK G, H, S : G = accq /\ H = accq' /\ S = {x}
    OBVIOUS
  <1>2. Family(G, Socks, Socks) /\ Family(H, Socks, Socks) /\ G[l] \in Seq(Socks)
    BY <1>1, InprocAssumption DEF TypeInv, Family
  <1>3. H[l] = Append(G[l], n)
    BY <1>1 DEF TypeInv
  <1>4. /\ Count(G, S) \in Nat /\ Count(H, S) \in Nat
        /\ Num(G[l], S) \in Nat /\ Num(H[l], S) \in Nat
        /\ Count(H, S) + Num(G[l], S) = Count(G, S) + Num(H[l], S)
    <2>1. \A u \in Socks : u # l => Hits(H[u], S) = Hits(G[u], S)
      BY <1>1 DEF TypeInv
    <2>2. QED BY <1>2, <2>1, CountMove
  <1>5. Num(H[l], S) = Num(G[l], S) + Is(n \in S)
    BY <1>2, <1>3, NumAppend
  <1>6. Is(n \in S) = Is(n = x) /\ Is(n = x) \in Nat
    BY <1>1 DEF Is
  <1>7. Count(H, S) = Count(G, S) + Is(n = x)
    BY <1>4, <1>5, <1>6
  <1>8. QED BY <1>1, <1>4, <1>7 DEF Waits

LEMMA WaitsRm ==
  ASSUME TypeInv, NEW l \in Socks, accq[l] # <<>>, accq' = [accq EXCEPT ![l] = Tail(@)], NEW x \in Socks
  PROVE  Waits(x)' + Is(Head(accq[l]) = x) = Waits(x) /\ Waits(x) \in Nat /\ Waits(x)' \in Nat
  <1>1. PICK G, H, S : G = accq /\ H = accq' /\ S = {x}
    OBVIOUS
  <1>2. Family(G, Socks, Socks) /\ Family(H, Socks, Socks) /\ G[l] \in Seq(Socks) /\ G[l] # <<>>
    BY <1>1, InprocAssumption DEF TypeInv, Family
  <1>3. H[l] = Tail(G[l])
    BY <1>1 DEF TypeInv
  <1>4. /\ Count(G, S) \in Nat /\ Count(H, S) \in Nat
        /\ Num(G[l], S) \in Nat /\ Num(H[l], S) \in Nat
        /\ Count(H, S) + Num(G[l], S) = Count(G, S) + Num(H[l], S)
    <2>1. \A u \in Socks : u # l => Hits(H[u], S) = Hits(G[u], S)
      BY <1>1 DEF TypeInv
    <2>2. QED BY <1>2, <2>1, CountMove
  <1>5. Num(G[l], S) = Is(Head(G[l]) \in S) + Num(H[l], S)
    BY <1>2, <1>3, NumTail
  <1>6. Is(Head(G[l]) \in S) = Is(Head(G[l]) = x) /\ Is(Head(G[l]) = x) \in Nat
    BY <1>1 DEF Is
  <1>7. Count(H, S) + Is(Head(G[l]) = x) = Count(G, S)
    BY <1>4, <1>5, <1>6
  <1>8. QED BY <1>1, <1>4, <1>7 DEF Waits

LEMMA WaitsKeep ==
  ASSUME TypeInv, accq' = accq, NEW x \in Socks
  PROVE  Waits(x)' = Waits(x) /\ Waits(x) \in Nat
  <1>1. Waits(x) \in Nat
    BY Tallies
  <1>2. QED BY <1>1 DEF Waits

----------------------------------------------------------------------------
(* Steps put on a stack.                                                    *)

LEMMA DoFrame ==
  ASSUME NEW o \in Socks
  PROVE  /\ \A op \in {"addlistener", "getlistener", "accept", "asleep", "send", "recv", "rsleep",
                       "epipe", "put", "rmlistener", "drain", "wakepeer", "putpeer", "putself",
                       "return"} :
              Do(op, o) \in Frame /\ Do(op, o).op = op /\ Do(op, o).o = o /\ Do(op, o).p = None
         /\ \A op \in {"pair", "acceptq_add"} : \A p \in Socks :
              LET f == [op |-> op, o |-> o, p |-> p]
              IN  f \in Frame /\ f.op = op /\ f.o = o /\ f.p = p
  BY DEF Do, Frame

\* The first of the steps that come later.
LEMMA RestHead ==
  ASSUME NEW r \in Seq(Frame), Rest(r), r # <<>>
  PROVE  Head(r) \in Frame /\ Head(r).op \in Later /\ Head(r).p = None
  <1>1. 1 \in DOMAIN r /\ Head(r) = r[1] /\ Head(r) \in Frame
    OBVIOUS
  <1>2. QED BY <1>1 DEF Rest

LEMMA SameSeq ==
  ASSUME NEW F, NEW c \in Seq(F), NEW d \in Seq(F), Len(c) = Len(d),
         \A i \in 1..Len(c) : c[i] = d[i]
  PROVE  c = d
  <1>1. /\ DOMAIN c = 1..Len(c) /\ DOMAIN d = 1..Len(c)
        /\ c = [i \in DOMAIN c |-> c[i]] /\ d = [i \in DOMAIN d |-> d[i]]
    OBVIOUS
  <1>2. QED BY <1>1

LEMMA Assoc ==
  ASSUME NEW F, NEW p \in Seq(F), NEW q \in Seq(F), NEW r \in Seq(F)
  PROVE  (p \o q) \o r = p \o (q \o r)
  <1>1. p \o q \in Seq(F) /\ q \o r \in Seq(F)
    OBVIOUS
  <1>2. PICK a \in Seq(F), b \in Seq(F) : a = p \o q /\ b = q \o r
    BY <1>1
  <1>3. a \o r \in Seq(F) /\ p \o b \in Seq(F)
    OBVIOUS
  <1>4. PICK c \in Seq(F), d \in Seq(F) : c = a \o r /\ d = p \o b
    BY <1>3
  <1>5. Len(c) = Len(d) /\ Len(c) = Len(p) + Len(q) + Len(r)
        /\ Len(a) = Len(p) + Len(q) /\ Len(b) = Len(q) + Len(r)
        /\ Len(p) \in Nat /\ Len(q) \in Nat /\ Len(r) \in Nat
    BY <1>2, <1>4
  <1>6. ASSUME NEW i \in 1..Len(c) PROVE c[i] = d[i]
    <2>1. CASE i <= Len(p)
      <3>1. i \in 1..Len(a) /\ i \in 1..Len(p)
        BY <1>5, <2>1
      <3>2. c[i] = a[i] /\ a[i] = p[i] /\ d[i] = p[i]
        BY <1>2, <1>4, <3>1
      <3>3. QED BY <3>2
    <2>2. CASE i > Len(p) /\ i <= Len(p) + Len(q)
      <3>1. /\ i \in 1..Len(a) /\ i - Len(p) \in 1..Len(q) /\ i - Len(p) \in 1..Len(b) /\ ~(i <= Len(p))
            /\ i \in 1..(Len(p) + Len(b)) /\ i \in 1..(Len(p) + Len(q)) /\ i \in 1..(Len(a) + Len(r))
        BY <1>5, <2>2
      <3>2. c[i] = a[i]
        BY <1>4, <3>1
      <3>3. a[i] = q[i - Len(p)]
        BY <1>2, <3>1
      <3>4. d[i] = b[i - Len(p)]
        BY <1>4, <3>1
      <3>5. b[i - Len(p)] = q[i - Len(p)]
        BY <1>2, <3>1
      <3>6. QED BY <3>2, <3>3, <3>4, <3>5
    <2>3. CASE i > Len(p) + Len(q)
      <3>1. /\ i - Len(a) \in 1..Len(r) /\ i - Len(p) \in 1..Len(b) /\ (i - Len(p)) - Len(q) \in 1..Len(r)
            /\ (i - Len(p)) - Len(q) = i - Len(a)
            /\ ~(i <= Len(p)) /\ ~(i <= Len(a)) /\ ~(i - Len(p) <= Len(q))
        BY SMTT(60), <1>5, <2>3
      <3>2. c[i] = r[i - Len(a)]
        BY SMTT(60), <1>4, <1>5, <3>1
      <3>3. d[i] = b[i - Len(p)]
        BY <1>4, <1>5, <3>1
      <3>4. b[i - Len(p)] = r[(i - Len(p)) - Len(q)]
        BY <1>2, <1>5, <3>1
      <3>5. QED BY <3>1, <3>2, <3>3, <3>4
    <2>4. QED BY <1>5, <2>1, <2>2, <2>3
  <1>7. c = d
    <2>1. Len(c) = Len(d) /\ \A i \in 1..Len(c) : c[i] = d[i]
      BY <1>5, <1>6
    <2>2. QED BY <2>1, SameSeq
  <1>8. QED BY <1>2, <1>4, <1>7

\* One step, and three, before those that come later.
LEMMA PushOne ==
  ASSUME NEW r \in Seq(Frame), Rest(r), NEW a \in Frame, First(a, r)
  PROVE  Stack(<<a>> \o r) /\ <<a>> \o r \in Seq(Frame)
  <1>1. <<a>> \in Seq(Frame)
    OBVIOUS
  <1>2. QED BY <1>1, StackPush

LEMMA PushThree ==
  ASSUME NEW r \in Seq(Frame), Rest(r), NEW a \in Frame, NEW b \in Frame, NEW c \in Frame,
         c.op \in {"put", "drain", "putself"}, c.p = None, b.op \in {"put", "putpeer"}, b.p = None,
         b.op = "putpeer" => c = Do("putself", b.o),
         a.op \in {"epipe", "wakepeer"}, a.p = None,
         b = IF a.op = "epipe" THEN Do("put", a.o) ELSE Do("putpeer", a.o)
  PROVE  Stack(<<a, b, c>> \o r) /\ <<a, b, c>> \o r \in Seq(Frame)
  <1>1. Follows(c, r) /\ c.op \in Later
    BY DEF Follows, Later
  <1>2. PICK q \in Seq(Frame) : q = <<c>> \o r /\ Rest(q) /\ q # <<>> /\ Head(q) = c
    <2>1. <<c>> \o r \in Seq(Frame) /\ Rest(<<c>> \o r)
      BY <1>1, RestPush
    <2>2. <<c>> \o r # <<>> /\ Head(<<c>> \o r) = c
      OBVIOUS
    <2>3. QED BY <2>1, <2>2
  <1>3. Follows(b, q) /\ b.op \in Later
    BY <1>2 DEF Follows, Later
  <1>4. PICK s \in Seq(Frame) : s = <<b>> \o q /\ Rest(s) /\ s # <<>> /\ Head(s) = b
    <2>1. <<b>> \o q \in Seq(Frame) /\ Rest(<<b>> \o q)
      BY <1>2, <1>3, RestPush
    <2>2. <<b>> \o q # <<>> /\ Head(<<b>> \o q) = b
      OBVIOUS
    <2>3. QED BY <2>1, <2>2
  <1>5. First(a, s)
    BY <1>4 DEF First, Follows
  <1>6. Stack(<<a>> \o s) /\ <<a>> \o s \in Seq(Frame)
    BY <1>4, <1>5, PushOne
  <1>7. <<a, b, c>> \o r = <<a>> \o s
    <2>1. <<a>> \in Seq(Frame) /\ <<b>> \in Seq(Frame) /\ <<c>> \in Seq(Frame) /\ <<b, c>> \in Seq(Frame)
      OBVIOUS
    <2>2. <<a, b, c>> = <<a>> \o <<b, c>> /\ <<b, c>> = <<b>> \o <<c>>
      BY JoinTwo, JoinThree
    <2>3. (<<b>> \o <<c>>) \o r = <<b>> \o (<<c>> \o r)
      BY <2>1, Assoc
    <2>4. (<<a>> \o <<b, c>>) \o r = <<a>> \o (<<b, c>> \o r)
      BY <2>1, Assoc
    <2>5. QED BY <1>2, <1>4, <2>2, <2>3, <2>4
  <1>8. QED BY <1>6, <1>7

\* What a thread at a step has to do after it.
LEMMA Rests ==
  ASSUME TypeInv, ShapeInv, NEW t \in Threads, th[t] # <<>>
  PROVE  /\ Head(th[t]) \in Frame /\ Tail(th[t]) \in Seq(Frame)
         /\ Rest(Tail(th[t])) /\ First(Head(th[t]), Tail(th[t])) /\ Stack(Tail(th[t]))
         /\ Head(th[t]) \in Held /\ Sock(t) \in Socks /\ Sock(t) = Head(th[t]).o
  <1>1. Head(th[t]) \in Frame /\ Tail(th[t]) \in Seq(Frame) /\ Head(th[t]) \in Held
        /\ Sock(t) \in Socks /\ Sock(t) = Head(th[t]).o
    BY InHand
  <1>2. Rest(Tail(th[t])) /\ First(Head(th[t]), Tail(th[t]))
    BY DEF ShapeInv, Stack
  <1>3. QED BY <1>1, <1>2, StackPop

LEMMA Nothing ==
  ASSUME NEW r \in Seq(Frame)
  PROVE  <<>> \o r = r /\ r \o <<>> = r /\ <<>> \in Seq(Frame)
  OBVIOUS

----------------------------------------------------------------------------
(* What most steps keep.                                                    *)

\* Sleepers that are not woken are still right to sleep.
LEMMA GoSleep ==
  ASSUME TypeInv, ShapeInv, NEW t \in Threads, NEW q \in Seq(Frame), Turns(t, q),
         q # <<>> => /\ Head(q).op = "asleep" => accq'[Head(q).o] = <<>>
                     /\ Head(q).op = "rsleep" => rcv'[Head(q).o] = 0 /\ ~epipe'[Head(q).o],
         \A u \in Threads : u # t /\ th'[u] = th[u] =>
            /\ At(u, "asleep") => accq'[Sock(u)] = <<>>
            /\ At(u, "rsleep") => rcv'[Sock(u)] = 0 /\ ~epipe'[Sock(u)]
  PROVE  SleepJustified'
  <1>1. SUFFICES ASSUME NEW u \in Threads
                 PROVE  /\ th'[u] # <<>> /\ Head(th'[u]).op = "asleep" => accq'[Head(th'[u]).o] = <<>>
                        /\ th'[u] # <<>> /\ Head(th'[u]).op = "rsleep"
                             => rcv'[Head(th'[u]).o] = 0 /\ ~epipe'[Head(th'[u]).o]
    BY DEF SleepJustified, At, Sock
  <1>2. CASE u = t
    BY <1>2 DEF Turns
  <1>3. CASE u # t /\ th'[u] = th[u]
    BY <1>3 DEF At, Sock
  <1>4. CASE Woken(u)
    <2>1. Head(th'[u]) = Awake(th[u][1]) /\ th[u][1] \in Frame /\ th[u][1].op \in {"asleep", "rsleep"}
      BY <1>4, WokenIs
    <2>2. Head(th'[u]).op \in {"accept", "recv"}
      BY <2>1, AwakeIs
    <2>3. QED BY <2>2
  <1>5. QED BY <1>2, <1>3, <1>4 DEF Turns

\* What is in hand when the thread's first step is replaced by fs.
LEMMA GoHand ==
  ASSUME TypeInv, NEW t \in Threads, th[t] # <<>>, NEW fs \in Seq(Frame)
  PROVE  \A i \in DOMAIN (fs \o Tail(th[t])) :
           \/ (fs \o Tail(th[t]))[i] \in Held
           \/ \E j \in DOMAIN fs : (fs \o Tail(th[t]))[i] = fs[j]
  <1>1. PICK r \in Seq(Frame) : r = Tail(th[t]) /\ \A i \in DOMAIN r : r[i] \in Held
    BY InHand
  <1>2. SUFFICES ASSUME NEW i \in DOMAIN (fs \o r)
                 PROVE  (fs \o r)[i] \in Held \/ \E j \in DOMAIN fs : (fs \o r)[i] = fs[j]
    BY <1>1
  <1>3. i \in 1..(Len(fs) + Len(r)) /\ Len(fs) \in Nat /\ Len(r) \in Nat
    BY <1>1
  <1>4. CASE i <= Len(fs)
    <2>1. i \in DOMAIN fs /\ (fs \o r)[i] = fs[i]
      BY <1>3, <1>4
    <2>2. QED BY <2>1
  <1>5. CASE i > Len(fs)
    <2>1. i - Len(fs) \in DOMAIN r /\ (fs \o r)[i] = r[i - Len(fs)]
      BY <1>3, <1>5
    <2>2. QED BY <1>1, <2>1
  <1>6. QED BY <1>3, <1>4, <1>5

\* A close that is due stays due, and what has lost its descriptor is to be closed.
LEMMA EpipeKept ==
  ASSUME TypeInv, EpipeInv, NEW t \in Threads, NEW q \in Seq(Frame), Turns(t, q),
         \A x \in live' : Base(x)' = 0 => (x \in live /\ Base(x) = 0) \/ \E i \in DOMAIN q : q[i] = Do("epipe", x),
         \A x \in live' \cap live : epipe[x] => epipe'[x],
         \A x \in live' : \A i \in DOMAIN th[t] : th[t][i] = Do("epipe", x) =>
            epipe'[x] \/ \E j \in DOMAIN q : q[j] = Do("epipe", x)
  PROVE  EpipeInv'
  <1>1. SUFFICES ASSUME NEW x \in live', Base(x)' = 0
                 PROVE  epipe'[x] \/ Do("epipe", x) \in Held'
    BY DEF EpipeInv, Do
  <1>2. \A i \in DOMAIN q : q[i] \in Held'
    BY HeldIs DEF Turns
  <1>3. CASE x \in live /\ Base(x) = 0
    <2>1. CASE epipe[x]
      BY <1>3, <2>1
    <2>2. CASE Do("epipe", x) \in Held
      <3>1. PICK u \in Threads : \E i \in DOMAIN th[u] : Do("epipe", x) = th[u][i]
        BY <2>2, HeldIs
      <3>2. PICK i \in DOMAIN th[u] : Do("epipe", x) = th[u][i]
        BY <3>1
      <3>3. CASE u = t
        BY <1>2, <3>2, <3>3
      <3>4. CASE u # t /\ th'[u] = th[u]
        BY <3>2, <3>4, HeldIs
      <3>5. CASE Woken(u)
        <4>1. i # 1
          BY <3>2, <3>5, WokenIs DEF Do
        <4>2. i \in DOMAIN th'[u] /\ th'[u][i] = th[u][i]
          BY <3>2, <3>5, <4>1, WokenIs
        <4>3. QED BY <3>2, <4>2, HeldIs
      <3>6. QED BY <3>3, <3>4, <3>5 DEF Turns
    <2>3. QED BY <1>3, <2>1, <2>2 DEF EpipeInv
  <1>4. CASE \E i \in DOMAIN q : q[i] = Do("epipe", x)
    BY <1>2, <1>4
  <1>5. QED BY <1>1, <1>3, <1>4

LEMMA EpipeGo ==
  ASSUME TypeInv, EpipeInv, NEW t \in Threads, th[t] # <<>>, NEW fs \in Seq(Frame),
         Turns(t, fs \o Tail(th[t])), fs \o Tail(th[t]) \in Seq(Frame),
         \A x \in live' : Base(x)' = 0 => (x \in live /\ Base(x) = 0) \/ \E i \in DOMAIN fs : fs[i] = Do("epipe", x),
         \A x \in live' \cap live : epipe[x] => epipe'[x],
         Head(th[t]).op = "epipe" => epipe'[Sock(t)]
  PROVE  EpipeInv'
  <1>1. PICK r \in Seq(Frame) : r = Tail(th[t]) /\ th[t] \in Seq(Frame) /\ th[t] = <<Head(th[t])>> \o r /\ Sock(t) = Head(th[t]).o
    BY InHand
  <1>2. PICK q \in Seq(Frame) : q = fs \o r
    BY <1>1
  <1>3. /\ \A i \in DOMAIN fs : i \in DOMAIN q /\ q[i] = fs[i]
        /\ \A i \in DOMAIN r : Len(fs) + i \in DOMAIN q /\ q[Len(fs) + i] = r[i]
    BY <1>2
  <1>4. ASSUME NEW x \in live', NEW i \in DOMAIN th[t], th[t][i] = Do("epipe", x)
        PROVE  epipe'[x] \/ \E j \in DOMAIN q : q[j] = Do("epipe", x)
    <2>1. CASE i = 1
      <3>1. Head(th[t]) = Do("epipe", x)
        BY <1>1, <1>4, <2>1
      <3>2. QED BY <1>1, <3>1 DEF Do
    <2>2. CASE i # 1
      <3>1. i - 1 \in DOMAIN r /\ r[i - 1] = th[t][i]
        BY <1>1, <2>2
      <3>2. QED BY <1>3, <1>4, <3>1
    <2>3. QED BY <2>1, <2>2
  <1>5. \A x \in live' : Base(x)' = 0 => (x \in live /\ Base(x) = 0) \/ \E i \in DOMAIN q : q[i] = Do("epipe", x)
    BY <1>3
  <1>6. Turns(t, q)
    BY <1>1, <1>2
  <1>7. QED BY <1>4, <1>5, <1>6, EpipeKept

\* The invariant holds after a step that creates, frees, connects and tears down nothing.
LEMMA Quiet ==
  ASSUME IInv, TypeInv', NEW t \in Threads, NEW q \in Seq(Frame), Turns(t, q), Stack(q),
         UNCHANGED <<live, kind, iref, peer>>,
         map' = map \/ map' = None \/ (map' \in live /\ kind[map'] = "listener" /\ sref[map'] > 0),
         \A i \in DOMAIN q : q[i] \in Held \/ FrameOK(q[i])',
         \A x \in Socks : /\ Puts(x)' \in Nat /\ Base(x)' \in Nat /\ Base(x)' <= Base(x)
                          /\ sref'[x] + Puts(x) + Base(x) = sref[x] + Puts(x)' + Base(x)'
                          /\ sref'[x] > 0 <=> sref[x] > 0
                          /\ Downs(x)' = Downs(x) /\ Leaves(x)' = Leaves(x),
         \A l \in Socks : /\ accq'[l] # <<>> => l \in live /\ kind[l] = "listener"
                          /\ \A i \in DOMAIN accq'[l] : kind[accq'[l][i]] = "connector",
         EpipeInv', SleepJustified', ListenerVisible'
  PROVE  IInv'
  <1>0. /\ TypeInv /\ ShapeInv /\ RefInv /\ LifeInv /\ MemInv /\ PeerInv /\ HandInv /\ QueueInv /\ MapInv
        /\ live' = live /\ kind' = kind /\ iref' = iref /\ peer' = peer
    BY DEF IInv
  <1>1. ShapeInv'
    BY <1>0, TurnsShape
  <1>2. \A x \in Socks : sref[x] \in Nat /\ sref'[x] \in Nat /\ Pointers(x)' = Pointers(x)
    BY <1>0 DEF TypeInv, Pointers
  <1>3. RefInv'
    <2> SUFFICES ASSUME NEW x \in Socks PROVE sref'[x] = Puts(x)' + Base(x)' /\ Base(x)' <= 1
      BY DEF RefInv
    <2>1. sref[x] = Puts(x) + Base(x) /\ Base(x) <= 1 /\ Puts(x) \in Nat /\ Base(x) \in Nat
      BY <1>0, Tallies DEF RefInv
    <2>2. /\ Puts(x)' \in Nat /\ Base(x)' \in Nat /\ Base(x)' <= Base(x)
          /\ sref'[x] + Puts(x) + Base(x) = sref[x] + Puts(x)' + Base(x)'
      OBVIOUS
    <2>3. PICK a \in Nat, b \in Nat, c \in Nat, d \in Nat :
            a = Puts(x) /\ b = Base(x) /\ c = Puts(x)' /\ d = Base(x)'
      BY <2>1, <2>2
    <2>4. PICK e \in Nat, g \in Nat : e = sref[x] /\ g = sref'[x]
      BY <1>2
    <2>5. e = a + b /\ b <= 1 /\ d <= b /\ g + a + b = e + c + d
      BY <2>1, <2>2, <2>3, <2>4
    <2>6. g = c + d /\ d <= 1
      BY <2>5
    <2>7. QED BY <2>3, <2>4, <2>6
  <1>4. LifeInv'
    <2> SUFFICES ASSUME NEW x \in Socks
                 PROVE  /\ x \in live' <=> sref'[x] > 0 \/ Downs(x)' > 0 \/ Pointers(x)' # {}
                        /\ Downs(x)' <= 1
                        /\ Downs(x)' > 0 => sref'[x] = 0
      BY DEF LifeInv
    <2>1. /\ x \in live <=> sref[x] > 0 \/ Downs(x) > 0 \/ Pointers(x) # {}
          /\ Downs(x) <= 1
          /\ Downs(x) > 0 => sref[x] = 0
      BY <1>0 DEF LifeInv
    <2>2. (sref'[x] > 0 <=> sref[x] > 0) /\ Downs(x)' = Downs(x)
      OBVIOUS
    <2>3. QED BY <1>0, <1>2, <2>1, <2>2
  <1>5. MemInv'
    <2> SUFFICES ASSUME NEW x \in live', kind'[x] = "connector"
                 PROVE  iref'[x] = Cardinality(Pointers(x)') + Is(sref'[x] > 0) + Downs(x)'
      BY DEF MemInv
    <2>1. x \in Socks /\ x \in live /\ kind[x] = "connector"
      BY <1>0 DEF TypeInv
    <2>2. iref[x] = Cardinality(Pointers(x)) + Is(sref[x] > 0) + Downs(x)
      BY <1>0, <2>1 DEF MemInv
    <2>3. Is(sref'[x] > 0) = Is(sref[x] > 0) /\ Downs(x)' = Downs(x)
      BY <2>1 DEF Is
    <2>4. QED BY <1>0, <1>2, <2>1, <2>2, <2>3
  <1>6. PeerInv'
    <2> SUFFICES ASSUME NEW x \in Socks
                 PROVE  /\ peer'[x] # None => kind'[x] = "connector" /\ kind'[peer'[x]] = "connector"
                        /\ Leaves(x)' = Is(peer'[x] # None /\ sref'[x] = 0)
      BY DEF PeerInv
    <2>1. /\ peer[x] # None => kind[x] = "connector" /\ kind[peer[x]] = "connector"
          /\ Leaves(x) = Is(peer[x] # None /\ sref[x] = 0)
      BY <1>0 DEF PeerInv
    <2>2. Is(peer'[x] # None /\ sref'[x] = 0) = Is(peer[x] # None /\ sref[x] = 0) /\ Leaves(x)' = Leaves(x)
      BY <1>0, <1>2 DEF Is
    <2>3. QED BY <1>0, <2>1, <2>2
  <1>7. ASSUME NEW f \in Held PROVE FrameOK(f)'
    <2>1. FrameOK(f) /\ f \in Frame
      BY <1>0, Due DEF HandInv
    <2>2. f.o \in Socks
      BY <2>1 DEF Frame
    <2>3. f.op = "drain" => map' # f.o
      <3>1. SUFFICES ASSUME f.op = "drain", map' = f.o PROVE FALSE
        OBVIOUS
      <3>2. Downs(f.o) > 0 /\ sref[f.o] = 0
        <4>1. f \in DownSet(f.o)
          BY <2>1, <3>1 DEF DownSet, Solid
        <4>2. QED BY <1>0, <2>2, <4>1, Tallies DEF LifeInv
      <3>3. map # f.o
        BY <2>1, <3>1 DEF FrameOK
      <3>4. f.o # None
        BY <2>2, InprocAssumption
      <3>5. QED BY <3>1, <3>2, <3>3, <3>4
    <2>4. QED BY <1>0, <1>2, <2>1, <2>2, <2>3 DEF FrameOK, FrameKind
  <1>8. HandInv'
    <2>1. PICK M : M = Held \cup {f \in Frame : FrameOK(f)'}
      OBVIOUS
    <2>2. \A i \in DOMAIN q : q[i] \in M
      BY <2>1
    <2>3. \A u \in Threads : u # t => \A i \in DOMAIN th[u] : th[u][i] \in M
      BY <2>1, HeldIs
    <2>4. \A f \in M : FrameOK(f)'
      BY <1>7, <2>1
    <2>5. QED BY <1>0, <2>2, <2>3, <2>4, HandStep
  <1>9. QueueInv'
    BY <1>0 DEF QueueInv
  <1>10. MapInv'
    BY <1>0 DEF MapInv
  <1>11. QED BY <1>1, <1>3, <1>4, <1>5, <1>6, <1>8, <1>9, <1>10 DEF IInv

\* The same, for a thread that goes on to fs, when the counts stay as they are.
LEMMA Still ==
  ASSUME IInv, TypeInv', NEW t \in Threads, th[t] # <<>>, NEW fs \in Seq(Frame),
         Turns(t, fs \o Tail(th[t])), Stack(fs \o Tail(th[t])),
         live' = live, kind' = kind, sref' = sref, iref' = iref, peer' = peer, open' = open,
         accq' = accq, map' = map \/ map' = None,
         \A i \in DOMAIN fs : FrameOK(fs[i])',
         \A x \in Socks : /\ Num(fs, PutSet(x)) = PutW(Head(th[t]), x)
                          /\ Num(fs, MakeSet(x)) = MakeW(Head(th[t]), x)
                          /\ Num(fs, DownSet(x)) = DownW(Head(th[t]), x)
                          /\ Num(fs, LeaveSet(x)) = LeaveW(Head(th[t]), x),
         \A x \in Socks : epipe[x] => epipe'[x], Head(th[t]).op = "epipe" => epipe'[Sock(t)],
         SleepJustified', ListenerVisible'
  PROVE  IInv'
  <1>0. /\ TypeInv /\ QueueInv /\ live' = live /\ kind' = kind /\ iref' = iref /\ peer' = peer
        /\ sref' = sref /\ open' = open /\ accq' = accq
    BY DEF IInv
  <1>1. PICK q \in Seq(Frame) : q = fs \o Tail(th[t])
    <2>1. Tail(th[t]) \in Seq(Frame)
      BY <1>0, InHand
    <2>2. fs \o Tail(th[t]) \in Seq(Frame)
      BY <2>1
    <2>3. QED BY <2>2
  <1>2. \A i \in DOMAIN q : q[i] \in Held \/ FrameOK(q[i])'
    <2>1. \A i \in DOMAIN (fs \o Tail(th[t])) :
            \/ (fs \o Tail(th[t]))[i] \in Held
            \/ \E j \in DOMAIN fs : (fs \o Tail(th[t]))[i] = fs[j]
      BY <1>0, GoHand
    <2>2. QED BY <1>1, <2>1
  <1>3. ASSUME NEW x \in Socks
        PROVE  /\ Puts(x)' \in Nat /\ Base(x)' \in Nat /\ Base(x)' <= Base(x)
               /\ sref'[x] + Puts(x) + Base(x) = sref[x] + Puts(x)' + Base(x)'
               /\ sref'[x] > 0 <=> sref[x] > 0
               /\ Downs(x)' = Downs(x) /\ Leaves(x)' = Leaves(x)
               /\ Base(x)' = Base(x)
    <2>1. Head(th[t]) \in Frame
      BY <1>0, InHand
    <2>2. /\ PutW(Head(th[t]), x) \in Nat /\ MakeW(Head(th[t]), x) \in Nat
          /\ DownW(Head(th[t]), x) \in Nat /\ LeaveW(Head(th[t]), x) \in Nat
      BY <2>1, Weights
    <2>3. /\ Puts(x)' = Puts(x) /\ Makes(x)' = Makes(x) /\ Downs(x)' = Downs(x) /\ Leaves(x)' = Leaves(x)
          /\ Puts(x)' \in Nat /\ Makes(x)' \in Nat
      <3>1. /\ Num(fs, PutSet(x)) = PutW(Head(th[t]), x) /\ Num(fs, MakeSet(x)) = MakeW(Head(th[t]), x)
            /\ Num(fs, DownSet(x)) = DownW(Head(th[t]), x) /\ Num(fs, LeaveSet(x)) = LeaveW(Head(th[t]), x)
        OBVIOUS
      <3>2. /\ Puts(x)' + PutW(Head(th[t]), x) = Puts(x) + Num(fs, PutSet(x))
            /\ Makes(x)' + MakeW(Head(th[t]), x) = Makes(x) + Num(fs, MakeSet(x))
            /\ Downs(x)' + DownW(Head(th[t]), x) = Downs(x) + Num(fs, DownSet(x))
            /\ Leaves(x)' + LeaveW(Head(th[t]), x) = Leaves(x) + Num(fs, LeaveSet(x))
            /\ Puts(x)' \in Nat /\ Makes(x)' \in Nat /\ Downs(x)' \in Nat /\ Leaves(x)' \in Nat
            /\ Puts(x) \in Nat /\ Makes(x) \in Nat /\ Downs(x) \in Nat /\ Leaves(x) \in Nat
        BY <1>0, GoEffect
      <3>3. Puts(x)' = Puts(x)
        <4>1. PICK a \in Nat, b \in Nat, w \in Nat : a = Puts(x)' /\ b = Puts(x) /\ w = PutW(Head(th[t]), x)
          BY <2>2, <3>2
        <4>2. a + w = b + w
          BY <3>1, <3>2, <4>1
        <4>3. QED BY <4>1, <4>2
      <3>4. Makes(x)' = Makes(x)
        <4>1. PICK a \in Nat, b \in Nat, w \in Nat : a = Makes(x)' /\ b = Makes(x) /\ w = MakeW(Head(th[t]), x)
          BY <2>2, <3>2
        <4>2. a + w = b + w
          BY <3>1, <3>2, <4>1
        <4>3. QED BY <4>1, <4>2
      <3>5. Downs(x)' = Downs(x)
        <4>1. PICK a \in Nat, b \in Nat, w \in Nat : a = Downs(x)' /\ b = Downs(x) /\ w = DownW(Head(th[t]), x)
          BY <2>2, <3>2
        <4>2. a + w = b + w
          BY <3>1, <3>2, <4>1
        <4>3. QED BY <4>1, <4>2
      <3>6. Leaves(x)' = Leaves(x)
        <4>1. PICK a \in Nat, b \in Nat, w \in Nat : a = Leaves(x)' /\ b = Leaves(x) /\ w = LeaveW(Head(th[t]), x)
          BY <2>2, <3>2
        <4>2. a + w = b + w
          BY <3>1, <3>2, <4>1
        <4>3. QED BY <4>1, <4>2
      <3>7. QED BY <3>2, <3>3, <3>4, <3>5, <3>6
    <2>4. Waits(x)' = Waits(x) /\ Waits(x) \in Nat
      BY <1>0, WaitsKeep
    <2>5. Base(x)' = Base(x) /\ Base(x) \in Nat
      <3>1. Base(x) \in Nat
        BY <1>0, Tallies
      <3>2. QED BY <1>0, <2>3, <2>4, <3>1 DEF Base
    <2>6. sref[x] \in Nat
      BY <1>0 DEF TypeInv
    <2>7. QED BY <1>0, <2>3, <2>5, <2>6
  <1>4. \A l \in Socks : /\ accq'[l] # <<>> => l \in live /\ kind[l] = "listener"
                         /\ \A i \in DOMAIN accq'[l] : kind[accq'[l][i]] = "connector"
    BY <1>0 DEF QueueInv
  <1>5. Turns(t, q) /\ Stack(q)
    BY <1>1
  <1>6. EpipeInv'
    <2>1. EpipeInv /\ live \subseteq Socks
      BY <1>0 DEF IInv, TypeInv
    <2>2. \A x \in live' : Base(x)' = 0 => (x \in live /\ Base(x) = 0) \/ \E i \in DOMAIN fs : fs[i] = Do("epipe", x)
      BY <1>0, <1>3, <2>1
    <2>3. \A x \in live' \cap live : epipe[x] => epipe'[x]
      BY <2>1
    <2>4. fs \o Tail(th[t]) \in Seq(Frame)
      BY <1>1
    <2>5. QED BY <1>0, <2>1, <2>2, <2>3, <2>4, EpipeGo
  <1>7. QED BY <1>0, <1>2, <1>3, <1>4, <1>5, <1>6, Quiet

\* No weight: the steps that stand for no reference.
LEMMA NoWeight ==
  ASSUME NEW f, f.op \in {"accept", "asleep", "send", "recv", "rsleep", "epipe", "wakepeer", "pair"},
         NEW x \in Socks
  PROVE  PutW(f, x) = 0 /\ MakeW(f, x) = 0 /\ DownW(f, x) = 0 /\ LeaveW(f, x) = 0
  BY DEF PutW, MakeW, DownW, LeaveW, Is

LEMMA ListenerKept ==
  ASSUME ListenerVisible, map' = map, foreign' = foreign, open' \subseteq open, kind' = kind
  PROVE  ListenerVisible'
  BY DEF ListenerVisible
----------------------------------------------------------------------------
(* The steps of the operations.                                             *)

LEMMA SendStep ==
  ASSUME IInv, NEW t \in Threads, inproc_send(t)
  PROVE  IInv'
  <1>0. TypeInv /\ ShapeInv /\ SleepJustified /\ ListenerVisible
    BY DEF IInv
  <1>1. /\ th[t] # <<>> /\ Head(th[t]).op = "send" /\ rcv[peer[Sock(t)]] < MaxRcv
        /\ rcv' = [rcv EXCEPT ![peer[Sock(t)]] = @ + 1]
        /\ Goes(t, <<>>, Sleepers("rsleep", peer[Sock(t)]))
        /\ map' = map /\ foreign' = foreign /\ live' = live /\ kind' = kind
        /\ sref' = sref /\ iref' = iref /\ peer' = peer /\ epipe' = epipe /\ accq' = accq /\ open' = open
    BY DEF inproc_send, At, mapVars, refVars
  <1>2. PICK fs \in Seq(Frame), W \in SUBSET Threads : fs = <<>> /\ W = Sleepers("rsleep", peer[Sock(t)]) /\ Goes(t, fs, W)
    <2>1. <<>> \in Seq(Frame)
      OBVIOUS
    <2>2. Sleepers("rsleep", peer[Sock(t)]) \in SUBSET Threads
      BY DEF Sleepers
    <2>3. QED BY <1>1, <2>1, <2>2
  <1>3. Asleep(W) /\ \A u \in Threads : u \in W <=> At(u, "rsleep") /\ Sock(u) = peer[Sock(t)]
    BY <1>2, Sleeping DEF Sleepers
  <1>4. /\ Rest(Tail(th[t])) /\ Tail(th[t]) \in Seq(Frame) /\ Stack(Tail(th[t]))
        /\ fs \o Tail(th[t]) = Tail(th[t])
    BY <1>0, <1>1, <1>2, Rests, Nothing
  <1>5. Turns(t, fs \o Tail(th[t])) /\ Wakes(t, W)
    BY <1>0, <1>1, <1>2, <1>3, <1>4, GoesTurns
  <1>6. TypeInv'
    <2>1. rcv' \in [Socks -> 0..MaxRcv]
      <3>1. CASE peer[Sock(t)] \in Socks
        <4>1. rcv[peer[Sock(t)]] \in 0..MaxRcv /\ MaxRcv \in Nat
          BY <1>0, <3>1, InprocAssumption DEF TypeInv
        <4>2. rcv[peer[Sock(t)]] + 1 \in 0..MaxRcv
          BY <1>1, <4>1
        <4>3. QED BY <1>0, <1>1, <4>2 DEF TypeInv
      <3>2. CASE peer[Sock(t)] \notin Socks
        BY <1>0, <1>1, <3>2 DEF TypeInv
      <3>3. QED BY <3>1, <3>2
    <2>2. th' \in [Threads -> Seq(Frame)]
      BY <1>5 DEF Turns
    <2>3. QED BY <1>0, <1>1, <2>1, <2>2 DEF TypeInv
  <1>7. SleepJustified'
    <2>1. Tail(th[t]) # <<>> => Head(Tail(th[t])).op \notin {"asleep", "rsleep"}
      BY <1>4, RestHead DEF Later
    <2>2. ASSUME NEW u \in Threads, u # t, th'[u] = th[u]
          PROVE  /\ At(u, "asleep") => accq'[Sock(u)] = <<>>
                 /\ At(u, "rsleep") => rcv'[Sock(u)] = 0 /\ ~epipe'[Sock(u)]
      <3>1. u \notin W
        BY <1>5, <2>2, WokenIs, AwakeIs, <1>0 DEF Wakes
      <3>2. At(u, "rsleep") => Sock(u) # peer[Sock(t)]
        BY <1>3, <3>1
      <3>3. At(u, "rsleep") => Sock(u) \in Socks
        BY <1>0, InHand DEF At
      <3>4. QED BY <1>0, <1>1, <3>2, <3>3 DEF SleepJustified, TypeInv
    <2>3. QED BY <1>0, <1>4, <1>5, <2>1, <2>2, GoSleep
  <1>8. ListenerVisible'
    BY <1>0, <1>1, ListenerKept
  <1>9. ASSUME NEW x \in Socks
        PROVE  /\ Num(fs, PutSet(x)) = PutW(Head(th[t]), x) /\ Num(fs, MakeSet(x)) = MakeW(Head(th[t]), x)
               /\ Num(fs, DownSet(x)) = DownW(Head(th[t]), x) /\ Num(fs, LeaveSet(x)) = LeaveW(Head(th[t]), x)
    BY <1>1, <1>2, NumEmpty, NoWeight
  <1>10. Stack(fs \o Tail(th[t]))
    BY <1>4
  <1>11. \A i \in DOMAIN fs : FrameOK(fs[i])'
    BY <1>2
  <1>12. \A x \in Socks : epipe[x] => epipe'[x]
    BY <1>1
  <1>13. QED BY <1>1, <1>5, <1>6, <1>7, <1>8, <1>9, <1>10, <1>11, <1>12, Still

\* A thread goes on to fs.
LEMMA GoOn ==
  ASSUME TypeInv, ShapeInv, NEW t \in Threads, th[t] # <<>>, NEW fs \in Seq(Frame), NEW W,
         Asleep(W), Goes(t, fs, W)
  PROVE  /\ Turns(t, fs \o Tail(th[t])) /\ Wakes(t, W) /\ fs \o Tail(th[t]) \in Seq(Frame)
         /\ th' \in [Threads -> Seq(Frame)]
         /\ fs = <<>> => /\ Stack(fs \o Tail(th[t]))
                         /\ fs \o Tail(th[t]) # <<>> => Head(fs \o Tail(th[t])).op \in Later
         /\ fs # <<>> => fs \o Tail(th[t]) # <<>> /\ Head(fs \o Tail(th[t])) = Head(fs)
         /\ \A u \in Threads : u # t /\ th'[u] = th[u] => u \notin W
  <1>1. Turns(t, fs \o Tail(th[t])) /\ Wakes(t, W) /\ fs \o Tail(th[t]) \in Seq(Frame)
    BY GoesTurns
  <1>2. PICK r \in Seq(Frame) : r = Tail(th[t]) /\ Rest(r) /\ Stack(r)
    BY Rests
  <1>3. <<>> \o r = r
    OBVIOUS
  <1>4. fs = <<>> => /\ Stack(fs \o r)
                     /\ fs \o r # <<>> => Head(fs \o r).op \in Later
    BY <1>2, <1>3, RestHead
  <1>5. fs # <<>> => fs \o r # <<>> /\ Head(fs \o r) = Head(fs)
    <2>1. SUFFICES ASSUME fs # <<>> PROVE fs \o r # <<>> /\ Head(fs \o r) = Head(fs)
      OBVIOUS
    <2>2. fs \o r \in Seq(Frame) /\ Len(fs) > 0 /\ Len(fs) \in Nat /\ Len(r) \in Nat
      BY <2>1
    <2>3. PICK q \in Seq(Frame) : q = fs \o r
      BY <2>2
    <2>4. Len(q) > 0 /\ q[1] = fs[1]
      BY <2>2, <2>3
    <2>5. q # <<>> /\ Head(q) = q[1] /\ Head(fs) = fs[1]
      BY <2>2, <2>4
    <2>6. QED BY <2>3, <2>4, <2>5
  <1>6. \A u \in Threads : u # t /\ th'[u] = th[u] => u \notin W
    <2> SUFFICES ASSUME NEW u \in Threads, u # t, th'[u] = th[u], u \in W PROVE FALSE
      OBVIOUS
    <2>1. Woken(u)
      BY <1>1 DEF Wakes
    <2>2. QED BY <2>1, WokenIs, AwakeIs
  <1>7. QED BY <1>1, <1>2, <1>4, <1>5, <1>6 DEF Turns

\* Sleepers when no queue, and no end, changes.
LEMMA SleepStill ==
  ASSUME TypeInv, ShapeInv, SleepJustified, NEW t \in Threads, NEW q \in Seq(Frame), Turns(t, q),
         q # <<>> => Head(q).op \notin {"asleep", "rsleep"},
         accq' = accq, rcv' = rcv, epipe' = epipe
  PROVE  SleepJustified'
  <1>1. \A u \in Threads : u # t /\ th'[u] = th[u] =>
            /\ At(u, "asleep") => accq'[Sock(u)] = <<>>
            /\ At(u, "rsleep") => rcv'[Sock(u)] = 0 /\ ~epipe'[Sock(u)]
    BY DEF SleepJustified
  <1>2. QED BY <1>1, GoSleep

LEMMA RecvStep ==
  ASSUME IInv, NEW t \in Threads, rcv_msgbuf_head_rm(t)
  PROVE  IInv'
  <1>0. TypeInv /\ ShapeInv /\ SleepJustified /\ ListenerVisible /\ HandInv
    BY DEF IInv
  <1>1. /\ th[t] # <<>> /\ Head(th[t]).op = "recv"
        /\ rcv' = IF rcv[Sock(t)] = 0 THEN rcv ELSE [rcv EXCEPT ![Sock(t)] = @ - 1]
        /\ Goes(t, IF rcv[Sock(t)] = 0 /\ ~epipe[Sock(t)] THEN <<Do("rsleep", Sock(t))>> ELSE <<>>, {})
        /\ map' = map /\ foreign' = foreign /\ live' = live /\ kind' = kind
        /\ sref' = sref /\ iref' = iref /\ peer' = peer /\ epipe' = epipe /\ accq' = accq /\ open' = open
    BY DEF rcv_msgbuf_head_rm, At, mapVars, refVars
  <1>2. PICK o \in Socks, h \in Frame, r \in Seq(Frame) :
           /\ o = Sock(t) /\ h = Head(th[t]) /\ r = Tail(th[t]) /\ h.o = o /\ h \in Held
           /\ Rest(r) /\ First(h, r) /\ Stack(r)
    BY <1>0, <1>1, Rests
  <1>3. PICK b \in Frame : b = Do("rsleep", o) /\ b.op = "rsleep" /\ b.o = o /\ b.p = None
    BY DoFrame
  <1>4. <<>> \in Seq(Frame) /\ <<b>> \in Seq(Frame) /\ Head(<<b>>) = b /\ <<b>> # <<>>
    OBVIOUS
  <1>5. PICK fs \in Seq(Frame) : fs = (IF rcv[o] = 0 /\ ~epipe[o] THEN <<b>> ELSE <<>>) /\ Goes(t, fs, {})
    BY <1>1, <1>2, <1>3, <1>4
  <1>6. /\ Turns(t, fs \o r) /\ Wakes(t, {}) /\ fs \o r \in Seq(Frame)
        /\ th' \in [Threads -> Seq(Frame)]
        /\ fs = <<>> => Stack(fs \o r) /\ (fs \o r # <<>> => Head(fs \o r).op \in Later)
        /\ fs # <<>> => fs \o r # <<>> /\ Head(fs \o r) = Head(fs)
    BY <1>0, <1>1, <1>2, <1>5, GoOn, Sleeping
  <1>7. Stack(fs \o r)
    <2>1. First(b, r)
      BY <1>1, <1>2, <1>3 DEF First, Follows, Do
    <2>2. Stack(<<b>> \o r)
      BY <1>2, <2>1, PushOne
    <2>3. QED BY <1>5, <1>6, <2>2
  <1>8. TypeInv'
    <2>1. rcv' \in [Socks -> 0..MaxRcv]
      <3>1. rcv[o] \in 0..MaxRcv /\ MaxRcv \in Nat
        BY <1>0, InprocAssumption DEF TypeInv
      <3>2. rcv[o] # 0 => rcv[o] - 1 \in 0..MaxRcv
        BY <3>1
      <3>3. QED BY <1>0, <1>1, <1>2, <3>2 DEF TypeInv
    <2>2. QED BY <1>0, <1>1, <1>6, <2>1 DEF TypeInv
  <1>9. SleepJustified'
    <2>1. \A u \in Threads : At(u, "rsleep") => Sock(u) \in Socks
      BY <1>0, InHand DEF At
    <2>2. \A u \in Threads : u # t /\ th'[u] = th[u] =>
            /\ At(u, "asleep") => accq'[Sock(u)] = <<>>
            /\ At(u, "rsleep") => rcv'[Sock(u)] = 0 /\ ~epipe'[Sock(u)]
      BY <1>0, <1>1, <1>2, <2>1 DEF SleepJustified, TypeInv
    <2>3. PICK q \in Seq(Frame) : q = fs \o r
      BY <1>6
    <2>4. q # <<>> => /\ Head(q).op = "asleep" => accq'[Head(q).o] = <<>>
                      /\ Head(q).op = "rsleep" => rcv'[Head(q).o] = 0 /\ ~epipe'[Head(q).o]
      BY <1>1, <1>2, <1>3, <1>4, <1>5, <1>6, <2>3 DEF Later
    <2>5. Turns(t, q)
      BY <1>6, <2>3
    <2>6. QED BY <1>0, <2>2, <2>4, <2>5, GoSleep
  <1>10. ListenerVisible'
    BY <1>0, <1>1, ListenerKept
  <1>11. ASSUME NEW x \in Socks
         PROVE  /\ Num(fs, PutSet(x)) = PutW(h, x) /\ Num(fs, MakeSet(x)) = MakeW(h, x)
                /\ Num(fs, DownSet(x)) = DownW(h, x) /\ Num(fs, LeaveSet(x)) = LeaveW(h, x)
    <2>1. PutW(h, x) = 0 /\ MakeW(h, x) = 0 /\ DownW(h, x) = 0 /\ LeaveW(h, x) = 0
      BY <1>1, <1>2, NoWeight
    <2>2. PutW(b, x) = 0 /\ MakeW(b, x) = 0 /\ DownW(b, x) = 0 /\ LeaveW(b, x) = 0
      BY <1>3, NoWeight
    <2>3. /\ Num(<<b>>, PutSet(x)) = PutW(b, x) /\ Num(<<b>>, MakeSet(x)) = MakeW(b, x)
          /\ Num(<<b>>, DownSet(x)) = DownW(b, x) /\ Num(<<b>>, LeaveSet(x)) = LeaveW(b, x)
      BY OneW
    <2>4. QED BY <1>5, <2>1, <2>2, <2>3, NumEmpty
  <1>12. \A i \in DOMAIN fs : FrameOK(fs[i])'
    <2>1. FrameOK(b)'
      BY <1>0, <1>1, <1>2, <1>3 DEF HandInv, FrameOK, FrameKind, OfListener, OfConnector
    <2>2. \A i \in DOMAIN fs : fs[i] = b
      BY <1>5
    <2>3. QED BY <2>1, <2>2
  <1>13. \A x \in Socks : epipe[x] => epipe'[x]
    BY <1>1
  <1>14. QED BY <1>1, <1>2, <1>6, <1>7, <1>8, <1>9, <1>10, <1>11, <1>12, <1>13, Still

LEMMA EpipeStep ==
  ASSUME IInv, NEW t \in Threads, __xclose(t)
  PROVE  IInv'
  <1>0. TypeInv /\ ShapeInv /\ SleepJustified /\ ListenerVisible
    BY DEF IInv
  <1>1. /\ th[t] # <<>> /\ Head(th[t]).op = "epipe"
        /\ epipe' = [epipe EXCEPT ![Sock(t)] = TRUE]
        /\ Goes(t, <<>>, CloseWoken(Sock(t)))
        /\ map' = map /\ foreign' = foreign /\ live' = live /\ kind' = kind
        /\ sref' = sref /\ iref' = iref /\ peer' = peer /\ rcv' = rcv /\ accq' = accq /\ open' = open
    BY DEF __xclose, At, mapVars, refVars
  <1>2. PICK fs \in Seq(Frame), W \in SUBSET Threads : fs = <<>> /\ W = CloseWoken(Sock(t)) /\ Goes(t, fs, W)
    <2>1. <<>> \in Seq(Frame)
      OBVIOUS
    <2>2. CloseWoken(Sock(t)) \in SUBSET Threads
      BY DEF Sleepers, CloseWoken
    <2>3. QED BY <1>1, <2>1, <2>2
  <1>3. Asleep(W) /\ \A u \in Threads : At(u, "rsleep") /\ Sock(u) = Sock(t) => u \in W
    BY <1>2, Sleeping DEF Sleepers, CloseWoken
  <1>4. /\ Turns(t, fs \o Tail(th[t])) /\ Wakes(t, W) /\ fs \o Tail(th[t]) \in Seq(Frame)
        /\ th' \in [Threads -> Seq(Frame)] /\ Stack(fs \o Tail(th[t]))
        /\ fs \o Tail(th[t]) # <<>> => Head(fs \o Tail(th[t])).op \in Later
        /\ \A u \in Threads : u # t /\ th'[u] = th[u] => u \notin W
    BY <1>0, <1>1, <1>2, <1>3, GoOn
  <1>5. TypeInv'
    BY <1>0, <1>1, <1>4 DEF TypeInv
  <1>6. SleepJustified'
    <2>1. PICK q \in Seq(Frame) : q = fs \o Tail(th[t])
      BY <1>4
    <2>2. q # <<>> => Head(q).op \notin {"asleep", "rsleep"}
      BY <1>4, <2>1 DEF Later
    <2>3. \A u \in Threads : u # t /\ th'[u] = th[u] =>
            /\ At(u, "asleep") => accq'[Sock(u)] = <<>>
            /\ At(u, "rsleep") => rcv'[Sock(u)] = 0 /\ ~epipe'[Sock(u)]
      <3>1. \A u \in Threads : At(u, "rsleep") => Sock(u) \in Socks
        BY <1>0, InHand DEF At
      <3>2. QED BY <1>0, <1>1, <1>3, <1>4, <3>1 DEF SleepJustified, TypeInv
    <2>4. Turns(t, q)
      BY <1>4, <2>1
    <2>5. QED BY <1>0, <2>2, <2>3, <2>4, GoSleep
  <1>7. ListenerVisible'
    BY <1>0, <1>1, ListenerKept
  <1>8. ASSUME NEW x \in Socks
        PROVE  /\ Num(fs, PutSet(x)) = PutW(Head(th[t]), x) /\ Num(fs, MakeSet(x)) = MakeW(Head(th[t]), x)
               /\ Num(fs, DownSet(x)) = DownW(Head(th[t]), x) /\ Num(fs, LeaveSet(x)) = LeaveW(Head(th[t]), x)
    BY <1>1, <1>2, NumEmpty, NoWeight
  <1>9. \A i \in DOMAIN fs : FrameOK(fs[i])'
    BY <1>2
  <1>10. (\A x \in Socks : epipe[x] => epipe'[x]) /\ epipe'[Sock(t)]
    BY <1>0, <1>1, Rests DEF TypeInv
  <1>11. QED BY <1>1, <1>4, <1>5, <1>6, <1>7, <1>8, <1>9, <1>10, Still

LEMMA WakePeerStep ==
  ASSUME IInv, NEW t \in Threads, inproc_peer_close(t)
  PROVE  IInv'
  <1>0. TypeInv /\ ShapeInv /\ SleepJustified /\ ListenerVisible
    BY DEF IInv
  <1>1. /\ th[t] # <<>> /\ Head(th[t]).op = "wakepeer"
        /\ Goes(t, <<>>, Sleepers("rsleep", peer[Sock(t)]))
        /\ map' = map /\ foreign' = foreign /\ live' = live /\ kind' = kind
        /\ sref' = sref /\ iref' = iref /\ peer' = peer
        /\ epipe' = epipe /\ rcv' = rcv /\ accq' = accq /\ open' = open
    BY DEF inproc_peer_close, At, mapVars, refVars, flowVars
  <1>2. PICK fs \in Seq(Frame), W \in SUBSET Threads : /\ fs = <<>> /\ W = Sleepers("rsleep", peer[Sock(t)])
                                    /\ Goes(t, fs, W) /\ Asleep(W)
    <2>1. <<>> \in Seq(Frame)
      OBVIOUS
    <2>2. Asleep(Sleepers("rsleep", peer[Sock(t)])) /\ Sleepers("rsleep", peer[Sock(t)]) \in SUBSET Threads
      BY Sleeping DEF Sleepers
    <2>3. QED BY <1>1, <2>1, <2>2
  <1>3. /\ Turns(t, fs \o Tail(th[t])) /\ fs \o Tail(th[t]) \in Seq(Frame)
        /\ th' \in [Threads -> Seq(Frame)] /\ Stack(fs \o Tail(th[t]))
        /\ fs \o Tail(th[t]) # <<>> => Head(fs \o Tail(th[t])).op \in Later
    <2>1. Asleep(W) /\ Goes(t, fs, W) /\ th[t] # <<>> /\ fs = <<>>
      BY <1>1, <1>2
    <2>2. QED BY <1>0, <2>1, GoOn
  <1>4. TypeInv'
    BY <1>0, <1>1, <1>3 DEF TypeInv
  <1>5. SleepJustified'
    <2>1. PICK q \in Seq(Frame) : q = fs \o Tail(th[t])
      BY <1>3
    <2>2. (q # <<>> => Head(q).op \notin {"asleep", "rsleep"}) /\ Turns(t, q)
      BY <1>3, <2>1 DEF Later
    <2>3. QED BY <1>0, <1>1, <2>2, SleepStill
  <1>6. ListenerVisible'
    BY <1>0, <1>1, ListenerKept
  <1>7. ASSUME NEW x \in Socks
        PROVE  /\ Num(fs, PutSet(x)) = PutW(Head(th[t]), x) /\ Num(fs, MakeSet(x)) = MakeW(Head(th[t]), x)
               /\ Num(fs, DownSet(x)) = DownW(Head(th[t]), x) /\ Num(fs, LeaveSet(x)) = LeaveW(Head(th[t]), x)
    BY <1>1, <1>2, NumEmpty, NoWeight
  <1>8. \A i \in DOMAIN fs : FrameOK(fs[i])'
    BY <1>2
  <1>9. \A x \in Socks : epipe[x] => epipe'[x]
    BY <1>1
  <1>10. QED BY <1>1, <1>3, <1>4, <1>5, <1>6, <1>7, <1>8, <1>9, Still

LEMMA RmListenerStep ==
  ASSUME IInv, NEW t \in Threads, rmlistener(t)
  PROVE  IInv'
  <1>0. TypeInv /\ ShapeInv /\ SleepJustified /\ ListenerVisible /\ HandInv /\ LifeInv /\ RefInv
    BY DEF IInv
  <1>1. /\ th[t] # <<>> /\ Head(th[t]).op = "rmlistener"
        /\ Goes(t, <<Do("drain", Sock(t))>>, {})
        /\ map' = None /\ foreign' = (foreign \/ map \notin {None, Sock(t)}) /\ live' = live /\ kind' = kind
        /\ sref' = sref /\ iref' = iref /\ peer' = peer
        /\ epipe' = epipe /\ rcv' = rcv /\ accq' = accq /\ open' = open
    BY DEF rmlistener, At, refVars, flowVars
  <1>2. PICK o \in Socks, h \in Frame, r \in Seq(Frame) :
           /\ o = Sock(t) /\ h = Head(th[t]) /\ r = Tail(th[t]) /\ h.o = o /\ h \in Held
           /\ Rest(r) /\ First(h, r) /\ Stack(r)
    BY <1>0, <1>1, Rests
  <1>3. PICK b \in Frame : b = Do("drain", o) /\ b.op = "drain" /\ b.o = o /\ b.p = None
    BY DoFrame
  <1>4. PICK fs \in Seq(Frame) : fs = <<b>> /\ Goes(t, fs, {}) /\ fs # <<>> /\ Head(fs) = b
    <2>1. <<b>> \in Seq(Frame) /\ Head(<<b>>) = b /\ <<b>> # <<>>
      OBVIOUS
    <2>2. QED BY <1>1, <1>2, <1>3, <2>1
  <1>5. /\ Turns(t, fs \o r) /\ fs \o r \in Seq(Frame) /\ th' \in [Threads -> Seq(Frame)]
        /\ fs \o r # <<>> /\ Head(fs \o r) = b
    BY <1>0, <1>1, <1>2, <1>4, GoOn, Sleeping
  <1>6. Stack(fs \o r)
    <2>1. First(b, r)
      BY <1>3 DEF First, Follows
    <2>2. QED BY <1>2, <1>4, <2>1, PushOne
  <1>7. TypeInv'
    BY <1>0, <1>1, <1>5 DEF TypeInv
  <1>8. SleepJustified'
    <2>1. PICK q \in Seq(Frame) : q = fs \o r
      BY <1>5
    <2>2. (q # <<>> => Head(q).op \notin {"asleep", "rsleep"}) /\ Turns(t, q)
      BY <1>3, <1>5, <2>1
    <2>3. QED BY <1>0, <1>1, <2>2, SleepStill
  <1>9. ListenerVisible'
    <2>1. Downs(o) > 0 /\ sref[o] = 0
      <3>1. h \in DownSet(o)
        BY <1>1, <1>2 DEF DownSet, Solid
      <3>2. QED BY <1>0, <1>2, <3>1, Tallies DEF LifeInv
    <2>2. o \notin open
      <3>1. o \in open => sref[o] > 0
        BY <1>0, Referenced
      <3>2. QED BY <2>1, <3>1
    <2>3. QED BY <1>0, <1>1, <1>2, <2>2, InprocAssumption DEF ListenerVisible, TypeInv
  <1>10. ASSUME NEW x \in Socks
         PROVE  /\ Num(fs, PutSet(x)) = PutW(h, x) /\ Num(fs, MakeSet(x)) = MakeW(h, x)
                /\ Num(fs, DownSet(x)) = DownW(h, x) /\ Num(fs, LeaveSet(x)) = LeaveW(h, x)
    <2>1. PutW(h, x) = PutW(b, x) /\ MakeW(h, x) = MakeW(b, x) /\ DownW(h, x) = DownW(b, x) /\ LeaveW(h, x) = LeaveW(b, x)
      BY <1>1, <1>2, <1>3 DEF PutW, MakeW, DownW, LeaveW
    <2>2. /\ Num(<<b>>, PutSet(x)) = PutW(b, x) /\ Num(<<b>>, MakeSet(x)) = MakeW(b, x)
          /\ Num(<<b>>, DownSet(x)) = DownW(b, x) /\ Num(<<b>>, LeaveSet(x)) = LeaveW(b, x)
      BY OneW
    <2>3. QED BY <1>4, <2>1, <2>2
  <1>11. \A i \in DOMAIN fs : FrameOK(fs[i])'
    <2>1. kind[o] = "listener"
      BY <1>0, <1>1, <1>2 DEF HandInv, FrameOK, FrameKind, OfListener
    <2>2. FrameOK(b)'
      BY <1>1, <1>2, <1>3, <2>1, InprocAssumption DEF FrameOK, FrameKind, OfListener, OfConnector
    <2>3. \A i \in DOMAIN fs : fs[i] = b
      BY <1>4
    <2>4. QED BY <2>2, <2>3
  <1>12. \A x \in Socks : epipe[x] => epipe'[x]
    BY <1>1
  <1>13. QED BY <1>1, <1>2, <1>5, <1>6, <1>7, <1>8, <1>9, <1>10, <1>11, <1>12, Still

\* What becomes of the references of x when thread t has q to do: none is lost, and a
\* descriptor is given up only by a thread that goes on to close.
Settled(t, q, x) ==
  /\ Num(q, DownSet(x)) = Num(th[t], DownSet(x)) /\ Num(q, LeaveSet(x)) = Num(th[t], LeaveSet(x))
  /\ LET a == Num(th[t], MakeSet(x)) + Waits(x) + Is(x \in open)
         b == Num(q, MakeSet(x)) + Waits(x)' + Is(x \in open')
     IN  /\ sref'[x] + Num(th[t], PutSet(x)) + a = sref[x] + Num(q, PutSet(x)) + b
         /\ b = a \/ (b <= a /\ \E i \in DOMAIN q : q[i] = Do("epipe", x))
  /\ sref'[x] > 0 <=> sref[x] > 0

LEMMA WaitsNat ==
  ASSUME NEW x \in Socks
  PROVE  (TypeInv => Waits(x) \in Nat) /\ (TypeInv' => Waits(x)' \in Nat)
  <1>1. TypeInv => Waits(x) \in Nat
    BY Tallies
  <1>2. TypeInv' => Waits(x)' \in Nat
    <2>1. SUFFICES ASSUME TypeInv' PROVE Count(accq', {x}) \in Nat
      BY DEF Waits
    <2>2. PICK G : G = accq'
      OBVIOUS
    <2>3. Family(G, Socks, Socks)
      BY <2>1, <2>2, InprocAssumption DEF TypeInv, Family
    <2>4. Count(G, {x}) \in Nat
      BY <2>3, CountSome
    <2>5. QED BY <2>2, <2>4
  <1>3. QED BY <1>1, <1>2

LEMMA NumNat ==
  ASSUME NEW q \in Seq(Frame), NEW x \in Socks
  PROVE  /\ Num(q, PutSet(x)) \in Nat /\ Num(q, MakeSet(x)) \in Nat
         /\ Num(q, DownSet(x)) \in Nat /\ Num(q, LeaveSet(x)) \in Nat
  BY HitsFinite

LEMMA Settling ==
  ASSUME TypeInv, TypeInv', NEW t \in Threads, NEW q \in Seq(Frame), Turns(t, q), NEW x \in Socks,
         Settled(t, q, x)
  PROVE  /\ Puts(x)' \in Nat /\ Base(x)' \in Nat /\ Base(x)' <= Base(x)
         /\ sref'[x] + Puts(x) + Base(x) = sref[x] + Puts(x)' + Base(x)'
         /\ sref'[x] > 0 <=> sref[x] > 0
         /\ Downs(x)' = Downs(x) /\ Leaves(x)' = Leaves(x)
         /\ Base(x)' = Base(x) \/ \E i \in DOMAIN q : q[i] = Do("epipe", x)
  <1>1. PICK p \in Seq(Frame) : p = th[t]
    BY DEF TypeInv
  <1>2. /\ Puts(x)' + Num(p, PutSet(x)) = Puts(x) + Num(q, PutSet(x))
        /\ Makes(x)' + Num(p, MakeSet(x)) = Makes(x) + Num(q, MakeSet(x))
        /\ Downs(x)' + Num(p, DownSet(x)) = Downs(x) + Num(q, DownSet(x))
        /\ Leaves(x)' + Num(p, LeaveSet(x)) = Leaves(x) + Num(q, LeaveSet(x))
        /\ Puts(x)' \in Nat /\ Makes(x)' \in Nat /\ Downs(x)' \in Nat /\ Leaves(x)' \in Nat
        /\ Puts(x) \in Nat /\ Makes(x) \in Nat /\ Downs(x) \in Nat /\ Leaves(x) \in Nat
    BY <1>1, StackEffect
  <1>3. PICK np \in Nat, nm \in Nat, nd \in Nat, nl \in Nat :
          /\ np = Num(p, PutSet(x)) /\ nm = Num(p, MakeSet(x))
          /\ nd = Num(p, DownSet(x)) /\ nl = Num(p, LeaveSet(x))
    BY NumNat
  <1>4. PICK qp \in Nat, qm \in Nat :
          /\ qp = Num(q, PutSet(x)) /\ qm = Num(q, MakeSet(x))
    BY NumNat
  <1>5. PICK w \in Nat, v \in Nat, i \in Nat, j \in Nat :
          w = Waits(x) /\ v = Waits(x)' /\ i = Is(x \in open) /\ j = Is(x \in open')
    BY WaitsNat DEF Is
  <1>6. PICK a \in Nat, b \in Nat, c \in Nat, d \in Nat :
          a = Puts(x) /\ b = Puts(x)' /\ c = Makes(x) /\ d = Makes(x)'
    BY <1>2
  <1>7. PICK e \in Nat, g \in Nat, k \in Nat, l \in Nat :
          e = Downs(x) /\ g = Downs(x)' /\ k = Leaves(x) /\ l = Leaves(x)'
    BY <1>2
  <1>8. PICK s \in Nat, u \in Nat : s = sref[x] /\ u = sref'[x]
    BY DEF TypeInv
  <1>9. b + np = a + qp /\ d + nm = c + qm /\ g + nd = e + nd /\ l + nl = k + nl
    BY <1>1, <1>2, <1>3, <1>4, <1>6, <1>7 DEF Settled
  <1>10. /\ u + np + (nm + w + i) = s + qp + (qm + v + j) /\ qm + v + j <= nm + w + i
         /\ qm + v + j = nm + w + i \/ \E n \in DOMAIN q : q[n] = Do("epipe", x)
         /\ sref'[x] > 0 <=> sref[x] > 0
    <2>1. /\ sref'[x] + Num(th[t], PutSet(x)) + (Num(th[t], MakeSet(x)) + Waits(x) + Is(x \in open))
              = sref[x] + Num(q, PutSet(x)) + (Num(q, MakeSet(x)) + Waits(x)' + Is(x \in open'))
          /\ \/ Num(q, MakeSet(x)) + Waits(x)' + Is(x \in open') = Num(th[t], MakeSet(x)) + Waits(x) + Is(x \in open)
             \/ /\ Num(q, MakeSet(x)) + Waits(x)' + Is(x \in open') <= Num(th[t], MakeSet(x)) + Waits(x) + Is(x \in open)
                /\ \E n \in DOMAIN q : q[n] = Do("epipe", x)
          /\ sref'[x] > 0 <=> sref[x] > 0
      BY DEF Settled
    <2>2. /\ u + np + (nm + w + i) = s + qp + (qm + v + j)
          /\ \/ qm + v + j = nm + w + i
             \/ qm + v + j <= nm + w + i /\ \E n \in DOMAIN q : q[n] = Do("epipe", x)
      BY <1>1, <1>3, <1>4, <1>5, <1>8, <2>1
    <2>3. qm + v + j = nm + w + i => qm + v + j <= nm + w + i
      OBVIOUS
    <2>4. QED BY <2>1, <2>2, <2>3
  <1>11. /\ Base(x) = c + w + i /\ Base(x)' = d + v + j
    BY <1>5, <1>6 DEF Base, Is
  <1>12. /\ g = e /\ l = k /\ d + v + j \in Nat /\ d + v + j <= c + w + i
         /\ u + a + (c + w + i) = s + b + (d + v + j)
         /\ qm + v + j = nm + w + i => d + v + j = c + w + i
    <2>1. g = e /\ l = k
      BY <1>9
    <2>2. d + v + j \in Nat /\ d + v + j <= c + w + i
      <3>1. qm + v + j <= nm + w + i /\ d + nm = c + qm
        BY <1>9, <1>10
      <3>2. QED BY <3>1
    <2>3. u + a + (c + w + i) = s + b + (d + v + j)
      BY <1>9, <1>10
    <2>4. qm + v + j = nm + w + i => d + v + j = c + w + i
      BY <1>9
    <2>5. QED BY <2>1, <2>2, <2>3, <2>4
  <1>13. QED BY <1>6, <1>7, <1>8, <1>10, <1>11, <1>12

\* The invariant holds after a step that creates, frees, connects and tears down nothing.
LEMMA QuietStack ==
  ASSUME IInv, TypeInv', NEW t \in Threads, NEW q \in Seq(Frame), Turns(t, q), Stack(q),
         live' = live, kind' = kind, iref' = iref, peer' = peer,
         map' = map \/ map' = None \/ (map' \in live /\ kind[map'] = "listener" /\ sref[map'] > 0),
         \A i \in DOMAIN q : q[i] \in Held \/ FrameOK(q[i])',
         \A x \in Socks : Settled(t, q, x),
         \A l \in Socks : /\ accq'[l] # <<>> => l \in live /\ kind[l] = "listener"
                          /\ \A i \in DOMAIN accq'[l] : kind[accq'[l][i]] = "connector",
         \A x \in Socks : epipe[x] => epipe'[x],
         \A x \in live' : \A i \in DOMAIN th[t] : th[t][i] = Do("epipe", x) =>
            epipe'[x] \/ \E j \in DOMAIN q : q[j] = Do("epipe", x),
         SleepJustified', ListenerVisible'
  PROVE  IInv'
  <1>0. TypeInv /\ EpipeInv /\ live \subseteq Socks
    BY DEF IInv, TypeInv
  <1>1. \A x \in Socks : /\ Puts(x)' \in Nat /\ Base(x)' \in Nat /\ Base(x)' <= Base(x)
                         /\ sref'[x] + Puts(x) + Base(x) = sref[x] + Puts(x)' + Base(x)'
                         /\ sref'[x] > 0 <=> sref[x] > 0
                         /\ Downs(x)' = Downs(x) /\ Leaves(x)' = Leaves(x)
    BY <1>0, Settling
  <1>2. \A x \in Socks : Base(x)' = Base(x) \/ \E i \in DOMAIN q : q[i] = Do("epipe", x)
    BY <1>0, Settling
  <1>3. EpipeInv'
    <2>1. \A x \in live' : Base(x)' = 0 => (x \in live /\ Base(x) = 0) \/ \E i \in DOMAIN q : q[i] = Do("epipe", x)
      BY <1>0, <1>2
    <2>2. \A x \in live' \cap live : epipe[x] => epipe'[x]
      BY <1>0
    <2>3. QED BY <1>0, <2>1, <2>2, EpipeKept
  <1>4. QED BY <1>1, <1>3, Quiet

\* The same for a thread that is at f and goes on to fs.
Settles(f, fs, x) ==
  /\ Num(fs, DownSet(x)) = DownW(f, x) /\ Num(fs, LeaveSet(x)) = LeaveW(f, x)
  /\ LET a == MakeW(f, x) + Waits(x) + Is(x \in open)
         b == Num(fs, MakeSet(x)) + Waits(x)' + Is(x \in open')
     IN  /\ sref'[x] + PutW(f, x) + a = sref[x] + Num(fs, PutSet(x)) + b
         /\ b = a \/ (b <= a /\ \E i \in DOMAIN fs : fs[i] = Do("epipe", x))
  /\ sref'[x] > 0 <=> sref[x] > 0

LEMMA GoSettled ==
  ASSUME TypeInv, TypeInv', NEW t \in Threads, th[t] # <<>>, NEW fs \in Seq(Frame),
         NEW q \in Seq(Frame), q = fs \o Tail(th[t]), NEW x \in Socks, Settles(Head(th[t]), fs, x)
  PROVE  Settled(t, q, x)
  <1>1. PICK h \in Frame, r \in Seq(Frame), p \in Seq(Frame) : h = Head(th[t]) /\ r = Tail(th[t]) /\ p = th[t]
    BY InHand
  <1>2. ASSUME NEW S
        PROVE  /\ Num(p, S) = Is(h \in S) + Num(r, S) /\ Num(q, S) = Num(fs, S) + Num(r, S)
               /\ Num(r, S) \in Nat /\ Num(fs, S) \in Nat /\ Is(h \in S) \in Nat
    <2>1. Num(p, S) = Is(h \in S) + Num(r, S)
      BY <1>1, NumTail
    <2>2. Num(q, S) = Num(fs, S) + Num(r, S)
      BY <1>1, NumConcat
    <2>3. Num(r, S) \in Nat /\ Num(fs, S) \in Nat /\ Is(h \in S) \in Nat
      BY HitsFinite DEF Is
    <2>4. QED BY <2>1, <2>2, <2>3
  <1>3. /\ Is(h \in PutSet(x)) = PutW(h, x) /\ Is(h \in MakeSet(x)) = MakeW(h, x)
        /\ Is(h \in DownSet(x)) = DownW(h, x) /\ Is(h \in LeaveSet(x)) = LeaveW(h, x)
    BY Weights
  <1>4. /\ Num(q, DownSet(x)) = Num(p, DownSet(x)) /\ Num(q, LeaveSet(x)) = Num(p, LeaveSet(x))
    BY <1>1, <1>2, <1>3 DEF Settles
  <1>5. PICK hp \in Nat, hm \in Nat, fp \in Nat, fm \in Nat, rp \in Nat, rm \in Nat :
          /\ hp = PutW(h, x) /\ hm = MakeW(h, x) /\ fp = Num(fs, PutSet(x)) /\ fm = Num(fs, MakeSet(x))
          /\ rp = Num(r, PutSet(x)) /\ rm = Num(r, MakeSet(x))
    <2>1. PutW(h, x) \in Nat /\ MakeW(h, x) \in Nat
      BY Weights
    <2>2. QED BY <1>2, <2>1
  <1>6. /\ Num(p, PutSet(x)) = hp + rp /\ Num(p, MakeSet(x)) = hm + rm
        /\ Num(q, PutSet(x)) = fp + rp /\ Num(q, MakeSet(x)) = fm + rm
    BY <1>2, <1>3, <1>5
  <1>7. PICK w \in Nat, v \in Nat, i \in Nat, j \in Nat :
          w = Waits(x) /\ v = Waits(x)' /\ i = Is(x \in open) /\ j = Is(x \in open')
    BY WaitsNat DEF Is
  <1>8. PICK s \in Nat, u \in Nat : s = sref[x] /\ u = sref'[x]
    BY DEF TypeInv
  <1>9. /\ u + hp + (hm + w + i) = s + fp + (fm + v + j)
        /\ \/ fm + v + j = hm + w + i
           \/ fm + v + j <= hm + w + i /\ \E n \in DOMAIN fs : fs[n] = Do("epipe", x)
        /\ sref'[x] > 0 <=> sref[x] > 0
    BY <1>1, <1>5, <1>7, <1>8 DEF Settles
  <1>10. (\E n \in DOMAIN fs : fs[n] = Do("epipe", x)) => \E n \in DOMAIN q : q[n] = Do("epipe", x)
    <2>1. \A n \in DOMAIN fs : n \in DOMAIN q /\ q[n] = fs[n]
      BY <1>1
    <2>2. QED BY <2>1
  <1>11. /\ u + (hp + rp) + ((hm + rm) + w + i) = s + (fp + rp) + ((fm + rm) + v + j)
         /\ fm + v + j = hm + w + i => (fm + rm) + v + j = (hm + rm) + w + i
         /\ fm + v + j <= hm + w + i => (fm + rm) + v + j <= (hm + rm) + w + i
    <2>1. u + (hp + rp) + ((hm + rm) + w + i) = s + (fp + rp) + ((fm + rm) + v + j)
      <3>1. PICK k \in Nat, m \in Nat : k = hm + w + i /\ m = fm + v + j /\ u + hp + k = s + fp + m
        <4>1. PICK k \in Nat, m \in Nat : k = hm + w + i /\ m = fm + v + j
          OBVIOUS
        <4>2. u + hp + k = s + fp + m
          BY <1>9, <4>1
        <4>3. QED BY <4>1, <4>2
      <3>2. (hm + rm) + w + i = k + rm /\ (fm + rm) + v + j = m + rm
        BY <3>1
      <3>3. u + (hp + rp) + (k + rm) = s + (fp + rp) + (m + rm)
        BY <3>1
      <3>4. QED BY <3>2, <3>3
    <2>2. fm + v + j = hm + w + i => (fm + rm) + v + j = (hm + rm) + w + i
      OBVIOUS
    <2>3. fm + v + j <= hm + w + i => (fm + rm) + v + j <= (hm + rm) + w + i
      OBVIOUS
    <2>4. QED BY <2>1, <2>2, <2>3
  <1>12. PICK a \in Nat, b \in Nat : a = (hm + rm) + w + i /\ b = (fm + rm) + v + j
    OBVIOUS
  <1>13. /\ a = Num(th[t], MakeSet(x)) + Waits(x) + Is(x \in open)
         /\ b = Num(q, MakeSet(x)) + Waits(x)' + Is(x \in open')
    BY <1>1, <1>6, <1>7, <1>12
  <1>14. Num(q, DownSet(x)) = Num(th[t], DownSet(x)) /\ Num(q, LeaveSet(x)) = Num(th[t], LeaveSet(x))
    BY <1>1, <1>4
  <1>15. sref'[x] > 0 <=> sref[x] > 0
    BY <1>9
  <1>16. sref'[x] + Num(th[t], PutSet(x)) + a = sref[x] + Num(q, PutSet(x)) + b
    <2>1. u + (hp + rp) + a = s + (fp + rp) + b
      BY <1>11, <1>12
    <2>2. QED BY <1>1, <1>6, <1>8, <2>1
  <1>17. b = a \/ (b <= a /\ \E n \in DOMAIN q : q[n] = Do("epipe", x))
    <2>1. CASE fm + v + j = hm + w + i
      <3>1. b = a
        BY <1>12, <2>1
      <3>2. QED BY <3>1
    <2>2. CASE fm + v + j <= hm + w + i /\ \E n \in DOMAIN fs : fs[n] = Do("epipe", x)
      <3>1. b <= a
        BY <1>11, <1>12, <2>2
      <3>2. QED BY <1>10, <2>2, <3>1
    <2>3. QED BY <1>9, <2>1, <2>2
  <1>18. QED BY <1>13, <1>14, <1>15, <1>16, <1>17 DEF Settled

LEMMA QuietGo ==
  ASSUME IInv, TypeInv', NEW t \in Threads, th[t] # <<>>, NEW fs \in Seq(Frame),
         Turns(t, fs \o Tail(th[t])), Stack(fs \o Tail(th[t])),
         live' = live, kind' = kind, iref' = iref, peer' = peer,
         map' = map \/ map' = None \/ (map' \in live /\ kind[map'] = "listener" /\ sref[map'] > 0),
         \A i \in DOMAIN fs : FrameOK(fs[i])',
         \A x \in Socks : Settles(Head(th[t]), fs, x),
         \A l \in Socks : /\ accq'[l] # <<>> => l \in live /\ kind[l] = "listener"
                          /\ \A i \in DOMAIN accq'[l] : kind[accq'[l][i]] = "connector",
         epipe' = epipe, Head(th[t]).op # "epipe",
         SleepJustified', ListenerVisible'
  PROVE  IInv'
  <1>0. TypeInv
    BY DEF IInv
  <1>1. PICK h \in Frame, r \in Seq(Frame) :
          /\ h = Head(th[t]) /\ r = Tail(th[t]) /\ th[t] = <<h>> \o r
    <2>1. /\ Head(th[t]) \in Frame /\ Tail(th[t]) \in Seq(Frame)
          /\ th[t] = <<Head(th[t])>> \o Tail(th[t])
      BY <1>0, InHand
    <2>2. QED BY <2>1
  <1>2. PICK q \in Seq(Frame) : q = fs \o r
    <2>1. fs \o r \in Seq(Frame)
      OBVIOUS
    <2>2. QED BY <2>1
  <1>3. \A i \in DOMAIN q : q[i] \in Held \/ FrameOK(q[i])'
    <2>1. \A i \in DOMAIN (fs \o Tail(th[t])) :
            \/ (fs \o Tail(th[t]))[i] \in Held
            \/ \E j \in DOMAIN fs : (fs \o Tail(th[t]))[i] = fs[j]
      BY <1>0, GoHand
    <2>2. q = fs \o Tail(th[t])
      BY <1>1, <1>2
    <2>3. \A i \in DOMAIN q : q[i] \in Held \/ \E j \in DOMAIN fs : q[i] = fs[j]
      BY <2>1, <2>2
    <2>4. QED BY <2>3
  <1>4. \A x \in Socks : Settled(t, q, x)
    BY <1>0, <1>1, <1>2, GoSettled
  <1>5. ASSUME NEW x \in live', NEW i \in DOMAIN th[t], th[t][i] = Do("epipe", x)
        PROVE  \E j \in DOMAIN q : q[j] = Do("epipe", x)
    <2>1. PICK p \in Seq(Frame) : p = th[t] /\ p = <<h>> \o r
      <3>1. th[t] \in Seq(Frame)
        BY <1>0 DEF TypeInv
      <3>2. QED BY <1>1, <3>1
    <2>2. i \in DOMAIN p /\ p[i] = Do("epipe", x)
      BY <1>5, <2>1
    <2>3. CASE i = 1
      <3>1. h = Do("epipe", x)
        BY <2>1, <2>2, <2>3
      <3>2. QED BY <1>1, <3>1 DEF Do
    <2>4. CASE i # 1
      <3>1. i - 1 \in DOMAIN r /\ r[i - 1] = p[i]
        BY <2>1, <2>2, <2>4
      <3>2. Len(fs) + (i - 1) \in DOMAIN q /\ q[Len(fs) + (i - 1)] = r[i - 1]
        BY <1>2, <3>1
      <3>3. QED BY <2>2, <3>1, <3>2
    <2>5. QED BY <2>3, <2>4
  <1>6. Turns(t, q) /\ Stack(q)
    BY <1>1, <1>2
  <1>7. \A x \in Socks : epipe[x] => epipe'[x]
    OBVIOUS
  <1>8. QED BY <1>3, <1>4, <1>5, <1>6, <1>7, QuietStack

LEMMA ReturnStep ==
  ASSUME IInv, NEW t \in Threads, Return(t)
  PROVE  IInv'
  <1>0. TypeInv /\ ShapeInv /\ SleepJustified /\ ListenerVisible /\ HandInv /\ RefInv /\ QueueInv /\ EpipeInv
    BY DEF IInv
  <1>1. /\ th[t] # <<>> /\ Head(th[t]).op = "return"
        /\ Goes(t, <<>>, {}) /\ open' = open \cup {Sock(t)}
        /\ map' = map /\ foreign' = foreign /\ live' = live /\ kind' = kind
        /\ sref' = sref /\ iref' = iref /\ peer' = peer
        /\ epipe' = epipe /\ rcv' = rcv /\ accq' = accq
    BY DEF Return, At, mapVars, refVars, flowVars
  <1>2. PICK o \in Socks, h \in Frame, r \in Seq(Frame) :
           /\ o = Sock(t) /\ h = Head(th[t]) /\ r = Tail(th[t]) /\ h.o = o /\ h \in Held
           /\ Rest(r) /\ First(h, r) /\ Stack(r)
    BY <1>0, <1>1, Rests
  <1>3. PICK fs \in Seq(Frame) : fs = <<>> /\ Goes(t, fs, {})
    <2>1. <<>> \in Seq(Frame)
      OBVIOUS
    <2>2. QED BY <1>1, <2>1
  <1>4. /\ Turns(t, fs \o r) /\ fs \o r \in Seq(Frame)
        /\ th' \in [Threads -> Seq(Frame)] /\ Stack(fs \o r)
        /\ fs \o r # <<>> => Head(fs \o r).op \in Later
    BY <1>0, <1>1, <1>2, <1>3, GoOn, Sleeping
  <1>5. PICK q \in Seq(Frame) : q = fs \o r
    BY <1>4
  <1>6. TypeInv'
    BY <1>0, <1>1, <1>2, <1>4 DEF TypeInv
  <1>7. SleepJustified'
    <2>1. (q # <<>> => Head(q).op \notin {"asleep", "rsleep"}) /\ Turns(t, q)
      BY <1>4, <1>5 DEF Later
    <2>2. QED BY <1>0, <1>1, <2>1, SleepStill
  <1>8. o \notin open
    <2>1. h \in MakeSet(o)
      BY <1>1, <1>2 DEF MakeSet, Solid
    <2>2. Makes(o) > 0 /\ Makes(o) \in Nat /\ Waits(o) \in Nat
      BY <1>0, <1>2, <2>1, Tallies
    <2>3. Makes(o) + Waits(o) + Is(o \in open) <= 1
      BY <1>0 DEF RefInv, Base
    <2>4. QED BY <2>2, <2>3 DEF Is
  <1>9. ListenerVisible'
    <2>1. kind[o] = "connector"
      BY <1>0, <1>1, <1>2 DEF HandInv, FrameOK, FrameKind, OfConnector
    <2>2. QED BY <1>0, <1>1, <1>2, <2>1 DEF ListenerVisible
  <1>10. ASSUME NEW x \in Socks PROVE Settles(h, fs, x)
    <2>1. PutW(h, x) = 0 /\ MakeW(h, x) = Is(o = x) /\ DownW(h, x) = 0 /\ LeaveW(h, x) = 0
      BY <1>1, <1>2 DEF PutW, MakeW, DownW, LeaveW, Is
    <2>2. /\ Num(fs, PutSet(x)) = 0 /\ Num(fs, MakeSet(x)) = 0 /\ Num(fs, DownSet(x)) = 0
          /\ Num(fs, LeaveSet(x)) = 0
      BY <1>3, NumEmpty
    <2>3. PICK w \in Nat : w = Waits(x) /\ w = Waits(x)'
      BY <1>0, <1>1, WaitsKeep
    <2>4. PICK k \in Nat, i \in Nat : k = sref[x] /\ i = Is(o = x)
      BY <1>0 DEF TypeInv, Is
    <2>5. PICK a \in Nat, b \in Nat : a = Is(x \in open) /\ b = Is(x \in open') /\ b = a + i
      BY <1>1, <1>2, <1>8, <2>4 DEF Is
    <2>6. i + w + a = 0 + w + b /\ k + 0 + (i + w + a) = k + 0 + (0 + w + b)
      BY <2>5
    <2>7. QED BY <1>1, <2>1, <2>2, <2>3, <2>4, <2>5, <2>6 DEF Settles
  <1>11. \A i \in DOMAIN fs : FrameOK(fs[i])'
    BY <1>3
  <1>12. \A l \in Socks : /\ accq'[l] # <<>> => l \in live /\ kind[l] = "listener"
                          /\ \A i \in DOMAIN accq'[l] : kind[accq'[l][i]] = "connector"
    BY <1>0, <1>1 DEF QueueInv
  <1>13. QED BY <1>1, <1>2, <1>4, <1>6, <1>7, <1>9, <1>10, <1>11, <1>12, QuietGo

LEMMA AcceptAddStep ==
  ASSUME IInv, NEW t \in Threads, acceptq_add(t)
  PROVE  IInv'
  <1>0. /\ TypeInv /\ ShapeInv /\ SleepJustified /\ ListenerVisible /\ HandInv /\ RefInv /\ QueueInv
        /\ live \subseteq Socks
    BY DEF IInv, TypeInv
  <1>1. /\ th[t] # <<>> /\ Head(th[t]).op = "acceptq_add"
        /\ Goes(t, <<>>, AcceptWoken(Sock(t)))
        /\ accq' = [accq EXCEPT ![Sock(t)] = Append(@, Peer(t))]
        /\ map' = map /\ foreign' = foreign /\ live' = live /\ kind' = kind
        /\ sref' = sref /\ iref' = iref /\ peer' = peer
        /\ epipe' = epipe /\ rcv' = rcv /\ open' = open
    BY DEF acceptq_add, At, mapVars, refVars
  <1>2. PICK l \in Socks, h \in Frame, r \in Seq(Frame) :
           /\ l = Sock(t) /\ h = Head(th[t]) /\ r = Tail(th[t]) /\ h.o = l /\ h \in Held
           /\ Rest(r) /\ First(h, r) /\ Stack(r)
    BY <1>0, <1>1, Rests
  <1>3. PICK n \in Socks : n = h.p /\ n = Peer(t)
    BY <1>1, <1>2 DEF First, Peer
  <1>4. kind[l] = "listener" /\ kind[n] = "connector" /\ l \in live
    <2>1. kind[l] = "listener" /\ kind[n] = "connector"
      BY <1>0, <1>1, <1>2, <1>3 DEF HandInv, FrameOK, FrameKind, OfListener
    <2>2. QED BY <1>2, <2>1, Alive
  <1>5. PICK fs \in Seq(Frame), W \in SUBSET Threads : fs = <<>> /\ W = AcceptWoken(l) /\ Goes(t, fs, W)
    <2>1. <<>> \in Seq(Frame)
      OBVIOUS
    <2>2. AcceptWoken(l) \in SUBSET Threads
      BY DEF Sleepers, AcceptWoken
    <2>3. QED BY <1>1, <1>2, <2>1, <2>2
  <1>6. Asleep(W) /\ (accq[l] = <<>> => W = Sleepers("asleep", l))
    BY <1>5, Sleeping DEF AcceptWoken
  <1>7. /\ Turns(t, fs \o r) /\ fs \o r \in Seq(Frame)
        /\ th' \in [Threads -> Seq(Frame)] /\ Stack(fs \o r)
        /\ fs \o r # <<>> => Head(fs \o r).op \in Later
        /\ \A u \in Threads : u # t /\ th'[u] = th[u] => u \notin W
    <2>1. /\ Turns(t, fs \o Tail(th[t])) /\ fs \o Tail(th[t]) \in Seq(Frame)
          /\ th' \in [Threads -> Seq(Frame)] /\ Stack(fs \o Tail(th[t]))
          /\ fs \o Tail(th[t]) # <<>> => Head(fs \o Tail(th[t])).op \in Later
          /\ \A u \in Threads : u # t /\ th'[u] = th[u] => u \notin W
      <3>1. th[t] # <<>> /\ Goes(t, fs, W) /\ Asleep(W) /\ fs = <<>>
        BY <1>1, <1>5, <1>6
      <3>2. QED BY <1>0, <3>1, GoOn
    <2>2. QED BY <1>2, <2>1
  <1>8. PICK q \in Seq(Frame) : q = fs \o r
    BY <1>7
  <1>9. accq' \in [Socks -> Seq(Socks)] /\ accq' = [accq EXCEPT ![l] = Append(@, n)]
    <2>1. PICK c \in Seq(Socks) : c = accq[l]
      BY <1>0 DEF TypeInv
    <2>2. Append(c, n) \in Seq(Socks)
      OBVIOUS
    <2>3. QED BY <1>0, <1>1, <1>2, <1>3, <2>1, <2>2 DEF TypeInv
  <1>10. TypeInv'
    BY <1>0, <1>1, <1>7, <1>9 DEF TypeInv
  <1>11. SleepJustified'
    <2>1. q # <<>> => Head(q).op \notin {"asleep", "rsleep"}
      BY <1>7, <1>8 DEF Later
    <2>2. ASSUME NEW u \in Threads, u # t, th'[u] = th[u]
          PROVE  /\ At(u, "asleep") => accq'[Sock(u)] = <<>>
                 /\ At(u, "rsleep") => rcv'[Sock(u)] = 0 /\ ~epipe'[Sock(u)]
      <3>1. u \notin W
        BY <1>7, <2>2
      <3>2. At(u, "asleep") => accq[Sock(u)] = <<>> /\ Sock(u) \in Socks
        BY <1>0, InHand DEF SleepJustified, At
      <3>3. At(u, "asleep") => Sock(u) # l
        BY <1>6, <3>1, <3>2 DEF Sleepers
      <3>4. At(u, "asleep") => accq'[Sock(u)] = <<>>
        BY <1>0, <1>9, <3>2, <3>3 DEF TypeInv
      <3>5. QED BY <1>0, <1>1, <3>4 DEF SleepJustified
    <2>3. Turns(t, q)
      BY <1>7, <1>8
    <2>4. QED BY <1>0, <2>1, <2>2, <2>3, GoSleep
  <1>12. ListenerVisible'
    BY <1>0, <1>1, ListenerKept
  <1>13. ASSUME NEW x \in Socks PROVE Settles(h, fs, x)
    <2>1. PutW(h, x) = 0 /\ MakeW(h, x) = Is(n = x) /\ DownW(h, x) = 0 /\ LeaveW(h, x) = 0
      BY <1>1, <1>2, <1>3 DEF PutW, MakeW, DownW, LeaveW, Is
    <2>2. /\ Num(fs, PutSet(x)) = 0 /\ Num(fs, MakeSet(x)) = 0 /\ Num(fs, DownSet(x)) = 0
          /\ Num(fs, LeaveSet(x)) = 0
      BY <1>5, NumEmpty
    <2>3. PICK w \in Nat, v \in Nat, i \in Nat : w = Waits(x) /\ v = Waits(x)' /\ i = Is(n = x) /\ v = w + i
      <3>1. Waits(x)' = Waits(x) + Is(n = x) /\ Waits(x) \in Nat /\ Waits(x)' \in Nat
        BY <1>0, <1>9, WaitsAdd
      <3>2. Is(n = x) \in Nat
        BY DEF Is
      <3>3. QED BY <3>1, <3>2
    <2>4. PICK k \in Nat, a \in Nat : k = sref[x] /\ a = Is(x \in open)
      BY <1>0 DEF TypeInv, Is
    <2>5. i + w + a = 0 + v + a /\ k + 0 + (i + w + a) = k + 0 + (0 + v + a)
      BY <2>3
    <2>6. QED BY <1>1, <2>1, <2>2, <2>3, <2>4, <2>5 DEF Settles
  <1>14. \A i \in DOMAIN fs : FrameOK(fs[i])'
    BY <1>5
  <1>15. ASSUME NEW k \in Socks
         PROVE  /\ accq'[k] # <<>> => k \in live /\ kind[k] = "listener"
                /\ \A i \in DOMAIN accq'[k] : kind[accq'[k][i]] = "connector"
    <2>1. CASE k = l
      <3>1. PICK c \in Seq(Socks), d \in Seq(Socks) : c = accq[l] /\ d = accq'[l] /\ d = Append(c, n)
        BY <1>0, <1>9 DEF TypeInv
      <3>2. \A i \in DOMAIN d : d[i] = n \/ \E j \in DOMAIN c : d[i] = c[j]
        BY <3>1
      <3>3. \A j \in DOMAIN c : kind[c[j]] = "connector"
        BY <1>0, <3>1 DEF QueueInv
      <3>4. QED BY <1>4, <2>1, <3>1, <3>2, <3>3
    <2>2. CASE k # l
      BY <1>0, <1>9, <2>2 DEF QueueInv, TypeInv
    <2>3. QED BY <2>1, <2>2
  <1>16. QED BY <1>1, <1>2, <1>7, <1>10, <1>11, <1>12, <1>13, <1>14, <1>15, QuietGo

\* An accepter that finds a connection: it puts the listener and returns the connection.
LEMMA AcceptTakes ==
  ASSUME IInv, NEW t \in Threads, acceptq_rm(t), accq[Sock(t)] # <<>>
  PROVE  IInv'
  <1>0. /\ TypeInv /\ ShapeInv /\ SleepJustified /\ ListenerVisible /\ HandInv /\ RefInv /\ QueueInv
        /\ live \subseteq Socks
    BY DEF IInv, TypeInv
  <1>1. /\ th[t] # <<>> /\ Head(th[t]).op = "accept"
        /\ th' = [th EXCEPT ![t] = Append(Tail(@), Do("return", Head(accq[Sock(t)])))]
        /\ accq' = [accq EXCEPT ![Sock(t)] = Tail(@)]
        /\ map' = map /\ foreign' = foreign /\ live' = live /\ kind' = kind
        /\ sref' = sref /\ iref' = iref /\ peer' = peer
        /\ epipe' = epipe /\ rcv' = rcv /\ open' = open
    BY DEF acceptq_rm, At, mapVars, refVars
  <1>2. PICK o \in Socks, h \in Frame, r \in Seq(Frame) :
           /\ o = Sock(t) /\ h = Head(th[t]) /\ r = Tail(th[t]) /\ h.o = o /\ h \in Held
           /\ Rest(r) /\ First(h, r) /\ Stack(r)
    BY <1>0, <1>1, Rests
  <1>3. PICK c \in Seq(Socks), n \in Socks, d \in Seq(Socks) :
           /\ c = accq[o] /\ n = Head(c) /\ d = Tail(c) /\ c = <<n>> \o d /\ c # <<>>
    <2>1. PICK c \in Seq(Socks) : c = accq[o]
      BY <1>0 DEF TypeInv
    <2>2. c # <<>>
      BY <1>2, <2>1
    <2>3. Head(c) \in Socks /\ Tail(c) \in Seq(Socks) /\ c = <<Head(c)>> \o Tail(c)
      BY <2>2, HeadTail
    <2>4. QED BY <2>1, <2>2, <2>3
  <1>4. 1 \in DOMAIN c /\ c[1] = n /\ \A i \in DOMAIN d : i + 1 \in DOMAIN c /\ d[i] = c[i + 1]
    BY <1>3
  <1>5. accq' \in [Socks -> Seq(Socks)] /\ accq' = [accq EXCEPT ![o] = d]
    BY <1>0, <1>1, <1>2, <1>3 DEF TypeInv
  <1>6. o \in live /\ kind[o] = "listener" /\ kind[n] = "connector"
    BY <1>0, <1>3, <1>4 DEF QueueInv
  <1>7. PICK a \in Frame, b \in Frame :
           /\ a = Do("put", o) /\ a.op = "put" /\ a.o = o /\ a.p = None
           /\ b = Do("return", n) /\ b.op = "return" /\ b.o = n /\ b.p = None
    BY DoFrame
  <1>8. PICK q \in Seq(Frame) : q = <<a, b>> /\ q # <<>> /\ Head(q) = a /\ Tail(q) = <<b>>
                                 /\ \A i \in DOMAIN q : q[i] = a \/ q[i] = b
    <2>1. <<a, b>> \in Seq(Frame) /\ <<a, b>> # <<>> /\ Head(<<a, b>>) = a /\ Tail(<<a, b>>) = <<b>>
      OBVIOUS
    <2>2. \A i \in DOMAIN <<a, b>> : <<a, b>>[i] = a \/ <<a, b>>[i] = b
      OBVIOUS
    <2>3. QED BY <2>1, <2>2
  <1>9. r = <<a>>
    BY <1>1, <1>2, <1>7 DEF First
  <1>10. th' = [th EXCEPT ![t] = q]
    <2>1. Append(r, b) = q
      <3>1. PICK s \in Seq(Frame), z \in Seq(Frame) : s = <<a>> /\ z = <<a, b>>
        <4>1. <<a>> \in Seq(Frame) /\ <<a, b>> \in Seq(Frame)
          OBVIOUS
        <4>2. QED BY <4>1
      <3>2. Len(s) = 1 /\ s[1] = a /\ Len(z) = 2 /\ z[1] = a /\ z[2] = b
        BY <3>1
      <3>3. PICK y \in Seq(Frame) : y = Append(s, b)
        <4>1. Append(s, b) \in Seq(Frame)
          OBVIOUS
        <4>2. QED BY <4>1
      <3>4. Len(y) = 2 /\ y[1] = a /\ y[2] = b
        <4>1. Len(y) = Len(s) + 1 /\ y[Len(s) + 1] = b /\ \A i \in 1..Len(s) : y[i] = s[i]
          BY <3>3
        <4>2. QED BY <3>2, <4>1
      <3>5. y = z
        BY SMTT(60), <3>2, <3>4, SameSeq
      <3>6. QED BY <1>8, <1>9, <3>1, <3>3, <3>5
    <2>2. th' = [th EXCEPT ![t] = Append(r, b)]
      BY <1>0, <1>1, <1>2, <1>3, <1>7 DEF TypeInv
    <2>3. QED BY <2>1, <2>2
  <1>11. Turns(t, q)
    BY <1>0, <1>10, SetTurns
  <1>12. Stack(q)
    <2>1. Rest(<<b>>)
      <3>1. \A i \in DOMAIN <<b>> : <<b>>[i] = b
        OBVIOUS
      <3>2. QED BY <1>7, <3>1 DEF Rest, Later
    <2>2. First(a, <<b>>)
      BY <1>7 DEF First, Follows
    <2>3. QED BY <1>8, <2>1, <2>2 DEF Stack
  <1>13. TypeInv'
    BY <1>0, <1>1, <1>5, <1>11 DEF TypeInv, Turns
  <1>14. SleepJustified'
    <2>1. q # <<>> => Head(q).op \notin {"asleep", "rsleep"}
      BY <1>7, <1>8
    <2>2. ASSUME NEW u \in Threads, u # t, th'[u] = th[u]
          PROVE  /\ At(u, "asleep") => accq'[Sock(u)] = <<>>
                 /\ At(u, "rsleep") => rcv'[Sock(u)] = 0 /\ ~epipe'[Sock(u)]
      <3>1. At(u, "asleep") => accq[Sock(u)] = <<>> /\ Sock(u) \in Socks
        BY <1>0, InHand DEF SleepJustified, At
      <3>2. At(u, "asleep") => Sock(u) # o
        BY <1>3, <3>1
      <3>3. At(u, "asleep") => accq'[Sock(u)] = <<>>
        BY <1>0, <1>5, <3>1, <3>2 DEF TypeInv
      <3>4. QED BY <1>0, <1>1, <3>3 DEF SleepJustified
    <2>3. QED BY <1>0, <1>11, <2>1, <2>2, GoSleep
  <1>15. ListenerVisible'
    BY <1>0, <1>1, ListenerKept
  <1>16. ASSUME NEW x \in Socks PROVE Settled(t, q, x)
    <2>1. PICK p \in Seq(Frame) : p = th[t] /\ p # <<>> /\ Head(p) = h /\ Tail(p) = r
      BY <1>0, <1>1, <1>2 DEF TypeInv
    <2>2. ASSUME NEW S PROVE Num(p, S) = Is(h \in S) + Is(a \in S) /\ Num(q, S) = Is(a \in S) + Is(b \in S)
      <3>1. Num(p, S) = Is(h \in S) + Num(r, S)
        BY <2>1, NumTail
      <3>2. /\ Num(<<>>, S) = 0 /\ Num(<<a>>, S) = Is(a \in S)
            /\ Num(<<a, b>>, S) = Is(a \in S) + Is(b \in S)
            /\ Num(<<a, b, a>>, S) = Is(a \in S) + Is(b \in S) + Is(a \in S)
            /\ Num(<<a, b, a, b>>, S) = Is(a \in S) + Is(b \in S) + Is(a \in S) + Is(b \in S)
        BY NumShort
      <3>3. QED BY <1>8, <1>9, <3>1, <3>2
    <2>3. /\ Is(h \in PutSet(x)) = 0 /\ Is(h \in MakeSet(x)) = 0
          /\ Is(h \in DownSet(x)) = 0 /\ Is(h \in LeaveSet(x)) = 0
      <3>1. PutW(h, x) = 0 /\ MakeW(h, x) = 0 /\ DownW(h, x) = 0 /\ LeaveW(h, x) = 0
        BY <1>1, <1>2, NoWeight
      <3>2. QED BY <3>1, Weights
    <2>4. /\ Is(a \in PutSet(x)) = Is(o = x) /\ Is(a \in MakeSet(x)) = 0
          /\ Is(a \in DownSet(x)) = 0 /\ Is(a \in LeaveSet(x)) = 0
      BY <1>7, Weights DEF PutW, MakeW, DownW, LeaveW, Is
    <2>5. /\ Is(b \in PutSet(x)) = 0 /\ Is(b \in MakeSet(x)) = Is(n = x)
          /\ Is(b \in DownSet(x)) = 0 /\ Is(b \in LeaveSet(x)) = 0
      BY <1>7, Weights DEF PutW, MakeW, DownW, LeaveW, Is
    <2>6. PICK k \in Nat, i \in Nat, j \in Nat, e \in Nat :
            k = sref[x] /\ i = Is(o = x) /\ j = Is(n = x) /\ e = Is(x \in open)
      BY <1>0 DEF TypeInv, Is
    <2>7. PICK w \in Nat, v \in Nat : w = Waits(x) /\ v = Waits(x)' /\ v + j = w
      <3>1. Waits(x)' + Is(Head(accq[o]) = x) = Waits(x) /\ Waits(x) \in Nat /\ Waits(x)' \in Nat
        BY <1>0, <1>1, <1>2, <1>3, WaitsRm
      <3>2. QED BY <1>3, <2>6, <3>1
    <2>8. /\ Num(p, PutSet(x)) = i /\ Num(q, PutSet(x)) = i /\ Num(p, MakeSet(x)) = 0 /\ Num(q, MakeSet(x)) = j
          /\ Num(p, DownSet(x)) = 0 /\ Num(q, DownSet(x)) = 0 /\ Num(p, LeaveSet(x)) = 0 /\ Num(q, LeaveSet(x)) = 0
      BY <2>2, <2>3, <2>4, <2>5, <2>6
    <2>9. j + v + e = 0 + w + e /\ k + i + (0 + w + e) = k + i + (j + v + e)
      BY <2>7
    <2>10. QED BY <1>1, <2>1, <2>6, <2>7, <2>8, <2>9 DEF Settled
  <1>17. \A i \in DOMAIN q : q[i] \in Held \/ FrameOK(q[i])'
    <2>1. FrameOK(a)' /\ FrameOK(b)'
      BY <1>1, <1>6, <1>7 DEF FrameOK, FrameKind, OfListener, OfConnector
    <2>2. QED BY <1>8, <2>1
  <1>18. ASSUME NEW l \in Socks
         PROVE  /\ accq'[l] # <<>> => l \in live /\ kind[l] = "listener"
                /\ \A i \in DOMAIN accq'[l] : kind[accq'[l][i]] = "connector"
    <2>1. CASE l = o
      <3>1. accq'[l] = d
        BY <1>0, <1>5, <2>1 DEF TypeInv
      <3>2. \A i \in DOMAIN c : kind[c[i]] = "connector"
        BY <1>0, <1>3 DEF QueueInv
      <3>3. \A i \in DOMAIN d : kind[d[i]] = "connector"
        BY <1>4, <3>2
      <3>4. QED BY <1>6, <2>1, <3>1, <3>3
    <2>2. CASE l # o
      BY <1>0, <1>5, <2>2 DEF QueueInv, TypeInv
    <2>3. QED BY <2>1, <2>2
  <1>19. ASSUME NEW x \in live', NEW i \in DOMAIN th[t], th[t][i] = Do("epipe", x)
         PROVE  FALSE
    <2>1. PICK p \in Seq(Frame) : p = th[t] /\ p # <<>> /\ Head(p) = h /\ Tail(p) = <<a>>
      BY <1>0, <1>1, <1>2, <1>9 DEF TypeInv
    <2>2. \A j \in DOMAIN p : p[j] = h \/ p[j] = a
      <3>1. p = <<h>> \o <<a>>
        BY <2>1, HeadTail
      <3>2. QED BY <3>1
    <2>3. th[t][i] = h \/ th[t][i] = a
      BY <1>19, <2>1, <2>2
    <2>4. QED BY <1>1, <1>2, <1>7, <1>19, <2>3 DEF Do
  <1>20. \A x \in Socks : epipe[x] => epipe'[x]
    BY <1>1
  <1>21. QED BY <1>1, <1>11, <1>12, <1>13, <1>14, <1>15, <1>16, <1>17, <1>18, <1>19, <1>20, QuietStack

LEMMA AcceptWaits ==
  ASSUME IInv, NEW t \in Threads, acceptq_rm(t), accq[Sock(t)] = <<>>
  PROVE  IInv'
  <1>0. TypeInv /\ ShapeInv /\ SleepJustified /\ ListenerVisible /\ HandInv
    BY DEF IInv
  <1>1. /\ th[t] # <<>> /\ Head(th[t]).op = "accept"
        /\ Goes(t, <<Do("asleep", Sock(t))>>, {})
        /\ map' = map /\ foreign' = foreign /\ live' = live /\ kind' = kind
        /\ sref' = sref /\ iref' = iref /\ peer' = peer
        /\ epipe' = epipe /\ rcv' = rcv /\ accq' = accq /\ open' = open
    BY DEF acceptq_rm, At, mapVars, refVars
  <1>2. PICK o \in Socks, h \in Frame, r \in Seq(Frame) :
           /\ o = Sock(t) /\ h = Head(th[t]) /\ r = Tail(th[t]) /\ h.o = o /\ h \in Held
           /\ Rest(r) /\ First(h, r) /\ Stack(r)
    BY <1>0, <1>1, Rests
  <1>3. PICK b \in Frame : b = Do("asleep", o) /\ b.op = "asleep" /\ b.o = o /\ b.p = None
    BY DoFrame
  <1>4. PICK fs \in Seq(Frame) : fs = <<b>> /\ Goes(t, fs, {}) /\ fs # <<>> /\ Head(fs) = b
    <2>1. <<b>> \in Seq(Frame) /\ Head(<<b>>) = b /\ <<b>> # <<>>
      OBVIOUS
    <2>2. QED BY <1>1, <1>2, <1>3, <2>1
  <1>5. /\ Turns(t, fs \o r) /\ fs \o r \in Seq(Frame) /\ th' \in [Threads -> Seq(Frame)]
        /\ fs \o r # <<>> /\ Head(fs \o r) = b
    BY <1>0, <1>1, <1>2, <1>4, GoOn, Sleeping
  <1>6. Stack(fs \o r)
    <2>1. First(b, r)
      BY <1>1, <1>2, <1>3 DEF First, Follows, Do
    <2>2. QED BY <1>2, <1>4, <2>1, PushOne
  <1>7. TypeInv'
    BY <1>0, <1>1, <1>5 DEF TypeInv
  <1>8. SleepJustified'
    <2>1. \A u \in Threads : u # t /\ th'[u] = th[u] =>
            /\ At(u, "asleep") => accq'[Sock(u)] = <<>>
            /\ At(u, "rsleep") => rcv'[Sock(u)] = 0 /\ ~epipe'[Sock(u)]
      BY <1>0, <1>1 DEF SleepJustified
    <2>2. PICK q \in Seq(Frame) : q = fs \o r
      BY <1>5
    <2>3. q # <<>> => /\ Head(q).op = "asleep" => accq'[Head(q).o] = <<>>
                      /\ Head(q).op = "rsleep" => rcv'[Head(q).o] = 0 /\ ~epipe'[Head(q).o]
      BY <1>1, <1>2, <1>3, <1>5, <2>2
    <2>4. Turns(t, q)
      BY <1>5, <2>2
    <2>5. QED BY <1>0, <2>1, <2>3, <2>4, GoSleep
  <1>9. ListenerVisible'
    BY <1>0, <1>1, ListenerKept
  <1>10. ASSUME NEW x \in Socks
         PROVE  /\ Num(fs, PutSet(x)) = PutW(h, x) /\ Num(fs, MakeSet(x)) = MakeW(h, x)
                /\ Num(fs, DownSet(x)) = DownW(h, x) /\ Num(fs, LeaveSet(x)) = LeaveW(h, x)
    <2>1. PutW(h, x) = 0 /\ MakeW(h, x) = 0 /\ DownW(h, x) = 0 /\ LeaveW(h, x) = 0
      BY <1>1, <1>2, NoWeight
    <2>2. PutW(b, x) = 0 /\ MakeW(b, x) = 0 /\ DownW(b, x) = 0 /\ LeaveW(b, x) = 0
      BY <1>3, NoWeight
    <2>3. /\ Num(<<b>>, PutSet(x)) = PutW(b, x) /\ Num(<<b>>, MakeSet(x)) = MakeW(b, x)
          /\ Num(<<b>>, DownSet(x)) = DownW(b, x) /\ Num(<<b>>, LeaveSet(x)) = LeaveW(b, x)
      BY OneW
    <2>4. QED BY <1>4, <2>1, <2>2, <2>3
  <1>11. \A i \in DOMAIN fs : FrameOK(fs[i])'
    <2>1. FrameOK(b)'
      BY <1>0, <1>1, <1>2, <1>3 DEF HandInv, FrameOK, FrameKind, OfListener, OfConnector
    <2>2. \A i \in DOMAIN fs : fs[i] = b
      BY <1>4
    <2>3. QED BY <2>1, <2>2
  <1>12. \A x \in Socks : epipe[x] => epipe'[x]
    BY <1>1
  <1>13. QED BY <1>1, <1>2, <1>5, <1>6, <1>7, <1>8, <1>9, <1>10, <1>11, <1>12, Still

LEMMA AcceptStep ==
  ASSUME IInv, NEW t \in Threads, acceptq_rm(t)
  PROVE  IInv'
  BY AcceptTakes, AcceptWaits

\* A connection that nobody accepted is closed.
LEMMA DrainMore ==
  ASSUME IInv, NEW t \in Threads, inproc_listener_close(t), accq[Sock(t)] # <<>>
  PROVE  IInv'
  <1>0. /\ TypeInv /\ ShapeInv /\ SleepJustified /\ ListenerVisible /\ HandInv /\ RefInv /\ QueueInv
        /\ live \subseteq Socks
    BY DEF IInv, TypeInv
  <1>1. /\ th[t] # <<>> /\ Head(th[t]).op = "drain"
        /\ Goes(t, Drained(Head(accq[Sock(t)])) \o <<Do("drain", Sock(t))>>, {})
        /\ accq' = [accq EXCEPT ![Sock(t)] = Tail(@)]
        /\ map' = map /\ foreign' = foreign /\ live' = live /\ kind' = kind
        /\ sref' = sref /\ iref' = iref /\ peer' = peer
        /\ epipe' = epipe /\ rcv' = rcv /\ open' = open
    BY DEF inproc_listener_close, At, mapVars, refVars
  <1>2. PICK o \in Socks, h \in Frame, r \in Seq(Frame) :
           /\ o = Sock(t) /\ h = Head(th[t]) /\ r = Tail(th[t]) /\ h.o = o /\ h \in Held
           /\ Rest(r) /\ First(h, r) /\ Stack(r)
    BY <1>0, <1>1, Rests
  <1>3. PICK c \in Seq(Socks), n \in Socks, d \in Seq(Socks) :
           /\ c = accq[o] /\ n = Head(c) /\ d = Tail(c) /\ c = <<n>> \o d /\ c # <<>>
    <2>1. PICK c \in Seq(Socks) : c = accq[o]
      BY <1>0 DEF TypeInv
    <2>2. c # <<>>
      BY <1>2, <2>1
    <2>3. Head(c) \in Socks /\ Tail(c) \in Seq(Socks) /\ c = <<Head(c)>> \o Tail(c)
      BY <2>2, HeadTail
    <2>4. QED BY <2>1, <2>2, <2>3
  <1>4. 1 \in DOMAIN c /\ c[1] = n /\ \A i \in DOMAIN d : i + 1 \in DOMAIN c /\ d[i] = c[i + 1]
    BY <1>3
  <1>5. accq' \in [Socks -> Seq(Socks)] /\ accq' = [accq EXCEPT ![o] = d]
    BY <1>0, <1>1, <1>2, <1>3 DEF TypeInv
  <1>6. o \in live /\ kind[o] = "listener" /\ kind[n] = "connector"
    BY <1>0, <1>3, <1>4 DEF QueueInv
  <1>7. PICK a \in Frame, b \in Frame, e \in Frame :
           /\ a = Do("epipe", n) /\ a.op = "epipe" /\ a.o = n /\ a.p = None
           /\ b = Do("put", n) /\ b.op = "put" /\ b.o = n /\ b.p = None
           /\ e = Do("drain", o) /\ e.op = "drain" /\ e.o = o /\ e.p = None
    BY DoFrame
  <1>8. PICK fs \in Seq(Frame) :
           /\ fs = <<a, b, e>> /\ Goes(t, fs, {}) /\ fs # <<>> /\ Head(fs) = a
           /\ 1 \in DOMAIN fs /\ fs[1] = a
           /\ \A i \in DOMAIN fs : fs[i] = a \/ fs[i] = b \/ fs[i] = e
    <2>1. <<a, b, e>> \in Seq(Frame) /\ <<a, b, e>> # <<>> /\ Head(<<a, b, e>>) = a
          /\ 1 \in DOMAIN <<a, b, e>> /\ <<a, b, e>>[1] = a
      OBVIOUS
    <2>2. \A i \in DOMAIN <<a, b, e>> : <<a, b, e>>[i] = a \/ <<a, b, e>>[i] = b \/ <<a, b, e>>[i] = e
      OBVIOUS
    <2>3. <<a, b>> \o <<e>> = <<a, b, e>>
      BY JoinThree
    <2>4. Drained(Head(accq[Sock(t)])) \o <<Do("drain", Sock(t))>> = <<a, b>> \o <<e>>
      BY <1>2, <1>3, <1>7 DEF Drained
    <2>5. QED BY <1>1, <2>1, <2>2, <2>3, <2>4
  <1>9. /\ Turns(t, fs \o r) /\ fs \o r \in Seq(Frame) /\ th' \in [Threads -> Seq(Frame)]
        /\ fs \o r # <<>> /\ Head(fs \o r) = a
    <2>1. Asleep({}) /\ Goes(t, fs, {}) /\ th[t] # <<>> /\ fs # <<>>
      BY <1>1, <1>8, Sleeping
    <2>2. /\ Turns(t, fs \o Tail(th[t])) /\ fs \o Tail(th[t]) \in Seq(Frame)
          /\ th' \in [Threads -> Seq(Frame)]
          /\ fs \o Tail(th[t]) # <<>> /\ Head(fs \o Tail(th[t])) = Head(fs)
      BY <1>0, <2>1, GoOn
    <2>3. QED BY <1>2, <1>8, <2>2
  <1>10. Stack(fs \o r)
    BY <1>2, <1>7, <1>8, PushThree
  <1>11. TypeInv'
    BY <1>0, <1>1, <1>5, <1>9 DEF TypeInv
  <1>12. SleepJustified'
    <2>1. PICK q \in Seq(Frame) : q = fs \o r
      BY <1>9
    <2>2. (q # <<>> => Head(q).op \notin {"asleep", "rsleep"}) /\ Turns(t, q)
      BY <1>7, <1>9, <2>1
    <2>3. ASSUME NEW u \in Threads, u # t, th'[u] = th[u]
          PROVE  /\ At(u, "asleep") => accq'[Sock(u)] = <<>>
                 /\ At(u, "rsleep") => rcv'[Sock(u)] = 0 /\ ~epipe'[Sock(u)]
      <3>1. At(u, "asleep") => accq[Sock(u)] = <<>> /\ Sock(u) \in Socks
        BY <1>0, InHand DEF SleepJustified, At
      <3>2. At(u, "asleep") => Sock(u) # o
        BY <1>3, <3>1
      <3>3. At(u, "asleep") => accq'[Sock(u)] = <<>>
        BY <1>0, <1>5, <3>1, <3>2 DEF TypeInv
      <3>4. QED BY <1>0, <1>1, <3>3 DEF SleepJustified
    <2>4. QED BY <1>0, <2>2, <2>3, GoSleep
  <1>13. ListenerVisible'
    BY <1>0, <1>1, ListenerKept
  <1>14. ASSUME NEW x \in Socks PROVE Settles(h, fs, x)
    <2>1. PutW(h, x) = 0 /\ MakeW(h, x) = 0 /\ DownW(h, x) = Is(o = x) /\ LeaveW(h, x) = 0
      BY <1>1, <1>2 DEF PutW, MakeW, DownW, LeaveW, Is
    <2>2. PICK k \in Nat, i \in Nat, j \in Nat, g \in Nat :
            k = sref[x] /\ i = Is(o = x) /\ j = Is(n = x) /\ g = Is(x \in open)
      BY <1>0 DEF TypeInv, Is
    <2>3. /\ PutW(a, x) = 0 /\ MakeW(a, x) = 0 /\ DownW(a, x) = 0 /\ LeaveW(a, x) = 0
          /\ PutW(b, x) = j /\ MakeW(b, x) = 0 /\ DownW(b, x) = 0 /\ LeaveW(b, x) = 0
          /\ PutW(e, x) = 0 /\ MakeW(e, x) = 0 /\ DownW(e, x) = i /\ LeaveW(e, x) = 0
      BY <1>7, <2>2 DEF PutW, MakeW, DownW, LeaveW, Is
    <2>4. /\ Num(fs, PutSet(x)) = PutW(a, x) + PutW(b, x) + PutW(e, x)
          /\ Num(fs, MakeSet(x)) = MakeW(a, x) + MakeW(b, x) + MakeW(e, x)
          /\ Num(fs, DownSet(x)) = DownW(a, x) + DownW(b, x) + DownW(e, x)
          /\ Num(fs, LeaveSet(x)) = LeaveW(a, x) + LeaveW(b, x) + LeaveW(e, x)
      BY <1>8, ThreeW
    <2>5. PICK w \in Nat, v \in Nat : w = Waits(x) /\ v = Waits(x)' /\ v + j = w
      <3>1. Waits(x)' + Is(Head(accq[o]) = x) = Waits(x) /\ Waits(x) \in Nat /\ Waits(x)' \in Nat
        BY <1>0, <1>1, <1>2, <1>3, WaitsRm
      <3>2. QED BY <1>3, <2>2, <3>1
    <2>6. /\ Num(fs, PutSet(x)) = j /\ Num(fs, MakeSet(x)) = 0
          /\ Num(fs, DownSet(x)) = i /\ Num(fs, LeaveSet(x)) = 0
      BY <2>3, <2>4
    <2>7. k + 0 + (0 + w + g) = k + j + (0 + v + g)
      BY <2>5
    <2>8. 0 + v + g = 0 + w + g \/ (0 + v + g <= 0 + w + g /\ \E m \in DOMAIN fs : fs[m] = Do("epipe", x))
      <3>1. CASE n = x
        <4>1. 0 + v + g <= 0 + w + g
          BY <2>5
        <4>2. fs[1] = Do("epipe", x) /\ 1 \in DOMAIN fs
          BY <1>7, <1>8, <3>1
        <4>3. QED BY <4>1, <4>2
      <3>2. CASE n # x
        <4>1. j = 0
          BY <2>2, <3>2 DEF Is
        <4>2. v = w
          BY <2>5, <4>1
        <4>3. QED BY <4>2
      <3>3. QED BY <3>1, <3>2
    <2>9. QED BY <1>1, <2>1, <2>2, <2>5, <2>6, <2>7, <2>8 DEF Settles
  <1>15. \A i \in DOMAIN fs : FrameOK(fs[i])'
    <2>1. map # o
      BY <1>0, <1>1, <1>2 DEF HandInv, FrameOK
    <2>2. FrameOK(a)' /\ FrameOK(b)' /\ FrameOK(e)'
      BY <1>1, <1>6, <1>7, <2>1 DEF FrameOK, FrameKind, OfListener, OfConnector
    <2>3. QED BY <1>8, <2>2
  <1>16. ASSUME NEW l \in Socks
         PROVE  /\ accq'[l] # <<>> => l \in live /\ kind[l] = "listener"
                /\ \A i \in DOMAIN accq'[l] : kind[accq'[l][i]] = "connector"
    <2>1. CASE l = o
      <3>1. accq'[l] = d
        BY <1>0, <1>5, <2>1 DEF TypeInv
      <3>2. \A i \in DOMAIN c : kind[c[i]] = "connector"
        BY SMTT(60), <1>0, <1>3 DEF QueueInv
      <3>3. \A i \in DOMAIN d : kind[d[i]] = "connector"
        BY <1>4, <3>2
      <3>4. QED BY <1>6, <2>1, <3>1, <3>3
    <2>2. CASE l # o
      BY <1>0, <1>5, <2>2 DEF QueueInv, TypeInv
    <2>3. QED BY <2>1, <2>2
  <1>17. QED BY <1>1, <1>2, <1>9, <1>10, <1>11, <1>12, <1>13, <1>14, <1>15, <1>16, QuietGo

LEMMA NothingSeq == \E r \in Seq(Frame) : r = <<>> /\ Rest(r)
  <1>1. <<>> \in Seq(Frame)
    OBVIOUS
  <1>2. QED BY <1>1, RestEmpty

\* The steps of a close.
LEMMA Closing ==
  ASSUME NEW o \in Socks
  PROVE  /\ XClose(o) \in Seq(Frame) /\ XClose(o) # <<>> /\ Head(XClose(o)) = Do("epipe", o)
         /\ 1 \in DOMAIN XClose(o) /\ XClose(o)[1] = Do("epipe", o)
         /\ \A i \in DOMAIN XClose(o) : XClose(o)[i] = Do("epipe", o) \/ XClose(o)[i] = Do("put", o)
         /\ Rest(XClose(o))
         /\ \A x \in Socks : /\ Num(XClose(o), PutSet(x)) = Is(o = x) + Is(o = x)
                             /\ Num(XClose(o), MakeSet(x)) = 0 /\ Num(XClose(o), DownSet(x)) = 0
                             /\ Num(XClose(o), LeaveSet(x)) = 0
  <1>1. PICK a \in Frame, b \in Frame :
           /\ a = Do("epipe", o) /\ a.op = "epipe" /\ a.o = o /\ a.p = None
           /\ b = Do("put", o) /\ b.op = "put" /\ b.o = o /\ b.p = None
    BY DoFrame
  <1>2. XClose(o) = <<a, b, b>>
    BY <1>1 DEF XClose
  <1>3. /\ <<a, b, b>> \in Seq(Frame) /\ <<a, b, b>> # <<>> /\ Head(<<a, b, b>>) = a
        /\ 1 \in DOMAIN <<a, b, b>> /\ <<a, b, b>>[1] = a
    OBVIOUS
  <1>4. \A i \in DOMAIN <<a, b, b>> : <<a, b, b>>[i] = a \/ <<a, b, b>>[i] = b
    OBVIOUS
  <1>5. Rest(<<a, b, b>>)
    BY <1>1, RestShort
  <1>6. ASSUME NEW x \in Socks
        PROVE  /\ Num(<<a, b, b>>, PutSet(x)) = Is(o = x) + Is(o = x)
               /\ Num(<<a, b, b>>, MakeSet(x)) = 0 /\ Num(<<a, b, b>>, DownSet(x)) = 0
               /\ Num(<<a, b, b>>, LeaveSet(x)) = 0
    <2>1. PICK i \in Nat : i = Is(o = x)
      BY DEF Is
    <2>2. /\ PutW(a, x) = 0 /\ MakeW(a, x) = 0 /\ DownW(a, x) = 0 /\ LeaveW(a, x) = 0
          /\ PutW(b, x) = i /\ MakeW(b, x) = 0 /\ DownW(b, x) = 0 /\ LeaveW(b, x) = 0
      BY <1>1, <2>1 DEF PutW, MakeW, DownW, LeaveW, Is
    <2>3. /\ Num(<<a, b, b>>, PutSet(x)) = PutW(a, x) + PutW(b, x) + PutW(b, x)
          /\ Num(<<a, b, b>>, MakeSet(x)) = MakeW(a, x) + MakeW(b, x) + MakeW(b, x)
          /\ Num(<<a, b, b>>, DownSet(x)) = DownW(a, x) + DownW(b, x) + DownW(b, x)
          /\ Num(<<a, b, b>>, LeaveSet(x)) = LeaveW(a, x) + LeaveW(b, x) + LeaveW(b, x)
      BY ThreeW
    <2>4. QED BY <2>1, <2>2, <2>3
  <1>7. QED BY <1>1, <1>2, <1>3, <1>4, <1>5, <1>6

LEMMA CloseStack ==
  ASSUME NEW o \in Socks, NEW r \in Seq(Frame), Rest(r)
  PROVE  Stack(XClose(o) \o r) /\ XClose(o) \o r \in Seq(Frame)
  <1>1. PICK a \in Frame, b \in Frame :
           /\ a = Do("epipe", o) /\ a.op = "epipe" /\ a.o = o /\ a.p = None
           /\ b = Do("put", o) /\ b.op = "put" /\ b.o = o /\ b.p = None
    BY DoFrame
  <1>2. XClose(o) = <<a, b, b>>
    BY <1>1 DEF XClose
  <1>3. Stack(<<a, b, b>> \o r) /\ <<a, b, b>> \o r \in Seq(Frame)
    BY <1>1, PushThree
  <1>4. QED BY <1>2, <1>3

LEMMA PlainOK ==
  ASSUME NEW o \in Socks
  PROVE  FrameOK(Do("epipe", o))' /\ FrameOK(Do("put", o))'
  BY DEF FrameOK, FrameKind, OfListener, OfConnector, Do

\* A listen or a connect that fails: the socket is closed.
LEMMA FailStep ==
  ASSUME IInv, NEW t \in Threads, th[t] # <<>>, Head(th[t]).op \in {"addlistener", "getlistener"},
         Goes(t, XClose(Sock(t)), {}), sref' = [sref EXCEPT ![Sock(t)] = @ + 1],
         map' = map, foreign' = foreign, live' = live, kind' = kind, iref' = iref, peer' = peer,
         epipe' = epipe, rcv' = rcv, accq' = accq, open' = open
  PROVE  IInv'
  <1>0. /\ TypeInv /\ ShapeInv /\ SleepJustified /\ ListenerVisible /\ HandInv /\ RefInv /\ QueueInv
        /\ LifeInv /\ live \subseteq Socks
    BY DEF IInv, TypeInv
  <1>2. PICK o \in Socks, h \in Frame, r \in Seq(Frame) :
           /\ o = Sock(t) /\ h = Head(th[t]) /\ r = Tail(th[t]) /\ h.o = o /\ h \in Held
           /\ Rest(r) /\ First(h, r) /\ Stack(r)
    BY <1>0, Rests
  <1>3. PICK fs \in Seq(Frame) :
          /\ fs = XClose(o) /\ Goes(t, fs, {}) /\ fs # <<>> /\ Head(fs).op = "epipe"
          /\ 1 \in DOMAIN fs /\ fs[1] = Do("epipe", o)
          /\ \A i \in DOMAIN fs : fs[i] = Do("epipe", o) \/ fs[i] = Do("put", o)
    BY <1>2, Closing DEF Do
  <1>4. /\ Turns(t, fs \o r) /\ fs \o r \in Seq(Frame) /\ th' \in [Threads -> Seq(Frame)]
        /\ fs \o r # <<>> /\ Head(fs \o r) = Head(fs)
    BY <1>0, <1>2, <1>3, GoOn, Sleeping
  <1>5. Stack(fs \o r)
    BY <1>2, <1>3, CloseStack
  <1>6. sref' \in [Socks -> Nat] /\ sref'[o] = sref[o] + 1 /\ \A x \in Socks : x # o => sref'[x] = sref[x]
    BY <1>0, <1>2 DEF TypeInv
  <1>7. TypeInv'
    BY <1>0, <1>4, <1>6 DEF TypeInv
  <1>8. SleepJustified'
    <2>1. PICK q \in Seq(Frame) : q = fs \o r
      BY <1>4
    <2>2. (q # <<>> => Head(q).op \notin {"asleep", "rsleep"}) /\ Turns(t, q)
      BY <1>3, <1>4, <2>1
    <2>3. QED BY <1>0, <2>2, SleepStill
  <1>9. ListenerVisible'
    BY <1>0, ListenerKept
  <1>10. sref[o] > 0
    <2>1. h \in MakeSet(o)
      BY <1>2 DEF MakeSet, Solid
    <2>2. Makes(o) > 0
      BY <1>0, <1>2, <2>1, Tallies
    <2>3. QED BY <1>0, <2>2, Referenced
  <1>11. ASSUME NEW x \in Socks PROVE Settles(h, fs, x)
    <2>1. PICK k \in Nat, i \in Nat, g \in Nat, w \in Nat, v \in Nat :
            k = sref[x] /\ i = Is(o = x) /\ g = Is(x \in open) /\ w = Waits(x) /\ v = sref'[x]
      BY <1>0, <1>6, WaitsNat DEF TypeInv, Is
    <2>2. PutW(h, x) = 0 /\ MakeW(h, x) = i /\ DownW(h, x) = 0 /\ LeaveW(h, x) = 0
      BY <1>2, <2>1 DEF PutW, MakeW, DownW, LeaveW, Is
    <2>3. /\ Num(fs, PutSet(x)) = i + i /\ Num(fs, MakeSet(x)) = 0 /\ Num(fs, DownSet(x)) = 0
          /\ Num(fs, LeaveSet(x)) = 0
      BY <1>3, <2>1, Closing
    <2>4. Waits(x)' = w
      BY <1>0, <2>1, WaitsKeep
    <2>5. v = k + i /\ (i = 0 \/ o = x)
      BY <1>6, <2>1 DEF Is
    <2>6. v + 0 + (i + w + g) = k + (i + i) + (0 + w + g)
      BY <2>5
    <2>7. 0 + w + g = i + w + g \/ (0 + w + g <= i + w + g /\ \E m \in DOMAIN fs : fs[m] = Do("epipe", x))
      <3>1. CASE o = x
        BY <1>3, <3>1
      <3>2. CASE i = 0
        BY <3>2
      <3>3. QED BY <2>5, <3>1, <3>2
    <2>8. v > 0 <=> k > 0
      BY <1>10, <2>1, <2>5
    <2>9. QED BY <2>1, <2>2, <2>3, <2>4, <2>6, <2>7, <2>8 DEF Settles
  <1>12. \A i \in DOMAIN fs : FrameOK(fs[i])'
    BY <1>3, PlainOK
  <1>13. \A l \in Socks : /\ accq'[l] # <<>> => l \in live /\ kind[l] = "listener"
                          /\ \A i \in DOMAIN accq'[l] : kind[accq'[l][i]] = "connector"
    BY <1>0 DEF QueueInv
  <1>14. QED BY <1>2, <1>4, <1>5, <1>7, <1>8, <1>9, <1>11, <1>12, <1>13, QuietGo

LEMMA AddListenerStep ==
  ASSUME IInv, NEW t \in Threads, addlistener(t)
  PROVE  IInv'
  <1>0. /\ TypeInv /\ ShapeInv /\ SleepJustified /\ ListenerVisible /\ HandInv /\ RefInv /\ QueueInv
        /\ LifeInv /\ live \subseteq Socks /\ open \subseteq Socks
    BY DEF IInv, TypeInv
  <1>1. /\ th[t] # <<>> /\ Head(th[t]).op = "addlistener"
        /\ IF map = None
           THEN map' = Sock(t) /\ open' = open \cup {Sock(t)} /\ Goes(t, <<>>, {}) /\ foreign' = foreign /\ sref' = sref
           ELSE /\ sref' = [sref EXCEPT ![Sock(t)] = @ + 1]
                /\ Goes(t, XClose(Sock(t)), {})
                /\ map' = map /\ foreign' = foreign /\ open' = open
        /\ live' = live /\ kind' = kind /\ iref' = iref /\ peer' = peer
        /\ epipe' = epipe /\ rcv' = rcv /\ accq' = accq
    BY DEF addlistener, At, mapVars, flowVars
  <1>2. CASE map # None
    BY <1>1, <1>2, FailStep
  <1>3. CASE map = None
    <2>1. PICK o \in Socks, h \in Frame, r \in Seq(Frame) :
             /\ o = Sock(t) /\ h = Head(th[t]) /\ r = Tail(th[t]) /\ h.o = o /\ h \in Held
             /\ Rest(r) /\ First(h, r) /\ Stack(r)
      BY <1>0, <1>1, Rests
    <2>2. PICK fs \in Seq(Frame) : fs = <<>> /\ Goes(t, fs, {})
      <3>1. <<>> \in Seq(Frame)
        OBVIOUS
      <3>2. QED BY <1>1, <1>3, <3>1
    <2>3. map' = o /\ open' = open \cup {o} /\ foreign' = foreign /\ sref' = sref
      BY <1>1, <1>3, <2>1
    <2>4. /\ Turns(t, fs \o r) /\ fs \o r \in Seq(Frame)
          /\ th' \in [Threads -> Seq(Frame)] /\ Stack(fs \o r)
          /\ fs \o r # <<>> => Head(fs \o r).op \in Later
      BY <1>0, <1>1, <2>1, <2>2, GoOn, Sleeping
    <2>5. TypeInv'
      BY <1>0, <1>1, <2>3, <2>4 DEF TypeInv
    <2>6. SleepJustified'
      <3>1. PICK q \in Seq(Frame) : q = fs \o r
        BY <2>4
      <3>2. (q # <<>> => Head(q).op \notin {"asleep", "rsleep"}) /\ Turns(t, q)
        BY <2>4, <3>1 DEF Later
      <3>3. QED BY <1>0, <1>1, <3>2, SleepStill
    <2>7. ListenerVisible'
      BY <1>0, <1>1, <1>3, <2>3, InprocAssumption DEF ListenerVisible
    <2>8. h \in MakeSet(o) /\ Makes(o) > 0 /\ Makes(o) \in Nat /\ Waits(o) \in Nat
      <3>1. h \in MakeSet(o)
        BY <1>1, <2>1 DEF MakeSet, Solid
      <3>2. QED BY <1>0, <2>1, <3>1, Tallies
    <2>9. o \notin open
      <3>1. Makes(o) + Waits(o) + Is(o \in open) <= 1
        BY <1>0 DEF RefInv, Base
      <3>2. QED BY <2>8, <3>1 DEF Is
    <2>10. map' \in live /\ kind[map'] = "listener" /\ sref[map'] > 0
      <3>1. kind[o] = "listener"
        BY <1>0, <1>1, <2>1 DEF HandInv, FrameOK, FrameKind, OfListener
      <3>2. sref[o] > 0 /\ o \in live
        BY <1>0, <2>8, Referenced
      <3>3. QED BY <2>3, <3>1, <3>2
    <2>11. ASSUME NEW x \in Socks PROVE Settles(h, fs, x)
      <3>1. PutW(h, x) = 0 /\ MakeW(h, x) = Is(o = x) /\ DownW(h, x) = 0 /\ LeaveW(h, x) = 0
        BY <1>1, <2>1 DEF PutW, MakeW, DownW, LeaveW, Is
      <3>2. /\ Num(fs, PutSet(x)) = 0 /\ Num(fs, MakeSet(x)) = 0 /\ Num(fs, DownSet(x)) = 0
            /\ Num(fs, LeaveSet(x)) = 0
        BY <2>2, NumEmpty
      <3>3. PICK w \in Nat : w = Waits(x) /\ w = Waits(x)'
        BY <1>0, <1>1, WaitsKeep
      <3>4. PICK k \in Nat, i \in Nat : k = sref[x] /\ i = Is(o = x)
        BY <1>0 DEF TypeInv, Is
      <3>5. PICK a \in Nat, b \in Nat : a = Is(x \in open) /\ b = Is(x \in open') /\ b = a + i
        BY <2>3, <2>9, <3>4 DEF Is
      <3>6. i + w + a = 0 + w + b /\ k + 0 + (i + w + a) = k + 0 + (0 + w + b)
        BY <3>5
      <3>7. QED BY <2>3, <3>1, <3>2, <3>3, <3>4, <3>5, <3>6 DEF Settles
    <2>12. \A i \in DOMAIN fs : FrameOK(fs[i])'
      BY <2>2
    <2>13. \A l \in Socks : /\ accq'[l] # <<>> => l \in live /\ kind[l] = "listener"
                            /\ \A i \in DOMAIN accq'[l] : kind[accq'[l][i]] = "connector"
      BY <1>0, <1>1 DEF QueueInv
    <2>14. QED BY <1>1, <2>1, <2>4, <2>5, <2>6, <2>7, <2>10, <2>11, <2>12, <2>13, QuietGo
  <1>4. QED BY <1>2, <1>3

\* A listener in the map that does not close is referenced.
LEMMA Listening ==
  ASSUME IInv, map # None, ~epipe[map]
  PROVE  map \in Socks /\ map \in live /\ kind[map] = "listener" /\ sref[map] > 0
  <1>0. TypeInv /\ ShapeInv /\ RefInv /\ LifeInv /\ MapInv /\ EpipeInv
    BY DEF IInv
  <1>1. map \in Socks /\ map \in live /\ kind[map] = "listener"
    BY <1>0 DEF MapInv, TypeInv
  <1>2. sref[map] = Puts(map) + Base(map) /\ Puts(map) \in Nat /\ Base(map) \in Nat
    BY <1>0, <1>1, Tallies DEF RefInv
  <1>3. Base(map) = 0 => Puts(map) > 0
    <2>1. SUFFICES ASSUME Base(map) = 0 PROVE Puts(map) > 0
      OBVIOUS
    <2>2. Do("epipe", map) \in Held
      BY <1>0, <1>1, <2>1 DEF EpipeInv
    <2>3. PICK f \in Held : f = Do("epipe", map) /\ f.op = "epipe" /\ f.o = map
      BY <2>2 DEF Do
    <2>4. Do("put", map) \in Held
      BY <1>0, <2>3, Due
    <2>5. PICK g \in Held : g = Do("put", map) /\ g.op = "put" /\ g.o = map /\ g \in Frame
      BY <1>1, <2>4, DoFrame
    <2>6. g \in PutSet(map)
      BY <2>5 DEF PutSet, Solid
    <2>7. QED BY <1>0, <1>1, <2>6, Tallies
  <1>4. QED BY <1>1, <1>2, <1>3

\* The steps of a connect.
LEMMA Connecting ==
  ASSUME NEW a \in Frame, NEW b \in Frame, NEW c \in Frame,
         a.op = "pair", a.p \in Socks, b = Do("put", a.p), c = Do("return", a.o)
  PROVE  /\ <<a, b, c>> \in Seq(Frame) /\ <<a, b, c>> # <<>> /\ Head(<<a, b, c>>) = a
         /\ \A i \in DOMAIN <<a, b, c>> : <<a, b, c>>[i] = a \/ <<a, b, c>>[i] = b \/ <<a, b, c>>[i] = c
         /\ Stack(<<a, b, c>>)
  <1>1. /\ <<a, b, c>> \in Seq(Frame) /\ <<a, b, c>> # <<>> /\ Head(<<a, b, c>>) = a
        /\ Tail(<<a, b, c>>) = <<b, c>>
    OBVIOUS
  <1>2. \A i \in DOMAIN <<a, b, c>> : <<a, b, c>>[i] = a \/ <<a, b, c>>[i] = b \/ <<a, b, c>>[i] = c
    OBVIOUS
  <1>3. b.op = "put" /\ b.p = None /\ c.op = "return" /\ c.p = None
    BY DEF Do
  <1>4. Rest(<<b, c>>)
    <2>1. /\ DOMAIN <<b, c>> = {1, 2} /\ <<b, c>>[1] = b /\ <<b, c>>[2] = c
      OBVIOUS
    <2>2. \A i \in DOMAIN <<b, c>> : <<b, c>>[i].op \in {"put", "return"} /\ <<b, c>>[i].p = None
      BY <1>3, <2>1
    <2>3. QED BY <2>2 DEF Rest, Later
  <1>5. First(a, <<b, c>>)
    BY DEF First, Follows
  <1>6. QED BY <1>1, <1>2, <1>4, <1>5 DEF Stack

LEMMA GetListenerStep ==
  ASSUME IInv, NEW t \in Threads, getlistener(t)
  PROVE  IInv'
  <1>0. /\ TypeInv /\ ShapeInv /\ SleepJustified /\ ListenerVisible /\ HandInv /\ RefInv /\ QueueInv
        /\ LifeInv /\ live \subseteq Socks /\ open \subseteq Socks
    BY DEF IInv, TypeInv
  <1>1. /\ th[t] # <<>> /\ Head(th[t]).op = "getlistener"
        /\ map' = map /\ foreign' = foreign /\ live' = live /\ kind' = kind /\ iref' = iref /\ peer' = peer
        /\ epipe' = epipe /\ rcv' = rcv /\ accq' = accq /\ open' = open
    BY DEF getlistener, At, mapVars, flowVars
  <1>2. CASE ~(map # None /\ ~epipe[map])
    <2>1. sref' = [sref EXCEPT ![Sock(t)] = @ + 1] /\ Goes(t, XClose(Sock(t)), {})
      BY <1>2 DEF getlistener
    <2>2. QED BY <1>1, <2>1, FailStep
  <1>3. CASE map # None /\ ~epipe[map]
    <2>1. PICK o \in Socks, h \in Frame, r \in Seq(Frame) :
             /\ o = Sock(t) /\ h = Head(th[t]) /\ r = Tail(th[t]) /\ h.o = o /\ h \in Held
             /\ Rest(r) /\ First(h, r) /\ Stack(r)
      BY <1>0, <1>1, Rests
    <2>2. PICK l \in Socks : l = map /\ l \in live /\ kind[l] = "listener" /\ sref[l] > 0
      BY <1>3, Listening
    <2>3. /\ sref' = [sref EXCEPT ![l] = @ + 1]
          /\ Goes(t, <<[op |-> "pair", o |-> o, p |-> l], Do("put", l), Do("return", o)>>, {})
      BY <1>3, <2>1, <2>2 DEF getlistener
    <2>4. PICK a \in Frame, b \in Frame, c \in Frame :
            /\ a = [op |-> "pair", o |-> o, p |-> l] /\ a.op = "pair" /\ a.o = o /\ a.p = l
            /\ b = Do("put", l) /\ b.op = "put" /\ b.o = l /\ b.p = None
            /\ c = Do("return", o) /\ c.op = "return" /\ c.o = o /\ c.p = None
      <3>1. PICK a \in Frame : a = [op |-> "pair", o |-> o, p |-> l] /\ a.op = "pair" /\ a.o = o /\ a.p = l
        <4>1. [op |-> "pair", o |-> o, p |-> l] \in Frame
          BY DEF Frame
        <4>2. QED BY <4>1
      <3>2. QED BY <3>1, DoFrame
    <2>5. PICK fs \in Seq(Frame) :
            /\ fs = <<a, b, c>> /\ Goes(t, fs, {}) /\ fs # <<>> /\ Head(fs) = a /\ Stack(fs)
            /\ \A i \in DOMAIN fs : fs[i] = a \/ fs[i] = b \/ fs[i] = c
      <3>1. /\ <<a, b, c>> \in Seq(Frame) /\ <<a, b, c>> # <<>> /\ Head(<<a, b, c>>) = a
            /\ \A i \in DOMAIN <<a, b, c>> : <<a, b, c>>[i] = a \/ <<a, b, c>>[i] = b \/ <<a, b, c>>[i] = c
            /\ Stack(<<a, b, c>>)
        BY <2>4, Connecting
      <3>2. QED BY <2>3, <2>4, <3>1
    <2>6. r = <<>>
      BY <1>1, <2>1 DEF First
    <2>7. fs \o r = fs
      BY <2>6
    <2>8. Turns(t, fs \o r) /\ th' \in [Threads -> Seq(Frame)] /\ Turns(t, fs) /\ Stack(fs \o r)
      <3>1. Turns(t, fs \o r) /\ th' \in [Threads -> Seq(Frame)]
        BY <1>0, <1>1, <2>1, <2>5, GoOn, Sleeping
      <3>2. QED BY <2>5, <2>7, <3>1
    <2>9. sref' \in [Socks -> Nat] /\ sref'[l] = sref[l] + 1 /\ \A x \in Socks : x # l => sref'[x] = sref[x]
      BY SMTT(60), <1>0, <2>3 DEF TypeInv
    <2>10. TypeInv'
      BY <1>0, <1>1, <2>8, <2>9 DEF TypeInv
    <2>11. SleepJustified'
      <3>1. fs # <<>> => Head(fs).op \notin {"asleep", "rsleep"}
        BY <2>4, <2>5
      <3>2. QED BY <1>0, <1>1, <2>8, <3>1, SleepStill
    <2>12. ListenerVisible'
      BY <1>0, <1>1, ListenerKept
    <2>13. ASSUME NEW x \in Socks PROVE Settles(h, fs, x)
      <3>1. PICK k \in Nat, i \in Nat, j \in Nat, g \in Nat, w \in Nat, v \in Nat :
              k = sref[x] /\ i = Is(o = x) /\ j = Is(l = x) /\ g = Is(x \in open) /\ w = Waits(x) /\ v = sref'[x]
        BY <1>0, <2>9, WaitsNat DEF TypeInv, Is
      <3>2. PutW(h, x) = 0 /\ MakeW(h, x) = i /\ DownW(h, x) = 0 /\ LeaveW(h, x) = 0
        BY <1>1, <2>1, <3>1 DEF PutW, MakeW, DownW, LeaveW, Is
      <3>3. /\ PutW(a, x) = 0 /\ MakeW(a, x) = 0 /\ DownW(a, x) = 0 /\ LeaveW(a, x) = 0
            /\ PutW(b, x) = j /\ MakeW(b, x) = 0 /\ DownW(b, x) = 0 /\ LeaveW(b, x) = 0
            /\ PutW(c, x) = 0 /\ MakeW(c, x) = i /\ DownW(c, x) = 0 /\ LeaveW(c, x) = 0
        BY <2>4, <3>1 DEF PutW, MakeW, DownW, LeaveW, Is
      <3>4. /\ Num(fs, PutSet(x)) = PutW(a, x) + PutW(b, x) + PutW(c, x)
            /\ Num(fs, MakeSet(x)) = MakeW(a, x) + MakeW(b, x) + MakeW(c, x)
            /\ Num(fs, DownSet(x)) = DownW(a, x) + DownW(b, x) + DownW(c, x)
            /\ Num(fs, LeaveSet(x)) = LeaveW(a, x) + LeaveW(b, x) + LeaveW(c, x)
        BY <2>5, ThreeW
      <3>5. /\ Num(fs, PutSet(x)) = j /\ Num(fs, MakeSet(x)) = i
            /\ Num(fs, DownSet(x)) = 0 /\ Num(fs, LeaveSet(x)) = 0
        BY <3>3, <3>4
      <3>6. Waits(x)' = w
        BY <1>0, <1>1, <3>1, WaitsKeep
      <3>7. v = k + j /\ (v > 0 <=> k > 0)
        BY <2>2, <2>9, <3>1 DEF Is
      <3>8. v + 0 + (i + w + g) = k + j + (i + w + g)
        BY <3>7
      <3>9. QED BY <1>1, <3>1, <3>2, <3>5, <3>6, <3>7, <3>8 DEF Settles
    <2>14. \A i \in DOMAIN fs : FrameOK(fs[i])'
      <3>1. kind[o] = "connector" /\ peer[o] = None /\ Pointers(o) = {} /\ FrameOK(h)
        BY <1>0, <1>1, <2>1 DEF HandInv, FrameOK, FrameKind, OfConnector
      <3>2. Pointers(o)' = {}
        BY <1>1, <3>1 DEF Pointers
      <3>3. FrameOK(a)' /\ FrameOK(b)' /\ FrameOK(c)'
        BY <1>1, <2>2, <2>4, <3>1, <3>2 DEF FrameOK, FrameKind, OfListener, OfConnector
      <3>4. QED BY <2>5, <3>3
    <2>15. \A k \in Socks : /\ accq'[k] # <<>> => k \in live /\ kind[k] = "listener"
                            /\ \A i \in DOMAIN accq'[k] : kind[accq'[k][i]] = "connector"
      BY <1>0, <1>1 DEF QueueInv
    <2>16. QED BY <1>1, <2>1, <2>8, <2>10, <2>11, <2>12, <2>13, <2>14, <2>15, QuietGo
  <1>4. QED BY <1>2, <1>3

\* No memory: the listener is put and the socket closed.
LEMMA PairFailsStep ==
  ASSUME IInv, NEW t \in Threads, PairFails(t)
  PROVE  IInv'
  <1>0. /\ TypeInv /\ ShapeInv /\ SleepJustified /\ ListenerVisible /\ HandInv /\ RefInv /\ QueueInv
        /\ LifeInv /\ live \subseteq Socks /\ open \subseteq Socks
    BY DEF IInv, TypeInv
  <1>1. /\ th[t] # <<>> /\ Head(th[t]).op = "pair"
        /\ sref' = [sref EXCEPT ![Sock(t)] = @ + 1]
        /\ th' = [th EXCEPT ![t] = <<Do("put", Peer(t))>> \o XClose(Sock(t))]
        /\ map' = map /\ foreign' = foreign /\ live' = live /\ kind' = kind /\ iref' = iref /\ peer' = peer
        /\ epipe' = epipe /\ rcv' = rcv /\ accq' = accq /\ open' = open
    BY DEF PairFails, At, mapVars, flowVars
  <1>2. PICK o \in Socks, h \in Frame, r \in Seq(Frame) :
           /\ o = Sock(t) /\ h = Head(th[t]) /\ r = Tail(th[t]) /\ h.o = o /\ h \in Held
           /\ Rest(r) /\ First(h, r) /\ Stack(r)
    BY <1>0, <1>1, Rests
  <1>3. PICK l \in Socks : l = h.p /\ l = Peer(t)
    BY <1>1, <1>2 DEF First, Peer
  <1>4. PICK b \in Frame, c \in Frame :
           /\ b = Do("put", l) /\ b.op = "put" /\ b.o = l /\ b.p = None
           /\ c = Do("return", o) /\ c.op = "return" /\ c.o = o /\ c.p = None
    BY DoFrame
  <1>5. r = <<b, c>>
    BY <1>1, <1>2, <1>3, <1>4 DEF First
  <1>6. PICK cs \in Seq(Frame) :
          /\ cs = XClose(o) /\ Rest(cs) /\ 1 \in DOMAIN cs /\ cs[1] = Do("epipe", o)
          /\ \A i \in DOMAIN cs : cs[i] = Do("epipe", o) \/ cs[i] = Do("put", o)
    BY Closing
  <1>7. PICK q \in Seq(Frame) : q = <<b>> \o cs
    <2>1. <<b>> \o cs \in Seq(Frame)
      <3>1. <<b>> \in Seq(Frame)
        OBVIOUS
      <3>2. QED BY <3>1
    <2>2. QED BY <2>1
  <1>8. /\ q # <<>> /\ Head(q) = b /\ 2 \in DOMAIN q /\ q[2] = cs[1]
        /\ \A i \in DOMAIN q : q[i] = b \/ \E j \in DOMAIN cs : q[i] = cs[j]
    <2>1. q # <<>> /\ Head(q) = b
      BY <1>7
    <2>2. 2 \in DOMAIN q /\ q[2] = cs[1]
      BY <1>6, <1>7
    <2>3. ASSUME NEW i \in DOMAIN q, i # 1 PROVE i - 1 \in DOMAIN cs /\ q[i] = cs[i - 1]
      BY <1>7, <2>3
    <2>4. q[1] = b
      BY <1>7
    <2>5. QED BY <2>1, <2>2, <2>3, <2>4
  <1>9. th' = [th EXCEPT ![t] = q]
    BY <1>1, <1>2, <1>3, <1>4, <1>6, <1>7
  <1>10. Turns(t, q)
    BY <1>0, <1>9, SetTurns
  <1>11. Stack(q)
    <2>1. First(b, cs)
      BY <1>4 DEF First, Follows
    <2>2. QED BY <1>6, <1>7, <2>1, PushOne
  <1>12. sref' \in [Socks -> Nat] /\ sref'[o] = sref[o] + 1 /\ \A x \in Socks : x # o => sref'[x] = sref[x]
    BY SMTT(60), <1>0, <1>1, <1>2 DEF TypeInv
  <1>13. TypeInv'
    BY <1>0, <1>1, <1>10, <1>12 DEF TypeInv, Turns
  <1>14. SleepJustified'
    <2>1. q # <<>> => Head(q).op \notin {"asleep", "rsleep"}
      BY <1>4, <1>8
    <2>2. QED BY <1>0, <1>1, <1>10, <2>1, SleepStill
  <1>15. ListenerVisible'
    BY <1>0, <1>1, ListenerKept
  <1>16. PICK p \in Seq(Frame) : p = th[t] /\ p # <<>> /\ Head(p) = h /\ Tail(p) = r /\ p = <<h>> \o r
    <2>1. PICK p \in Seq(Frame) : p = th[t]
      BY <1>0 DEF TypeInv
    <2>2. p # <<>> /\ Head(p) = h /\ Tail(p) = r
      BY <1>1, <1>2, <2>1
    <2>3. QED BY <2>1, <2>2, HeadTail
  <1>17. sref[o] > 0
    <2>1. c \in Held
      <3>1. 2 \in DOMAIN r /\ r[2] = c
        BY <1>5
      <3>2. QED BY <1>0, <1>1, <1>2, <3>1, InHand
    <2>2. c \in MakeSet(o)
      BY <1>4 DEF MakeSet, Solid
    <2>3. QED BY <1>0, <2>1, <2>2, Tallies, Referenced
  <1>18. ASSUME NEW x \in Socks PROVE Settled(t, q, x)
    <2>1. PICK k \in Nat, i \in Nat, j \in Nat, g \in Nat, w \in Nat, v \in Nat :
            k = sref[x] /\ i = Is(o = x) /\ j = Is(l = x) /\ g = Is(x \in open) /\ w = Waits(x) /\ v = sref'[x]
      <3>1. sref[x] \in Nat /\ sref'[x] \in Nat /\ Waits(x) \in Nat
        BY <1>0, <1>12, WaitsNat DEF TypeInv
      <3>2. Is(o = x) \in Nat /\ Is(l = x) \in Nat /\ Is(x \in open) \in Nat
        BY DEF Is
      <3>3. QED BY <3>1, <3>2
    <2>2. ASSUME NEW S
          PROVE  /\ Num(p, S) = Is(h \in S) + Num(<<b, c>>, S)
                 /\ Num(q, S) = Is(b \in S) + Num(cs, S)
      <3>1. Num(p, S) = Is(h \in S) + Num(r, S)
        BY <1>16, NumTail
      <3>2. Num(q, S) = Is(Head(q) \in S) + Num(Tail(q), S)
        BY <1>8, NumTail
      <3>3. Tail(q) = cs
        BY <1>7
      <3>4. QED BY <1>5, <1>8, <3>1, <3>2, <3>3
    <2>3. /\ Is(h \in PutSet(x)) = 0 /\ Is(h \in MakeSet(x)) = 0
          /\ Is(h \in DownSet(x)) = 0 /\ Is(h \in LeaveSet(x)) = 0
      <3>1. PutW(h, x) = 0 /\ MakeW(h, x) = 0 /\ DownW(h, x) = 0 /\ LeaveW(h, x) = 0
        BY <1>1, <1>2, NoWeight
      <3>2. QED BY <3>1, Weights
    <2>4. /\ PutW(b, x) = j /\ MakeW(b, x) = 0 /\ DownW(b, x) = 0 /\ LeaveW(b, x) = 0
          /\ PutW(c, x) = 0 /\ MakeW(c, x) = i /\ DownW(c, x) = 0 /\ LeaveW(c, x) = 0
      BY <1>4, <2>1 DEF PutW, MakeW, DownW, LeaveW, Is
    <2>5. /\ Is(b \in PutSet(x)) = j /\ Is(b \in MakeSet(x)) = 0
          /\ Is(b \in DownSet(x)) = 0 /\ Is(b \in LeaveSet(x)) = 0
      BY <2>4, Weights
    <2>6. /\ Num(<<b, c>>, PutSet(x)) = j /\ Num(<<b, c>>, MakeSet(x)) = i
          /\ Num(<<b, c>>, DownSet(x)) = 0 /\ Num(<<b, c>>, LeaveSet(x)) = 0
      <3>1. /\ Num(<<b, c>>, PutSet(x)) = PutW(b, x) + PutW(c, x)
            /\ Num(<<b, c>>, MakeSet(x)) = MakeW(b, x) + MakeW(c, x)
            /\ Num(<<b, c>>, DownSet(x)) = DownW(b, x) + DownW(c, x)
            /\ Num(<<b, c>>, LeaveSet(x)) = LeaveW(b, x) + LeaveW(c, x)
        BY TwoW
      <3>2. QED BY <2>4, <3>1
    <2>7. /\ Num(cs, PutSet(x)) = i + i /\ Num(cs, MakeSet(x)) = 0
          /\ Num(cs, DownSet(x)) = 0 /\ Num(cs, LeaveSet(x)) = 0
      BY <1>6, <2>1, Closing
    <2>8. /\ Num(p, PutSet(x)) = 0 + j /\ Num(p, MakeSet(x)) = 0 + i /\ Num(p, DownSet(x)) = 0
          /\ Num(p, LeaveSet(x)) = 0
      BY <2>2, <2>3, <2>6
    <2>9. /\ Num(q, PutSet(x)) = j + (i + i) /\ Num(q, MakeSet(x)) = 0 /\ Num(q, DownSet(x)) = 0
          /\ Num(q, LeaveSet(x)) = 0
      BY <2>2, <2>5, <2>7
    <2>10. Waits(x)' = w
      BY <1>0, <1>1, <2>1, WaitsKeep
    <2>11. v = k + i /\ (v > 0 <=> k > 0) /\ (i = 0 \/ o = x)
      BY <1>12, <1>17, <2>1 DEF Is
    <2>12. v + (0 + j) + ((0 + i) + w + g) = k + (j + (i + i)) + (0 + w + g)
      BY <2>11
    <2>13. 0 + w + g = (0 + i) + w + g \/ (0 + w + g <= (0 + i) + w + g /\ \E m \in DOMAIN q : q[m] = Do("epipe", x))
      <3>1. CASE o = x
        BY <1>6, <1>8, <3>1
      <3>2. CASE i = 0
        BY <3>2
      <3>3. QED BY <2>11, <3>1, <3>2
    <2>14. QED BY <1>1, <1>16, <2>1, <2>8, <2>9, <2>10, <2>11, <2>12, <2>13 DEF Settled
  <1>19. \A i \in DOMAIN q : q[i] \in Held \/ FrameOK(q[i])'
    <2>1. FrameOK(b)'
      BY <1>4, PlainOK
    <2>2. \A i \in DOMAIN cs : FrameOK(cs[i])'
      BY <1>6, PlainOK
    <2>3. QED BY <1>8, <2>1, <2>2
  <1>20. ASSUME NEW x \in live', NEW i \in DOMAIN th[t], th[t][i] = Do("epipe", x)
         PROVE  FALSE
    <2>1. \A j \in DOMAIN p : p[j] = h \/ p[j] = b \/ p[j] = c
      <3>1. \A j \in DOMAIN p : j # 1 => j - 1 \in DOMAIN r /\ p[j] = r[j - 1]
        BY <1>16
      <3>2. p[1] = h
        BY <1>16
      <3>3. \A j \in DOMAIN <<b, c>> : <<b, c>>[j] = b \/ <<b, c>>[j] = c
        OBVIOUS
      <3>4. QED BY <1>5, <3>1, <3>2, <3>3
    <2>2. th[t][i] = h \/ th[t][i] = b \/ th[t][i] = c
      BY <1>16, <1>20, <2>1
    <2>3. QED BY <1>1, <1>2, <1>4, <1>20, <2>2 DEF Do
  <1>21. \A k \in Socks : /\ accq'[k] # <<>> => k \in live /\ kind[k] = "listener"
                          /\ \A i \in DOMAIN accq'[k] : kind[accq'[k][i]] = "connector"
    BY <1>0, <1>1 DEF QueueInv
  <1>22. \A x \in Socks : epipe[x] => epipe'[x]
    BY <1>1
  <1>23. QED BY SMTT(60), <1>1, <1>10, <1>11, <1>13, <1>14, <1>15, <1>18, <1>19, <1>20, <1>21, <1>22, QuietStack

\* A call on an open descriptor.
LEMMA EnterStep ==
  ASSUME IInv, NEW t \in Threads, NEW o \in open, NEW op \in {"accept", "send", "recv"}, Enter(t, o, op),
         kind[o] = IF op = "accept" THEN "listener" ELSE "connector"
  PROVE  IInv'
  <1>0. /\ TypeInv /\ ShapeInv /\ SleepJustified /\ ListenerVisible /\ HandInv /\ RefInv /\ QueueInv
        /\ LifeInv /\ live \subseteq Socks /\ open \subseteq Socks /\ o \in Socks
    BY DEF IInv, TypeInv
  <1>1. /\ th[t] = <<>> /\ th' = [th EXCEPT ![t] = <<Do(op, o), Do("put", o)>>]
        /\ sref' = [sref EXCEPT ![o] = @ + 1]
        /\ map' = map /\ foreign' = foreign /\ live' = live /\ kind' = kind /\ iref' = iref /\ peer' = peer
        /\ epipe' = epipe /\ rcv' = rcv /\ accq' = accq /\ open' = open
    BY DEF Enter, Calls, mapVars, flowVars
  <1>2. PICK a \in Frame, b \in Frame :
           /\ a = Do(op, o) /\ a.op = op /\ a.o = o /\ a.p = None
           /\ b = Do("put", o) /\ b.op = "put" /\ b.o = o /\ b.p = None
    BY <1>0, DoFrame
  <1>3. PICK q \in Seq(Frame) :
           /\ q = <<a, b>> /\ q # <<>> /\ Head(q) = a /\ Tail(q) = <<b>>
           /\ \A i \in DOMAIN q : q[i] = a \/ q[i] = b
    <2>1. <<a, b>> \in Seq(Frame) /\ <<a, b>> # <<>> /\ Head(<<a, b>>) = a /\ Tail(<<a, b>>) = <<b>>
      OBVIOUS
    <2>2. \A i \in DOMAIN <<a, b>> : <<a, b>>[i] = a \/ <<a, b>>[i] = b
      OBVIOUS
    <2>3. QED BY <2>1, <2>2
  <1>4. Turns(t, q)
    BY <1>0, <1>1, <1>2, <1>3, SetTurns
  <1>5. Stack(q)
    <2>1. Rest(<<b>>)
      <3>1. \A i \in DOMAIN <<b>> : <<b>>[i] = b
        OBVIOUS
      <3>2. QED BY <1>2, <3>1 DEF Rest, Later
    <2>2. First(a, <<b>>)
      BY <1>2 DEF First, Follows
    <2>3. QED BY <1>3, <2>1, <2>2 DEF Stack
  <1>6. sref' \in [Socks -> Nat] /\ sref'[o] = sref[o] + 1 /\ \A x \in Socks : x # o => sref'[x] = sref[x]
    BY <1>0, <1>1 DEF TypeInv
  <1>7. TypeInv'
    BY <1>0, <1>1, <1>4, <1>6 DEF TypeInv, Turns
  <1>8. SleepJustified'
    <2>1. q # <<>> => Head(q).op \notin {"asleep", "rsleep"}
      BY <1>2, <1>3
    <2>2. QED BY <1>0, <1>1, <1>4, <2>1, SleepStill
  <1>9. ListenerVisible'
    BY <1>0, <1>1, ListenerKept
  <1>10. sref[o] > 0
    BY <1>0, Referenced
  <1>11. ASSUME NEW x \in Socks PROVE Settled(t, q, x)
    <2>1. PICK k \in Nat, i \in Nat, g \in Nat, w \in Nat, v \in Nat :
            k = sref[x] /\ i = Is(o = x) /\ g = Is(x \in open) /\ w = Waits(x) /\ v = sref'[x]
      BY <1>0, <1>6, WaitsNat DEF TypeInv, Is
    <2>2. PICK p \in Seq(Frame) : p = <<>> /\ p = th[t]
      BY <1>0, <1>1 DEF TypeInv
    <2>3. /\ Num(p, PutSet(x)) = 0 /\ Num(p, MakeSet(x)) = 0 /\ Num(p, DownSet(x)) = 0
          /\ Num(p, LeaveSet(x)) = 0
      BY <2>2, NumEmpty
    <2>4. /\ PutW(a, x) = 0 /\ MakeW(a, x) = 0 /\ DownW(a, x) = 0 /\ LeaveW(a, x) = 0
          /\ PutW(b, x) = i /\ MakeW(b, x) = 0 /\ DownW(b, x) = 0 /\ LeaveW(b, x) = 0
      BY <1>2, <2>1 DEF PutW, MakeW, DownW, LeaveW, Is
    <2>5. /\ Num(<<a, b>>, PutSet(x)) = PutW(a, x) + PutW(b, x)
          /\ Num(<<a, b>>, MakeSet(x)) = MakeW(a, x) + MakeW(b, x)
          /\ Num(<<a, b>>, DownSet(x)) = DownW(a, x) + DownW(b, x)
          /\ Num(<<a, b>>, LeaveSet(x)) = LeaveW(a, x) + LeaveW(b, x)
      BY TwoW
    <2>6. /\ Num(q, PutSet(x)) = i /\ Num(q, MakeSet(x)) = 0 /\ Num(q, DownSet(x)) = 0
          /\ Num(q, LeaveSet(x)) = 0
      BY <1>3, <2>4, <2>5
    <2>7. Waits(x)' = w
      BY <1>0, <1>1, <2>1, WaitsKeep
    <2>8. v = k + i /\ (v > 0 <=> k > 0)
      BY <1>6, <1>10, <2>1 DEF Is
    <2>9. v + 0 + (0 + w + g) = k + i + (0 + w + g)
      BY <2>8
    <2>10. QED BY <1>1, <2>1, <2>2, <2>3, <2>6, <2>7, <2>8, <2>9 DEF Settled
  <1>12. \A i \in DOMAIN q : q[i] \in Held \/ FrameOK(q[i])'
    <2>1. FrameOK(a)' /\ FrameOK(b)'
      BY <1>1, <1>2 DEF FrameOK, FrameKind, OfListener, OfConnector
    <2>2. QED BY <1>3, <2>1
  <1>13. DOMAIN th[t] = {}
    BY <1>1
  <1>14. \A k \in Socks : /\ accq'[k] # <<>> => k \in live /\ kind[k] = "listener"
                          /\ \A i \in DOMAIN accq'[k] : kind[accq'[k][i]] = "connector"
    BY <1>0, <1>1 DEF QueueInv
  <1>15. \A x \in Socks : epipe[x] => epipe'[x]
    BY <1>1
  <1>16. QED BY <1>1, <1>4, <1>5, <1>7, <1>8, <1>9, <1>11, <1>12, <1>13, <1>14, <1>15, QuietStack

LEMMA CloseStep ==
  ASSUME IInv, NEW t \in Threads, xclose(t)
  PROVE  IInv'
  <1>0. /\ TypeInv /\ ShapeInv /\ SleepJustified /\ ListenerVisible /\ HandInv /\ RefInv /\ QueueInv
        /\ LifeInv /\ live \subseteq Socks /\ open \subseteq Socks
    BY DEF IInv, TypeInv
  <1>1. PICK o \in open :
        /\ th[t] = <<>> /\ th' = [th EXCEPT ![t] = XClose(o)]
        /\ sref' = [sref EXCEPT ![o] = @ + 1] /\ open' = open \ {o}
        /\ map' = map /\ foreign' = foreign /\ live' = live /\ kind' = kind /\ iref' = iref /\ peer' = peer
        /\ epipe' = epipe /\ rcv' = rcv /\ accq' = accq
    BY DEF xclose, Calls, mapVars, flowVars
  <1>2. o \in Socks
    BY <1>0
  <1>3. PICK q \in Seq(Frame) :
           /\ q = XClose(o) /\ q # <<>> /\ Head(q).op = "epipe"
           /\ 1 \in DOMAIN q /\ q[1] = Do("epipe", o)
           /\ \A i \in DOMAIN q : q[i] = Do("epipe", o) \/ q[i] = Do("put", o)
    BY <1>2, Closing DEF Do
  <1>4. Turns(t, q)
    BY <1>0, <1>1, <1>3, SetTurns
  <1>5. Stack(q)
    <2>1. PICK r \in Seq(Frame) : r = <<>> /\ Rest(r)
      BY NothingSeq
    <2>2. Stack(XClose(o) \o r)
      BY <1>2, <2>1, CloseStack
    <2>3. q \o r = q
      BY <2>1
    <2>4. QED BY <1>3, <2>2, <2>3
  <1>6. sref' \in [Socks -> Nat] /\ sref'[o] = sref[o] + 1 /\ \A x \in Socks : x # o => sref'[x] = sref[x]
    BY <1>0, <1>1, <1>2 DEF TypeInv
  <1>7. TypeInv'
    BY <1>0, <1>1, <1>4, <1>6 DEF TypeInv, Turns
  <1>8. SleepJustified'
    <2>1. q # <<>> => Head(q).op \notin {"asleep", "rsleep"}
      BY <1>3
    <2>2. QED BY <1>0, <1>1, <1>4, <2>1, SleepStill
  <1>9. ListenerVisible'
    <2>1. open' \subseteq open
      BY <1>1
    <2>2. QED BY <1>0, <1>1, <2>1, ListenerKept
  <1>10. sref[o] > 0
    BY <1>0, <1>2, Referenced
  <1>11. ASSUME NEW x \in Socks PROVE Settled(t, q, x)
    <2>1. PICK k \in Nat, i \in Nat, g \in Nat, j \in Nat, w \in Nat, v \in Nat :
            /\ k = sref[x] /\ i = Is(o = x) /\ g = Is(x \in open) /\ j = Is(x \in open')
            /\ w = Waits(x) /\ v = sref'[x]
      BY <1>0, <1>6, WaitsNat DEF TypeInv, Is
    <2>2. PICK p \in Seq(Frame) : p = <<>> /\ p = th[t]
      BY <1>0, <1>1 DEF TypeInv
    <2>3. /\ Num(p, PutSet(x)) = 0 /\ Num(p, MakeSet(x)) = 0 /\ Num(p, DownSet(x)) = 0
          /\ Num(p, LeaveSet(x)) = 0
      BY <2>2, NumEmpty
    <2>4. /\ Num(q, PutSet(x)) = i + i /\ Num(q, MakeSet(x)) = 0 /\ Num(q, DownSet(x)) = 0
          /\ Num(q, LeaveSet(x)) = 0
      BY <1>2, <1>3, <2>1, Closing
    <2>5. Waits(x)' = w
      BY <1>0, <1>1, <2>1, WaitsKeep
    <2>6. v = k + i /\ (v > 0 <=> k > 0) /\ g = j + i /\ (i = 0 \/ o = x)
      BY <1>1, <1>6, <1>10, <2>1 DEF Is
    <2>7. v + 0 + (0 + w + g) = k + (i + i) + (0 + w + j)
      BY <2>6
    <2>8. 0 + w + j = 0 + w + g \/ (0 + w + j <= 0 + w + g /\ \E m \in DOMAIN q : q[m] = Do("epipe", x))
      <3>1. CASE o = x
        BY <1>3, <2>6, <3>1
      <3>2. CASE i = 0
        BY <2>6, <3>2
      <3>3. QED BY <2>6, <3>1, <3>2
    <2>9. QED BY <2>1, <2>2, <2>3, <2>4, <2>5, <2>6, <2>7, <2>8 DEF Settled
  <1>12. \A i \in DOMAIN q : q[i] \in Held \/ FrameOK(q[i])'
    BY <1>2, <1>3, PlainOK
  <1>13. DOMAIN th[t] = {}
    BY <1>1
  <1>14. \A k \in Socks : /\ accq'[k] # <<>> => k \in live /\ kind[k] = "listener"
                          /\ \A i \in DOMAIN accq'[k] : kind[accq'[k][i]] = "connector"
    BY <1>0, <1>1 DEF QueueInv
  <1>15. \A x \in Socks : epipe[x] => epipe'[x]
    BY <1>1
  <1>16. QED BY <1>1, <1>4, <1>5, <1>7, <1>8, <1>9, <1>11, <1>12, <1>13, <1>14, <1>15, QuietStack

\* A put that is not the last.
LEMMA PutKeeps ==
  ASSUME IInv, NEW t \in Threads, xput(t), sref[Sock(t)] # 1
  PROVE  IInv'
  <1>0. /\ TypeInv /\ ShapeInv /\ SleepJustified /\ ListenerVisible /\ HandInv /\ RefInv /\ QueueInv
        /\ LifeInv /\ live \subseteq Socks /\ open \subseteq Socks
    BY DEF IInv, TypeInv
  <1>1. /\ th[t] # <<>> /\ Head(th[t]).op = "put" /\ Goes(t, <<>>, {})
        /\ sref' = [sref EXCEPT ![Sock(t)] = @ - 1]
        /\ map' = map /\ foreign' = foreign /\ live' = live /\ kind' = kind /\ iref' = iref /\ peer' = peer
        /\ epipe' = epipe /\ rcv' = rcv /\ accq' = accq /\ open' = open
    BY DEF xput, At, mapVars, flowVars
  <1>2. PICK o \in Socks, h \in Frame, r \in Seq(Frame) :
           /\ o = Sock(t) /\ h = Head(th[t]) /\ r = Tail(th[t]) /\ h.o = o /\ h \in Held
           /\ Rest(r) /\ First(h, r) /\ Stack(r)
    BY <1>0, <1>1, Rests
  <1>3. PICK fs \in Seq(Frame) : fs = <<>> /\ Goes(t, fs, {})
    <2>1. <<>> \in Seq(Frame)
      OBVIOUS
    <2>2. QED BY <1>1, <2>1
  <1>4. /\ Turns(t, fs \o r) /\ fs \o r \in Seq(Frame)
        /\ th' \in [Threads -> Seq(Frame)] /\ Stack(fs \o r)
        /\ fs \o r # <<>> => Head(fs \o r).op \in Later
    BY <1>0, <1>1, <1>2, <1>3, GoOn, Sleeping
  <1>5. sref[o] \in Nat /\ sref[o] > 1
    <2>1. h \in PutSet(o)
      BY <1>1, <1>2 DEF PutSet, Solid
    <2>2. Puts(o) > 0
      BY <1>0, <1>2, <2>1, Tallies
    <2>3. sref[o] > 0 /\ sref[o] \in Nat
      BY <1>0, <2>2, Referenced
    <2>4. QED BY <1>2, <2>3
  <1>6. sref' \in [Socks -> Nat] /\ sref'[o] = sref[o] - 1 /\ \A x \in Socks : x # o => sref'[x] = sref[x]
    BY <1>0, <1>1, <1>2, <1>5 DEF TypeInv
  <1>7. TypeInv'
    BY <1>0, <1>1, <1>4, <1>6 DEF TypeInv
  <1>8. SleepJustified'
    <2>1. PICK q \in Seq(Frame) : q = fs \o r
      BY <1>4
    <2>2. (q # <<>> => Head(q).op \notin {"asleep", "rsleep"}) /\ Turns(t, q)
      BY <1>4, <2>1 DEF Later
    <2>3. QED BY <1>0, <1>1, <2>2, SleepStill
  <1>9. ListenerVisible'
    BY <1>0, <1>1, ListenerKept
  <1>10. ASSUME NEW x \in Socks PROVE Settles(h, fs, x)
    <2>1. PICK k \in Nat, i \in Nat, g \in Nat, w \in Nat, v \in Nat :
            k = sref[x] /\ i = Is(o = x) /\ g = Is(x \in open) /\ w = Waits(x) /\ v = sref'[x]
      BY <1>0, <1>6, WaitsNat DEF TypeInv, Is
    <2>2. PutW(h, x) = i /\ MakeW(h, x) = 0 /\ DownW(h, x) = 0 /\ LeaveW(h, x) = 0
      BY <1>1, <1>2, <2>1 DEF PutW, MakeW, DownW, LeaveW, Is
    <2>3. /\ Num(fs, PutSet(x)) = 0 /\ Num(fs, MakeSet(x)) = 0 /\ Num(fs, DownSet(x)) = 0
          /\ Num(fs, LeaveSet(x)) = 0
      BY <1>3, NumEmpty
    <2>4. Waits(x)' = w
      BY <1>0, <1>1, <2>1, WaitsKeep
    <2>5. v + i = k /\ (v > 0 <=> k > 0)
      BY <1>5, <1>6, <2>1 DEF Is
    <2>6. v + i + (0 + w + g) = k + 0 + (0 + w + g)
      BY <2>5
    <2>7. QED BY <1>1, <2>1, <2>2, <2>3, <2>4, <2>5, <2>6 DEF Settles
  <1>11. \A i \in DOMAIN fs : FrameOK(fs[i])'
    BY <1>3
  <1>12. \A k \in Socks : /\ accq'[k] # <<>> => k \in live /\ kind[k] = "listener"
                          /\ \A i \in DOMAIN accq'[k] : kind[accq'[k][i]] = "connector"
    BY <1>0, <1>1 DEF QueueInv
  <1>13. QED BY <1>1, <1>2, <1>4, <1>7, <1>8, <1>9, <1>10, <1>11, <1>12, QuietGo

----------------------------------------------------------------------------
(* The steps that create, connect, tear down and free.                      *)

\* A drained listener is freed.
LEMMA DrainEnd ==
  ASSUME IInv, NEW t \in Threads, inproc_listener_close(t), accq[Sock(t)] = <<>>
  PROVE  IInv'
  <1>0. /\ TypeInv /\ ShapeInv /\ SleepJustified /\ ListenerVisible /\ HandInv /\ RefInv /\ QueueInv
        /\ LifeInv /\ MemInv /\ PeerInv /\ MapInv /\ EpipeInv /\ live \subseteq Socks /\ open \subseteq Socks
    BY DEF IInv, TypeInv
  <1>1. /\ th[t] # <<>> /\ Head(th[t]).op = "drain" /\ Goes(t, <<>>, {}) /\ live' = live \ {Sock(t)}
        /\ map' = map /\ foreign' = foreign /\ kind' = kind /\ sref' = sref /\ iref' = iref /\ peer' = peer
        /\ epipe' = epipe /\ rcv' = rcv /\ accq' = accq /\ open' = open
    BY DEF inproc_listener_close, At, mapVars, refVars
  <1>2. PICK o \in Socks, h \in Frame, r \in Seq(Frame) :
           /\ o = Sock(t) /\ h = Head(th[t]) /\ r = Tail(th[t]) /\ h.o = o /\ h \in Held
           /\ Rest(r) /\ First(h, r) /\ Stack(r)
    BY <1>0, <1>1, Rests
  <1>3. PICK fs \in Seq(Frame) : fs = <<>> /\ Goes(t, fs, {})
    <2>1. <<>> \in Seq(Frame)
      OBVIOUS
    <2>2. QED BY <1>1, <2>1
  <1>4. /\ Turns(t, fs \o r) /\ fs \o r \in Seq(Frame)
        /\ th' \in [Threads -> Seq(Frame)] /\ Stack(fs \o r)
        /\ fs \o r # <<>> => Head(fs \o r).op \in Later
    BY <1>0, <1>1, <1>2, <1>3, GoOn, Sleeping
  <1>5. PICK q \in Seq(Frame) : q = fs \o r /\ Turns(t, q) /\ Stack(q)
    BY <1>4
  <1>6. TypeInv'
    BY <1>0, <1>1, <1>4 DEF TypeInv
  <1>7. SleepJustified'
    <2>1. q # <<>> => Head(q).op \notin {"asleep", "rsleep"}
      BY <1>4, <1>5 DEF Later
    <2>2. QED BY <1>0, <1>1, <1>5, <2>1, SleepStill
  <1>8. ListenerVisible'
    BY <1>0, <1>1, ListenerKept
  <1>9. ShapeInv'
    BY <1>0, <1>5, TurnsShape
  <1>10. kind[o] = "listener" /\ map # o
    BY <1>0, <1>1, <1>2 DEF HandInv, FrameOK, FrameKind, OfListener
  <1>11. Pointers(o) = {} /\ \A x \in Socks : Pointers(x)' = Pointers(x)
    <2>1. Pointers(o) = {}
      BY <1>0, <1>10, InprocAssumption DEF PeerInv, Pointers
    <2>2. QED BY <1>1, <2>1 DEF Pointers
  <1>12. ASSUME NEW x \in Socks
         PROVE  /\ Puts(x)' = Puts(x) /\ Base(x)' = Base(x) /\ Leaves(x)' = Leaves(x)
                /\ Downs(x)' + Is(o = x) = Downs(x) /\ Downs(x) \in Nat /\ Downs(x)' \in Nat
    <2>1. /\ Puts(x)' + PutW(h, x) = Puts(x) + Num(fs, PutSet(x))
          /\ Makes(x)' + MakeW(h, x) = Makes(x) + Num(fs, MakeSet(x))
          /\ Downs(x)' + DownW(h, x) = Downs(x) + Num(fs, DownSet(x))
          /\ Leaves(x)' + LeaveW(h, x) = Leaves(x) + Num(fs, LeaveSet(x))
          /\ Puts(x)' \in Nat /\ Makes(x)' \in Nat /\ Downs(x)' \in Nat /\ Leaves(x)' \in Nat
          /\ Puts(x) \in Nat /\ Makes(x) \in Nat /\ Downs(x) \in Nat /\ Leaves(x) \in Nat
      BY <1>0, <1>1, <1>2, <1>4, GoEffect
    <2>2. PutW(h, x) = 0 /\ MakeW(h, x) = 0 /\ DownW(h, x) = Is(o = x) /\ LeaveW(h, x) = 0
      BY <1>1, <1>2 DEF PutW, MakeW, DownW, LeaveW, Is
    <2>3. /\ Num(fs, PutSet(x)) = 0 /\ Num(fs, MakeSet(x)) = 0 /\ Num(fs, DownSet(x)) = 0
          /\ Num(fs, LeaveSet(x)) = 0
      BY <1>3, NumEmpty
    <2>4. PICK a \in Nat, b \in Nat, c \in Nat, d \in Nat, e \in Nat, g \in Nat, k \in Nat, l \in Nat, i \in Nat :
            /\ a = Puts(x) /\ b = Puts(x)' /\ c = Makes(x) /\ d = Makes(x)'
            /\ e = Downs(x) /\ g = Downs(x)' /\ k = Leaves(x) /\ l = Leaves(x)' /\ i = Is(o = x)
      BY <2>1 DEF Is
    <2>5. b + 0 = a + 0 /\ d + 0 = c + 0 /\ g + i = e + 0 /\ l + 0 = k + 0
      BY <2>1, <2>2, <2>3, <2>4
    <2>6. b = a /\ d = c /\ g + i = e /\ l = k
      BY <2>5
    <2>7. Waits(x)' = Waits(x)
      BY <1>0, <1>1, WaitsKeep
    <2>8. Makes(x)' = Makes(x)
      BY <2>4, <2>6
    <2>9. Base(x)' = Base(x)
      BY <1>1, <2>7, <2>8 DEF Base
    <2>10. QED BY <2>4, <2>6, <2>9
  <1>13. RefInv'
    BY <1>0, <1>1, <1>12 DEF RefInv
  <1>14. Downs(o) = 1 /\ Downs(o)' = 0 /\ sref[o] = 0
    <2>1. h \in DownSet(o)
      BY <1>1, <1>2 DEF DownSet, Solid
    <2>2. Downs(o) > 0 /\ Downs(o) <= 1 /\ (Downs(o) > 0 => sref[o] = 0)
      BY <1>0, <1>2, <2>1, Tallies DEF LifeInv
    <2>3. QED BY <1>12, <2>2 DEF Is
  <1>15. ASSUME NEW x \in Socks, x # o PROVE Downs(x)' = Downs(x)
    BY <1>12, <1>15 DEF Is
  <1>16. LifeInv'
    <2> SUFFICES ASSUME NEW x \in Socks
                 PROVE  /\ x \in live' <=> sref'[x] > 0 \/ Downs(x)' > 0 \/ Pointers(x)' # {}
                        /\ Downs(x)' <= 1
                        /\ Downs(x)' > 0 => sref'[x] = 0
      BY DEF LifeInv
    <2>1. CASE x = o
      BY <1>1, <1>2, <1>11, <1>14, <2>1
    <2>2. CASE x # o
      BY <1>0, <1>1, <1>2, <1>11, <1>15, <2>2 DEF LifeInv
    <2>3. QED BY <2>1, <2>2
  <1>17. MemInv'
    <2> SUFFICES ASSUME NEW x \in live', kind'[x] = "connector"
                 PROVE  iref'[x] = Cardinality(Pointers(x)') + Is(sref'[x] > 0) + Downs(x)'
      BY DEF MemInv
    <2>1. x \in Socks /\ x \in live /\ kind[x] = "connector" /\ x # o
      BY <1>0, <1>1, <1>2
    <2>2. iref[x] = Cardinality(Pointers(x)) + Is(sref[x] > 0) + Downs(x)
      BY <1>0, <2>1 DEF MemInv
    <2>3. QED BY <1>1, <1>11, <1>15, <2>1, <2>2
  <1>18. PeerInv'
    BY <1>0, <1>1, <1>12 DEF PeerInv
  <1>19. HandInv'
    <2>1. ASSUME NEW f \in Held PROVE FrameOK(f)'
      <3>1. FrameOK(f) /\ f.o \in Socks
        BY <1>0, Due DEF HandInv, Frame
      <3>2. QED BY <1>1, <1>11, <3>1 DEF FrameOK, FrameKind
    <2>2. \A i \in DOMAIN q : q[i] \in Held
      <3>1. \A i \in DOMAIN (fs \o Tail(th[t])) :
              \/ (fs \o Tail(th[t]))[i] \in Held
              \/ \E j \in DOMAIN fs : (fs \o Tail(th[t]))[i] = fs[j]
        BY <1>0, <1>1, GoHand
      <3>2. QED BY <1>2, <1>3, <1>5, <3>1
    <2>3. \A u \in Threads : u # t => \A i \in DOMAIN th[u] : th[u][i] \in Held
      BY HeldIs
    <2>4. PICK M : M = Held
      OBVIOUS
    <2>5. QED BY <1>0, <1>5, <2>1, <2>2, <2>3, <2>4, HandStep
  <1>20. QueueInv'
    BY <1>0, <1>1, <1>2 DEF QueueInv
  <1>21. MapInv'
    BY <1>0, <1>1, <1>2, <1>10 DEF MapInv
  <1>22. EpipeInv'
    <2>1. \A x \in live' : Base(x)' = 0 => (x \in live /\ Base(x) = 0) \/ \E i \in DOMAIN fs : fs[i] = Do("epipe", x)
      BY <1>0, <1>1, <1>12
    <2>2. \A x \in live' \cap live : epipe[x] => epipe'[x]
      BY <1>1
    <2>3. QED BY <1>0, <1>1, <1>2, <1>4, <2>1, <2>2, EpipeGo
  <1>23. QED BY <1>6, <1>7, <1>8, <1>9, <1>13, <1>16, <1>17, <1>18, <1>19, <1>20, <1>21, <1>22 DEF IInv

LEMMA DrainStep ==
  ASSUME IInv, NEW t \in Threads, inproc_listener_close(t)
  PROVE  IInv'
  BY DrainMore, DrainEnd

\* Nobody knows memory that is not allocated.
LEMMA Unused ==
  ASSUME IInv, NEW o \in Socks, o \notin live
  PROVE  /\ sref[o] = 0 /\ Puts(o) = 0 /\ Base(o) = 0 /\ Makes(o) = 0 /\ Waits(o) = 0
         /\ o \notin open /\ Downs(o) = 0 /\ Leaves(o) = 0 /\ Pointers(o) = {}
         /\ peer[o] = None /\ accq[o] = <<>> /\ map # o
         /\ \A f \in Held : f \in Frame /\ f.o \in live /\ f.o # o /\ f.p # o
         /\ \A l \in Socks : \A i \in DOMAIN accq[l] : accq[l][i] # o
         /\ \A x \in Socks : peer[x] # o
  <1>0. /\ TypeInv /\ RefInv /\ LifeInv /\ PeerInv /\ QueueInv /\ MapInv
        /\ o # None
    BY InprocAssumption DEF IInv
  <1>1. /\ sref[o] = 0 /\ Puts(o) = 0 /\ Base(o) = 0 /\ Makes(o) = 0 /\ Waits(o) = 0
        /\ o \notin open /\ Downs(o) = 0 /\ Pointers(o) = {}
    BY <1>0, Referenced
  <1>2. /\ \A f \in Held : f \in Frame /\ f.o \in live /\ (f.p = None \/ f.p \in live)
        /\ \A l \in Socks : \A i \in DOMAIN accq[l] : accq[l][i] \in live
        /\ \A x \in Socks : peer[x] # None => peer[x] \in live /\ x \in live
    BY Alive
  <1>3. peer[o] = None /\ \A x \in Socks : peer[x] # o
    BY <1>0, <1>2
  <1>4. Leaves(o) = 0
    BY <1>0, <1>3 DEF PeerInv, Is
  <1>5. accq[o] = <<>>
    BY <1>0 DEF QueueInv
  <1>6. map # o
    BY <1>0 DEF MapInv
  <1>7. QED BY <1>0, <1>1, <1>2, <1>3, <1>4, <1>5, <1>6

\* A new socket has its descriptor to come, and for a connector its own memory.
LEMMA CreateStep ==
  ASSUME IInv, NEW t \in Threads, NEW o \in Socks, NEW k \in {"listener", "connector"},
         NEW op \in {"addlistener", "getlistener"},
         op = IF k = "listener" THEN "addlistener" ELSE "getlistener",
         XSocket(o, k), Calls(t, <<Do(op, o)>>)
  PROVE  IInv'
  <1>0. /\ TypeInv /\ ShapeInv /\ SleepJustified /\ ListenerVisible /\ HandInv /\ RefInv /\ QueueInv
        /\ LifeInv /\ MemInv /\ PeerInv /\ MapInv /\ EpipeInv /\ live \subseteq Socks /\ open \subseteq Socks
        /\ o # None
    BY InprocAssumption DEF IInv, TypeInv
  <1>1. /\ th[t] = <<>> /\ th' = [th EXCEPT ![t] = <<Do(op, o)>>]
        /\ o \notin live /\ live' = live \cup {o} /\ kind' = [kind EXCEPT ![o] = k]
        /\ epipe' = [epipe EXCEPT ![o] = FALSE] /\ rcv' = [rcv EXCEPT ![o] = 0]
        /\ accq' = [accq EXCEPT ![o] = <<>>]
        /\ sref' = [sref EXCEPT ![o] = 1] /\ iref' = [iref EXCEPT ![o] = Own(k)]
        /\ peer' = [peer EXCEPT ![o] = None]
        /\ map' = map /\ foreign' = foreign /\ open' = open
    BY DEF XSocket, Open, Calls, mapVars
  <1>2. /\ sref[o] = 0 /\ Puts(o) = 0 /\ Base(o) = 0 /\ Makes(o) = 0 /\ Waits(o) = 0
        /\ o \notin open /\ Downs(o) = 0 /\ Leaves(o) = 0 /\ Pointers(o) = {}
        /\ peer[o] = None /\ accq[o] = <<>> /\ map # o
        /\ \A f \in Held : f \in Frame /\ f.o \in live /\ f.o # o /\ f.p # o
        /\ \A l \in Socks : \A i \in DOMAIN accq[l] : accq[l][i] # o
        /\ \A x \in Socks : peer[x] # o
    BY <1>1, Unused
  <1>3. accq' = accq /\ peer' = peer
    BY <1>0, <1>1, <1>2 DEF TypeInv
  <1>4. \A x \in Socks : x # o => /\ kind'[x] = kind[x] /\ epipe'[x] = epipe[x] /\ rcv'[x] = rcv[x]
                                  /\ sref'[x] = sref[x] /\ iref'[x] = iref[x]
    BY <1>0, <1>1 DEF TypeInv
  <1>5. kind'[o] = k /\ epipe'[o] = FALSE /\ rcv'[o] = 0 /\ sref'[o] = 1 /\ iref'[o] = Own(k)
    BY <1>0, <1>1 DEF TypeInv
  <1>6. PICK a \in Frame : a = Do(op, o) /\ a.op = op /\ a.o = o /\ a.p = None
    BY <1>0, DoFrame
  <1>7. PICK q \in Seq(Frame) :
           q = <<a>> /\ q # <<>> /\ Head(q) = a /\ Tail(q) = <<>> /\ \A i \in DOMAIN q : q[i] = a
    <2>1. /\ <<a>> \in Seq(Frame) /\ <<a>> # <<>> /\ Head(<<a>>) = a /\ Tail(<<a>>) = <<>>
          /\ \A i \in DOMAIN <<a>> : <<a>>[i] = a
      OBVIOUS
    <2>2. QED BY <2>1
  <1>8. Turns(t, q)
    BY <1>0, <1>1, <1>6, <1>7, SetTurns
  <1>9. Stack(q)
    <2>1. PICK r \in Seq(Frame) : r = <<>> /\ Rest(r)
      BY NothingSeq
    <2>2. First(a, r)
      BY <1>6, <2>1 DEF First, Follows
    <2>3. QED BY <1>7, <2>1, <2>2 DEF Stack
  <1>10. TypeInv'
    <2>1. Own(k) \in 0..2
      BY DEF Own
    <2>2. 0 \in 0..MaxRcv
      BY InprocAssumption
    <2>3. QED BY <1>0, <1>1, <1>3, <1>8, <2>1, <2>2 DEF TypeInv, Turns
  <1>11. SleepJustified'
    <2>1. q # <<>> => Head(q).op \notin {"asleep", "rsleep"}
      BY <1>6, <1>7
    <2>2. ASSUME NEW u \in Threads, u # t, th'[u] = th[u]
          PROVE  /\ At(u, "asleep") => accq'[Sock(u)] = <<>>
                 /\ At(u, "rsleep") => rcv'[Sock(u)] = 0 /\ ~epipe'[Sock(u)]
      <3>1. CASE th[u] = <<>>
        BY <3>1 DEF At
      <3>2. CASE th[u] # <<>>
        <4>1. Head(th[u]) \in Held /\ Sock(u) \in Socks /\ Sock(u) = Head(th[u]).o
          BY <1>0, <3>2, Rests
        <4>2. Sock(u) # o
          BY <1>2, <4>1
        <4>3. QED BY <1>0, <1>3, <1>4, <4>1, <4>2 DEF SleepJustified
      <3>3. QED BY <3>1, <3>2
    <2>3. QED BY <1>0, <1>8, <2>1, <2>2, GoSleep
  <1>12. ListenerVisible'
    BY <1>0, <1>1, <1>2, <1>4 DEF ListenerVisible
  <1>13. ShapeInv'
    BY <1>0, <1>8, <1>9, TurnsShape
  <1>14. \A x \in Socks : Pointers(x)' = Pointers(x)
    BY <1>3 DEF Pointers
  <1>15. ASSUME NEW x \in Socks
         PROVE  /\ Puts(x)' = Puts(x) /\ Leaves(x)' = Leaves(x) /\ Downs(x)' = Downs(x)
                /\ Base(x)' = Base(x) + Is(o = x) /\ Base(x) \in Nat /\ Puts(x) \in Nat
    <2>1. /\ Puts(x)' + Num(th[t], PutSet(x)) = Puts(x) + Num(q, PutSet(x))
          /\ Makes(x)' + Num(th[t], MakeSet(x)) = Makes(x) + Num(q, MakeSet(x))
          /\ Downs(x)' + Num(th[t], DownSet(x)) = Downs(x) + Num(q, DownSet(x))
          /\ Leaves(x)' + Num(th[t], LeaveSet(x)) = Leaves(x) + Num(q, LeaveSet(x))
          /\ Puts(x)' \in Nat /\ Makes(x)' \in Nat /\ Downs(x)' \in Nat /\ Leaves(x)' \in Nat
          /\ Puts(x) \in Nat /\ Makes(x) \in Nat /\ Downs(x) \in Nat /\ Leaves(x) \in Nat
      BY <1>0, <1>8, StackEffect
    <2>2. /\ Num(th[t], PutSet(x)) = 0 /\ Num(th[t], MakeSet(x)) = 0 /\ Num(th[t], DownSet(x)) = 0
          /\ Num(th[t], LeaveSet(x)) = 0
      BY <1>1, NumEmpty
    <2>3. PutW(a, x) = 0 /\ MakeW(a, x) = Is(o = x) /\ DownW(a, x) = 0 /\ LeaveW(a, x) = 0
      BY <1>6 DEF PutW, MakeW, DownW, LeaveW, Is
    <2>4. /\ Num(q, PutSet(x)) = 0 /\ Num(q, MakeSet(x)) = Is(o = x) /\ Num(q, DownSet(x)) = 0
          /\ Num(q, LeaveSet(x)) = 0
      BY <1>7, <2>3, OneW
    <2>5. PICK b \in Nat, c \in Nat, d \in Nat, e \in Nat, f \in Nat, g \in Nat, l \in Nat, m \in Nat, i \in Nat :
            /\ b = Puts(x) /\ c = Puts(x)' /\ d = Makes(x) /\ e = Makes(x)'
            /\ f = Downs(x) /\ g = Downs(x)' /\ l = Leaves(x) /\ m = Leaves(x)' /\ i = Is(o = x)
      BY <2>1 DEF Is
    <2>6. c + 0 = b + 0 /\ e + 0 = d + i /\ g + 0 = f + 0 /\ m + 0 = l + 0
      BY <2>1, <2>2, <2>4, <2>5
    <2>7. c = b /\ e = d + i /\ g = f /\ m = l
      BY <2>6
    <2>8. PICK w \in Nat, j \in Nat : w = Waits(x) /\ w = Waits(x)' /\ j = Is(x \in open) /\ j = Is(x \in open)'
      BY <1>0, <1>1, <1>3, WaitsKeep DEF Is
    <2>9. Base(x) = d + w + j /\ Base(x)' = e + w + j
      BY <2>5, <2>8 DEF Base
    <2>10. d + w + j \in Nat /\ e + w + j = (d + w + j) + i
      BY <2>7
    <2>11. QED BY <2>5, <2>7, <2>9, <2>10
  <1>16. \A x \in Socks : x # o => Base(x)' = Base(x)
    BY <1>15 DEF Is
  <1>17. Base(o)' = 1
    BY <1>2, <1>15 DEF Is
  <1>18. RefInv'
    <2> SUFFICES ASSUME NEW x \in Socks PROVE sref'[x] = Puts(x)' + Base(x)' /\ Base(x)' <= 1
      BY DEF RefInv
    <2>1. CASE x = o
      BY <1>2, <1>5, <1>15, <1>17, <2>1
    <2>2. CASE x # o
      BY <1>0, <1>4, <1>15, <1>16, <2>2 DEF RefInv
    <2>3. QED BY <2>1, <2>2
  <1>19. LifeInv'
    <2> SUFFICES ASSUME NEW x \in Socks
                 PROVE  /\ x \in live' <=> sref'[x] > 0 \/ Downs(x)' > 0 \/ Pointers(x)' # {}
                        /\ Downs(x)' <= 1
                        /\ Downs(x)' > 0 => sref'[x] = 0
      BY DEF LifeInv
    <2>1. CASE x = o
      BY <1>1, <1>2, <1>5, <1>15, <2>1
    <2>2. CASE x # o
      BY <1>0, <1>1, <1>4, <1>14, <1>15, <2>2 DEF LifeInv
    <2>3. QED BY <2>1, <2>2
  <1>20. MemInv'
    <2> SUFFICES ASSUME NEW x \in live', kind'[x] = "connector"
                 PROVE  iref'[x] = Cardinality(Pointers(x)') + Is(sref'[x] > 0) + Downs(x)'
      BY DEF MemInv
    <2>1. CASE x = o
      <3>1. Cardinality(Pointers(o)') = 0 /\ Downs(o)' = 0 /\ Is(sref'[o] > 0) = 1
        <4>1. Pointers(o)' = {}
          BY <1>2, <1>14
        <4>2. Cardinality(Pointers(o)') = 0
          BY <4>1, FS_EmptySet
        <4>3. QED BY <1>2, <1>5, <1>15, <4>2 DEF Is
      <3>2. iref'[o] = 1
        BY <1>5, <2>1 DEF Own
      <3>3. QED BY <2>1, <3>1, <3>2
    <2>2. CASE x # o
      <3>1. x \in Socks /\ x \in live /\ kind[x] = "connector"
        BY <1>0, <1>1, <1>4, <2>2
      <3>2. iref[x] = Cardinality(Pointers(x)) + Is(sref[x] > 0) + Downs(x)
        BY <1>0, <3>1 DEF MemInv
      <3>3. QED BY <1>4, <1>14, <1>15, <2>2, <3>1, <3>2
    <2>3. QED BY <2>1, <2>2
  <1>21. PeerInv'
    <2> SUFFICES ASSUME NEW x \in Socks
                 PROVE  /\ peer'[x] # None => kind'[x] = "connector" /\ kind'[peer'[x]] = "connector"
                        /\ Leaves(x)' = Is(peer'[x] # None /\ sref'[x] = 0)
      BY DEF PeerInv
    <2>1. CASE x = o
      BY <1>2, <1>3, <1>5, <1>15, <2>1 DEF Is
    <2>2. CASE x # o
      <3>1. peer[x] # None => peer[x] \in Socks /\ peer[x] # o
        BY <1>0, <1>2 DEF TypeInv
      <3>2. QED BY <1>0, <1>3, <1>4, <1>15, <2>2, <3>1 DEF PeerInv
    <2>3. QED BY <2>1, <2>2
  <1>22. HandInv'
    <2>1. ASSUME NEW f \in Held PROVE FrameOK(f)'
      <3>1. FrameOK(f) /\ f \in Frame /\ f.o \in Socks /\ f.o # o /\ f.p # o /\ (f.op \in {"pair", "acceptq_add"} => f.p \in Socks)
        BY <1>0, <1>2, Due DEF HandInv
      <3>2. QED BY <1>1, <1>3, <1>4, <1>14, <3>1 DEF FrameOK, FrameKind
    <2>2. FrameOK(a)'
      BY <1>2, <1>3, <1>5, <1>6, <1>14 DEF FrameOK, FrameKind, OfListener, OfConnector
    <2>3. \A u \in Threads : u # t => \A i \in DOMAIN th[u] : th[u][i] \in Held
      BY HeldIs
    <2>4. PICK M : M = Held \cup {a}
      OBVIOUS
    <2>5. QED BY <1>0, <1>7, <1>8, <2>1, <2>2, <2>3, <2>4, HandStep
  <1>23. QueueInv'
    <2> SUFFICES ASSUME NEW l \in Socks
                 PROVE  /\ accq'[l] # <<>> => l \in live' /\ kind'[l] = "listener"
                        /\ \A i \in DOMAIN accq'[l] : kind'[accq'[l][i]] = "connector"
      BY DEF QueueInv
    <2>1. \A i \in DOMAIN accq[l] : accq[l][i] \in Socks /\ accq[l][i] # o
      BY <1>0, <1>2 DEF TypeInv
    <2>2. accq[l] # <<>> => l # o
      BY <1>2
    <2>3. QED BY <1>0, <1>1, <1>3, <1>4, <2>1, <2>2 DEF QueueInv
  <1>24. MapInv'
    <2>1. map # None => map \in Socks
      BY <1>0 DEF TypeInv
    <2>2. QED BY <1>0, <1>1, <1>2, <1>4, <2>1 DEF MapInv
  <1>25. EpipeInv'
    <2>1. \A x \in live' : Base(x)' = 0 => (x \in live /\ Base(x) = 0) \/ \E i \in DOMAIN q : q[i] = Do("epipe", x)
      BY <1>0, <1>1, <1>16, <1>17
    <2>2. \A x \in live' \cap live : epipe[x] => epipe'[x]
      BY <1>0, <1>1, <1>4
    <2>3. DOMAIN th[t] = {}
      BY <1>1
    <2>4. QED BY <1>0, <1>8, <2>1, <2>2, <2>3, EpipeKept
  <1>26. QED BY <1>10, <1>11, <1>12, <1>13, <1>18, <1>19, <1>20, <1>21, <1>22, <1>23, <1>24, <1>25 DEF IInv

\* The steps of the last put.
Ends(o, fs) ==
  /\ fs \in Seq(Frame) /\ fs # <<>>
  /\ Head(fs).op \in {"rmlistener", "putself", "wakepeer"}
  /\ \A i \in DOMAIN fs : /\ fs[i].o = o
                          /\ fs[i].op \in IF kind[o] = "listener" THEN {"rmlistener"}
                                          ELSE {"wakepeer", "putpeer", "putself"}
  /\ \A x \in Socks : /\ Num(fs, PutSet(x)) = 0 /\ Num(fs, MakeSet(x)) = 0
                      /\ Num(fs, DownSet(x)) = Is(o = x)
                      /\ Num(fs, LeaveSet(x)) = Is(o = x /\ peer[o] # None)

LEMMA TearDown ==
  ASSUME NEW o \in Socks, NEW r \in Seq(Frame), Rest(r),
         peer[o] # None => kind[o] # "listener"
  PROVE  Ends(o, VClose(o)) /\ Stack(VClose(o) \o r)
  <1>1. PICK a \in Frame, b \in Frame, c \in Frame, d \in Frame :
           /\ a = Do("rmlistener", o) /\ a.op = "rmlistener" /\ a.o = o /\ a.p = None
           /\ b = Do("wakepeer", o) /\ b.op = "wakepeer" /\ b.o = o /\ b.p = None
           /\ c = Do("putpeer", o) /\ c.op = "putpeer" /\ c.o = o /\ c.p = None
           /\ d = Do("putself", o) /\ d.op = "putself" /\ d.o = o /\ d.p = None
    BY DoFrame
  <1>2. ASSUME NEW x \in Socks
        PROVE  /\ PutW(a, x) = 0 /\ MakeW(a, x) = 0 /\ DownW(a, x) = Is(o = x) /\ LeaveW(a, x) = 0
               /\ PutW(b, x) = 0 /\ MakeW(b, x) = 0 /\ DownW(b, x) = 0 /\ LeaveW(b, x) = 0
               /\ PutW(c, x) = 0 /\ MakeW(c, x) = 0 /\ DownW(c, x) = 0 /\ LeaveW(c, x) = Is(o = x)
               /\ PutW(d, x) = 0 /\ MakeW(d, x) = 0 /\ DownW(d, x) = Is(o = x) /\ LeaveW(d, x) = 0
    BY <1>1 DEF PutW, MakeW, DownW, LeaveW, Is
  <1>3. CASE kind[o] = "listener"
    <2>1. VClose(o) = <<a>>
      BY <1>1, <1>3 DEF VClose
    <2>2. <<a>> \in Seq(Frame) /\ <<a>> # <<>> /\ Head(<<a>>) = a /\ \A i \in DOMAIN <<a>> : <<a>>[i] = a
      OBVIOUS
    <2>3. ASSUME NEW x \in Socks
          PROVE  /\ Num(<<a>>, PutSet(x)) = 0 /\ Num(<<a>>, MakeSet(x)) = 0
                 /\ Num(<<a>>, DownSet(x)) = Is(o = x)
                 /\ Num(<<a>>, LeaveSet(x)) = Is(o = x /\ peer[o] # None)
      <3>1. Is(o = x /\ peer[o] # None) = 0
        BY <1>3 DEF Is
      <3>2. QED BY <1>2, <3>1, OneW
    <2>4. Ends(o, <<a>>)
      BY <1>1, <1>3, <2>2, <2>3 DEF Ends
    <2>5. Stack(<<a>> \o r)
      <3>1. First(a, r)
        BY <1>1 DEF First, Follows
      <3>2. QED BY <3>1, PushOne
    <2>6. QED BY <2>1, <2>4, <2>5
  <1>4. CASE kind[o] # "listener" /\ peer[o] = None
    <2>1. VClose(o) = <<d>>
      BY <1>1, <1>4 DEF VClose
    <2>2. <<d>> \in Seq(Frame) /\ <<d>> # <<>> /\ Head(<<d>>) = d /\ \A i \in DOMAIN <<d>> : <<d>>[i] = d
      OBVIOUS
    <2>3. ASSUME NEW x \in Socks
          PROVE  /\ Num(<<d>>, PutSet(x)) = 0 /\ Num(<<d>>, MakeSet(x)) = 0
                 /\ Num(<<d>>, DownSet(x)) = Is(o = x)
                 /\ Num(<<d>>, LeaveSet(x)) = Is(o = x /\ peer[o] # None)
      <3>1. Is(o = x /\ peer[o] # None) = 0
        BY <1>4 DEF Is
      <3>2. QED BY <1>2, <3>1, OneW
    <2>4. Ends(o, <<d>>)
      BY <1>1, <1>4, <2>2, <2>3 DEF Ends
    <2>5. Stack(<<d>> \o r)
      <3>1. First(d, r)
        BY <1>1 DEF First, Follows
      <3>2. QED BY <3>1, PushOne
    <2>6. QED BY <2>1, <2>4, <2>5
  <1>5. CASE kind[o] # "listener" /\ peer[o] # None
    <2>1. VClose(o) = <<b, c, d>>
      BY <1>1, <1>5 DEF VClose
    <2>2. /\ <<b, c, d>> \in Seq(Frame) /\ <<b, c, d>> # <<>> /\ Head(<<b, c, d>>) = b
      OBVIOUS
    <2>3. \A i \in DOMAIN <<b, c, d>> : <<b, c, d>>[i] = b \/ <<b, c, d>>[i] = c \/ <<b, c, d>>[i] = d
      OBVIOUS
    <2>4. ASSUME NEW x \in Socks
          PROVE  /\ Num(<<b, c, d>>, PutSet(x)) = 0 /\ Num(<<b, c, d>>, MakeSet(x)) = 0
                 /\ Num(<<b, c, d>>, DownSet(x)) = Is(o = x)
                 /\ Num(<<b, c, d>>, LeaveSet(x)) = Is(o = x /\ peer[o] # None)
      <3>1. PICK i \in Nat : i = Is(o = x) /\ i = Is(o = x /\ peer[o] # None)
        BY <1>5 DEF Is
      <3>2. /\ Num(<<b, c, d>>, PutSet(x)) = PutW(b, x) + PutW(c, x) + PutW(d, x)
            /\ Num(<<b, c, d>>, MakeSet(x)) = MakeW(b, x) + MakeW(c, x) + MakeW(d, x)
            /\ Num(<<b, c, d>>, DownSet(x)) = DownW(b, x) + DownW(c, x) + DownW(d, x)
            /\ Num(<<b, c, d>>, LeaveSet(x)) = LeaveW(b, x) + LeaveW(c, x) + LeaveW(d, x)
        BY ThreeW
      <3>3. /\ PutW(b, x) = 0 /\ MakeW(b, x) = 0 /\ DownW(b, x) = 0 /\ LeaveW(b, x) = 0
            /\ PutW(c, x) = 0 /\ MakeW(c, x) = 0 /\ DownW(c, x) = 0 /\ LeaveW(c, x) = i
            /\ PutW(d, x) = 0 /\ MakeW(d, x) = 0 /\ DownW(d, x) = i /\ LeaveW(d, x) = 0
        BY <1>2, <3>1
      <3>4. QED BY <3>1, <3>2, <3>3
    <2>5. Ends(o, <<b, c, d>>)
      BY <1>1, <1>5, <2>2, <2>3, <2>4 DEF Ends
    <2>6. Stack(<<b, c, d>> \o r)
      BY <1>1, PushThree
    <2>7. QED BY <2>1, <2>5, <2>6
  <1>6. QED BY <1>3, <1>4, <1>5

\* The last put of a socket: somebody begins to tear it down.
LEMMA PutLast ==
  ASSUME IInv, NEW t \in Threads, xput(t), sref[Sock(t)] = 1
  PROVE  IInv'
  <1>0. /\ TypeInv /\ ShapeInv /\ SleepJustified /\ ListenerVisible /\ HandInv /\ RefInv /\ QueueInv
        /\ LifeInv /\ MemInv /\ PeerInv /\ MapInv /\ EpipeInv /\ live \subseteq Socks /\ open \subseteq Socks
    BY DEF IInv, TypeInv
  <1>1. /\ th[t] # <<>> /\ Head(th[t]).op = "put" /\ Goes(t, VClose(Sock(t)), {})
        /\ sref' = [sref EXCEPT ![Sock(t)] = @ - 1]
        /\ map' = map /\ foreign' = foreign /\ live' = live /\ kind' = kind /\ iref' = iref /\ peer' = peer
        /\ epipe' = epipe /\ rcv' = rcv /\ accq' = accq /\ open' = open
    BY DEF xput, At, mapVars, flowVars
  <1>2. PICK o \in Socks, h \in Frame, r \in Seq(Frame) :
           /\ o = Sock(t) /\ h = Head(th[t]) /\ r = Tail(th[t]) /\ h.o = o /\ h \in Held
           /\ Rest(r) /\ First(h, r) /\ Stack(r)
    BY <1>0, <1>1, Rests
  <1>3. PICK fs \in Seq(Frame) : Ends(o, fs) /\ Goes(t, fs, {}) /\ Stack(fs \o r)
    <2>1. peer[o] # None => kind[o] # "listener"
      BY <1>0 DEF PeerInv
    <2>2. Ends(o, VClose(o)) /\ Stack(VClose(o) \o r) /\ Goes(t, VClose(o), {})
      BY <1>1, <1>2, <2>1, TearDown
    <2>3. VClose(o) \in Seq(Frame)
      BY <2>2 DEF Ends
    <2>4. QED BY <2>2, <2>3
  <1>4. /\ Turns(t, fs \o r) /\ fs \o r \in Seq(Frame)
        /\ th' \in [Threads -> Seq(Frame)]
        /\ fs \o r # <<>> /\ Head(fs \o r) = Head(fs)
    <2>1. fs # <<>>
      BY <1>3 DEF Ends
    <2>2. QED BY <1>0, <1>1, <1>2, <1>3, <2>1, GoOn, Sleeping
  <1>5. PICK q \in Seq(Frame) : q = fs \o r /\ Turns(t, q) /\ Stack(q)
    BY <1>3, <1>4
  <1>6. sref[o] = 1 /\ sref'[o] = 0 /\ sref' \in [Socks -> Nat] /\ \A x \in Socks : x # o => sref'[x] = sref[x]
    BY <1>0, <1>1, <1>2 DEF TypeInv
  <1>7. TypeInv'
    BY <1>0, <1>1, <1>4, <1>6 DEF TypeInv
  <1>8. SleepJustified'
    <2>1. q # <<>> => Head(q).op \notin {"asleep", "rsleep"}
      BY <1>3, <1>4, <1>5 DEF Ends
    <2>2. QED BY <1>0, <1>1, <1>5, <2>1, SleepStill
  <1>9. ListenerVisible'
    BY <1>0, <1>1, ListenerKept
  <1>10. ShapeInv'
    BY <1>0, <1>5, TurnsShape
  <1>11. \A x \in Socks : Pointers(x)' = Pointers(x)
    BY <1>1 DEF Pointers
  <1>12. ASSUME NEW x \in Socks
         PROVE  /\ Puts(x)' + Is(o = x) = Puts(x) /\ Base(x)' = Base(x)
                /\ Leaves(x)' = Leaves(x) + Is(o = x /\ peer[o] # None)
                /\ Downs(x)' = Downs(x) + Is(o = x)
                /\ Downs(x) \in Nat /\ Leaves(x) \in Nat /\ Puts(x) \in Nat /\ Puts(x)' \in Nat
                /\ Base(x) \in Nat
    <2>1. /\ Puts(x)' + PutW(h, x) = Puts(x) + Num(fs, PutSet(x))
          /\ Makes(x)' + MakeW(h, x) = Makes(x) + Num(fs, MakeSet(x))
          /\ Downs(x)' + DownW(h, x) = Downs(x) + Num(fs, DownSet(x))
          /\ Leaves(x)' + LeaveW(h, x) = Leaves(x) + Num(fs, LeaveSet(x))
          /\ Puts(x)' \in Nat /\ Makes(x)' \in Nat /\ Downs(x)' \in Nat /\ Leaves(x)' \in Nat
          /\ Puts(x) \in Nat /\ Makes(x) \in Nat /\ Downs(x) \in Nat /\ Leaves(x) \in Nat
      BY <1>0, <1>1, <1>2, <1>4, GoEffect
    <2>2. PutW(h, x) = Is(o = x) /\ MakeW(h, x) = 0 /\ DownW(h, x) = 0 /\ LeaveW(h, x) = 0
      BY <1>1, <1>2 DEF PutW, MakeW, DownW, LeaveW, Is
    <2>3. /\ Num(fs, PutSet(x)) = 0 /\ Num(fs, MakeSet(x)) = 0 /\ Num(fs, DownSet(x)) = Is(o = x)
          /\ Num(fs, LeaveSet(x)) = Is(o = x /\ peer[o] # None)
      BY <1>3 DEF Ends
    <2>4. PICK a \in Nat, b \in Nat, c \in Nat, d \in Nat, e \in Nat, g \in Nat, k \in Nat, l \in Nat, i \in Nat, j \in Nat :
            /\ a = Puts(x) /\ b = Puts(x)' /\ c = Makes(x) /\ d = Makes(x)'
            /\ e = Downs(x) /\ g = Downs(x)' /\ k = Leaves(x) /\ l = Leaves(x)' /\ i = Is(o = x)
            /\ j = Is(o = x /\ peer[o] # None)
      BY <2>1 DEF Is
    <2>5. b + i = a + 0 /\ d + 0 = c + 0 /\ g + 0 = e + i /\ l + 0 = k + j
      BY <2>1, <2>2, <2>3, <2>4
    <2>6. b + i = a /\ d = c /\ g = e + i /\ l = k + j
      BY <2>5
    <2>7. PICK w \in Nat, m \in Nat : w = Waits(x) /\ w = Waits(x)' /\ m = Is(x \in open) /\ m = Is(x \in open)'
      BY <1>0, <1>1, WaitsKeep DEF Is
    <2>8. Base(x) = c + w + m /\ Base(x)' = d + w + m
      BY <2>4, <2>7 DEF Base
    <2>9. c + w + m \in Nat /\ d + w + m = c + w + m
      BY <2>6
    <2>10. QED BY <2>4, <2>6, <2>8, <2>9
  <1>13. ASSUME NEW x \in Socks, x # o
         PROVE  Puts(x)' = Puts(x) /\ Downs(x)' = Downs(x) /\ Leaves(x)' = Leaves(x)
    BY <1>12, <1>13 DEF Is
  <1>14. Puts(o) = 1 /\ Puts(o)' = 0 /\ Base(o) = 0
    <2>1. sref[o] = Puts(o) + Base(o)
      BY <1>0 DEF RefInv
    <2>2. Puts(o)' + 1 = Puts(o)
      BY <1>12 DEF Is
    <2>3. QED BY <1>6, <1>12, <2>1, <2>2
  <1>15. Downs(o) = 0 /\ Downs(o)' = 1
    <2>1. ~(Downs(o) > 0)
      BY <1>0, <1>6 DEF LifeInv
    <2>2. QED BY <1>12, <2>1 DEF Is
  <1>16. Leaves(o)' = Is(peer[o] # None)
    <2>1. Leaves(o) = 0
      BY <1>0, <1>6 DEF PeerInv, Is
    <2>2. Leaves(o)' = Leaves(o) + Is(o = o /\ peer[o] # None)
      BY <1>12
    <2>3. QED BY <2>1, <2>2 DEF Is
  <1>17. RefInv'
    <2> SUFFICES ASSUME NEW x \in Socks PROVE sref'[x] = Puts(x)' + Base(x)' /\ Base(x)' <= 1
      BY DEF RefInv
    <2>1. CASE x = o
      BY <1>6, <1>12, <1>14, <2>1
    <2>2. CASE x # o
      <3>1. sref[x] = Puts(x) + Base(x) /\ Base(x) <= 1
        BY <1>0 DEF RefInv
      <3>2. sref'[x] = sref[x] /\ Puts(x)' = Puts(x) /\ Base(x)' = Base(x)
        BY <1>6, <1>12, <1>13, <2>2
      <3>3. QED BY <3>1, <3>2
    <2>3. QED BY <2>1, <2>2
  <1>18. LifeInv'
    <2> SUFFICES ASSUME NEW x \in Socks
                 PROVE  /\ x \in live' <=> sref'[x] > 0 \/ Downs(x)' > 0 \/ Pointers(x)' # {}
                        /\ Downs(x)' <= 1
                        /\ Downs(x)' > 0 => sref'[x] = 0
      BY DEF LifeInv
    <2>1. CASE x = o
      <3>1. o \in live
        BY <1>0, <1>6 DEF LifeInv
      <3>2. QED BY <1>1, <1>6, <1>15, <2>1, <3>1
    <2>2. CASE x # o
      BY <1>0, <1>1, <1>6, <1>11, <1>13, <2>2 DEF LifeInv
    <2>3. QED BY <2>1, <2>2
  <1>19. MemInv'
    <2> SUFFICES ASSUME NEW x \in live', kind'[x] = "connector"
                 PROVE  iref'[x] = Cardinality(Pointers(x)') + Is(sref'[x] > 0) + Downs(x)'
      BY DEF MemInv
    <2>1. x \in Socks /\ x \in live /\ kind[x] = "connector"
      BY <1>0, <1>1
    <2>2. iref[x] = Cardinality(Pointers(x)) + Is(sref[x] > 0) + Downs(x)
      BY <1>0, <2>1 DEF MemInv
    <2>3. CASE x = o
      <3>1. PICK c : c = Cardinality(Pointers(o)) /\ c = Cardinality(Pointers(o)')
        BY <1>11
      <3>2. iref[o] = c + 1 + 0
        BY <1>6, <1>15, <2>2, <2>3, <3>1 DEF Is
      <3>3. c \in Nat
        <4>1. IsFiniteSet(Pointers(o))
          BY InprocAssumption, FS_Subset DEF Pointers
        <4>2. QED BY <3>1, <4>1, FS_CardinalityType
      <3>4. c + 1 + 0 = c + 0 + 1
        BY <3>3
      <3>5. Is(sref'[o] > 0) = 0
        BY <1>6 DEF Is
      <3>6. QED BY <1>1, <1>15, <2>3, <3>1, <3>2, <3>4, <3>5
    <2>4. CASE x # o
      BY <1>1, <1>6, <1>11, <1>13, <2>1, <2>2, <2>4
    <2>5. QED BY <2>3, <2>4
  <1>20. PeerInv'
    <2> SUFFICES ASSUME NEW x \in Socks
                 PROVE  /\ peer'[x] # None => kind'[x] = "connector" /\ kind'[peer'[x]] = "connector"
                        /\ Leaves(x)' = Is(peer'[x] # None /\ sref'[x] = 0)
      BY DEF PeerInv
    <2>1. peer'[x] # None => kind'[x] = "connector" /\ kind'[peer'[x]] = "connector"
      BY <1>0, <1>1 DEF PeerInv
    <2>2. CASE x = o
      BY <1>1, <1>6, <1>16, <2>1, <2>2 DEF Is
    <2>3. CASE x # o
      BY <1>0, <1>1, <1>6, <1>13, <2>1, <2>3 DEF PeerInv
    <2>4. QED BY <2>2, <2>3
  <1>21. HandInv'
    <2>1. ASSUME NEW f \in Held PROVE FrameOK(f)'
      <3>1. FrameOK(f) /\ f.o \in Socks
        BY <1>0, Due DEF HandInv, Frame
      <3>2. QED BY <1>1, <1>11, <3>1 DEF FrameOK, FrameKind
    <2>2. ASSUME NEW i \in DOMAIN fs PROVE FrameOK(fs[i])'
      <3>1. /\ fs[i].o = o
            /\ fs[i].op \in IF kind[o] = "listener" THEN {"rmlistener"} ELSE {"wakepeer", "putpeer", "putself"}
        BY <1>3 DEF Ends
      <3>2. kind[o] \in {"listener", "connector"}
        BY <1>0 DEF TypeInv
      <3>3. QED BY <1>1, <3>1, <3>2 DEF FrameOK, FrameKind, OfListener, OfConnector
    <2>3. PICK M : M = Held \cup {f \in Frame : FrameOK(f)'}
      OBVIOUS
    <2>4. \A i \in DOMAIN q : q[i] \in M
      <3>1. \A i \in DOMAIN (fs \o Tail(th[t])) :
              \/ (fs \o Tail(th[t]))[i] \in Held
              \/ \E j \in DOMAIN fs : (fs \o Tail(th[t]))[i] = fs[j]
        BY <1>0, <1>1, GoHand
      <3>2. \A j \in DOMAIN fs : fs[j] \in Frame
        OBVIOUS
      <3>3. QED BY <1>2, <1>5, <2>2, <2>3, <3>1, <3>2
    <2>5. \A u \in Threads : u # t => \A i \in DOMAIN th[u] : th[u][i] \in M
      BY <2>3, HeldIs
    <2>6. \A f \in M : FrameOK(f)'
      BY <2>1, <2>3
    <2>7. QED BY <1>0, <1>5, <2>4, <2>5, <2>6, HandStep
  <1>22. QueueInv'
    BY <1>0, <1>1 DEF QueueInv
  <1>23. MapInv'
    BY <1>0, <1>1 DEF MapInv
  <1>24. EpipeInv'
    <2>1. \A x \in live' : Base(x)' = 0 => (x \in live /\ Base(x) = 0) \/ \E i \in DOMAIN fs : fs[i] = Do("epipe", x)
      BY <1>0, <1>1, <1>12
    <2>2. \A x \in live' \cap live : epipe[x] => epipe'[x]
      BY <1>1
    <2>3. QED BY <1>0, <1>1, <1>2, <1>4, <2>1, <2>2, EpipeGo
  <1>25. QED BY <1>7, <1>8, <1>9, <1>10, <1>17, <1>18, <1>19, <1>20, <1>21, <1>22, <1>23, <1>24 DEF IInv

LEMMA PutStep ==
  ASSUME IInv, NEW t \in Threads, xput(t)
  PROVE  IInv'
  BY PutKeeps, PutLast

\* The ends that point at a socket.
LEMMA PointersFinite ==
  ASSUME NEW x \in Socks
  PROVE  /\ IsFiniteSet(Pointers(x)) /\ Cardinality(Pointers(x)) \in Nat
         /\ Cardinality(Pointers(x)) = 0 <=> Pointers(x) = {}
  <1>1. IsFiniteSet(Pointers(x))
    BY InprocAssumption, FS_Subset DEF Pointers
  <1>2. QED BY <1>1, FS_CardinalityType, FS_EmptySet

\* A closed connector puts itself: it is freed unless its peer points at it still.
LEMMA PutSelfStep ==
  ASSUME IInv, NEW t \in Threads, inproc_connector_close(t)
  PROVE  IInv'
  <1>0. /\ TypeInv /\ ShapeInv /\ SleepJustified /\ ListenerVisible /\ HandInv /\ RefInv /\ QueueInv
        /\ LifeInv /\ MemInv /\ PeerInv /\ MapInv /\ EpipeInv /\ live \subseteq Socks /\ open \subseteq Socks
    BY DEF IInv, TypeInv
  <1>1. /\ th[t] # <<>> /\ Head(th[t]).op = "putself" /\ Goes(t, <<>>, {})
        /\ iref' = [iref EXCEPT ![Sock(t)] = @ - 1]
        /\ live' = IF iref[Sock(t)] = 1 THEN live \ {Sock(t)} ELSE live
        /\ map' = map /\ foreign' = foreign /\ kind' = kind /\ sref' = sref /\ peer' = peer
        /\ epipe' = epipe /\ rcv' = rcv /\ accq' = accq /\ open' = open
    BY DEF inproc_connector_close, Unref, At, mapVars, flowVars
  <1>2. PICK o \in Socks, h \in Frame, r \in Seq(Frame) :
           /\ o = Sock(t) /\ h = Head(th[t]) /\ r = Tail(th[t]) /\ h.o = o /\ h \in Held
           /\ Rest(r) /\ First(h, r) /\ Stack(r)
    BY <1>0, <1>1, Rests
  <1>3. PICK fs \in Seq(Frame) : fs = <<>> /\ Goes(t, fs, {})
    <2>1. <<>> \in Seq(Frame)
      OBVIOUS
    <2>2. QED BY <1>1, <2>1
  <1>4. /\ Turns(t, fs \o r) /\ fs \o r \in Seq(Frame)
        /\ th' \in [Threads -> Seq(Frame)] /\ Stack(fs \o r)
        /\ fs \o r # <<>> => Head(fs \o r).op \in Later
    BY <1>0, <1>1, <1>2, <1>3, GoOn, Sleeping
  <1>5. PICK q \in Seq(Frame) : q = fs \o r /\ Turns(t, q) /\ Stack(q)
    BY <1>4
  <1>6. kind[o] = "connector"
    BY <1>0, <1>1, <1>2 DEF HandInv, FrameOK, FrameKind, OfConnector
  <1>7. Downs(o) = 1 /\ sref[o] = 0 /\ o \in live
    <2>1. h \in DownSet(o)
      BY <1>1, <1>2 DEF DownSet, Solid
    <2>2. /\ Downs(o) > 0 /\ Downs(o) <= 1 /\ Downs(o) \in Nat /\ (Downs(o) > 0 => sref[o] = 0)
          /\ Downs(o) > 0 => o \in live
      BY <1>0, <1>2, <2>1, Tallies DEF LifeInv
    <2>3. QED BY <2>2
  <1>8. PICK c \in Nat : c = Cardinality(Pointers(o)) /\ (c = 0 <=> Pointers(o) = {}) /\ iref[o] = c + 1
    <2>1. PICK c \in Nat : c = Cardinality(Pointers(o)) /\ (c = 0 <=> Pointers(o) = {})
      BY PointersFinite
    <2>2. iref[o] = Cardinality(Pointers(o)) + Is(sref[o] > 0) + Downs(o)
      BY <1>0, <1>6, <1>7 DEF MemInv
    <2>3. iref[o] = c + 0 + 1
      BY <1>7, <2>1, <2>2 DEF Is
    <2>4. QED BY <2>1, <2>3
  <1>9. /\ iref'[o] = c /\ iref' \in [Socks -> 0..2] /\ \A x \in Socks : x # o => iref'[x] = iref[x]
        /\ live' \subseteq live /\ (o \in live' <=> Pointers(o) # {}) /\ \A x \in Socks : x # o => (x \in live' <=> x \in live)
    <2>1. iref[o] \in 0..2 /\ iref[o] - 1 = c
      BY <1>0, <1>8 DEF TypeInv
    <2>2. iref'[o] = c /\ iref' \in [Socks -> 0..2] /\ \A x \in Socks : x # o => iref'[x] = iref[x]
      BY <1>0, <1>1, <1>2, <1>8, <2>1 DEF TypeInv
    <2>3. iref[o] = 1 <=> Pointers(o) = {}
      BY <1>8
    <2>4. QED BY <1>1, <1>2, <1>7, <2>2, <2>3
  <1>10. TypeInv'
    BY <1>0, <1>1, <1>4, <1>9 DEF TypeInv
  <1>11. SleepJustified'
    <2>1. q # <<>> => Head(q).op \notin {"asleep", "rsleep"}
      BY <1>4, <1>5 DEF Later
    <2>2. QED BY <1>0, <1>1, <1>5, <2>1, SleepStill
  <1>12. ListenerVisible'
    BY <1>0, <1>1, ListenerKept
  <1>13. ShapeInv'
    BY <1>0, <1>5, TurnsShape
  <1>14. \A x \in Socks : Pointers(x)' = Pointers(x)
    BY <1>1 DEF Pointers
  <1>15. ASSUME NEW x \in Socks
         PROVE  /\ Puts(x)' = Puts(x) /\ Base(x)' = Base(x) /\ Leaves(x)' = Leaves(x)
                /\ Downs(x)' + Is(o = x) = Downs(x) /\ Downs(x) \in Nat /\ Downs(x)' \in Nat
    <2>1. /\ Puts(x)' + PutW(h, x) = Puts(x) + Num(fs, PutSet(x))
          /\ Makes(x)' + MakeW(h, x) = Makes(x) + Num(fs, MakeSet(x))
          /\ Downs(x)' + DownW(h, x) = Downs(x) + Num(fs, DownSet(x))
          /\ Leaves(x)' + LeaveW(h, x) = Leaves(x) + Num(fs, LeaveSet(x))
          /\ Puts(x)' \in Nat /\ Makes(x)' \in Nat /\ Downs(x)' \in Nat /\ Leaves(x)' \in Nat
          /\ Puts(x) \in Nat /\ Makes(x) \in Nat /\ Downs(x) \in Nat /\ Leaves(x) \in Nat
      BY <1>0, <1>1, <1>2, <1>4, GoEffect
    <2>2. PutW(h, x) = 0 /\ MakeW(h, x) = 0 /\ DownW(h, x) = Is(o = x) /\ LeaveW(h, x) = 0
      BY <1>1, <1>2 DEF PutW, MakeW, DownW, LeaveW, Is
    <2>3. /\ Num(fs, PutSet(x)) = 0 /\ Num(fs, MakeSet(x)) = 0 /\ Num(fs, DownSet(x)) = 0
          /\ Num(fs, LeaveSet(x)) = 0
      BY <1>3, NumEmpty
    <2>4. PICK a \in Nat, b \in Nat, d \in Nat, e \in Nat, f \in Nat, g \in Nat, k \in Nat, l \in Nat, i \in Nat :
            /\ a = Puts(x) /\ b = Puts(x)' /\ d = Makes(x) /\ e = Makes(x)'
            /\ f = Downs(x) /\ g = Downs(x)' /\ k = Leaves(x) /\ l = Leaves(x)' /\ i = Is(o = x)
      BY <2>1 DEF Is
    <2>5. b + 0 = a + 0 /\ e + 0 = d + 0 /\ g + i = f + 0 /\ l + 0 = k + 0
      BY <2>1, <2>2, <2>3, <2>4
    <2>6. b = a /\ e = d /\ g + i = f /\ l = k
      BY <2>5
    <2>7. Waits(x)' = Waits(x)
      BY <1>0, <1>1, WaitsKeep
    <2>8. Makes(x)' = Makes(x)
      BY <2>4, <2>6
    <2>9. Base(x)' = Base(x)
      BY <1>1, <2>7, <2>8 DEF Base
    <2>10. QED BY <2>4, <2>6, <2>9
  <1>16. RefInv'
    BY <1>0, <1>1, <1>15 DEF RefInv
  <1>17. Downs(o)' = 0
    BY <1>7, <1>15 DEF Is
  <1>18. ASSUME NEW x \in Socks, x # o PROVE Downs(x)' = Downs(x)
    BY <1>15, <1>18 DEF Is
  <1>19. LifeInv'
    <2> SUFFICES ASSUME NEW x \in Socks
                 PROVE  /\ x \in live' <=> sref'[x] > 0 \/ Downs(x)' > 0 \/ Pointers(x)' # {}
                        /\ Downs(x)' <= 1
                        /\ Downs(x)' > 0 => sref'[x] = 0
      BY DEF LifeInv
    <2>1. CASE x = o
      BY <1>1, <1>7, <1>9, <1>14, <1>17, <2>1
    <2>2. CASE x # o
      BY <1>0, <1>1, <1>9, <1>14, <1>18, <2>2 DEF LifeInv
    <2>3. QED BY <2>1, <2>2
  <1>20. MemInv'
    <2> SUFFICES ASSUME NEW x \in live', kind'[x] = "connector"
                 PROVE  iref'[x] = Cardinality(Pointers(x)') + Is(sref'[x] > 0) + Downs(x)'
      BY DEF MemInv
    <2>1. x \in Socks /\ x \in live /\ kind[x] = "connector"
      BY <1>0, <1>1, <1>9
    <2>2. iref[x] = Cardinality(Pointers(x)) + Is(sref[x] > 0) + Downs(x)
      BY <1>0, <2>1 DEF MemInv
    <2>3. CASE x = o
      <3>1. Cardinality(Pointers(o)') = c
        BY <1>8, <1>14
      <3>2. Is(sref'[o] > 0) = 0
        BY <1>1, <1>7 DEF Is
      <3>3. iref'[o] = c + 0 + 0
        BY <1>9
      <3>4. QED BY <1>17, <2>3, <3>1, <3>2, <3>3
    <2>4. CASE x # o
      BY <1>1, <1>9, <1>14, <1>18, <2>1, <2>2, <2>4
    <2>5. QED BY <2>3, <2>4
  <1>21. PeerInv'
    BY <1>0, <1>1, <1>15 DEF PeerInv
  <1>22. HandInv'
    <2>1. ASSUME NEW f \in Held PROVE FrameOK(f)'
      <3>1. FrameOK(f) /\ f.o \in Socks
        BY <1>0, Due DEF HandInv, Frame
      <3>2. QED BY <1>1, <1>14, <3>1 DEF FrameOK, FrameKind
    <2>2. \A i \in DOMAIN q : q[i] \in Held
      <3>1. \A i \in DOMAIN (fs \o Tail(th[t])) :
              \/ (fs \o Tail(th[t]))[i] \in Held
              \/ \E j \in DOMAIN fs : (fs \o Tail(th[t]))[i] = fs[j]
        BY <1>0, <1>1, GoHand
      <3>2. QED BY <1>2, <1>3, <1>5, <3>1
    <2>3. \A u \in Threads : u # t => \A i \in DOMAIN th[u] : th[u][i] \in Held
      BY HeldIs
    <2>4. PICK M : M = Held
      OBVIOUS
    <2>5. QED BY <1>0, <1>5, <2>1, <2>2, <2>3, <2>4, HandStep
  <1>23. QueueInv'
    <2>1. \A l \in Socks : accq[l] # <<>> => l # o
      BY <1>0, <1>6 DEF QueueInv
    <2>2. QED BY <1>0, <1>1, <1>9, <2>1 DEF QueueInv
  <1>24. MapInv'
    <2>1. map # None => map \in Socks /\ map # o
      BY <1>0, <1>6 DEF MapInv
    <2>2. QED BY <1>0, <1>1, <1>9, <2>1 DEF MapInv
  <1>25. EpipeInv'
    <2>1. \A x \in live' : Base(x)' = 0 => (x \in live /\ Base(x) = 0) \/ \E i \in DOMAIN fs : fs[i] = Do("epipe", x)
      BY <1>0, <1>9, <1>15
    <2>2. \A x \in live' \cap live : epipe[x] => epipe'[x]
      BY <1>1
    <2>3. QED BY <1>0, <1>1, <1>2, <1>4, <2>1, <2>2, EpipeGo
  <1>26. QED BY <1>10, <1>11, <1>12, <1>13, <1>16, <1>19, <1>20, <1>21, <1>22, <1>23, <1>24, <1>25 DEF IInv

\* A closing connector puts its peer, which is freed if it is closed and nobody points at it.
LEMMA PutPeerStep ==
  ASSUME IInv, NEW t \in Threads, PutPeer(t)
  PROVE  IInv'
  <1>0. /\ TypeInv /\ ShapeInv /\ SleepJustified /\ ListenerVisible /\ HandInv /\ RefInv /\ QueueInv
        /\ LifeInv /\ MemInv /\ PeerInv /\ MapInv /\ EpipeInv /\ live \subseteq Socks /\ open \subseteq Socks
    BY DEF IInv, TypeInv
  <1>1. /\ th[t] # <<>> /\ Head(th[t]).op = "putpeer" /\ Goes(t, <<>>, {})
        /\ iref' = [iref EXCEPT ![peer[Sock(t)]] = @ - 1]
        /\ live' = IF iref[peer[Sock(t)]] = 1 THEN live \ {peer[Sock(t)]} ELSE live
        /\ peer' = [peer EXCEPT ![Sock(t)] = None]
        /\ map' = map /\ foreign' = foreign /\ kind' = kind /\ sref' = sref
        /\ epipe' = epipe /\ rcv' = rcv /\ accq' = accq /\ open' = open
    BY DEF PutPeer, Unref, At, mapVars, flowVars
  <1>2. PICK o \in Socks, h \in Frame, r \in Seq(Frame) :
           /\ o = Sock(t) /\ h = Head(th[t]) /\ r = Tail(th[t]) /\ h.o = o /\ h \in Held
           /\ Rest(r) /\ First(h, r) /\ Stack(r)
    BY <1>0, <1>1, Rests
  <1>3. PICK fs \in Seq(Frame) : fs = <<>> /\ Goes(t, fs, {})
    <2>1. <<>> \in Seq(Frame)
      OBVIOUS
    <2>2. QED BY <1>1, <2>1
  <1>4. /\ Turns(t, fs \o r) /\ fs \o r \in Seq(Frame)
        /\ th' \in [Threads -> Seq(Frame)] /\ Stack(fs \o r)
        /\ fs \o r # <<>> => Head(fs \o r).op \in Later
    BY <1>0, <1>1, <1>2, <1>3, GoOn, Sleeping
  <1>5. PICK q \in Seq(Frame) : q = fs \o r /\ Turns(t, q) /\ Stack(q)
    BY <1>4
  <1>6. peer[o] # None /\ sref[o] = 0 /\ Leaves(o) = 1
    <2>1. h \in LeaveSet(o)
      BY <1>1, <1>2 DEF LeaveSet, Solid
    <2>2. Leaves(o) > 0 /\ Leaves(o) = Is(peer[o] # None /\ sref[o] = 0)
      BY <1>0, <1>2, <2>1, Tallies DEF PeerInv
    <2>3. QED BY <2>2 DEF Is
  <1>7. PICK p \in Socks : p = peer[o] /\ kind[p] = "connector" /\ p \in live /\ o \in Pointers(p)
    <2>1. peer[o] \in Socks /\ kind[peer[o]] = "connector"
      BY <1>0, <1>2, <1>6 DEF TypeInv, PeerInv
    <2>2. o \in Pointers(peer[o])
      BY <2>1 DEF Pointers
    <2>3. peer[o] \in live
      BY <1>0, <2>1, <2>2 DEF LifeInv
    <2>4. QED BY <2>1, <2>2, <2>3
  <1>8. /\ peer' \in [Socks -> Socks \cup {None}] /\ peer'[o] = None
        /\ \A x \in Socks : x # o => peer'[x] = peer[x]
        /\ Pointers(p)' = Pointers(p) \ {o} /\ \A x \in Socks : x # p => Pointers(x)' = Pointers(x)
    <2>1. /\ peer' \in [Socks -> Socks \cup {None}] /\ peer'[o] = None
          /\ \A x \in Socks : x # o => peer'[x] = peer[x]
      BY <1>0, <1>1, <1>2 DEF TypeInv
    <2>2. p # None
      BY <1>6, <1>7
    <2>3. \A x \in Socks : x # None
      BY InprocAssumption
    <2>4. QED BY <1>7, <2>1, <2>2, <2>3 DEF Pointers
  <1>9. PICK c \in Nat, d \in Nat, e \in Nat :
          /\ c = Cardinality(Pointers(p)') /\ (c = 0 <=> Pointers(p)' = {})
          /\ d = Is(sref[p] > 0) /\ (d = 0 <=> ~(sref[p] > 0))
          /\ e = Downs(p) /\ iref[p] = (c + 1) + d + e
    <2>1. PICK b \in Nat : b = Cardinality(Pointers(p)) /\ IsFiniteSet(Pointers(p)) /\ b # 0
      BY <1>7, PointersFinite
    <2>2. Cardinality(Pointers(p) \ {o}) = b - 1
      BY <1>7, <2>1, FS_RemoveElement
    <2>3. PICK c \in Nat : c = Cardinality(Pointers(p)') /\ b = c + 1
      BY <1>8, <2>1, <2>2
    <2>4. c = 0 <=> Pointers(p)' = {}
      <3>1. IsFiniteSet(Pointers(p) \ {o})
        BY <2>1, FS_Subset
      <3>2. QED BY <1>8, <2>3, <3>1, FS_EmptySet
    <2>5. PICK d \in Nat, e \in Nat : d = Is(sref[p] > 0) /\ (d = 0 <=> ~(sref[p] > 0)) /\ e = Downs(p)
      <3>1. Downs(p) \in Nat
        BY <1>0, Tallies
      <3>2. Is(sref[p] > 0) \in Nat /\ (Is(sref[p] > 0) = 0 <=> ~(sref[p] > 0))
        BY DEF Is
      <3>3. QED BY <3>1, <3>2
    <2>6. iref[p] = Cardinality(Pointers(p)) + Is(sref[p] > 0) + Downs(p)
      BY <1>0, <1>7 DEF MemInv
    <2>7. iref[p] = (c + 1) + d + e
      BY <2>1, <2>3, <2>5, <2>6
    <2>8. QED BY <2>3, <2>4, <2>5, <2>7
  <1>10. /\ iref'[p] = c + d + e /\ iref' \in [Socks -> 0..2] /\ \A x \in Socks : x # p => iref'[x] = iref[x]
         /\ live' \subseteq live
         /\ p \in live' <=> sref[p] > 0 \/ Downs(p) > 0 \/ Pointers(p)' # {}
         /\ \A x \in Socks : x # p => (x \in live' <=> x \in live)
    <2>1. iref[p] \in 0..2 /\ iref[p] - 1 = c + d + e
      <3>1. iref[p] \in 0..2
        BY <1>0 DEF TypeInv
      <3>2. ((c + 1) + d + e) - 1 = c + d + e
        OBVIOUS
      <3>3. QED BY <1>9, <3>1, <3>2
    <2>2. iref'[p] = c + d + e /\ iref' \in [Socks -> 0..2] /\ \A x \in Socks : x # p => iref'[x] = iref[x]
      <3>1. iref' = [iref EXCEPT ![p] = @ - 1]
        BY <1>1, <1>2, <1>7
      <3>2. iref[p] - 1 \in 0..2
        BY <1>9, <2>1
      <3>3. QED BY <1>0, <2>1, <3>1, <3>2 DEF TypeInv
    <2>3. iref[p] = 1 <=> c = 0 /\ d = 0 /\ e = 0
      BY SMTT(60), <1>9
    <2>4. iref[p] = 1 <=> ~(sref[p] > 0 \/ Downs(p) > 0 \/ Pointers(p)' # {})
      BY SMTT(60), <1>9, <2>3
    <2>5. live' = IF iref[p] = 1 THEN live \ {p} ELSE live
      BY <1>1, <1>2, <1>7
    <2>6. QED BY <1>7, <2>2, <2>4, <2>5
  <1>11. TypeInv'
    BY <1>0, <1>1, <1>4, <1>8, <1>10 DEF TypeInv
  <1>12. SleepJustified'
    <2>1. q # <<>> => Head(q).op \notin {"asleep", "rsleep"}
      BY <1>4, <1>5 DEF Later
    <2>2. QED BY <1>0, <1>1, <1>5, <2>1, SleepStill
  <1>13. ListenerVisible'
    BY <1>0, <1>1, ListenerKept
  <1>14. ShapeInv'
    BY <1>0, <1>5, TurnsShape
  <1>15. \A x \in Socks : Pointers(x) = {} => Pointers(x)' = {}
    BY <1>8
  <1>16. ASSUME NEW x \in Socks
         PROVE  /\ Puts(x)' = Puts(x) /\ Base(x)' = Base(x) /\ Downs(x)' = Downs(x)
                /\ Leaves(x)' + Is(o = x) = Leaves(x) /\ Leaves(x) \in Nat /\ Leaves(x)' \in Nat
    <2>1. /\ Puts(x)' + PutW(h, x) = Puts(x) + Num(fs, PutSet(x))
          /\ Makes(x)' + MakeW(h, x) = Makes(x) + Num(fs, MakeSet(x))
          /\ Downs(x)' + DownW(h, x) = Downs(x) + Num(fs, DownSet(x))
          /\ Leaves(x)' + LeaveW(h, x) = Leaves(x) + Num(fs, LeaveSet(x))
          /\ Puts(x)' \in Nat /\ Makes(x)' \in Nat /\ Downs(x)' \in Nat /\ Leaves(x)' \in Nat
          /\ Puts(x) \in Nat /\ Makes(x) \in Nat /\ Downs(x) \in Nat /\ Leaves(x) \in Nat
      BY <1>0, <1>1, <1>2, <1>4, GoEffect
    <2>2. PutW(h, x) = 0 /\ MakeW(h, x) = 0 /\ DownW(h, x) = 0 /\ LeaveW(h, x) = Is(o = x)
      BY <1>1, <1>2 DEF PutW, MakeW, DownW, LeaveW, Is
    <2>3. /\ Num(fs, PutSet(x)) = 0 /\ Num(fs, MakeSet(x)) = 0 /\ Num(fs, DownSet(x)) = 0
          /\ Num(fs, LeaveSet(x)) = 0
      BY <1>3, NumEmpty
    <2>4. PICK a \in Nat, b \in Nat, m \in Nat, n \in Nat, f \in Nat, g \in Nat, k \in Nat, l \in Nat, i \in Nat :
            /\ a = Puts(x) /\ b = Puts(x)' /\ m = Makes(x) /\ n = Makes(x)'
            /\ f = Downs(x) /\ g = Downs(x)' /\ k = Leaves(x) /\ l = Leaves(x)' /\ i = Is(o = x)
      BY <2>1 DEF Is
    <2>5. b + 0 = a + 0 /\ n + 0 = m + 0 /\ g + 0 = f + 0 /\ l + i = k + 0
      BY <2>1, <2>2, <2>3, <2>4
    <2>6. b = a /\ n = m /\ g = f /\ l + i = k
      BY <2>5
    <2>7. Waits(x)' = Waits(x)
      BY <1>0, <1>1, WaitsKeep
    <2>8. Makes(x)' = Makes(x)
      BY <2>4, <2>6
    <2>9. Base(x)' = Base(x)
      BY <1>1, <2>7, <2>8 DEF Base
    <2>10. QED BY <2>4, <2>6, <2>9
  <1>17. RefInv'
    BY <1>0, <1>1, <1>16 DEF RefInv
  <1>18. Leaves(o)' = 0
    BY <1>6, <1>16 DEF Is
  <1>19. ASSUME NEW x \in Socks, x # o PROVE Leaves(x)' = Leaves(x)
    BY <1>16, <1>19 DEF Is
  <1>20. LifeInv'
    <2> SUFFICES ASSUME NEW x \in Socks
                 PROVE  /\ x \in live' <=> sref'[x] > 0 \/ Downs(x)' > 0 \/ Pointers(x)' # {}
                        /\ Downs(x)' <= 1
                        /\ Downs(x)' > 0 => sref'[x] = 0
      BY DEF LifeInv
    <2>1. Downs(x)' <= 1 /\ (Downs(x)' > 0 => sref'[x] = 0)
      BY <1>0, <1>1, <1>16 DEF LifeInv
    <2>2. CASE x = p
      BY <1>1, <1>16, <1>10, <2>1, <2>2
    <2>3. CASE x # p
      BY <1>0, <1>1, <1>8, <1>16, <1>10, <2>1, <2>3 DEF LifeInv
    <2>4. QED BY <2>2, <2>3
  <1>21. MemInv'
    <2> SUFFICES ASSUME NEW x \in live', kind'[x] = "connector"
                 PROVE  iref'[x] = Cardinality(Pointers(x)') + Is(sref'[x] > 0) + Downs(x)'
      BY DEF MemInv
    <2>1. x \in Socks /\ x \in live /\ kind[x] = "connector"
      BY <1>0, <1>1, <1>10
    <2>2. iref[x] = Cardinality(Pointers(x)) + Is(sref[x] > 0) + Downs(x)
      BY <1>0, <2>1 DEF MemInv
    <2>3. CASE x = p
      BY <1>1, <1>9, <1>16, <1>10, <2>3
    <2>4. CASE x # p
      BY <1>1, <1>8, <1>16, <1>10, <2>1, <2>2, <2>4
    <2>5. QED BY <2>3, <2>4
  <1>22. PeerInv'
    <2> SUFFICES ASSUME NEW x \in Socks
                 PROVE  /\ peer'[x] # None => kind'[x] = "connector" /\ kind'[peer'[x]] = "connector"
                        /\ Leaves(x)' = Is(peer'[x] # None /\ sref'[x] = 0)
      BY DEF PeerInv
    <2>1. CASE x = o
      BY <1>8, <1>18, <2>1 DEF Is
    <2>2. CASE x # o
      BY <1>0, <1>1, <1>8, <1>19, <2>2 DEF PeerInv
    <2>3. QED BY <2>1, <2>2
  <1>23. HandInv'
    <2>1. ASSUME NEW f \in Held PROVE FrameOK(f)'
      <3>1. FrameOK(f) /\ f.o \in Socks
        BY <1>0, Due DEF HandInv, Frame
      <3>2. peer[f.o] = None => peer'[f.o] = None
        BY <1>8, <3>1
      <3>3. QED BY <1>1, <1>15, <3>1, <3>2 DEF FrameOK, FrameKind
    <2>2. \A i \in DOMAIN q : q[i] \in Held
      <3>1. \A i \in DOMAIN (fs \o Tail(th[t])) :
              \/ (fs \o Tail(th[t]))[i] \in Held
              \/ \E j \in DOMAIN fs : (fs \o Tail(th[t]))[i] = fs[j]
        BY <1>0, <1>1, GoHand
      <3>2. QED BY <1>2, <1>3, <1>5, <3>1
    <2>3. \A u \in Threads : u # t => \A i \in DOMAIN th[u] : th[u][i] \in Held
      BY HeldIs
    <2>4. PICK M : M = Held
      OBVIOUS
    <2>5. QED BY <1>0, <1>5, <2>1, <2>2, <2>3, <2>4, HandStep
  <1>24. QueueInv'
    <2>1. \A l \in Socks : accq[l] # <<>> => l # p
      BY <1>0, <1>7 DEF QueueInv
    <2>2. QED BY <1>0, <1>1, <1>10, <2>1 DEF QueueInv
  <1>25. MapInv'
    <2>1. map # None => map \in Socks /\ map # p
      BY <1>0, <1>7 DEF MapInv
    <2>2. QED BY <1>0, <1>1, <1>10, <2>1 DEF MapInv
  <1>26. EpipeInv'
    <2>1. \A x \in live' : Base(x)' = 0 => (x \in live /\ Base(x) = 0) \/ \E i \in DOMAIN fs : fs[i] = Do("epipe", x)
      BY <1>0, <1>16, <1>10
    <2>2. \A x \in live' \cap live : epipe[x] => epipe'[x]
      BY <1>1
    <2>3. QED BY <1>0, <1>1, <1>2, <1>4, <2>1, <2>2, EpipeGo
  <1>27. QED BY <1>11, <1>12, <1>13, <1>14, <1>17, <1>20, <1>21, <1>22, <1>23, <1>24, <1>25, <1>26 DEF IInv

\* A socket whose connection is still to be made is with one thread, which is to return it.
LEMMA Builds ==
  ASSUME TypeInv, ShapeInv, NEW u \in Threads, NEW i \in DOMAIN th[u],
         th[u][i].op \in {"getlistener", "pair"}
  PROVE  th[u][i].o \in Socks /\ \E j \in DOMAIN th[u] : th[u][j] \in MakeSet(th[u][i].o)
  <1>1. th[u] \in Seq(Frame) /\ th[u] # <<>> /\ th[u][i] \in Frame
    BY DEF TypeInv
  <1>2. PICK f \in Frame, o \in Socks : f = th[u][i] /\ o = f.o /\ f.op \in {"getlistener", "pair"}
    BY <1>1 DEF Frame
  <1>3. PICK a \in Frame, r \in Seq(Frame) : a = Head(th[u]) /\ r = Tail(th[u]) /\ th[u] = <<a>> \o r
    BY <1>1, InHand
  <1>4. Rest(r) /\ First(a, r)
    BY <1>1, <1>3 DEF ShapeInv, Stack
  <1>5. i = 1
    <2>1. i # 1 => i - 1 \in DOMAIN r /\ (<<a>> \o r)[i] = r[i - 1]
      BY <1>3
    <2>2. i # 1 => f = r[i - 1] /\ i - 1 \in DOMAIN r
      BY <1>2, <1>3, <2>1
    <2>3. QED BY <1>2, <1>4, <2>2 DEF Rest, Later
  <1>6. f = a
    BY <1>2, <1>3, <1>5
  <1>7. CASE f.op = "getlistener"
    BY <1>2, <1>7 DEF MakeSet, Solid
  <1>8. CASE f.op = "pair"
    <2>1. PICK b \in Frame, c \in Frame : c = Do("return", o) /\ c.op = "return" /\ c.o = o /\ r = <<b, c>>
      <3>1. f.p \in Socks /\ r = <<Do("put", f.p), Do("return", o)>>
        BY <1>2, <1>4, <1>6, <1>8 DEF First
      <3>2. /\ Do("put", f.p) \in Frame
            /\ Do("return", o) \in Frame /\ Do("return", o).op = "return" /\ Do("return", o).o = o
        BY <3>1, DoFrame
      <3>3. QED BY <3>1, <3>2
    <2>2. 3 \in DOMAIN (<<a>> \o <<b, c>>) /\ (<<a>> \o <<b, c>>)[3] = c
      OBVIOUS
    <2>3. 3 \in DOMAIN th[u] /\ th[u][3] = c
      BY <1>3, <2>1, <2>2
    <2>4. c \in MakeSet(o)
      BY <2>1 DEF MakeSet, Solid
    <2>5. QED BY <1>2, <2>3, <2>4
  <1>9. QED BY <1>2, <1>7, <1>8

LEMMA BuildsAlone ==
  ASSUME TypeInv, ShapeInv, RefInv, NEW t \in Threads, NEW u \in Threads, u # t,
         NEW i \in DOMAIN th[t], NEW j \in DOMAIN th[u],
         th[t][i].op \in {"getlistener", "pair"}, th[u][j].op \in {"getlistener", "pair"}
  PROVE  th[u][j].o # th[t][i].o
  <1> SUFFICES ASSUME th[u][j].o = th[t][i].o PROVE FALSE
    OBVIOUS
  <1>1. PICK o \in Socks : o = th[t][i].o /\ o = th[u][j].o
    BY Builds
  <1>2. PICK k \in DOMAIN th[t] : th[t][k] \in MakeSet(o)
    BY <1>1, Builds
  <1>3. PICK m \in DOMAIN th[u] : th[u][m] \in MakeSet(o)
    BY <1>1, Builds
  <1>4. Makes(o) <= 1
    <2>1. Base(o) <= 1
      BY <1>1 DEF RefInv
    <2>2. Makes(o) \in Nat /\ Waits(o) \in Nat /\ Is(o \in open) \in Nat
      BY <1>1, Tallies DEF Is
    <2>3. QED BY <2>1, <2>2 DEF Base
  <1>5. Family(th, Threads, Frame)
    BY InprocAssumption DEF TypeInv, Family
  <1>6. Count(th, MakeSet(o)) <= 1
    BY <1>4 DEF Makes
  <1>7. QED BY <1>2, <1>3, <1>5, <1>6, CountTwo

\* The two ends of a connection point at each other.
LEMMA PairStep ==
  ASSUME IInv, NEW t \in Threads, Pair(t)
  PROVE  IInv'
  <1>0. /\ TypeInv /\ ShapeInv /\ SleepJustified /\ ListenerVisible /\ HandInv /\ RefInv /\ QueueInv
        /\ LifeInv /\ MemInv /\ PeerInv /\ MapInv /\ EpipeInv /\ live \subseteq Socks /\ open \subseteq Socks
        /\ \A x \in Socks : x # None
    BY InprocAssumption DEF IInv, TypeInv
  <1>1. PICK n \in Socks :
        /\ th[t] # <<>> /\ Head(th[t]).op = "pair"
        /\ Goes(t, <<[op |-> "acceptq_add", o |-> Peer(t), p |-> n]>>, {})
        /\ n \notin live /\ live' = live \cup {n} /\ kind' = [kind EXCEPT ![n] = "connector"]
        /\ epipe' = [epipe EXCEPT ![n] = FALSE] /\ rcv' = [rcv EXCEPT ![n] = 0]
        /\ accq' = [accq EXCEPT ![n] = <<>>]
        /\ sref' = [sref EXCEPT ![n] = 1]
        /\ iref' = [iref EXCEPT ![Sock(t)] = @ + PeerRef, ![n] = Own("connector") + PeerRef]
        /\ peer' = [peer EXCEPT ![Sock(t)] = n, ![n] = Sock(t)]
        /\ map' = map /\ foreign' = foreign /\ open' = open
    BY DEF Pair, At, Open, mapVars
  <1>2. PICK o \in Socks, h \in Frame, r \in Seq(Frame) :
           /\ o = Sock(t) /\ h = Head(th[t]) /\ r = Tail(th[t]) /\ h.o = o /\ h \in Held
           /\ Rest(r) /\ First(h, r) /\ Stack(r)
    BY <1>0, <1>1, Rests
  <1>3. PICK l \in Socks : l = h.p /\ l = Peer(t) /\ kind[l] = "listener" /\ r = <<Do("put", l), Do("return", o)>>
    <2>1. h.p \in Socks /\ r = <<Do("put", h.p), Do("return", h.o)>>
      BY <1>1, <1>2 DEF First
    <2>2. kind[h.p] = "listener"
      BY <1>0, <1>1, <1>2 DEF HandInv, FrameOK, FrameKind
    <2>3. QED BY <1>2, <2>1, <2>2 DEF Peer
  <1>4. /\ sref[n] = 0 /\ Puts(n) = 0 /\ Base(n) = 0 /\ Makes(n) = 0 /\ Waits(n) = 0
        /\ n \notin open /\ Downs(n) = 0 /\ Leaves(n) = 0 /\ Pointers(n) = {}
        /\ peer[n] = None /\ accq[n] = <<>> /\ map # n
        /\ \A f \in Held : f \in Frame /\ f.o \in live /\ f.o # n /\ f.p # n
        /\ \A k \in Socks : \A i \in DOMAIN accq[k] : accq[k][i] # n
        /\ \A x \in Socks : peer[x] # n
    BY <1>1, Unused
  <1>5. o # n /\ l # n /\ kind[o] = "connector" /\ peer[o] = None /\ Pointers(o) = {}
    <2>1. FrameOK(h)
      BY <1>0, <1>2 DEF HandInv
    <2>2. kind[o] = "connector" /\ peer[o] = None /\ Pointers(o) = {}
      BY <1>1, <1>2, <2>1 DEF FrameOK, FrameKind, OfConnector
    <2>3. QED BY <1>2, <1>3, <1>4, <2>2
  <1>6. o \in live /\ sref[o] > 0 /\ sref[o] \in Nat /\ Downs(o) = 0
    <2>1. Do("return", o) \in Held
      BY <1>0, <1>1, <1>2, Due
    <2>2. Do("return", o) \in MakeSet(o)
      BY <1>2, DoFrame DEF MakeSet, Solid
    <2>3. Makes(o) > 0
      BY <1>0, <2>1, <2>2, Tallies
    <2>4. sref[o] > 0 /\ sref[o] \in Nat
      BY <1>0, <2>3, Referenced
    <2>5. Downs(o) \in Nat /\ ~(Downs(o) > 0) /\ o \in live
      BY SMTT(60), <1>0, <2>4, Tallies DEF LifeInv
    <2>6. QED BY <2>4, <2>5
  <1>7. accq' = accq
    BY <1>0, <1>1, <1>4 DEF TypeInv
  <1>8. /\ \A x \in Socks : x # n => /\ kind'[x] = kind[x] /\ epipe'[x] = epipe[x] /\ rcv'[x] = rcv[x]
                                     /\ sref'[x] = sref[x]
        /\ kind'[n] = "connector" /\ epipe'[n] = FALSE /\ rcv'[n] = 0 /\ sref'[n] = 1
    BY <1>0, <1>1 DEF TypeInv
  <1>9. /\ \A x \in Socks : x # n /\ x # o => peer'[x] = peer[x]
        /\ peer'[o] = n /\ peer'[n] = o /\ peer' \in [Socks -> Socks \cup {None}]
    BY <1>0, <1>1, <1>2, <1>5 DEF TypeInv
  <1>10. iref[o] = 1
    <2>1. iref[o] = Cardinality(Pointers(o)) + Is(sref[o] > 0) + Downs(o)
      BY <1>0, <1>5, <1>6 DEF MemInv
    <2>2. Cardinality(Pointers(o)) = 0
      BY <1>5, FS_EmptySet
    <2>3. QED BY <1>6, <2>1, <2>2 DEF Is
  <1>11. /\ \A x \in Socks : x # n /\ x # o => iref'[x] = iref[x]
         /\ iref'[o] = 2 /\ iref'[n] = 2 /\ iref' \in [Socks -> 0..2]
    <2>1. iref' = [iref EXCEPT ![o] = 2, ![n] = 2]
      BY <1>0, <1>1, <1>2, <1>10 DEF TypeInv, Own, PeerRef
    <2>2. iref \in [Socks -> 0..2] /\ 2 \in 0..2
      BY <1>0 DEF TypeInv
    <2>3. iref' \in [Socks -> 0..2]
      BY <2>1, <2>2
    <2>4. iref'[o] = 2 /\ iref'[n] = 2
      BY <1>5, <2>1, <2>2
    <2>5. \A x \in Socks : x # n /\ x # o => iref'[x] = iref[x]
      BY <2>1, <2>2
    <2>6. QED BY <2>3, <2>4, <2>5
  <1>12. /\ Pointers(o)' = {n} /\ Pointers(n)' = {o}
         /\ \A x \in Socks : x # o /\ x # n => Pointers(x)' = Pointers(x)
    BY <1>0, <1>4, <1>5, <1>9 DEF Pointers
  <1>13. PICK a \in Frame :
           a = [op |-> "acceptq_add", o |-> l, p |-> n] /\ a.op = "acceptq_add" /\ a.o = l /\ a.p = n
    <2>1. [op |-> "acceptq_add", o |-> l, p |-> n] \in Frame
      BY DEF Frame
    <2>2. QED BY <2>1
  <1>14. PICK fs \in Seq(Frame) :
           fs = <<a>> /\ fs # <<>> /\ Head(fs) = a /\ (\A i \in DOMAIN fs : fs[i] = a) /\ Goes(t, fs, {})
    <2>1. /\ <<a>> \in Seq(Frame) /\ <<a>> # <<>> /\ Head(<<a>>) = a
          /\ \A i \in DOMAIN <<a>> : <<a>>[i] = a
      OBVIOUS
    <2>2. Goes(t, <<a>>, {})
      BY <1>1, <1>3, <1>13
    <2>3. QED BY <2>1, <2>2
  <1>15. Stack(fs \o r)
    <2>1. First(a, r)
      BY <1>2, <1>3, <1>13 DEF First, Follows
    <2>2. QED BY <1>2, <1>14, <2>1, PushOne
  <1>16. /\ Turns(t, fs \o r) /\ fs \o r \in Seq(Frame) /\ th' \in [Threads -> Seq(Frame)]
         /\ fs \o r # <<>> /\ Head(fs \o r) = a
    BY <1>0, <1>1, <1>2, <1>14, GoOn, Sleeping
  <1>17. PICK q \in Seq(Frame) : q = fs \o r /\ Turns(t, q) /\ Stack(q) /\ q # <<>> /\ Head(q) = a
    BY <1>15, <1>16
  <1>18. TypeInv'
    <2>1. 0 \in 0..MaxRcv
      BY InprocAssumption
    <2>2. sref' \in [Socks -> Nat] /\ kind' \in [Socks -> {"listener", "connector"}]
      BY <1>0, <1>1 DEF TypeInv
    <2>3. epipe' \in [Socks -> BOOLEAN] /\ rcv' \in [Socks -> 0..MaxRcv]
      BY <1>0, <1>1, <2>1 DEF TypeInv
    <2>4. /\ map' \in Socks \cup {None} /\ foreign' \in BOOLEAN /\ live' \subseteq Socks
          /\ open' \subseteq Socks /\ accq' \in [Socks -> Seq(Socks)]
      BY <1>0, <1>1, <1>7 DEF TypeInv
    <2>5. iref' \in [Socks -> 0..2] /\ peer' \in [Socks -> Socks \cup {None}]
          /\ th' \in [Threads -> Seq(Frame)]
      BY <1>9, <1>11, <1>16
    <2>6. QED BY <2>2, <2>3, <2>4, <2>5 DEF TypeInv
  <1>19. SleepJustified'
    <2>1. ASSUME NEW u \in Threads, u # t, th'[u] = th[u]
          PROVE  /\ At(u, "asleep") => accq'[Sock(u)] = <<>>
                 /\ At(u, "rsleep") => rcv'[Sock(u)] = 0 /\ ~epipe'[Sock(u)]
      <3>1. CASE th[u] = <<>>
        BY <3>1 DEF At
      <3>2. CASE th[u] # <<>>
        <4>1. Head(th[u]) \in Held /\ Sock(u) \in Socks /\ Sock(u) = Head(th[u]).o
          BY <1>0, <3>2, Rests
        <4>2. Sock(u) # n
          BY <1>4, <4>1
        <4>3. QED BY <1>0, <1>7, <1>8, <4>1, <4>2 DEF SleepJustified
      <3>3. QED BY <3>1, <3>2
    <2>2. q # <<>> => /\ Head(q).op = "asleep" => accq'[Head(q).o] = <<>>
                      /\ Head(q).op = "rsleep" => rcv'[Head(q).o] = 0 /\ ~epipe'[Head(q).o]
      BY <1>13, <1>17
    <2>3. QED BY <1>0, <1>17, <2>1, <2>2, GoSleep
  <1>20. ListenerVisible'
    BY <1>0, <1>1, <1>4, <1>8 DEF ListenerVisible
  <1>21. ShapeInv'
    BY <1>0, <1>17, TurnsShape
  <1>22. ASSUME NEW x \in Socks
         PROVE  /\ Puts(x)' = Puts(x) /\ Leaves(x)' = Leaves(x) /\ Downs(x)' = Downs(x)
                /\ Base(x)' = Base(x) + Is(n = x) /\ Base(x) \in Nat /\ Puts(x) \in Nat
    <2>1. /\ Puts(x)' + PutW(h, x) = Puts(x) + Num(fs, PutSet(x))
          /\ Makes(x)' + MakeW(h, x) = Makes(x) + Num(fs, MakeSet(x))
          /\ Downs(x)' + DownW(h, x) = Downs(x) + Num(fs, DownSet(x))
          /\ Leaves(x)' + LeaveW(h, x) = Leaves(x) + Num(fs, LeaveSet(x))
          /\ Puts(x)' \in Nat /\ Makes(x)' \in Nat /\ Downs(x)' \in Nat /\ Leaves(x)' \in Nat
          /\ Puts(x) \in Nat /\ Makes(x) \in Nat /\ Downs(x) \in Nat /\ Leaves(x) \in Nat
      BY <1>0, <1>1, <1>2, <1>16, GoEffect
    <2>2. PutW(h, x) = 0 /\ MakeW(h, x) = 0 /\ DownW(h, x) = 0 /\ LeaveW(h, x) = 0
      BY <1>1, <1>2, NoWeight
    <2>3. PutW(a, x) = 0 /\ MakeW(a, x) = Is(n = x) /\ DownW(a, x) = 0 /\ LeaveW(a, x) = 0
      BY <1>13 DEF PutW, MakeW, DownW, LeaveW, Is
    <2>4. /\ Num(fs, PutSet(x)) = 0 /\ Num(fs, MakeSet(x)) = Is(n = x) /\ Num(fs, DownSet(x)) = 0
          /\ Num(fs, LeaveSet(x)) = 0
      BY <1>14, <2>3, OneW
    <2>5. PICK b \in Nat, c \in Nat, d \in Nat, e \in Nat, f \in Nat, g \in Nat, k \in Nat, m \in Nat, i \in Nat :
            /\ b = Puts(x) /\ c = Puts(x)' /\ d = Makes(x) /\ e = Makes(x)'
            /\ f = Downs(x) /\ g = Downs(x)' /\ k = Leaves(x) /\ m = Leaves(x)' /\ i = Is(n = x)
      BY <2>1 DEF Is
    <2>6. c + 0 = b + 0 /\ e + 0 = d + i /\ g + 0 = f + 0 /\ m + 0 = k + 0
      BY <2>1, <2>2, <2>4, <2>5
    <2>7. c = b /\ e = d + i /\ g = f /\ m = k
      BY <2>6
    <2>8. PICK w \in Nat, j \in Nat : w = Waits(x) /\ w = Waits(x)' /\ j = Is(x \in open) /\ j = Is(x \in open)'
      BY <1>0, <1>1, <1>7, WaitsKeep DEF Is
    <2>9. Base(x) = d + w + j /\ Base(x)' = e + w + j
      BY <2>5, <2>8 DEF Base
    <2>10. d + w + j \in Nat /\ e + w + j = (d + w + j) + i
      BY <2>7
    <2>11. QED BY <2>5, <2>7, <2>9, <2>10
  <1>23. \A x \in Socks : x # n => Base(x)' = Base(x)
    BY <1>22 DEF Is
  <1>24. Base(n)' = 1
    BY <1>4, <1>22 DEF Is
  <1>25. RefInv'
    <2> SUFFICES ASSUME NEW x \in Socks PROVE sref'[x] = Puts(x)' + Base(x)' /\ Base(x)' <= 1
      BY DEF RefInv
    <2>1. CASE x = n
      BY <1>4, <1>8, <1>22, <1>24, <2>1
    <2>2. CASE x # n
      BY <1>0, <1>8, <1>22, <1>23, <2>2 DEF RefInv
    <2>3. QED BY <2>1, <2>2
  <1>26. LifeInv'
    <2> SUFFICES ASSUME NEW x \in Socks
                 PROVE  /\ x \in live' <=> sref'[x] > 0 \/ Downs(x)' > 0 \/ Pointers(x)' # {}
                        /\ Downs(x)' <= 1
                        /\ Downs(x)' > 0 => sref'[x] = 0
      BY DEF LifeInv
    <2>1. CASE x = n
      BY <1>1, <1>4, <1>8, <1>22, <2>1
    <2>2. CASE x = o
      BY <1>1, <1>5, <1>6, <1>8, <1>22, <2>2
    <2>3. CASE x # n /\ x # o
      BY <1>0, <1>1, <1>8, <1>12, <1>22, <2>3 DEF LifeInv
    <2>4. QED BY <2>1, <2>2, <2>3
  <1>27. MemInv'
    <2> SUFFICES ASSUME NEW x \in live', kind'[x] = "connector"
                 PROVE  iref'[x] = Cardinality(Pointers(x)') + Is(sref'[x] > 0) + Downs(x)'
      BY DEF MemInv
    <2>1. CASE x = n \/ x = o
      <3>1. PICK y \in Socks : Pointers(x)' = {y}
        BY <1>12, <2>1
      <3>2. Cardinality(Pointers(x)') = 1
        BY <3>1, FS_Singleton
      <3>3. sref'[x] > 0 /\ Downs(x)' = 0
        BY <1>4, <1>5, <1>6, <1>8, <1>22, <2>1
      <3>4. Is(sref'[x] > 0) = 1
        BY <3>3 DEF Is
      <3>5. iref'[x] = 2
        BY <1>11, <2>1
      <3>6. QED BY <3>2, <3>3, <3>4, <3>5
    <2>2. CASE x # n /\ x # o
      <3>1. x \in Socks /\ x \in live /\ kind[x] = "connector"
        BY <1>0, <1>1, <1>8, <2>2
      <3>2. iref[x] = Cardinality(Pointers(x)) + Is(sref[x] > 0) + Downs(x)
        BY <1>0, <3>1 DEF MemInv
      <3>3. QED BY <1>8, <1>11, <1>12, <1>22, <2>2, <3>1, <3>2
    <2>3. QED BY <2>1, <2>2
  <1>28. PeerInv'
    <2> SUFFICES ASSUME NEW x \in Socks
                 PROVE  /\ peer'[x] # None => kind'[x] = "connector" /\ kind'[peer'[x]] = "connector"
                        /\ Leaves(x)' = Is(peer'[x] # None /\ sref'[x] = 0)
      BY DEF PeerInv
    <2>1. CASE x = n
      BY <1>4, <1>5, <1>8, <1>9, <1>22, <2>1 DEF Is
    <2>2. CASE x = o
      <3>1. Leaves(o) = 0
        BY <1>0, <1>5 DEF PeerInv, Is
      <3>2. sref'[o] # 0
        BY <1>5, <1>6, <1>8
      <3>3. QED BY <1>5, <1>8, <1>9, <1>22, <2>2, <3>1, <3>2 DEF Is
    <2>3. CASE x # n /\ x # o
      <3>1. peer[x] # None => peer[x] \in Socks /\ peer[x] # n
        BY <1>0, <1>4 DEF TypeInv
      <3>2. peer'[x] = peer[x] /\ sref'[x] = sref[x] /\ kind'[x] = kind[x] /\ Leaves(x)' = Leaves(x)
        BY <1>8, <1>9, <1>22, <2>3
      <3>3. peer[x] # None => kind[x] = "connector" /\ kind[peer[x]] = "connector"
        BY <1>0 DEF PeerInv
      <3>4. peer[x] # None => kind'[peer[x]] = "connector"
        BY <1>8, <3>1, <3>3
      <3>5. Leaves(x) = Is(peer[x] # None /\ sref[x] = 0)
        BY <1>0 DEF PeerInv
      <3>6. QED BY <3>2, <3>3, <3>4, <3>5
    <2>4. QED BY <2>1, <2>2, <2>3
  <1>29. HandInv'
    <2>1. PICK M : M = {a} \cup {f \in Held : f.op \in {"getlistener", "pair"} => f.o # o}
      OBVIOUS
    <2>2. ASSUME NEW f \in Held, f.op \in {"getlistener", "pair"} => f.o # o PROVE FrameOK(f)'
      <3>1. /\ FrameOK(f) /\ f \in Frame /\ f.o \in Socks /\ f.o # n /\ f.p # n
            /\ f.op \in {"pair", "acceptq_add"} => f.p \in Socks
        BY <1>0, <1>4, Due DEF HandInv
      <3>2. FrameKind(f)'
        BY <1>8, <3>1 DEF FrameOK, FrameKind
      <3>3. f.op \in {"getlistener", "pair"} => peer'[f.o] = None /\ Pointers(f.o)' = {}
        BY <1>9, <1>12, <2>2, <3>1 DEF FrameOK
      <3>4. f.op = "drain" => map' # f.o
        BY <1>1, <3>1 DEF FrameOK
      <3>5. QED BY <3>2, <3>3, <3>4 DEF FrameOK
    <2>3. FrameOK(a)'
      BY <1>3, <1>5, <1>8, <1>13 DEF FrameOK, FrameKind, OfListener, OfConnector
    <2>4. \A i \in DOMAIN q : q[i] \in M
      <3>1. \A i \in DOMAIN (fs \o r) : (\E j \in DOMAIN fs : (fs \o r)[i] = fs[j]) \/ \E j \in DOMAIN r : (fs \o r)[i] = r[j]
        OBVIOUS
      <3>2. \A j \in DOMAIN r : r[j] \in Held /\ r[j].op \in Later
        BY <1>0, <1>1, <1>2, InHand DEF Rest
      <3>3. \A j \in DOMAIN r : r[j] \in M
        BY <2>1, <3>2 DEF Later
      <3>4. \A j \in DOMAIN fs : fs[j] \in M
        BY <1>14, <2>1
      <3>5. QED BY <1>17, <3>1, <3>3, <3>4
    <2>5. ASSUME NEW u \in Threads, u # t, NEW i \in DOMAIN th[u] PROVE th[u][i] \in M
      <3>1. th[u][i] \in Held
        BY HeldIs
      <3>2. 1 \in DOMAIN th[t] /\ th[t][1] = h
        BY <1>0, <1>1, <1>2, InHand
      <3>3. th[t][1].op \in {"getlistener", "pair"} /\ th[t][1].o = o
        BY <1>1, <1>2, <3>2
      <3>4. th[u][i].op \in {"getlistener", "pair"} => th[u][i].o # th[t][1].o
        BY <1>0, <2>5, <3>2, <3>3, BuildsAlone
      <3>5. QED BY <2>1, <3>1, <3>3, <3>4
    <2>6. \A f \in M : FrameOK(f)'
      BY <2>1, <2>2, <2>3
    <2>7. QED BY <1>0, <1>17, <2>4, <2>5, <2>6, HandStep
  <1>30. QueueInv'
    <2> SUFFICES ASSUME NEW k \in Socks
                 PROVE  /\ accq'[k] # <<>> => k \in live' /\ kind'[k] = "listener"
                        /\ \A i \in DOMAIN accq'[k] : kind'[accq'[k][i]] = "connector"
      BY DEF QueueInv
    <2>1. \A i \in DOMAIN accq[k] : accq[k][i] \in Socks /\ accq[k][i] # n
      BY <1>0, <1>4 DEF TypeInv
    <2>2. accq[k] # <<>> => k # n
      BY <1>4
    <2>3. QED BY <1>0, <1>1, <1>7, <1>8, <2>1, <2>2 DEF QueueInv
  <1>31. MapInv'
    <2>1. map # None => map \in Socks
      BY <1>0 DEF TypeInv
    <2>2. QED BY <1>0, <1>1, <1>4, <1>8, <2>1 DEF MapInv
  <1>32. EpipeInv'
    <2>1. \A x \in live' : Base(x)' = 0 => (x \in live /\ Base(x) = 0) \/ \E i \in DOMAIN fs : fs[i] = Do("epipe", x)
      BY <1>0, <1>1, <1>23, <1>24
    <2>2. \A x \in live' \cap live : epipe[x] => epipe'[x]
      BY <1>0, <1>1, <1>8
    <2>3. QED BY <1>0, <1>1, <1>2, <1>16, <2>1, <2>2, EpipeGo
  <1>33. QED BY <1>18, <1>19, <1>20, <1>21, <1>25, <1>26, <1>27, <1>28, <1>29, <1>30, <1>31, <1>32 DEF IInv

----------------------------------------------------------------------------
(* The theorems.                                                            *)

LEMMA InitSound ==
  ASSUME Init
  PROVE  IInv
  <1>1. TypeInv
    <2>1. <<>> \in Seq(Socks) /\ <<>> \in Seq(Frame) /\ 0 \in 0..MaxRcv /\ 0 \in 0..2 /\ 0 \in Nat
      BY InprocAssumption
    <2>2. /\ accq \in [Socks -> Seq(Socks)] /\ th \in [Threads -> Seq(Frame)]
          /\ rcv \in [Socks -> 0..MaxRcv] /\ iref \in [Socks -> 0..2]
      BY <2>1 DEF Init
    <2>3. QED BY <2>2 DEF Init, TypeInv
  <1>2. /\ \A f \in Held : FALSE
        /\ \A l \in Socks : accq[l] = <<>> /\ \A i \in DOMAIN accq[l] : FALSE
    <2>1. \A t \in Threads : \A i \in DOMAIN th[t] : FALSE
      BY DEF Init
    <2>2. \A l \in Socks : accq[l] = <<>> /\ \A i \in DOMAIN accq[l] : FALSE
      BY DEF Init
    <2>3. QED BY <2>1, <2>2, HeldIs
  <1>3. ASSUME NEW x \in Socks
        PROVE  Puts(x) = 0 /\ Base(x) = 0 /\ Downs(x) = 0 /\ Leaves(x) = 0 /\ Pointers(x) = {}
    <2>1. /\ Puts(x) \in Nat /\ Makes(x) \in Nat /\ Waits(x) \in Nat /\ Downs(x) \in Nat /\ Leaves(x) \in Nat
          /\ ~(Puts(x) > 0) /\ ~(Makes(x) > 0) /\ ~(Waits(x) > 0) /\ ~(Downs(x) > 0) /\ ~(Leaves(x) > 0)
      BY <1>1, <1>2, Tallies
    <2>2. Puts(x) = 0 /\ Makes(x) = 0 /\ Waits(x) = 0 /\ Downs(x) = 0 /\ Leaves(x) = 0
      BY <2>1
    <2>3. Is(x \in open) = 0
      BY DEF Init, Is
    <2>4. Pointers(x) = {}
      BY InprocAssumption DEF Init, Pointers
    <2>5. QED BY <2>2, <2>3, <2>4 DEF Base
  <1>4. ShapeInv
    BY DEF Init, ShapeInv, Stack
  <1>5. RefInv
    BY <1>3 DEF Init, RefInv
  <1>6. LifeInv
    BY <1>3 DEF Init, LifeInv
  <1>7. MemInv
    BY DEF Init, MemInv
  <1>8. PeerInv
    BY <1>3 DEF Init, PeerInv, Is
  <1>9. HandInv
    BY <1>2 DEF HandInv
  <1>10. QueueInv
    BY <1>2 DEF QueueInv
  <1>11. MapInv /\ EpipeInv
    BY DEF Init, MapInv, EpipeInv
  <1>12. SleepJustified
    BY DEF Init, SleepJustified, At
  <1>13. ListenerVisible
    BY DEF Init, ListenerVisible
  <1>14. QED BY <1>1, <1>4, <1>5, <1>6, <1>7, <1>8, <1>9, <1>10, <1>11, <1>12, <1>13 DEF IInv

LEMMA StutterSound ==
  ASSUME IInv, UNCHANGED vars
  PROVE  IInv'
  <1>0. /\ map' = map /\ foreign' = foreign /\ live' = live /\ kind' = kind /\ sref' = sref /\ iref' = iref
        /\ peer' = peer /\ epipe' = epipe /\ rcv' = rcv /\ accq' = accq /\ open' = open /\ th' = th
    BY DEF vars, mapVars, refVars, flowVars
  <1>1. TypeInv'
    BY <1>0 DEF IInv, TypeInv
  <1>2. ShapeInv' /\ QueueInv' /\ MapInv'
    BY <1>0 DEF IInv, ShapeInv, QueueInv, MapInv
  <1>3. \A x : Puts(x)' = Puts(x) /\ Makes(x)' = Makes(x) /\ Waits(x)' = Waits(x) /\ Downs(x)' = Downs(x)
               /\ Leaves(x)' = Leaves(x) /\ Pointers(x)' = Pointers(x)
    BY <1>0 DEF Puts, Makes, Waits, Downs, Leaves, Pointers
  <1>4. \A x : Base(x)' = Base(x)
    BY <1>0, <1>3 DEF Base
  <1>5. RefInv' /\ LifeInv'
    BY <1>0, <1>3, <1>4 DEF IInv, RefInv, LifeInv
  <1>6. MemInv' /\ PeerInv'
    BY <1>0, <1>3, <1>4 DEF IInv, MemInv, PeerInv
  <1>7. \A f : f \in Held' <=> f \in Held
    BY <1>0, HeldIs
  <1>8. HandInv'
    BY <1>0, <1>3, <1>7 DEF IInv, HandInv, FrameOK, FrameKind
  <1>9. EpipeInv'
    BY <1>0, <1>4, <1>7 DEF IInv, EpipeInv
  <1>10. SleepJustified' /\ ListenerVisible'
    BY <1>0 DEF IInv, SleepJustified, ListenerVisible, At, Sock
  <1>11. QED BY <1>1, <1>2, <1>5, <1>6, <1>8, <1>9, <1>10 DEF IInv

LEMMA NextSound ==
  ASSUME IInv, [Next]_vars
  PROVE  IInv'
  <1>1. CASE UNCHANGED vars
    BY <1>1, StutterSound
  <1>2. CASE Next
    <2>1. PICK t \in Threads : Begin(t) \/ Inside(t)
      BY <1>2 DEF Next
    <2>2. open \subseteq Socks
      BY DEF IInv, TypeInv
    <2>3. CASE xlisten(t)
      BY <2>3, CreateStep DEF xlisten
    <2>4. CASE xconnect(t)
      BY <2>4, CreateStep DEF xconnect
    <2>5. CASE xaccept(t)
      BY <2>5, EnterStep DEF xaccept
    <2>6. CASE xsend(t)
      BY <2>6, EnterStep DEF xsend
    <2>7. CASE xrecv(t)
      BY <2>7, EnterStep DEF xrecv
    <2>8. CASE xclose(t)
      BY <2>8, CloseStep
    <2>9. CASE Inside(t)
      <3>1. CASE addlistener(t) \/ rmlistener(t) \/ inproc_listener_close(t)
        BY <3>1, AddListenerStep, RmListenerStep, DrainStep
      <3>2. CASE getlistener(t) \/ Pair(t) \/ PairFails(t)
        BY <3>2, GetListenerStep, PairStep, PairFailsStep
      <3>3. CASE acceptq_add(t) \/ acceptq_rm(t) \/ Return(t)
        BY <3>3, AcceptAddStep, AcceptStep, ReturnStep
      <3>4. CASE inproc_send(t) \/ rcv_msgbuf_head_rm(t)
        BY <3>4, SendStep, RecvStep
      <3>5. CASE __xclose(t) \/ xput(t) \/ inproc_peer_close(t)
        BY <3>5, EpipeStep, PutStep, WakePeerStep
      <3>6. CASE PutPeer(t) \/ inproc_connector_close(t)
        BY <3>6, PutPeerStep, PutSelfStep
      <3>7. QED BY <2>9, <3>1, <3>2, <3>3, <3>4, <3>5, <3>6 DEF Inside
    <2>10. QED BY <2>1, <2>3, <2>4, <2>5, <2>6, <2>7, <2>8, <2>9 DEF Begin
  <1>3. QED BY <1>1, <1>2

\* Whatever the threads do, the invariant holds: every step of a listen, a connect, an
\* accept, a send, a receive and a close keeps the counts of both references, the stacks
\* of steps the threads are in, and what is allocated in agreement.
THEOREM Invariant == Spec => []IInv
  <1>1. Init => IInv
    BY InitSound
  <1>2. IInv /\ [Next]_vars => IInv'
    BY NextSound
  <1>3. QED BY <1>1, <1>2, PTL DEF Spec

\* The variables keep their types; the memory of a connector has at most two references.
THEOREM TypeCorrect == Spec => []TypeOK
  <1>1. IInv => TypeOK
    BY DEF IInv, TypeInv, TypeOK
  <1>2. QED BY <1>1, Invariant, PTL

LEMMA FrameIs ==
  /\ \A f \in Frames : f[1] \in Threads /\ f[2] \in DOMAIN th[f[1]] /\ f = <<f[1], f[2]>> /\ Of(f) = th[f[1]][f[2]]
                       /\ Of(f) \in Held
  /\ \A t \in Threads : \A i \in DOMAIN th[t] : <<t, i>> \in Frames /\ Of(<<t, i>>) = th[t][i]
  /\ \A f \in Held : \E g \in Frames : Of(g) = f
  BY DEF Frames, Of, Held

\* No close frees a socket too early: what a thread, a queue, a peer, the map or the
\* application may still use is allocated (inproc.c, xput, atomic_decr_return on the
\* reference count of the memory).
THEOREM NothingDangles == Spec => []NoDangling
  <1>1. ASSUME IInv PROVE NoDangling
    <2>1. TypeInv /\ MapInv
      BY <1>1 DEF IInv
    <2>2. /\ \A f \in Held : f \in Frame /\ f.o \in live /\ (f.p = None \/ f.p \in live)
          /\ open \subseteq live
          /\ \A l \in Socks : \A i \in DOMAIN accq[l] : accq[l][i] \in live
          /\ \A o \in Socks : peer[o] # None => peer[o] \in live /\ o \in live
      BY <1>1, Alive
    <2>3. Queued \subseteq live
      BY <2>2 DEF Queued
    <2>4. map \in live \cup {None}
      BY <2>1 DEF MapInv
    <2>5. \A f \in Frames : Of(f).o \in live /\ Of(f).p \in live \cup {None}
      BY <2>2, FrameIs
    <2>6. \A o \in live : peer[o] \in live \cup {None}
      BY <2>1, <2>2 DEF TypeInv
    <2>7. QED BY <2>2, <2>3, <2>4, <2>5, <2>6 DEF NoDangling
  <1>2. QED BY <1>1, Invariant, PTL

\* A socket has a descriptor, or is about to, if and only if Base counts it.
LEMMA BaseIs ==
  ASSUME IInv, NEW o \in Socks
  PROVE  /\ Base(o) = IF o \in open \cup Queued \cup Building THEN 1 ELSE 0
         /\ Base(o) \in Nat
  <1>0. TypeInv /\ ShapeInv /\ RefInv
    BY DEF IInv
  <1>1. Base(o) \in Nat /\ Base(o) <= 1
    BY <1>0, Tallies DEF RefInv
  <1>2. PICK m \in Nat, w \in Nat, k \in Nat : m = Makes(o) /\ w = Waits(o) /\ k = Is(o \in open)
    BY <1>0, Tallies DEF Is
  <1>3. k > 0 <=> o \in open
    BY <1>2 DEF Is
  <1>4. w > 0 <=> o \in Queued
    <2>1. o \in Queued <=> \E l \in Socks : \E i \in DOMAIN accq[l] : accq[l][i] = o
      BY DEF Queued
    <2>2. QED BY <1>0, <1>2, <2>1, Tallies
  <1>5. m > 0 <=> o \in Building
    <2>1. o \in Building <=> \E f \in Held : \/ f.op \in {"addlistener", "getlistener", "return"} /\ f.o = o
                                             \/ f.op = "acceptq_add" /\ f.p = o
      BY FrameIs DEF Building
    <2>2. \A f \in Held : f \in Frame
      BY <1>0, Due
    <2>3. \A f \in Held : f \in MakeSet(o) <=> \/ f.op \in {"addlistener", "getlistener", "return"} /\ f.o = o
                                               \/ f.op = "acceptq_add" /\ f.p = o
      BY <2>2 DEF MakeSet, Solid
    <2>4. m > 0 <=> \E f \in Held : f \in MakeSet(o)
      BY <1>0, <1>2, Tallies
    <2>5. QED BY <2>1, <2>3, <2>4
  <1>6. Base(o) = m + w + k
    BY <1>2 DEF Base
  <1>7. Base(o) > 0 <=> o \in open \cup Queued \cup Building
    <2>1. m + w + k > 0 <=> m > 0 \/ w > 0 \/ k > 0
      OBVIOUS
    <2>2. QED BY <1>3, <1>4, <1>5, <1>6, <2>1
  <1>8. QED BY <1>1, <1>7

\* The references are exact: sb->ref counts the puts that are due and the descriptor
\* (xget, xput in sockbase.c), the count of a connector's memory itself and its peer.
THEOREM ReferencesExact == Spec => []RefsExact
  <1>1. ASSUME IInv PROVE RefsExact
    <2>0. /\ TypeInv /\ ShapeInv /\ RefInv /\ LifeInv /\ MemInv /\ HandInv /\ live \subseteq Socks
      BY <1>1 DEF IInv, TypeInv
    <2> SUFFICES ASSUME NEW o \in live
                 PROVE  /\ sref[o] = Cardinality({f \in Frames : Of(f).op = "put" /\ Of(f).o = o})
                                     + IF o \in open \cup Queued \cup Building THEN 1 ELSE 0
                        /\ kind[o] = "connector" => iref[o] =
                             Cardinality({p \in live : peer[p] = o})
                             + IF sref[o] > 0 \/ \E f \in Frames : Of(f).op = "putself" /\ Of(f).o = o
                               THEN 1 ELSE 0
      BY DEF RefsExact
    <2>1. o \in Socks /\ \A f \in Held : f \in Frame
      BY <2>0, Due
    <2>2. {f \in Frames : Of(f).op = "put" /\ Of(f).o = o} = Places(th, PutSet(o))
      <3>1. DOMAIN th = Threads /\ \A t \in Threads : DOMAIN th[t] \subseteq Nat
        BY <2>0 DEF TypeInv
      <3>2. \A f \in Held : f \in PutSet(o) <=> f.op = "put" /\ f.o = o
        BY <2>1 DEF PutSet, Solid
      <3>3. ASSUME NEW f \in Frames, Of(f).op = "put", Of(f).o = o PROVE f \in Places(th, PutSet(o))
        <4>1. PICK t \in Threads, i \in DOMAIN th[f[1]] :
                 t = f[1] /\ f = <<t, i>> /\ Of(f) = th[t][i] /\ Of(f) \in Held
          BY FrameIs
        <4>2. <<t, i>> \in (DOMAIN th) \X Nat /\ i \in Hits(th[t], PutSet(o))
          BY <3>1, <3>2, <3>3, <4>1 DEF Hits
        <4>3. QED BY <4>1, <4>2 DEF Places
      <3>4. ASSUME NEW f \in Places(th, PutSet(o)) PROVE f \in Frames /\ Of(f).op = "put" /\ Of(f).o = o
        <4>1. PICK t \in Threads, i \in Nat : f = <<t, i>> /\ i \in Hits(th[t], PutSet(o))
          BY <3>1 DEF Places
        <4>2. i \in DOMAIN th[t] /\ th[t][i] \in PutSet(o)
          BY <4>1 DEF Hits
        <4>3. f \in Frames /\ Of(f) = th[t][i] /\ th[t][i] \in Held
          BY <4>1, <4>2, FrameIs, HeldIs
        <4>4. QED BY <3>2, <4>2, <4>3
      <3>5. QED BY <3>3, <3>4
    <2>3. sref[o] = Puts(o) + Base(o)
      BY <2>0, <2>1 DEF RefInv
    <2>4. Base(o) = IF o \in open \cup Queued \cup Building THEN 1 ELSE 0
      BY <1>1, <2>1, BaseIs
    <2>5. sref[o] = Cardinality({f \in Frames : Of(f).op = "put" /\ Of(f).o = o})
                    + IF o \in open \cup Queued \cup Building THEN 1 ELSE 0
      BY <2>2, <2>3, <2>4 DEF Puts, Count
    <2>6. ASSUME kind[o] = "connector"
          PROVE  iref[o] = Cardinality({p \in live : peer[p] = o})
                           + IF sref[o] > 0 \/ \E f \in Frames : Of(f).op = "putself" /\ Of(f).o = o THEN 1 ELSE 0
      <3>1. {p \in live : peer[p] = o} = Pointers(o)
        <4>1. \A p \in Socks : peer[p] # None => p \in live
          BY <1>1, Alive
        <4>2. o # None
          BY <2>1, InprocAssumption
        <4>3. QED BY <2>0, <4>1, <4>2 DEF Pointers
      <3>2. PICK c \in Nat : c = Cardinality(Pointers(o))
        BY <2>1, PointersFinite
      <3>3. (\E f \in Frames : Of(f).op = "putself" /\ Of(f).o = o) <=> Downs(o) > 0
        <4>1. (\E f \in Frames : Of(f).op = "putself" /\ Of(f).o = o) <=> \E f \in Held : f.op = "putself" /\ f.o = o
          BY FrameIs
        <4>2. \A f \in Held : f \in DownSet(o) <=> f.op \in {"rmlistener", "drain", "putself"} /\ f.o = o
          BY <2>1 DEF DownSet, Solid
        <4>3. \A f \in Held : f.op \in {"rmlistener", "drain"} => kind[f.o] = "listener"
          BY <2>0 DEF HandInv, FrameOK, FrameKind, OfListener
        <4>4. \A f \in Held : f \in DownSet(o) <=> f.op = "putself" /\ f.o = o
          BY <2>6, <4>2, <4>3
        <4>5. Downs(o) > 0 <=> \E f \in Held : f \in DownSet(o)
          BY <2>0, <2>1, Tallies
        <4>6. QED BY <4>1, <4>4, <4>5
      <3>4. Downs(o) \in Nat /\ Downs(o) <= 1 /\ (Downs(o) > 0 => sref[o] = 0)
        BY <2>0, <2>1, Tallies DEF LifeInv
      <3>5. iref[o] = c + Is(sref[o] > 0) + Downs(o)
        BY <2>0, <2>6, <3>2 DEF MemInv
      <3>6. CASE sref[o] > 0
        BY <3>1, <3>2, <3>4, <3>5, <3>6 DEF Is
      <3>7. CASE ~(sref[o] > 0)
        <4>1. iref[o] = c + Downs(o)
          BY <3>2, <3>4, <3>5, <3>7 DEF Is
        <4>2. Downs(o) = IF \E f \in Frames : Of(f).op = "putself" /\ Of(f).o = o THEN 1 ELSE 0
          BY <3>3, <3>4
        <4>3. QED BY <3>1, <3>2, <3>7, <4>1, <4>2
      <3>8. QED BY <3>6, <3>7
    <2>7. QED BY <2>5, <2>6
  <1>2. QED BY <1>1, Invariant, PTL

\* No socket is lost: one that is allocated is known to the application, to a thread, to a
\* queue that will be accepted from or drained, or to its peer.
THEOREM NothingOrphaned == Spec => []NoOrphan
  <1>1. ASSUME IInv PROVE NoOrphan
    <2>0. TypeInv /\ ShapeInv /\ RefInv /\ LifeInv /\ live \subseteq Socks
      BY <1>1 DEF IInv, TypeInv
    <2> SUFFICES ASSUME NEW o \in live
                 PROVE  \/ o \in open \cup Queued
                        \/ \E f \in Frames : o \in {Of(f).o, Of(f).p}
                        \/ \E p \in live : peer[p] = o
      BY DEF NoOrphan
    <2>1. o \in Socks /\ o # None
      BY <2>0, InprocAssumption
    <2>2. (\E f \in Held : o = f.o \/ o = f.p) => \E f \in Frames : o \in {Of(f).o, Of(f).p}
      BY FrameIs
    <2>3. CASE Pointers(o) # {}
      <3>1. PICK p \in Socks : peer[p] = o
        BY <2>3 DEF Pointers
      <3>2. p \in live
        BY <1>1, <2>1, <3>1, Alive
      <3>3. QED BY <3>1, <3>2
    <2>4. CASE Downs(o) > 0
      <3>1. PICK f \in Held : f \in DownSet(o)
        BY <2>0, <2>1, <2>4, Tallies
      <3>2. QED BY <2>2, <3>1 DEF DownSet
    <2>5. CASE sref[o] > 0
      <3>1. sref[o] = Puts(o) + Base(o) /\ Puts(o) \in Nat /\ Base(o) \in Nat
        BY <2>0, <2>1, Tallies DEF RefInv
      <3>2. CASE Puts(o) > 0
        <4>1. PICK f \in Held : f \in PutSet(o)
          BY <2>0, <2>1, <3>2, Tallies
        <4>2. QED BY <2>2, <4>1 DEF PutSet
      <3>3. CASE Base(o) > 0
        <4>1. o \in open \cup Queued \cup Building
          BY <1>1, <2>1, <3>3, BaseIs
        <4>2. o \in Building => \E f \in Frames : o \in {Of(f).o, Of(f).p}
          BY DEF Building
        <4>3. QED BY <4>1, <4>2
      <3>4. QED BY <2>5, <3>1, <3>2, <3>3
    <2>6. QED BY <2>0, <2>1, <2>3, <2>4, <2>5 DEF LifeInv
  <1>2. QED BY <1>1, Invariant, PTL

\* Nobody sleeps on a queue that is not empty, nor in xrecv on a closed socket: each of the
\* broadcasts of acceptq_add, inproc_send and __xclose reaches its sleepers.
THEOREM SleepersJustified == Spec => []SleepJustified
  <1>1. IInv => SleepJustified
    BY DEF IInv
  <1>2. QED BY <1>1, Invariant, PTL

\* An open listener is found under its address for as long as no listener that never was
\* in the map is removed from it.
THEOREM ListenersVisible == Spec => []ListenerVisible
  <1>1. IInv => ListenerVisible
    BY DEF IInv
  <1>2. QED BY <1>1, Invariant, PTL

=============================================================================
