--------------------------- MODULE SioConn_proofs ---------------------------
(* Proofs about SioConn, for every value of its constants.                 *)
EXTENDS SioConn, SequenceTheorems, WellFoundedInduction, FiniteSetTheorems, TLAPS

----------------------------------------------------------------------------
(* What SizeOf, the recursive size of a queue, computes for every queue:   *)
(* bh->size as msgbuf_head_in and msgbuf_head_out keep it.  The proofs go  *)
(* by induction, which is stated with a set (SetInduction): the theorems   *)
(* of the library take an operator.                                        *)

\* Induction over the natural numbers, from the existence of a least element.
LEMMA SetInduction ==
  ASSUME NEW S, 0 \in S, \A n \in Nat : n \in S => n + 1 \in S
  PROVE  \A n \in Nat : n \in S
  <1> DEFINE Bad == {n \in Nat : n \notin S}
  <1> SUFFICES ASSUME Bad # {} PROVE FALSE
    OBVIOUS
  <1>1. PICK n \in Bad : \A m \in Bad : ~(m < n)
    <2> DEFINE Less == {ss \in Nat \X Nat : ss[1] < ss[2]}
    <2>1. IsWellFoundedOn(Less, Nat)
      BY NatLessThanWellFounded DEF OpToRel
    <2>2. Bad \subseteq Nat
      OBVIOUS
    <2>3. \E x \in Bad : \A y \in Bad : <<y, x>> \notin Less
      <3> HIDE DEF Bad, Less
      <3> QED BY <2>1, <2>2, WFMin
    <2>4. QED BY <2>2, <2>3
  <1>2. n # 0 /\ n - 1 \in Nat
    OBVIOUS
  <1>3. n - 1 \in S
    BY <1>1, <1>2
  <1>4. QED BY <1>2, <1>3

\* f holds the sums of the first messages of q.
IsSum(f, q) == f = [i \in 0..Len(q) |-> IF i = 0 THEN 0 ELSE f[i-1] + Usize[q[i]]]

\* SizeOf chooses such an f.
LEMMA SizeOfDef ==
  ASSUME NEW q PROVE SizeOf(q) = (CHOOSE f : IsSum(f, q))[Len(q)]
  BY DEF SizeOf, IsSum

\* Such an f exists, and its values are natural numbers.
LEMMA SumExists ==
  ASSUME NEW q \in Seq(Msg)
  PROVE  \E f \in [0..Len(q) -> Nat] : IsSum(f, q)
  <1> DEFINE Sums(n) == {f \in [0..n -> Nat] : 
               \A i \in 0..n : f[i] = IF i = 0 THEN 0 ELSE f[i-1] + Usize[q[i]]}
             S == {n \in Nat : n <= Len(q) => Sums(n) # {}}
  <1>0. Len(q) \in Nat /\ \A i \in 1..Len(q) : q[i] \in Msg
    BY LenProperties
  <1>1. 0 \in S
    <2>1. [i \in 0..0 |-> 0] \in Sums(0)
      OBVIOUS
    <2>2. QED BY <2>1
  <1>2. ASSUME NEW n \in Nat, n \in S PROVE n + 1 \in S
    <2> SUFFICES ASSUME n + 1 <= Len(q) PROVE Sums(n + 1) # {}
      BY SMTT(60)
    <2>1. PICK f \in Sums(n) : TRUE
      BY <1>0, <1>2
    <2>2. Usize[q[n+1]] \in Nat
      BY <1>0, ConstAssumption
    <2> DEFINE g == [i \in 0..(n+1) |-> IF i = n + 1 THEN f[n] + Usize[q[n+1]] ELSE f[i]]
    <2>3. g \in [0..(n+1) -> Nat]
      BY <2>2
    <2>4. \A i \in 0..(n+1) : g[i] = IF i = 0 THEN 0 ELSE g[i-1] + Usize[q[i]]
      <3> TAKE i \in 0..(n+1)
      <3>1. CASE i = n + 1
        BY <3>1
      <3>2. CASE i # n + 1
        BY <3>2
      <3>3. QED BY <3>1, <3>2
    <2>5. QED BY <2>3, <2>4
  <1>3. \A n \in Nat : n \in S
    <2> HIDE DEF S
    <2> QED BY <1>1, <1>2, SetInduction
  <1>4. PICK f \in Sums(Len(q)) : TRUE
    <2>1. Len(q) \in S
      BY <1>3, <1>0
    <2>2. QED BY <2>1, <1>0
  <1>5. f = [i \in 0..Len(q) |-> IF i = 0 THEN 0 ELSE f[i-1] + Usize[q[i]]]
    OBVIOUS
  <1>6. QED BY <1>5 DEF IsSum

\* SizeOf is the last of the partial sums.
LEMMA SizeOfSum ==
  ASSUME NEW q \in Seq(Msg)
  PROVE  \E f \in [0..Len(q) -> Nat] :
           /\ SizeOf(q) = f[Len(q)]
           /\ f[0] = 0
           /\ \A i \in 1..Len(q) : f[i] = f[i-1] + Usize[q[i]]
  <1> DEFINE c == CHOOSE f : IsSum(f, q)
  <1>1. Len(q) \in Nat
    BY LenProperties
  <1>2. IsSum(c, q)
    BY SumExists
  <1>3. SizeOf(q) = c[Len(q)]
    BY SizeOfDef
  <1>4. PICK g \in [0..Len(q) -> Nat] : IsSum(g, q)
    BY SumExists
  <1> HIDE DEF c
  <1>5. \A i \in 0..Len(q) : c[i] = g[i]
    <2> DEFINE S == {n \in Nat : n <= Len(q) => c[n] = g[n]}
    <2>1. 0 \in S
      BY <1>1, <1>2, <1>4 DEF IsSum
    <2>2. ASSUME NEW n \in Nat, n \in S PROVE n + 1 \in S
      BY <1>1, <1>2, <1>4, <2>2 DEF IsSum
    <2>3. \A n \in Nat : n \in S
      <3> HIDE DEF S
      <3> QED BY <2>1, <2>2, SetInduction
    <2>4. QED BY <1>1, <2>3
  <1>6. SizeOf(q) = g[Len(q)]
    BY <1>1, <1>3, <1>5
  <1>7. g[0] = 0 /\ \A i \in 1..Len(q) : g[i] = g[i-1] + Usize[q[i]]
    BY <1>1, <1>4 DEF IsSum
  <1>8. QED BY <1>6, <1>7

\* A size is a natural number.
LEMMA SizeOfType ==
  ASSUME NEW q \in Seq(Msg)
  PROVE  SizeOf(q) \in Nat
  BY SizeOfSum, LenProperties

\* The size of the empty queue is zero (BUG_ON in msgbuf_head_empty).
LEMMA SizeOfEmpty == SizeOf(<<>>) = 0
  BY SizeOfSum, EmptySeq

\* Appending a message adds its size, as msgbuf_head_in does.
LEMMA SizeOfAppend ==
  ASSUME NEW q \in Seq(Msg), NEW m \in Msg
  PROVE  SizeOf(Append(q, m)) = SizeOf(q) + Usize[m]
  <1> DEFINE r == Append(q, m)
             n == Len(q)
  <1>1. /\ r \in Seq(Msg) /\ n \in Nat /\ Len(r) = n + 1 /\ r[n + 1] = m
        /\ \A i \in 1..n : r[i] = q[i]
    BY AppendProperties, LenProperties
  <1> HIDE DEF r, n
  <1>2. PICK f \in [0..n -> Nat] : /\ SizeOf(q) = f[n] /\ f[0] = 0
                                  /\ \A i \in 1..n : f[i] = f[i-1] + Usize[q[i]]
    BY SizeOfSum DEF n
  <1>3. PICK g \in [0..n+1 -> Nat] :
               /\ SizeOf(r) = g[n+1] /\ g[0] = 0
               /\ \A i \in 1..n+1 : g[i] = g[i-1] + Usize[r[i]]
    <2>1. PICK h \in [0..Len(r) -> Nat] :
                 /\ SizeOf(r) = h[Len(r)] /\ h[0] = 0
                 /\ \A i \in 1..Len(r) : h[i] = h[i-1] + Usize[r[i]]
      BY <1>1, SizeOfSum
    <2>2. Len(r) = n + 1
      BY <1>1
    <2>3. QED BY <2>1, <2>2, Zenon
  <1>4. f[n] = g[n]
    <2> DEFINE S == {k \in Nat : k <= n => f[k] = g[k]}
    <2>1. 0 \in S
      <3>1. f[0] = g[0]
        BY <1>2, <1>3
      <3>2. QED BY <3>1
    <2>2. ASSUME NEW k \in Nat, k \in S PROVE k + 1 \in S
      <3> SUFFICES ASSUME k + 1 <= n PROVE f[k + 1] = g[k + 1]
        OBVIOUS
      <3>1. k + 1 \in 1..n /\ k + 1 \in 1..n+1 /\ (k + 1) - 1 = k
        BY <1>1
      <3>2. f[k] = g[k]
        BY <1>1, <2>2
      <3>3. f[k + 1] = f[k] + Usize[q[k + 1]]
        BY <1>2, <3>1
      <3>4. g[k + 1] = g[k] + Usize[q[k + 1]]
        BY <1>1, <1>3, <3>1
      <3>5. QED BY <3>2, <3>3, <3>4
    <2>3. \A k \in Nat : k \in S
      <3> HIDE DEF S
      <3> QED BY <2>1, <2>2, SetInduction
    <2>4. QED BY <1>1, <2>3
  <1>5. g[n + 1] = g[n] + Usize[m]
    BY <1>1, <1>3
  <1>6. QED BY <1>2, <1>3, <1>4, <1>5 DEF r

\* Taking the first message away subtracts its size, as msgbuf_head_out does.
LEMMA SizeOfTail ==
  ASSUME NEW q \in Seq(Msg), q # <<>>
  PROVE  SizeOf(q) = Usize[Head(q)] + SizeOf(Tail(q))
  <1> DEFINE r == Tail(q)
             n == Len(r)
  <1>1. /\ r \in Seq(Msg) /\ n \in Nat /\ Len(q) = n + 1 /\ Head(q) = q[1]
        /\ \A i \in 1..n : r[i] = q[i + 1]
        /\ \A i \in 1..n+1 : q[i] \in Msg
    BY HeadTailProperties, LenProperties, EmptySeq
  <1> HIDE DEF r, n
  <1>2. PICK f \in [0..n -> Nat] : /\ SizeOf(r) = f[n] /\ f[0] = 0
                                  /\ \A i \in 1..n : f[i] = f[i-1] + Usize[r[i]]
    BY <1>1, SizeOfSum DEF n
  <1>3. PICK g \in [0..n+1 -> Nat] :
               /\ SizeOf(q) = g[n+1] /\ g[0] = 0
               /\ \A i \in 1..n+1 : g[i] = g[i-1] + Usize[q[i]]
    <2>1. PICK h \in [0..Len(q) -> Nat] :
                 /\ SizeOf(q) = h[Len(q)] /\ h[0] = 0
                 /\ \A i \in 1..Len(q) : h[i] = h[i-1] + Usize[q[i]]
      BY <1>1, SizeOfSum
    <2>2. Len(q) = n + 1
      BY <1>1
    <2>3. QED BY <2>1, <2>2, Zenon
  <1>4. Usize[q[1]] \in Nat
    BY <1>1, ConstAssumption
  <1>5. g[n + 1] = Usize[q[1]] + f[n]
    <2> DEFINE S == {k \in Nat : k <= n => g[k + 1] = Usize[q[1]] + f[k]}
    <2>1. 0 \in S
      <3>1. g[1] = g[0] + Usize[q[1]]
        BY <1>1, <1>3
      <3>2. g[0 + 1] = Usize[q[1]] + f[0]
        BY <1>2, <1>3, <1>4, <3>1
      <3>3. QED BY <3>2
    <2>2. ASSUME NEW k \in Nat, k \in S PROVE k + 1 \in S
      <3> SUFFICES ASSUME k + 1 <= n
                   PROVE  g[(k + 1) + 1] = Usize[q[1]] + f[k + 1]
        OBVIOUS
      <3> DEFINE j == k + 1
      <3>1. j \in 1..n /\ j + 1 \in 1..n+1 /\ j - 1 = k /\ (j + 1) - 1 = j
        BY <1>1
      <3>2. g[j] = Usize[q[1]] + f[k]
        BY <1>1, <2>2
      <3> HIDE DEF j
      <3>3. g[j + 1] = g[j] + Usize[q[j + 1]]
        BY <1>3, <3>1
      <3>4. f[j] = f[k] + Usize[q[j + 1]]
        BY <1>1, <1>2, <3>1
      <3>5. Usize[q[j + 1]] \in Nat /\ f[k] \in Nat
        <4>1. q[j + 1] \in Msg
          BY <1>1, <3>1
        <4>2. k \in 0..n
          BY <1>1, <3>1
        <4>3. QED BY <1>2, <4>1, <4>2, ConstAssumption
      <3>6. QED BY <1>4, <3>2, <3>3, <3>4, <3>5 DEF j
    <2>3. \A k \in Nat : k \in S
      <3> HIDE DEF S
      <3> QED BY <2>1, <2>2, SetInduction
    <2>4. QED BY <1>1, <2>3
  <1>6. QED BY <1>1, <1>2, <1>3, <1>5 DEF r

----------------------------------------------------------------------------
(* The connection.                                                         *)

USE DEF userVars, sbVars, evVars, sigVars, loopVars, netVars, peerOthers, Goto

----------------------------------------------------------------------------
(* Types.                                                                  *)

\* Waking everyone who waits keeps the type of pc.
LEMMA WokenType ==
  ASSUME pc \in [Threads -> UserPcs]
  PROVE  Woken \in [Threads -> UserPcs]
  BY DEF Woken, UserPcs

\* What is left of a queue after a write is a queue.
LEMMA RestType ==
  ASSUME NEW S, NEW q \in Seq(S), NEW w \in [n : Nat, part : BOOLEAN]
  PROVE  Rest(q, w) \in Seq(S)
  <1>1. \A i \in w.n + 1 .. Len(q) : q[i] \in S
    BY LenProperties
  <1>2. w.n + 1 \in Int /\ Len(q) \in Int
    BY LenProperties
  <1>3. QED BY <1>1, <1>2, SubSeqProperties DEF Rest

\* A write is a count and a flag, and its fragments are fragments of the queue.
LEMMA WriteType ==
  ASSUME NEW q \in Seq(Out), NEW w \in Writes(q)
  PROVE  w \in [n : Nat, part : BOOLEAN] /\ Frags(q, w) \in Seq(Frag(Out))
  <1>1. Len(q) \in Nat /\ \A i \in 1..Len(q) : q[i] \in Out
    BY LenProperties
  <1>2. /\ w.n \in 0..Len(q) /\ w.part \in BOOLEAN
        /\ w.part => w.n < Len(q)
        /\ w \in [n : Nat, part : BOOLEAN]
    BY <1>1 DEF Writes
  <1>3. [i \in 1..w.n |-> [msg |-> q[i], last |-> TRUE]] \in Seq(Frag(Out))
    <2>1. \A i \in 1..w.n : [msg |-> q[i], last |-> TRUE] \in Frag(Out)
      BY <1>1, <1>2 DEF Frag
    <2>2. QED BY <2>1, <1>1, <1>2
  <1>4. w.part => <<[msg |-> q[w.n + 1], last |-> FALSE]>> \in Seq(Frag(Out))
    <2>1. w.part => [msg |-> q[w.n + 1], last |-> FALSE] \in Frag(Out)
      BY <1>1, <1>2 DEF Frag
    <2>2. QED BY <2>1
  <1>5. CASE w.part
    BY <1>2, <1>3, <1>4, <1>5, ConcatProperties DEF Frags
  <1>6. CASE ~w.part
    BY <1>2, <1>3, <1>6, ConcatProperties, EmptySeq DEF Frags
  <1>7. QED BY <1>2, <1>5, <1>6

\* The message taken out of rbuf is one the peer sent.
LEMMA DeserType ==
  ASSUME rbuf \in Seq(Frag(In)), HasWhole
  PROVE  /\ LastFrag \in 1..Len(rbuf)
         /\ rbuf[LastFrag].msg \in In
         /\ SubSeq(rbuf, LastFrag + 1, Len(rbuf)) \in Seq(Frag(In))
  <1>1. Len(rbuf) \in Nat /\ \A i \in 1..Len(rbuf) : rbuf[i] \in Frag(In)
    BY LenProperties
  <1>2. LastFrag \in 1..Len(rbuf)
    BY <1>1 DEF HasWhole, LastFrag
  <1>3. rbuf[LastFrag].msg \in In
    BY <1>1, <1>2 DEF Frag
  <1>4. \A i \in LastFrag + 1 .. Len(rbuf) : rbuf[i] \in Frag(In)
    BY <1>1, <1>2
  <1>5. QED BY <1>1, <1>2, <1>3, <1>4, SubSeqProperties

\* Queueing a signal keeps the types of the queue and of the descriptor.
LEMMA SignalType ==
  ASSUME sig \in Seq(Signals), efd \in Nat, NEW s \in Signals, ev_signal(s)
  PROVE  sig' \in Seq(Signals) /\ efd' \in Nat
  BY AppendProperties DEF ev_signal

\* The initial state is typed.
LEMMA TypeInit == Init => TypeOK
  <1> SUFFICES ASSUME Init PROVE TypeOK
    OBVIOUS
  <1>1. UserOK
    BY DEF Init, UserOK, UserPcs
  <1>2. SbOK
    BY EmptySeq DEF Init, SbOK
  <1>3. LoopOK
    BY DEF Init, LoopOK, LoopPcs, NoWrite
  <1>4. NetOK
    BY EmptySeq DEF Init, NetOK
  <1>5. QED BY <1>1, <1>2, <1>3, <1>4 DEF TypeOK

\* A call of the application keeps the types.
LEMMA TypeCall ==
  ASSUME TypeOK, NEW t \in Threads, Call(t)
  PROVE  TypeOK'
  <1>1. CASE xsend(t)
    BY <1>1 DEF TypeOK, UserOK, UserPcs, SbOK, LoopOK, LoopPcs, NetOK, xsend
  <1>2. CASE xrecv(t)
    BY <1>2 DEF TypeOK, UserOK, UserPcs, SbOK, LoopOK, LoopPcs, NetOK, xrecv
  <1>3. CASE xclose(t)
    <2> USE <1>3 DEF TypeOK, xclose
    <2>1. UserOK'
      <3>1. pc' \in [Threads -> UserPcs]
        BY DEF UserOK, UserPcs
      <3>2. pc'[t] = "xclose" /\ \A u \in Threads \ {t} : pc'[u] = pc[u]
        BY DEF UserOK
      <3>3. open' \in BOOLEAN
        OBVIOUS
      <3>4. ref' \in Int
        BY DEF UserOK
      <3>5. QED BY <3>1, <3>2, <3>3, <3>4 DEF UserOK
    <2>2. SbOK' /\ LoopOK' /\ NetOK'
      BY DEF SbOK, LoopOK, NetOK
    <2>3. QED BY <2>1, <2>2
  <1>4. QED
    BY <1>1, <1>2, <1>3 DEF Call

\* A step of a thread inside the library keeps the types.
LEMMA TypeInside ==
  ASSUME TypeOK, NEW t \in Threads, Inside(t)
  PROVE  TypeOK'
  <1>1. CASE SndWait(t)
    BY <1>1 DEF TypeOK, UserOK, UserPcs, SbOK, LoopOK, LoopPcs, NetOK,
       SndWait
  <1>2. CASE snd_msgbuf_head_add(t)
    <2> USE <1>2 DEF TypeOK, snd_msgbuf_head_add
    <2>1. UserOK'
      BY DEF UserOK, UserPcs
    <2>2. SbOK'
      <3>1. arg[t] \in Out
        BY DEF UserOK
      <3>2. snd' \in Seq(Out)
        BY <3>1, AppendProperties DEF SbOK
      <3>3. sig' \in Seq(Signals) /\ efd' \in Nat
        BY SignalType DEF SbOK, Signals
      <3>4. QED BY <3>2, <3>3 DEF SbOK
    <2>3. LoopOK' /\ NetOK'
      BY DEF LoopOK, NetOK
    <2>4. QED BY <2>1, <2>2, <2>3
  <1>3. CASE RcvWait(t)
    BY <1>3 DEF TypeOK, UserOK, UserPcs, SbOK, LoopOK, LoopPcs, NetOK,
       RcvWait
  <1>4. CASE rcv_msgbuf_head_rm(t)
    <2> USE <1>4 DEF TypeOK, rcv_msgbuf_head_rm
    <2>1. UserOK'
      BY DEF UserOK, UserPcs
    <2>2. SbOK'
      <3>1. rcv' \in Seq(In)
        BY HeadTailProperties DEF SbOK
      <3>2. sig' \in Seq(Signals) /\ efd' \in Nat
        BY SignalType DEF SbOK, Signals
      <3>3. QED BY <3>1, <3>2 DEF SbOK
    <2>3. LoopOK' /\ NetOK'
      BY DEF LoopOK, NetOK
    <2>4. QED BY <2>1, <2>2, <2>3
  <1>5. CASE xput(t)
    BY <1>5 DEF TypeOK, UserOK, UserPcs, SbOK, LoopOK, LoopPcs, NetOK, xput,
       AfterPut
  <1>6. CASE __xclose(t)
    <2> USE <1>6 DEF TypeOK, __xclose
    <2>1. UserOK'
      BY WokenType DEF UserOK, UserPcs, Woken
    <2>2. SbOK' /\ LoopOK' /\ NetOK'
      BY DEF SbOK, LoopOK, NetOK
    <2>3. QED BY <2>1, <2>2
  <1>7. CASE xcloseput(t)
    BY <1>7 DEF TypeOK, UserOK, UserPcs, SbOK, LoopOK, LoopPcs, NetOK,
       xcloseput, AfterPut
  <1>8. CASE unsighndl(t)
    BY <1>8 DEF TypeOK, UserOK, UserPcs, SbOK, LoopOK, LoopPcs, NetOK,
       unsighndl
  <1>9. CASE del(t)
    BY <1>9 DEF TypeOK, UserOK, UserPcs, SbOK, LoopOK, LoopPcs, NetOK, del
  <1>10. CASE deldone(t)
    BY <1>10 DEF TypeOK, UserOK, UserPcs, SbOK, LoopOK, LoopPcs, NetOK,
       deldone
  <1>11. CASE FlushSome(t)
    <2> USE <1>11 DEF TypeOK, FlushSome
    <2>1. SbOK'
      BY WriteType, RestType DEF SbOK
    <2>2. NetOK'
      BY WriteType, ConcatProperties DEF NetOK, SbOK
    <2>3. UserOK' /\ LoopOK'
      BY DEF UserOK, LoopOK
    <2>4. QED BY <2>1, <2>2, <2>3
  <1>12. CASE FlushEnd(t)
    BY <1>12 DEF TypeOK, UserOK, UserPcs, SbOK, LoopOK, LoopPcs, NetOK,
       FlushEnd
  <1>13. CASE sockbase_exit(t)
    <2> USE <1>13 DEF TypeOK, sockbase_exit
    <2>1. UserOK'
      BY DEF UserOK, UserPcs
    <2>2. SbOK'
      <3>1. snd' \in Seq(Out) /\ rcv' \in Seq(In) /\ sig' \in Seq(Signals)
        BY EmptySeq
      <3>2. part' \in BOOLEAN /\ efd' \in Nat
        OBVIOUS
      <3>3. QED BY <3>1, <3>2 DEF SbOK
    <2>3. LoopOK' /\ NetOK'
      BY DEF LoopOK, NetOK
    <2>4. QED BY <2>1, <2>2, <2>3
  <1>14. QED
    BY <1>1, <1>2, <1>3, <1>4, <1>5, <1>6, <1>7, <1>8, <1>9, <1>10, <1>11,
       <1>12, <1>13 DEF Inside

\* A step of the event loop keeps the types.
LEMMA TypeLoop ==
  ASSUME TypeOK, Loop
  PROVE  TypeOK'
  <1>1. CASE RunTasks
    BY <1>1 DEF TypeOK, UserOK, UserPcs, SbOK, LoopOK, LoopPcs, NetOK,
       RunTasks
  <1>2. CASE eventpoll_wait
    BY ZenonT(60), <1>2 DEF TypeOK, UserOK, UserPcs, SbOK, LoopOK, LoopPcs, NetOK,
       eventpoll_wait
  <1>3. CASE Dispatch
    <2> USE <1>3 DEF TypeOK, Dispatch
    <2>1. LoopOK'
      BY DEF LoopOK, LoopPcs
    <2>2. UserOK' /\ SbOK' /\ NetOK'
      BY DEF UserOK, SbOK, NetOK
    <2>3. QED BY <2>1, <2>2
  <1>4. CASE ev_get_signals
    <2> USE <1>4 DEF TypeOK, ev_get_signals
    <2>1. SbOK'
      BY HeadTailProperties DEF SbOK
    <2>2. LoopOK'
      BY DEF LoopOK, LoopPcs
    <2>3. UserOK' /\ NetOK'
      BY DEF UserOK, NetOK
    <2>4. QED BY <2>1, <2>2, <2>3
  <1>5. CASE ev_unsignal
    BY <1>5 DEF TypeOK, UserOK, UserPcs, SbOK, LoopOK, LoopPcs, NetOK,
       ev_unsignal
  <1>6. CASE try_disable_ev_read
    BY <1>6 DEF TypeOK, UserOK, UserPcs, SbOK, LoopOK, LoopPcs, NetOK,
       try_disable_ev_read
  <1>7. CASE try_enable_ev_read
    BY <1>7 DEF TypeOK, UserOK, UserPcs, SbOK, LoopOK, LoopPcs, NetOK,
       try_enable_ev_read
  <1>8. CASE bio_prefetch
    BY <1>8 DEF TypeOK, UserOK, UserPcs, SbOK, LoopOK, LoopPcs, NetOK,
       bio_prefetch
  <1>9. CASE rcv_msgbuf_head_add
    <2> USE <1>9 DEF TypeOK, rcv_msgbuf_head_add
    <2>1. UserOK'
      BY WokenType DEF UserOK, UserPcs, Woken
    <2>2. SbOK'
      <3>1. rcv' \in Seq(In)
        BY DeserType, AppendProperties DEF SbOK, NetOK
      <3>2. sig' \in Seq(Signals) /\ efd' \in Nat
        BY SignalType DEF SbOK, Signals
      <3>3. QED BY <3>1, <3>2 DEF SbOK
    <2>3. NetOK'
      BY DeserType DEF NetOK
    <2>4. LoopOK'
      BY DEF LoopOK
    <2>5. QED BY <2>1, <2>2, <2>3, <2>4
  <1>10. CASE ReadEnd
    BY <1>10 DEF TypeOK, UserOK, UserPcs, SbOK, LoopOK, LoopPcs, NetOK,
       ReadEnd
  <1>11. CASE sio_lock_send
    BY <1>11 DEF TypeOK, UserOK, UserPcs, SbOK, LoopOK, LoopPcs, NetOK,
       sio_lock_send
  <1>12. CASE SendSome
    <2> USE <1>12 DEF TypeOK, SendSome
    <2>1. LoopOK'
      BY WriteType DEF LoopOK, LoopPcs, SbOK
    <2>2. NetOK'
      BY WriteType, ConcatProperties DEF NetOK, SbOK
    <2>3. UserOK' /\ SbOK'
      BY DEF UserOK, SbOK
    <2>4. QED BY <2>1, <2>2, <2>3
  <1>13. CASE SendEnd
    BY <1>13 DEF TypeOK, UserOK, UserPcs, SbOK, LoopOK, LoopPcs, NetOK,
       SendEnd
  <1>14. CASE sndhead_install_iovs
    <2> USE <1>14 DEF TypeOK, sndhead_install_iovs
    <2>1. UserOK'
      BY WokenType DEF UserOK, UserPcs, Woken
    <2>2. SbOK'
      BY RestType DEF SbOK, LoopOK
    <2>3. LoopOK'
      BY DEF LoopOK, LoopPcs, NoWrite
    <2>4. NetOK'
      BY DEF NetOK
    <2>5. QED BY <2>1, <2>2, <2>3, <2>4
  <1>15. CASE UnlockSend
    BY <1>15 DEF TypeOK, UserOK, UserPcs, SbOK, LoopOK, LoopPcs, NetOK,
       UnlockSend
  <1>16. CASE SetEpipe
    <2> USE <1>16 DEF TypeOK, SetEpipe
    <2>1. UserOK'
      BY WokenType DEF UserOK, UserPcs, Woken
    <2>2. LoopOK'
      BY DEF LoopOK, LoopPcs
    <2>3. SbOK' /\ NetOK'
      BY DEF SbOK, NetOK
    <2>4. QED BY <2>1, <2>2, <2>3
  <1>17. QED
    BY <1>1, <1>2, <1>3, <1>4, <1>5, <1>6, <1>7, <1>8, <1>9, <1>10, <1>11,
       <1>12, <1>13, <1>14, <1>15, <1>16 DEF Loop

\* A step of the peer keeps the types.
LEMMA TypePeer ==
  ASSUME TypeOK, Peer
  PROVE  TypeOK'
  <1>1. CASE PeerTake
    BY <1>1 DEF TypeOK, UserOK, UserPcs, SbOK, LoopOK, LoopPcs, NetOK,
       PeerTake
  <1>2. CASE PeerPut
    <2> USE <1>2 DEF TypeOK, PeerPut
    <2>1. NetOK'
      <3>1. PICK m \in unput, final \in BOOLEAN :
              /\ win' = Append(win, [msg |-> m, last |-> final])
              /\ unput' = IF final THEN unput \ {m} ELSE unput
        OBVIOUS
      <3>2. [msg |-> m, last |-> final] \in Frag(In)
        BY DEF NetOK, Frag
      <3>3. win' \in Seq(Frag(In))
        BY <3>1, <3>2, AppendProperties DEF NetOK
      <3>4. unput' \in SUBSET In
        BY <3>1 DEF NetOK
      <3>5. QED BY <3>3, <3>4 DEF NetOK
    <2>2. UserOK' /\ SbOK' /\ LoopOK'
      BY DEF UserOK, SbOK, LoopOK
    <2>3. QED BY <2>1, <2>2
  <1>3. CASE PeerClose
    <2> USE <1>3 DEF TypeOK, PeerClose
    <2>1. NetOK'
      BY EmptySeq DEF NetOK
    <2>2. UserOK' /\ SbOK' /\ LoopOK'
      BY DEF UserOK, SbOK, LoopOK
    <2>3. QED BY <2>1, <2>2
  <1>4. QED
    BY <1>1, <1>2, <1>3 DEF Peer

\* Every step keeps the types.
LEMMA TypeStep == TypeOK /\ [Next]_vars => TypeOK'
  <1> SUFFICES ASSUME TypeOK, [Next]_vars PROVE TypeOK'
    OBVIOUS
  <1>1. CASE Next
    BY <1>1, TypeCall, TypeInside, TypeLoop, TypePeer DEF Next
  <1>2. CASE UNCHANGED vars
    BY <1>2 DEF vars, TypeOK, UserOK, SbOK, LoopOK, NetOK
  <1>3. QED BY <1>1, <1>2

\* Every variable keeps its type, and a thread that is inside xsend carries a
\* message of the application to the queue.
THEOREM TypeCorrect == Spec => []TypeOK
  BY TypeInit, TypeStep, PTL DEF Spec

----------------------------------------------------------------------------
(* What the threads leave alone.                                           *)

\* No user thread touches the state of the loop thread, the send lock, the
\* events of the descriptor or the registration of descriptors.
LEMMA UserFrame ==
  ASSUME NEW t \in Threads, Call(t) \/ Inside(t)
  PROVE  UNCHANGED <<evVars, reg, loopVars>>
  BY DEF Call, Inside, xsend, xrecv, xclose, SndWait, snd_msgbuf_head_add,
     RcvWait, rcv_msgbuf_head_rm, xput, __xclose, xcloseput, unsighndl, del,
     deldone, FlushSome, FlushEnd, sockbase_exit

\* The loop thread takes and drops no reference.
LEMMA LoopFrame ==
  ASSUME Loop
  PROVE  UNCHANGED <<arg, unsent, open, ref>>
  BY DEF Loop, RunTasks, eventpoll_wait, Dispatch, ev_get_signals, ev_unsignal,
     try_disable_ev_read, try_enable_ev_read, bio_prefetch,
     rcv_msgbuf_head_add, ReadEnd, sio_lock_send, SendSome, SendEnd,
     sndhead_install_iovs, UnlockSend, SetEpipe

\* The peer changes the kernel stream only.
LEMMA PeerFrame ==
  ASSUME Peer
  PROVE  UNCHANGED peerOthers
  BY DEF Peer, PeerTake, PeerPut, PeerClose

----------------------------------------------------------------------------
(* The send lock.                                                          *)

\* The send lock is set by sio_lock_send and cleared by UnlockSend only.
LEMMA LockStep == TypeOK /\ LockInv /\ [Next]_vars => LockInv'
  <1> SUFFICES ASSUME TypeOK, LockInv, [Next]_vars PROVE LockInv'
    OBVIOUS
  <1>1. CASE \E t \in Threads : Call(t) \/ Inside(t)
    BY <1>1, UserFrame DEF LockInv
  <1>2. CASE Loop
    BY <1>2 DEF LockInv, TypeOK, LoopOK, Loop, RunTasks, eventpoll_wait,
       Dispatch, ev_get_signals, ev_unsignal, try_disable_ev_read,
       try_enable_ev_read, bio_prefetch, rcv_msgbuf_head_add, ReadEnd,
       sio_lock_send, SendSome, SendEnd, sndhead_install_iovs, UnlockSend,
       SetEpipe
  <1>3. CASE Peer
    BY <1>3, PeerFrame DEF LockInv
  <1>4. CASE UNCHANGED vars
    BY <1>4 DEF vars, LockInv
  <1>5. QED BY <1>1, <1>2, <1>3, <1>4 DEF Next

\* The loop thread holds the send lock exactly while it writes ...
THEOREM LockCorrect == Spec => []LockInv
  <1>1. Init => LockInv
    BY DEF Init, LockInv
  <1>2. QED BY <1>1, LockStep, TypeCorrect, PTL DEF Spec

\* ... so the assertions of sio_connector_hndl about it never fail.
THEOREM SendLockSafe == Spec => []SendLockHeld
  <1>1. LockInv => SendLockHeld
    BY DEF LockInv, SendLockHeld
  <1>2. QED BY <1>1, LockCorrect, PTL

----------------------------------------------------------------------------
(* The signal queue.                                                       *)

\* A signal just queued is in the queue, and those before it stay there.
LEMMA QueuedSignal ==
  ASSUME sig \in Seq(Signals), NEW s \in Signals, sig' = Append(sig, s)
  PROVE  Queued(s)' /\ \A u \in Signals : Queued(u) => Queued(u)'
  <1>1. /\ Len(sig) \in Nat /\ Len(sig') = Len(sig) + 1
        /\ sig'[Len(sig) + 1] = s
        /\ \A i \in 1..Len(sig) : sig'[i] = sig[i]
    BY AppendProperties, LenProperties
  <1>2. QED BY <1>1 DEF Queued

\* Taking the first signal leaves the others in the queue.
LEMMA QueuedTail ==
  ASSUME sig \in Seq(Signals), sig # <<>>, sig' = Tail(sig),
         NEW u \in Signals, Head(sig) # u, Queued(u)
  PROVE  Queued(u)'
  <1>1. /\ Len(sig) \in Nat /\ Len(sig') = Len(sig) - 1
        /\ Head(sig) = sig[1]
        /\ \A i \in 1..Len(sig) - 1 : sig'[i] = sig[i + 1]
    BY HeadTailProperties, LenProperties, EmptySeq
  <1>2. PICK i \in 1..Len(sig) : sig[i] = u
    BY DEF Queued
  <1>3. i # 1 /\ i - 1 \in 1..Len(sig')
    BY <1>1, <1>2
  <1>4. sig'[i - 1] = u
    BY <1>1, <1>2, <1>3
  <1>5. QED BY <1>3, <1>4 DEF Queued

----------------------------------------------------------------------------
(* No message is stranded in the send queue.                               *)

\* Only a queue that holds a message can be written.
LEMMA WriteSome ==
  ASSUME NEW q \in Seq(Out), Writes(q) # {}
  PROVE  q # <<>>
  BY LenProperties, EmptySeq DEF Writes

\* A user that queues a message signals it, or the loop will look again.
LEMMA StrandedUser ==
  ASSUME TypeOK, NoStrandedSend, NEW t \in Threads, Call(t) \/ Inside(t)
  PROVE  NoStrandedSend'
  <1> USE DEF NoStrandedSend
  <1>1. UNCHANGED <<sendLock, evw, lpc>>
    BY UserFrame
  <1>2. sig \in Seq(Signals) /\ snd \in Seq(Out)
    BY DEF TypeOK, SbOK
  <1>3. CASE snd_msgbuf_head_add(t)
    BY <1>1, <1>2, <1>3, QueuedSignal DEF snd_msgbuf_head_add, ev_signal, Signals
  <1>4. CASE rcv_msgbuf_head_rm(t)
    <2>1. UNCHANGED snd
      BY <1>4 DEF rcv_msgbuf_head_rm
    <2>2. Queued("SNDBUF_ADD") => Queued("SNDBUF_ADD")'
      <3>1. CASE sig' = sig
        BY <3>1 DEF Queued
      <3>2. CASE sig' = Append(sig, "RCVBUF_NONFULL")
        BY <1>2, <3>2, QueuedSignal DEF Signals
      <3>3. QED BY <1>4, <3>1, <3>2 DEF rcv_msgbuf_head_rm, ev_signal
    <2>3. QED BY <1>1, <2>1, <2>2
  <1>5. CASE FlushSome(t)
    BY <1>1, <1>2, <1>5, WriteSome DEF FlushSome, Queued
  <1>6. CASE sockbase_exit(t)
    BY <1>6 DEF sockbase_exit
  <1>7. CASE UNCHANGED <<snd, sig>>
    BY <1>1, <1>7 DEF Queued
  <1>8. QED
    BY <1>3, <1>4, <1>5, <1>6, <1>7
    DEF Call, Inside, xsend, xrecv, xclose, SndWait, RcvWait, xput, __xclose,
        xcloseput, unsighndl, del, deldone, FlushEnd

\* The loop gives up a message only by polling for EV_WRITE.
LEMMA StrandedLoop ==
  ASSUME TypeOK, LockInv, NoStrandedSend, Loop
  PROVE  NoStrandedSend'
  <1> USE DEF NoStrandedSend
  <1>1. sig \in Seq(Signals)
    BY DEF TypeOK, SbOK
  <1>2. CASE ev_get_signals
    <2>1. UNCHANGED <<snd, sendLock, evw>> /\ lpc = "sig"
      BY <1>2 DEF ev_get_signals
    <2>2. CASE sig = <<>>
      BY <1>2, <2>1, <2>2 DEF ev_get_signals, Queued
    <2>3. CASE sig # <<>> /\ Head(sig) = "SNDBUF_ADD"
      BY <1>2, <2>3 DEF ev_get_signals
    <2>4. CASE sig # <<>> /\ Head(sig) # "SNDBUF_ADD"
      BY <1>1, <1>2, <2>1, <2>4, QueuedTail DEF ev_get_signals, Signals
    <2>5. QED BY <2>2, <2>3, <2>4
  <1>3. CASE rcv_msgbuf_head_add
    <2>1. UNCHANGED <<snd, sendLock, evw, lpc>>
      BY <1>3 DEF rcv_msgbuf_head_add
    <2>2. Queued("SNDBUF_ADD") => Queued("SNDBUF_ADD")'
      <3>1. CASE sig' = sig
        BY <3>1 DEF Queued
      <3>2. CASE sig' = Append(sig, "RCVBUF_FULL")
        BY <1>1, <3>2, QueuedSignal DEF Signals
      <3>3. QED BY <1>3, <3>1, <3>2 DEF rcv_msgbuf_head_add, ev_signal
    <2>3. QED BY <2>1, <2>2
  <1>4. CASE sio_lock_send
    BY <1>4 DEF sio_lock_send
  <1>5. CASE sndhead_install_iovs
    BY <1>5 DEF sndhead_install_iovs, LockInv
  <1>6. CASE UnlockSend
    BY <1>6 DEF UnlockSend
  <1>7. CASE UNCHANGED <<snd, sendLock, evw, sig>> /\ lpc # "lock"
    BY <1>7 DEF Queued
  <1>8. QED
    BY <1>2, <1>3, <1>4, <1>5, <1>6, <1>7
    DEF Loop, RunTasks, eventpoll_wait, Dispatch, ev_unsignal,
        try_disable_ev_read, try_enable_ev_read, bio_prefetch, ReadEnd,
        SendSome, SendEnd, SetEpipe

\* No step strands a message in the send queue.
LEMMA StrandedStep ==
  TypeOK /\ LockInv /\ NoStrandedSend /\ [Next]_vars => NoStrandedSend'
  <1> SUFFICES ASSUME TypeOK, LockInv, NoStrandedSend, [Next]_vars
               PROVE  NoStrandedSend'
    OBVIOUS
  <1>1. CASE Peer
    BY <1>1, PeerFrame DEF NoStrandedSend, Queued
  <1>2. CASE UNCHANGED vars
    BY <1>2 DEF vars, NoStrandedSend, Queued
  <1>3. QED BY <1>1, <1>2, StrandedUser, StrandedLoop DEF Next

\* A message a sender queues while the loop is at work is never forgotten.
THEOREM NoSendStranded == Spec => []NoStrandedSend
  <1>1. Init => NoStrandedSend
    BY DEF Init, NoStrandedSend
  <1>2. QED
    BY <1>1, StrandedStep, TypeCorrect, LockCorrect, PTL DEF Spec

----------------------------------------------------------------------------
(* References and the end of the socket.                                   *)

\* A wakeup moves no thread into or out of the library.
LEMMA WokenHolds ==
  ASSUME pc \in [Threads -> UserPcs], pc' = Woken
  PROVE  /\ Holders' = Holders /\ Closing' = Closing
         /\ \A t \in Threads : /\ (pc[t] = "put2")' = (pc[t] = "put2")
                               /\ TearingDown(t)' = TearingDown(t)
  BY DEF Woken, Holders, HoldPcs, Closing, TearingDown

\* A thread that enters or leaves is added to the holders or taken away.
LEMMA HoldersStep ==
  ASSUME pc \in [Threads -> UserPcs], NEW t \in Threads, NEW x \in UserPcs,
         pc' = [pc EXCEPT ![t] = x]
  PROVE  /\ IsFiniteSet(Holders) /\ Cardinality(Holders) \in Nat
         /\ t \in Holders => Cardinality(Holders) > 0
         /\ Cardinality(Holders)' =
              IF x \in HoldPcs
              THEN IF t \in Holders THEN Cardinality(Holders)
                                    ELSE Cardinality(Holders) + 1
              ELSE IF t \in Holders THEN Cardinality(Holders) - 1
                                    ELSE Cardinality(Holders)
  <1>1. IsFiniteSet(Holders) /\ Cardinality(Holders) \in Nat
    <2>1. Holders \subseteq Threads
      BY DEF Holders
    <2>2. QED BY <2>1, ConstAssumption, FS_Subset, FS_CardinalityType
  <1>2. t \in Holders => Cardinality(Holders \ {t}) = Cardinality(Holders) - 1
                         /\ Cardinality(Holders \ {t}) \in Nat
    BY <1>1, FS_RemoveElement, FS_CardinalityType
  <1>3. t \notin Holders => Cardinality(Holders \cup {t}) = Cardinality(Holders) + 1
    BY <1>1, FS_AddElement
  <1>4. CASE x \in HoldPcs
    <2>1. Holders' = Holders \cup {t}
      BY <1>4 DEF Holders
    <2>2. t \in Holders => Holders' = Holders
      BY <2>1
    <2>3. Cardinality(Holders)' = Cardinality(Holders \cup {t})
      BY <2>1
    <2>4. t \in Holders => Cardinality(Holders \cup {t}) = Cardinality(Holders)
      BY <2>1, <2>2
    <2>5. t \in Holders => Cardinality(Holders) > 0
      BY <1>1, <1>2
    <2>6. QED BY <1>1, <1>2, <1>3, <1>4, <2>3, <2>4, <2>5
  <1>5. CASE x \notin HoldPcs
    <2>1. Holders' = Holders \ {t}
      BY <1>5 DEF Holders
    <2>2. t \notin Holders => Holders' = Holders
      BY <2>1
    <2>3. Cardinality(Holders)' = Cardinality(Holders \ {t})
      BY <2>1
    <2>4. t \notin Holders => Cardinality(Holders \ {t}) = Cardinality(Holders)
      BY <2>1, <2>2
    <2>5. t \in Holders => Cardinality(Holders) > 0
      BY <1>1, <1>2
    <2>6. QED BY <1>1, <1>2, <1>3, <1>5, <2>3, <2>4, <2>5
  <1>6. QED BY <1>4, <1>5

\* A step of a user thread keeps the count of references exact.
LEMMA RefUser ==
  ASSUME TypeOK, RefInv, NEW t \in Threads, Call(t) \/ Inside(t)
  PROVE  RefInv'
  <1>1. pc \in [Threads -> UserPcs] /\ ref \in Int /\ open \in BOOLEAN
    BY DEF TypeOK, UserOK
  <1>2. Base \in {0, 1}
    BY DEF Base
  <1>3. Cardinality(Holders) \in Nat
    BY <1>1, FS_Subset, FS_CardinalityType, ConstAssumption DEF Holders
  <1>4. CASE xsend(t) \/ xrecv(t)
    <2>1. PICK x \in {"send", "recv"} : pc' = [pc EXCEPT ![t] = x]
      BY <1>4 DEF xsend, xrecv
    <2>2. /\ pc[t] = "idle" /\ ref > 0 /\ ref' = ref + 1
          /\ UNCHANGED <<open, epipe>>
      BY <1>4 DEF xsend, xrecv
    <2>3. Closing' = Closing /\ Base' = Base
      BY <1>1, <2>1, <2>2 DEF Closing, Base
    <2>4. Cardinality(Holders)' = Cardinality(Holders) + 1
      BY <1>1, <2>1, <2>2, HoldersStep DEF Holders, HoldPcs, UserPcs
    <2>5. \A u \in Threads : ~TearingDown(u)'
      BY <1>1, <2>1, <2>2 DEF RefInv, TearingDown
    <2>6. \A u \in Threads : (pc[u] = "put2")' => pc[u] = "put2"
      BY <1>1, <2>1
    <2>7. QED BY <1>2, <1>3, <2>2, <2>3, <2>4, <2>5, <2>6 DEF RefInv
  <1>5. CASE xclose(t)
    <2>1. /\ pc[t] = "idle" /\ open /\ ~open' /\ ref' = ref + 1
          /\ pc' = [pc EXCEPT ![t] = "xclose"] /\ UNCHANGED epipe
      BY <1>5 DEF xclose
    <2>2. Closing = {} /\ Closing' = {t} /\ Base = 1 /\ Base' = 1
      BY <1>1, <2>1 DEF Closing, Base, RefInv
    <2>3. Cardinality(Holders)' = Cardinality(Holders) + 1
      BY <1>1, <2>1, HoldersStep DEF Holders, HoldPcs, UserPcs
    <2>4. \A u \in Threads : ~TearingDown(u)'
      BY <1>1, <1>3, <2>1, <2>2 DEF RefInv, TearingDown
    <2>5. QED BY <1>1, <1>3, <2>1, <2>2, <2>3, <2>4 DEF RefInv, Closing
  <1>6. CASE xput(t)
    <2>1. /\ pc[t] = "ret" /\ ref' = ref - 1
          /\ pc' = [pc EXCEPT ![t] = AfterPut(1)] /\ UNCHANGED <<open, epipe>>
      BY <1>6 DEF xput
    <2>2. AfterPut(1) \in {"unsig", "idle"} /\ (AfterPut(1) = "unsig" <=> ref = 1)
      BY DEF AfterPut
    <2>3. Closing' = Closing /\ Base' = Base
      BY <1>1, <2>1, <2>2 DEF Closing, Base
    <2>4. /\ Cardinality(Holders)' = Cardinality(Holders) - 1
          /\ Cardinality(Holders) > 0
      BY <1>1, <2>1, <2>2, HoldersStep DEF Holders, HoldPcs, UserPcs
    <2>5. \A u \in Threads : ~TearingDown(u)
      BY <1>2, <1>3, <2>4 DEF RefInv
    <2>6. \A u \in Threads : TearingDown(u)' => u = t /\ ref' = 0
      BY <1>1, <2>1, <2>2, <2>5 DEF TearingDown
    <2>7. \A u \in Threads : (pc[u] = "put2")' => pc[u] = "put2"
      BY <1>1, <2>1, <2>2
    <2>8. QED BY <1>2, <1>3, <2>1, <2>3, <2>4, <2>6, <2>7 DEF RefInv
  <1>7. CASE xcloseput(t)
    <2>1. /\ pc[t] = "put2" /\ ref' = ref - 2
          /\ pc' = [pc EXCEPT ![t] = AfterPut(2)] /\ UNCHANGED <<open, epipe>>
      BY <1>7 DEF xcloseput
    <2>2. AfterPut(2) \in {"unsig", "idle"} /\ (AfterPut(2) = "unsig" <=> ref = 2)
      BY DEF AfterPut
    <2>3. Closing = {t} /\ Closing' = {} /\ ~open /\ epipe
      BY <1>1, <2>1, <2>2 DEF Closing, RefInv
    <2>4. Base = 1 /\ Base' = 0
      BY <2>1, <2>3 DEF Base
    <2>5. /\ Cardinality(Holders)' = Cardinality(Holders) - 1
          /\ Cardinality(Holders) > 0
      BY <1>1, <2>1, <2>2, HoldersStep DEF Holders, HoldPcs, UserPcs
    <2>6. \A u \in Threads : ~TearingDown(u)
      BY <1>2, <1>3, <2>5 DEF RefInv
    <2>7. \A u \in Threads : TearingDown(u)' => u = t /\ ref' = 0
      BY <1>1, <2>1, <2>2, <2>6 DEF TearingDown
    <2>8. QED BY <1>3, <2>1, <2>3, <2>4, <2>5, <2>7 DEF RefInv, Closing
  <1>8. CASE __xclose(t)
    <2>1. /\ pc[t] = "xclose" /\ epipe' = TRUE /\ UNCHANGED <<ref, open>>
          /\ pc' = [Woken EXCEPT ![t] = "put2"]
      BY <1>8 DEF __xclose
    <2>2. Holders' = Holders /\ Closing' = Closing
      BY <1>1, <2>1 DEF Holders, HoldPcs, Closing, Woken
    <2>3. \A u \in Threads : TearingDown(u)' = TearingDown(u)
      BY <1>1, <2>1 DEF TearingDown, Woken
    <2>4. Base' = Base
      BY <2>1, <2>2 DEF Base
    <2>5. QED BY <2>1, <2>2, <2>3, <2>4 DEF RefInv
  <1>9. CASE SndWait(t) \/ snd_msgbuf_head_add(t) \/ RcvWait(t) \/ rcv_msgbuf_head_rm(t)
    <2>1. /\ pc[t] \in {"send", "send_woken", "recv", "recv_woken"}
          /\ UNCHANGED <<ref, open, epipe>>
      BY <1>9 DEF SndWait, snd_msgbuf_head_add, RcvWait, rcv_msgbuf_head_rm
    <2>2. PICK x \in {"send_wait", "ret", "recv_wait"} : pc' = [pc EXCEPT ![t] = x]
      BY <1>9 DEF SndWait, snd_msgbuf_head_add, RcvWait, rcv_msgbuf_head_rm
    <2>3. Holders' = Holders /\ Closing' = Closing
      BY <1>1, <2>1, <2>2 DEF Holders, HoldPcs, Closing
    <2>4. \A u \in Threads : /\ TearingDown(u)' = TearingDown(u)
                             /\ (pc[u] = "put2")' = (pc[u] = "put2")
      BY <1>1, <2>1, <2>2 DEF TearingDown
    <2>5. Base' = Base
      BY <2>1, <2>3 DEF Base
    <2>6. QED BY <2>1, <2>3, <2>4, <2>5 DEF RefInv
  <1>10. CASE \/ unsighndl(t) \/ del(t) \/ deldone(t)
              \/ FlushSome(t) \/ FlushEnd(t) \/ sockbase_exit(t)
    <2>1. TearingDown(t) /\ UNCHANGED <<ref, open, epipe>>
      BY <1>10 DEF unsighndl, del, deldone, FlushSome, FlushEnd, sockbase_exit,
         TearingDown
    <2>2. PICK x \in {"unsig_wait", "del_wait", "flush", "free", "idle"} :
             pc' = [pc EXCEPT ![t] = x]
      BY <1>1, <1>10 DEF unsighndl, del, deldone, FlushSome, FlushEnd, sockbase_exit
    <2>3. Holders' = Holders /\ Closing' = Closing
      BY <1>1, <2>1, <2>2 DEF Holders, HoldPcs, Closing, TearingDown
    <2>4. \A u \in Threads : /\ TearingDown(u)' => TearingDown(u)
                             /\ (pc[u] = "put2")' = (pc[u] = "put2")
      BY <1>1, <2>1, <2>2 DEF TearingDown
    <2>5. Base' = Base
      BY <2>1, <2>3 DEF Base
    <2>6. QED BY <2>1, <2>3, <2>4, <2>5 DEF RefInv
  <1>11. QED
    BY <1>4, <1>5, <1>6, <1>7, <1>8, <1>9, <1>10 DEF Call, Inside

\* No other step changes a reference.
LEMMA RefStep == TypeOK /\ RefInv /\ [Next]_vars => RefInv'
  <1> SUFFICES ASSUME TypeOK, RefInv, [Next]_vars PROVE RefInv'
    OBVIOUS
  <1>1. pc \in [Threads -> UserPcs]
    BY DEF TypeOK, UserOK
  <1>2. CASE Loop
    <2>1. UNCHANGED <<ref, open>> /\ (epipe => epipe')
      BY <1>2 DEF Loop, RunTasks, eventpoll_wait, Dispatch, ev_get_signals,
         ev_unsignal, try_disable_ev_read, try_enable_ev_read, bio_prefetch,
         rcv_msgbuf_head_add, ReadEnd, sio_lock_send, SendSome, SendEnd,
         sndhead_install_iovs, UnlockSend, SetEpipe
    <2>2. pc' = pc \/ pc' = Woken
      BY <1>2 DEF Loop, RunTasks, eventpoll_wait, Dispatch, ev_get_signals,
         ev_unsignal, try_disable_ev_read, try_enable_ev_read, bio_prefetch,
         rcv_msgbuf_head_add, ReadEnd, sio_lock_send, SendSome, SendEnd,
         sndhead_install_iovs, UnlockSend, SetEpipe
    <2>3. /\ Holders' = Holders /\ Closing' = Closing
          /\ \A t \in Threads : /\ (pc[t] = "put2")' = (pc[t] = "put2")
                                /\ TearingDown(t)' = TearingDown(t)
      <3>1. CASE pc' = pc
        BY <3>1 DEF Holders, Closing, TearingDown
      <3>2. CASE pc' = Woken
        BY <1>1, <3>2, WokenHolds
      <3>3. QED BY <2>2, <3>1, <3>2
    <2>4. Base' = Base
      BY <2>1, <2>3 DEF Base
    <2>5. QED BY <2>1, <2>3, <2>4 DEF RefInv
  <1>3. CASE UNCHANGED <<pc, ref, open, epipe>>
    BY <1>3 DEF RefInv, Holders, Closing, Base, TearingDown
  <1>4. Peer \/ UNCHANGED vars => UNCHANGED <<pc, ref, open, epipe>>
    BY PeerFrame DEF vars
  <1>5. QED BY <1>2, <1>3, <1>4, RefUser DEF Next

\* xget and xput count the threads inside; the last one out, and no other,
\* tears the socket down, after xclose has broken the connection.
THEOREM RefCorrect == Spec => []RefInv
  <1>1. Init => RefInv
    <2> SUFFICES ASSUME Init PROVE RefInv
      OBVIOUS
    <2>1. Holders = {} /\ Closing = {} /\ Base = 1
      BY DEF Init, Holders, HoldPcs, Closing, Base
    <2>2. QED BY <2>1, FS_EmptySet DEF Init, RefInv, TearingDown
  <1>2. QED BY <1>1, RefStep, TypeCorrect, PTL DEF Spec

----------------------------------------------------------------------------
(* No wakeup is lost.                                                      *)

\* A full queue stays full when a message is added.
LEMMA StaysFull ==
  ASSUME NEW q \in Seq(Out), NEW m \in Out, ~msgbuf_can_in(q)
  PROVE  ~msgbuf_can_in(Append(q, m))
  <1>1. q \in Seq(Msg) /\ m \in Msg
    BY DEF Msg
  <1>2. SizeOf(Append(q, m)) = SizeOf(q) + Usize[m]
    BY <1>1, SizeOfAppend
  <1>3. SizeOf(q) \in Nat /\ Usize[m] \in Nat /\ SndWnd \in Nat
    BY <1>1, SizeOfType, ConstAssumption
  <1>4. Append(q, m) # <<>>
    BY AppendProperties
  <1>5. QED BY <1>2, <1>3, <1>4 DEF msgbuf_can_in

\* A write that finished no message leaves the queue as it is.
LEMMA RestAll ==
  ASSUME NEW q \in Seq(Out), NEW w, w.n = 0
  PROVE  Rest(q, w) = q
  BY SubSeqFull DEF Rest

\* A socket that is torn down is broken.
LEMMA TornBroken ==
  ASSUME TypeOK, RefInv, NEW t \in Threads, TearingDown(t)
  PROVE  epipe /\ ref = 0
  <1>1. Cardinality(Holders) \in Nat
    BY FS_Subset, FS_CardinalityType, ConstAssumption DEF Holders
  <1>2. QED BY <1>1 DEF RefInv, Base

\* A user thread sleeps only when it must, and leaves no one asleep wrongly.
LEMMA WakeUser ==
  ASSUME TypeOK, RefInv, WaitInv, NoLostWakeup,
         NEW t \in Threads, Call(t) \/ Inside(t)
  PROVE  WaitInv' /\ NoLostWakeup'
  <1> USE DEF WaitInv, NoLostWakeup
  <1>1. /\ pc \in [Threads -> UserPcs] /\ snd \in Seq(Out)
        /\ pc[t] \in {"send", "send_woken"} => arg[t] \in Out
    BY DEF TypeOK, UserOK, SbOK
  <1>2. CASE SndWait(t)
    BY <1>1, <1>2 DEF SndWait
  <1>3. CASE RcvWait(t)
    BY <1>1, <1>3 DEF RcvWait
  <1>4. CASE snd_msgbuf_head_add(t)
    <2>1. /\ pc' = [pc EXCEPT ![t] = "ret"] /\ snd' = Append(snd, arg[t])
          /\ UNCHANGED <<rcv, epipe>> /\ pc[t] \in {"send", "send_woken"}
      BY <1>4 DEF snd_msgbuf_head_add
    <2>2. ~msgbuf_can_in(snd) => ~msgbuf_can_in(snd')
      BY <1>1, <2>1, StaysFull
    <2>3. (~msgbuf_can_in(snd))' = ~msgbuf_can_in(snd')
      OBVIOUS
    <2>4. QED BY <1>1, <2>1, <2>2
  <1>5. CASE rcv_msgbuf_head_rm(t)
    BY <1>1, <1>5 DEF rcv_msgbuf_head_rm
  <1>6. CASE __xclose(t)
    BY <1>1, <1>6 DEF __xclose, Woken
  <1>7. CASE FlushSome(t) \/ sockbase_exit(t)
    <2>1. epipe
      BY <1>7, TornBroken DEF FlushSome, sockbase_exit, TearingDown
    <2>2. \A u \in Threads : pc'[u] \notin {"send_wait", "recv_wait"}
      BY <1>1, <1>7, <2>1 DEF FlushSome, sockbase_exit
    <2>3. QED BY <2>2
  <1>8. CASE /\ UNCHANGED <<snd, rcv, epipe>>
             /\ \A u \in Threads : pc'[u] \in {"send_wait", "recv_wait"} => pc'[u] = pc[u]
    BY <1>8
  <1>9. QED
    BY <1>1, <1>2, <1>3, <1>4, <1>5, <1>6, <1>7, <1>8
    DEF Call, Inside, xsend, xrecv, xclose, xput, AfterPut, xcloseput,
        unsighndl, del, deldone, FlushEnd

\* The loop wakes every thread whose condition it makes true.
LEMMA WakeLoop ==
  ASSUME TypeOK, WaitInv, NoLostWakeup, Loop
  PROVE  WaitInv' /\ NoLostWakeup'
  <1> USE DEF WaitInv, NoLostWakeup
  <1>1. pc \in [Threads -> UserPcs] /\ snd \in Seq(Out)
    BY DEF TypeOK, UserOK, SbOK
  <1>2. CASE rcv_msgbuf_head_add
    BY <1>1, <1>2 DEF rcv_msgbuf_head_add, Woken, RcvWaiters
  <1>3. CASE sndhead_install_iovs
    <2>1. wrote.n = 0 => snd' = snd
      BY <1>1, <1>3, RestAll DEF sndhead_install_iovs
    <2>2. wrote.n # 0 => \A u \in Threads : pc'[u] # "send_wait"
      BY <1>1, <1>3 DEF sndhead_install_iovs, Woken, SndWaiters, TypeOK, LoopOK
    <2>3. \A u \in Threads : pc'[u] \in {"send_wait", "recv_wait"} => pc'[u] = pc[u]
      BY <1>1, <1>3 DEF sndhead_install_iovs, Woken
    <2>4. UNCHANGED <<rcv, epipe>>
      BY <1>3 DEF sndhead_install_iovs
    <2>5. QED BY <2>1, <2>2, <2>3, <2>4
  <1>4. CASE SetEpipe
    BY <1>1, <1>4 DEF SetEpipe, Woken, SndWaiters, RcvWaiters
  <1>5. CASE UNCHANGED <<pc, snd, rcv, epipe>>
    BY <1>5
  <1>6. QED
    BY <1>2, <1>3, <1>4, <1>5
    DEF Loop, RunTasks, eventpoll_wait, Dispatch, ev_get_signals, ev_unsignal,
        try_disable_ev_read, try_enable_ev_read, bio_prefetch, ReadEnd,
        sio_lock_send, SendSome, SendEnd, UnlockSend

\* No step leaves a thread asleep that could go on.
LEMMA WakeStep ==
  TypeOK /\ RefInv /\ WaitInv /\ NoLostWakeup /\ [Next]_vars
    => WaitInv' /\ NoLostWakeup'
  <1> SUFFICES ASSUME TypeOK, RefInv, WaitInv, NoLostWakeup, [Next]_vars
               PROVE  WaitInv' /\ NoLostWakeup'
    OBVIOUS
  <1>1. CASE Peer
    BY <1>1, PeerFrame DEF WaitInv, NoLostWakeup
  <1>2. CASE UNCHANGED vars
    BY <1>2 DEF vars, WaitInv, NoLostWakeup
  <1>3. QED BY <1>1, <1>2, WakeUser, WakeLoop DEF Next

\* Whatever the order of sends, receives, closes and the work of the loop, a
\* thread that sleeps has a reason to: no broadcast is missing.
THEOREM NoWakeupLost == Spec => [](WaitInv /\ NoLostWakeup)
  <1>1. Init => WaitInv /\ NoLostWakeup
    BY DEF Init, WaitInv, NoLostWakeup
  <1>2. QED BY <1>1, WakeStep, TypeCorrect, RefCorrect, PTL DEF Spec

----------------------------------------------------------------------------
(* The descriptors and the event loop.                                     *)

\* A thread tears down only what it has waited for the loop to forget.
LEMMA RegUser ==
  ASSUME TypeOK, RefInv, RegInv, NEW t \in Threads, Call(t) \/ Inside(t)
  PROVE  RegInv'
  <1> USE DEF RegInv
  <1>1. pc \in [Threads -> UserPcs]
    BY DEF TypeOK, UserOK
  <1>2. UNCHANGED <<reg, lpc, todo, back>>
    BY UserFrame
  <1>3. UNCHANGED <<InSig, InFd>>
    BY <1>2 DEF InSig, InFd
  <1>4. CASE unsighndl(t)
    <2>1. \A u \in Threads : TearingDown(u) => u = t
      BY <1>4 DEF RefInv, unsighndl, TearingDown
    <2>2. pc' = [pc EXCEPT ![t] = "unsig_wait"] /\ task' = {"sig"}
      BY <1>4 DEF unsighndl
    <2>3. QED BY <1>1, <1>2, <1>3, <2>1, <2>2 DEF TearingDown
  <1>5. CASE del(t)
    <2>1. \A u \in Threads : TearingDown(u) => u = t
      BY <1>5 DEF RefInv, del, TearingDown
    <2>2. /\ pc' = [pc EXCEPT ![t] = "del_wait"] /\ task' = {"fd"}
          /\ pc[t] = "unsig_wait" /\ task = {}
      BY <1>5 DEF del
    <2>3. QED BY <1>1, <1>2, <1>3, <2>1, <2>2 DEF TearingDown
  <1>6. CASE deldone(t)
    BY <1>1, <1>2, <1>3, <1>6 DEF deldone
  <1>7. CASE FlushEnd(t)
    BY <1>1, <1>2, <1>3, <1>7 DEF FlushEnd
  <1>8. CASE /\ UNCHANGED task
             /\ \A u \in Threads :
                  pc'[u] \in {"unsig_wait", "del_wait", "flush", "free"} => pc'[u] = pc[u]
    BY <1>2, <1>3, <1>8
  <1>9. QED
    BY <1>1, <1>4, <1>5, <1>6, <1>7, <1>8
    DEF Call, Inside, xsend, xrecv, xclose, SndWait, snd_msgbuf_head_add,
        RcvWait, rcv_msgbuf_head_rm, xput, AfterPut, __xclose, Woken,
        xcloseput, FlushSome, sockbase_exit

\* The loop dispatches and handles only what is registered.
LEMMA RegLoop ==
  ASSUME TypeOK, RegInv, Loop
  PROVE  RegInv'
  <1> USE DEF RegInv, InSig, InFd, HndlPcs
  <1>1. pc \in [Threads -> UserPcs] /\ back \in {"disp", "sig"} /\ lpc \in LoopPcs
    BY DEF TypeOK, UserOK, LoopOK
  <1>2. CASE RunTasks
    BY <1>1, <1>2 DEF RunTasks
  <1>3. CASE \/ eventpoll_wait \/ Dispatch \/ ev_get_signals \/ ev_unsignal
             \/ try_disable_ev_read \/ try_enable_ev_read \/ bio_prefetch
             \/ ReadEnd \/ sio_lock_send \/ SendSome \/ SendEnd \/ UnlockSend
    <2>1. UNCHANGED <<pc, reg, task>>
      BY <1>3 DEF eventpoll_wait, Dispatch, ev_get_signals, ev_unsignal,
         try_disable_ev_read, try_enable_ev_read, bio_prefetch, ReadEnd,
         sio_lock_send, SendSome, SendEnd, UnlockSend
    <2>2. /\ lpc' \in {"top", "wait"} => todo' = {}
          /\ lpc' \in {"read", "deser"} => back' = "disp"
          /\ InSig' \/ "sig" \in todo' => "sig" \in reg
          /\ InFd' \/ "fd" \in todo' => "fd" \in reg
      BY <1>1, <1>3 DEF eventpoll_wait, Dispatch, ev_get_signals, ev_unsignal,
         try_disable_ev_read, try_enable_ev_read, bio_prefetch, ReadEnd,
         sio_lock_send, SendSome, SendEnd, UnlockSend
    <2>3. QED BY <2>1, <2>2
  <1>4. CASE rcv_msgbuf_head_add \/ sndhead_install_iovs \/ SetEpipe
    <2>1. UNCHANGED <<reg, task, todo, back>>
      BY <1>4 DEF rcv_msgbuf_head_add, sndhead_install_iovs, SetEpipe
    <2>2. \A u \in Threads :
            pc'[u] \in {"unsig_wait", "del_wait", "flush", "free"} => pc'[u] = pc[u]
      BY <1>1, <1>4 DEF rcv_msgbuf_head_add, sndhead_install_iovs, SetEpipe, Woken
    <2>3. /\ lpc' \in {"top", "wait"} => todo' = {}
          /\ lpc' \in {"read", "deser"} => back' = "disp"
          /\ InSig' \/ "sig" \in todo' => "sig" \in reg
          /\ InFd' \/ "fd" \in todo' => "fd" \in reg
      BY <1>1, <1>4, <2>1 DEF rcv_msgbuf_head_add, sndhead_install_iovs, SetEpipe
    <2>4. QED BY <2>1, <2>2, <2>3
  <1>5. QED BY <1>2, <1>3, <1>4 DEF Loop

\* No step breaks the registration of the descriptors.
LEMMA RegStep == TypeOK /\ RefInv /\ RegInv /\ [Next]_vars => RegInv'
  <1> SUFFICES ASSUME TypeOK, RefInv, RegInv, [Next]_vars PROVE RegInv'
    OBVIOUS
  <1>1. CASE Peer
    BY <1>1, PeerFrame DEF RegInv, InSig, InFd
  <1>2. CASE UNCHANGED vars
    BY <1>2 DEF vars, RegInv, InSig, InFd
  <1>3. QED BY <1>1, <1>2, RegUser, RegLoop DEF Next

\* ev_fdset_unsighndl and EV_DEL wait until the loop has let go.
THEOREM RegCorrect == Spec => []RegInv
  <1>1. Init => RegInv
    BY DEF Init, RegInv, InSig, InFd, HndlPcs
  <1>2. QED BY <1>1, RegStep, TypeCorrect, RefCorrect, PTL DEF Spec

\* The thread that frees the socket is alone with it: no other thread is
\* inside, and the loop has no event of it to handle.
THEOREM TeardownSafe == Spec => []TeardownAlone
  <1>1. TypeOK /\ RefInv /\ RegInv /\ LockInv => TeardownAlone
    <2> SUFFICES ASSUME TypeOK, RefInv, RegInv, LockInv,
                        NEW t \in Threads, TearingDown(t)
                 PROVE  /\ ref = 0 /\ \A u \in Threads \ {t} : pc[u] = "idle"
                        /\ pc[t] \in {"flush", "free"} =>
                             lpc \in {"top", "wait", "disp"} /\ todo = {} /\ ~sendLock
      BY DEF TeardownAlone
    <2>1. Cardinality(Holders) \in Nat /\ IsFiniteSet(Holders)
      BY FS_Subset, FS_CardinalityType, ConstAssumption DEF Holders
    <2>2. ref = 0 /\ Holders = {}
      BY <2>1, FS_EmptySet DEF RefInv, Base
    <2>3. \A u \in Threads \ {t} : pc[u] = "idle"
      BY <2>2 DEF RefInv, Holders, HoldPcs, TearingDown, TypeOK, UserOK, UserPcs
    <2>4. ASSUME pc[t] \in {"flush", "free"}
          PROVE  lpc \in {"top", "wait", "disp"} /\ todo = {} /\ ~sendLock
      <3>1. "sig" \notin reg /\ "fd" \notin reg
        BY <2>4 DEF RegInv
      <3>2. ~InSig /\ ~InFd /\ todo = {}
        BY <3>1 DEF RegInv, TypeOK, LoopOK
      <3>3. QED BY <3>2 DEF InSig, InFd, HndlPcs, TypeOK, LoopOK, LoopPcs, LockInv
    <2>5. QED BY <2>2, <2>3, <2>4
  <1>2. QED BY <1>1, TypeCorrect, RefCorrect, RegCorrect, LockCorrect, PTL

----------------------------------------------------------------------------
(* The stream to the peer.                                                 *)

\* The fragments of a write: whole messages, and perhaps a first part of the next one.
LEMMA Written ==
  ASSUME NEW q \in Seq(Out), NEW w \in Writes(q)
  PROVE  /\ w.n \in 0 .. Len(q) /\ w.part \in BOOLEAN /\ Len(q) \in Nat
         /\ w.part => w.n < Len(q)
         /\ w.n > 0 \/ (w.part /\ ~part)
         /\ Len(Frags(q, w)) = IF w.part THEN w.n + 1 ELSE w.n
         /\ \A i \in 1 .. w.n : Frags(q, w)[i] = [msg |-> q[i], last |-> TRUE]
         /\ w.part => Frags(q, w)[w.n + 1] = [msg |-> q[w.n + 1], last |-> FALSE]
  <1> DEFINE whole == [i \in 1 .. w.n |-> [msg |-> q[i], last |-> TRUE]]
  <1>1. /\ w.n \in 0 .. Len(q) /\ w.part \in BOOLEAN /\ Len(q) \in Nat
        /\ (w.n > 0 \/ (w.part /\ ~part)) /\ (w.part => w.n < Len(q))
        /\ \A i \in 1 .. Len(q) : q[i] \in Out
    BY LenProperties DEF Writes
  <1>2. /\ whole \in Seq(Frag(Out)) /\ Len(whole) = w.n
        /\ \A i \in 1 .. w.n : whole[i] = [msg |-> q[i], last |-> TRUE]
    <2>1. \A i \in 1 .. w.n : [msg |-> q[i], last |-> TRUE] \in Frag(Out)
      BY <1>1 DEF Frag
    <2>2. QED BY <1>1, <2>1
  <1>3. CASE w.part
    <2> DEFINE x == [msg |-> q[w.n + 1], last |-> FALSE]
    <2>1. x \in Frag(Out)
      BY <1>1, <1>3 DEF Frag
    <2>2. Frags(q, w) = whole \o <<x>>
      BY <1>3 DEF Frags
    <2> HIDE DEF x, whole
    <2>3. Frags(q, w) = Append(whole, x)
      BY <1>2, <2>1, <2>2
    <2>4. /\ Len(Append(whole, x)) = w.n + 1 /\ \A i \in 1 .. w.n : Append(whole, x)[i] = whole[i]
          /\ Append(whole, x)[w.n + 1] = x
      BY <1>2, <2>1, AppendProperties
    <2>5. /\ Len(Frags(q, w)) = w.n + 1 /\ Frags(q, w)[w.n + 1] = x
          /\ \A i \in 1 .. w.n : Frags(q, w)[i] = [msg |-> q[i], last |-> TRUE]
      BY <1>2, <2>3, <2>4
    <2>6. QED BY <1>1, <1>3, <2>5 DEF x
  <1>4. CASE ~w.part
    <2> HIDE DEF whole
    <2>1. Frags(q, w) = whole \o <<>>
      BY <1>4 DEF Frags, whole
    <2>2. Frags(q, w) = whole
      BY <1>2, <2>1, ConcatEmptySeq
    <2>3. QED BY <1>1, <1>2, <1>4, <2>2
  <1>5. QED BY <1>1, <1>3, <1>4

LEMMA Finished ==
  ASSUME NEW x \in Frag(Out), NEW y \in Frag(Out), y.last, y.msg = x.msg
  PROVE  y = [x EXCEPT !.last = TRUE]
  BY DEF Frag

\* A write goes on where the stream ends.
LEMMA StreamWrite ==
  ASSUME TypeOK, StreamInv, link = "up", lpc # "install", NEW w \in Writes(snd),
         wout' = wout \o Frags(snd, w)
  PROVE  /\ \A i \in 1 .. Len(wout') - 1 : ~wout'[i].last => wout'[i+1] = [wout'[i] EXCEPT !.last = TRUE]
         /\ ~wout'[Len(wout')].last => w.part /\ snd[w.n + 1] = wout'[Len(wout')].msg
  <1> DEFINE f == Frags(snd, w)
  <1>1. /\ snd \in Seq(Out) /\ wout \in Seq(Frag(Out)) /\ Len(wout) \in Nat /\ part \in BOOLEAN
        /\ f \in Seq(Frag(Out))
    BY WriteType DEF TypeOK, SbOK, NetOK
  <1>2. /\ w.n \in Nat /\ w.part \in BOOLEAN /\ (w.n > 0 \/ (w.part /\ ~part))
        /\ Len(f) = IF w.part THEN w.n + 1 ELSE w.n
        /\ \A i \in 1 .. w.n : f[i] = [msg |-> snd[i], last |-> TRUE]
        /\ w.part => f[w.n + 1] = [msg |-> snd[w.n + 1], last |-> FALSE]
    <2>1. /\ w.n \in 0 .. Len(snd) /\ w.part \in BOOLEAN /\ Len(snd) \in Nat
          /\ (w.n > 0 \/ (w.part /\ ~part))
          /\ Len(f) = IF w.part THEN w.n + 1 ELSE w.n
          /\ \A i \in 1 .. w.n : f[i] = [msg |-> snd[i], last |-> TRUE]
          /\ w.part => f[w.n + 1] = [msg |-> snd[w.n + 1], last |-> FALSE]
      BY <1>1, Written
    <2>2. w.n \in Nat
      BY <2>1
    <2>3. QED BY <2>1, <2>2
  <1> HIDE DEF f
  <1>3. /\ Len(f) \in Nat \ {0} /\ \A i \in 1 .. w.n : f[i].last /\ f[i].msg = snd[i]
        /\ \A i \in 1 .. Len(f) : i \in 1 .. w.n \/ (i = Len(f) /\ w.part /\ i = w.n + 1)
        /\ w.part => f[w.n + 1].msg = snd[w.n + 1]
    <2>1. /\ \A i \in 1 .. w.n : f[i].last /\ f[i].msg = snd[i]
          /\ w.part => f[w.n + 1].msg = snd[w.n + 1]
      <3>1. ASSUME NEW i \in 1 .. w.n PROVE f[i].last /\ f[i].msg = snd[i]
        <4>1. f[i] = [msg |-> snd[i], last |-> TRUE]
          BY <1>2
        <4>2. f[i].last = TRUE
          BY <4>1
        <4>3. f[i].msg = snd[i]
          BY <4>1
        <4>4. QED BY <4>2, <4>3
      <3>2. ASSUME w.part PROVE f[w.n + 1].msg = snd[w.n + 1]
        <4>1. f[w.n + 1] = [msg |-> snd[w.n + 1], last |-> FALSE]
          BY <1>2, <3>2
        <4>2. QED BY <4>1
      <3>3. QED BY <3>1, <3>2
    <2>2. CASE w.part
      <3>1. Len(f) = w.n + 1
        BY <1>2, <2>2
      <3>2. Len(f) \in Nat \ {0} /\ \A i \in 1 .. Len(f) : i \in 1 .. w.n \/ i = Len(f)
        BY <1>2, <3>1
      <3>3. QED BY <2>1, <2>2, <3>1, <3>2
    <2>3. CASE ~w.part
      <3>1. Len(f) = w.n /\ w.n > 0
        BY <1>2, <2>3
      <3>2. QED BY <1>2, <2>1, <2>3, <3>1
    <2>4. QED BY <2>2, <2>3
  <1>4. /\ Len(wout') = Len(wout) + Len(f)
        /\ \A i \in 1 .. Len(wout) : wout'[i] = wout[i]
        /\ \A i \in 1 .. Len(f) : wout'[Len(wout) + i] = f[i]
    <2>1. wout' = wout \o f
      BY DEF f
    <2>2. QED BY <1>1, <2>1
  <1>5. ASSUME NEW i \in 1 .. Len(wout') - 1, ~wout'[i].last
        PROVE  wout'[i+1] = [wout'[i] EXCEPT !.last = TRUE]
    <2>1. CASE i < Len(wout)
      <3>1. i \in 1 .. Len(wout) - 1 /\ i \in 1 .. Len(wout) /\ i + 1 \in 1 .. Len(wout)
        BY <1>1, <2>1
      <3>2. ~wout[i].last /\ wout'[i] = wout[i] /\ wout'[i + 1] = wout[i + 1]
        BY <1>4, <1>5, <3>1
      <3>3. QED BY <3>1, <3>2 DEF StreamInv
    <2>2. CASE i = Len(wout)
      <3>1. wout # <<>> /\ ~wout[Len(wout)].last /\ wout'[i] = wout[i] /\ wout[i] \in Frag(Out)
        BY <1>1, <1>4, <1>5, <2>2
      <3>2. part /\ snd # <<>> /\ Head(snd) = wout[i].msg
        BY <2>2, <3>1 DEF StreamInv
      <3>3. w.n > 0 /\ snd[1] = Head(snd) /\ 1 \in 1 .. w.n /\ 1 \in 1 .. Len(f)
        BY <1>1, <1>2, <1>3, <3>2
      <3>4. wout'[i + 1] = f[1] /\ f[1].last /\ f[1].msg = wout[i].msg /\ f[1] \in Frag(Out)
        BY <1>1, <1>3, <1>4, <2>2, <3>2, <3>3
      <3>5. f[1] = [wout[i] EXCEPT !.last = TRUE]
        BY <3>1, <3>4, Finished
      <3>6. QED BY <3>1, <3>4, <3>5
    <2>3. CASE i > Len(wout)
      <3>1. PICK j \in 1 .. Len(f) : i = Len(wout) + j /\ j # Len(f)
        <4>1. i - Len(wout) \in 1 .. Len(f) /\ i = Len(wout) + (i - Len(wout)) /\ i - Len(wout) # Len(f)
          BY <1>1, <1>3, <1>4, <2>3
        <4>2. QED BY <4>1
      <3>2. wout'[i].last
        BY <1>3, <1>4, <3>1
      <3>3. QED BY <1>5, <3>2
    <2>4. i < Len(wout) \/ i = Len(wout) \/ i > Len(wout)
      BY <1>1, <1>3, <1>4
    <2>5. QED BY <2>1, <2>2, <2>3, <2>4
  <1>6. ASSUME ~wout'[Len(wout')].last PROVE w.part /\ snd[w.n + 1] = wout'[Len(wout')].msg
    <2>1. Len(f) \in 1 .. Len(f) /\ wout'[Len(wout')] = f[Len(f)]
      BY <1>3, <1>4
    <2>2. w.part /\ Len(f) = w.n + 1
      BY <1>3, <1>6, <2>1
    <2>3. QED BY <1>3, <2>1, <2>2
  <1>7. QED BY <1>5, <1>6

\* Nothing else disturbs the stream: it is cut at its beginning, and the send queue grows
\* at its end.
LEMMA StreamKept ==
  ASSUME TypeOK, StreamInv, UNCHANGED <<part, wrote>>,
         lpc = "install" <=> lpc' = "install",
         wout' = wout \/ (wout # <<>> /\ wout' = Tail(wout)),
         link' = link \/ link' = "down",
         snd' = snd \/ (\E m \in Out : snd' = Append(snd, m))
           \/ (link' = "down" /\ lpc' # "install")
  PROVE  StreamInv'
  <1>1. snd \in Seq(Out) /\ wout \in Seq(Frag(Out)) /\ wrote \in [n : Nat, part : BOOLEAN]
    BY DEF TypeOK, SbOK, LoopOK, NetOK
  <1>2. /\ \A i \in 1 .. Len(wout') - 1 : ~wout'[i].last => wout'[i+1] = [wout'[i] EXCEPT !.last = TRUE]
        /\ wout' # <<>> => wout # <<>> /\ wout'[Len(wout')] = wout[Len(wout)]
    <2>1. CASE wout' = wout
      BY <2>1 DEF StreamInv
    <2>2. CASE wout # <<>> /\ wout' = Tail(wout)
      <3>1. /\ Len(wout) \in Nat \ {0} /\ Len(wout') = Len(wout) - 1
            /\ \A i \in 1 .. Len(wout') : wout'[i] = wout[i + 1]
        BY <1>1, <2>2, HeadTailProperties, EmptySeq
      <3>2. ASSUME NEW i \in 1 .. Len(wout') - 1, ~wout'[i].last
            PROVE  wout'[i+1] = [wout'[i] EXCEPT !.last = TRUE]
        <4>1. /\ i \in 1 .. Len(wout') /\ i + 1 \in 1 .. Len(wout')
              /\ i + 1 \in 1 .. Len(wout) - 1
          BY <3>1
        <4>2. wout'[i] = wout[i + 1] /\ wout'[i + 1] = wout[(i + 1) + 1]
          BY <3>1, <4>1
        <4>3. QED BY <3>2, <4>1, <4>2 DEF StreamInv
      <3>3. ASSUME wout' # <<>> PROVE wout'[Len(wout')] = wout[Len(wout)]
        <4>1. wout' \in Seq(Frag(Out))
          BY <1>1, <2>2, HeadTailProperties
        <4>2. Len(wout') \in 1 .. Len(wout') /\ Len(wout') + 1 = Len(wout)
          BY <3>1, <3>3, <4>1, EmptySeq
        <4>3. QED BY <3>1, <4>2
      <3>4. QED BY <2>2, <3>2, <3>3
    <2>3. QED BY <2>1, <2>2
  <1>3. link' = "up" \/ lpc' = "install" =>
          /\ Len(snd') >= Len(snd) /\ \A i \in 1 .. Len(snd) : snd'[i] = snd[i]
          /\ snd # <<>> => snd' # <<>> /\ Head(snd') = Head(snd)
    <2>1. CASE snd' = snd
      BY <1>1, <2>1
    <2>2. ASSUME NEW m \in Out, snd' = Append(snd, m)
          PROVE  /\ Len(snd') >= Len(snd) /\ \A i \in 1 .. Len(snd) : snd'[i] = snd[i]
                 /\ snd # <<>> => snd' # <<>> /\ Head(snd') = Head(snd)
      BY <1>1, <2>2
    <2>3. QED BY <2>1, <2>2
  <1>4. lpc' = "install" => wrote'.n <= Len(snd') /\ (wrote'.part => wrote'.n < Len(snd'))
    <2>1. Len(snd) \in Nat /\ (lpc' = "install" => Len(snd') \in Nat)
      BY <1>1
    <2>2. QED BY <1>1, <1>3, <2>1 DEF StreamInv
  <1>5. ASSUME wout' # <<>>, ~wout'[Len(wout')].last, link' = "up"
        PROVE  IF lpc' = "install" THEN wrote'.part /\ snd'[wrote'.n + 1] = wout'[Len(wout')].msg
               ELSE part' /\ snd' # <<>> /\ Head(snd') = wout'[Len(wout')].msg
    <2>1. link = "up" /\ wout # <<>> /\ ~wout[Len(wout)].last /\ wout'[Len(wout')] = wout[Len(wout)]
      BY <1>2, <1>5
    <2>2. CASE lpc = "install"
      <3>1. wrote.part /\ snd[wrote.n + 1] = wout[Len(wout)].msg /\ wrote.n + 1 \in 1 .. Len(snd)
        BY <1>1, <2>1, <2>2 DEF StreamInv
      <3>2. QED BY <1>3, <1>5, <2>1, <2>2, <3>1
    <2>3. CASE lpc # "install"
      BY <1>3, <1>5, <2>1, <2>3 DEF StreamInv
    <2>4. QED BY <2>2, <2>3
  <1>6. QED BY <1>2, <1>4, <1>5 DEF StreamInv

\* sendmsg, and what it took leaving the send queue.
LEMMA StreamSend ==
  ASSUME TypeOK, StreamInv, SendSome
  PROVE  StreamInv'
  <1>1. PICK w \in Writes(snd) : wout' = wout \o Frags(snd, w) /\ wrote' = w
    BY DEF SendSome
  <1>2. lpc = "write" /\ lpc' = "install" /\ link = "up" /\ UNCHANGED <<snd, part, link>>
    BY DEF SendSome
  <1>3. /\ \A i \in 1 .. Len(wout') - 1 : ~wout'[i].last => wout'[i+1] = [wout'[i] EXCEPT !.last = TRUE]
        /\ ~wout'[Len(wout')].last => w.part /\ snd[w.n + 1] = wout'[Len(wout')].msg
    BY <1>1, <1>2, StreamWrite
  <1>4. w.n <= Len(snd) /\ (w.part => w.n < Len(snd))
    <2>1. snd \in Seq(Out)
      BY DEF TypeOK, SbOK
    <2>2. w.n \in 0 .. Len(snd) /\ (w.part => w.n < Len(snd)) /\ Len(snd) \in Nat
      BY <2>1, Written
    <2>3. QED BY <2>2
  <1>5. QED BY <1>1, <1>2, <1>3, <1>4 DEF StreamInv

LEMMA StreamInstall ==
  ASSUME TypeOK, StreamInv, sndhead_install_iovs
  PROVE  StreamInv'
  <1>1. /\ lpc = "install" /\ lpc' = "write" /\ snd' = Rest(snd, wrote) /\ part' = wrote.part
        /\ UNCHANGED <<wout, link>>
    BY DEF sndhead_install_iovs
  <1>2. /\ snd \in Seq(Out) /\ wrote.n \in Nat /\ wrote.part \in BOOLEAN /\ Len(snd) \in Nat
        /\ wrote.n <= Len(snd) /\ (wrote.part => wrote.n < Len(snd))
    BY <1>1 DEF TypeOK, SbOK, LoopOK, StreamInv
  <1>3. wrote.part => snd' # <<>> /\ Head(snd') = snd[wrote.n + 1]
    BY <1>1, <1>2 DEF Rest
  <1>4. QED BY <1>1, <1>2, <1>3 DEF StreamInv

\* The write of the thread that closes, which the loop cannot disturb.
LEMMA StreamFlush ==
  ASSUME TypeOK, TeardownAlone, StreamInv, NEW t \in Threads, FlushSome(t)
  PROVE  StreamInv'
  <1>1. PICK w \in Writes(snd) :
          wout' = wout \o Frags(snd, w) /\ snd' = Rest(snd, w) /\ part' = w.part
    BY DEF FlushSome
  <1>2. link = "up" /\ UNCHANGED <<lpc, link>> /\ lpc # "install"
    BY DEF FlushSome, TeardownAlone, TearingDown
  <1>3. /\ \A i \in 1 .. Len(wout') - 1 : ~wout'[i].last => wout'[i+1] = [wout'[i] EXCEPT !.last = TRUE]
        /\ ~wout'[Len(wout')].last => w.part /\ snd[w.n + 1] = wout'[Len(wout')].msg
    BY <1>1, <1>2, StreamWrite
  <1>4. snd \in Seq(Out) /\ w.n \in Nat /\ Len(snd) \in Nat /\ (w.part => w.n < Len(snd))
    <2>1. snd \in Seq(Out)
      BY DEF TypeOK, SbOK
    <2>2. w.n \in 0 .. Len(snd) /\ (w.part => w.n < Len(snd)) /\ Len(snd) \in Nat
      BY <2>1, Written
    <2>3. QED BY <2>1, <2>2
  <1>5. w.part => snd' # <<>> /\ Head(snd') = snd[w.n + 1]
    BY SMTT(60), <1>1, <1>4 DEF Rest
  <1>6. QED BY <1>1, <1>2, <1>3, <1>5 DEF StreamInv

LEMMA StreamStep == TypeOK /\ TeardownAlone /\ StreamInv /\ [Next]_vars => StreamInv'
  <1> SUFFICES ASSUME TypeOK, TeardownAlone, StreamInv, [Next]_vars PROVE StreamInv'
    OBVIOUS
  <1>1. ASSUME NEW t \in Threads, Call(t) \/ Inside(t) PROVE StreamInv'
    <2>1. UNCHANGED <<lpc, wrote>>
      BY <1>1, UserFrame
    <2>2. CASE snd_msgbuf_head_add(t)
      <3>1. arg[t] \in Out /\ snd' = Append(snd, arg[t]) /\ UNCHANGED <<part, wout, link>>
        BY <2>2 DEF snd_msgbuf_head_add, TypeOK, UserOK
      <3>2. QED BY <2>1, <3>1, StreamKept
    <2>3. CASE FlushSome(t)
      BY <2>3, StreamFlush
    <2>4. CASE sockbase_exit(t)
      <3>1. lpc # "install" /\ link' = "down" /\ UNCHANGED wout
        BY <2>4 DEF sockbase_exit, TeardownAlone, TearingDown
      <3>2. QED BY <2>1, <3>1 DEF StreamInv
    <2>5. CASE UNCHANGED <<snd, part, wout, link>>
      BY <2>1, <2>5, StreamKept
    <2>6. QED
      BY <1>1, <2>2, <2>3, <2>4, <2>5
      DEF Call, Inside, xsend, xrecv, xclose, SndWait, RcvWait, rcv_msgbuf_head_rm, xput,
          __xclose, xcloseput, unsighndl, del, deldone, FlushEnd
  <1>2. CASE Loop
    <2>1. CASE SendSome
      BY <2>1, StreamSend
    <2>2. CASE sndhead_install_iovs
      BY <2>2, StreamInstall
    <2>3. CASE UNCHANGED <<snd, part, wout, link, wrote>> /\ lpc # "install" /\ lpc' # "install"
      BY <2>3, StreamKept
    <2>4. back # "install"
      BY DEF TypeOK, LoopOK
    <2>5. QED
      BY <1>2, <2>1, <2>2, <2>3, <2>4
      DEF Loop, RunTasks, eventpoll_wait, Dispatch, ev_get_signals, ev_unsignal,
          try_disable_ev_read, try_enable_ev_read, bio_prefetch, rcv_msgbuf_head_add, ReadEnd,
          sio_lock_send, SendEnd, UnlockSend, SetEpipe
  <1>3. CASE Peer
    BY <1>3, PeerFrame, StreamKept DEF Peer, PeerTake, PeerPut, PeerClose
  <1>4. CASE UNCHANGED vars
    BY <1>4, StreamKept DEF vars
  <1>5. QED BY <1>1, <1>2, <1>3, <1>4 DEF Next

\* What goes to the peer it can parse: after the first part of a message comes the rest,
\* whoever writes it, and until then the message stays next in the send queue.
THEOREM StreamCorrect == Spec => [](StreamInv /\ StreamIntact)
  <1>1. Init => StreamInv
    BY DEF Init, StreamInv
  <1>2. TypeOK /\ StreamInv => StreamIntact
    <2> SUFFICES ASSUME TypeOK, StreamInv, NEW i \in 1 .. Len(wout), ~wout[i].last
                 PROVE  IF i < Len(wout)
                        THEN wout[i+1] = [wout[i] EXCEPT !.last = TRUE]
                        ELSE \/ link = "down"
                             \/ part /\ snd # <<>> /\ Head(snd) = wout[i].msg
                             \/ /\ lpc = "install" /\ wrote.part
                                /\ snd[wrote.n + 1] = wout[i].msg
      BY DEF StreamIntact
    <2>1. wout \in Seq(Frag(Out)) /\ Len(wout) \in Nat /\ link \in {"up", "down"}
      BY DEF TypeOK, NetOK
    <2>2. CASE i < Len(wout)
      BY <2>1, <2>2 DEF StreamInv
    <2>3. CASE i = Len(wout) /\ link = "up"
      <3>1. wout # <<>>
        BY <2>1, <2>3
      <3>2. IF lpc = "install" THEN wrote.part /\ snd[wrote.n + 1] = wout[i].msg
            ELSE part /\ snd # <<>> /\ Head(snd) = wout[i].msg
        BY <2>3, <3>1 DEF StreamInv
      <3>3. QED BY <2>3, <3>2
    <2>4. QED BY <2>1, <2>2, <2>3
  <1>3. QED BY <1>1, <1>2, StreamStep, TypeCorrect, TeardownSafe, PTL DEF Spec

----------------------------------------------------------------------------
(* The event descriptor.                                                   *)

\* A thread that queues a signal finds or makes the descriptor readable.
LEMMA EfdUser ==
  ASSUME TypeOK, RegInv, EfdInv, NEW t \in Threads, Call(t) \/ Inside(t)
  PROVE  EfdInv'
  <1> USE DEF EfdInv, SignalsReadable
  <1>1. sig \in Seq(Signals) /\ efd \in Nat
    BY DEF TypeOK, SbOK
  <1>2. UNCHANGED <<lpc, todo, back, InSig>>
    BY UserFrame DEF InSig
  <1>3. CASE \E s \in Signals : ev_signal(s)
    <2>1. lpc = "unsig" => InSig
      BY DEF InSig
    <2>2. QED BY <1>1, <1>2, <1>3, <2>1 DEF ev_signal
  <1>4. CASE sockbase_exit(t)
    <2>1. ~InSig /\ "sig" \notin todo
      BY <1>4 DEF sockbase_exit, RegInv
    <2>2. sig' = <<>> /\ efd' = 0
      BY <1>4 DEF sockbase_exit
    <2>3. QED BY <1>2, <2>1, <2>2
  <1>5. CASE UNCHANGED <<sig, efd>>
    BY <1>2, <1>5
  <1>6. snd_msgbuf_head_add(t) \/ rcv_msgbuf_head_rm(t)
          => (\E s \in Signals : ev_signal(s)) \/ UNCHANGED <<sig, efd>>
    BY DEF snd_msgbuf_head_add, rcv_msgbuf_head_rm, Signals
  <1>7. QED
    BY <1>3, <1>4, <1>5, <1>6
    DEF Call, Inside, xsend, xrecv, xclose, SndWait, RcvWait, xput, __xclose,
        xcloseput, unsighndl, del, deldone, FlushSome, FlushEnd

\* The loop never drains the descriptor below a signal still queued.
LEMMA EfdLoop ==
  ASSUME TypeOK, RegInv, EfdInv, Loop
  PROVE  EfdInv'
  <1> USE DEF EfdInv, SignalsReadable, InSig, HndlPcs
  <1>1. /\ sig \in Seq(Signals) /\ efd \in Nat /\ back \in {"disp", "sig"}
        /\ lpc \in LoopPcs
    BY DEF TypeOK, SbOK, LoopOK
  <1>2. CASE rcv_msgbuf_head_add
    <2>1. UNCHANGED <<lpc, todo, back>> /\ lpc = "deser"
      BY <1>2 DEF rcv_msgbuf_head_add
    <2>2. ev_signal("RCVBUF_FULL") \/ UNCHANGED <<sig, efd>>
      BY <1>2 DEF rcv_msgbuf_head_add
    <2>3. QED BY <1>1, <2>1, <2>2 DEF ev_signal
  <1>3. CASE eventpoll_wait
    BY <1>1, <1>3 DEF eventpoll_wait, RegInv
  <1>4. CASE Dispatch
    BY <1>1, <1>4 DEF Dispatch
  <1>5. CASE ev_get_signals
    BY <1>1, <1>5 DEF ev_get_signals
  <1>6. CASE ev_unsignal
    BY <1>1, <1>6 DEF ev_unsignal
  <1>7. CASE \/ RunTasks \/ bio_prefetch \/ ReadEnd \/ try_disable_ev_read
             \/ try_enable_ev_read \/ sio_lock_send \/ SendSome \/ SendEnd
             \/ sndhead_install_iovs \/ UnlockSend \/ SetEpipe
    <2>1. UNCHANGED <<sig, efd, todo>> /\ lpc # "unsig" /\ lpc' # "unsig"
      BY <1>1, <1>7 DEF RunTasks, bio_prefetch, ReadEnd, try_disable_ev_read,
         try_enable_ev_read, sio_lock_send, SendSome, SendEnd,
         sndhead_install_iovs, UnlockSend, SetEpipe
    <2>2. InSig' => InSig
      BY <1>1, <1>7 DEF RunTasks, bio_prefetch, ReadEnd, try_disable_ev_read,
         try_enable_ev_read, sio_lock_send, SendSome, SendEnd,
         sndhead_install_iovs, UnlockSend, SetEpipe, RegInv
    <2> HIDE DEF InSig
    <2>3. QED BY <2>1, <2>2
  <1>8. QED BY <1>2, <1>3, <1>4, <1>5, <1>6, <1>7 DEF Loop

\* No step leaves a queued signal behind an unreadable descriptor.
LEMMA EfdStep == TypeOK /\ RegInv /\ EfdInv /\ [Next]_vars => EfdInv'
  <1> SUFFICES ASSUME TypeOK, RegInv, EfdInv, [Next]_vars PROVE EfdInv'
    OBVIOUS
  <1>1. CASE Peer
    BY <1>1, PeerFrame DEF EfdInv, SignalsReadable, InSig
  <1>2. CASE UNCHANGED vars
    BY <1>2 DEF vars, EfdInv, SignalsReadable, InSig
  <1>3. QED BY <1>1, <1>2, EfdUser, EfdLoop DEF Next

\* The event descriptor holds a word whenever a signal is queued or the loop
\* is handling one (ev_signal, ev_get_signals and ev_unsignal together).
THEOREM EfdCorrect == Spec => []EfdInv
  <1>1. Init => EfdInv
    BY DEF Init, EfdInv, SignalsReadable, InSig, HndlPcs
  <1>2. QED BY <1>1, EfdStep, TypeCorrect, RegCorrect, PTL DEF Spec

\* ev_signal writes the descriptor only when the queue was empty, and the loop
\* drains it in a step of its own; still no signal waits behind an empty one.
THEOREM SignalsSeen == Spec => []SignalsReadable
  <1>1. EfdInv => SignalsReadable
    BY DEF EfdInv
  <1>2. QED BY <1>1, EfdCorrect, PTL

----------------------------------------------------------------------------
(* Flow control of the receive side.                                       *)

\* A receive queue below its window: what a message added or taken changes.
LEMMA RcvGrows ==
  ASSUME rcv \in Seq(In), NEW m \in In, RcvFull(rcv)
  PROVE  RcvFull(Append(rcv, m))
  <1>1. rcv \in Seq(Msg) /\ m \in Msg
    BY DEF Msg
  <1>2. /\ SizeOf(Append(rcv, m)) = SizeOf(rcv) + Usize[m]
        /\ SizeOf(rcv) \in Nat /\ Usize[m] \in Nat /\ RcvWnd \in Nat
    BY <1>1, SizeOfAppend, SizeOfType, ConstAssumption
  <1>3. QED BY <1>2 DEF RcvFull

\* A queue still full after a message is taken was full before.
LEMMA RcvShrinks ==
  ASSUME rcv \in Seq(In), rcv # <<>>, RcvFull(Tail(rcv))
  PROVE  RcvFull(rcv)
  <1>1. rcv \in Seq(Msg) /\ Head(rcv) \in Msg /\ Tail(rcv) \in Seq(Msg)
    BY HeadTailProperties DEF Msg
  <1>2. /\ SizeOf(rcv) = Usize[Head(rcv)] + SizeOf(Tail(rcv))
        /\ SizeOf(Tail(rcv)) \in Nat /\ Usize[Head(rcv)] \in Nat /\ RcvWnd \in Nat
    BY <1>1, SizeOfTail, SizeOfType, ConstAssumption
  <1>3. QED BY <1>2 DEF RcvFull

\* The signal that tells the present state of the queue is the last of its kind.
LEMMA MarkAppended ==
  ASSUME sig \in Seq(Signals), sig' = Append(sig, Mark(RcvFull(rcv))')
  PROVE  MarkQueued'
  <1>1. /\ Len(sig) \in Nat /\ Len(sig') = Len(sig) + 1
        /\ sig'[Len(sig) + 1] = Mark(RcvFull(rcv))'
    BY AppendProperties, LenProperties
  <1>2. QED BY <1>1 DEF MarkQueued

\* EV_SNDBUF_ADD says nothing about the receive queue.
LEMMA AddAppended ==
  ASSUME sig \in Seq(Signals), sig' = Append(sig, "SNDBUF_ADD"), UNCHANGED rcv
  PROVE  /\ MarkQueued => MarkQueued'
         /\ NoMarkQueued => NoMarkQueued'
  <1>1. /\ Len(sig) \in Nat /\ Len(sig') = Len(sig) + 1
        /\ sig'[Len(sig) + 1] = "SNDBUF_ADD"
        /\ \A i \in 1..Len(sig) : sig'[i] = sig[i]
    BY AppendProperties, LenProperties
  <1>2. Mark(RcvFull(rcv))' = Mark(RcvFull(rcv))
    BY DEF Mark, RcvFull
  <1>3. QED BY <1>1, <1>2 DEF MarkQueued, NoMarkQueued

\* Taking the first signal.
LEMMA MarkTaken ==
  ASSUME sig \in Seq(Signals), sig # <<>>, sig' = Tail(sig), UNCHANGED rcv
  PROVE  /\ MarkQueued => \/ MarkQueued'
                          \/ Head(sig) = Mark(RcvFull(rcv)) /\ NoMarkQueued'
         /\ NoMarkQueued => Head(sig) = "SNDBUF_ADD" /\ NoMarkQueued'
  <1>1. /\ Len(sig) \in Nat /\ Len(sig') = Len(sig) - 1 /\ Len(sig) > 0
        /\ Head(sig) = sig[1]
        /\ \A i \in 1..Len(sig') : sig'[i] = sig[i + 1]
    BY HeadTailProperties, LenProperties, EmptySeq
  <1>2. Mark(RcvFull(rcv))' = Mark(RcvFull(rcv))
    BY DEF Mark, RcvFull
  <1>3. ASSUME MarkQueued
        PROVE  MarkQueued' \/ (Head(sig) = Mark(RcvFull(rcv)) /\ NoMarkQueued')
    <2>1. PICK i \in 1..Len(sig) : /\ sig[i] = Mark(RcvFull(rcv))
                                   /\ \A j \in i+1..Len(sig) : sig[j] = "SNDBUF_ADD"
      BY <1>3 DEF MarkQueued
    <2>2. CASE i = 1
      <3>1. \A j \in 1..Len(sig') : sig'[j] = "SNDBUF_ADD"
        BY <1>1, <2>1, <2>2
      <3>2. QED BY <1>1, <2>1, <2>2, <3>1 DEF NoMarkQueued
    <2>3. CASE i # 1
      <3>1. i - 1 \in 1..Len(sig') /\ sig'[i - 1] = Mark(RcvFull(rcv))'
        BY <1>1, <1>2, <2>1, <2>3
      <3>2. \A j \in (i - 1)+1..Len(sig') : sig'[j] = "SNDBUF_ADD"
        BY <1>1, <2>1, <2>3
      <3>3. QED BY <3>1, <3>2 DEF MarkQueued
    <2>4. QED BY <2>2, <2>3
  <1>4. ASSUME NoMarkQueued PROVE Head(sig) = "SNDBUF_ADD" /\ NoMarkQueued'
    BY <1>1, <1>4 DEF NoMarkQueued
  <1>5. QED BY <1>3, <1>4

\* A receiver that makes room signals it, and no user thread fills the queue.
LEMMA ReadUser ==
  ASSUME TypeOK, RefInv, ReadMatchesWindow, NEW t \in Threads, Call(t) \/ Inside(t)
  PROVE  ReadMatchesWindow'
  <1> SUFFICES ASSUME RcvWnd > 0, ref' > 0
               PROVE  MarkQueued' \/ (NoMarkQueued' /\ MarkApplied')
    BY DEF ReadMatchesWindow
  <1>1. UNCHANGED <<evr, lpc>>
    BY UserFrame
  <1>2. sig \in Seq(Signals) /\ rcv \in Seq(In) /\ ref \in Int
    BY DEF TypeOK, SbOK, UserOK
  <1>3. ref > 0
    <2>1. CASE ref' = ref \/ xput(t) \/ xcloseput(t)
      BY <1>2, <2>1 DEF xput, xcloseput
    <2>2. CASE xsend(t) \/ xrecv(t)
      BY <2>2 DEF xsend, xrecv
    <2>3. CASE xclose(t)
      <3>1. Base = 1
        BY <2>3 DEF xclose, Base
      <3>2. Cardinality(Holders) \in Nat
        BY FS_Subset, FS_CardinalityType, ConstAssumption DEF Holders
      <3>3. QED BY <3>1, <3>2 DEF RefInv
    <2>4. QED
      BY <1>2, <2>1, <2>2, <2>3
      DEF Call, Inside, SndWait, snd_msgbuf_head_add, RcvWait,
          rcv_msgbuf_head_rm, __xclose, unsighndl, del, deldone, FlushSome,
          FlushEnd, sockbase_exit
  <1>4. MarkQueued \/ (NoMarkQueued /\ MarkApplied)
    BY <1>3 DEF ReadMatchesWindow
  <1>5. CASE UNCHANGED <<rcv, sig>>
    BY <1>1, <1>4, <1>5 DEF MarkQueued, NoMarkQueued, MarkApplied, RcvFull
  <1>6. CASE snd_msgbuf_head_add(t)
    <2>1. UNCHANGED rcv
      BY <1>6 DEF snd_msgbuf_head_add
    <2>2. MarkApplied => MarkApplied'
      BY <1>1, <2>1 DEF MarkApplied, RcvFull
    <2>3. UNCHANGED sig \/ sig' = Append(sig, "SNDBUF_ADD")
      BY <1>6 DEF snd_msgbuf_head_add, ev_signal
    <2>4. QED BY <1>2, <1>4, <1>5, <2>1, <2>2, <2>3, AddAppended
  <1>7. CASE rcv_msgbuf_head_rm(t) /\ rcv # <<>>
    <2>1. rcv' = Tail(rcv)
      BY <1>7 DEF rcv_msgbuf_head_rm
    <2>2. CASE RcvFull(Tail(rcv))
      <3>1. RcvFull(rcv) /\ RcvFull(rcv') /\ sig' = sig
        BY <1>2, <1>7, <2>1, <2>2, RcvShrinks DEF rcv_msgbuf_head_rm
      <3>2. Mark(RcvFull(rcv))' = Mark(RcvFull(rcv))
        BY <3>1 DEF Mark
      <3>3. QED BY <1>1, <1>4, <3>1, <3>2 DEF MarkQueued, NoMarkQueued, MarkApplied
    <2>3. CASE ~RcvFull(Tail(rcv))
      <3>1. sig' = Append(sig, "RCVBUF_NONFULL")
        BY <1>7, <2>3 DEF rcv_msgbuf_head_rm, ev_signal
      <3>2. Mark(RcvFull(rcv))' = "RCVBUF_NONFULL"
        BY <2>1, <2>3 DEF Mark
      <3>3. QED BY <1>2, <3>1, <3>2, MarkAppended
    <2>4. QED BY <2>2, <2>3
  <1>8. CASE sockbase_exit(t)
    <2>1. ref = 0
      BY <1>8, TornBroken DEF sockbase_exit, TearingDown
    <2>2. QED BY <1>3, <2>1
  <1>9. QED
    BY <1>5, <1>6, <1>7, <1>8
    DEF Call, Inside, xsend, xrecv, xclose, SndWait, RcvWait,
        rcv_msgbuf_head_rm, xput, __xclose, xcloseput, unsighndl, del,
        deldone, FlushSome, FlushEnd

\* The loop applies the marks in order, and adds one when the queue fills.
LEMMA ReadLoop ==
  ASSUME TypeOK, ReadMatchesWindow, Loop
  PROVE  ReadMatchesWindow'
  <1> SUFFICES ASSUME RcvWnd > 0, ref' > 0
               PROVE  MarkQueued' \/ (NoMarkQueued' /\ MarkApplied')
    BY DEF ReadMatchesWindow
  <1>1. MarkQueued \/ (NoMarkQueued /\ MarkApplied)
    BY LoopFrame DEF ReadMatchesWindow
  <1>2. /\ sig \in Seq(Signals) /\ rcv \in Seq(In) /\ rbuf \in Seq(Frag(In))
        /\ back \in {"disp", "sig"} /\ evr \in BOOLEAN
    BY DEF TypeOK, SbOK, NetOK, LoopOK
  <1>3. CASE rcv_msgbuf_head_add
    <2>1. PICK m \in In : rcv' = Append(rcv, m)
      BY <1>2, <1>3, DeserType DEF rcv_msgbuf_head_add
    <2>2. UNCHANGED <<lpc, evr>>
      BY <1>3 DEF rcv_msgbuf_head_add
    <2>3. CASE RcvFull(rcv')
      <3>1. sig' = Append(sig, "RCVBUF_FULL")
        BY <1>3, <2>3 DEF rcv_msgbuf_head_add, ev_signal
      <3>2. Mark(RcvFull(rcv))' = "RCVBUF_FULL"
        BY <2>3 DEF Mark
      <3>3. QED BY <1>2, <3>1, <3>2, MarkAppended
    <2>4. CASE ~RcvFull(rcv')
      <3>1. ~RcvFull(rcv) /\ sig' = sig
        BY <1>2, <1>3, <2>1, <2>4, RcvGrows DEF rcv_msgbuf_head_add
      <3>2. Mark(RcvFull(rcv))' = Mark(RcvFull(rcv))
        BY <2>4, <3>1 DEF Mark
      <3>3. QED
        BY <1>1, <2>2, <2>4, <3>1, <3>2 DEF MarkQueued, NoMarkQueued, MarkApplied
    <2>5. QED BY <2>3, <2>4
  <1>4. CASE ev_get_signals /\ sig # <<>>
    <2>1. /\ sig' = Tail(sig) /\ UNCHANGED <<rcv, evr>> /\ lpc = "sig"
          /\ \/ Head(sig) = "SNDBUF_ADD" /\ lpc' = "lock"
             \/ Head(sig) = "RCVBUF_FULL" /\ lpc' = "full"
             \/ Head(sig) = "RCVBUF_NONFULL" /\ lpc' = "nonfull"
      BY <1>4 DEF ev_get_signals
    <2>2. RcvFull(rcv') <=> RcvFull(rcv)
      BY <2>1
    <2>3. CASE MarkQueued
      <3>1. MarkQueued' \/ (Head(sig) = Mark(RcvFull(rcv)) /\ NoMarkQueued')
        BY <1>2, <1>4, <2>1, <2>3, MarkTaken
      <3>2. Head(sig) = Mark(RcvFull(rcv)) => MarkApplied'
        BY <2>1, <2>2 DEF Mark, MarkApplied
      <3>3. QED BY <3>1, <3>2
    <2>4. CASE NoMarkQueued /\ MarkApplied
      <3>1. Head(sig) = "SNDBUF_ADD" /\ NoMarkQueued'
        BY <1>2, <1>4, <2>1, <2>4, MarkTaken
      <3>2. MarkApplied'
        BY <2>1, <2>2, <2>4, <3>1 DEF MarkApplied
      <3>3. QED BY <3>1, <3>2
    <2>5. QED BY <1>1, <2>3, <2>4
  <1>5. CASE UNCHANGED <<rcv, sig>> /\ (MarkApplied => MarkApplied')
    BY <1>1, <1>5 DEF MarkQueued, NoMarkQueued
  <1>6. CASE try_disable_ev_read \/ try_enable_ev_read
    <2>1. MarkApplied => MarkApplied'
      BY <1>6 DEF try_disable_ev_read, try_enable_ev_read, MarkApplied, RcvFull
    <2>2. UNCHANGED <<rcv, sig>>
      BY <1>6 DEF try_disable_ev_read, try_enable_ev_read
    <2>3. QED BY <1>5, <2>1, <2>2
  <1>7. CASE /\ UNCHANGED <<rcv, sig, evr>>
             /\ lpc \notin {"full", "nonfull"} /\ lpc' \notin {"full", "nonfull"}
    BY <1>5, <1>7 DEF MarkApplied, RcvFull
  <1>8. QED
    BY <1>2, <1>3, <1>4, <1>6, <1>7
    DEF Loop, RunTasks, eventpoll_wait, Dispatch, ev_get_signals, ev_unsignal,
        bio_prefetch, ReadEnd, sio_lock_send, SendSome, SendEnd,
        sndhead_install_iovs, UnlockSend, SetEpipe

\* No step lets EV_READ disagree with the window for good.
LEMMA ReadStep ==
  TypeOK /\ RefInv /\ ReadMatchesWindow /\ [Next]_vars => ReadMatchesWindow'
  <1> SUFFICES ASSUME TypeOK, RefInv, ReadMatchesWindow, [Next]_vars
               PROVE  ReadMatchesWindow'
    OBVIOUS
  <1>1. CASE Peer \/ UNCHANGED vars
    <2>1. UNCHANGED <<ref, rcv, sig, evr, lpc>>
      BY <1>1, PeerFrame DEF vars
    <2>2. QED BY <2>1 DEF ReadMatchesWindow, MarkQueued, NoMarkQueued, MarkApplied, RcvFull
  <1>2. QED BY <1>1, ReadUser, ReadLoop DEF Next

\* EV_READ follows the receive window: the loop has applied the last of the
\* FULL and NONFULL signals, or will, and that one tells the present state.
THEOREM ReadFollowsWindow == Spec => []ReadMatchesWindow
  <1>1. Init => ReadMatchesWindow
    <2> SUFFICES ASSUME Init, RcvWnd > 0 PROVE NoMarkQueued /\ MarkApplied
      BY DEF ReadMatchesWindow
    <2>1. ~RcvFull(rcv)
      BY SizeOfEmpty, ConstAssumption DEF Init, RcvFull
    <2>2. sig = <<>> /\ evr = TRUE /\ lpc = "top"
      BY DEF Init
    <2>3. QED BY <2>1, <2>2, EmptySeq DEF NoMarkQueued, MarkApplied
  <1>2. QED BY <1>1, ReadStep, TypeCorrect, RefCorrect, PTL DEF Spec

\* The invariant that holds all of these together.
THEOREM IInvCorrect == Spec => []IInv
  BY TypeCorrect, RefCorrect, RegCorrect, EfdCorrect, LockCorrect, NoWakeupLost,
     NoSendStranded, ReadFollowsWindow, StreamCorrect, PTL DEF IInv
=============================================================================
