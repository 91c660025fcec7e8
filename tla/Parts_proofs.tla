----------------------------- MODULE Parts_proofs -----------------------------
(* Theorems about Mix, Rex, Options and List: the mixed listener, the      *)
(* sockets of the portability layer, the options, and the linked lists.    *)
EXTENDS Mix, Rex, Options, List, SequenceTheorems, WellFoundedInduction, FiniteSetTheorems, TLAPS

LEMMA RangeEmpty == Range(<<>>) = {}
  BY DEF Range

LEMMA RangeSeq ==
  ASSUME NEW S, NEW s \in Seq(S)
  PROVE  Range(s) \subseteq S /\ \A x : x \in Range(s) <=> \E i \in 1..Len(s) : s[i] = x
  BY DEF Range

LEMMA InRange ==
  ASSUME NEW S, NEW s, s \in Seq(S), NEW i, i \in 1..Len(s), NEW x, x = s[i]
  PROVE  x \in Range(s)
  BY DEF Range

LEMMA RangeAppend ==
  ASSUME NEW S, NEW s \in Seq(S), NEW x \in S
  PROVE  Append(s, x) \in Seq(S) /\ Range(Append(s, x)) = Range(s) \cup {x}
  <1>1. Append(s, x) \in Seq(S) /\ Len(Append(s, x)) = Len(s) + 1 /\ Len(s) \in Nat
    OBVIOUS
  <1>2. \A i \in 1..Len(s) : Append(s, x)[i] = s[i]
    OBVIOUS
  <1>3. Append(s, x)[Len(s) + 1] = x
    OBVIOUS
  <1>4. ASSUME NEW y \in Range(Append(s, x)) PROVE y \in Range(s) \cup {x}
    <2>0. \E i \in 1..Len(Append(s, x)) : Append(s, x)[i] = y
      BY <1>1, <1>4 DEF Range
    <2>1. PICK i \in 1..(Len(s) + 1) : Append(s, x)[i] = y
      BY <1>1, <2>0
    <2>2. CASE i = Len(s) + 1
      BY <2>1, <2>2, <1>3
    <2>3. CASE i \in 1..Len(s)
      BY <2>1, <2>3, <1>2, RangeSeq
    <2>4. QED BY <2>1, <2>2, <2>3, <1>1
  <1>5. ASSUME NEW y \in Range(s) PROVE y \in Range(Append(s, x))
    <2>1. PICK i \in 1..Len(s) : s[i] = y
      BY <1>5, RangeSeq
    <2>2. i \in 1..(Len(s) + 1) /\ Append(s, x)[i] = y
      BY <2>1, <1>2, <1>1
    <2>3. QED BY <2>2, <1>1, RangeSeq
  <1>6. x \in Range(Append(s, x))
    <2>1. Len(s) + 1 \in 1..Len(Append(s, x))
      BY <1>1
    <2>2. QED BY <2>1, <1>3, <1>1, InRange
  <1>7. QED BY <1>1, <1>4, <1>5, <1>6

LEMMA RangeHeadTail ==
  ASSUME NEW S, NEW s \in Seq(S), s # <<>>
  PROVE  /\ Head(s) \in S /\ Tail(s) \in Seq(S)
         /\ Range(s) = {Head(s)} \cup Range(Tail(s))
  <1>1. /\ Head(s) \in S /\ Tail(s) \in Seq(S) /\ Len(s) \in Nat \ {0}
        /\ Len(Tail(s)) = Len(s) - 1 /\ Head(s) = s[1]
    BY EmptySeq
  <1>2. \A i \in 1..(Len(s) - 1) : Tail(s)[i] = s[i + 1]
    OBVIOUS
  <1>3. ASSUME NEW y \in Range(s) PROVE y = Head(s) \/ y \in Range(Tail(s))
    <2>1. PICK i \in 1..Len(s) : s[i] = y
      BY <1>3, RangeSeq
    <2>2. CASE i # 1
      <3>1. i - 1 \in 1..(Len(s) - 1) /\ (i - 1) + 1 = i
        BY <1>1, <2>2
      <3>2. Tail(s)[i - 1] = y
        BY <3>1, <2>1, <1>2
      <3>3. i - 1 \in 1..Len(Tail(s))
        BY <3>1, <1>1
      <3>4. QED BY <3>3, <3>2, <1>1, InRange
    <2>3. QED BY <2>1, <2>2, <1>1
  <1>4. ASSUME NEW y \in Range(Tail(s)) PROVE y \in Range(s)
    <2>0. \E i \in 1..Len(Tail(s)) : Tail(s)[i] = y
      BY <1>1, <1>4 DEF Range
    <2>1. PICK i \in 1..(Len(s) - 1) : Tail(s)[i] = y
      BY <1>1, <2>0
    <2>2. i + 1 \in 1..Len(s) /\ s[i + 1] = y
      BY <2>1, <1>2, <1>1
    <2>3. QED BY <2>2, RangeSeq
  <1>5. Head(s) \in Range(s)
    BY <1>1, RangeSeq
  <1>6. QED BY <1>1, <1>3, <1>4, <1>5

LEMMA RangeOne == \A x : Range(<<x>>) = {x}
  BY DEF Range

LEMMA ConcatOne ==
  ASSUME NEW S, NEW s \in Seq(S), NEW x \in S
  PROVE  s \o <<x>> = Append(s, x)
  OBVIOUS

Connection == [at : {"new", "arrived", "aimed", "queued", "accepted", "closed"},
               child : 0..Children, aim : 0..Children]

\* The types.  A connection is on its way, queued or done with; at most one is
\* between two queues.
MixTypes ==
    /\ pc \in [at : {"listen", "own", "drain", "close", "wait", "done"},
               i : 0..(Children + 1), undo : BOOLEAN]
    /\ state \in [0..Children -> {"none", "listening", "closing", "closed"}]
    /\ owner \in [Kids -> BOOLEAN]
    /\ acceptq \in [0..Children -> Seq(Conns)]
    /\ moving = <<>> \/ \E k \in Conns : moving = <<k>>
    /\ conn \in [Conns -> Connection]
    /\ late \subseteq Conns

\* How far the thread that binds and closes has come with the children.
Progress ==
    /\ state[Mixed] = IF pc.at = "done" THEN "closed" ELSE "listening"
    /\ pc.at = "listen" => /\ pc.i # 0
                           /\ \A c \in Kids : state[c] = IF c < pc.i THEN "listening" ELSE "none"
    /\ pc.at \in {"own", "drain"} =>
         /\ pc.i \in Kids
         /\ \A c \in Kids : state[c] = IF c <= pc.i THEN "listening" ELSE "none"
    /\ pc.at \in {"close", "wait"} =>
         /\ pc.i # 0
         /\ \A c \in Kids : /\ c > pc.i => state[c] \in {"none", "listening"}
                            /\ c < pc.i => state[c] \in {"closing", "closed"}
                            /\ c < pc.i /\ c \in Stream => state[c] = "closed"
    /\ pc.at = "close" /\ pc.i \in Kids => state[pc.i] \in {"none", "listening"}
    /\ pc.at = "wait" => pc.i \in Kids /\ state[pc.i] \in {"closing", "closed"}
    /\ pc.at = "done" => \A c \in Kids : /\ state[c] \in {"closing", "closed"}
                                         /\ c \in Stream => state[c] = "closed"

\* The children that were bound have an owner, and what they kept came late.
Owned ==
    /\ pc.at \in {"listen", "own", "drain"} =>
         \A c \in Kids : c < pc.i => owner[c] /\ Range(acceptq[c]) \subseteq late
    /\ pc.at = "drain" => owner[pc.i]

Came(k) == conn[k].at \notin {"new", "arrived", "aimed"}

\* Where connections are: an arrival is inside a child that is still there, and
\* a queue holds connections of its listener that wait to be accepted.
Placed ==
    /\ \A k \in Conns : conn[k].at \in {"arrived", "aimed"} =>
         conn[k].child \in Kids /\ state[conn[k].child] \in {"listening", "closing"}
    /\ \A k \in Conns : conn[k].at # "new" =>
         conn[k].child \in Kids /\ state[conn[k].child] # "none"
    /\ \A k \in Conns : conn[k].at = "aimed" => conn[k].aim \in {Mixed, conn[k].child}
    /\ \A k \in Conns : conn[k].at = "queued" =>
         \/ k \in Range(moving)
         \/ \E l \in 0..Children : k \in Range(acceptq[l])
    /\ \A c \in Kids : \A k \in Range(acceptq[c]) : conn[k].child = c
    /\ \A l \in 0..Children : \A k \in Range(acceptq[l]) : Came(k)
    /\ moving # <<>> => pc.at = "drain"
    /\ \A k \in Range(moving) : Came(k) /\ conn[k].child = pc.i

\* What a listener that is closed still has came through an in-process child.
Emptied ==
    \A l \in 0..Children : state[l] = "closed" =>
        \A k \in Range(acceptq[l]) : conn[k].child \notin Stream

MixInv == MixTypes /\ Progress /\ Owned /\ Placed /\ Emptied


\* What a step does to one connection.
LEMMA OneConn ==
  ASSUME MixTypes, NEW k \in Conns, NEW r \in Connection, conn' = [conn EXCEPT ![k] = r]
  PROVE  /\ conn' \in [Conns -> Connection]
         /\ conn'[k] = r
         /\ \A j \in Conns : j # k => conn'[j] = conn[j]
  BY DEF MixTypes

\* What a step does to one queue.
LEMMA OneQueue ==
  ASSUME MixTypes, NEW l \in 0..Children, NEW s \in Seq(Conns),
         acceptq' = [acceptq EXCEPT ![l] = s]
  PROVE  /\ acceptq' \in [0..Children -> Seq(Conns)]
         /\ acceptq'[l] = s
         /\ \A j \in 0..Children : j # l => acceptq'[j] = acceptq[j]
  BY DEF MixTypes

\* What closing a listener does to the connections it has queued.
LEMMA ClosedConns ==
  ASSUME MixTypes, NEW l \in 0..Children,
         conn' = [k \in Conns |-> IF k \in Range(acceptq[l])
                                  THEN [conn[k] EXCEPT !.at = "closed"] ELSE conn[k]]
  PROVE  /\ conn' \in [Conns -> Connection]
         /\ \A k \in Conns : /\ conn'[k].child = conn[k].child /\ conn'[k].aim = conn[k].aim
                             /\ conn'[k].at # conn[k].at =>
                                  conn'[k].at = "closed" /\ k \in Range(acceptq[l])
                             /\ k \in Range(acceptq[l]) => conn'[k].at = "closed"
  <1> SUFFICES ASSUME NEW k \in Conns
               PROVE  /\ conn'[k] \in Connection
                      /\ conn'[k].child = conn[k].child /\ conn'[k].aim = conn[k].aim
                      /\ conn'[k].at # conn[k].at =>
                           conn'[k].at = "closed" /\ k \in Range(acceptq[l])
                      /\ k \in Range(acceptq[l]) => conn'[k].at = "closed"
    OBVIOUS
  <1>1. conn[k] \in Connection
    BY DEF MixTypes
  <1>2. conn'[k] = IF k \in Range(acceptq[l]) THEN [conn[k] EXCEPT !.at = "closed"] ELSE conn[k]
    OBVIOUS
  <1>3. QED BY <1>1, <1>2 DEF Connection

LEMMA MixInitInv == MixInit => MixInv
  <1> SUFFICES ASSUME MixInit PROVE MixInv
    OBVIOUS
  <1> USE MixAssumption, RangeEmpty DEF MixInit, Mixed, Kids
  <1>1. MixTypes
    BY DEF MixTypes, Connection
  <1>2. Progress
    BY DEF Progress
  <1>3. Owned /\ Placed /\ Emptied
    BY DEF Owned, Placed, Emptied, Came
  <1>4. QED BY <1>1, <1>2, <1>3 DEF MixInv

LEMMA ArriveKeeps ==
  ASSUME NEW k \in Conns, NEW c \in Kids, MixInv, Arrive(k, c) PROVE MixInv'
  <1> DEFINE r == [at |-> "arrived", child |-> c, aim |-> 0]
  <1> USE MixAssumption DEF Mixed, Kids
  <1>1. r \in Connection /\ MixTypes /\ conn' = [conn EXCEPT ![k] = r]
    BY DEF MixInv, Arrive, Connection
  <1>2. /\ conn' \in [Conns -> Connection] /\ conn'[k] = r
        /\ \A j \in Conns : j # k => conn'[j] = conn[j]
    <2> HIDE DEF r
    <2> QED BY <1>1, OneConn
  <1>3. \A l \in 0..Children : Range(acceptq[l]) \subseteq Conns
    BY <1>1, RangeSeq DEF MixTypes
  <1>4. k \notin Range(moving) /\ \A l \in 0..Children : k \notin Range(acceptq[l])
    BY DEF MixInv, Placed, Came, Arrive
  <1> USE DEF Arrive
  <1>5. MixTypes'
    BY <1>2 DEF MixInv, MixTypes
  <1>6. Progress' /\ Owned'
    BY DEF MixInv, Progress, Owned
  <1>7. Placed'
    <2>1. \A j \in Conns : j # k => conn'[j] = conn[j]
      BY <1>2
    <2>2. Range(moving) \subseteq Conns
      BY <1>1, RangeEmpty, RangeOne DEF MixTypes
    <2>3. \A l \in 0..Children : \A j \in Range(acceptq[l]) : conn'[j] = conn[j]
      BY <2>1, <1>3, <1>4
    <2>4. \A j \in Range(moving) : conn'[j] = conn[j]
      BY <2>1, <2>2, <1>4
    <2>5. conn'[k].at = "arrived" /\ conn'[k].child = c
      BY <1>2
    <2> HIDE DEF Arrive
    <2>6. state[c] = "listening" /\ UNCHANGED <<pc, state, acceptq, moving>>
      BY DEF Arrive
    <2>7. QED BY <2>1, <2>3, <2>4, <2>5, <2>6 DEF MixInv, Placed, Came
  <1>8. Emptied'
    BY <1>2, <1>3, <1>4 DEF MixInv, Emptied
  <1>9. QED BY <1>5, <1>6, <1>7, <1>8 DEF MixInv

LEMMA RangesIn ==
  ASSUME MixTypes
  PROVE  Range(moving) \subseteq Conns /\ \A l \in 0..Children : Range(acceptq[l]) \subseteq Conns
  BY RangeSeq, RangeEmpty, RangeOne DEF MixTypes

LEMMA ReadOwnerKeeps ==
  ASSUME NEW k \in Conns, MixInv, ReadOwner(k) PROVE MixInv'
  <1> DEFINE r == [conn[k] EXCEPT !.at = "aimed",
                     !.aim = IF owner[conn[k].child] THEN Mixed ELSE conn[k].child]
  <1> USE MixAssumption DEF Mixed, Kids
  <1>0. MixTypes /\ conn[k] \in Connection /\ conn[k].at = "arrived"
    BY DEF MixInv, MixTypes, ReadOwner
  <1>1. r \in Connection /\ conn' = [conn EXCEPT ![k] = r]
    <2>1. PICK a \in 0..Children : a = IF owner[conn[k].child] THEN Mixed ELSE conn[k].child
      BY <1>0 DEF Connection
    <2>2. r = [conn[k] EXCEPT !.at = "aimed", !.aim = a]
      BY <2>1
    <2>3. r \in Connection
      <3> HIDE DEF r
      <3> QED BY <1>0, <2>2 DEF Connection
    <2>4. conn' = [conn EXCEPT ![k] = r]
      BY <1>0 DEF ReadOwner, MixTypes
    <2>5. QED BY <2>3, <2>4
  <1>2. r.at = "aimed" /\ r.child = conn[k].child /\ r.aim \in {Mixed, r.child}
    BY <1>0 DEF Connection
  <1>3. /\ conn' \in [Conns -> Connection] /\ conn'[k] = r
        /\ \A j \in Conns : j # k => conn'[j] = conn[j]
    <2> HIDE DEF r
    <2> QED BY <1>0, <1>1, OneConn
  <1>4. UNCHANGED <<pc, state, owner, acceptq, moving, late>>
    BY DEF ReadOwner
  <1>5. k \notin Range(moving) /\ \A l \in 0..Children : k \notin Range(acceptq[l])
    BY <1>0 DEF MixInv, Placed, Came
  <1> HIDE DEF r
  <1>6. \A l \in 0..Children : \A j \in Range(acceptq[l]) : conn'[j] = conn[j]
    BY <1>0, <1>3, <1>5, RangesIn
  <1>7. \A j \in Range(moving) : conn'[j] = conn[j]
    BY <1>0, <1>3, <1>5, RangesIn
  <1>8. MixTypes'
    BY <1>0, <1>3, <1>4 DEF MixTypes
  <1>9. Progress' /\ Owned'
    BY <1>4 DEF MixInv, Progress, Owned
  <1>10. Placed'
    BY <1>0, <1>2, <1>3, <1>4, <1>6, <1>7 DEF MixInv, Placed, Came
  <1>11. Emptied'
    BY <1>4, <1>6 DEF MixInv, Emptied
  <1>12. QED BY <1>8, <1>9, <1>10, <1>11 DEF MixInv

LEMMA AddKeeps ==
  ASSUME NEW k \in Conns, MixInv, acceptq_add(k) PROVE MixInv'
  <1> USE MixAssumption DEF Mixed, Kids
  <1>0. MixTypes /\ conn[k] \in Connection /\ conn[k].at = "aimed"
    BY DEF MixInv, MixTypes, acceptq_add
  <1>1. PICK m \in 0..Children : m = conn[k].aim
    BY <1>0 DEF Connection
  <1>2. PICK r \in Connection : r = [conn[k] EXCEPT !.at = "queued"]
    BY <1>0 DEF Connection
  <1>3. r.at = "queued" /\ r.child = conn[k].child
    BY <1>0, <1>2 DEF Connection
  <1>4. acceptq[m] \in Seq(Conns)
    BY <1>0 DEF MixTypes
  <1>5. PICK s \in Seq(Conns) : s = Append(acceptq[m], k)
    <2>1. Append(acceptq[m], k) \in Seq(Conns)
      BY <1>4, RangeAppend
    <2>2. QED BY <2>1
  <1>6. Range(s) = Range(acceptq[m]) \cup {k}
    BY <1>4, <1>5, RangeAppend
  <1>7. /\ acceptq' = [acceptq EXCEPT ![m] = s] /\ conn' = [conn EXCEPT ![k] = r]
        /\ UNCHANGED <<pc, state, owner, moving>>
        /\ late' = IF m # Mixed /\ owner[m] THEN late \cup {k} ELSE late
    BY <1>0, <1>1, <1>2, <1>5 DEF acceptq_add, MixTypes
  <1>8. /\ acceptq' \in [0..Children -> Seq(Conns)] /\ acceptq'[m] = s
        /\ \A j \in 0..Children : j # m => acceptq'[j] = acceptq[j]
    BY <1>0, <1>7, OneQueue
  <1>9. /\ conn' \in [Conns -> Connection] /\ conn'[k] = r
        /\ \A j \in Conns : j # k => conn'[j] = conn[j]
    BY <1>0, <1>7, OneConn
  <1>10. m \in {Mixed, conn[k].child} /\ state[conn[k].child] \in {"listening", "closing"}
    BY <1>0, <1>1 DEF MixInv, Placed
  <1>11. \A l \in 0..Children : \A j \in Range(acceptq'[l]) :
           (j = k /\ l = m) \/ j \in Range(acceptq[l])
    <2> SUFFICES ASSUME NEW l \in 0..Children, NEW j \in Range(acceptq'[l])
                 PROVE  (j = k /\ l = m) \/ j \in Range(acceptq[l])
      OBVIOUS
    <2>1. CASE l = m
      BY <2>1, <1>6, <1>8
    <2>2. CASE l # m
      BY <2>2, <1>8
    <2>3. QED BY <2>1, <2>2
  <1>12. \A l \in 0..Children : Range(acceptq[l]) \subseteq Range(acceptq'[l])
    BY <1>6, <1>8
  <1>13. k \notin Range(moving) /\ \A l \in 0..Children : k \notin Range(acceptq[l])
    BY <1>0 DEF MixInv, Placed, Came
  <1>14. \A l \in 0..Children : \A j \in Range(acceptq[l]) : j \in Conns /\ conn'[j] = conn[j]
    BY <1>0, <1>9, <1>13, RangesIn
  <1>15. \A j \in Range(moving) : conn'[j] = conn[j]
    BY <1>0, <1>9, <1>13, RangesIn
  <1>16. MixTypes'
    BY <1>0, <1>7, <1>8, <1>9 DEF MixTypes
  <1>17. Progress'
    BY <1>7 DEF MixInv, Progress
  <1>18. Owned'
    <2> SUFFICES ASSUME pc.at \in {"listen", "own", "drain"}, NEW c \in Kids, c < pc.i
                 PROVE  owner[c] /\ Range(acceptq'[c]) \subseteq late'
      BY <1>7 DEF MixInv, Owned
    <2>1. owner[c] /\ Range(acceptq[c]) \subseteq late
      BY DEF MixInv, Owned
    <2>2. CASE c = m
      BY <2>1, <2>2, <1>6, <1>7, <1>8
    <2>3. CASE c # m
      BY <2>1, <2>3, <1>7, <1>8
    <2>4. QED BY <2>2, <2>3
  <1>19. Placed'
    <2>1. \A j \in Conns : conn'[j].at \in {"arrived", "aimed"} =>
            conn'[j].child \in Kids /\ state[conn'[j].child] \in {"listening", "closing"}
      BY <1>3, <1>9 DEF MixInv, Placed
    <2>0. \A j \in Conns : conn'[j].at # "new" =>
            conn'[j].child \in Kids /\ state[conn'[j].child] # "none"
      BY <1>0, <1>3, <1>9 DEF MixInv, Placed
    <2>2. \A j \in Conns : conn'[j].at = "aimed" => conn'[j].aim \in {Mixed, conn'[j].child}
      BY <1>3, <1>9 DEF MixInv, Placed
    <2>3. \A j \in Conns : conn'[j].at = "queued" =>
            j \in Range(moving) \/ \E l \in 0..Children : j \in Range(acceptq'[l])
      <3> SUFFICES ASSUME NEW j \in Conns, conn'[j].at = "queued"
                   PROVE  j \in Range(moving) \/ \E l \in 0..Children : j \in Range(acceptq'[l])
        OBVIOUS
      <3>1. CASE j = k
        BY <3>1, <1>6, <1>8
      <3>2. CASE j # k
        BY <3>2, <1>9, <1>12 DEF MixInv, Placed
      <3>3. QED BY <3>1, <3>2
    <2>4. \A c \in Kids : \A j \in Range(acceptq'[c]) : conn'[j].child = c
      <3> SUFFICES ASSUME NEW c \in Kids, NEW j \in Range(acceptq'[c]) PROVE conn'[j].child = c
        OBVIOUS
      <3>1. CASE j = k /\ c = m
        BY <3>1, <1>3, <1>9, <1>10
      <3>2. CASE j \in Range(acceptq[c])
        BY <3>2, <1>14 DEF MixInv, Placed
      <3>3. QED BY <3>1, <3>2, <1>11
    <2>5. \A l \in 0..Children : \A j \in Range(acceptq'[l]) :
            conn'[j].at \notin {"new", "arrived", "aimed"}
      <3> SUFFICES ASSUME NEW l \in 0..Children, NEW j \in Range(acceptq'[l])
                   PROVE  conn'[j].at \notin {"new", "arrived", "aimed"}
        OBVIOUS
      <3>1. CASE j = k
        BY <3>1, <1>3, <1>9
      <3>2. CASE j \in Range(acceptq[l])
        BY <3>2, <1>14 DEF MixInv, Placed, Came
      <3>3. QED BY <3>1, <3>2, <1>11
    <2>6. QED BY <2>0, <2>1, <2>2, <2>3, <2>4, <2>5, <1>7, <1>15 DEF MixInv, Placed, Came
  <1>20. Emptied'
    <2> SUFFICES ASSUME NEW l \in 0..Children, state[l] = "closed", NEW j \in Range(acceptq'[l])
                 PROVE  conn'[j].child \notin Stream
      BY <1>7 DEF Emptied
    <2>1. CASE j \in Range(acceptq[l])
      BY <2>1, <1>14 DEF MixInv, Emptied
    <2>2. CASE j = k /\ l = m
      <3>1. conn'[j].child = conn[k].child
        BY <2>2, <1>3, <1>9
      <3>2. m = Mixed
        BY <2>2, <1>10
      <3>3. pc.at = "done"
        BY <2>2, <3>2 DEF MixInv, Progress
      <3>4. QED BY <3>1, <3>3, <1>10 DEF MixInv, Progress
    <2>3. QED BY <2>1, <2>2, <1>11
  <1>21. QED BY <1>16, <1>17, <1>18, <1>19, <1>20 DEF MixInv

LEMMA ListenKeeps ==
  ASSUME MixInv, Listen PROVE MixInv'
  <1> USE MixAssumption DEF Mixed, Kids, Go, Listen
  <1>1. MixTypes'
    BY DEF MixInv, MixTypes
  <1>2. Progress'
    BY DEF MixInv, MixTypes, Progress
  <1>3. Owned'
    BY DEF MixInv, MixTypes, Progress, Owned
  <1>4. Placed'
    BY DEF MixInv, MixTypes, Progress, Placed, Came
  <1>5. Emptied'
    BY DEF MixInv, MixTypes, Progress, Placed, Emptied
  <1>6. QED BY <1>1, <1>2, <1>3, <1>4, <1>5 DEF MixInv

LEMMA ListenFailsKeeps ==
  ASSUME MixInv, ListenFails PROVE MixInv'
  <1> USE MixAssumption DEF Mixed, Kids, Go, ListenFails
  <1>1. MixTypes'
    BY DEF MixInv, MixTypes
  <1>2. Progress'
    BY DEF MixInv, MixTypes, Progress
  <1>3. Owned'
    BY DEF MixInv, MixTypes, Progress, Owned
  <1>4. Placed'
    BY RangeEmpty DEF MixInv, MixTypes, Progress, Placed, Came
  <1>5. Emptied'
    BY DEF MixInv, MixTypes, Progress, Placed, Emptied
  <1>6. QED BY <1>1, <1>2, <1>3, <1>4, <1>5 DEF MixInv

LEMMA SetOwnerKeeps ==
  ASSUME MixInv, SetOwner PROVE MixInv'
  <1> USE MixAssumption DEF Mixed, Kids, Go, SetOwner
  <1>1. MixTypes'
    BY DEF MixInv, MixTypes
  <1>2. Progress'
    BY DEF MixInv, MixTypes, Progress
  <1>3. Owned'
    BY DEF MixInv, MixTypes, Progress, Owned
  <1>4. Placed'
    BY RangeEmpty DEF MixInv, MixTypes, Progress, Placed, Came
  <1>5. Emptied'
    BY DEF MixInv, MixTypes, Progress, Placed, Emptied
  <1>6. QED BY <1>1, <1>2, <1>3, <1>4, <1>5 DEF MixInv

LEMMA CloseKeeps ==
  ASSUME MixInv, xclose PROVE MixInv'
  <1> USE MixAssumption DEF Mixed, Kids, Go, xclose, Bound
  <1>1. MixTypes'
    <2>1. pc \in [at : {"listen", "own", "drain", "close", "wait", "done"},
                  i : 0..(Children + 1), undo : BOOLEAN] /\ 1 \in 0..(Children + 1)
      BY DEF MixInv, MixTypes
    <2>2. pc' \in [at : {"listen", "own", "drain", "close", "wait", "done"},
                   i : 0..(Children + 1), undo : BOOLEAN]
      BY <2>1
    <2>3. QED BY <2>2 DEF MixInv, MixTypes
  <1>2. Progress'
    BY DEF MixInv, MixTypes, Progress
  <1>3. Owned'
    BY DEF MixInv, MixTypes, Progress, Owned
  <1>4. Placed'
    BY RangeEmpty DEF MixInv, MixTypes, Progress, Placed, Came
  <1>5. Emptied'
    BY DEF MixInv, MixTypes, Progress, Placed, Emptied
  <1>6. QED BY <1>1, <1>2, <1>3, <1>4, <1>5 DEF MixInv

LEMMA CloseChildKeeps ==
  ASSUME MixInv, CloseChild PROVE MixInv'
  <1> USE MixAssumption DEF Mixed, Kids, Go, CloseChild
  <1>1. MixTypes'
    BY DEF MixInv, MixTypes
  <1>2. Progress'
    BY DEF MixInv, MixTypes, Progress
  <1>3. Owned'
    BY DEF MixInv, MixTypes, Progress, Owned
  <1>4. Placed'
    BY RangeEmpty DEF MixInv, MixTypes, Progress, Placed, Came
  <1>5. Emptied'
    <2> SUFFICES ASSUME NEW l \in 0..Children, state'[l] = "closed", NEW k \in Range(acceptq[l])
                 PROVE  conn[k].child \notin Stream
      BY DEF Emptied
    <2>1. CASE l # pc.i
      BY <2>1 DEF MixInv, MixTypes, Emptied
    <2>2. CASE l = pc.i
      <3>1. state[l] = "none"
        BY <2>2 DEF MixInv, MixTypes, Progress
      <3>2. k \in Conns /\ conn[k].child = l /\ conn[k].at # "new"
        BY <2>2, RangesIn DEF MixInv, Placed, Came
      <3>3. QED BY <3>1, <3>2 DEF MixInv, Placed
    <2>3. QED BY <2>1, <2>2
  <1>6. QED BY <1>1, <1>2, <1>3, <1>4, <1>5 DEF MixInv

LEMMA NextChildKeeps ==
  ASSUME MixInv, NextChild PROVE MixInv'
  <1> USE MixAssumption DEF Mixed, Kids, Go, NextChild
  <1>1. MixTypes'
    <2>1. pc \in [at : {"listen", "own", "drain", "close", "wait", "done"},
                  i : 0..(Children + 1), undo : BOOLEAN] /\ pc.i + 1 \in 0..(Children + 1)
      BY DEF MixInv, MixTypes, Progress
    <2>2. pc' \in [at : {"listen", "own", "drain", "close", "wait", "done"},
                   i : 0..(Children + 1), undo : BOOLEAN]
      BY <2>1
    <2>3. QED BY <2>2 DEF MixInv, MixTypes
  <1>2. Progress'
    BY DEF MixInv, MixTypes, Progress
  <1>3. Owned'
    BY DEF MixInv, MixTypes, Progress, Owned
  <1>4. Placed'
    BY RangeEmpty DEF MixInv, MixTypes, Progress, Placed, Came
  <1>5. Emptied'
    BY DEF MixInv, MixTypes, Progress, Placed, Emptied
  <1>6. QED BY <1>1, <1>2, <1>3, <1>4, <1>5 DEF MixInv

LEMMA RemoveLast ==
  ASSUME MixInv, acceptq_rm_nohup, acceptq[pc.i] = <<>> PROVE MixInv'
  <1> USE MixAssumption, RangeEmpty DEF Mixed, Kids, Go
  <1>0. /\ pc.at = "drain" /\ moving = <<>> /\ Range(moving) = {}
        /\ pc' = [pc EXCEPT !.at = "listen", !.i = pc.i + 1]
        /\ UNCHANGED <<state, owner, acceptq, moving, conn, late>>
    BY DEF acceptq_rm_nohup
  <1>1. pc.i \in Kids /\ pc' = [at |-> "listen", i |-> pc.i + 1, undo |-> pc.undo]
    BY <1>0 DEF MixInv, MixTypes, Progress
  <1>2. MixTypes'
    <2>1. pc' \in [at : {"listen", "own", "drain", "close", "wait", "done"},
                   i : 0..(Children + 1), undo : BOOLEAN]
      <3>1. pc.undo \in BOOLEAN
        BY DEF MixInv, MixTypes
      <3>2. pc.i + 1 \in 0..(Children + 1)
        BY <1>1
      <3>3. QED BY <3>1, <3>2, <1>1
    <2>2. QED BY <2>1, <1>0 DEF MixInv, MixTypes
  <1>3. Progress'
    BY <1>0, <1>1 DEF MixInv, Progress
  <1>4. Owned'
    <2> SUFFICES ASSUME NEW c \in Kids, c < pc.i + 1
                 PROVE  owner[c] /\ Range(acceptq[c]) \subseteq late
      BY <1>0, <1>1 DEF Owned
    <2>1. CASE c = pc.i
      BY <2>1, <1>0 DEF MixInv, Owned
    <2>2. CASE c < pc.i
      BY <2>2, <1>0 DEF MixInv, Owned
    <2>3. QED BY <2>1, <2>2, <1>1
  <1>5. Placed' /\ Emptied'
    BY <1>0, <1>1 DEF MixInv, Placed, Emptied, Came
  <1>6. QED BY <1>2, <1>3, <1>4, <1>5 DEF MixInv

LEMMA RemoveOne ==
  ASSUME MixInv, acceptq_rm_nohup, acceptq[pc.i] # <<>> PROVE MixInv'
  <1> USE MixAssumption DEF Mixed, Kids
  <1>0. MixTypes /\ pc.at = "drain" /\ moving = <<>> /\ pc.i \in Kids
    BY DEF MixInv, Progress, acceptq_rm_nohup
  <1>1. acceptq[pc.i] \in Seq(Conns)
    BY <1>0 DEF MixTypes
  <1>2. PICK s \in Seq(Conns), k \in Conns :
          s = Tail(acceptq[pc.i]) /\ k = Head(acceptq[pc.i])
    BY <1>1, RangeHeadTail
  <1>3. Range(acceptq[pc.i]) = {k} \cup Range(s)
    BY <1>1, <1>2, RangeHeadTail
  <1>4. /\ acceptq' = [acceptq EXCEPT ![pc.i] = s] /\ moving' = <<k>>
        /\ UNCHANGED <<pc, state, owner, conn, late>>
    BY <1>0, <1>2 DEF acceptq_rm_nohup, MixTypes
  <1>5. /\ acceptq' \in [0..Children -> Seq(Conns)] /\ acceptq'[pc.i] = s
        /\ \A j \in 0..Children : j # pc.i => acceptq'[j] = acceptq[j]
    <2>1. pc.i \in 0..Children
      BY <1>0
    <2>2. QED BY <2>1, <1>0, <1>4, OneQueue
  <1>6. \A l \in 0..Children : Range(acceptq'[l]) \subseteq Range(acceptq[l])
    BY <1>3, <1>5
  <1>7. Range(moving') = {k} /\ Range(moving) = {}
    BY <1>0, <1>4, RangeOne, RangeEmpty
  <1>8. Came(k) /\ conn[k].child = pc.i
    BY <1>0, <1>3 DEF MixInv, Placed
  <1>9. \A l \in 0..Children : Range(acceptq[l]) \subseteq Range(acceptq'[l]) \cup {k}
    BY <1>3, <1>5
  <1>10. MixTypes'
    BY <1>0, <1>4, <1>5 DEF MixTypes
  <1>11. Progress'
    BY <1>4 DEF MixInv, Progress
  <1>12. Owned'
    BY <1>4, <1>6 DEF MixInv, Owned
  <1>13. Placed'
    <2>1. \A j \in Conns : conn[j].at = "queued" =>
            j \in Range(moving') \/ \E l \in 0..Children : j \in Range(acceptq'[l])
      BY <1>7, <1>9 DEF MixInv, Placed
    <2>2. \A j \in Range(moving') : Came(j) /\ conn[j].child = pc.i
      BY <1>7, <1>8
    <2>3. \A c \in Kids : \A j \in Range(acceptq'[c]) : conn[j].child = c
      <3>1. \A c \in Kids : c \in 0..Children /\ \A j \in Range(acceptq[c]) : conn[j].child = c
        BY DEF MixInv, Placed
      <3>2. QED BY <3>1, <1>6
    <2>4. \A l \in 0..Children : \A j \in Range(acceptq'[l]) : Came(j)
      BY <1>6 DEF MixInv, Placed
    <2>5. QED BY <2>1, <2>2, <2>3, <2>4, <1>0, <1>4 DEF MixInv, Placed, Came
  <1>14. Emptied'
    BY <1>4, <1>6 DEF MixInv, Emptied
  <1>15. QED BY <1>10, <1>11, <1>12, <1>13, <1>14 DEF MixInv

LEMMA GiveKeeps ==
  ASSUME MixInv, Give PROVE MixInv'
  <1> USE MixAssumption DEF Mixed, Kids
  <1>0. MixTypes /\ moving # <<>> /\ pc.at = "drain"
    BY DEF MixInv, Placed, Give
  <1>1. PICK k \in Conns : moving = <<k>>
    BY <1>0 DEF MixTypes
  <1>2. acceptq[0] \in Seq(Conns)
    BY <1>0 DEF MixTypes
  <1>3. PICK s \in Seq(Conns) : s = Append(acceptq[0], k)
    <2>1. Append(acceptq[0], k) \in Seq(Conns)
      BY <1>2, RangeAppend
    <2>2. QED BY <2>1
  <1>4. Range(s) = Range(acceptq[0]) \cup {k}
    BY <1>2, <1>3, RangeAppend
  <1>5. /\ acceptq' = [acceptq EXCEPT ![0] = s] /\ moving' = <<>>
        /\ UNCHANGED <<pc, state, owner, conn, late>>
    <2>1. acceptq[0] \o moving = s
      BY <1>1, <1>2, <1>3, ConcatOne
    <2>2. QED BY <2>1 DEF Give
  <1>6. /\ acceptq' \in [0..Children -> Seq(Conns)] /\ acceptq'[0] = s
        /\ \A j \in 0..Children : j # 0 => acceptq'[j] = acceptq[j]
    <2>1. 0 \in 0..Children
      OBVIOUS
    <2>2. QED BY <2>1, <1>0, <1>5, OneQueue
  <1>7. Range(moving) = {k} /\ Range(moving') = {}
    BY <1>1, <1>5, RangeOne, RangeEmpty
  <1>8. \A l \in 0..Children : Range(acceptq[l]) \subseteq Range(acceptq'[l])
    BY <1>4, <1>6
  <1>9. k \in Range(acceptq'[0])
    BY <1>4, <1>6
  <1>10. \A l \in 0..Children : Range(acceptq'[l]) \subseteq Range(acceptq[l]) \cup {k}
    BY <1>4, <1>6
  <1>11. Came(k)
    BY <1>7 DEF MixInv, Placed
  <1>12. MixTypes'
    BY <1>0, <1>5, <1>6 DEF MixTypes
  <1>13. Progress'
    BY <1>5 DEF MixInv, Progress
  <1>14. Owned'
    BY <1>5, <1>6 DEF MixInv, Owned
  <1>15. Placed'
    <2>1. \A j \in Conns : conn[j].at = "queued" => \E l \in 0..Children : j \in Range(acceptq'[l])
      <3> SUFFICES ASSUME NEW j \in Conns, conn[j].at = "queued"
                   PROVE  \E l \in 0..Children : j \in Range(acceptq'[l])
        OBVIOUS
      <3>1. j \in Range(moving) \/ \E l \in 0..Children : j \in Range(acceptq[l])
        BY DEF MixInv, Placed
      <3>2. QED BY <3>1, <1>7, <1>8, <1>9
    <2>2. ASSUME NEW c \in Kids, NEW j \in Range(acceptq'[c]) PROVE conn[j].child = c
      <3>1. c \in 0..Children /\ c # 0
        OBVIOUS
      <3>2. j \in Range(acceptq[c])
        BY <3>1, <1>6
      <3>3. QED BY <3>2 DEF MixInv, Placed
    <2>3. \A l \in 0..Children : \A j \in Range(acceptq'[l]) : Came(j)
      BY <1>10, <1>11 DEF MixInv, Placed
    <2>4. QED BY <2>1, <2>2, <2>3, <1>5, <1>7 DEF MixInv, Placed, Came
  <1>16. Emptied'
    <2> SUFFICES ASSUME NEW l \in 0..Children, state[l] = "closed", NEW j \in Range(acceptq'[l])
                 PROVE  conn[j].child \notin Stream
      BY <1>5 DEF Emptied
    <2>1. l # 0
      BY <1>0 DEF MixInv, Progress
    <2>2. QED BY <2>1, <1>6 DEF MixInv, Emptied
  <1>17. QED BY <1>12, <1>13, <1>14, <1>15, <1>16 DEF MixInv

LEMMA AcceptKeeps ==
  ASSUME MixInv, xaccept PROVE MixInv'
  <1> USE MixAssumption DEF Mixed, Kids
  <1>0. MixTypes /\ pc.at = "listen" /\ acceptq[0] # <<>> /\ moving = <<>> /\ Range(moving) = {}
    BY RangeEmpty DEF MixInv, Placed, xaccept, Bound
  <1>1. acceptq[0] \in Seq(Conns)
    BY <1>0 DEF MixTypes
  <1>2. PICK s \in Seq(Conns), k \in Conns : s = Tail(acceptq[0]) /\ k = Head(acceptq[0])
    BY <1>0, <1>1, RangeHeadTail
  <1>3. Range(acceptq[0]) = {k} \cup Range(s)
    BY <1>0, <1>1, <1>2, RangeHeadTail
  <1>4. conn[k] \in Connection
    BY <1>0 DEF MixTypes
  <1>5. PICK r \in Connection : r = [conn[k] EXCEPT !.at = "accepted"]
    BY <1>4 DEF Connection
  <1>6. r.at = "accepted" /\ r.child = conn[k].child
    BY <1>4, <1>5 DEF Connection
  <1>7. /\ acceptq' = [acceptq EXCEPT ![0] = s] /\ conn' = [conn EXCEPT ![k] = r]
        /\ UNCHANGED <<pc, state, owner, moving, late>>
    BY <1>0, <1>2, <1>5 DEF xaccept, MixTypes
  <1>8. /\ acceptq' \in [0..Children -> Seq(Conns)] /\ acceptq'[0] = s
        /\ \A j \in 0..Children : j # 0 => acceptq'[j] = acceptq[j]
    <2>1. 0 \in 0..Children
      OBVIOUS
    <2>2. QED BY <2>1, <1>0, <1>7, OneQueue
  <1>9. /\ conn' \in [Conns -> Connection] /\ conn'[k] = r
        /\ \A j \in Conns : j # k => conn'[j] = conn[j]
    BY <1>0, <1>7, OneConn
  <1>10. \A l \in 0..Children : Range(acceptq'[l]) \subseteq Range(acceptq[l])
    BY <1>3, <1>8
  <1>11. \A l \in 0..Children : Range(acceptq[l]) \subseteq Range(acceptq'[l]) \cup {k}
    BY <1>3, <1>8
  <1>12. Came(k)
    BY <1>3 DEF MixInv, Placed
  <1>13. \A j \in Conns : conn'[j].child = conn[j].child
    BY <1>6, <1>9
  <1>14. \A j \in Conns : Came(j) => Came(j)'
    BY <1>6, <1>9 DEF Came
  <1>15. \A l \in 0..Children : Range(acceptq'[l]) \subseteq Conns
    BY <1>0, <1>10, RangesIn
  <1>16. MixTypes'
    BY <1>0, <1>7, <1>8, <1>9 DEF MixTypes
  <1>17. Progress'
    BY <1>7 DEF MixInv, Progress
  <1>18. Owned'
    BY <1>7, <1>8 DEF MixInv, Owned
  <1>19. Placed'
    <2>1. \A j \in Conns : conn'[j].at \in {"arrived", "aimed"} =>
            conn'[j].child \in Kids /\ state[conn'[j].child] \in {"listening", "closing"}
      BY <1>6, <1>9 DEF MixInv, Placed
    <2>2. \A j \in Conns : conn'[j].at = "aimed" => conn'[j].aim \in {Mixed, conn'[j].child}
      BY <1>6, <1>9 DEF MixInv, Placed
    <2>3. \A j \in Conns : conn'[j].at # "new" =>
            conn'[j].child \in Kids /\ state[conn'[j].child] # "none"
      BY <1>6, <1>9, <1>12 DEF MixInv, Placed, Came
    <2>4. \A j \in Conns : conn'[j].at = "queued" => \E l \in 0..Children : j \in Range(acceptq'[l])
      BY <1>0, <1>6, <1>9, <1>11 DEF MixInv, Placed
    <2>5. ASSUME NEW c \in Kids, NEW j \in Range(acceptq'[c]) PROVE conn'[j].child = c
      <3>1. c \in 0..Children
        OBVIOUS
      <3>2. j \in Range(acceptq[c]) /\ j \in Conns
        BY <3>1, <1>10, <1>15
      <3>3. QED BY <3>2, <1>13 DEF MixInv, Placed
    <2>6. \A l \in 0..Children : \A j \in Range(acceptq'[l]) : Came(j)'
      BY <1>10, <1>14, <1>15 DEF MixInv, Placed
    <2>7. QED BY <2>1, <2>2, <2>3, <2>4, <2>5, <2>6, <1>0, <1>7 DEF Placed
  <1>20. Emptied'
    BY <1>7, <1>10, <1>13, <1>15 DEF MixInv, Emptied
  <1>21. QED BY <1>16, <1>17, <1>18, <1>19, <1>20 DEF MixInv

\* What closing a listener leaves of Placed and Emptied: both closes (ChildGone,
\* MixGone) empty one queue and close what was in it.
LEMMA QueueClosed ==
  ASSUME MixInv, NEW m \in 0..Children, moving = <<>>, UNCHANGED moving,
         acceptq' = [acceptq EXCEPT ![m] = <<>>],
         conn' = [k \in Conns |-> IF k \in Range(acceptq[m])
                                  THEN [conn[k] EXCEPT !.at = "closed"] ELSE conn[k]]
  PROVE  /\ acceptq' \in [0..Children -> Seq(Conns)] /\ conn' \in [Conns -> Connection]
         /\ Range(acceptq'[m]) = {}
         /\ \A l \in 0..Children : Range(acceptq'[l]) \subseteq Range(acceptq[l])
         /\ \A k \in Conns : /\ conn'[k].child = conn[k].child /\ conn'[k].aim = conn[k].aim
                             /\ conn'[k].at # conn[k].at =>
                                  conn'[k].at = "closed" /\ conn[k].at # "new"
                             /\ Came(k) => Came(k)'
                             /\ conn'[k].at = "queued" =>
                                  \E l \in 0..Children : k \in Range(acceptq'[l])
  <1> USE MixAssumption
  <1>0. MixTypes /\ Range(moving) = {}
    BY RangeEmpty DEF MixInv
  <1>1. /\ conn' \in [Conns -> Connection]
        /\ \A k \in Conns : /\ conn'[k].child = conn[k].child /\ conn'[k].aim = conn[k].aim
                            /\ conn'[k].at # conn[k].at =>
                                 conn'[k].at = "closed" /\ k \in Range(acceptq[m])
                            /\ k \in Range(acceptq[m]) => conn'[k].at = "closed"
    BY <1>0, ClosedConns
  <1>2. PICK e \in Seq(Conns) : e = <<>>
    <2>1. <<>> \in Seq(Conns)
      OBVIOUS
    <2>2. QED BY <2>1
  <1>3. /\ acceptq' \in [0..Children -> Seq(Conns)] /\ acceptq'[m] = e
        /\ \A j \in 0..Children : j # m => acceptq'[j] = acceptq[j]
    BY <1>0, <1>2, OneQueue
  <1>4. Range(acceptq'[m]) = {}
    BY <1>2, <1>3, RangeEmpty
  <1>5. \A l \in 0..Children : Range(acceptq'[l]) \subseteq Range(acceptq[l])
    BY <1>3, <1>4
  <1>6. \A k \in Range(acceptq[m]) : Came(k)
    BY DEF MixInv, Placed
  <1>7. \A k \in Conns : (Came(k) => Came(k)') /\
                         (conn'[k].at # conn[k].at => conn'[k].at = "closed" /\ conn[k].at # "new")
    BY <1>1, <1>6 DEF Came
  <1>8. ASSUME NEW k \in Conns, conn'[k].at = "queued"
        PROVE  \E l \in 0..Children : k \in Range(acceptq'[l])
    <2>1. conn[k].at = "queued" /\ k \notin Range(acceptq[m])
      BY <1>1, <1>8
    <2>2. \E l \in 0..Children : k \in Range(acceptq[l])
      BY <2>1, <1>0 DEF MixInv, Placed
    <2>3. QED BY <2>1, <2>2, <1>3
  <1>9. QED BY <1>1, <1>3, <1>4, <1>5, <1>7, <1>8

LEMMA MixGoneKeeps ==
  ASSUME MixInv, MixGone PROVE MixInv'
  <1> USE MixAssumption DEF Mixed, Kids
  <1>0. /\ MixTypes /\ moving = <<>> /\ moving' = <<>> /\ Range(moving) = {} /\ 0 \in 0..Children
        /\ pc.at = "close" /\ pc.i = Children + 1
    BY RangeEmpty DEF MixInv, Placed, MixGone
  <1>1. /\ acceptq' = [acceptq EXCEPT ![0] = <<>>] /\ UNCHANGED <<owner, moving, late>>
        /\ conn' = [k \in Conns |-> IF k \in Range(acceptq[0])
                                    THEN [conn[k] EXCEPT !.at = "closed"] ELSE conn[k]]
        /\ state' = [state EXCEPT ![0] = "closed"]
        /\ pc' = [at |-> "done", i |-> 0, undo |-> pc.undo]
    BY <1>0 DEF MixGone, MixTypes, Go
  <1>2. /\ acceptq' \in [0..Children -> Seq(Conns)] /\ conn' \in [Conns -> Connection]
        /\ Range(acceptq'[0]) = {}
        /\ \A l \in 0..Children : Range(acceptq'[l]) \subseteq Range(acceptq[l])
        /\ \A k \in Conns : /\ conn'[k].child = conn[k].child /\ conn'[k].aim = conn[k].aim
                            /\ conn'[k].at # conn[k].at =>
                                 conn'[k].at = "closed" /\ conn[k].at # "new"
                            /\ Came(k) => Came(k)'
                            /\ conn'[k].at = "queued" =>
                                 \E l \in 0..Children : k \in Range(acceptq'[l])
    BY <1>0, <1>1, QueueClosed
  <1>3. /\ state' \in [0..Children -> {"none", "listening", "closing", "closed"}]
        /\ state'[0] = "closed" /\ \A c \in Kids : state'[c] = state[c]
    BY <1>0, <1>1 DEF MixTypes
  <1>4. MixTypes'
    BY <1>0, <1>1, <1>2, <1>3 DEF MixTypes
  <1>5. Progress' /\ Owned'
    BY <1>0, <1>1, <1>3 DEF MixInv, Progress, Owned
  <1>6. \A l \in 0..Children : Range(acceptq'[l]) \subseteq Conns
    BY <1>0, <1>2, RangesIn
  <1>7. Placed'
    <2>1. \A j \in Conns : conn'[j].at \in {"arrived", "aimed"} =>
            conn'[j].child \in Kids /\ state'[conn'[j].child] \in {"listening", "closing"}
      BY <1>2, <1>3 DEF MixInv, Placed
    <2>2. \A j \in Conns : conn'[j].at = "aimed" => conn'[j].aim \in {Mixed, conn'[j].child}
      BY <1>2 DEF MixInv, Placed
    <2>3. \A j \in Conns : conn'[j].at # "new" =>
            conn'[j].child \in Kids /\ state'[conn'[j].child] # "none"
      BY <1>2, <1>3 DEF MixInv, Placed
    <2>4. \A c \in Kids : \A j \in Range(acceptq'[c]) : conn'[j].child = c
      BY <1>2, <1>6 DEF MixInv, Placed
    <2>5. \A l \in 0..Children : \A j \in Range(acceptq'[l]) : Came(j)'
      BY <1>2, <1>6 DEF MixInv, Placed
    <2>6. QED BY <2>1, <2>2, <2>3, <2>4, <2>5, <1>0, <1>1, <1>2 DEF Placed
  <1>8. Emptied'
    <2> SUFFICES ASSUME NEW l \in 0..Children, state'[l] = "closed", NEW j \in Range(acceptq'[l])
                 PROVE  conn'[j].child \notin Stream
      BY DEF Emptied
    <2>1. l # 0
      BY <1>2
    <2>2. state[l] = "closed" /\ j \in Range(acceptq[l]) /\ j \in Conns
      BY <2>1, <1>2, <1>3, <1>6
    <2>3. QED BY <2>2, <1>2 DEF MixInv, Emptied
  <1>9. QED BY <1>4, <1>5, <1>7, <1>8 DEF MixInv

LEMMA ChildGoneKeeps ==
  ASSUME NEW c \in Kids, MixInv, ChildGone(c) PROVE MixInv'
  <1> USE MixAssumption DEF Mixed, Kids
  <1>0. /\ MixTypes /\ c \in 0..Children /\ state[c] = "closing" /\ Inside(c) = {}
        /\ pc.at \in {"close", "wait", "done"} /\ moving = <<>> /\ Range(moving) = {}
    BY RangeEmpty DEF MixInv, MixTypes, Progress, Placed, ChildGone
  <1>1. /\ acceptq' = [acceptq EXCEPT ![c] = <<>>] /\ UNCHANGED <<pc, owner, moving, late>>
        /\ conn' = [k \in Conns |-> IF k \in Range(acceptq[c])
                                    THEN [conn[k] EXCEPT !.at = "closed"] ELSE conn[k]]
        /\ state' = [state EXCEPT ![c] = "closed"]
    BY DEF ChildGone
  <1>2. /\ acceptq' \in [0..Children -> Seq(Conns)] /\ conn' \in [Conns -> Connection]
        /\ Range(acceptq'[c]) = {}
        /\ \A l \in 0..Children : Range(acceptq'[l]) \subseteq Range(acceptq[l])
        /\ \A k \in Conns : /\ conn'[k].child = conn[k].child /\ conn'[k].aim = conn[k].aim
                            /\ conn'[k].at # conn[k].at =>
                                 conn'[k].at = "closed" /\ conn[k].at # "new"
                            /\ Came(k) => Came(k)'
                            /\ conn'[k].at = "queued" =>
                                 \E l \in 0..Children : k \in Range(acceptq'[l])
    BY <1>0, <1>1, QueueClosed
  <1>3. /\ state' \in [0..Children -> {"none", "listening", "closing", "closed"}]
        /\ state'[c] = "closed" /\ \A l \in 0..Children : l # c => state'[l] = state[l]
    BY <1>0, <1>1 DEF MixTypes
  <1>4. MixTypes'
    BY <1>0, <1>1, <1>2, <1>3 DEF MixTypes
  <1>5. Progress' /\ Owned'
    BY <1>0, <1>1, <1>3 DEF MixInv, MixTypes, Progress, Owned
  <1>6. \A l \in 0..Children : Range(acceptq'[l]) \subseteq Conns
    BY <1>0, <1>2, RangesIn
  <1>7. Placed'
    <2>1. ASSUME NEW j \in Conns, conn'[j].at \in {"arrived", "aimed"}
          PROVE  conn'[j].child \in Kids /\ state'[conn'[j].child] \in {"listening", "closing"}
      <3>1. conn[j].at = conn'[j].at /\ conn[j].child = conn'[j].child
        BY <1>2, <2>1
      <3>2. conn[j].child # c
        BY <3>1, <2>1, <1>0 DEF Inside
      <3>3. QED BY <3>1, <3>2, <2>1, <1>3 DEF MixInv, Placed
    <2>2. \A j \in Conns : conn'[j].at = "aimed" => conn'[j].aim \in {Mixed, conn'[j].child}
      BY <1>2 DEF MixInv, Placed
    <2>3. ASSUME NEW j \in Conns, conn'[j].at # "new"
          PROVE  conn'[j].child \in Kids /\ state'[conn'[j].child] # "none"
      <3>1. conn[j].at # "new" /\ conn'[j].child = conn[j].child
        BY <1>2, <2>3
      <3>2. conn[j].child \in Kids /\ state[conn[j].child] # "none"
        BY <3>1 DEF MixInv, Placed
      <3>3. QED BY <3>1, <3>2, <1>3
    <2>4. ASSUME NEW d \in Kids, NEW j \in Range(acceptq'[d]) PROVE conn'[j].child = d
      <3>1. d \in 0..Children
        OBVIOUS
      <3>2. j \in Range(acceptq[d]) /\ j \in Conns
        BY <3>1, <1>2, <1>6
      <3>3. QED BY <3>2, <1>2 DEF MixInv, Placed
    <2>5. \A l \in 0..Children : \A j \in Range(acceptq'[l]) : Came(j)'
      BY <1>2, <1>6 DEF MixInv, Placed
    <2>6. QED BY <2>1, <2>2, <2>3, <2>4, <2>5, <1>0, <1>1, <1>2 DEF Placed
  <1>8. Emptied'
    <2> SUFFICES ASSUME NEW l \in 0..Children, state'[l] = "closed", NEW j \in Range(acceptq'[l])
                 PROVE  conn'[j].child \notin Stream
      BY DEF Emptied
    <2>1. l # c
      BY <1>2
    <2>2. QED BY <2>1, <1>2, <1>3, <1>6 DEF MixInv, Emptied
  <1>9. QED BY <1>4, <1>5, <1>7, <1>8 DEF MixInv

\* MixInv is an invariant of the mixed listener, for any number of children and of
\* connections.
THEOREM MixInvariant == MixSpec => []MixInv
  <1>1. MixInv /\ [MixNext]_mixvars => MixInv'
    <2> SUFFICES ASSUME MixInv, [MixNext]_mixvars PROVE MixInv'
      OBVIOUS
    <2>1. CASE UNCHANGED mixvars
      BY <2>1 DEF mixvars, MixInv, MixTypes, Progress, Owned, Placed, Came, Emptied
    <2>2. CASE \E k \in Conns : (\E c \in Kids : Arrive(k, c)) \/ ReadOwner(k) \/ acceptq_add(k)
      BY <2>2, ArriveKeeps, ReadOwnerKeeps, AddKeeps
    <2>3. CASE acceptq_rm_nohup
      BY <2>3, RemoveLast, RemoveOne
    <2>4. CASE Listen \/ ListenFails \/ SetOwner \/ Give \/ xaccept
      BY <2>4, ListenKeeps, ListenFailsKeeps, SetOwnerKeeps, GiveKeeps, AcceptKeeps
    <2>5. CASE xclose \/ CloseChild \/ NextChild \/ MixGone \/ \E c \in Kids : ChildGone(c)
      BY <2>5, CloseKeeps, CloseChildKeeps, NextChildKeeps, MixGoneKeeps, ChildGoneKeeps
    <2>6. QED BY <2>1, <2>2, <2>3, <2>4, <2>5 DEF MixNext
  <1>2. QED BY MixInitInv, <1>1, PTL DEF MixSpec

\* While it is open, a mixed listener has every connection of a child that is
\* bound in its own queue, but those queued late (mix_listener.c:50-55).
THEOREM MixServes == MixSpec => []Served
  <1>1. MixInv => Served
    <2> SUFFICES ASSUME MixInv, pc.at \in {"listen", "own", "drain"}, NEW k \in Conns,
                        conn[k].at = "queued", conn[k].child < pc.i
                 PROVE  k \in Range(acceptq[Mixed]) \cup late
      BY DEF Served
    <2> USE MixAssumption DEF Mixed, Kids
    <2>1. k \in Range(moving) \/ \E l \in 0..Children : k \in Range(acceptq[l])
      BY DEF MixInv, Placed
    <2>2. k \notin Range(moving)
      BY DEF MixInv, MixTypes, Placed
    <2>3. PICK l \in 0..Children : k \in Range(acceptq[l])
      BY <2>1, <2>2
    <2>4. CASE l = 0
      BY <2>3, <2>4
    <2>5. CASE l # 0
      <3>1. l \in Kids /\ conn[k].child = l
        BY <2>3, <2>5 DEF MixInv, Placed
      <3>2. QED BY <3>1, <2>3 DEF MixInv, Owned
    <2>6. QED BY <2>4, <2>5
  <1>2. QED BY MixInvariant, <1>1, PTL

\* No arrival through a child on stream sockets aims at a mixed listener that is
\* gone, and when all the listeners are closed each connection such a child had
\* queued was accepted or closed (mix_listener.c:71-88).
THEOREM MixLeavesNothing == MixSpec => []NothingLeft
  <1>1. MixInv => NothingLeft
    <2> SUFFICES ASSUME MixInv PROVE NothingLeft
      OBVIOUS
    <2> USE MixAssumption DEF Mixed, Kids
    <2>1. ASSUME NEW k \in Conns, conn[k].at = "aimed", conn[k].child \in Stream
          PROVE  state[Mixed] # "closed"
      <3>1. conn[k].child \in Kids /\ state[conn[k].child] # "closed"
        BY <2>1 DEF MixInv, Placed
      <3>2. pc.at # "done"
        BY <3>1, <2>1 DEF MixInv, Progress
      <3>3. QED BY <3>2 DEF MixInv, Progress
    <2>2. ASSUME \A l \in 0..Children : state[l] = "closed", NEW k \in Conns, conn[k].at = "queued"
          PROVE  conn[k].child \notin Stream
      <3>1. pc.at = "done"
        BY <2>2 DEF MixInv, Progress
      <3>2. Range(moving) = {}
        BY <3>1, RangeEmpty DEF MixInv, Placed
      <3>3. PICK l \in 0..Children : k \in Range(acceptq[l])
        BY <3>2, <2>2 DEF MixInv, Placed
      <3>4. QED BY <3>3, <2>2 DEF MixInv, Emptied
    <2>3. QED BY <2>1, <2>2 DEF NothingLeft
  <1>2. QED BY MixInvariant, <1>1, PTL

\* The two together: a mixed listener loses no connection (mix_listener.c:31-88).
THEOREM MixCorrect == MixSpec => []MixSound
  <1>1. Served /\ NothingLeft => MixSound
    BY DEF MixSound
  <1>2. QED BY MixServes, MixLeavesNothing, <1>1, PTL

----------------------------------------------------------------------------
(* Rex.                                                                    *)

Names == Hosts \cup Paths \cup Addrs \cup {""}
RexSock == [family : {"none", "tcp", "local"}, fd : Fds \cup {None}, passive : BOOLEAN,
            addr : Names, use : {"new", "listen", "conn"}, host : Names]
Descriptor == [kind : {"free", "listen", "conn"}, addr : Names, waiting : Int]
Kernel == [fd : [Fds -> Descriptor], file : [Paths -> Fds \cup {None, Dead}]]

RexTypes ==
    /\ rs \in [Socks -> RexSock]
    /\ \A s \in Socks : rs[s].use = "listen" => rs[s].fd \in Fds
    /\ kern \in Kernel
    /\ closed \in [Socks -> Fds \cup {None}]
    /\ reused \in BOOLEAN
    /\ left \subseteq Paths

\* A socket that is used has a descriptor of its kind, and is of a family; only
\* one that was accepted may be without.  A socket that is new has none.
SocksRight(r, k) ==
    \A s \in Socks :
        /\ r[s].use = "new" => r[s].fd = None
        /\ r[s].use # "new" => r[s].family # "none"
        /\ r[s].passive <=> r[s].use = "listen"
        /\ r[s].use # "new" =>
             \/ r[s].fd \in Fds /\ k.fd[r[s].fd].kind = r[s].use
             \/ r[s].fd = None /\ r[s].use = "conn"

\* A descriptor that is open belongs to one socket.
FdsRight(r, k) ==
    /\ \A f \in Fds : k.fd[f].kind # "free" => \E s \in Socks : r[s].fd = f
    /\ \A s, t \in Socks : r[s].fd \in Fds /\ r[s].fd = r[t].fd => s = t

\* A number a failed rex_tcp_listen still holds is not open.
ClosedRight(c, r, k) ==
    \A s \in Socks : c[s] # None => k.fd[c[s]].kind = "free" /\ r[s].use = "new"

\* A file leads to the local listener that was bound to it, or is left of a crash.
FilesRight(r, k, d) ==
    \A p \in Paths :
        \/ k.file[p] = None
        \/ k.file[p] = Dead /\ p \in d
        \/ /\ k.file[p] \in Fds /\ k.fd[k.file[p]].kind = "listen"
           /\ \A s \in Socks : r[s].fd = k.file[p] => r[s].family = "local" /\ r[s].addr = p

RexInv ==
    /\ RexTypes
    /\ ~reused => /\ SocksRight(rs, kern) /\ FdsRight(rs, kern)
                  /\ ClosedRight(closed, rs, kern) /\ FilesRight(rs, kern, left)

(* The least of a set of numbers exists: the lowest free descriptor.       *)
LEMMA LeastExists ==
  ASSUME NEW S \in SUBSET Nat, S # {}
  PROVE  \E n \in S : \A m \in S : n <= m
  <1> DEFINE Less == {ss \in Nat \X Nat : ss[1] < ss[2]}
  <1>1. IsWellFoundedOn(Less, Nat)
    BY NatLessThanWellFounded DEF OpToRel
  <1>2. \E n \in S : \A m \in S : <<m, n>> \notin Less
    <2> HIDE DEF Less
    <2> QED BY <1>1, WFMin
  <1>3. PICK n \in S : \A m \in S : <<m, n>> \notin Less
    BY <1>2
  <1>4. \A m \in S : n <= m
    <2> SUFFICES ASSUME NEW m \in S PROVE n <= m
      OBVIOUS
    <2>1. m \in Nat /\ n \in Nat
      OBVIOUS
    <2>2. ~(m < n)
      BY <1>3, <2>1
    <2>3. QED BY <2>1, <2>2
  <1>5. QED BY <1>4

\* The lowest free number is free, if there is one.
LEMMA NewFdFree ==
  ASSUME NEW k \in Kernel
  PROVE  NewFd(k) = None \/ (NewFd(k) \in Fds /\ k.fd[NewFd(k)].kind = "free")
  <1> DEFINE free == {f \in Fds : k.fd[f].kind = "free"}
  <1>0. NewFd(k) = IF free = {} THEN None ELSE CHOOSE f \in free : \A g \in free : f <= g
    BY DEF NewFd
  <1>1. CASE free = {}
    BY <1>0, <1>1
  <1>2. CASE free # {}
    <2>1. free \in SUBSET Nat
      BY RexAssumption
    <2>2. \E f \in free : \A g \in free : f <= g
      <3> HIDE DEF free
      <3> QED BY <1>2, <2>1, LeastExists
    <2>3. NewFd(k) = CHOOSE f \in free : \A g \in free : f <= g
      BY <1>0, <1>2
    <2>4. NewFd(k) \in free
      <3> HIDE DEF free
      <3> QED BY <2>2, <2>3
    <2>5. QED BY <2>4
  <1>3. QED BY <1>1, <1>2

LEMMA NoneIsNoFd == None \notin Fds /\ Dead \notin Fds /\ None # Dead
  BY RexAssumption DEF None, Dead

LEMMA OpenFd ==
  ASSUME NEW k \in Kernel, NEW f \in Fds, NEW kind \in {"listen", "conn"}, NEW a \in Names
  PROVE  /\ Open(k, f, kind, a) \in Kernel
         /\ Open(k, f, kind, a).fd[f].kind = kind
         /\ \A g \in Fds : g # f => Open(k, f, kind, a).fd[g] = k.fd[g]
         /\ Open(k, f, kind, a).file = k.file
  BY DEF Open, Kernel, Descriptor

LEMMA FreeTyped == Free \in Descriptor
  BY DEF Free, Descriptor, Names

LEMMA CloseFd ==
  ASSUME NEW k \in Kernel, NEW f \in Fds \cup {None}
  PROVE  /\ close(k, f) \in Kernel
         /\ \A g \in Fds : close(k, f).fd[g].kind = IF g = f THEN "free" ELSE k.fd[g].kind
         /\ \A p \in Paths : close(k, f).file[p] =
              IF f \in Fds /\ k.file[p] = f THEN Dead ELSE k.file[p]
  <1>1. Free \in Descriptor /\ Free.kind = "free"
    BY FreeTyped DEF Free
  <1>2. QED BY <1>1 DEF close, Kernel

LEMMA UnlinkFd ==
  ASSUME NEW k \in Kernel, NEW p
  PROVE  /\ unlink(k, p) \in Kernel
         /\ unlink(k, p).fd = k.fd
         /\ \A o \in Paths : unlink(k, p).file[o] = IF o = p THEN None ELSE k.file[o]
  BY DEF unlink, Kernel

LEMMA ReachFd ==
  ASSUME NEW k \in Kernel, NEW f \in Fds, NEW m \in Fds, k.fd[f].kind = "free", k.fd[m].kind = "listen"
  PROVE  /\ Reach(k, f, m) \in Kernel
         /\ Reach(k, f, m).fd[f].kind = "conn"
         /\ \A g \in Fds : g # f => Reach(k, f, m).fd[g].kind = k.fd[g].kind
         /\ Reach(k, f, m).file = k.file
  <1>1. PICK a \in Names : a = k.fd[m].addr
    BY DEF Kernel, Descriptor
  <1>2. PICK o \in Kernel : o = Open(k, f, "conn", a)
    <2>1. Open(k, f, "conn", a) \in Kernel
      BY OpenFd
    <2>2. QED BY <2>1
  <1>3. /\ o.fd[f].kind = "conn" /\ o.file = k.file
        /\ \A g \in Fds : g # f => o.fd[g] = k.fd[g]
    <2>1. "conn" \in {"listen", "conn"}
      OBVIOUS
    <2>2. /\ Open(k, f, "conn", a).fd[f].kind = "conn" /\ Open(k, f, "conn", a).file = k.file
          /\ \A g \in Fds : g # f => Open(k, f, "conn", a).fd[g] = k.fd[g]
      BY <2>1, OpenFd
    <2>3. QED BY <1>2, <2>2
  <1>4. Reach(k, f, m) = [o EXCEPT !.fd[m].waiting = @ + 1]
    BY <1>1, <1>2 DEF Reach
  <1>5. o.fd \in [Fds -> Descriptor] /\ o.fd[m] \in Descriptor /\ m # f
    BY DEF Kernel
  <1>6. PICK w \in Descriptor : w = [o.fd[m] EXCEPT !.waiting = @ + 1]
    <2>1. [o.fd[m] EXCEPT !.waiting = @ + 1] \in Descriptor
      BY <1>5 DEF Descriptor
    <2>2. QED BY <2>1
  <1>7. w.kind = o.fd[m].kind
    BY <1>5, <1>6 DEF Descriptor
  <1>8. Reach(k, f, m) = [o EXCEPT !.fd = [o.fd EXCEPT ![m] = w]]
    BY <1>4, <1>6
  <1>9. PICK z \in [Fds -> Descriptor] : z = [o.fd EXCEPT ![m] = w]
    <2>1. [o.fd EXCEPT ![m] = w] \in [Fds -> Descriptor]
      BY <1>5
    <2>2. QED BY <2>1
  <1>10. \A g \in Fds : z[g].kind = o.fd[g].kind
    BY <1>5, <1>7, <1>9
  <1>11. Reach(k, f, m) = [o EXCEPT !.fd = z]
    BY <1>8, <1>9
  <1>12. Reach(k, f, m) \in Kernel /\ Reach(k, f, m).fd = z /\ Reach(k, f, m).file = o.file
    BY <1>11 DEF Kernel
  <1>13. QED BY <1>3, <1>10, <1>12

\* The descriptors a connect reaches are listening.
LEMMA ReachableListens ==
  ASSUME NEW k, NEW a, NEW m \in Reachable(k, a)
  PROVE  m \in Fds /\ k.fd[m].kind = "listen"
  BY DEF Reachable, ListenerAt

LEMMA RexInitInv == RexInit => RexInv
  <1> SUFFICES ASSUME RexInit PROVE RexInv
    OBVIOUS
  <1> USE DEF RexInit
  <1>1. Unused \in RexSock /\ Free \in Descriptor
    <2>1. "" \in Names /\ None \in Fds \cup {None}
      BY DEF Names
    <2>2. Unused \in RexSock
      BY <2>1 DEF Unused, RexSock
    <2>3. Free \in Descriptor
      BY FreeTyped
    <2>4. QED BY <2>2, <2>3
  <1>2. RexTypes
    BY <1>1 DEF RexTypes, Kernel, Unused
  <1>3. \A s \in Socks : rs[s] = Unused
    OBVIOUS
  <1>4. SocksRight(rs, kern) /\ FdsRight(rs, kern)
    BY <1>3, NoneIsNoFd DEF SocksRight, FdsRight, Unused, Free
  <1>5. ClosedRight(closed, rs, kern) /\ FilesRight(rs, kern, left)
    BY DEF ClosedRight, FilesRight
  <1>6. QED BY <1>2, <1>4, <1>5 DEF RexInv

\* From k to k1 the descriptor f came to be of a kind, and the others stayed.
Turned(k1, k, f, kind) ==
    k1.fd[f].kind = kind /\ \A g \in Fds : g # f => k1.fd[g].kind = k.fd[g].kind

NotOpen(c, k) == \A t \in Socks : c[t] # None => k.fd[c[t]].kind = "free"

\* A socket that was new gets the free descriptor f.
LEMMA TakesUp ==
  ASSUME NEW r \in [Socks -> RexSock], NEW k \in Kernel, NEW c \in [Socks -> Fds \cup {None}],
         SocksRight(r, k), FdsRight(r, k), ClosedRight(c, r, k),
         NEW s \in Socks, r[s].use = "new", c[s] = None,
         NEW f \in Fds, k.fd[f].kind = "free",
         NEW x \in RexSock, x.fd = f, x.use \in {"listen", "conn"}, x.family # "none",
         x.passive <=> x.use = "listen",
         NEW k1 \in Kernel, Turned(k1, k, f, x.use), NotOpen(c, k1),
         NEW r1, r1 = [r EXCEPT ![s] = x]
  PROVE  /\ r1 \in [Socks -> RexSock]
         /\ SocksRight(r1, k1) /\ FdsRight(r1, k1) /\ ClosedRight(c, r1, k1)
  <1> USE DEF Turned, NotOpen
  <1>1. r1 \in [Socks -> RexSock] /\ r1[s] = x /\ \A t \in Socks : t # s => r1[t] = r[t]
    OBVIOUS
  <1>2. \A t \in Socks : r[t].fd # f
    BY NoneIsNoFd DEF SocksRight, RexSock
  <1>3. SocksRight(r1, k1)
    <2> SUFFICES ASSUME NEW t \in Socks
                 PROVE  /\ r1[t].use = "new" => r1[t].fd = None
                        /\ r1[t].use # "new" => r1[t].family # "none"
                        /\ r1[t].passive <=> r1[t].use = "listen"
                        /\ r1[t].use # "new" =>
                             \/ r1[t].fd \in Fds /\ k1.fd[r1[t].fd].kind = r1[t].use
                             \/ r1[t].fd = None /\ r1[t].use = "conn"
      BY DEF SocksRight
    <2>1. CASE t = s
      BY <2>1, <1>1
    <2>2. CASE t # s
      BY <2>2, <1>1, <1>2 DEF SocksRight
    <2>3. QED BY <2>1, <2>2
  <1>4. FdsRight(r1, k1)
    <2>1. ASSUME NEW g \in Fds, k1.fd[g].kind # "free" PROVE \E t \in Socks : r1[t].fd = g
      <3>1. CASE g = f
        BY <3>1, <1>1
      <3>2. CASE g # f
        <4>1. PICK t \in Socks : r[t].fd = g
          BY <3>2, <2>1 DEF FdsRight
        <4>2. t # s
          BY <4>1, NoneIsNoFd DEF SocksRight
        <4>3. QED BY <4>1, <4>2, <1>1
      <3>3. QED BY <3>1, <3>2
    <2>2. ASSUME NEW t \in Socks, NEW u \in Socks, r1[t].fd \in Fds, r1[t].fd = r1[u].fd
          PROVE  t = u
      <3>1. CASE t # s /\ u # s
        BY <3>1, <2>2, <1>1 DEF FdsRight
      <3>2. CASE t = s /\ u # s
        BY <3>2, <2>2, <1>1, <1>2
      <3>3. CASE t # s /\ u = s
        BY <3>3, <2>2, <1>1, <1>2
      <3>4. QED BY <3>1, <3>2, <3>3
    <2>3. QED BY <2>1, <2>2 DEF FdsRight
  <1>5. ClosedRight(c, r1, k1)
    BY <1>1 DEF ClosedRight
  <1>6. QED BY <1>1, <1>3, <1>4, <1>5

\* The files stay right when a socket that was new gets the free descriptor f, and
\* no file changes, or the one of the socket's path.
LEMMA FilesKept ==
  ASSUME NEW r \in [Socks -> RexSock], NEW k \in Kernel, NEW d,
         FilesRight(r, k, d), NEW s \in Socks,
         NEW f \in Fds, k.fd[f].kind = "free",
         NEW x \in RexSock, x.fd = f,
         NEW k1 \in Kernel,
         \A g \in Fds : g # f => k1.fd[g].kind = k.fd[g].kind,
         k1.file = k.file,
         NEW r1, r1 = [r EXCEPT ![s] = x]
  PROVE  FilesRight(r1, k1, d)
  <1> SUFFICES ASSUME NEW p \in Paths, k.file[p] # None, ~(k.file[p] = Dead /\ p \in d)
               PROVE  /\ k1.file[p] \in Fds /\ k1.fd[k1.file[p]].kind = "listen"
                      /\ \A t \in Socks : r1[t].fd = k1.file[p] =>
                           r1[t].family = "local" /\ r1[t].addr = p
    BY DEF FilesRight
  <1>1. /\ k.file[p] \in Fds /\ k.fd[k.file[p]].kind = "listen"
        /\ \A t \in Socks : r[t].fd = k.file[p] => r[t].family = "local" /\ r[t].addr = p
    BY DEF FilesRight
  <1>2. k.file[p] # f
    BY <1>1
  <1>3. r1[s] = x /\ \A t \in Socks : t # s => r1[t] = r[t]
    OBVIOUS
  <1>4. QED BY <1>1, <1>2, <1>3


Freed(k1, k, f) ==
    \A g \in Fds : k1.fd[g].kind = IF g = f THEN "free" ELSE k.fd[g].kind

\* A socket becomes new again, and its descriptor is closed if it had one.
LEMMA GivesUp ==
  ASSUME NEW r \in [Socks -> RexSock], NEW k \in Kernel, NEW c \in [Socks -> Fds \cup {None}],
         SocksRight(r, k), FdsRight(r, k), ClosedRight(c, r, k),
         NEW s \in Socks, NEW x \in RexSock, x.fd = None, x.use = "new", ~x.passive,
         NEW k1 \in Kernel, Freed(k1, k, r[s].fd),
         NEW r1, r1 = [r EXCEPT ![s] = x]
  PROVE  /\ r1 \in [Socks -> RexSock]
         /\ SocksRight(r1, k1) /\ FdsRight(r1, k1) /\ ClosedRight(c, r1, k1)
  <1> USE DEF Freed
  <1>1. r1 \in [Socks -> RexSock] /\ r1[s] = x /\ \A t \in Socks : t # s => r1[t] = r[t]
    OBVIOUS
  <1>2. \A t \in Socks : t # s /\ r[t].fd \in Fds => r[t].fd # r[s].fd
    BY DEF FdsRight
  <1>3. SocksRight(r1, k1)
    <2> SUFFICES ASSUME NEW t \in Socks
                 PROVE  /\ r1[t].use = "new" => r1[t].fd = None
                        /\ r1[t].use # "new" => r1[t].family # "none"
                        /\ r1[t].passive <=> r1[t].use = "listen"
                        /\ r1[t].use # "new" =>
                             \/ r1[t].fd \in Fds /\ k1.fd[r1[t].fd].kind = r1[t].use
                             \/ r1[t].fd = None /\ r1[t].use = "conn"
      BY DEF SocksRight
    <2>1. CASE t = s
      BY <2>1, <1>1
    <2>2. CASE t # s
      BY <2>2, <1>1, <1>2 DEF SocksRight
    <2>3. QED BY <2>1, <2>2
  <1>4. FdsRight(r1, k1)
    <2>1. ASSUME NEW g \in Fds, k1.fd[g].kind # "free" PROVE \E t \in Socks : r1[t].fd = g
      <3>1. g # r[s].fd /\ k.fd[g].kind # "free"
        BY <2>1
      <3>2. PICK t \in Socks : r[t].fd = g
        BY <3>1 DEF FdsRight
      <3>3. QED BY <3>1, <3>2, <1>1
    <2>2. ASSUME NEW t \in Socks, NEW u \in Socks, r1[t].fd \in Fds, r1[t].fd = r1[u].fd
          PROVE  t = u
      <3>1. t # s /\ u # s
        BY <2>2, <1>1, NoneIsNoFd
      <3>2. QED BY <3>1, <2>2, <1>1 DEF FdsRight
    <2>3. QED BY <2>1, <2>2 DEF FdsRight
  <1>5. ClosedRight(c, r1, k1)
    <2> SUFFICES ASSUME NEW t \in Socks, c[t] # None
                 PROVE  k1.fd[c[t]].kind = "free" /\ r1[t].use = "new"
      BY DEF ClosedRight
    <2>1. c[t] \in Fds /\ k.fd[c[t]].kind = "free" /\ r[t].use = "new"
      BY DEF ClosedRight
    <2>2. QED BY <2>1, <1>1
  <1>6. QED BY <1>1, <1>3, <1>4, <1>5

LEMMA InitKeeps ==
  ASSUME NEW s \in Socks, NEW family \in {"tcp", "local"}, RexInv, rex_sock_init(s, family)
  PROVE  RexInv'
  <1>1. RexTypes /\ UNCHANGED <<kern, closed, reused, left>> /\ rs[s].family = "none"
    BY DEF RexInv, rex_sock_init
  <1>2. PICK x \in RexSock : x = [Unused EXCEPT !.family = family]
    <2>1. [Unused EXCEPT !.family = family] \in RexSock
      BY DEF Unused, RexSock, Names
    <2>2. QED BY <2>1
  <1>3. x.fd = None /\ x.use = "new" /\ ~x.passive
    BY <1>2 DEF Unused
  <1>4. rs' = [rs EXCEPT ![s] = x]
    BY <1>2 DEF rex_sock_init
  <1>5. RexTypes'
    BY <1>1, <1>3, <1>4 DEF RexTypes
  <1>6. ASSUME ~reused
        PROVE  /\ SocksRight(rs', kern) /\ FdsRight(rs', kern)
               /\ ClosedRight(closed, rs', kern) /\ FilesRight(rs', kern, left)
    <2>1. /\ SocksRight(rs, kern) /\ FdsRight(rs, kern)
          /\ ClosedRight(closed, rs, kern) /\ FilesRight(rs, kern, left)
      BY <1>6 DEF RexInv
    <2>2. rs[s].fd = None
      BY <1>1, <2>1 DEF SocksRight
    <2>3. /\ rs \in [Socks -> RexSock] /\ kern \in Kernel
          /\ closed \in [Socks -> Fds \cup {None}]
          /\ Freed(kern, kern, rs[s].fd)
      BY <1>1, <2>2, NoneIsNoFd DEF RexTypes, Freed
    <2>4. SocksRight(rs', kern) /\ FdsRight(rs', kern) /\ ClosedRight(closed, rs', kern)
      BY <1>3, <1>4, <2>1, <2>3, GivesUp
    <2>5. FilesRight(rs', kern, left)
      <3>1. rs'[s].fd = None /\ \A t \in Socks : t # s => rs'[t] = rs[t]
        BY <1>3, <1>4, <2>3
      <3>2. QED BY <3>1, <2>1, NoneIsNoFd DEF FilesRight
    <2>6. QED BY <2>4, <2>5
  <1>7. QED BY <1>1, <1>5, <1>6 DEF RexInv

LEMMA DestroyKeeps ==
  ASSUME NEW s \in Socks, RexInv, rex_sock_destroy(s) PROVE RexInv'
  <1>1. /\ RexTypes /\ UNCHANGED <<closed, reused, left>> /\ rs[s].family # "none"
        /\ rs \in [Socks -> RexSock] /\ kern \in Kernel /\ closed \in [Socks -> Fds \cup {None}]
        /\ rs' = [rs EXCEPT ![s] = Unused]
    BY DEF RexInv, RexTypes, rex_sock_destroy
  <1>2. PICK f \in Fds \cup {None} : f = rs[s].fd /\ rs[s].family \in {"tcp", "local"}
    BY <1>1 DEF RexSock
  <1>3. PICK k \in Kernel : k = close(kern, f)
    <2>1. close(kern, f) \in Kernel
      BY <1>1, CloseFd
    <2>2. QED BY <2>1
  <1>4. /\ \A g \in Fds : k.fd[g].kind = IF g = f THEN "free" ELSE kern.fd[g].kind
        /\ \A p \in Paths : k.file[p] = IF f \in Fds /\ kern.file[p] = f THEN Dead ELSE kern.file[p]
    BY <1>1, <1>3, CloseFd
  <1>5. PICK a : a = rs[s].addr
    OBVIOUS
  <1>6. kern' = k \/ (rs[s].family = "local" /\ rs[s].passive /\ kern' = unlink(k, a))
    BY <1>2, <1>3, <1>5 DEF rex_sock_destroy, rex_tcp_destroy, rex_unix_destroy
  <1>7. rs[s].family = "local" /\ rs[s].passive => kern' = unlink(k, a)
    BY <1>2, <1>3, <1>5 DEF rex_sock_destroy, rex_tcp_destroy, rex_unix_destroy
  <1>8. /\ unlink(k, a) \in Kernel /\ unlink(k, a).fd = k.fd
        /\ \A o \in Paths : unlink(k, a).file[o] = IF o = a THEN None ELSE k.file[o]
    BY UnlinkFd
  <1>9. /\ kern' \in Kernel
        /\ \A g \in Fds : kern'.fd[g].kind = IF g = rs[s].fd THEN "free" ELSE kern.fd[g].kind
    BY <1>2, <1>4, <1>6, <1>8
  <1>10. Unused \in RexSock /\ Unused.fd = None /\ Unused.use = "new" /\ ~Unused.passive
    BY DEF Unused, RexSock, Names
  <1>11. RexTypes'
    BY <1>1, <1>9, <1>10 DEF RexTypes
  <1>12. ASSUME ~reused
         PROVE  /\ SocksRight(rs', kern') /\ FdsRight(rs', kern')
                /\ ClosedRight(closed, rs', kern') /\ FilesRight(rs', kern', left)
    <2>1. /\ SocksRight(rs, kern) /\ FdsRight(rs, kern)
          /\ ClosedRight(closed, rs, kern) /\ FilesRight(rs, kern, left)
      BY <1>12 DEF RexInv
    <2>2. SocksRight(rs', kern') /\ FdsRight(rs', kern') /\ ClosedRight(closed, rs', kern')
      <3>1. PICK k1 \in Kernel, r1 \in [Socks -> RexSock], x \in RexSock :
              k1 = kern' /\ r1 = rs' /\ x = Unused
        BY <1>1, <1>9, <1>10
      <3>2. x.fd = None /\ x.use = "new" /\ ~x.passive
        BY <3>1, <1>10
      <3>3. r1 = [rs EXCEPT ![s] = x]
        BY <3>1, <1>1
      <3>4. Freed(k1, kern, rs[s].fd)
        BY <3>1, <1>9 DEF Freed
      <3>5. SocksRight(r1, k1) /\ FdsRight(r1, k1) /\ ClosedRight(closed, r1, k1)
        BY <1>1, <3>2, <3>3, <3>4, <2>1, GivesUp
      <3>6. QED BY <3>1, <3>5
    <2>3. FilesRight(rs', kern', left)
      <3> SUFFICES ASSUME NEW p \in Paths
                   PROVE  \/ kern'.file[p] = None
                          \/ kern'.file[p] = Dead /\ p \in left
                          \/ /\ kern'.file[p] \in Fds /\ kern'.fd[kern'.file[p]].kind = "listen"
                             /\ \A t \in Socks : rs'[t].fd = kern'.file[p] =>
                                  rs'[t].family = "local" /\ rs'[t].addr = p
        BY DEF FilesRight
      <3>1. CASE kern.file[p] = f /\ f \in Fds
        <4>1. kern.fd[f].kind = "listen" /\ rs[s].family = "local" /\ rs[s].addr = p
          BY <3>1, <2>1, <1>2, NoneIsNoFd DEF FilesRight
        <4>2. rs[s].passive
          BY <4>1, <2>1, <1>2, <3>1, NoneIsNoFd DEF SocksRight
        <4>3. QED BY <4>1, <4>2, <1>5, <1>7, <1>8
      <3>2. CASE ~(kern.file[p] = f /\ f \in Fds)
        <4>1. k.file[p] = kern.file[p]
          BY <3>2, <1>4
        <4>2. kern'.file[p] = None \/ kern'.file[p] = kern.file[p]
          BY <4>1, <1>6, <1>8
        <4>3. \A t \in Socks : rs'[t] = IF t = s THEN Unused ELSE rs[t]
          BY <1>1
        <4>4. CASE kern'.file[p] = kern.file[p] /\ kern.file[p] \in Fds
          <5>1. kern.fd[kern.file[p]].kind = "listen" /\ kern.file[p] # rs[s].fd
            BY <4>4, <3>2, <1>2, <2>1, NoneIsNoFd DEF FilesRight
          <5>2. kern'.fd[kern.file[p]].kind = "listen"
            BY <5>1, <1>9, <4>4
          <5>3. \A t \in Socks : rs'[t].fd = kern.file[p] => rs'[t].family = "local" /\ rs'[t].addr = p
            BY <4>3, <4>4, <1>10, <2>1, NoneIsNoFd DEF FilesRight
          <5>4. QED BY <4>4, <5>2, <5>3
        <4>5. QED BY <4>2, <4>4, <2>1 DEF FilesRight
      <3>3. QED BY <3>1, <3>2
    <2>4. QED BY <2>2, <2>3
  <1>13. QED BY <1>1, <1>11, <1>12 DEF RexInv

\* What Reuse leaves of the numbers that failed listens hold.
LEMMA NotReused ==
  ASSUME NEW k, ~Reuse(k)
  PROVE  ~reused /\ \A t \in Socks : closed[t] # None => k.fd[closed[t]].kind = "free"
  BY DEF Reuse

\* A new socket takes a free descriptor: the step of listen, connect and accept.
LEMMA TakesKeeps ==
  ASSUME RexInv, NEW s \in Socks, rs[s].use = "new", closed[s] = None,
         NEW f \in Fds, kern.fd[f].kind = "free",
         NEW x \in RexSock, x.fd = f, x.use \in {"listen", "conn"},
         ~reused => x.family # "none" /\ (x.passive <=> x.use = "listen"),
         NEW k1 \in Kernel, Turned(k1, kern, f, x.use),
         rs' = [rs EXCEPT ![s] = x], kern' = k1, closed' = closed, reused' = Reuse(k1),
         left' \subseteq Paths,
         ~reused => (k1.file = kern.file /\ left' = left) \/ FilesRight(rs', k1, left')
  PROVE  RexInv'
  <1>1. RexTypes /\ rs \in [Socks -> RexSock] /\ kern \in Kernel /\ closed \in [Socks -> Fds \cup {None}]
    BY DEF RexInv, RexTypes
  <1>2. RexTypes'
    <2>1. rs' \in [Socks -> RexSock] /\ kern' \in Kernel
      BY <1>1
    <2>2. \A t \in Socks : rs'[t].use = "listen" => rs'[t].fd \in Fds
      BY <1>1 DEF RexTypes
    <2>3. QED BY <1>1, <2>1, <2>2 DEF RexTypes, Reuse
  <1>3. ASSUME ~reused'
        PROVE  /\ SocksRight(rs', kern') /\ FdsRight(rs', kern')
               /\ ClosedRight(closed', rs', kern') /\ FilesRight(rs', kern', left')
    <2>1. ~reused /\ NotOpen(closed, k1)
      BY <1>3, NotReused DEF NotOpen
    <2>2. /\ SocksRight(rs, kern) /\ FdsRight(rs, kern)
          /\ ClosedRight(closed, rs, kern) /\ FilesRight(rs, kern, left)
      BY <2>1 DEF RexInv
    <2>3. SocksRight(rs', k1) /\ FdsRight(rs', k1) /\ ClosedRight(closed, rs', k1)
      <3>1. PICK r1 \in [Socks -> RexSock] : r1 = rs'
        BY <1>1
      <3>2. r1 = [rs EXCEPT ![s] = x]
        BY <3>1
      <3>3. SocksRight(r1, k1) /\ FdsRight(r1, k1) /\ ClosedRight(closed, r1, k1)
        <4>1. x.family # "none" /\ (x.passive <=> x.use = "listen")
          BY <2>1
        <4>2. QED BY <4>1, <1>1, <2>1, <2>2, <3>2, TakesUp
      <3>4. QED BY <3>1, <3>3
    <2>4. FilesRight(rs', k1, left')
      <3>1. CASE k1.file = kern.file /\ left' = left
        <4>1. \A g \in Fds : g # f => k1.fd[g].kind = kern.fd[g].kind
          BY DEF Turned
        <4>2. FilesRight(rs', k1, left)
          BY <3>1, <4>1, <1>1, <2>2, FilesKept
        <4>3. QED BY <4>2, <3>1
      <3>2. QED BY <3>1, <2>1
    <2>5. QED BY <2>3, <2>4
  <1>4. QED BY <1>2, <1>3 DEF RexInv

LEMMA FirstIn ==
  ASSUME NEW host \in Hosts, NEW S \in SUBSET Range(Resolve[host]), NEW a \in FirstOf(host, S)
  PROVE  a \in S /\ a \in Names
  <1>1. a \in S
    BY DEF FirstOf
  <1>2. a \in Range(Resolve[host])
    BY <1>1
  <1>3. Range(Resolve[host]) \in {Range(Resolve[h]) : h \in Hosts}
    OBVIOUS
  <1>4. a \in Addrs
    BY <1>2, <1>3 DEF Addrs
  <1>5. QED BY <1>1, <1>4 DEF Names

\* What a socket is while it is new.
LEMMA NewSock ==
  ASSUME RexTypes, NEW s \in Socks, NEW family \in {"tcp", "local"}, New(s, family)
  PROVE  rs[s] \in RexSock /\ rs[s].use = "new" /\ closed[s] = None /\ rs[s].family = family
  BY DEF RexTypes, New

\* Sockets that differ in the name of a failing rex_tcp_listen alone are as right.
Renamed(r1, r) ==
    \A t \in Socks :
        /\ r1[t].fd = r[t].fd /\ r1[t].use = r[t].use /\ r1[t].passive = r[t].passive
        /\ r1[t].family = r[t].family /\ r1[t].addr = r[t].addr

LEMMA RenamedRight ==
  ASSUME NEW r, NEW r1, Renamed(r1, r), NEW k, NEW c, NEW d
  PROVE  /\ SocksRight(r, k) => SocksRight(r1, k)
         /\ FdsRight(r, k) => FdsRight(r1, k)
         /\ ClosedRight(c, r, k) => ClosedRight(c, r1, k)
         /\ FilesRight(r, k, d) => FilesRight(r1, k, d)
  BY DEF Renamed, SocksRight, FdsRight, ClosedRight, FilesRight

LEMMA NamesHost ==
  ASSUME rs \in [Socks -> RexSock], NEW s \in Socks, NEW h \in Names,
         rs' = [rs EXCEPT ![s].host = h]
  PROVE  rs' \in [Socks -> RexSock] /\ Renamed(rs', rs)
  <1>1. rs[s] \in RexSock
    OBVIOUS
  <1>2. PICK x \in RexSock : x = [rs[s] EXCEPT !.host = h]
    <2>1. [rs[s] EXCEPT !.host = h] \in RexSock
      BY <1>1 DEF RexSock
    <2>2. QED BY <2>1
  <1>3. /\ x.fd = rs[s].fd /\ x.use = rs[s].use /\ x.passive = rs[s].passive
        /\ x.family = rs[s].family /\ x.addr = rs[s].addr
    BY <1>1, <1>2 DEF RexSock
  <1>4. rs' = [rs EXCEPT ![s] = x]
    BY <1>2
  <1>5. QED BY <1>3, <1>4 DEF Renamed

LEMMA ListenKeepsFds ==
  ASSUME NEW s \in Socks, NEW host \in Hosts, RexInv, rex_tcp_listen(s, host)
  PROVE  RexInv'
  <1> DEFINE unbound == {a \in Range(Resolve[host]) : ListenerAt(kern, a) = {}}
  <1>1. PICK f : f = NewFd(kern)
    OBVIOUS
  <1>2. /\ RexTypes /\ kern \in Kernel /\ rs \in [Socks -> RexSock]
        /\ closed \in [Socks -> Fds \cup {None}]
    BY DEF RexInv, RexTypes
  <1>3. f = None \/ (f \in Fds /\ kern.fd[f].kind = "free")
    BY <1>1, <1>2, NewFdFree
  <1>4. rs[s] \in RexSock /\ rs[s].use = "new" /\ closed[s] = None /\ rs[s].family = "tcp"
    BY <1>2, NewSock DEF rex_tcp_listen
  <1>5. reused' = Reuse(kern') /\ left' = left
    BY DEF rex_tcp_listen
  <1>6. ASSUME f # None, NEW a \in FirstOf(host, unbound), kern' = Open(kern, f, "listen", a),
               Listening(s, f, host), closed' = closed
        PROVE  RexInv'
    <2>1. a \in Names
      <3>1. unbound \in SUBSET Range(Resolve[host])
        OBVIOUS
      <3>2. QED
        <4> HIDE DEF unbound
        <4> QED BY <1>6, <3>1, FirstIn
    <2>2. PICK x \in RexSock : x = [rs[s] EXCEPT !.fd = f, !.passive = TRUE, !.addr = host, !.use = "listen", !.host = ""]
      <3>1. [rs[s] EXCEPT !.fd = f, !.passive = TRUE, !.addr = host, !.use = "listen", !.host = ""] \in RexSock
        BY <1>3, <1>4 DEF RexSock, Names
      <3>2. QED BY <3>1
    <2>3. x.fd = f /\ x.use = "listen" /\ x.passive /\ x.family = "tcp"
      BY <1>4, <2>2 DEF RexSock
    <2>4. rs' = [rs EXCEPT ![s] = x]
      BY <1>6, <2>2 DEF Listening
    <2>5. /\ kern' \in Kernel /\ kern'.fd[f].kind = "listen" /\ kern'.file = kern.file
          /\ \A g \in Fds : g # f => kern'.fd[g] = kern.fd[g]
      <3>1. f \in Fds /\ "listen" \in {"listen", "conn"}
        BY <1>3, <1>6
      <3>2. QED BY <3>1, <1>2, <1>6, <2>1, OpenFd
    <2>6. PICK k1 \in Kernel : k1 = kern'
      BY <2>5
    <2>7. left' \subseteq Paths
      BY <1>2, <1>5 DEF RexTypes
    <2>8. /\ f \in Fds /\ kern.fd[f].kind = "free" /\ x.use \in {"listen", "conn"} /\ x.family # "none"
          /\ x.passive <=> x.use = "listen"
          /\ Turned(k1, kern, f, x.use) /\ k1.file = kern.file
      BY <1>3, <1>6, <2>3, <2>5, <2>6 DEF Turned
    <2>9. kern' = k1 /\ reused' = Reuse(k1) /\ closed' = closed
      BY <1>5, <1>6, <2>6
    <2>10. ~reused => x.family # "none" /\ (x.passive <=> x.use = "listen")
      BY <2>8
    <2>11. QED BY <1>4, <1>5, <2>3, <2>4, <2>7, <2>8, <2>9, <2>10, TakesKeeps
  <1>7. ASSUME closed' = [closed EXCEPT ![s] = f], rs' = [rs EXCEPT ![s].host = host], kern' = kern
        PROVE  RexInv'
    <2>1. closed' \in [Socks -> Fds \cup {None}]
      BY <1>2, <1>3, <1>7
    <2>2. rs' \in [Socks -> RexSock] /\ Renamed(rs', rs)
      BY <1>2, <1>7, NamesHost DEF Names
    <2>3. \A t \in Socks : rs'[t].use = "listen" => rs'[t].fd \in Fds
      BY <1>2, <2>2 DEF Renamed, RexTypes
    <2>4. RexTypes'
      BY <1>2, <1>5, <1>7, <2>1, <2>2, <2>3 DEF RexTypes, Reuse
    <2>5. ASSUME ~reused' PROVE ~reused /\ ClosedRight(closed', rs, kern)
      <3>1. ~reused
        BY <2>5, <1>5, NotReused
      <3>2. ClosedRight(closed, rs, kern)
        BY <3>1 DEF RexInv
      <3>3. QED BY <3>1, <3>2, <1>2, <1>3, <1>4, <1>7 DEF ClosedRight
    <2>6. ASSUME ~reused'
          PROVE  /\ SocksRight(rs', kern) /\ FdsRight(rs', kern)
                 /\ ClosedRight(closed', rs', kern) /\ FilesRight(rs', kern, left)
      <3>1. ~reused /\ ClosedRight(closed', rs, kern)
        BY <2>6, <2>5
      <3>2. SocksRight(rs, kern) /\ FdsRight(rs, kern) /\ FilesRight(rs, kern, left)
        BY <3>1 DEF RexInv
      <3>3. QED BY <3>1, <3>2, <2>2, RenamedRight
    <2>7. QED BY <2>4, <2>6, <1>5, <1>7 DEF RexInv
  <1>8. ASSUME UNCHANGED <<kern, rs, closed>> PROVE RexInv'
    <2>1. RexTypes'
      BY <1>2, <1>5, <1>8 DEF RexTypes, Reuse
    <2>2. ~reused' => ~reused
      BY <1>5, NotReused
    <2>3. QED BY <2>1, <2>2, <1>5, <1>8 DEF RexInv
  <1>9. QED BY <1>1, <1>6, <1>7, <1>8 DEF rex_tcp_listen

\* The kinds of the descriptors and the files are all that matters of the kernel.
LEMMA SameKinds ==
  ASSUME NEW r \in [Socks -> RexSock], NEW k, NEW k1, NEW c, NEW d,
         \A g \in Fds : k1.fd[g].kind = k.fd[g].kind,
         \A p \in Paths : k1.file[p] = k.file[p],
         SocksRight(r, k), FdsRight(r, k), FilesRight(r, k, d)
  PROVE  SocksRight(r, k1) /\ FdsRight(r, k1) /\ FilesRight(r, k1, d)
  BY DEF SocksRight, FdsRight, FilesRight

LEMMA ListenFailedKeeps ==
  ASSUME NEW s \in Socks, RexInv, rex_tcp_listen_failed(s) PROVE RexInv'
  <1>1. /\ RexTypes /\ kern \in Kernel /\ rs \in [Socks -> RexSock] /\ rs[s] \in RexSock
        /\ closed \in [Socks -> Fds \cup {None}] /\ left \subseteq Paths /\ reused \in BOOLEAN
        /\ reused' = reused /\ left' = left
    BY DEF RexInv, RexTypes, rex_tcp_listen_failed
  <1>2. PICK f \in Fds : f = closed[s]
    BY <1>1 DEF rex_tcp_listen_failed
  <1>3. closed' = [closed EXCEPT ![s] = None] /\ closed' \in [Socks -> Fds \cup {None}]
    BY <1>1 DEF rex_tcp_listen_failed
  <1>4. CASE kern.fd[f].kind = "listen"
    <2>1. Listening(s, f, rs[s].host) /\ kern' = kern
      BY <1>2, <1>4 DEF rex_tcp_listen_failed
    <2>2. PICK a \in Names : a = rs[s].host
      BY <1>1 DEF RexSock
    <2>3. PICK x \in RexSock : x = [rs[s] EXCEPT !.fd = f, !.passive = TRUE, !.addr = a, !.use = "listen", !.host = ""]
      <3>1. [rs[s] EXCEPT !.fd = f, !.passive = TRUE, !.addr = a, !.use = "listen", !.host = ""] \in RexSock
        BY <1>1 DEF RexSock, Names
      <3>2. QED BY <3>1
    <2>4. rs' = [rs EXCEPT ![s] = x] /\ x.fd = f
      BY <1>1, <2>1, <2>2, <2>3 DEF Listening, RexSock
    <2>5. RexTypes'
      BY <1>1, <1>3, <2>1, <2>4 DEF RexTypes
    <2>6. reused
      BY <1>2, <1>4, NoneIsNoFd DEF RexInv, ClosedRight
    <2>7. QED BY <1>1, <2>5, <2>6 DEF RexInv
  <1>5. CASE kern.fd[f].kind # "listen"
    <2>1. kern' = close(kern, f) /\ rs' \in [Socks -> RexSock] /\ Renamed(rs', rs)
      <3>1. kern' = close(kern, f) /\ rs' = [rs EXCEPT ![s].host = ""]
        BY <1>2, <1>5 DEF rex_tcp_listen_failed
      <3>2. QED BY <3>1, <1>1, NamesHost DEF Names
    <2>2. /\ close(kern, f) \in Kernel
          /\ \A g \in Fds : close(kern, f).fd[g].kind = IF g = f THEN "free" ELSE kern.fd[g].kind
          /\ \A p \in Paths : close(kern, f).file[p] =
               IF f \in Fds /\ kern.file[p] = f THEN Dead ELSE kern.file[p]
      BY <1>1, CloseFd
    <2>3. PICK k1 \in Kernel : k1 = kern'
      BY <2>1, <2>2
    <2>4. RexTypes'
      <3>1. \A t \in Socks : rs'[t].use = "listen" => rs'[t].fd \in Fds
        BY <1>1, <2>1 DEF Renamed, RexTypes
      <3>2. QED BY <1>1, <1>3, <2>1, <2>2, <3>1 DEF RexTypes
    <2>5. ASSUME ~reused
          PROVE  /\ SocksRight(rs, k1) /\ FdsRight(rs, k1)
                 /\ ClosedRight(closed', rs, k1) /\ FilesRight(rs, k1, left)
      <3>1. /\ SocksRight(rs, kern) /\ FdsRight(rs, kern)
            /\ ClosedRight(closed, rs, kern) /\ FilesRight(rs, kern, left)
        BY <2>5 DEF RexInv
      <3>2. kern.fd[f].kind = "free"
        BY <3>1, <1>2, NoneIsNoFd DEF ClosedRight
      <3>3. \A g \in Fds : k1.fd[g].kind = kern.fd[g].kind
        BY <3>2, <2>1, <2>2, <2>3
      <3>4. \A p \in Paths : kern.file[p] # f
        BY <3>1, <3>2, NoneIsNoFd DEF FilesRight
      <3>5. \A p \in Paths : k1.file[p] = kern.file[p]
        BY <3>4, <2>1, <2>2, <2>3
      <3>6. SocksRight(rs, k1) /\ FdsRight(rs, k1) /\ FilesRight(rs, k1, left)
        BY <1>1, <3>1, <3>3, <3>5, SameKinds
      <3>7. ClosedRight(closed', rs, k1)
        BY <3>1, <3>3, <1>1, <1>3 DEF ClosedRight
      <3>8. QED BY <3>6, <3>7
    <2>6. ASSUME ~reused
          PROVE  /\ SocksRight(rs', k1) /\ FdsRight(rs', k1)
                 /\ ClosedRight(closed', rs', k1) /\ FilesRight(rs', k1, left)
      BY <2>1, <2>5, <2>6, RenamedRight
    <2>7. QED BY <1>1, <2>1, <2>3, <2>4, <2>6 DEF RexInv
  <1>6. QED BY <1>4, <1>5

\* A connect that reaches a listener.
LEMMA ConnectedKeeps ==
  ASSUME RexInv, NEW s \in Socks, NEW family \in {"tcp", "local"}, New(s, family),
         NEW f, f = NewFd(kern), f # None, NEW b, NEW m \in Reachable(kern, b),
         NEW a \in Names, Connected(s, f, m, a)
  PROVE  RexInv'
  <1>1. RexTypes /\ kern \in Kernel /\ rs \in [Socks -> RexSock] /\ left \subseteq Paths
    BY DEF RexInv, RexTypes
  <1>2. f \in Fds /\ kern.fd[f].kind = "free"
    BY <1>1, NewFdFree
  <1>3. rs[s] \in RexSock /\ rs[s].use = "new" /\ closed[s] = None /\ rs[s].family = family
    BY <1>1, NewSock
  <1>4. m \in Fds /\ kern.fd[m].kind = "listen"
    BY ReachableListens
  <1>5. /\ Reach(kern, f, m) \in Kernel
        /\ Reach(kern, f, m).fd[f].kind = "conn"
        /\ \A g \in Fds : g # f => Reach(kern, f, m).fd[g].kind = kern.fd[g].kind
        /\ Reach(kern, f, m).file = kern.file
    BY <1>1, <1>2, <1>4, ReachFd
  <1>6. PICK k1 \in Kernel : k1 = Reach(kern, f, m)
    BY <1>5
  <1>7. PICK x \in RexSock : x = [rs[s] EXCEPT !.fd = f, !.addr = a, !.use = "conn"]
    <2>1. [rs[s] EXCEPT !.fd = f, !.addr = a, !.use = "conn"] \in RexSock
      BY <1>2, <1>3 DEF RexSock
    <2>2. QED BY <2>1
  <1>8. x.fd = f /\ x.use = "conn" /\ x.family = family /\ (x.passive <=> rs[s].passive)
    BY <1>3, <1>7 DEF RexSock
  <1>9. Turned(k1, kern, f, x.use) /\ k1.file = kern.file /\ x.use \in {"listen", "conn"}
    BY <1>5, <1>6, <1>8 DEF Turned
  <1>10. ~reused => x.family # "none" /\ (x.passive <=> x.use = "listen")
    <2>1. ~reused => ~rs[s].passive
      BY <1>3 DEF RexInv, SocksRight
    <2>2. QED BY <2>1, <1>8
  <1>11. /\ rs' = [rs EXCEPT ![s] = x] /\ kern' = k1 /\ closed' = closed /\ reused' = Reuse(k1)
         /\ left' = left
    BY <1>6, <1>7 DEF Connected
  <1>12. left' \subseteq Paths
    BY <1>1, <1>11
  <1>13. QED BY <1>2, <1>3, <1>8, <1>9, <1>10, <1>11, <1>12, TakesKeeps

LEMMA ConnectKeeps ==
  ASSUME NEW s \in Socks, NEW host \in Hosts, RexInv, rex_tcp_connect(s, host)
  PROVE  RexInv'
  <1>1. PICK f : f = NewFd(kern)
    OBVIOUS
  <1>2. CASE UNCHANGED rexvars
    BY <1>2 DEF rexvars, RexInv, RexTypes
  <1>3. ASSUME f # None, NEW b, NEW m \in Reachable(kern, b), Connected(s, f, m, host)
        PROVE  RexInv'
    <2>1. New(s, "tcp") /\ "tcp" \in {"tcp", "local"} /\ host \in Names
      BY DEF rex_tcp_connect, Names
    <2>2. QED BY <1>1, <1>3, <2>1, ConnectedKeeps
  <1>4. QED BY <1>1, <1>2, <1>3 DEF rex_tcp_connect

LEMMA UnixConnectKeeps ==
  ASSUME NEW s \in Socks, NEW p \in Paths, RexInv, rex_unix_connect(s, p)
  PROVE  RexInv'
  <1>1. PICK f : f = NewFd(kern)
    OBVIOUS
  <1>2. New(s, "local") /\ "local" \in {"tcp", "local"} /\ p \in Names /\ f # None
    BY <1>1 DEF rex_unix_connect, Names
  <1>3. PICK m \in Reachable(kern, p) : Connected(s, f, m, p)
    BY <1>1 DEF rex_unix_connect
  <1>4. QED BY <1>1, <1>2, <1>3, ConnectedKeeps

LEMMA UnixListenKeeps ==
  ASSUME NEW s \in Socks, NEW p \in Paths, RexInv, rex_unix_listen(s, p)
  PROVE  RexInv'
  <1>1. PICK f : f = NewFd(kern)
    OBVIOUS
  <1>2. /\ RexTypes /\ kern \in Kernel /\ rs \in [Socks -> RexSock] /\ left \subseteq Paths
        /\ f # None /\ New(s, "local") /\ left' = left \ {p} /\ closed' = closed
    BY <1>1 DEF RexInv, RexTypes, rex_unix_listen
  <1>3. f \in Fds /\ kern.fd[f].kind = "free"
    BY <1>1, <1>2, NewFdFree
  <1>4. rs[s] \in RexSock /\ rs[s].use = "new" /\ closed[s] = None /\ rs[s].family = "local"
    BY <1>2, NewSock
  <1>5. PICK u \in Kernel : u = unlink(kern, p)
    BY <1>2, UnlinkFd
  <1>6. u.fd = kern.fd /\ \A o \in Paths : u.file[o] = IF o = p THEN None ELSE kern.file[o]
    BY <1>2, <1>5, UnlinkFd
  <1>7. ASSUME kern' = u, UNCHANGED <<rs, reused>> PROVE RexInv'
    <2>1. RexTypes'
      BY <1>2, <1>7 DEF RexTypes
    <2>2. ASSUME ~reused
          PROVE  /\ SocksRight(rs, u) /\ FdsRight(rs, u)
                 /\ ClosedRight(closed, rs, u) /\ FilesRight(rs, u, left')
      BY <2>2, <1>2, <1>6 DEF RexInv, SocksRight, FdsRight, ClosedRight, FilesRight
    <2>3. QED BY <1>2, <1>7, <2>1, <2>2 DEF RexInv
  <1>8. ASSUME kern' = [Open(u, f, "listen", p) EXCEPT !.file[p] = f], Listening(s, f, p),
               reused' = Reuse(kern')
        PROVE  RexInv'
    <2>1. PICK o \in Kernel : o = Open(u, f, "listen", p)
      <3>1. p \in Names /\ "listen" \in {"listen", "conn"}
        BY DEF Names
      <3>2. Open(u, f, "listen", p) \in Kernel
        BY <3>1, <1>3, OpenFd
      <3>3. QED BY <3>2
    <2>2. /\ o.fd[f].kind = "listen" /\ o.file = u.file
          /\ \A g \in Fds : g # f => o.fd[g] = u.fd[g]
      <3>1. p \in Names /\ "listen" \in {"listen", "conn"}
        BY DEF Names
      <3>2. /\ Open(u, f, "listen", p).fd[f].kind = "listen" /\ Open(u, f, "listen", p).file = u.file
            /\ \A g \in Fds : g # f => Open(u, f, "listen", p).fd[g] = u.fd[g]
        BY <3>1, <1>3, OpenFd
      <3>3. QED BY <2>1, <3>2
    <2>3. PICK k1 \in Kernel : k1 = kern'
      <3>1. [o EXCEPT !.file[p] = f] \in Kernel
        BY <1>3 DEF Kernel
      <3>2. QED BY <3>1, <1>8, <2>1
    <2>4. k1.fd = o.fd /\ \A q \in Paths : k1.file[q] = IF q = p THEN f ELSE o.file[q]
      BY <1>8, <2>1, <2>3 DEF Kernel
    <2>5. PICK x \in RexSock : x = [rs[s] EXCEPT !.fd = f, !.passive = TRUE, !.addr = p, !.use = "listen", !.host = ""]
      <3>1. [rs[s] EXCEPT !.fd = f, !.passive = TRUE, !.addr = p, !.use = "listen", !.host = ""] \in RexSock
        BY <1>3, <1>4 DEF RexSock, Names
      <3>2. QED BY <3>1
    <2>6. x.fd = f /\ x.use = "listen" /\ x.passive /\ x.family = "local" /\ x.addr = p
      BY <1>4, <2>5 DEF RexSock
    <2>7. rs' = [rs EXCEPT ![s] = x] /\ kern' = k1 /\ reused' = Reuse(k1)
      BY <1>8, <2>3, <2>5 DEF Listening
    <2>8. Turned(k1, kern, f, x.use) /\ x.use \in {"listen", "conn"}
      BY <1>6, <2>2, <2>4, <2>6 DEF Turned
    <2>9. ~reused => x.family # "none" /\ (x.passive <=> x.use = "listen")
      BY <2>6
    <2>10. left' \subseteq Paths
      BY <1>2
    <2>11. ASSUME ~reused PROVE FilesRight(rs', k1, left')
      <3>1. SocksRight(rs, kern) /\ FilesRight(rs, kern, left)
        BY <2>11 DEF RexInv
      <3>2. \A t \in Socks : rs[t].fd # f
        BY <3>1, <1>2, <1>3, NoneIsNoFd DEF SocksRight, RexSock
      <3>3. rs'[s] = x /\ \A t \in Socks : t # s => rs'[t] = rs[t]
        BY <1>2, <2>7
      <3>4. ASSUME NEW q \in Paths
            PROVE  \/ k1.file[q] = None
                   \/ k1.file[q] = Dead /\ q \in left'
                   \/ /\ k1.file[q] \in Fds /\ k1.fd[k1.file[q]].kind = "listen"
                      /\ \A t \in Socks : rs'[t].fd = k1.file[q] =>
                           rs'[t].family = "local" /\ rs'[t].addr = q
        <4>1. CASE q = p
          <5>1. k1.file[q] = f /\ k1.fd[f].kind = "listen"
            BY <4>1, <2>2, <2>4
          <5>2. QED BY <4>1, <5>1, <1>3, <2>6, <3>2, <3>3
        <4>2. CASE q # p
          <5>1. k1.file[q] = kern.file[q]
            BY <4>2, <1>6, <2>2, <2>4
          <5>2. CASE kern.file[q] = None \/ (kern.file[q] = Dead /\ q \in left)
            BY <5>1, <5>2, <4>2, <1>2
          <5>3. CASE ~(kern.file[q] = None \/ (kern.file[q] = Dead /\ q \in left))
            <6>1. /\ kern.file[q] \in Fds /\ kern.fd[kern.file[q]].kind = "listen"
                  /\ \A t \in Socks : rs[t].fd = kern.file[q] => rs[t].family = "local" /\ rs[t].addr = q
              BY <5>3, <3>1 DEF FilesRight
            <6>2. kern.file[q] # f
              BY <6>1, <1>3
            <6>3. k1.fd[kern.file[q]].kind = "listen"
              BY <6>1, <6>2, <2>8 DEF Turned
            <6>4. QED BY <5>1, <6>1, <6>2, <6>3, <2>6, <3>3
          <5>4. QED BY <5>2, <5>3
        <4>3. QED BY <4>1, <4>2
      <3>5. QED BY <3>4 DEF FilesRight
    <2>12. ~reused => (k1.file = kern.file /\ left' = left) \/ FilesRight(rs', k1, left')
      BY <2>11
    <2>13. QED BY <1>2, <1>3, <1>4, <2>6, <2>7, <2>8, <2>9, <2>10, <2>12, TakesKeeps
  <1>9. QED BY <1>1, <1>5, <1>7, <1>8 DEF rex_unix_listen

LEMMA AcceptKeepsFds ==
  ASSUME NEW s \in Socks, NEW new \in Socks \ {s}, RexInv, rex_sock_accept(s, new)
  PROVE  RexInv'
  <1>1. PICK f \in {NewFd(kern), None} :
           /\ Accepted(s, new, f)
           /\ f = None => kern' = kern
           /\ f # None => kern' = Open([kern EXCEPT !.fd[rs[s].fd].waiting = @ - 1], f, "conn",
                                      kern.fd[rs[s].fd].addr)
    BY DEF rex_sock_accept
  <1>2. /\ RexTypes /\ kern \in Kernel /\ rs \in [Socks -> RexSock] /\ left \subseteq Paths
        /\ closed \in [Socks -> Fds \cup {None}]
        /\ rs[s].use = "listen" /\ closed' = closed /\ left' = left /\ reused' = Reuse(kern')
        /\ rs[s] \in RexSock /\ rs[new] \in RexSock
    BY DEF RexInv, RexTypes, rex_sock_accept
  <1>3. f = None \/ (f \in Fds /\ kern.fd[f].kind = "free")
    <2>1. CASE f = NewFd(kern)
      BY <2>1, <1>2, NewFdFree
    <2>2. QED BY <1>1, <2>1
  <1>4. PICK m \in Fds : m = rs[s].fd /\ kern.fd[m].kind = "listen"
    BY <1>2 DEF RexTypes, rex_sock_accept
  <1>5. rs[new].use = "new" /\ closed[new] = None /\ rs[new].family = rs[s].family
    BY DEF rex_sock_accept, New
  <1>6. PICK x \in RexSock : x = [rs[new] EXCEPT !.fd = f, !.addr = rs[s].addr, !.use = "conn"]
    <2>1. rs[s].addr \in Names /\ f \in Fds \cup {None}
      BY <1>2, <1>3 DEF RexSock
    <2>2. [rs[new] EXCEPT !.fd = f, !.addr = rs[s].addr, !.use = "conn"] \in RexSock
      BY <1>2, <2>1 DEF RexSock
    <2>3. QED BY <2>2
  <1>7. x.fd = f /\ x.use = "conn" /\ x.family = rs[s].family /\ (x.passive <=> rs[new].passive)
    BY <1>2, <1>5, <1>6 DEF RexSock
  <1>8. rs' = [rs EXCEPT ![new] = x]
    BY <1>1, <1>6 DEF Accepted
  <1>9. ~reused => x.family # "none" /\ (x.passive <=> x.use = "listen")
    <2>1. ~reused => ~rs[new].passive /\ rs[s].family # "none"
      BY <1>2, <1>5 DEF RexInv, SocksRight
    <2>2. QED BY <2>1, <1>7
  <1>10. CASE f = None
    <2>1. kern' = kern
      BY <1>1, <1>10
    <2>2. /\ rs' \in [Socks -> RexSock] /\ rs'[new] = x
          /\ \A t \in Socks : t # new => rs'[t] = rs[t]
      BY <1>2, <1>8
    <2>3. RexTypes'
      BY <1>2, <1>7, <2>1, <2>2 DEF RexTypes, Reuse
    <2>4. ASSUME ~reused'
          PROVE  ~reused /\ SocksRight(rs', kern) /\ FdsRight(rs', kern)
                 /\ ClosedRight(closed, rs', kern) /\ FilesRight(rs', kern, left)
      <3>1. ~reused
        BY <2>4, <1>2, NotReused
      <3>2. /\ SocksRight(rs, kern) /\ FdsRight(rs, kern)
            /\ ClosedRight(closed, rs, kern) /\ FilesRight(rs, kern, left)
        BY <3>1 DEF RexInv
      <3>3. rs[new].fd = None /\ x.fd = None
        BY <3>2, <1>5, <1>7, <1>10 DEF SocksRight
      <3>4. \A t \in Socks : rs'[t].fd = rs[t].fd
        BY <2>2, <3>3
      <3>5. SocksRight(rs', kern)
        <4> SUFFICES ASSUME NEW t \in Socks
                     PROVE  /\ rs'[t].use = "new" => rs'[t].fd = None
                            /\ rs'[t].use # "new" => rs'[t].family # "none"
                            /\ rs'[t].passive <=> rs'[t].use = "listen"
                            /\ rs'[t].use # "new" =>
                                 \/ rs'[t].fd \in Fds /\ kern.fd[rs'[t].fd].kind = rs'[t].use
                                 \/ rs'[t].fd = None /\ rs'[t].use = "conn"
          BY DEF SocksRight
        <4>1. CASE t = new
          BY <4>1, <2>1, <2>2, <3>1, <3>3, <1>7, <1>9
        <4>2. CASE t # new
          BY <4>2, <2>2, <3>2 DEF SocksRight
        <4>3. QED BY <4>1, <4>2
      <3>6. FdsRight(rs', kern)
        BY <3>2, <3>4 DEF FdsRight
      <3>7. ClosedRight(closed, rs', kern)
        BY <3>2, <2>2, <1>5 DEF ClosedRight
      <3>8. FilesRight(rs', kern, left)
        BY <3>2, <3>3, <2>2, NoneIsNoFd DEF FilesRight
      <3>9. QED BY <3>1, <3>5, <3>6, <3>7, <3>8
    <2>5. QED BY <1>2, <2>1, <2>3, <2>4 DEF RexInv
  <1>11. CASE f # None
    <2>1. PICK w \in Descriptor : w = [kern.fd[m] EXCEPT !.waiting = @ - 1]
      <3>1. kern.fd[m] \in Descriptor
        BY <1>2 DEF Kernel
      <3>2. [kern.fd[m] EXCEPT !.waiting = @ - 1] \in Descriptor
        BY <3>1 DEF Descriptor
      <3>3. QED BY <3>2
    <2>2. w.kind = kern.fd[m].kind
      BY <1>2, <2>1 DEF Kernel, Descriptor
    <2>3. PICK z \in [Fds -> Descriptor] : z = [kern.fd EXCEPT ![m] = w]
      <3>1. [kern.fd EXCEPT ![m] = w] \in [Fds -> Descriptor]
        BY <1>2 DEF Kernel
      <3>2. QED BY <3>1
    <2>4. \A g \in Fds : z[g].kind = kern.fd[g].kind
      BY <1>2, <2>2, <2>3 DEF Kernel
    <2>5. PICK u \in Kernel : u = [kern EXCEPT !.fd = z]
      <3>1. [kern EXCEPT !.fd = z] \in Kernel
        BY <1>2 DEF Kernel
      <3>2. QED BY <3>1
    <2>6. u.fd = z /\ u.file = kern.file
      BY <1>2, <2>5 DEF Kernel
    <2>7. PICK a \in Names : a = kern.fd[m].addr
      BY <1>2 DEF Kernel, Descriptor
    <2>8. kern' = Open(u, f, "conn", a)
      <3>1. kern' = Open([kern EXCEPT !.fd[m].waiting = @ - 1], f, "conn", kern.fd[m].addr)
        BY <1>1, <1>4, <1>11
      <3>2. [kern EXCEPT !.fd[m].waiting = @ - 1] = u
        BY <2>1, <2>3, <2>5
      <3>3. QED BY <3>1, <3>2, <2>7
    <2>9. /\ Open(u, f, "conn", a) \in Kernel
          /\ Open(u, f, "conn", a).fd[f].kind = "conn" /\ Open(u, f, "conn", a).file = u.file
          /\ \A g \in Fds : g # f => Open(u, f, "conn", a).fd[g] = u.fd[g]
      <3>1. "conn" \in {"listen", "conn"} /\ f \in Fds
        BY <1>3, <1>11
      <3>2. QED BY <3>1, OpenFd
    <2>10. PICK k1 \in Kernel : k1 = kern'
      BY <2>8, <2>9
    <2>11. Turned(k1, kern, f, x.use) /\ k1.file = kern.file /\ x.use \in {"listen", "conn"}
      BY <1>7, <2>4, <2>6, <2>8, <2>9, <2>10 DEF Turned
    <2>12. left' \subseteq Paths /\ kern' = k1 /\ reused' = Reuse(k1) /\ f \in Fds
      BY <1>2, <1>3, <1>11, <2>10
    <2>13. kern.fd[f].kind = "free" /\ new \in Socks
      BY <1>3, <1>11
    <2>14. QED BY <1>2, <1>5, <1>7, <1>8, <1>9, <2>11, <2>12, <2>13, TakesKeeps
  <1>12. QED BY <1>10, <1>11

LEMMA CrashKeeps == ASSUME RexInv, Crash PROVE RexInv'
  <1>1. Unused \in RexSock /\ Unused.fd = None /\ Unused.use = "new" /\ ~Unused.passive
    BY DEF Unused, RexSock, Names
  <1>2. Free \in Descriptor /\ Free.kind = "free"
    BY FreeTyped DEF Free
  <1>3. /\ rs' = [s \in Socks |-> Unused] /\ closed' = [s \in Socks |-> None] /\ reused' = reused
        /\ kern' = [fd |-> [f \in Fds |-> Free],
                    file |-> [p \in Paths |-> IF kern.file[p] = None THEN None ELSE Dead]]
        /\ left' = {p \in Paths : kern.file[p] # None}
    BY DEF Crash
  <1>4. kern' \in Kernel
    BY <1>2, <1>3 DEF Kernel
  <1>5. RexTypes'
    BY <1>1, <1>3, <1>4 DEF RexInv, RexTypes
  <1>6. \A s \in Socks : rs'[s] = Unused /\ closed'[s] = None
    BY <1>3
  <1>7. \A f \in Fds : kern'.fd[f].kind = "free"
    BY <1>2, <1>3
  <1>8. SocksRight(rs', kern') /\ FdsRight(rs', kern') /\ ClosedRight(closed', rs', kern')
    BY <1>1, <1>6, <1>7, NoneIsNoFd DEF SocksRight, FdsRight, ClosedRight
  <1>9. FilesRight(rs', kern', left')
    BY <1>3 DEF FilesRight
  <1>10. QED BY <1>3, <1>5, <1>8, <1>9 DEF RexInv

\* RexInv is an invariant of the portability layer's sockets, for any number of
\* sockets, descriptors, hosts and paths.
THEOREM RexInvariant == RexSpec => []RexInv
  <1>1. RexInv /\ [RexNext]_rexvars => RexInv'
    <2> SUFFICES ASSUME RexInv, [RexNext]_rexvars PROVE RexInv'
      OBVIOUS
    <2>1. CASE UNCHANGED rexvars
      BY <2>1 DEF rexvars, RexInv, RexTypes
    <2>2. CASE Crash
      BY <2>2, CrashKeeps
    <2>3. ASSUME NEW s \in Socks, NEW family \in {"tcp", "local"}, rex_sock_init(s, family)
          PROVE  RexInv'
      BY <2>3, InitKeeps
    <2>4. ASSUME NEW s \in Socks,
                 \/ rex_sock_destroy(s)
                 \/ rex_tcp_listen_failed(s)
                 \/ \E h \in Hosts : rex_tcp_listen(s, h) \/ rex_tcp_connect(s, h)
          PROVE  RexInv'
      BY <2>4, DestroyKeeps, ListenFailedKeeps, ListenKeepsFds, ConnectKeeps
    <2>5. ASSUME NEW s \in Socks,
                 \/ \E p \in Paths : rex_unix_listen(s, p) \/ rex_unix_connect(s, p)
                 \/ \E new \in Socks \ {s} : rex_sock_accept(s, new)
          PROVE  RexInv'
      BY <2>5, UnixListenKeeps, UnixConnectKeeps, AcceptKeepsFds
    <2>6. QED BY <2>1, <2>2, <2>3, <2>4, <2>5 DEF RexNext
  <1>2. QED BY RexInitInv, <1>1, PTL DEF RexSpec

\* Open descriptors and sockets in use correspond one to one, through failures and
\* restarts, as long as no number was given out twice (rex_posix.c:50-282).
THEOREM FdsAreOwned == RexSpec => []FdsOwned
  <1>1. RexInv => FdsOwned
    <2> SUFFICES ASSUME RexInv, ~reused PROVE FdsOwned
      BY DEF FdsOwned
    <2>1. SocksRight(rs, kern) /\ FdsRight(rs, kern)
      BY DEF RexInv
    <2>2. ASSUME NEW f \in Fds, kern.fd[f].kind # "free"
          PROVE  Cardinality({s \in Socks : rs[s].fd = f}) = 1
      <3>1. PICK s \in Socks : rs[s].fd = f
        BY <2>1, <2>2 DEF FdsRight
      <3>2. {t \in Socks : rs[t].fd = f} = {s}
        BY <2>1, <3>1 DEF FdsRight
      <3>3. QED BY <3>2, FS_Singleton
    <2>3. QED BY <2>1, <2>2 DEF SocksRight, FdsOwned
  <1>2. QED BY RexInvariant, <1>1, PTL

\* The file of a local socket leads to a listening socket, or was left of a crash
\* (rex_posix.c:62-76, 231-261).
THEOREM PathsAreLive == RexSpec => []PathsLive
  <1>1. RexInv => PathsLive
    BY DEF RexInv, FilesRight, PathsLive
  <1>2. QED BY RexInvariant, <1>1, PTL

\* The two together (rex_posix.c:50-328).
THEOREM DescriptorsCorrect == RexSpec => []DescriptorsSound
  <1>1. FdsOwned /\ PathsLive => DescriptorsSound
    BY DEF DescriptorsSound
  <1>2. QED BY FdsAreOwned, PathsAreLive, <1>1, PTL

----------------------------------------------------------------------------
(* Options.                                                                *)

OptNames == Range(Xso) \cup Range(RexSo)
SockOpts == [non_block : Int, verbose : Int, snd : Int, rcv : Int]
KernOpts == [noblock : Int, nodelay : Int, reuseaddr : Int,
             sndtimeo : Int, rcvtimeo : Int]

OptTypes ==
    /\ sock \in [Descs -> SockOpts]
    /\ kopt \in [Descs -> KernOpts]
    /\ asked \in [{"xso", "rex"} -> [Descs -> [OptNames -> Seq(Int)]]]

\* A field of a sock holds what was asked for its option, and the options that no
\* writer takes were never accepted.
SockHolds(b, a) ==
    /\ a["noblock"] # <<>> => b.non_block = Bool(a["noblock"][1])
    /\ a["verbose"] # <<>> => b.verbose = a["verbose"][1] % 16
    /\ a["sndbuf"] # <<>> => b.snd = a["sndbuf"][1]
    /\ a["rcvbuf"] # <<>> => b.rcv = a["rcvbuf"][1]
    /\ a["socktype"] = <<>> /\ a["sockprotocol"] = <<>>

\* So does a rex_sock; a timeout comes back from the kernel's ticks.
KernHolds(k, a) ==
    /\ a["noblock"] # <<>> => k.noblock = Bool(a["noblock"][1])
    /\ a["sndtimeo"] # <<>> => InTime(a["sndtimeo"][1], Millis(TicksBack(k.sndtimeo)))
    /\ a["rcvtimeo"] # <<>> => InTime(a["rcvtimeo"][1], Millis(TicksBack(k.rcvtimeo)))

OptInv ==
    /\ OptTypes
    /\ \A s \in Descs : SockHolds(sock[s], asked["xso"][s]) /\ KernHolds(kopt[s], asked["rex"][s])
    /\ GetIsSet

\* The tables of a transport name the option at its position, or nothing.
LEMMA XsoEntries ==
  ASSUME NEW c \in {"sio", "inproc", "mix"}, NEW opt \in 0..9
  PROVE  /\ Entry(Getters[c], opt) \in {Xso[opt + 1], "0"}
         /\ Entry(Setters[c], opt) \in {Xso[opt + 1], "0"}
         /\ Entry(Setters[c], opt) \notin {"socktype", "sockprotocol"}
  <1>1. opt \in {0, 1, 2, 3, 4, 5, 6, 7, 8, 9}
    OBVIOUS
  <1>2. CASE c = "sio"
    BY <1>1, <1>2 DEF Entry, Getters, Setters, Xso, sio_getopt, sio_setopt
  <1>3. CASE c = "inproc"
    BY <1>1, <1>3 DEF Entry, Getters, Setters, Xso, inproc_getopt, inproc_setopt
  <1>4. CASE c = "mix"
    BY <1>1, <1>4 DEF Entry, Getters, Setters, Xso, mix_getopt, mix_setopt
  <1>5. QED BY <1>2, <1>3, <1>4

LEMMA RexEntries ==
  ASSUME NEW opt \in 0..10
  PROVE  /\ Entry(get_vfptr, opt) \in {RexSo[opt + 1], "0"}
         /\ Entry(set_vfptr, opt) \in {RexSo[opt + 1], "0"}
  <1>1. opt \in {0, 1, 2, 3, 4, 5, 6, 7, 8, 9, 10}
    OBVIOUS
  <1>2. QED BY <1>1 DEF Entry, get_vfptr, set_vfptr, RexSo

LEMMA NamesOf ==
  /\ \A opt \in 0..9 : Xso[opt + 1] \in OptNames
  /\ \A opt \in 0..10 : RexSo[opt + 1] \in OptNames
  /\ {"noblock", "verbose", "sndbuf", "rcvbuf", "socktype", "sockprotocol",
      "sndtimeo", "rcvtimeo", "nodelay"} \subseteq OptNames
  <1>1. Len(Xso) = 10 /\ DOMAIN Xso = 1..10 /\ Len(RexSo) = 11 /\ DOMAIN RexSo = 1..11
    BY DEF Xso, RexSo
  <1>2. \A opt \in 0..9 : opt + 1 \in DOMAIN Xso
    BY <1>1
  <1>3. \A opt \in 0..10 : opt + 1 \in DOMAIN RexSo
    BY <1>1
  <1>4. Range(Xso) = {Xso[i] : i \in DOMAIN Xso} /\ Range(RexSo) = {RexSo[i] : i \in DOMAIN RexSo}
    BY DEF Range
  <1>5. /\ Xso[4] = "noblock" /\ Xso[10] = "verbose" /\ Xso[2] = "sndbuf" /\ Xso[3] = "rcvbuf"
        /\ Xso[8] = "socktype" /\ Xso[9] = "sockprotocol" /\ Xso[6] = "sndtimeo"
        /\ Xso[7] = "rcvtimeo" /\ Xso[5] = "nodelay"
    BY DEF Xso
  <1>6. {2, 3, 4, 5, 6, 7, 8, 9, 10} \subseteq DOMAIN Xso
    BY <1>1
  <1> HIDE DEF Xso, RexSo
  <1>7. QED BY <1>2, <1>3, <1>4, <1>5, <1>6 DEF OptNames

\* A timeval is the milliseconds it was made of, in seconds and a rest of the same sign.
Parts(v, a, b) ==
    /\ a \in Int /\ b \in -999..999
    /\ Timeval(v) = <<a, b * 1000>> /\ v = 1000 * a + b
    /\ v >= 0 => a >= 0 /\ b >= 0
    /\ v < 0 => a < 0 \/ b < 0

LEMMA TimevalOf ==
  ASSUME NEW v \in Int
  PROVE  Parts(v, Quot(v, 1000), Rem(v, 1000))
  <1> DEFINE a == Quot(v, 1000)
             b == Rem(v, 1000)
  <1>1. a \in Int /\ b \in -999..999 /\ v = 1000 * a + b
        /\ (v >= 0 => a >= 0 /\ b >= 0) /\ (v < 0 => a < 0 \/ b < 0)
    BY DEF Quot, Rem
  <1>2. Timeval(v) = <<a, b * 1000>>
    BY DEF Timeval
  <1> HIDE DEF a, b
  <1>3. Parts(v, a, b)
    BY <1>1, <1>2 DEF Parts
  <1>4. QED BY <1>3 DEF a, b

\* Rounded up to ticks, the rest of a second comes back less than a tick later.
BackIn(n, v) == n \in Int /\ Millis(TicksBack(n)) \in v..(v + Tick - 1)
PartsBack(a, b) == BackIn(Ticks(<<a, b * 1000>>), 1000 * a + b)

LEMMA RestBack ==
  ASSUME NEW a \in Nat, NEW b \in 0..999
  PROVE  PartsBack(a, b)
  <1>1. HZ \in {100, 250, 300, 1000}
    BY OptAssumption
  <1>2. CASE HZ = 100
    BY <1>2 DEF Ticks, TicksBack, Millis, Quot, Tick, BackIn, PartsBack
  <1>3. CASE HZ = 250
    BY <1>3 DEF Ticks, TicksBack, Millis, Quot, Tick, BackIn, PartsBack
  <1>4. CASE HZ = 300
    <2> DEFINE m == -((-(b * 1000)) \div 3333)
    <2>1. m \in 0..300 /\ 3333 * m >= 1000 * b /\ 3333 * m < 1000 * b + 3333
      OBVIOUS
    <2>2. Ticks(<<a, b * 1000>>) = a * 300 + m
      BY <1>4 DEF Ticks
    <2>3. Tick = 4
      BY <1>4 DEF Tick
    <2> HIDE DEF m
    <2>4. CASE m = 300
      BY <1>4, <2>1, <2>2, <2>3, <2>4 DEF TicksBack, Millis, Quot, BackIn, PartsBack
    <2>5. CASE m < 300
      <3>1. (a * 300 + m) \div 300 = a /\ (a * 300 + m) % 300 = m
        BY <2>1, <2>5
      <3>2. TicksBack(Ticks(<<a, b * 1000>>)) = <<a, (m * 1000000) \div 300>>
        BY <1>4, <2>2, <3>1 DEF TicksBack
      <3> DEFINE q == (m * 1000000) \div 300
      <3>3. q \in Nat /\ 300 * q <= 1000000 * m /\ 1000000 * m < 300 * q + 300
        BY <2>1
      <3> HIDE DEF q
      <3>4. Quot(q, 1000) \in b..(b + 3)
        BY <2>1, <3>3 DEF Quot
      <3>5. QED BY <2>1, <2>2, <2>3, <3>2, <3>4 DEF Millis, q, BackIn, PartsBack
    <2>6. QED BY <2>1, <2>4, <2>5
  <1>5. CASE HZ = 1000
    BY <1>5 DEF Ticks, TicksBack, Millis, Quot, Tick, BackIn, PartsBack
  <1>6. QED BY <1>1, <1>2, <1>3, <1>4, <1>5

\* A timeout that the kernel accepts comes back in time.
LEMMA TimeoutBack ==
  ASSUME NEW v \in Int, Timeval(v)[2] >= 0
  PROVE  Ticks(Timeval(v)) \in Int /\ InTime(v, Millis(TicksBack(Ticks(Timeval(v)))))
  <1> DEFINE a == Quot(v, 1000)
             b == Rem(v, 1000)
  <1>0. Parts(v, a, b)
    BY TimevalOf
  <1> HIDE DEF a, b
  <1>1. /\ a \in Int /\ b \in -999..999
        /\ Timeval(v) = <<a, b * 1000>> /\ v = 1000 * a + b
        /\ v >= 0 => a >= 0 /\ b >= 0
        /\ v < 0 => a < 0 \/ b < 0
    BY <1>0 DEF Parts
  <1>2. b >= 0
    BY <1>1
  <1>3. CASE v < 0
    <2>1. a < 0
      BY <1>1, <1>2, <1>3
    <2>2. Ticks(Timeval(v)) = 0
      BY <1>1, <2>1 DEF Ticks
    <2>3. HZ \in Nat \ {0}
      BY OptAssumption
    <2>4. 0 \div HZ = 0 /\ 0 % HZ = 0
      BY OptAssumption
    <2>5. Millis(TicksBack(0)) = 0
      BY <2>3, <2>4 DEF Millis, TicksBack, Quot
    <2>6. QED BY <1>3, <2>2, <2>5 DEF InTime
  <1>4. CASE v >= 0
    <2>1. a \in Nat /\ b \in 0..999
      BY <1>1, <1>4
    <2>2. PartsBack(a, b)
      BY <2>1, RestBack
    <2>3. BackIn(Ticks(Timeval(v)), v)
      BY <1>1, <2>2 DEF PartsBack
    <2>4. ~(v < 0)
      BY <1>4
    <2>5. QED BY <2>3, <2>4 DEF InTime, BackIn
  <1>5. QED BY <1>3, <1>4

LEMMA OptInitInv == OptInit => OptInv
  <1> SUFFICES ASSUME OptInit PROVE OptInv
    OBVIOUS
  <1>1. OptTypes
    BY DEF OptInit, OptTypes, SockOpts, KernOpts, Window, OptNames
  <1>2. ASSUME NEW s \in Descs
        PROVE SockHolds(sock[s], asked["xso"][s]) /\ KernHolds(kopt[s], asked["rex"][s])
    <2>1. \A o \in OptNames : asked["xso"][s][o] = <<>> /\ asked["rex"][s][o] = <<>>
      BY DEF OptInit, OptNames
    <2>2. QED BY <2>1, NamesOf DEF SockHolds, KernHolds
  <1>3. GetIsSet
    BY DEF OptInit, GetIsSet
  <1>4. QED BY <1>1, <1>2, <1>3 DEF OptInv

LEMMA SetKeeps ==
  ASSUME OptInv, NEW s \in Descs, NEW opt \in 0..9, NEW v \in Int, xsetopt(s, opt, v)
  PROVE  OptInv'
  <1> DEFINE o == Xso[opt + 1]
             r == Set(s, Entry(Setters[Class[s]], opt), v)
  <1>1. Class[s] \in {"sio", "inproc", "mix"} /\ o \in OptNames
    BY OptAssumption, NamesOf DEF xsetopt
  <1>2. /\ r.rc = 0 /\ sock' = [sock EXCEPT ![s] = r.sock] /\ kopt' = [kopt EXCEPT ![s] = r.kopt]
        /\ asked' = [asked EXCEPT !["xso"][s][o] = <<v>>] /\ got' = <<>>
    BY DEF xsetopt, Counted
  <1> DEFINE name == Entry(Setters[Class[s]], opt)
  <1>3. name \in {o, "0"} /\ name \notin {"socktype", "sockprotocol"}
    BY <1>1, XsoEntries
  <1>4. OptTypes /\ SockHolds(sock[s], asked["xso"][s]) /\ KernHolds(kopt[s], asked["rex"][s])
    BY DEF OptInv
  <1>5. sock[s] \in SockOpts /\ kopt[s] \in KernOpts
    BY <1>4 DEF OptTypes
  <1>6. r = Set(s, name, v)
    OBVIOUS
  <1> HIDE DEF name, o, r
  <1>7. name \in {"noblock", "sndbuf", "rcvbuf", "verbose", "nodelay"} /\ o = name
    <2>1. name \notin {"noblock", "sndbuf", "rcvbuf", "verbose", "nodelay"} =>
            Set(s, name, v).rc = -1
      BY DEF Set
    <2>2. QED BY <1>2, <1>3, <1>6, <2>1
  <1>8. Bool(v) \in Int /\ v % 16 \in Int
    BY DEF Bool
  <1>9. /\ r.sock \in SockOpts /\ r.kopt \in KernOpts
        /\ name = "noblock" => r.sock = [sock[s] EXCEPT !.non_block = Bool(v)]
        /\ name = "sndbuf" => r.sock = [sock[s] EXCEPT !.snd = v]
        /\ name = "rcvbuf" => r.sock = [sock[s] EXCEPT !.rcv = v]
        /\ name = "verbose" => r.sock = [sock[s] EXCEPT !.verbose = v % 16]
        /\ name = "nodelay" => r.sock = sock[s]
        /\ r.kopt.noblock = kopt[s].noblock /\ r.kopt.sndtimeo = kopt[s].sndtimeo
        /\ r.kopt.rcvtimeo = kopt[s].rcvtimeo
    <2>1. CASE name = "noblock"
      BY <1>5, <1>6, <1>8, <2>1 DEF Set, SockOpts
    <2>2. CASE name = "sndbuf"
      BY <1>5, <1>6, <2>2 DEF Set, SockOpts
    <2>3. CASE name = "rcvbuf"
      BY <1>5, <1>6, <2>3 DEF Set, SockOpts
    <2>4. CASE name = "verbose"
      BY <1>5, <1>6, <1>8, <2>4 DEF Set, SockOpts
    <2>5. CASE name = "nodelay"
      <3>1. r.sock = sock[s] /\ r.kopt = [kopt[s] EXCEPT !.nodelay = Bool(v)]
        BY <1>6, <2>5 DEF Set, RexSet
      <3>2. QED BY <1>5, <1>8, <2>5, <3>1 DEF KernOpts
    <2>6. QED BY <1>7, <2>1, <2>2, <2>3, <2>4, <2>5
  <1>10. /\ sock'[s] = r.sock /\ kopt'[s] = r.kopt
         /\ \A d \in Descs : d # s => sock'[d] = sock[d] /\ kopt'[d] = kopt[d]
         /\ sock' \in [Descs -> SockOpts] /\ kopt' \in [Descs -> KernOpts]
    BY <1>2, <1>4, <1>9 DEF OptTypes
  <1>11. /\ asked' \in [{"xso", "rex"} -> [Descs -> [OptNames -> Seq(Int)]]]
         /\ asked'["xso"][s][o] = <<v>> /\ asked'["rex"] = asked["rex"]
         /\ \A p \in OptNames : p # o => asked'["xso"][s][p] = asked["xso"][s][p]
         /\ \A d \in Descs : d # s => asked'["xso"][d] = asked["xso"][d]
    BY <1>1, <1>2, <1>4 DEF OptTypes
  <1>12. SockHolds(sock'[s], asked'["xso"][s])
    <2>1. <<v>> # <<>> /\ <<v>>[1] = v
      OBVIOUS
    <2>2. sock[s].non_block \in Int /\ Bool(v) \in Int
      BY <1>5, <1>8 DEF SockOpts
    <2>3. asked'["xso"][s]["socktype"] = <<>> /\ asked'["xso"][s]["sockprotocol"] = <<>>
      BY <1>4, <1>11, <1>7, NamesOf DEF SockHolds
    <2>4. \A p \in {"noblock", "verbose", "sndbuf", "rcvbuf"} :
            asked'["xso"][s][p] = IF p = o THEN <<v>> ELSE asked["xso"][s][p]
      BY <1>11, NamesOf
    <2> DEFINE a == asked["xso"][s]
               b == sock[s]
    <2> HIDE DEF a, b
    <2>5. /\ (IF o = "noblock" THEN <<v>> ELSE a["noblock"]) # <<>> =>
               r.sock.non_block = Bool((IF o = "noblock" THEN <<v>> ELSE a["noblock"])[1])
          /\ (IF o = "verbose" THEN <<v>> ELSE a["verbose"]) # <<>> =>
               r.sock.verbose = (IF o = "verbose" THEN <<v>> ELSE a["verbose"])[1] % 16
          /\ (IF o = "sndbuf" THEN <<v>> ELSE a["sndbuf"]) # <<>> =>
               r.sock.snd = (IF o = "sndbuf" THEN <<v>> ELSE a["sndbuf"])[1]
          /\ (IF o = "rcvbuf" THEN <<v>> ELSE a["rcvbuf"]) # <<>> =>
               r.sock.rcv = (IF o = "rcvbuf" THEN <<v>> ELSE a["rcvbuf"])[1]
      <3>1. SockHolds(b, a) /\ b \in SockOpts /\ b = sock[s]
        BY <1>4, <1>5 DEF a, b
      <3>2. CASE name = "noblock"
        BY <1>9, <1>7, <3>1, <3>2, <2>1 DEF SockHolds, SockOpts
      <3>3. CASE name = "sndbuf"
        BY <1>9, <1>7, <3>1, <3>3, <2>1 DEF SockHolds, SockOpts
      <3>4. CASE name = "rcvbuf"
        BY <1>9, <1>7, <3>1, <3>4, <2>1 DEF SockHolds, SockOpts
      <3>5. CASE name = "verbose"
        BY <1>9, <1>7, <3>1, <3>5, <2>1 DEF SockHolds, SockOpts
      <3>6. CASE name = "nodelay"
        BY <1>9, <1>7, <3>1, <3>6, <2>1 DEF SockHolds, SockOpts
      <3>7. QED BY <1>7, <3>2, <3>3, <3>4, <3>5, <3>6
    <2>6. QED BY <2>3, <2>4, <2>5, <1>10 DEF SockHolds, a
  <1>13. KernHolds(kopt'[s], asked'["rex"][s])
    BY <1>4, <1>9, <1>10, <1>11 DEF KernHolds
  <1>14. \A d \in Descs : SockHolds(sock'[d], asked'["xso"][d]) /\ KernHolds(kopt'[d], asked'["rex"][d])
    <2>1. SUFFICES ASSUME NEW d \in Descs, d # s
                   PROVE SockHolds(sock'[d], asked'["xso"][d]) /\ KernHolds(kopt'[d], asked'["rex"][d])
      BY <1>12, <1>13
    <2>2. QED BY <2>1, <1>10, <1>11 DEF OptInv
  <1>15. GetIsSet'
    BY <1>2 DEF GetIsSet
  <1>16. QED BY <1>10, <1>11, <1>14, <1>15 DEF OptInv, OptTypes, SockHolds, KernHolds

LEMMA GetKeeps ==
  ASSUME OptInv, NEW s \in Descs, NEW opt \in 0..9, xgetopt(s, opt)
  PROVE  OptInv'
  <1> DEFINE o == Xso[opt + 1]
             name == Entry(Getters[Class[s]], opt)
  <1>1. Class[s] \in {"sio", "inproc", "mix"} /\ name \in {o, "0"}
    BY OptAssumption, XsoEntries DEF xgetopt
  <1>2. got' = [level |-> "xso", s |-> s, opt |-> o, out |-> Get(s, name)]
        /\ UNCHANGED <<sock, kopt, asked>>
    BY DEF xgetopt
  <1>3. SockHolds(sock[s], asked["xso"][s])
    BY DEF OptInv
  <1> HIDE DEF o, name
  <1>4. Get(s, name).rc = 0 /\ asked["xso"][s][o] # <<>> =>
          Held(o, asked["xso"][s][o][1], Get(s, name).val)
    BY <1>1, <1>3 DEF Get, Held, Answer, Refused, SockHolds
  <1>5. GetIsSet'
    BY <1>2, <1>4 DEF GetIsSet
  <1>6. QED BY <1>2, <1>5 DEF OptInv, OptTypes, SockHolds, KernHolds

LEMMA RexSetKeeps ==
  ASSUME OptInv, NEW s \in Descs, NEW opt \in 0..10, NEW v \in Int, rex_gen_setopt(s, opt, v)
  PROVE  OptInv'
  <1> DEFINE o == RexSo[opt + 1]
             name == Entry(set_vfptr, opt)
             k == RexSet(kopt[s], name, v)
  <1>1. name \in {o, "0"} /\ o \in OptNames
    BY RexEntries, NamesOf
  <1>2. /\ RexAccepts(name, v) /\ kopt' = [kopt EXCEPT ![s] = k] /\ sock' = sock
        /\ asked' = [asked EXCEPT !["rex"][s][o] = <<v>>] /\ got' = <<>>
    BY DEF rex_gen_setopt, Counted, OptInv, OptTypes
  <1>3. OptTypes /\ SockHolds(sock[s], asked["xso"][s]) /\ KernHolds(kopt[s], asked["rex"][s])
    BY DEF OptInv
  <1>4. kopt[s] \in KernOpts
    BY <1>3 DEF OptTypes
  <1> HIDE DEF name, o
  <1>5. /\ name \in {"sndbuf", "rcvbuf", "noblock", "nodelay", "rcvtimeo", "sndtimeo", "reuseaddr"}
        /\ o = name
    BY <1>1, <1>2 DEF RexAccepts
  <1>6. name \in {"rcvtimeo", "sndtimeo"} =>
          Ticks(Timeval(v)) \in Int /\ InTime(v, Millis(TicksBack(Ticks(Timeval(v)))))
    BY <1>2, TimeoutBack DEF RexAccepts
  <1>7. /\ k \in KernOpts
        /\ name = "noblock" => k.noblock = Bool(v)
        /\ name = "sndtimeo" => k.sndtimeo = Ticks(Timeval(v))
        /\ name = "rcvtimeo" => k.rcvtimeo = Ticks(Timeval(v))
        /\ name # "noblock" => k.noblock = kopt[s].noblock
        /\ name # "sndtimeo" => k.sndtimeo = kopt[s].sndtimeo
        /\ name # "rcvtimeo" => k.rcvtimeo = kopt[s].rcvtimeo
    <2>1. Bool(v) \in Int
      BY DEF Bool
    <2>2. CASE name \in {"noblock", "nodelay", "reuseaddr"}
      BY <1>4, <2>1, <2>2 DEF RexSet, KernOpts
    <2>3. CASE name \in {"rcvtimeo", "sndtimeo"}
      BY <1>4, <1>6, <2>3 DEF RexSet, KernOpts
    <2>4. CASE name \in {"sndbuf", "rcvbuf"}
      BY <1>4, <2>4 DEF RexSet
    <2>5. QED BY <1>5, <2>2, <2>3, <2>4
  <1> HIDE DEF k
  <1>8. /\ kopt'[s] = k /\ kopt' \in [Descs -> KernOpts]
        /\ \A d \in Descs : d # s => kopt'[d] = kopt[d]
    BY <1>2, <1>3, <1>7 DEF OptTypes
  <1>9. /\ asked' \in [{"xso", "rex"} -> [Descs -> [OptNames -> Seq(Int)]]]
        /\ asked'["rex"][s][o] = <<v>> /\ asked'["xso"] = asked["xso"]
        /\ \A p \in OptNames : p # o => asked'["rex"][s][p] = asked["rex"][s][p]
        /\ \A d \in Descs : d # s => asked'["rex"][d] = asked["rex"][d]
    BY <1>1, <1>2, <1>3 DEF OptTypes
  <1>10. KernHolds(kopt'[s], asked'["rex"][s])
    <2>1. <<v>> # <<>> /\ <<v>>[1] = v
      OBVIOUS
    <2>2. \A p \in {"noblock", "sndtimeo", "rcvtimeo"} :
            asked'["rex"][s][p] = IF p = o THEN <<v>> ELSE asked["rex"][s][p]
      BY <1>9, NamesOf
    <2>3. CASE o \notin {"noblock", "sndtimeo", "rcvtimeo"}
      BY <2>2, <2>3, <1>3, <1>5, <1>7, <1>8 DEF KernHolds
    <2>4. CASE o = "noblock"
      BY <2>1, <2>2, <2>4, <1>3, <1>5, <1>7, <1>8 DEF KernHolds
    <2>5. CASE o = "sndtimeo"
      BY <2>1, <2>2, <2>5, <1>3, <1>5, <1>6, <1>7, <1>8 DEF KernHolds
    <2>6. CASE o = "rcvtimeo"
      BY <2>1, <2>2, <2>6, <1>3, <1>5, <1>6, <1>7, <1>8 DEF KernHolds
    <2>7. QED BY <2>3, <2>4, <2>5, <2>6
  <1>11. \A d \in Descs : SockHolds(sock'[d], asked'["xso"][d]) /\ KernHolds(kopt'[d], asked'["rex"][d])
    <2>1. \A d \in Descs : SockHolds(sock'[d], asked'["xso"][d])
      BY <1>2, <1>9 DEF OptInv
    <2>2. \A d \in Descs : d # s => KernHolds(kopt'[d], asked'["rex"][d])
      BY <1>8, <1>9 DEF OptInv
    <2>3. QED BY <2>1, <2>2, <1>10
  <1>12. GetIsSet'
    BY <1>2 DEF GetIsSet
  <1>13. QED BY <1>2, <1>3, <1>8, <1>9, <1>11, <1>12 DEF OptInv, OptTypes, SockHolds, KernHolds

LEMMA RexGetKeeps ==
  ASSUME OptInv, NEW s \in Descs, NEW opt \in 0..10, rex_gen_getopt(s, opt)
  PROVE  OptInv'
  <1> DEFINE o == RexSo[opt + 1]
             name == Entry(get_vfptr, opt)
  <1>1. name \in {o, "0"}
    BY RexEntries
  <1>2. got' = [level |-> "rex", s |-> s, opt |-> o, out |-> RexGet(kopt[s], name)]
        /\ UNCHANGED <<sock, kopt, asked>>
    BY DEF rex_gen_getopt
  <1>3. KernHolds(kopt[s], asked["rex"][s])
    BY DEF OptInv
  <1> HIDE DEF o, name
  <1>4. RexGet(kopt[s], name).rc = 0 /\ asked["rex"][s][o] # <<>> =>
          Held(o, asked["rex"][s][o][1], RexGet(kopt[s], name).val)
    BY <1>1, <1>3 DEF RexGet, Held, Answer, Refused, KernHolds
  <1>5. GetIsSet'
    BY <1>2, <1>4 DEF GetIsSet
  <1>6. QED BY <1>2, <1>5 DEF OptInv, OptTypes, SockHolds, KernHolds

\* Every option that can be set and read is kept where its reader looks for it, and
\* no other option is kept there.
THEOREM OptInvariant == OptSpec => []OptInv
  <1>1. ASSUME OptInv, [OptNext]_optvars PROVE OptInv'
    <2>1. CASE UNCHANGED optvars
      BY <1>1, <2>1 DEF optvars, OptInv, OptTypes, SockHolds, KernHolds, GetIsSet
    <2>2. CASE OptNext
      <3>1. PICK s \in Descs :
              \/ \E opt \in 0..9 : xgetopt(s, opt) \/ \E v \in Values : xsetopt(s, opt, v)
              \/ \E opt \in 0..10 : rex_gen_getopt(s, opt) \/ \E v \in Values : rex_gen_setopt(s, opt, v)
        BY <2>2 DEF OptNext
      <3>2. Values \subseteq Int
        BY OptAssumption
      <3>3. QED BY <1>1, <3>1, <3>2, SetKeeps, GetKeeps, RexSetKeeps, RexGetKeeps
    <2>3. QED BY <1>1, <2>1, <2>2
  <1>2. QED BY OptInitInv, <1>1, PTL DEF OptSpec

\* GetIsSet holds of every descriptor, of every int but the ten largest, and of
\* every tick that Linux is built with: a get answers what the last accepted set of
\* the option gave, a timeout to the tick (sio_getsetor.c:25-202, rex_posix.c's
\* accessors).
THEOREM GetsAreSets == OptSpec => []GetIsSet
  <1>1. OptInv => GetIsSet
    BY DEF OptInv
  <1>2. QED BY OptInvariant, <1>1, PTL

(* ----------------------------- the linked lists --------------------------- *)

\* The link at a place of a circle: 0 is the head's.
At(h, s, k) == IF k = 0 THEN h ELSE s[k]
After(s, k) == IF k = Len(s) THEN 0 ELSE k + 1
Joined(p, a, b) == p.next[a] = b /\ p.prev[b] = a
Circle(p, h, s) == \A k \in 0..Len(s) : Joined(p, At(h, s, k), At(h, s, After(s, k)))

Ptrs == [next : [Links -> Links \cup {Poison}], prev : [Links -> Links \cup {Poison}]]

\* No entry is in two places.
Apart(q) ==
    \A g, h \in Heads : \A i \in 1..Len(q[g]), j \in 1..Len(q[h]) :
        q[g][i] = q[h][j] => g = h /\ i = j

Listed(q, x) == \E h \in Heads : \E i \in 1..Len(q[h]) : q[h][i] = x

\* An entry in no list is initialised, or was deleted.
Loose(p, x) == \/ p.next[x] = x /\ p.prev[x] = x
               \/ p.next[x] = Poison /\ p.prev[x] = Poison

\* The pointers p make the lists q; an entry of X may have any pointers.
Makes(p, q, X) ==
    /\ p \in Ptrs
    /\ q \in [Heads -> Seq(Entries)]
    /\ Apart(q)
    /\ \A h \in Heads : Circle(p, h, q[h])
    /\ \A x \in Entries \ X : ~Listed(q, x) => Loose(p, x)

----------------------------------------------------------------------------

LEMMA ConsSeq ==
  ASSUME NEW S, NEW x \in S, NEW s \in Seq(S)
  PROVE  /\ <<x>> \o s \in Seq(S) /\ Len(<<x>> \o s) = Len(s) + 1
         /\ (<<x>> \o s)[1] = x
         /\ \A k \in 1..Len(s) : (<<x>> \o s)[k + 1] = s[k]
  OBVIOUS

LEMMA AppendSeq ==
  ASSUME NEW S, NEW x \in S, NEW s \in Seq(S)
  PROVE  /\ Append(s, x) \in Seq(S) /\ Len(Append(s, x)) = Len(s) + 1
         /\ Append(s, x)[Len(s) + 1] = x
         /\ \A k \in 1..Len(s) : Append(s, x)[k] = s[k]
  OBVIOUS

LEMMA ConcatSeq ==
  ASSUME NEW S, NEW s \in Seq(S), NEW t \in Seq(S)
  PROVE  /\ s \o t \in Seq(S) /\ Len(s \o t) = Len(s) + Len(t)
         /\ \A k \in 1..Len(s) : (s \o t)[k] = s[k]
         /\ \A k \in 1..Len(t) : (s \o t)[Len(s) + k] = t[k]
  OBVIOUS

LEMMA RemoveSeq ==
  ASSUME NEW S, NEW s \in Seq(S), NEW i \in 1..Len(s)
  PROVE  /\ RemoveAt(s, i) \in Seq(S) /\ Len(RemoveAt(s, i)) = Len(s) - 1
         /\ \A k \in 1..(i - 1) : RemoveAt(s, i)[k] = s[k]
         /\ \A k \in i..(Len(s) - 1) : RemoveAt(s, i)[k] = s[k + 1]
  <1> DEFINE a == SubSeq(s, 1, i - 1)
             b == SubSeq(s, i + 1, Len(s))
  <1>1. a \in Seq(S) /\ Len(a) = i - 1 /\ \A k \in 1..(i - 1) : a[k] = s[k]
    OBVIOUS
  <1>2. b \in Seq(S) /\ Len(b) = Len(s) - i /\ \A k \in 1..(Len(s) - i) : b[k] = s[k + i]
    OBVIOUS
  <1>3. RemoveAt(s, i) = a \o b
    BY DEF RemoveAt
  <1> HIDE DEF a, b
  <1>4. Len(s) \in Nat /\ i \in Nat
    OBVIOUS
  <1>5. /\ a \o b \in Seq(S) /\ Len(a \o b) = Len(s) - 1
        /\ \A k \in 1..(i - 1) : (a \o b)[k] = a[k]
        /\ \A k \in i..(Len(s) - 1) : (a \o b)[k] = b[k - (i - 1)]
    <2>1. a \o b \in Seq(S) /\ Len(a \o b) = (i - 1) + (Len(s) - i)
      <3>1. a \o b \in Seq(S) /\ Len(a \o b) = Len(a) + Len(b)
        BY <1>1, <1>2, ConcatSeq
      <3>2. QED BY <3>1, <1>1, <1>2
    <2>2. (i - 1) + (Len(s) - i) = Len(s) - 1 /\ i - 1 \in Nat /\ Len(s) - i \in Nat
      BY <1>4
    <2>3. \A k \in 1..(i - 1) : (a \o b)[k] = a[k]
      BY <1>1, <1>2
    <2>4. ASSUME NEW k \in i..(Len(s) - 1) PROVE (a \o b)[k] = b[k - (i - 1)]
      <3>1. k \in 1..(Len(a) + Len(b)) /\ k > Len(a)
        BY <1>1, <1>2, <1>4
      <3>2. (a \o b)[k] = b[k - Len(a)]
        BY <3>1, <1>1, <1>2
      <3>3. QED BY <3>2, <1>1
    <2>5. QED BY <2>1, <2>2, <2>3, <2>4
  <1>6. ASSUME NEW k \in i..(Len(s) - 1) PROVE b[k - (i - 1)] = s[k + 1]
    <2>1. k - (i - 1) \in 1..(Len(s) - i) /\ (k - (i - 1)) + i = k + 1
      BY <1>4
    <2>2. QED BY <2>1, <1>2
  <1>7. QED BY <1>1, <1>3, <1>5, <1>6

\* The links of a circle are links, those after the head entries.
LEMMA AtLink ==
  ASSUME NEW h \in Heads, NEW s \in Seq(Entries), NEW k \in 0..Len(s)
  PROVE  /\ At(h, s, k) \in Links /\ After(s, k) \in 0..Len(s)
         /\ k # 0 => At(h, s, k) \in Entries /\ At(h, s, k) = s[k]
         /\ At(h, s, 0) = h
  BY DEF At, After, Links

\* What taking the link x out from between u and v does to the pairs of neighbours.
LEMMA Cuts ==
  ASSUME NEW p \in Ptrs, NEW x \in Links, NEW u \in Links, NEW v \in Links,
         Joined(p, u, x), Joined(p, x, v)
  PROVE  /\ Unlinked(p, x) \in Ptrs
         /\ u # x => Joined(Unlinked(p, x), u, v)
         /\ \A a, b \in Links : Joined(p, a, b) /\ a # x /\ b # x /\ u # x => Joined(Unlinked(p, x), a, b)
         /\ \A y \in Links : y # x /\ u # x /\ Loose(p, y) => Loose(Unlinked(p, x), y)
  <1> DEFINE r == Unlinked(p, x)
  <1>1. p.next[x] = v /\ p.prev[x] = u /\ p.next[u] = x /\ p.prev[v] = x
    BY DEF Joined
  <1>2. /\ r.next = [p.next EXCEPT ![u] = v] /\ r.prev = [p.prev EXCEPT ![v] = u]
        /\ r \in Ptrs
    BY <1>1 DEF Unlinked, __list_del, Ptrs
  <1> HIDE DEF r
  <1>3. /\ \A y \in Links : y # u => r.next[y] = p.next[y]
        /\ \A y \in Links : y # v => r.prev[y] = p.prev[y]
        /\ r.next[u] = v /\ r.prev[v] = u
    BY <1>2 DEF Ptrs
  <1>4. \A a, b \in Links : Joined(p, a, b) /\ a # x /\ b # x => Joined(r, a, b)
    BY <1>1, <1>3 DEF Joined
  <1>5. ASSUME NEW y \in Links, y # x, Loose(p, y) PROVE Loose(r, y)
    <2>1. y # u /\ y # v
      BY <1>1, <1>5, ListAssumption DEF Loose
    <2>2. QED BY <2>1, <1>3, <1>5 DEF Loose
  <1>6. QED BY <1>2, <1>3, <1>4, <1>5 DEF Joined, r

\* What adding a link x between u and v does to them.
LEMMA Adds ==
  ASSUME NEW p \in Ptrs, NEW x \in Links, NEW u \in Links, NEW v \in Links,
         Joined(p, u, v), x # u, x # v
  PROVE  /\ __list_add(p, x, u, v) \in Ptrs
         /\ Joined(__list_add(p, x, u, v), u, x) /\ Joined(__list_add(p, x, u, v), x, v)
         /\ \A a, b \in Links : Joined(p, a, b) /\ a # x /\ b # x /\ (a # u \/ b # v) =>
              Joined(__list_add(p, x, u, v), a, b)
         /\ \A y \in Links : y \notin {x, u, v} /\ Loose(p, y) => Loose(__list_add(p, x, u, v), y)
  <1> DEFINE r == __list_add(p, x, u, v)
  <1>1. p.next[u] = v /\ p.prev[v] = u
    BY DEF Joined
  <1>2. /\ r.next = [p.next EXCEPT ![x] = v, ![u] = x] /\ r.prev = [p.prev EXCEPT ![x] = u, ![v] = x]
        /\ r \in Ptrs
    BY DEF __list_add, Ptrs
  <1> HIDE DEF r
  <1>3. /\ \A y \in Links : y \notin {x, u} => r.next[y] = p.next[y]
        /\ \A y \in Links : y \notin {x, v} => r.prev[y] = p.prev[y]
        /\ r.next[x] = v /\ r.prev[x] = u /\ r.next[u] = x /\ r.prev[v] = x
    BY <1>2 DEF Ptrs
  <1>4. \A a, b \in Links : Joined(p, a, b) /\ a # x /\ b # x /\ (a # u \/ b # v) => Joined(r, a, b)
    BY <1>1, <1>3 DEF Joined
  <1>5. \A y \in Links : y \notin {x, u, v} /\ Loose(p, y) => Loose(r, y)
    BY <1>3 DEF Loose
  <1>6. QED BY <1>2, <1>3, <1>4, <1>5 DEF Joined, r

\* What list_splice does to them, the first list not being empty.
LEMMA Splices ==
  ASSUME NEW p \in Ptrs, NEW g \in Links, NEW h \in Links, g # h,
         NEW first \in Links, NEW last \in Links, NEW at \in Links,
         Joined(p, g, first), Joined(p, last, g), Joined(p, h, at),
         first \notin {g, h}, last \notin {g, h}, at # g
  PROVE  /\ list_splice(p, g, h) \in Ptrs
         /\ Joined(list_splice(p, g, h), h, first) /\ Joined(list_splice(p, g, h), last, at)
         /\ Joined(list_splice(p, g, h), g, g)
         /\ \A a, b \in Links : Joined(p, a, b) /\ a \notin {g, h} /\ b # g =>
              Joined(list_splice(p, g, h), a, b)
         /\ \A y \in Links : y \notin {g, h, first, last, at} /\ Loose(p, y) =>
              Loose(list_splice(p, g, h), y)
  <1> DEFINE r == list_splice(p, g, h)
  <1>1. /\ p.next[g] = first /\ p.prev[first] = g /\ p.next[last] = g /\ p.prev[g] = last
        /\ p.next[h] = at /\ p.prev[at] = h
    BY DEF Joined
  <1>2. /\ r.next = [p.next EXCEPT ![h] = first, ![last] = at, ![g] = g]
        /\ r.prev = [p.prev EXCEPT ![first] = h, ![at] = last, ![g] = g]
        /\ r \in Ptrs
    BY <1>1 DEF list_splice, __list_splice, list_empty, INIT_LIST_HEAD, Ptrs
  <1> HIDE DEF r
  <1>3. /\ \A y \in Links : y \notin {g, h, last} => r.next[y] = p.next[y]
        /\ \A y \in Links : y \notin {g, first, at} => r.prev[y] = p.prev[y]
        /\ r.next[h] = first /\ r.prev[first] = h /\ r.next[last] = at /\ r.prev[at] = last
        /\ r.next[g] = g /\ r.prev[g] = g
    BY <1>1, <1>2 DEF Ptrs
  <1>4. \A a, b \in Links : Joined(p, a, b) /\ a \notin {g, h} /\ b # g => Joined(r, a, b)
    BY <1>1, <1>3 DEF Joined
  <1>5. \A y \in Links : y \notin {g, h, first, last, at} /\ Loose(p, y) => Loose(r, y)
    BY <1>3 DEF Loose
  <1>6. QED BY <1>2, <1>3, <1>4, <1>5 DEF Joined, r


----------------------------------------------------------------------------

\* No link is at two places of the circles.
LEMMA Distinct ==
  ASSUME NEW q \in [Heads -> Seq(Entries)], Apart(q),
         NEW g \in Heads, NEW h \in Heads, NEW j \in 0..Len(q[g]), NEW k \in 0..Len(q[h]),
         At(g, q[g], j) = At(h, q[h], k)
  PROVE  g = h /\ j = k
  <1>1. q[g] \in Seq(Entries) /\ q[h] \in Seq(Entries)
    OBVIOUS
  <1>2. (j = 0 <=> At(g, q[g], j) \in Heads) /\ (k = 0 <=> At(h, q[h], k) \in Heads)
    BY <1>1, AtLink, ListAssumption
  <1>3. CASE j = 0
    BY <1>2, <1>3 DEF At
  <1>4. CASE j # 0
    <2>1. k # 0
      BY <1>2, <1>4
    <2>2. j \in 1..Len(q[g]) /\ k \in 1..Len(q[h]) /\ q[g][j] = q[h][k]
      BY <2>1, <1>1, <1>4 DEF At
    <2>3. QED BY <2>2 DEF Apart
  <1>5. QED BY <1>3, <1>4

\* The neighbours of a place are distinct links, unless the list is empty.
LEMMA Around ==
  ASSUME NEW p, NEW q, NEW X, Makes(p, q, X), NEW h \in Heads, NEW k \in 0..Len(q[h])
  PROVE  /\ At(h, q[h], k) \in Links /\ At(h, q[h], After(q[h], k)) \in Links
         /\ After(q[h], k) \in 0..Len(q[h])
         /\ Joined(p, At(h, q[h], k), At(h, q[h], After(q[h], k)))
         /\ After(q[h], k) = k => k = 0
  <1>1. q[h] \in Seq(Entries)
    BY DEF Makes
  <1>2. QED BY <1>1, AtLink DEF Makes, Circle, After

\* Pointers of a link in no list may be anything.
LEMMA Frees ==
  ASSUME NEW p, NEW q, NEW x, Makes(p, q, {})
  PROVE  Makes(p, q, {x})
  BY DEF Makes

LEMMA NotListed ==
  ASSUME NEW q \in [Heads -> Seq(Entries)], NEW x \in Entries, ~Listed(q, x),
         NEW h \in Heads, NEW k \in 0..Len(q[h])
  PROVE  At(h, q[h], k) # x
  <1>1. q[h] \in Seq(Entries)
    OBVIOUS
  <1>2. CASE k = 0
    BY <1>2, ListAssumption DEF At
  <1>3. CASE k # 0
    BY <1>1, <1>3 DEF At, Listed
  <1>4. QED BY <1>2, <1>3

\* INIT_LIST_HEAD, or the poison, on a link in no list.
LEMMA Resets ==
  ASSUME NEW p, NEW q, NEW x \in Entries, Makes(p, q, {x}), ~Listed(q, x), NEW v \in {x, Poison}
  PROVE  Makes([p EXCEPT !.next[x] = v, !.prev[x] = v], q, {})
  <1> DEFINE r == [p EXCEPT !.next[x] = v, !.prev[x] = v]
  <1>1. p \in Ptrs /\ q \in [Heads -> Seq(Entries)] /\ x \in Links /\ v \in Links \cup {Poison}
    BY DEF Makes, Links
  <1>2. /\ r.next = [p.next EXCEPT ![x] = v] /\ r.prev = [p.prev EXCEPT ![x] = v] /\ r \in Ptrs
    BY <1>1 DEF Ptrs
  <1> HIDE DEF r
  <1>3. /\ \A y \in Links : y # x => r.next[y] = p.next[y] /\ r.prev[y] = p.prev[y]
        /\ r.next[x] = v /\ r.prev[x] = v
    BY <1>1, <1>2 DEF Ptrs
  <1>4. ASSUME NEW h \in Heads PROVE Circle(r, h, q[h])
    <2>1. ASSUME NEW k \in 0..Len(q[h])
          PROVE  Joined(r, At(h, q[h], k), At(h, q[h], After(q[h], k)))
      <3>1. /\ At(h, q[h], k) \in Links /\ At(h, q[h], After(q[h], k)) \in Links
            /\ After(q[h], k) \in 0..Len(q[h])
            /\ Joined(p, At(h, q[h], k), At(h, q[h], After(q[h], k)))
        BY Around
      <3>2. At(h, q[h], k) # x /\ At(h, q[h], After(q[h], k)) # x
        BY <1>1, <3>1, NotListed
      <3>3. QED BY <1>3, <3>1, <3>2 DEF Joined
    <2>2. QED BY <2>1 DEF Circle
  <1>5. ASSUME NEW y \in Entries, ~Listed(q, y) PROVE Loose(r, y)
    <2>1. CASE y = x
      BY <1>3, <2>1 DEF Loose
    <2>2. CASE y # x
      <3>1. Loose(p, y) /\ y \in Links
        BY <1>5, <2>2 DEF Makes, Links
      <3>2. QED BY <1>3, <2>2, <3>1 DEF Loose
    <2>3. QED BY <2>1, <2>2
  <1>6. Makes(r, q, {})
    BY <1>1, <1>2, <1>4, <1>5 DEF Makes
  <1>7. QED BY <1>6 DEF r


----------------------------------------------------------------------------

\* The list t is s with x put in after its first i entries.
Put(s, t, i, x) ==
    /\ Len(t) = Len(s) + 1 /\ t[i + 1] = x
    /\ \A k \in 1..i : t[k] = s[k]
    /\ \A k \in (i + 1)..Len(s) : t[k + 1] = s[k]
Up(i, k) == IF k <= i THEN k ELSE k + 1

\* The lists q2 are q1 with x put into one of them.
Longer(q1, q2, h, i, x) ==
    /\ q1 \in [Heads -> Seq(Entries)] /\ q2 \in [Heads -> Seq(Entries)]
    /\ h \in Heads /\ x \in Entries /\ i \in 0..Len(q1[h])
    /\ \A g \in Heads : g # h => q2[g] = q1[g]
    /\ Put(q1[h], q2[h], i, x)

\* Where the places of s are in t.
Places(s, t, i, x, h) ==
    /\ \A k \in 0..Len(s) :
         Up(i, k) \in 0..Len(t) /\ Up(i, k) # i + 1 /\ At(h, t, Up(i, k)) = At(h, s, k)
    /\ \A k \in 0..Len(t) : k # i + 1 => \E j \in 0..Len(s) : k = Up(i, j)
    /\ \A k \in 0..Len(s) : k # i => After(t, Up(i, k)) = Up(i, After(s, k))
    /\ After(t, i) = i + 1 /\ After(t, i + 1) = Up(i, After(s, i)) /\ Up(i, i) = i
    /\ At(h, t, i + 1) = x
    /\ \A j, k \in 0..Len(s) : Up(i, j) = Up(i, k) => j = k
    /\ \A k \in 0..Len(s) : k = 0 <=> Up(i, k) = 0

LEMMA PutPlaces ==
  ASSUME NEW s \in Seq(Entries), NEW t \in Seq(Entries), NEW i \in 0..Len(s), NEW x,
         Put(s, t, i, x), NEW h
  PROVE  Places(s, t, i, x, h)
  <1>1. Len(s) \in Nat /\ i \in Nat /\ i <= Len(s) /\ Len(t) = Len(s) + 1
    BY DEF Put
  <1>2. ASSUME NEW k \in 0..Len(s)
        PROVE  Up(i, k) \in 0..Len(t) /\ Up(i, k) # i + 1 /\ At(h, t, Up(i, k)) = At(h, s, k)
    <2>1. CASE k = 0
      BY <1>1, <2>1 DEF Up, At
    <2>2. CASE k # 0 /\ k <= i
      <3>1. Up(i, k) = k /\ k \in 1..i
        BY <1>1, <2>2 DEF Up
      <3>2. QED BY <1>1, <2>2, <3>1 DEF Put, At
    <2>3. CASE k > i
      <3>1. Up(i, k) = k + 1 /\ k \in (i + 1)..Len(s) /\ k # 0 /\ k + 1 # 0
        BY <1>1, <2>3 DEF Up
      <3>2. QED BY <1>1, <2>3, <3>1 DEF Put, At
    <2>4. QED BY <1>1, <2>1, <2>2, <2>3
  <1>3. ASSUME NEW k \in 0..Len(t), k # i + 1 PROVE \E j \in 0..Len(s) : k = Up(i, j)
    <2>1. CASE k <= i
      BY <1>1, <2>1 DEF Up
    <2>2. CASE k > i
      <3>1. k - 1 \in 0..Len(s) /\ Up(i, k - 1) = k
        BY <1>1, <1>3, <2>2 DEF Up
      <3>2. QED BY <3>1
    <2>3. QED BY <1>1, <2>1, <2>2
  <1>4. ASSUME NEW k \in 0..Len(s), k # i PROVE After(t, Up(i, k)) = Up(i, After(s, k))
    BY <1>1, <1>4 DEF After, Up
  <1>5. After(t, i) = i + 1 /\ After(t, i + 1) = Up(i, After(s, i)) /\ Up(i, i) = i
    BY <1>1 DEF After, Up
  <1>6. At(h, t, i + 1) = x
    BY <1>1 DEF At, Put
  <1>7. \A j, k \in 0..Len(s) : Up(i, j) = Up(i, k) => j = k
    BY <1>1 DEF Up
  <1>8. \A k \in 0..Len(s) : k = 0 <=> Up(i, k) = 0
    BY <1>1 DEF Up
  <1>9. QED BY <1>2, <1>3, <1>4, <1>5, <1>6, <1>7, <1>8 DEF Places

\* A link is listed if it is at a place of a circle that is not the head's.
LEMMA ListedAt ==
  ASSUME NEW q \in [Heads -> Seq(Entries)], NEW y \in Entries
  PROVE  Listed(q, y) <=> \E h \in Heads : \E k \in 0..Len(q[h]) : At(h, q[h], k) = y
  <1>1. \A h \in Heads : Len(q[h]) \in Nat /\ h # y
    BY ListAssumption
  <1>2. QED BY <1>1 DEF Listed, At

LEMMA PutListed ==
  ASSUME NEW q1, NEW q2, NEW h, NEW i, NEW x, Longer(q1, q2, h, i, x), NEW y \in Entries
  PROVE  Listed(q2, y) <=> Listed(q1, y) \/ y = x
  <1>1. /\ q1 \in [Heads -> Seq(Entries)] /\ q2 \in [Heads -> Seq(Entries)] /\ h \in Heads
        /\ q1[h] \in Seq(Entries) /\ q2[h] \in Seq(Entries) /\ i \in 0..Len(q1[h])
        /\ Put(q1[h], q2[h], i, x)
        /\ \A g \in Heads : g # h => q2[g] = q1[g]
    BY DEF Longer
  <1>0. Places(q1[h], q2[h], i, x, h)
    BY <1>1, PutPlaces
  <1>2. ASSUME Listed(q2, y), y # x PROVE Listed(q1, y)
    <2>1. PICK g \in Heads : \E k \in 0..Len(q2[g]) : At(g, q2[g], k) = y
      BY <1>1, <1>2, ListedAt
    <2>2. PICK k \in 0..Len(q2[g]) : At(g, q2[g], k) = y
      BY <2>1
    <2>3. CASE g # h
      BY <1>1, <2>2, <2>3, ListedAt
    <2>4. CASE g = h
      <3>1. k # i + 1
        BY <1>0, <1>1, <1>2, <2>2, <2>4 DEF Places
      <3>2. PICK j \in 0..Len(q1[h]) : k = Up(i, j)
        BY <1>0, <1>1, <2>4, <3>1 DEF Places
      <3>3. At(h, q1[h], j) = y
        BY <1>0, <1>1, <2>2, <2>4, <3>2 DEF Places
      <3>4. QED BY <1>1, <3>3, ListedAt
    <2>5. QED BY <2>3, <2>4
  <1>3. ASSUME Listed(q1, y) PROVE Listed(q2, y)
    <2>1. PICK g \in Heads : \E k \in 0..Len(q1[g]) : At(g, q1[g], k) = y
      BY <1>1, <1>3, ListedAt
    <2>2. PICK k \in 0..Len(q1[g]) : At(g, q1[g], k) = y
      BY <2>1
    <2>3. CASE g # h
      BY <1>1, <2>2, <2>3, ListedAt
    <2>4. CASE g = h
      <3>1. Up(i, k) \in 0..Len(q2[h]) /\ At(h, q2[h], Up(i, k)) = y
        BY <1>0, <1>1, <2>2, <2>4 DEF Places
      <3>2. QED BY <1>1, <3>1, ListedAt
    <2>5. QED BY <2>3, <2>4
  <1>4. Listed(q2, x)
    <2>1. i + 1 \in 1..Len(q2[h]) /\ q2[h][i + 1] = x
      BY <1>1 DEF Put
    <2>2. QED BY <1>1, <2>1 DEF Listed
  <1>5. QED BY <1>2, <1>3, <1>4

LEMMA PutApart ==
  ASSUME NEW q1, NEW q2, NEW h, NEW i, NEW x, Longer(q1, q2, h, i, x)
  PROVE  /\ Apart(q1) /\ ~Listed(q1, x) => Apart(q2)
         /\ Apart(q2) => Apart(q1) /\ ~Listed(q1, x)
  <1>1. /\ q1 \in [Heads -> Seq(Entries)] /\ q2 \in [Heads -> Seq(Entries)] /\ h \in Heads
        /\ q1[h] \in Seq(Entries) /\ q2[h] \in Seq(Entries) /\ i \in 0..Len(q1[h])
        /\ Put(q1[h], q2[h], i, x) /\ x \in Entries
        /\ \A g \in Heads : g # h => q2[g] = q1[g]
    BY DEF Longer
  <1>0. Places(q1[h], q2[h], i, x, h)
    BY <1>1, PutPlaces
  <1> DEFINE Move(g, k) == IF g = h THEN Up(i, k) ELSE k
  <1>2. ASSUME NEW g \in Heads, NEW k \in 1..Len(q1[g])
        PROVE  /\ Move(g, k) \in 1..Len(q2[g]) /\ q2[g][Move(g, k)] = q1[g][k]
               /\ g = h => Move(g, k) # i + 1
    <2>1. CASE g # h
      BY <1>1, <2>1
    <2>2. CASE g = h
      <3>1. /\ Up(i, k) \in 0..Len(q2[h]) /\ Up(i, k) # i + 1
            /\ At(h, q2[h], Up(i, k)) = At(h, q1[h], k) /\ Up(i, k) # 0
        <4>1. k \in 0..Len(q1[h]) /\ k # 0
          BY <1>1, <2>2
        <4>2. QED BY <1>0, <1>1, <4>1 DEF Places
      <3>2. QED BY <1>1, <2>2, <3>1 DEF At
    <2>3. QED BY <2>1, <2>2
  <1>3. ASSUME NEW g \in Heads, NEW j \in 1..Len(q1[g]), NEW k \in 1..Len(q1[g]), Move(g, j) = Move(g, k)
        PROVE  j = k
    <2>1. g = h => j \in 0..Len(q1[h]) /\ k \in 0..Len(q1[h])
      BY <1>1
    <2>2. QED BY <1>0, <1>1, <1>3, <2>1 DEF Places
  <1>4. ASSUME NEW g \in Heads, NEW k \in 1..Len(q2[g]), ~(g = h /\ k = i + 1)
        PROVE  \E j \in 1..Len(q1[g]) : k = Move(g, j) /\ q2[g][k] = q1[g][j]
    <2>1. CASE g # h
      BY <1>1, <2>1
    <2>2. CASE g = h
      <3>1. PICK j \in 0..Len(q1[h]) : k = Up(i, j)
        <4>1. k \in 0..Len(q2[h])
          BY <1>1, <2>2
        <4>2. QED BY <1>0, <1>1, <1>4, <2>2, <4>1 DEF Places
      <3>2. j # 0
        BY <1>0, <1>1, <3>1 DEF Places
      <3>3. j \in 1..Len(q1[g])
        BY <1>1, <2>2, <3>2
      <3>4. QED BY <1>2, <2>2, <3>1, <3>3
    <2>3. QED BY <2>1, <2>2
  <1>5. i + 1 \in 1..Len(q2[h]) /\ q2[h][i + 1] = x
    BY <1>1 DEF Put
  <1>6. ASSUME Apart(q1), ~Listed(q1, x) PROVE Apart(q2)
    <2>1. ASSUME NEW f \in Heads, NEW g \in Heads, NEW j \in 1..Len(q2[f]), NEW k \in 1..Len(q2[g]),
                 q2[f][j] = q2[g][k]
          PROVE  f = g /\ j = k
      <3>1. ASSUME NEW e \in Heads, NEW m \in 1..Len(q2[e]), q2[e][m] = x PROVE e = h /\ m = i + 1
        <4>1. SUFFICES ASSUME ~(e = h /\ m = i + 1) PROVE FALSE
          OBVIOUS
        <4>2. PICK n \in 1..Len(q1[e]) : q2[e][m] = q1[e][n]
          BY <4>1, <1>4
        <4>3. QED BY <1>6, <3>1, <4>2 DEF Listed
      <3>2. CASE f = h /\ j = i + 1
        BY <1>5, <2>1, <3>1, <3>2
      <3>3. CASE g = h /\ k = i + 1
        BY <1>5, <2>1, <3>1, <3>3
      <3>4. CASE ~(f = h /\ j = i + 1) /\ ~(g = h /\ k = i + 1)
        <4>1. PICK m \in 1..Len(q1[f]) : j = Move(f, m) /\ q2[f][j] = q1[f][m]
          BY <3>4, <1>4
        <4>2. PICK n \in 1..Len(q1[g]) : k = Move(g, n) /\ q2[g][k] = q1[g][n]
          BY <3>4, <1>4
        <4>3. f = g /\ m = n
          BY <1>6, <2>1, <4>1, <4>2 DEF Apart
        <4>4. QED BY <4>1, <4>2, <4>3
      <3>5. QED BY <3>2, <3>3, <3>4
    <2>2. QED BY <2>1 DEF Apart
  <1>7. ASSUME Apart(q2) PROVE Apart(q1)
    <2>1. ASSUME NEW f \in Heads, NEW g \in Heads, NEW j \in 1..Len(q1[f]), NEW k \in 1..Len(q1[g]),
                 q1[f][j] = q1[g][k]
          PROVE  f = g /\ j = k
      <3>1. f = g /\ Move(f, j) = Move(g, k)
        <4> HIDE DEF Move
        <4>1. /\ Move(f, j) \in 1..Len(q2[f]) /\ q2[f][Move(f, j)] = q1[f][j]
              /\ Move(g, k) \in 1..Len(q2[g]) /\ q2[g][Move(g, k)] = q1[g][k]
          BY <1>2
        <4>2. QED BY <4>1, <1>7, <2>1 DEF Apart
      <3>2. QED BY <3>1, <1>3
    <2>2. QED BY <2>1 DEF Apart
  <1>8. ASSUME Apart(q2) PROVE ~Listed(q1, x)
    <2>1. SUFFICES ASSUME Listed(q1, x) PROVE FALSE
      OBVIOUS
    <2>2. PICK g \in Heads : \E k \in 1..Len(q1[g]) : q1[g][k] = x
      BY <2>1 DEF Listed
    <2>3. PICK k \in 1..Len(q1[g]) : q1[g][k] = x
      BY <2>2
    <2>4. /\ Move(g, k) \in 1..Len(q2[g]) /\ q2[g][Move(g, k)] = x
          /\ g = h => Move(g, k) # i + 1
      BY <1>2, <2>3
    <2>5. g = h /\ Move(g, k) = i + 1
      <3> HIDE DEF Move
      <3>1. QED BY <1>1, <1>5, <1>8, <2>4 DEF Apart
    <2>6. QED BY <2>4, <2>5
  <1>9. QED BY <1>6, <1>7, <1>8


\* Putting x in at a place makes the longer lists.
LEMMA Inserts ==
  ASSUME NEW p, NEW q1, NEW q2, NEW h, NEW i, NEW x, Longer(q1, q2, h, i, x),
         Makes(p, q1, {x}), ~Listed(q1, x),
         NEW u, u = At(h, q1[h], i), NEW v, v = At(h, q1[h], After(q1[h], i))
  PROVE  Makes(__list_add(p, x, u, v), q2, {})
  <1> DEFINE r == __list_add(p, x, u, v)
  <1>1. /\ q1 \in [Heads -> Seq(Entries)] /\ q2 \in [Heads -> Seq(Entries)] /\ h \in Heads
        /\ q1[h] \in Seq(Entries) /\ q2[h] \in Seq(Entries) /\ i \in 0..Len(q1[h])
        /\ Put(q1[h], q2[h], i, x) /\ x \in Entries /\ x \in Links
        /\ \A g \in Heads : g # h => q2[g] = q1[g]
    BY DEF Longer, Links
  <1>2. Places(q1[h], q2[h], i, x, h)
    BY <1>1, PutPlaces
  <1>3. p \in Ptrs /\ Apart(q1) /\ Apart(q2)
    BY PutApart DEF Makes
  <1>4. u \in Links /\ v \in Links /\ Joined(p, u, v) /\ After(q1[h], i) \in 0..Len(q1[h])
    BY <1>1, Around
  <1>5. u # x /\ v # x
    BY <1>1, <1>4, NotListed
  <1>6. /\ r \in Ptrs /\ Joined(r, u, x) /\ Joined(r, x, v)
        /\ \A a, b \in Links : Joined(p, a, b) /\ a # x /\ b # x /\ (a # u \/ b # v) => Joined(r, a, b)
        /\ \A y \in Links : y \notin {x, u, v} /\ Loose(p, y) => Loose(r, y)
    BY <1>1, <1>3, <1>4, <1>5, Adds
  <1> HIDE DEF r
  <1>7. ASSUME NEW g \in Heads, NEW k \in 0..Len(q1[g]), ~(g = h /\ k = i)
        PROVE  Joined(r, At(g, q1[g], k), At(g, q1[g], After(q1[g], k)))
    <2>1. /\ At(g, q1[g], k) \in Links /\ At(g, q1[g], After(q1[g], k)) \in Links
          /\ After(q1[g], k) \in 0..Len(q1[g])
          /\ Joined(p, At(g, q1[g], k), At(g, q1[g], After(q1[g], k)))
      BY Around
    <2>2. At(g, q1[g], k) # u
      <3>1. SUFFICES ASSUME At(g, q1[g], k) = At(h, q1[h], i) PROVE FALSE
        OBVIOUS
      <3>2. g = h /\ k = i
        BY <1>1, <1>3, <3>1, Distinct
      <3>3. QED BY <1>7, <3>2
    <2>3. At(g, q1[g], k) # x /\ At(g, q1[g], After(q1[g], k)) # x
      BY <1>1, <2>1, NotListed
    <2>4. QED BY <1>6, <2>1, <2>2, <2>3
  <1>8. ASSUME NEW g \in Heads PROVE Circle(r, g, q2[g])
    <2>1. CASE g # h
      BY <1>1, <1>7, <2>1 DEF Circle
    <2>2. CASE g = h
      <3>1. ASSUME NEW k \in 0..Len(q2[h])
            PROVE  Joined(r, At(h, q2[h], k), At(h, q2[h], After(q2[h], k)))
        <4>1. CASE k = i + 1
          <5>1. At(h, q2[h], k) = x /\ At(h, q2[h], After(q2[h], k)) = v
            BY <1>2, <1>4, <4>1 DEF Places
          <5>2. QED BY <5>1, <1>6
        <4>2. CASE k = i
          <5>1. At(h, q2[h], k) = u /\ At(h, q2[h], After(q2[h], k)) = x
            BY <1>1, <1>2, <4>2 DEF Places
          <5>2. QED BY <5>1, <1>6
        <4>3. CASE k # i + 1 /\ k # i
          <5>1. PICK j \in 0..Len(q1[h]) : k = Up(i, j)
            BY <1>2, <4>3 DEF Places
          <5>2. j # i
            BY <1>2, <4>3, <5>1 DEF Places
          <5>3. After(q1[h], j) \in 0..Len(q1[h])
            BY <1>1, Around
          <5>4. /\ At(h, q2[h], k) = At(h, q1[h], j)
                /\ At(h, q2[h], After(q2[h], k)) = At(h, q1[h], After(q1[h], j))
            BY <1>2, <5>1, <5>2, <5>3 DEF Places
          <5>5. QED BY <1>1, <1>7, <5>2, <5>4
        <4>4. QED BY <4>1, <4>2, <4>3
      <3>2. QED BY <3>1, <2>2 DEF Circle
    <2>3. QED BY <2>1, <2>2
  <1>9. ASSUME NEW y \in Entries, ~Listed(q2, y) PROVE Loose(r, y)
    <2>1. y # x /\ ~Listed(q1, y)
      BY <1>9, PutListed
    <2>2. y \in Links /\ Loose(p, y)
      BY <2>1 DEF Makes, Links
    <2>3. y # u /\ y # v
      BY <1>1, <1>4, <2>1, NotListed
    <2>4. QED BY <1>6, <2>1, <2>2, <2>3
  <1>10. Makes(r, q2, {})
    BY <1>1, <1>3, <1>6, <1>8, <1>9 DEF Makes
  <1>11. QED BY <1>10 DEF r

\* Joining the neighbours of x makes the lists without it.
LEMMA CutsOut ==
  ASSUME NEW p, NEW q1, NEW q2, NEW h, NEW i, NEW x, Longer(q1, q2, h, i, x), Makes(p, q2, {})
  PROVE  Makes(Unlinked(p, x), q1, {x}) /\ ~Listed(q1, x)
  <1> DEFINE r == Unlinked(p, x)
             u == At(h, q1[h], i)
             v == At(h, q1[h], After(q1[h], i))
  <1>1. /\ q1 \in [Heads -> Seq(Entries)] /\ q2 \in [Heads -> Seq(Entries)] /\ h \in Heads
        /\ q1[h] \in Seq(Entries) /\ q2[h] \in Seq(Entries) /\ i \in 0..Len(q1[h])
        /\ Put(q1[h], q2[h], i, x) /\ x \in Entries /\ x \in Links
        /\ \A g \in Heads : g # h => q2[g] = q1[g]
    BY DEF Longer, Links
  <1>2. Places(q1[h], q2[h], i, x, h)
    BY <1>1, PutPlaces
  <1>3. p \in Ptrs /\ Apart(q2) /\ Apart(q1) /\ ~Listed(q1, x)
    BY PutApart DEF Makes
  <1>4. After(q1[h], i) \in 0..Len(q1[h]) /\ u \in Links /\ v \in Links
    BY <1>1, AtLink
  <1>5. u # x /\ v # x
    BY <1>1, <1>3, <1>4, NotListed
  <1>6. /\ i \in 0..Len(q2[h]) /\ i + 1 \in 0..Len(q2[h])
        /\ At(h, q2[h], i) = u /\ After(q2[h], i) = i + 1 /\ At(h, q2[h], i + 1) = x
        /\ At(h, q2[h], After(q2[h], i + 1)) = v
    <2>1. i \in 0..Len(q2[h]) /\ i + 1 \in 0..Len(q2[h])
      BY <1>1 DEF Put
    <2>2. QED BY <1>1, <1>2, <1>4, <2>1 DEF Places
  <1>7. Joined(p, u, x) /\ Joined(p, x, v)
    <2> HIDE DEF u, v
    <2>1. QED BY <1>1, <1>6, Around
  <1>8. /\ r \in Ptrs /\ Joined(r, u, v)
        /\ \A a, b \in Links : Joined(p, a, b) /\ a # x /\ b # x => Joined(r, a, b)
        /\ \A y \in Links : y # x /\ Loose(p, y) => Loose(r, y)
    <2> HIDE DEF u, v
    <2>1. QED BY <1>1, <1>3, <1>4, <1>5, <1>7, Cuts
  <1> HIDE DEF r
  <1>9. ASSUME NEW g \in Heads PROVE Circle(r, g, q1[g])
    <2>1. ASSUME NEW k \in 0..Len(q1[g]), ~(g = h /\ k = i)
          PROVE  Joined(p, At(g, q1[g], k), At(g, q1[g], After(q1[g], k)))
      <3>1. CASE g # h
        BY <1>1, <2>1, <3>1, Around
      <3>2. CASE g = h
        <4>1. k \in 0..Len(q1[h]) /\ k # i /\ After(q1[h], k) \in 0..Len(q1[h])
          BY <1>1, <2>1, <3>2, AtLink
        <4>2. /\ Up(i, k) \in 0..Len(q2[h])
              /\ At(h, q2[h], Up(i, k)) = At(h, q1[h], k)
              /\ At(h, q2[h], After(q2[h], Up(i, k))) = At(h, q1[h], After(q1[h], k))
          BY <1>2, <4>1 DEF Places
        <4>3. Joined(p, At(h, q2[h], Up(i, k)), At(h, q2[h], After(q2[h], Up(i, k))))
          BY <1>1, <4>2, Around
        <4>4. QED BY <3>2, <4>2, <4>3
      <3>3. QED BY <3>1, <3>2
    <2>2. ASSUME NEW k \in 0..Len(q1[g])
          PROVE  Joined(r, At(g, q1[g], k), At(g, q1[g], After(q1[g], k)))
      <3>1. q1[g] \in Seq(Entries) /\ After(q1[g], k) \in 0..Len(q1[g])
        BY <1>1, AtLink
      <3>2. At(g, q1[g], k) \in Links /\ At(g, q1[g], After(q1[g], k)) \in Links
        BY <3>1, AtLink
      <3>3. At(g, q1[g], k) # x /\ At(g, q1[g], After(q1[g], k)) # x
        BY <1>1, <1>3, <3>1, NotListed
      <3>4. CASE g = h /\ k = i
        BY <1>8, <3>4
      <3>5. CASE ~(g = h /\ k = i)
        BY <1>8, <2>1, <3>2, <3>3, <3>5
      <3>6. QED BY <3>4, <3>5
    <2>3. QED BY <2>2 DEF Circle
  <1>10. ASSUME NEW y \in Entries, y # x, ~Listed(q1, y) PROVE Loose(r, y)
    <2>1. ~Listed(q2, y)
      BY <1>10, PutListed
    <2>2. y \in Links /\ Loose(p, y)
      BY <2>1 DEF Makes, Links
    <2>3. QED BY <1>8, <1>10, <2>2
  <1>11. Makes(r, q1, {x})
    BY <1>1, <1>3, <1>8, <1>9, <1>10 DEF Makes
  <1>12. QED BY <1>3, <1>11 DEF r


\* Joining two lists: g's entries come before h's, and g has none.
IsJoined(q, q2, g, h) == q2 = [q EXCEPT ![g] = <<>>, ![h] = q[g] \o @]

LEMMA JoinedLists ==
  ASSUME NEW q \in [Heads -> Seq(Entries)], NEW g \in Heads, NEW h \in Heads, g # h, Apart(q),
         NEW q2, IsJoined(q, q2, g, h)
  PROVE  /\ q2 \in [Heads -> Seq(Entries)] /\ q2[g] = <<>> /\ q2[h] = q[g] \o q[h]
         /\ \A f \in Heads : f # g /\ f # h => q2[f] = q[f]
         /\ Apart(q2)
         /\ \A y \in Entries : Listed(q2, y) <=> Listed(q, y)
  <1>1. q[g] \in Seq(Entries) /\ q[h] \in Seq(Entries) /\ <<>> \in Seq(Entries)
    OBVIOUS
  <1>2. /\ q[g] \o q[h] \in Seq(Entries) /\ Len(q[g] \o q[h]) = Len(q[g]) + Len(q[h])
        /\ \A k \in 1..Len(q[g]) : (q[g] \o q[h])[k] = q[g][k]
        /\ \A k \in 1..Len(q[h]) : (q[g] \o q[h])[Len(q[g]) + k] = q[h][k]
    BY <1>1, ConcatSeq
  <1>3. /\ q2 \in [Heads -> Seq(Entries)] /\ q2[g] = <<>> /\ q2[h] = q[g] \o q[h]
        /\ \A f \in Heads : f # g /\ f # h => q2[f] = q[f]
    BY <1>1, <1>2 DEF IsJoined
  <1>4. Len(q[g]) \in Nat /\ Len(q[h]) \in Nat /\ Len(q2[g]) = 0
    BY <1>1, <1>3
  <1> DEFINE To(f) == IF f = g THEN h ELSE f
             Move(f, k) == IF f = h THEN Len(q[g]) + k ELSE k
  <1>5. ASSUME NEW f \in Heads, NEW k \in 1..Len(q[f])
        PROVE  To(f) \in Heads /\ Move(f, k) \in 1..Len(q2[To(f)]) /\ q2[To(f)][Move(f, k)] = q[f][k]
    <2>1. CASE f = g
      BY <1>2, <1>3, <1>4, <2>1
    <2>2. CASE f = h
      BY <1>2, <1>3, <1>4, <2>2
    <2>3. CASE f # g /\ f # h
      BY <1>3, <2>3
    <2>4. QED BY <2>1, <2>2, <2>3
  <1>6. ASSUME NEW f \in Heads, NEW k \in 1..Len(q2[f])
        PROVE  \E e \in Heads : \E j \in 1..Len(q[e]) : f = To(e) /\ k = Move(e, j)
    <2>1. CASE f = g
      BY <1>4, <2>1
    <2>2. CASE f = h /\ k <= Len(q[g])
      <3>1. k \in 1..Len(q[g]) /\ f = To(g) /\ k = Move(g, k)
        BY <1>4, <2>2
      <3>2. QED BY <3>1
    <2>3. CASE f = h /\ k > Len(q[g])
      <3>1. k - Len(q[g]) \in 1..Len(q[h]) /\ f = To(h) /\ k = Move(h, k - Len(q[g]))
        BY <1>2, <1>3, <1>4, <2>3
      <3>2. QED BY <3>1
    <2>4. CASE f # g /\ f # h
      <3>1. k \in 1..Len(q[f]) /\ f = To(f) /\ k = Move(f, k)
        BY <1>3, <2>4
      <3>2. QED BY <3>1
    <2>5. QED BY <1>4, <2>1, <2>2, <2>3, <2>4
  <1>7. ASSUME NEW f1 \in Heads, NEW f2 \in Heads, NEW j1 \in 1..Len(q[f1]), NEW j2 \in 1..Len(q[f2]),
               f1 = f2, j1 = j2
        PROVE  To(f1) = To(f2) /\ Move(f1, j1) = Move(f2, j2)
    BY <1>7
  <1> HIDE DEF To, Move
  <1>8. Apart(q2)
    <2>1. ASSUME NEW f1 \in Heads, NEW f2 \in Heads, NEW k1 \in 1..Len(q2[f1]), NEW k2 \in 1..Len(q2[f2]),
                 q2[f1][k1] = q2[f2][k2]
          PROVE  f1 = f2 /\ k1 = k2
      <3>1. PICK e1 \in Heads : \E j1 \in 1..Len(q[e1]) : f1 = To(e1) /\ k1 = Move(e1, j1)
        BY <1>6
      <3>2. PICK j1 \in 1..Len(q[e1]) : f1 = To(e1) /\ k1 = Move(e1, j1)
        BY <3>1
      <3>3. PICK e2 \in Heads : \E j2 \in 1..Len(q[e2]) : f2 = To(e2) /\ k2 = Move(e2, j2)
        BY <1>6
      <3>4. PICK j2 \in 1..Len(q[e2]) : f2 = To(e2) /\ k2 = Move(e2, j2)
        BY <3>3
      <3>5. q[e1][j1] = q[e2][j2]
        BY <1>5, <2>1, <3>2, <3>4
      <3>6. e1 = e2 /\ j1 = j2
        BY <3>5 DEF Apart
      <3>7. QED BY <3>2, <3>4, <3>6
    <2>2. QED BY <2>1 DEF Apart
  <1>9. ASSUME NEW y \in Entries PROVE Listed(q2, y) <=> Listed(q, y)
    <2>1. ASSUME Listed(q, y) PROVE Listed(q2, y)
      <3>1. PICK f \in Heads : \E k \in 1..Len(q[f]) : q[f][k] = y
        BY <2>1 DEF Listed
      <3>2. PICK k \in 1..Len(q[f]) : q[f][k] = y
        BY <3>1
      <3>3. QED BY <1>5, <3>2 DEF Listed
    <2>2. ASSUME Listed(q2, y) PROVE Listed(q, y)
      <3>1. PICK f \in Heads : \E k \in 1..Len(q2[f]) : q2[f][k] = y
        BY <2>2 DEF Listed
      <3>2. PICK k \in 1..Len(q2[f]) : q2[f][k] = y
        BY <3>1
      <3>3. PICK e \in Heads : \E j \in 1..Len(q[e]) : f = To(e) /\ k = Move(e, j)
        BY <1>6
      <3>4. PICK j \in 1..Len(q[e]) : f = To(e) /\ k = Move(e, j)
        BY <3>3
      <3>5. q[e][j] = y
        BY <1>5, <3>2, <3>4
      <3>6. QED BY <3>5 DEF Listed
    <2>3. QED BY <2>1, <2>2
  <1>10. QED BY <1>3, <1>8, <1>9

LEMMA SpliceMakes ==
  ASSUME NEW p, NEW q, Makes(p, q, {}), NEW g \in Heads, NEW h \in Heads, g # h,
         NEW q2, IsJoined(q, q2, g, h)
  PROVE  Makes(list_splice(p, g, h), q2, {})
  <1> DEFINE r == list_splice(p, g, h)
             s1 == q[g]
             s2 == q[h]
  <1>1. /\ p \in Ptrs /\ q \in [Heads -> Seq(Entries)] /\ Apart(q)
        /\ s1 \in Seq(Entries) /\ s2 \in Seq(Entries) /\ g \in Links /\ h \in Links
        /\ Len(s1) \in Nat /\ Len(s2) \in Nat
    BY DEF Makes, Links
  <1>2. /\ q2 \in [Heads -> Seq(Entries)] /\ q2[g] = <<>> /\ q2[h] = s1 \o s2
        /\ \A f \in Heads : f # g /\ f # h => q2[f] = q[f]
        /\ Apart(q2)
        /\ \A y \in Entries : Listed(q2, y) <=> Listed(q, y)
    BY <1>1, JoinedLists
  <1>3. p.next[g] = At(g, s1, After(s1, 0))
    <2>1. 0 \in 0..Len(q[g]) /\ At(g, q[g], 0) = g
      BY <1>1 DEF At
    <2>2. QED BY <2>1, Around DEF Joined
  <1>4. CASE s1 = <<>>
    <2>1. p.next[g] = g
      BY <1>3, <1>4 DEF After, At
    <2>2. r = p
      BY <2>1 DEF list_splice, list_empty
    <2>3. <<>> \o s2 = s2
      BY <1>1
    <2>4. q2 = q
      BY <1>1, <1>4, <2>3 DEF IsJoined
    <2>5. QED BY <2>2, <2>4
  <1>5. CASE s1 # <<>>
    <2> DEFINE n1 == Len(s1)
               first == At(g, s1, 1)
               last == At(g, s1, n1)
               at == At(h, s2, After(s2, 0))
    <2>1. n1 \in Nat /\ n1 # 0
      BY <1>1, <1>5
    <2>2. first \in Entries /\ last \in Entries
      BY <1>1, <2>1, AtLink
    <2>3. Joined(p, g, first) /\ Joined(p, last, g) /\ Joined(p, h, at) /\ at \in Links
      <3>1. /\ 0 \in 0..Len(q[g]) /\ At(g, q[g], 0) = g /\ After(q[g], 0) = 1
            /\ 0 \in 0..Len(q[h]) /\ At(h, q[h], 0) = h
            /\ Len(q[g]) \in 0..Len(q[g]) /\ After(q[g], Len(q[g])) = 0
        BY <1>1, <2>1 DEF At, After
      <3>2. Joined(p, g, first)
        BY <3>1, Around
      <3>3. Joined(p, last, g)
        BY <3>1, Around
      <3>4. Joined(p, h, at) /\ at \in Links
        BY <3>1, Around
      <3>5. QED BY <3>2, <3>3, <3>4
    <2>4. at # g
      <3>1. SUFFICES ASSUME at = g PROVE FALSE
        OBVIOUS
      <3>2. After(q[h], 0) \in 0..Len(q[h]) /\ 0 \in 0..Len(q[g]) /\ At(g, q[g], 0) = g
        BY <1>1, AtLink DEF At
      <3>3. g = h
        BY <1>1, <3>1, <3>2, Distinct
      <3>4. QED BY <3>3
    <2>5. first \notin {g, h} /\ last \notin {g, h} /\ first \in Links /\ last \in Links
      BY <2>2, ListAssumption DEF Links
    <2>6. /\ r \in Ptrs
          /\ Joined(r, h, first) /\ Joined(r, last, at) /\ Joined(r, g, g)
          /\ \A a, b \in Links : Joined(p, a, b) /\ a \notin {g, h} /\ a # last /\ b # g => Joined(r, a, b)
          /\ \A y \in Links : y \notin {g, h, first, last, at} /\ Loose(p, y) => Loose(r, y)
      <3> HIDE DEF first, last, at
      <3>1. QED BY <1>1, <2>3, <2>4, <2>5, Splices
    <2> HIDE DEF r
    <2>7. ASSUME NEW f \in Heads, NEW k \in 0..Len(q[f]), k # 0 \/ f \notin {g, h}, ~(f = g /\ k = n1)
          PROVE  Joined(r, At(f, q[f], k), At(f, q[f], After(q[f], k)))
      <3>1. /\ At(f, q[f], k) \in Links /\ At(f, q[f], After(q[f], k)) \in Links
            /\ After(q[f], k) \in 0..Len(q[f])
            /\ Joined(p, At(f, q[f], k), At(f, q[f], After(q[f], k)))
        BY Around
      <3>2. At(f, q[f], k) \notin {g, h}
        <4>1. k # 0 => At(f, q[f], k) \in Entries
          BY <1>1, AtLink
        <4>2. k = 0 => At(f, q[f], k) = f
          BY DEF At
        <4>3. QED BY <2>7, <4>1, <4>2, ListAssumption
      <3>3. At(f, q[f], k) # last
        <4>1. SUFFICES ASSUME At(f, q[f], k) = At(g, q[g], n1) PROVE FALSE
          OBVIOUS
        <4>2. f = g /\ k = n1
          <5>1. n1 \in 0..Len(q[g])
            BY <1>1
          <5>2. QED BY <1>1, <4>1, <5>1, Distinct
        <4>3. QED BY <2>7, <4>2
      <3>4. At(f, q[f], After(q[f], k)) # g
        <4>1. SUFFICES ASSUME At(f, q[f], After(q[f], k)) = g PROVE FALSE
          OBVIOUS
        <4>2. 0 \in 0..Len(q[g]) /\ At(g, q[g], 0) = g
          BY <1>1 DEF At
        <4>3. f = g /\ After(q[f], k) = 0
          BY <1>1, <3>1, <4>1, <4>2, Distinct
        <4>4. QED BY <1>1, <2>1, <2>7, <4>3 DEF After
      <3>5. QED BY <2>6, <3>1, <3>2, <3>3, <3>4
    <2>8. Circle(r, g, q2[g])
      BY <1>2, <2>6 DEF Circle, At, After
    <2>9. Circle(r, h, q2[h])
      <3> DEFINE t == s1 \o s2
      <3>1. /\ t \in Seq(Entries) /\ Len(t) = n1 + Len(s2)
            /\ \A k \in 1..n1 : t[k] = s1[k]
            /\ \A k \in 1..Len(s2) : t[n1 + k] = s2[k]
        BY <1>1, ConcatSeq
      <3> HIDE DEF t
      <3>2. \A k \in 1..n1 : At(h, t, k) = At(g, s1, k)
        BY <1>1, <2>1, <3>1 DEF At
      <3>3. ASSUME NEW k \in 1..Len(s2) PROVE At(h, t, n1 + k) = At(h, s2, k)
        BY <1>1, <3>1 DEF At
      <3>4. ASSUME NEW k \in 0..Len(t) PROVE Joined(r, At(h, t, k), At(h, t, After(t, k)))
        <4>1. CASE k = 0
          <5>1. After(t, k) = 1 /\ At(h, t, k) = h
            BY <1>1, <2>1, <3>1, <4>1 DEF After, At
          <5>2. At(h, t, 1) = first
            BY <1>1, <2>1, <3>2
          <5>3. QED BY <2>6, <5>1, <5>2
        <4>2. CASE k \in 1..(n1 - 1)
          <5>1. k + 1 \in 1..n1 /\ k \in 1..n1 /\ After(t, k) = k + 1 /\ After(s1, k) = k + 1
            BY <1>1, <2>1, <3>1, <4>2 DEF After
          <5>2. Joined(r, At(g, s1, k), At(g, s1, After(s1, k)))
            <6>1. k \in 0..Len(q[g]) /\ k # 0 /\ k # n1
              BY <1>1, <4>2
            <6>2. QED BY <2>7, <6>1
          <5>3. QED BY <3>2, <5>1, <5>2
        <4>3. CASE k = n1
          <5>1. At(h, t, k) = last
            BY <1>1, <2>1, <3>2, <4>3
          <5>2. At(h, t, After(t, k)) = at
            <6>1. CASE Len(s2) = 0
              BY <1>1, <3>1, <4>3, <6>1 DEF At, After
            <6>2. CASE Len(s2) # 0
              <7>1. After(t, k) = n1 + 1 /\ After(s2, 0) = 1 /\ 1 \in 1..Len(s2)
                BY <1>1, <3>1, <4>3, <6>2 DEF After
              <7>2. QED BY <3>3, <7>1
            <6>3. QED BY <6>1, <6>2
          <5>3. QED BY <2>6, <5>1, <5>2
        <4>4. CASE k \in (n1 + 1)..Len(t)
          <5>1. PICK j \in 1..Len(s2) : k = n1 + j
            <6>1. k - n1 \in 1..Len(s2) /\ k = n1 + (k - n1)
              BY <1>1, <3>1, <4>4
            <6>2. QED BY <6>1
          <5>2. Joined(r, At(h, s2, j), At(h, s2, After(s2, j)))
            <6>1. j \in 0..Len(q[h]) /\ j # 0
              BY <1>1
            <6>2. QED BY <2>7, <6>1
          <5>3. At(h, t, After(t, k)) = At(h, s2, After(s2, j))
            <6>1. CASE j = Len(s2)
              BY <1>1, <3>1, <5>1, <6>1 DEF At, After
            <6>2. CASE j # Len(s2)
              <7>1. After(t, k) = n1 + (j + 1) /\ After(s2, j) = j + 1 /\ j + 1 \in 1..Len(s2)
                BY <1>1, <3>1, <5>1, <6>2 DEF After
              <7>2. QED BY <3>3, <7>1
            <6>3. QED BY <6>1, <6>2
          <5>4. QED BY <3>3, <5>1, <5>2, <5>3
        <4>5. QED BY <1>1, <3>1, <4>1, <4>2, <4>3, <4>4
      <3>5. QED BY <1>2, <3>4 DEF Circle, t
    <2>10. ASSUME NEW f \in Heads, f \notin {g, h} PROVE Circle(r, f, q2[f])
      BY <1>2, <2>7, <2>10 DEF Circle
    <2>11. ASSUME NEW y \in Entries, ~Listed(q2, y) PROVE Loose(r, y)
      <3>1. ~Listed(q, y)
        BY <1>2, <2>11
      <3>2. y \in Links /\ Loose(p, y)
        BY <3>1 DEF Makes, Links
      <3>3. y \notin {g, h}
        BY ListAssumption
      <3>4. y # first /\ y # last
        BY <1>1, <2>1, <3>1, NotListed
      <3>5. After(q[h], 0) \in 0..Len(q[h])
        BY <1>1, AtLink
      <3>6. y # at
        BY <1>1, <3>1, <3>5, NotListed
      <3>7. QED BY <2>6, <3>2, <3>3, <3>4, <3>6
    <2>12. \A f \in Heads : Circle(r, f, q2[f])
      BY <2>8, <2>9, <2>10
    <2>13. QED BY <1>2, <2>6, <2>11, <2>12 DEF Makes, r
  <1>6. QED BY <1>4, <1>5


----------------------------------------------------------------------------

\* list_add and list_add_tail make the list that is longer at its end.
LEMMA HeadAdds ==
  ASSUME NEW p, NEW q, NEW x \in Entries, NEW h \in Heads, Makes(p, q, {x}), ~Listed(q, x)
  PROVE  Makes(list_add(p, x, h), AtHead(q, x, h), {})
  <1> DEFINE q2 == AtHead(q, x, h)
             v == At(h, q[h], After(q[h], 0))
  <1>1. q \in [Heads -> Seq(Entries)] /\ q[h] \in Seq(Entries) /\ Len(q[h]) \in Nat
    BY DEF Makes
  <1>2. /\ <<x>> \o q[h] \in Seq(Entries) /\ Len(<<x>> \o q[h]) = Len(q[h]) + 1
        /\ (<<x>> \o q[h])[1] = x
        /\ \A k \in 1..Len(q[h]) : (<<x>> \o q[h])[k + 1] = q[h][k]
    BY <1>1, ConsSeq
  <1>3. /\ q2 \in [Heads -> Seq(Entries)] /\ q2[h] = <<x>> \o q[h]
        /\ \A g \in Heads : g # h => q2[g] = q[g]
    BY <1>1, <1>2 DEF AtHead
  <1> HIDE DEF q2
  <1>4. Put(q[h], q2[h], 0, x)
    BY <1>1, <1>2, <1>3 DEF Put
  <1>5. Longer(q, q2, h, 0, x)
    BY <1>1, <1>3, <1>4 DEF Longer
  <1>6. h = At(h, q[h], 0) /\ 0 \in 0..Len(q[h])
    BY <1>1 DEF At
  <1>7. p.next[h] = v
    BY <1>6, Around DEF Joined
  <1>8. Makes(__list_add(p, x, h, v), q2, {})
    BY <1>5, <1>6, Inserts
  <1>9. QED BY <1>7, <1>8 DEF list_add, q2

LEMMA TailAdds ==
  ASSUME NEW p, NEW q, NEW x \in Entries, NEW h \in Heads, Makes(p, q, {x}), ~Listed(q, x)
  PROVE  Makes(list_add_tail(p, x, h), AtTail(q, x, h), {})
  <1> DEFINE q2 == AtTail(q, x, h)
             n == Len(q[h])
             u == At(h, q[h], n)
  <1>1. q \in [Heads -> Seq(Entries)] /\ q[h] \in Seq(Entries) /\ n \in Nat
    BY DEF Makes
  <1>2. /\ Append(q[h], x) \in Seq(Entries) /\ Len(Append(q[h], x)) = n + 1
        /\ Append(q[h], x)[n + 1] = x
        /\ \A k \in 1..n : Append(q[h], x)[k] = q[h][k]
    BY <1>1, AppendSeq
  <1>3. /\ q2 \in [Heads -> Seq(Entries)] /\ q2[h] = Append(q[h], x)
        /\ \A g \in Heads : g # h => q2[g] = q[g]
    BY <1>1, <1>2 DEF AtTail
  <1> HIDE DEF q2
  <1>4. Put(q[h], q2[h], n, x)
    BY <1>1, <1>2, <1>3 DEF Put
  <1>5. Longer(q, q2, h, n, x)
    BY <1>1, <1>3, <1>4 DEF Longer
  <1>6. At(h, q[h], After(q[h], n)) = h /\ n \in 0..Len(q[h])
    BY <1>1 DEF At, After
  <1>7. p.prev[h] = u
    BY <1>6, Around DEF Joined
  <1>8. Makes(__list_add(p, x, u, h), q2, {})
    BY <1>5, <1>6, Inserts
  <1>9. QED BY <1>7, <1>8 DEF list_add_tail, q2

LEMMA InListed ==
  ASSUME listed \in [Heads -> Seq(Entries)], NEW x \in Entries
  PROVE  In(x) # {} <=> Listed(listed, x)
  BY DEF In, Listed, Range

\* The lists without an entry that is in one.
LEMMA WithoutOne ==
  ASSUME NEW p, Makes(p, listed, {}), NEW x \in Entries, NEW g \in Heads,
         NEW i \in 1..Len(listed[g]), listed[g][i] = x
  PROVE  /\ Longer(Without(x), listed, g, i - 1, x)
         /\ Without(x)[g] = RemoveAt(listed[g], i)
  <1>1. listed \in [Heads -> Seq(Entries)] /\ listed[g] \in Seq(Entries) /\ Apart(listed)
    BY DEF Makes
  <1>2. x \in Range(listed[g])
    BY <1>1 DEF Range
  <1>3. Place(listed[g], x) = i
    <2>1. Place(listed[g], x) \in DOMAIN listed[g] /\ listed[g][Place(listed[g], x)] = x
      BY <1>1 DEF Place
    <2>2. DOMAIN listed[g] = 1..Len(listed[g])
      BY <1>1
    <2>3. QED BY <1>1, <2>1, <2>2 DEF Apart
  <1>4. ASSUME NEW f \in Heads, f # g PROVE x \notin Range(listed[f])
    <2>1. listed[f] \in Seq(Entries) /\ DOMAIN listed[f] = 1..Len(listed[f])
      BY <1>1
    <2>2. \A k \in 1..Len(listed[f]) : listed[f][k] # x
      BY <1>1, <1>4 DEF Apart
    <2>3. QED BY <2>1, <2>2 DEF Range
  <1>5. /\ RemoveAt(listed[g], i) \in Seq(Entries)
        /\ Len(RemoveAt(listed[g], i)) = Len(listed[g]) - 1
        /\ \A k \in 1..(i - 1) : RemoveAt(listed[g], i)[k] = listed[g][k]
        /\ \A k \in i..(Len(listed[g]) - 1) : RemoveAt(listed[g], i)[k] = listed[g][k + 1]
    BY <1>1, RemoveSeq
  <1>6. Without(x)[g] = RemoveAt(listed[g], i)
    BY <1>2, <1>3 DEF Without
  <1>7. \A f \in Heads : f # g => Without(x)[f] = listed[f]
    BY <1>4 DEF Without
  <1>8. Without(x) \in [Heads -> Seq(Entries)]
    <2>1. \A f \in Heads : Without(x)[f] \in Seq(Entries)
      BY <1>1, <1>5, <1>6, <1>7
    <2>2. QED BY <2>1 DEF Without
  <1>9. Len(listed[g]) \in Nat /\ i \in Nat /\ i - 1 \in 0..Len(Without(x)[g])
    BY <1>1, <1>5, <1>6
  <1>10. Put(Without(x)[g], listed[g], i - 1, x)
    BY <1>5, <1>6, <1>9 DEF Put
  <1>11. QED BY <1>1, <1>6, <1>7, <1>8, <1>9, <1>10 DEF Longer

LEMMA WithoutNone ==
  ASSUME listed \in [Heads -> Seq(Entries)], NEW x \in Entries, ~Listed(listed, x)
  PROVE  Without(x) = listed
  BY InListed DEF Without, In

\* Taking an entry out, or joining the neighbours of one that is its own.
LEMMA TakesOut ==
  ASSUME Makes(ptr, listed, {}), NEW x \in Entries, In(x) # {} \/ ptr.next[x] # Poison
  PROVE  Makes(Unlinked(ptr, x), Without(x), {x}) /\ ~Listed(Without(x), x)
  <1>1. listed \in [Heads -> Seq(Entries)] /\ ptr \in Ptrs /\ x \in Links
    BY DEF Makes, Links
  <1>2. CASE Listed(listed, x)
    <2>1. PICK g \in Heads : \E i \in 1..Len(listed[g]) : listed[g][i] = x
      BY <1>2 DEF Listed
    <2>2. PICK i \in 1..Len(listed[g]) : listed[g][i] = x
      BY <2>1
    <2>3. Longer(Without(x), listed, g, i - 1, x)
      BY <2>2, WithoutOne
    <2>4. QED BY <2>3, CutsOut
  <1>3. CASE ~Listed(listed, x)
    <2>1. Without(x) = listed
      BY <1>1, <1>3, WithoutNone
    <2>2. In(x) = {}
      BY <1>1, <1>3, InListed
    <2>3. ptr.next[x] = x /\ ptr.prev[x] = x
      BY <1>3, <2>2 DEF Makes, Loose
    <2>4. Unlinked(ptr, x) = ptr
      <3>1. [ptr.next EXCEPT ![x] = x] = ptr.next /\ [ptr.prev EXCEPT ![x] = x] = ptr.prev
        BY <1>1, <2>3 DEF Ptrs
      <3>2. /\ Unlinked(ptr, x).next = [ptr.next EXCEPT ![x] = x]
            /\ Unlinked(ptr, x).prev = [ptr.prev EXCEPT ![x] = x]
            /\ Unlinked(ptr, x) \in Ptrs
        BY <1>1, <2>3 DEF Unlinked, __list_del, Ptrs
      <3>3. QED BY <1>1, <3>1, <3>2 DEF Ptrs
    <2>5. QED BY <1>3, <2>1, <2>4, Frees
  <1>4. QED BY <1>2, <1>3

LEMMA TakesMakes ==
  ASSUME Makes(ptr, listed, {}), NEW x \in Entries, Takes(x)
  PROVE  Makes(ptr', listed', {})
  <1>1. Makes(Unlinked(ptr, x), Without(x), {x}) /\ ~Listed(Without(x), x)
    BY TakesOut DEF Takes
  <1>2. CASE ptr' = list_del(ptr, x) /\ listed' = Without(x)
    BY <1>1, <1>2, Resets DEF list_del
  <1>3. CASE ptr' = list_del_init(ptr, x) /\ listed' = Without(x)
    BY <1>1, <1>3, Resets DEF list_del_init, INIT_LIST_HEAD
  <1>4. ASSUME NEW h \in Heads, ptr' = list_move(ptr, x, h), listed' = AtHead(Without(x), x, h)
        PROVE  Makes(ptr', listed', {})
    BY <1>1, <1>4, HeadAdds DEF list_move
  <1>5. ASSUME NEW h \in Heads, ptr' = list_move_tail(ptr, x, h), listed' = AtTail(Without(x), x, h)
        PROVE  Makes(ptr', listed', {})
    BY <1>1, <1>5, TailAdds DEF list_move_tail
  <1>6. QED BY <1>2, <1>3, <1>4, <1>5 DEF Takes

LEMMA AddMakes ==
  ASSUME Makes(ptr, listed, {}), NEW x \in Entries, NEW h \in Heads, Add(x, h)
  PROVE  Makes(ptr', listed', {})
  <1>1. Makes(ptr, listed, {x}) /\ listed \in [Heads -> Seq(Entries)]
    BY Frees DEF Makes
  <1>2. ~Listed(listed, x)
    BY <1>1, InListed DEF Add
  <1>3. QED BY <1>1, <1>2, HeadAdds, TailAdds DEF Add


----------------------------------------------------------------------------

\* The list s is what stays of the entries the loop was at, b of them, and the
\* entries it has still to come to.
Remains(s, b, from1, m) ==
    /\ b \in Nat /\ m \in 0..Len(from1) /\ Len(s) = b + (Len(from1) - m)
    /\ \A i \in 1..(Len(from1) - m) : s[b + i] = from1[m + i]

Walking ==
    /\ loop.head \in Heads
    /\ walked \in Seq(Entries) /\ visited \in Seq(Entries) /\ Len(visited) <= Len(walked)
    /\ \A i \in 1..Len(visited) : visited[i] = walked[i]
    /\ \E b \in Nat : Remains(listed[loop.head], b, walked, Len(visited))
    /\ loop.pos = At(loop.head, walked, After(walked, Len(visited)))
    /\ loop.kind = "entry_s" /\ Len(visited) < Len(walked) =>
         loop.n = At(loop.head, walked, After(walked, Len(visited) + 1))

Loops == [kind : {"none", "entry", "entry_s"}, head : Links \cup {Poison},
          pos : Links \cup {Poison}, n : Links \cup {Poison}]

ListInv ==
    /\ Makes(ptr, listed, {})
    /\ loop \in Loops
    /\ loop.kind # "none" => Walking

\* The pointers lead from one entry that remains to the next.
LEMMA LeadsOn ==
  ASSUME NEW p, NEW q, Makes(p, q, {}), NEW h \in Heads, NEW from1 \in Seq(Entries), NEW b, NEW m,
         Remains(q[h], b, from1, m), NEW k \in 1..Len(from1), m < k
  PROVE  p.next[At(h, from1, k)] = At(h, from1, After(from1, k))
  <1> DEFINE i == k - m
  <1>1. /\ q[h] \in Seq(Entries) /\ b \in Nat /\ m \in Nat /\ i \in Nat /\ i # 0
        /\ Len(from1) \in Nat /\ m + i <= Len(from1) /\ Len(q[h]) = b + (Len(from1) - m)
        /\ m + i = k /\ i \in 1..(Len(from1) - m)
    <2>1. q[h] \in Seq(Entries)
      BY DEF Makes
    <2>2. /\ b \in Nat /\ m \in 0..Len(from1) /\ Len(q[h]) = b + (Len(from1) - m)
      BY DEF Remains
    <2>3. Len(from1) \in Nat /\ k \in Nat
      OBVIOUS
    <2>4. QED BY <2>1, <2>2, <2>3
  <1> HIDE DEF i
  <1>2. b + i \in 0..Len(q[h]) /\ b + i # 0 /\ m + i # 0
    BY <1>1
  <1>3. At(h, q[h], b + i) = At(h, from1, m + i)
    BY <1>1, <1>2 DEF Remains, At
  <1>4. p.next[At(h, q[h], b + i)] = At(h, q[h], After(q[h], b + i))
    BY <1>2, Around DEF Joined
  <1>5. At(h, q[h], After(q[h], b + i)) = At(h, from1, After(from1, m + i))
    <2>1. CASE m + i = Len(from1)
      BY <1>1, <2>1 DEF At, After
    <2>2. CASE m + i # Len(from1)
      <3>1. i + 1 \in 1..(Len(from1) - m)
        BY <1>1, <2>2
      <3>2. q[h][b + (i + 1)] = from1[m + (i + 1)]
        BY <3>1 DEF Remains
      <3>3. After(q[h], b + i) = b + (i + 1) /\ After(from1, m + i) = m + (i + 1)
        BY <1>1, <2>2 DEF After
      <3>4. b + (i + 1) # 0 /\ m + (i + 1) # 0
        BY <1>1
      <3>5. QED BY <3>2, <3>3, <3>4 DEF At
    <2>3. QED BY <2>1, <2>2
  <1>6. QED BY <1>1, <1>3, <1>4, <1>5

\* The loop is at the first entry that remains, or back at the head.
LEMMA AtNext ==
  ASSUME ListInv, loop.kind # "none"
  PROVE  /\ Len(walked) \in Nat /\ Len(visited) \in Nat
         /\ loop.pos \in Links
         /\ loop.pos # loop.head <=> Len(visited) < Len(walked)
         /\ Len(visited) < Len(walked) =>
              loop.pos = walked[Len(visited) + 1] /\ loop.pos \in Entries
  <1> DEFINE m == Len(visited)
  <1>1. /\ loop.head \in Heads /\ walked \in Seq(Entries) /\ Len(walked) \in Nat /\ m \in Nat
        /\ m <= Len(walked) /\ loop.pos = At(loop.head, walked, After(walked, m))
    BY DEF ListInv, Walking
  <1>2. CASE m = Len(walked)
    BY <1>1, <1>2 DEF At, After, Links
  <1>3. CASE m < Len(walked)
    <2>1. After(walked, m) = m + 1 /\ m + 1 \in 1..Len(walked)
      BY <1>1, <1>3 DEF After
    <2>2. loop.pos = walked[m + 1] /\ walked[m + 1] \in Entries
      BY <1>1, <2>1 DEF At
    <2>3. QED BY <1>1, <1>3, <2>2, ListAssumption DEF Links
  <1>4. QED BY <1>1, <1>2, <1>3

LEMMA BeginInv ==
  ASSUME ListInv, NEW kind \in {"entry", "entry_s"}, NEW h \in Heads, Begin(kind, h)
  PROVE  ListInv'
  <1>1. /\ Makes(ptr, listed, {}) /\ ptr \in Ptrs /\ listed[h] \in Seq(Entries)
        /\ walked' = listed[h] /\ visited' = <<>> /\ ptr' = ptr /\ listed' = listed
        /\ Len(listed[h]) \in Nat
    BY DEF ListInv, Begin, Makes
  <1> DEFINE n1 == IF kind = "entry_s" THEN ptr.next[ptr.next[h]] ELSE Poison
  <1>2. loop' = [kind |-> kind, head |-> h, pos |-> ptr.next[h], n |-> n1]
    BY DEF Begin
  <1>3. /\ ptr.next[h] = At(h, listed[h], After(listed[h], 0))
        /\ ptr.next[h] \in Links
    <2>1. 0 \in 0..Len(listed[h]) /\ At(h, listed[h], 0) = h
      BY <1>1 DEF At
    <2>2. QED BY <1>1, <2>1, Around DEF Joined
  <1>4. n1 \in Links \cup {Poison}
    BY <1>1, <1>3 DEF Ptrs
  <1>5. Remains(listed[h], 0, listed[h], 0)
    BY <1>1 DEF Remains
  <1>6. ASSUME kind = "entry_s", 0 < Len(listed[h]) PROVE n1 = At(h, listed[h], After(listed[h], 1))
    <2>1. 1 \in 1..Len(listed[h]) /\ 0 < 1
      BY <1>1, <1>6
    <2>2. ptr.next[At(h, listed[h], 1)] = At(h, listed[h], After(listed[h], 1))
      <3>1. PICK z \in Nat : z = 0
        OBVIOUS
      <3>2. PICK k \in Nat : k = 1
        OBVIOUS
      <3>3. Remains(listed[h], z, listed[h], z) /\ k \in 1..Len(listed[h]) /\ z < k
        BY <1>5, <2>1, <3>1, <3>2
      <3>4. ptr.next[At(h, listed[h], k)] = At(h, listed[h], After(listed[h], k))
        BY <1>1, <3>3, LeadsOn
      <3>5. QED BY <3>2, <3>4
    <2>3. After(listed[h], 0) = 1
      BY <1>1, <1>6 DEF After
    <2>4. QED BY <1>3, <1>6, <2>2, <2>3
  <1> HIDE DEF n1
  <1>7. loop' \in Loops
    BY <1>2, <1>3, <1>4 DEF Loops, Links
  <1>8. Walking'
    <2>1. /\ loop'.head = h /\ loop'.kind = kind /\ loop'.pos = ptr.next[h] /\ loop'.n = n1
          /\ Len(visited') = 0 /\ visited' \in Seq(Entries)
      BY <1>1, <1>2
    <2>2. QED BY <1>1, <1>3, <1>5, <1>6, <2>1 DEF Walking
  <1>9. QED BY <1>1, <1>7, <1>8 DEF ListInv

\* A round of a loop goes on to the next entry, if what remains of the list does.
LEMMA GoesOn ==
  ASSUME ListInv, loop.kind # "none", loop.pos # loop.head, Makes(ptr', listed', {}),
         visited' = Append(visited, loop.pos), walked' = walked,
         NEW b \in Nat, Remains(listed'[loop.head], b, walked, Len(visited) + 1),
         NEW next, NEW n1, loop' = [loop EXCEPT !.pos = next, !.n = n1], n1 \in Links \cup {Poison},
         next = At(loop.head, walked, After(walked, Len(visited) + 1)),
         loop.kind = "entry_s" => n1 = ptr'.next[next]
  PROVE  ListInv'
  <1> DEFINE m == Len(visited)
             h == loop.head
  <1>1. /\ loop \in Loops /\ h \in Heads /\ walked \in Seq(Entries) /\ visited \in Seq(Entries)
        /\ Len(walked) \in Nat /\ m \in Nat /\ m < Len(walked)
        /\ loop.pos = walked[m + 1] /\ loop.pos \in Entries
        /\ \A i \in 1..m : visited[i] = walked[i]
    BY AtNext DEF ListInv, Walking
  <1>2. /\ visited' \in Seq(Entries) /\ Len(visited') = m + 1 /\ visited'[m + 1] = walked[m + 1]
        /\ \A i \in 1..m : visited'[i] = walked[i]
    BY <1>1, AppendSeq
  <1>3. m + 1 \in 0..Len(walked) /\ next \in Links
    BY <1>1, AtLink
  <1>4. /\ loop' \in Loops /\ loop'.head = h /\ loop'.kind = loop.kind
        /\ loop'.pos = next /\ loop'.n = n1
    BY <1>1, <1>3 DEF Loops
  <1>5. ASSUME loop.kind = "entry_s", m + 1 < Len(walked)
        PROVE  n1 = At(h, walked, After(walked, (m + 1) + 1))
    <2>1. /\ After(walked, m + 1) = (m + 1) + 1
          /\ (m + 1) + 1 \in 1..Len(walked) /\ m + 1 < (m + 1) + 1
      BY <1>1, <1>5 DEF After
    <2>2. ptr'.next[At(h, walked, (m + 1) + 1)] = At(h, walked, After(walked, (m + 1) + 1))
      <3>1. Remains(listed'[h], b, walked, m + 1) /\ Makes(ptr', listed', {})
        OBVIOUS
      <3> HIDE DEF m, h
      <3>2. QED BY <1>1, <2>1, <3>1, LeadsOn
    <2>3. QED BY <1>5, <2>1, <2>2
  <1>6. \A i \in 1..Len(visited') : visited'[i] = walked[i]
    BY <1>1, <1>2
  <1>7. Walking'
    <2>1. /\ loop'.head \in Heads
          /\ walked' \in Seq(Entries) /\ visited' \in Seq(Entries) /\ Len(visited') <= Len(walked')
          /\ \A i \in 1..Len(visited') : visited'[i] = walked'[i]
      BY <1>1, <1>2, <1>4, <1>6
    <2>2. Remains(listed'[loop'.head], b, walked', Len(visited'))
      BY <1>2, <1>4
    <2>3. loop'.pos = At(loop'.head, walked', After(walked', Len(visited')))
      BY <1>2, <1>4
    <2>4. loop'.kind = "entry_s" /\ Len(visited') < Len(walked') =>
            loop'.n = At(loop'.head, walked', After(walked', Len(visited') + 1))
      BY <1>2, <1>4, <1>5
    <2>5. QED BY <2>1, <2>2, <2>3, <2>4 DEF Walking
  <1>8. QED BY <1>4, <1>7 DEF ListInv


\* The round goes past an entry that stays.
LEMMA StaysBehind ==
  ASSUME NEW s, NEW b, NEW from1 \in Seq(Entries), NEW m, Remains(s, b, from1, m), m < Len(from1)
  PROVE  Remains(s, b + 1, from1, m + 1)
  <1>1. /\ b \in Nat /\ m \in Nat /\ Len(from1) \in Nat /\ Len(s) = b + (Len(from1) - m)
    BY DEF Remains
  <1>2. ASSUME NEW i \in 1..(Len(from1) - (m + 1)) PROVE s[(b + 1) + i] = from1[(m + 1) + i]
    <2>1. i + 1 \in 1..(Len(from1) - m) /\ b + (i + 1) = (b + 1) + i /\ m + (i + 1) = (m + 1) + i
      BY <1>1
    <2>2. s[b + (i + 1)] = from1[m + (i + 1)]
      BY <2>1 DEF Remains
    <2>3. QED BY <2>1, <2>2
  <1>3. Len(s) = (b + 1) + (Len(from1) - (m + 1)) /\ b + 1 \in Nat /\ m + 1 \in 0..Len(from1)
    BY <1>1
  <1>4. QED BY <1>2, <1>3 DEF Remains

\* Or past one that is taken out.
LEMMA TakenOut ==
  ASSUME NEW s \in Seq(Entries), NEW b, NEW from1 \in Seq(Entries), NEW m, Remains(s, b, from1, m),
         m < Len(from1)
  PROVE  /\ b + 1 \in 1..Len(s) /\ s[b + 1] = from1[m + 1]
         /\ Remains(RemoveAt(s, b + 1), b, from1, m + 1)
  <1> DEFINE s2 == RemoveAt(s, b + 1)
  <1>1. /\ b \in Nat /\ m \in Nat /\ Len(from1) \in Nat /\ Len(s) = b + (Len(from1) - m)
    BY DEF Remains
  <1>2. b + 1 \in 1..Len(s) /\ 1 \in 1..(Len(from1) - m)
    BY <1>1
  <1>3. s[b + 1] = from1[m + 1]
    BY <1>2 DEF Remains
  <1>4. /\ Len(s2) = Len(s) - 1
        /\ \A k \in (b + 1)..(Len(s) - 1) : s2[k] = s[k + 1]
    BY <1>2, RemoveSeq
  <1> HIDE DEF s2
  <1>5. ASSUME NEW i \in 1..(Len(from1) - (m + 1)) PROVE s2[b + i] = from1[(m + 1) + i]
    <2>1. i + 1 \in 1..(Len(from1) - m) /\ b + i \in (b + 1)..(Len(s) - 1)
      BY <1>1
    <2>2. (b + i) + 1 = b + (i + 1) /\ m + (i + 1) = (m + 1) + i
      BY <1>1
    <2>3. s2[b + i] = s[b + (i + 1)]
      BY <1>4, <2>1, <2>2
    <2>4. s[b + (i + 1)] = from1[m + (i + 1)]
      BY <2>1 DEF Remains
    <2>5. QED BY <2>2, <2>3, <2>4
  <1>6. Len(s2) = b + (Len(from1) - (m + 1)) /\ m + 1 \in 0..Len(from1)
    BY <1>1, <1>4
  <1>7. Remains(s2, b, from1, m + 1)
    BY <1>1, <1>5, <1>6 DEF Remains
  <1>8. QED BY <1>2, <1>3, <1>7 DEF s2

LEMMA WalkInv ==
  ASSUME ListInv, walk_each_entry
  PROVE  ListInv'
  <1> DEFINE m == Len(visited)
             h == loop.head
  <1>1. /\ loop.kind = "entry" /\ loop.kind # "none" /\ loop.pos # h /\ ptr' = ptr /\ listed' = listed
        /\ visited' = Append(visited, loop.pos) /\ walked' = walked
        /\ loop' = [loop EXCEPT !.pos = ptr.next[@]]
    BY DEF walk_each_entry, AtEntry
  <1>2. /\ Makes(ptr, listed, {}) /\ loop \in Loops /\ h \in Heads /\ walked \in Seq(Entries)
        /\ Len(walked) \in Nat /\ m \in Nat /\ m < Len(walked) /\ loop.pos = walked[m + 1]
        /\ \E b \in Nat : Remains(listed[h], b, walked, m)
    BY <1>1, AtNext DEF ListInv, Walking
  <1>3. PICK b \in Nat : Remains(listed[h], b, walked, m)
    BY <1>2
  <1>4. Remains(listed'[h], b + 1, walked, m + 1) /\ b + 1 \in Nat
    <2> HIDE DEF m, h
    <2>1. Remains(listed[h], b + 1, walked, m + 1)
      BY <1>2, <1>3, StaysBehind
    <2>2. QED BY <1>1, <2>1
  <1>5. ptr.next[loop.pos] = At(h, walked, After(walked, m + 1))
    <2>1. m + 1 \in 1..Len(walked) /\ m < m + 1 /\ At(h, walked, m + 1) = loop.pos
      BY <1>2 DEF At
    <2> HIDE DEF m, h
    <2>2. ptr.next[At(h, walked, m + 1)] = At(h, walked, After(walked, m + 1))
      BY <1>2, <1>3, <2>1, LeadsOn
    <2>3. QED BY <2>1, <2>2
  <1>6. loop' = [loop EXCEPT !.pos = ptr.next[loop.pos], !.n = loop.n] /\ loop.n \in Links \cup {Poison}
    BY <1>1, <1>2 DEF Loops
  <1>7. Makes(ptr', listed', {})
    BY <1>1, <1>2
  <1>8. loop.kind = "entry_s" => loop.n = ptr'.next[ptr.next[loop.pos]]
    BY <1>1
  <1>9. QED BY <1>1, <1>4, <1>5, <1>6, <1>7, <1>8, GoesOn

LEMMA WalkTakesInv ==
  ASSUME ListInv, walk_each_entry_s
  PROVE  ListInv'
  <1> DEFINE m == Len(visited)
             h == loop.head
             x == loop.pos
             n1 == ptr'.next[loop.n]
  <1>1. /\ loop.kind = "entry_s" /\ loop.kind # "none" /\ x # h
        /\ visited' = Append(visited, x) /\ walked' = walked
        /\ loop' = [loop EXCEPT !.pos = loop.n, !.n = n1]
        /\ Takes(x) \/ UNCHANGED <<ptr, listed>>
    BY DEF walk_each_entry_s, AtEntry
  <1>2. /\ Makes(ptr, listed, {}) /\ listed \in [Heads -> Seq(Entries)] /\ loop \in Loops
        /\ h \in Heads /\ walked \in Seq(Entries)
        /\ Len(walked) \in Nat /\ m \in Nat /\ m < Len(walked) /\ x = walked[m + 1] /\ x \in Entries
        /\ \E b \in Nat : Remains(listed[h], b, walked, m)
        /\ loop.n = At(h, walked, After(walked, m + 1))
    BY <1>1, AtNext DEF ListInv, Walking, Makes
  <1>3. PICK b \in Nat : Remains(listed[h], b, walked, m)
    BY <1>2
  <1>4. Makes(ptr', listed', {})
    BY <1>1, <1>2, TakesMakes
  <1>5. loop.n \in Links /\ n1 \in Links \cup {Poison}
    <2>1. m + 1 \in 0..Len(walked)
      BY <1>2
    <2>2. loop.n \in Links
      BY <1>2, <2>1, AtLink
    <2>3. ptr' \in Ptrs
      BY <1>4 DEF Makes
    <2>4. QED BY <2>2, <2>3 DEF Ptrs
  <1>6. \E c \in Nat : Remains(listed'[h], c, walked, m + 1)
    <2>1. CASE Takes(x)
      <3>1. /\ b + 1 \in 1..Len(listed[h]) /\ listed[h][b + 1] = x
            /\ Remains(RemoveAt(listed[h], b + 1), b, walked, m + 1)
        <4>1. listed[h] \in Seq(Entries)
          BY <1>2
        <4> HIDE DEF m, h, x
        <4>2. /\ b + 1 \in 1..Len(listed[h]) /\ listed[h][b + 1] = walked[m + 1]
              /\ Remains(RemoveAt(listed[h], b + 1), b, walked, m + 1)
          BY <1>2, <1>3, <4>1, TakenOut
        <4>3. QED BY <1>2, <4>2
      <3>2. Without(x)[h] = RemoveAt(listed[h], b + 1)
        <4> HIDE DEF x, h, m
        <4>1. QED BY <1>2, <3>1, WithoutOne
      <3>3. listed'[h] = Without(x)[h]
        BY <1>1, <1>2, <2>1 DEF Takes, AtHead, AtTail, Without
      <3>4. QED BY <3>1, <3>2, <3>3
    <2>2. CASE UNCHANGED <<ptr, listed>>
      <3> HIDE DEF m, h
      <3>1. Remains(listed[h], b + 1, walked, m + 1)
        <4> HIDE DEF x, n1
        <4>1. QED BY <1>2, <1>3, StaysBehind
      <3>2. b + 1 \in Nat
        OBVIOUS
      <3>3. QED BY <2>2, <3>1, <3>2
    <2>3. QED BY <1>1, <2>1, <2>2
  <1>7. PICK c \in Nat : Remains(listed'[h], c, walked, m + 1)
    BY <1>6
  <1> HIDE DEF n1
  <1>8. loop.kind = "entry_s" => n1 = ptr'.next[loop.n]
    BY DEF n1
  <1>9. QED BY <1>1, <1>2, <1>4, <1>5, <1>7, <1>8, GoesOn

\* The pointers make the lists, and a loop is where it should be.
THEOREM ListInvariant == ListSpec => []ListInv
  <1>1. ListInit => ListInv
    <2>1. SUFFICES ASSUME ListInit PROVE ListInv
      OBVIOUS
    <2>2. /\ ptr \in Ptrs /\ listed \in [Heads -> Seq(Entries)]
          /\ \A x \in Links : ptr.next[x] = x /\ ptr.prev[x] = x
          /\ \A h \in Heads : listed[h] = <<>> /\ Len(listed[h]) = 0
      BY <2>1 DEF ListInit, Ptrs
    <2>3. Apart(listed)
      BY <2>2 DEF Apart
    <2>4. \A h \in Heads : Circle(ptr, h, listed[h])
      BY <2>2 DEF Circle, Joined, At, After, Links
    <2>5. \A x \in Entries : Loose(ptr, x)
      BY <2>2 DEF Loose, Links
    <2>6. Makes(ptr, listed, {})
      BY <2>2, <2>3, <2>4, <2>5 DEF Makes
    <2>7. loop \in Loops /\ loop.kind = "none"
      BY <2>1 DEF ListInit, Idle, Loops
    <2>8. QED BY <2>6, <2>7 DEF ListInv
  <1>2. ListInv /\ [ListNext]_listvars => ListInv'
    <2>1. SUFFICES ASSUME ListInv, [ListNext]_listvars PROVE ListInv'
      OBVIOUS
    <2>2. ASSUME Quiet, Makes(ptr', listed', {}) PROVE ListInv'
      BY <2>1, <2>2 DEF ListInv, Quiet
    <2>3. ASSUME NEW x \in Entries, Take(x) PROVE ListInv'
      BY <2>1, <2>2, <2>3, TakesMakes DEF Take, ListInv
    <2>4. ASSUME NEW x \in Entries, NEW h \in Heads, Add(x, h) PROVE ListInv'
      BY <2>1, <2>2, <2>4, AddMakes DEF Add, ListInv
    <2>5. ASSUME NEW h1 \in Heads, NEW h2 \in Heads, Splice(h1, h2) PROVE ListInv'
      <3>1. /\ Quiet /\ h1 # h2 /\ ptr' = list_splice(ptr, h1, h2)
            /\ IsJoined(listed, listed', h1, h2) /\ Makes(ptr, listed, {})
        BY <2>1, <2>5 DEF Splice, IsJoined, ListInv
      <3>2. Makes(ptr', listed', {})
        BY <3>1, SpliceMakes
      <3>3. QED BY <2>2, <3>1, <3>2
    <2>6. ASSUME Leave PROVE ListInv'
      <3>1. loop' \in Loops /\ loop'.kind = "none"
        BY <2>6 DEF Leave, Idle, Loops
      <3>2. Makes(ptr', listed', {})
        BY <2>1, <2>6 DEF Leave, ListInv
      <3>3. QED BY <3>1, <3>2 DEF ListInv
    <2>7. CASE UNCHANGED listvars
      BY <2>1, <2>7 DEF ListInv, Walking, listvars
    <2>8. QED BY <2>1, <2>3, <2>4, <2>5, <2>6, <2>7, BeginInv, WalkInv, WalkTakesInv DEF ListNext
  <1>3. QED BY <1>1, <1>2, PTL DEF ListSpec

\* list.h's operations keep every list the circle of its entries.
THEOREM ListsAreCircles == ListSpec => []Circles
  <1>1. ASSUME ListInv PROVE Circles
    <2>1. /\ Makes(ptr, listed, {}) /\ ptr \in Ptrs /\ listed \in [Heads -> Seq(Entries)] /\ Apart(listed)
      BY <1>1 DEF ListInv, Makes
    <2>2. ASSUME NEW h \in Heads, NEW k \in DOMAIN (<<h>> \o listed[h])
          PROVE  LET c == <<h>> \o listed[h]
                     j == IF k = Len(c) THEN 1 ELSE k + 1
                 IN  ptr.next[c[k]] = c[j] /\ ptr.prev[c[j]] = c[k]
      <3> DEFINE s == listed[h]
                 c == <<h>> \o s
                 j == IF k = Len(c) THEN 1 ELSE k + 1
      <3>1. s \in Seq(Entries) /\ s \in Seq(Links) /\ Len(s) \in Nat /\ h \in Links
        BY <2>1 DEF Links
      <3>2. /\ c \in Seq(Links) /\ Len(c) = Len(s) + 1 /\ c[1] = h
            /\ \A i \in 1..Len(s) : c[i + 1] = s[i]
        BY <3>1, ConsSeq
      <3>3. k \in 1..Len(c)
        BY <3>2
      <3> HIDE DEF c
      <3>4. ASSUME NEW i \in 0..Len(s) PROVE c[i + 1] = At(h, s, i)
        BY <3>1, <3>2 DEF At
      <3>5. k - 1 \in 0..Len(s) /\ (k - 1) + 1 = k /\ After(s, k - 1) + 1 = j /\ After(s, k - 1) \in 0..Len(s)
        BY <3>1, <3>2, <3>3 DEF After
      <3>6. Joined(ptr, At(h, s, k - 1), At(h, s, After(s, k - 1)))
        BY <2>1, <3>5, Around
      <3>7. c[k] = At(h, s, k - 1) /\ c[j] = At(h, s, After(s, k - 1))
        BY <3>4, <3>5
      <3>8. ptr.next[c[k]] = c[j] /\ ptr.prev[c[j]] = c[k]
        BY <3>6, <3>7 DEF Joined
      <3>9. QED BY <3>8 DEF c
    <2>3. ASSUME NEW x \in Entries, ptr.next[x] # Poison PROVE list_empty(ptr, x) <=> In(x) = {}
      <3>1. CASE ~Listed(listed, x)
        <4>1. ptr.next[x] = x
          BY <2>1, <2>3, <3>1 DEF Makes, Loose
        <4>2. QED BY <2>1, <3>1, <4>1, InListed DEF list_empty
      <3>2. CASE Listed(listed, x)
        <4>1. PICK h \in Heads : \E i \in 1..Len(listed[h]) : listed[h][i] = x
          BY <3>2 DEF Listed
        <4>2. PICK i \in 1..Len(listed[h]) : listed[h][i] = x
          BY <4>1
        <4>3. listed[h] \in Seq(Entries) /\ i \in 0..Len(listed[h]) /\ i # 0 /\ At(h, listed[h], i) = x
          BY <2>1, <4>2 DEF At
        <4>4. /\ ptr.next[x] = At(h, listed[h], After(listed[h], i))
              /\ After(listed[h], i) \in 0..Len(listed[h]) /\ After(listed[h], i) # i
          BY <2>1, <4>3, Around DEF Joined
        <4>5. ptr.next[x] # x
          BY <2>1, <4>3, <4>4, Distinct
        <4>6. QED BY <2>1, <3>2, <4>5, InListed DEF list_empty
      <3>3. QED BY <3>1, <3>2
    <2>4. QED BY <2>2, <2>3 DEF Circles
  <1>2. QED BY <1>1, ListInvariant, PTL

\* The loops of list.h are at every entry once, also when the body takes it out.
THEOREM LoopsVisitAll == ListSpec => []Visited
  <1>1. ASSUME ListInv, loop.kind # "none"
        PROVE  /\ IsPrefix(visited, walked)
               /\ loop.pos = IF visited = walked THEN loop.head ELSE walked[Len(visited) + 1]
    <2> DEFINE m == Len(visited)
    <2>1. /\ walked \in Seq(Entries) /\ visited \in Seq(Entries) /\ Len(walked) \in Nat /\ m \in Nat
          /\ m <= Len(walked) /\ loop.pos = At(loop.head, walked, After(walked, m))
          /\ \A i \in 1..m : visited[i] = walked[i]
      BY <1>1 DEF ListInv, Walking
    <2>2. SubSeq(visited, 1, m) = SubSeq(walked, 1, m)
      <3>1. /\ SubSeq(visited, 1, m) = [i \in 1..m |-> visited[i]]
            /\ SubSeq(walked, 1, m) = [i \in 1..m |-> walked[i]]
        BY <2>1
      <3>2. QED BY <2>1, <3>1
    <2>3. visited = walked <=> m = Len(walked)
      BY <2>1
    <2>4. loop.pos = IF m = Len(walked) THEN loop.head ELSE walked[m + 1]
      BY <2>1 DEF At, After
    <2>5. QED BY <2>1, <2>2, <2>3, <2>4 DEF IsPrefix
  <1>2. ListInv => Visited
    BY <1>1 DEF Visited
  <1>3. QED BY <1>2, ListInvariant, PTL

\* The two together: the queues built on list.h are what was put in them, and a loop
\* over one misses no entry.
THEOREM ListsCorrect == ListSpec => []ListsSound
  BY ListsAreCircles, LoopsVisitAll, PTL DEF ListsSound
=============================================================================
