-------------------------- MODULE SockTable_proofs --------------------------
(* Proofs about SockTable, for any threads, sockets and size of the table. *)
EXTENDS SockTable, FiniteSetTheorems, TLAPS

USE TableAssumption DEF tableVars, sockVars, threadVars, At

----------------------------------------------------------------------------
(* Counting.                                                               *)

\* A set of descriptors, or of threads, is finite.
LEMMA Finite ==
  /\ \A S \in SUBSET Fds : IsFiniteSet(S)
  /\ \A S \in SUBSET Threads : IsFiniteSet(S)
  /\ \A o : IsFiniteSet(Holders(o)) /\ Cardinality(Holders(o)) \in Nat
  <1>1. IsFiniteSet(Fds)
    BY FS_Interval DEF Fds
  <1>2. \A S \in SUBSET Fds : IsFiniteSet(S)
    BY <1>1, FS_Subset
  <1>3. \A S \in SUBSET Threads : IsFiniteSet(S)
    BY FS_Subset
  <1>4. \A o : Holders(o) \in SUBSET Threads
    BY DEF Holders
  <1>5. QED BY <1>2, <1>3, <1>4, FS_CardinalityType

\* A thread that holds a socket is counted in its references.
LEMMA Counted ==
  ASSUME NEW t \in Threads, NEW o, t \in Holders(o)
  PROVE  /\ Cardinality(Holders(o)) >= 1
         /\ Cardinality(Holders(o)) = 1 => Holders(o) = {t}
  <1>1. IsFiniteSet(Holders(o)) /\ Cardinality(Holders(o)) \in Nat
    BY Finite
  <1>2. Cardinality(Holders(o)) # 0
    BY <1>1, FS_EmptySet
  <1>3. ASSUME Cardinality(Holders(o)) = 1 PROVE Holders(o) = {t}
    <2>1. /\ IsFiniteSet(Holders(o) \ {t})
          /\ Cardinality(Holders(o) \ {t}) = Cardinality(Holders(o)) - 1
      BY <1>1, FS_RemoveElement
    <2>2. Holders(o) \ {t} = {}
      BY <1>3, <2>1, FS_EmptySet
    <2>3. QED BY <2>2
  <1>4. QED BY <1>1, <1>2, <1>3

\* Holders change only when a thread's place or its socket does.
LEMMA HoldersFrame ==
  ASSUME NEW t \in Threads, NEW o, TypeOK,
         \A u \in Threads \ {t} : pc'[u] = pc[u] /\ sb'[u] = sb[u]
  PROVE  /\ t \in Holders(o)' /\ t \in Holders(o) => Holders(o)' = Holders(o)
         /\ t \notin Holders(o)' /\ t \notin Holders(o) => Holders(o)' = Holders(o)
         /\ t \in Holders(o)' /\ t \notin Holders(o) =>
              Cardinality(Holders(o)') = Cardinality(Holders(o)) + 1
         /\ t \notin Holders(o)' /\ t \in Holders(o) =>
              Cardinality(Holders(o)') = Cardinality(Holders(o)) - 1
  <1>1. Holders(o)' \ {t} = Holders(o) \ {t}
    BY DEF Holders
  <1>2. IsFiniteSet(Holders(o))
    BY Finite
  <1>3. t \in Holders(o)' /\ t \notin Holders(o) =>
          Holders(o)' = Holders(o) \cup {t}
    BY <1>1
  <1>4. t \notin Holders(o)' /\ t \in Holders(o) =>
          Holders(o)' = Holders(o) \ {t}
    BY <1>1
  <1>5. t \in Holders(o)' /\ t \notin Holders(o) =>
          Cardinality(Holders(o)') = Cardinality(Holders(o)) + 1
    BY <1>2, <1>3, FS_AddElement
  <1>6. t \notin Holders(o)' /\ t \in Holders(o) =>
          Cardinality(Holders(o)') = Cardinality(Holders(o)) - 1
    BY <1>2, <1>4, FS_RemoveElement
  <1>7. (t \in Holders(o)' <=> t \in Holders(o)) => Holders(o)' = Holders(o)
    BY <1>1
  <1>8. QED BY <1>5, <1>6, <1>7

----------------------------------------------------------------------------
(* One lemma per action: each keeps the inductive invariant.               *)

\* A new socket is in no slot, and no thread has it.
LEMMA OpenStep ==
  ASSUME IInv, NEW t \in Threads, vfptr_open(t)
  PROVE  IInv'
  <1> USE DEF IInv
  <1>1. PICK o \in Socks \ used :
          /\ used' = used \cup {o}
          /\ sb' = [sb EXCEPT ![t] = o]
          /\ ref' = [ref EXCEPT ![o] = 0]
    BY DEF vfptr_open
  <1>2. /\ pc[t] = "idle" /\ pc' = [pc EXCEPT ![t] = "open"]
        /\ UNCHANGED <<slot, unused, n, fd, open, arg, aborted>>
    BY DEF vfptr_open
  <1>3. TypeOK'
    BY <1>1, <1>2 DEF TypeOK, Pcs
  <1>4. \A f \in Fds : slot[f] # NoSock => slot[f] # o
    BY DEF RefInv
  <1>5. \A u \in Threads \ {t} : sb[u] # o
    BY <1>1 DEF TypeOK, PhaseInv
  <1>6. StackSound' /\ CountInv'
    BY <1>2 DEF StackSound, CountInv
  <1>7. HeldStays'
    BY <1>1, <1>2 DEF HeldStays, TypeOK
  <1>8. FreedAlone'
    BY <1>1, <1>2, <1>5 DEF FreedAlone, TypeOK
  <1>9. PhaseInv'
    BY <1>1, <1>2, <1>4, <1>5 DEF PhaseInv, TypeOK
  <1>10. RefInv'
    <2>1. \A p : Holders(p)' = Holders(p) /\ Closing(p)' = Closing(p)
      BY <1>1, <1>2 DEF Holders, Closing, TypeOK
    <2>2. \A p : Base(p)' = Base(p)
      BY <2>1, <1>2 DEF Base
    <2>3. \A f \in Fds : slot[f] # NoSock => ref'[slot[f]] = ref[slot[f]]
      BY <1>1, <1>4 DEF TypeOK
    <2>4. \A u \in Threads : pc'[u] = "xclose" => pc[u] = "xclose" /\ sb'[u] = sb[u]
      BY <1>1, <1>2 DEF TypeOK
    <2>5. QED BY <1>1, <1>2, <2>1, <2>2, <2>3, <2>4 DEF RefInv
  <1>11. QED BY <1>3, <1>6, <1>7, <1>8, <1>9, <1>10

\* xalloc puts the socket in a free slot.
LEMMA AllocStep ==
  ASSUME IInv, NEW t \in Threads, xalloc(t)
  PROVE  IInv'
  <1> USE DEF IInv
  <1>0. PICK o \in Socks, f \in Fds : o = sb[t] /\ f = unused[n]
    <2>1. sb[t] \in Socks
      BY DEF xalloc, TypeOK
    <2>2. unused[n] \in Fds
      BY DEF xalloc, TypeOK, Fds
    <2>3. QED BY <2>1, <2>2
  <1>1. /\ n \in 0..MaxFd-1
        /\ pc[t] = "open" /\ pc' = [pc EXCEPT ![t] = "idle"]
        /\ slot' = [slot EXCEPT ![f] = o]
        /\ fd' = [fd EXCEPT ![o] = f]
        /\ n' = n + 1
        /\ ref' = [ref EXCEPT ![o] = @ + 1]
        /\ open' = open \cup {o}
        /\ sb' = [sb EXCEPT ![t] = NoSock]
        /\ UNCHANGED <<unused, used, arg, aborted>>
    BY <1>0 DEF xalloc, Top, TypeOK
  <1>2. f \in Fds /\ slot[f] = NoSock
    BY <1>0, <1>1 DEF StackSound, TypeOK
  <1>3. /\ o \in Socks /\ o \in used /\ o \notin open /\ ref[o] = 0
        /\ \A g \in Fds : slot[g] # o
        /\ \A u \in Threads \ {t} : sb[u] # o
    BY <1>0, <1>1 DEF TypeOK, PhaseInv
  <1>4. TypeOK'
    BY <1>1, <1>2, <1>3 DEF TypeOK, Pcs
  <1>5. StackSound'
    <2>1. \A i, j \in n'..MaxFd-1 : unused'[i] = unused'[j] => i = j
      BY <1>1 DEF StackSound, TypeOK
    <2>2. \A i \in n'..MaxFd-1 : unused[i] # f
      BY <1>0, <1>1 DEF StackSound, TypeOK
    <2>3. {unused[i] : i \in n'..MaxFd-1} = {unused[i] : i \in n..MaxFd-1} \ {f}
      <3>1. \A i \in n'..MaxFd-1 : i \in n..MaxFd-1
        BY <1>1 DEF TypeOK
      <3>2. \A i \in n..MaxFd-1 : i = n \/ i \in n'..MaxFd-1
        BY <1>1 DEF TypeOK
      <3>3. unused[n] = f
        BY <1>0
      <3>4. QED BY <2>2, <3>1, <3>2, <3>3
    <2>4. {g \in Fds : slot'[g] = NoSock} = {g \in Fds : slot[g] = NoSock} \ {f}
      BY <1>1, <1>2, <1>3 DEF TypeOK
    <2>5. {unused'[i] : i \in n'..MaxFd-1} = {unused[i] : i \in n'..MaxFd-1}
      BY <1>1
    <2>6. QED BY <2>1, <2>3, <2>4, <2>5 DEF StackSound
  <1>6. CountInv'
    <2>1. {g \in Fds : slot'[g] # NoSock} = {g \in Fds : slot[g] # NoSock} \cup {f}
      BY <1>1, <1>2, <1>3 DEF TypeOK
    <2>2. f \notin {g \in Fds : slot[g] # NoSock}
      BY <1>2
    <2>3. IsFiniteSet({g \in Fds : slot[g] # NoSock})
      BY Finite
    <2>4. QED BY <1>1, <2>1, <2>2, <2>3, FS_AddElement DEF CountInv
  <1>7. HeldStays'
    BY <1>1, <1>2, <1>3 DEF HeldStays, TypeOK
  <1>8. FreedAlone'
    BY <1>1, <1>3 DEF FreedAlone, TypeOK
  <1>9. PhaseInv'
    BY <1>1, <1>2, <1>3 DEF PhaseInv, TypeOK
  <1>10. RefInv'
    <2>1. \A p : Holders(p)' = Holders(p) /\ Closing(p)' = Closing(p)
      BY <1>1 DEF Holders, Closing, TypeOK
    <2>2. \A p : p # o => Base(p)' = Base(p)
      BY <2>1, <1>1 DEF Base
    <2>3. Holders(o) = {} /\ Base(o)' = 1
      BY <1>1, <1>3 DEF Holders, Base
    <2>4. ref'[o] = Cardinality(Holders(o)') + Base(o)'
      BY <1>1, <1>3, <2>1, <2>3, FS_EmptySet DEF TypeOK
    <2>5. ASSUME NEW g \in Fds, NEW p \in Socks, slot'[g] = p
          PROVE  /\ p \in used' /\ fd'[p] = g
                 /\ ref'[p] = Cardinality(Holders(p)') + Base(p)'
      <3>1. CASE g = f
        BY <3>1, <2>5, <1>1, <1>2, <1>3, <2>4 DEF TypeOK
      <3>2. CASE g # f
        <4>1. slot[g] = p /\ p # o
          BY <3>2, <2>5, <1>1, <1>2, <1>3 DEF TypeOK
        <4>2. QED BY <4>1, <1>1, <1>2, <1>3, <2>1, <2>2 DEF TypeOK, RefInv
      <3>3. QED BY <3>1, <3>2
    <2>6. \A p \in open' : fd'[p] \in Fds /\ slot'[fd'[p]] = p
      BY <1>1, <1>2, <1>3 DEF TypeOK, RefInv
    <2>7. \A u \in Threads, p \in Socks : pc'[u] = "xclose" /\ sb'[u] = p =>
            p \notin open' /\ Closing(p)' = {u}
      <3>1. \A u \in Threads : pc'[u] = "xclose" =>
              u # t /\ pc[u] = "xclose" /\ sb'[u] = sb[u] /\ sb[u] # o
        BY <1>1, <1>3 DEF TypeOK
      <3>2. QED BY <3>1, <1>1, <2>1 DEF RefInv
    <2>8. QED BY <2>5, <2>6, <2>7 DEF RefInv
  <1>11. QED BY <1>4, <1>5, <1>6, <1>7, <1>8, <1>9, <1>10

\* xget adds a reference to a socket that has one, for a thread without any;
\* xclose takes the descriptor from the application as well.
LEMMA GetStep ==
  ASSUME IInv, NEW t \in Threads, NEW f \in Fds, NEW o \in Socks, slot[f] = o,
         \/ xget(t, f, "in") /\ open' = open
         \/ xget(t, f, "xclose") /\ o \in open /\ open' = open \ {o}
  PROVE  IInv'
  <1> USE DEF IInv
  <1> DEFINE to == IF open' = open THEN "in" ELSE "xclose"
  <1>1. /\ ref[o] # 0
        /\ pc[t] = "idle" /\ pc' = [pc EXCEPT ![t] = to]
        /\ ref' = [ref EXCEPT ![o] = @ + 1]
        /\ arg' = [arg EXCEPT ![t] = f]
        /\ sb' = [sb EXCEPT ![t] = o]
        /\ UNCHANGED <<slot, unused, n, fd, used, aborted>>
    BY DEF xget, Got
  <1>2. to \in {"in", "xclose"}
    OBVIOUS
  <1>3. /\ to = "in" => open' = open
        /\ to = "xclose" => o \in open /\ open' = open \ {o}
    OBVIOUS
  <1> HIDE DEF to
  <1>4. /\ o # NoSock /\ o \in used /\ fd[o] = f
        /\ \A u \in Threads : pc[u] \in {"open", "clear", "close"} => sb[u] # o
    BY <1>1 DEF RefInv, PhaseInv, FreedAlone, TypeOK
  <1>5. TypeOK'
    BY <1>1, <1>2, <1>3, <1>4 DEF TypeOK, Pcs
  <1>6. StackSound' /\ CountInv'
    BY <1>1 DEF StackSound, CountInv
  <1>7. HeldStays'
    BY <1>1, <1>2, <1>4 DEF HeldStays, TypeOK
  <1>8. FreedAlone'
    BY <1>1, <1>2, <1>3, <1>4 DEF FreedAlone, TypeOK, PhaseInv
  <1>9. PhaseInv'
    BY <1>1, <1>2, <1>3, <1>4 DEF PhaseInv, TypeOK
  <1>10. RefInv'
    <2>1. \A p : p # o => Holders(p)' = Holders(p) /\ Closing(p)' = Closing(p)
      BY <1>1, <1>2 DEF Holders, Closing, TypeOK
    <2>2. \A p : p # o => Base(p)' = Base(p)
      BY <2>1, <1>3 DEF Base
    <2>3. Cardinality(Holders(o)') = Cardinality(Holders(o)) + 1
      <3>1. t \in Holders(o)' /\ t \notin Holders(o)
        BY <1>1, <1>2, <1>4 DEF Holders, TypeOK
      <3>2. \A u \in Threads \ {t} : pc'[u] = pc[u] /\ sb'[u] = sb[u]
        BY <1>1 DEF TypeOK
      <3>3. QED BY <3>1, <3>2, HoldersFrame
    <2>4. CASE to = "in"
      <3>1. Closing(o)' = Closing(o) /\ Base(o)' = Base(o)
        BY <1>1, <1>3, <2>4 DEF Closing, Base, TypeOK
      <3>2. \A g \in Fds, p \in Socks : slot'[g] = p =>
              /\ p \in used' /\ fd'[p] = g
              /\ ref'[p] = Cardinality(Holders(p)') + Base(p)'
        <4>1. ref[o] = Cardinality(Holders(o)) + Base(o)
          BY DEF RefInv
        <4>2. ref'[o] = Cardinality(Holders(o)') + Base(o)'
          BY <4>1, <1>1, <2>3, <3>1, Finite DEF TypeOK, Base
        <4>3. QED BY <4>2, <1>1, <2>1, <2>2 DEF TypeOK, RefInv
      <3>3. \A u \in Threads, p \in Socks : pc'[u] = "xclose" /\ sb'[u] = p =>
              p \notin open' /\ Closing(p)' = {u}
        <4>1. \A u \in Threads : pc'[u] = "xclose" => pc[u] = "xclose" /\ sb'[u] = sb[u]
          BY <1>1, <2>4 DEF TypeOK
        <4>2. \A p \in Socks : Closing(p)' = Closing(p)
          BY <2>1, <3>1
        <4>3. QED BY <4>1, <4>2, <1>3, <2>4 DEF RefInv
      <3>4. QED BY <3>2, <3>3, <1>1, <1>3, <2>4 DEF RefInv
    <2>5. CASE to = "xclose"
      <3>1. Base(o) = 1 /\ Base(o)' = 1
        BY <1>1, <1>3, <2>5 DEF Closing, Base, TypeOK
      <3>2. \A g \in Fds, p \in Socks : slot'[g] = p =>
              /\ p \in used' /\ fd'[p] = g
              /\ ref'[p] = Cardinality(Holders(p)') + Base(p)'
        <4>1. ref[o] = Cardinality(Holders(o)) + Base(o)
          BY DEF RefInv
        <4>2. ref'[o] = Cardinality(Holders(o)') + Base(o)'
          BY <4>1, <1>1, <2>3, <3>1, Finite DEF TypeOK
        <4>3. QED BY <4>2, <1>1, <2>1, <2>2 DEF TypeOK, RefInv
      <3>3. \A u \in Threads \ {t} : pc'[u] = "xclose" =>
              pc[u] = "xclose" /\ sb'[u] = sb[u] /\ sb[u] # o
        BY <1>1, <1>3, <2>5 DEF TypeOK, RefInv
      <3>4. Closing(o)' = {t}
        BY <1>1, <3>3, <2>5 DEF Closing, TypeOK
      <3>5. \A u \in Threads, p \in Socks : pc'[u] = "xclose" /\ sb'[u] = p =>
              p \notin open' /\ Closing(p)' = {u}
        <4>2. ASSUME NEW u \in Threads, NEW p \in Socks, pc'[u] = "xclose", sb'[u] = p
              PROVE  p \notin open' /\ Closing(p)' = {u}
          <5>1. CASE u = t
            BY <5>1, <4>2, <1>1, <1>3, <2>5, <3>4 DEF TypeOK
          <5>2. CASE u # t
            BY <5>2, <4>2, <3>3, <2>1, <1>3, <2>5 DEF RefInv
          <5>3. QED BY <5>1, <5>2
        <4>3. QED BY <4>2
      <3>6. QED BY <3>2, <3>5, <1>1, <1>3, <2>5 DEF RefInv
    <2>6. QED BY <1>2, <2>4, <2>5
  <1>11. QED BY <1>5, <1>6, <1>7, <1>8, <1>9, <1>10

\* The facts about the socket of a thread that is past xget.
LEMMA Held ==
  ASSUME IInv, NEW t \in Threads, pc[t] \in {"in", "xclose"}, NEW o, o = sb[t]
  PROVE  /\ o \in Socks /\ o \in used /\ arg[t] \in Fds
         /\ slot[arg[t]] = o /\ fd[o] = arg[t]
         /\ ref[o] = Cardinality(Holders(o)) + Base(o)
         /\ Cardinality(Holders(o)) \in Nat
         /\ t \in Holders(o)
  <1> USE DEF IInv
  <1>1. o \in Socks /\ o \in used /\ arg[t] \in Fds
    BY DEF TypeOK
  <1>2. slot[arg[t]] = o /\ fd[o] = arg[t]
    BY DEF HeldStays
  <1>3. ref[o] = Cardinality(Holders(o)) + Base(o)
    BY <1>1, <1>2 DEF RefInv
  <1>4. t \in Holders(o)
    BY DEF Holders
  <1>5. QED BY <1>1, <1>2, <1>3, <1>4, Finite

\* xput drops a reference of a thread; with the last one the thread goes on to
\* clear the slot, and has the socket to itself.
LEMMA PutStep ==
  ASSUME IInv, NEW t \in Threads, Put(t)
  PROVE  IInv'
  <1> USE DEF IInv
  <1>0. PICK o \in Socks : o = sb[t]
    BY DEF Put, xput, TypeOK
  <1>1. /\ o \in used /\ arg[t] \in Fds /\ slot[arg[t]] = o /\ fd[o] = arg[t]
        /\ ref[o] = Cardinality(Holders(o)) + Base(o)
        /\ Cardinality(Holders(o)) \in Nat /\ t \in Holders(o)
    BY <1>0, Held DEF Put, xput
  <1>2. /\ pc[t] = "in"
        /\ pc' = [pc EXCEPT ![t] = IF ref[o] = 1 THEN "clear" ELSE "idle"]
        /\ ref' = [ref EXCEPT ![o] = @ - 1]
        /\ sb' = [sb EXCEPT ![t] = IF ref[o] = 1 THEN o ELSE NoSock]
        /\ UNCHANGED <<slot, unused, n, fd, used, open, arg, aborted>>
    BY <1>1 DEF Put, xput, Last
  <1>3. TypeOK'
    BY <1>0, <1>1, <1>2 DEF TypeOK, Pcs
  <1>4. StackSound' /\ CountInv'
    BY <1>2 DEF StackSound, CountInv
  <1>5. HeldStays'
    BY <1>2 DEF HeldStays, TypeOK
  <1>6. Cardinality(Holders(o)) >= 1 /\ Base(o) \in {0, 1}
    BY <1>1, Counted DEF Base
  <1>7. \A u \in Threads : pc[u] \in {"open", "clear", "close"} => sb[u] # o
    BY <1>0, <1>2 DEF PhaseInv
  <1>8. ASSUME ref[o] = 1
        PROVE  /\ Holders(o) = {t} /\ Closing(o) = {} /\ o \notin open
               /\ \A u \in Threads \ {t} : sb[u] # o
    <2>1. Cardinality(Holders(o)) = 1 /\ Base(o) = 0
      BY <1>1, <1>6, <1>8
    <2>2. Holders(o) = {t}
      BY <2>1, <1>1, Counted
    <2>3. Closing(o) = {} /\ o \notin open
      BY <2>1 DEF Base
    <2>4. ASSUME NEW u \in Threads \ {t} PROVE sb[u] # o
      <3>1. u \notin Holders(o)
        BY <2>2
      <3>2. pc[u] = "idle" => sb[u] = NoSock
        BY DEF PhaseInv
      <3>3. QED BY <3>1, <3>2, <1>7 DEF Holders, TypeOK, Pcs
    <2>5. QED BY <2>2, <2>3, <2>4
  <1>9. FreedAlone'
    BY <1>0, <1>1, <1>2, <1>7, <1>8 DEF FreedAlone, TypeOK
  <1>10. PhaseInv'
    BY <1>0, <1>1, <1>2, <1>7, <1>8 DEF PhaseInv, TypeOK
  <1>11. RefInv'
    <2>1. \A p : p # o => Holders(p)' = Holders(p)
      BY <1>0, <1>2 DEF Holders, TypeOK
    <2>2. \A p : Closing(p)' = Closing(p)
      BY <1>0, <1>2 DEF Closing, TypeOK
    <2>3. \A p : Base(p)' = Base(p)
      BY <2>2, <1>2 DEF Base
    <2>4. Cardinality(Holders(o)') = Cardinality(Holders(o)) - 1
      <3>1. t \notin Holders(o)'
        BY <1>2 DEF Holders, TypeOK
      <3>2. \A u \in Threads \ {t} : pc'[u] = pc[u] /\ sb'[u] = sb[u]
        BY <1>2 DEF TypeOK
      <3>3. QED BY <3>1, <3>2, <1>1, HoldersFrame
    <2>5. ref'[o] = Cardinality(Holders(o)') + Base(o)'
      BY <1>1, <1>2, <1>6, <2>3, <2>4 DEF TypeOK
    <2>6. \A g \in Fds, p \in Socks : slot'[g] = p =>
            /\ p \in used' /\ fd'[p] = g
            /\ ref'[p] = Cardinality(Holders(p)') + Base(p)'
      BY <1>2, <2>1, <2>3, <2>5 DEF TypeOK, RefInv
    <2>7. \A u \in Threads : pc'[u] = "xclose" => pc[u] = "xclose" /\ sb'[u] = sb[u]
      BY <1>2 DEF TypeOK
    <2>8. QED BY <1>2, <2>2, <2>6, <2>7 DEF RefInv
  <1>12. QED BY <1>3, <1>4, <1>5, <1>9, <1>10, <1>11

\* The put of __xclose is never the last one: xclose still holds its own.
LEMMA ClosePutStep ==
  ASSUME IInv, NEW t \in Threads, ClosePut(t)
  PROVE  IInv'
  <1> USE DEF IInv
  <1>0. PICK o \in Socks : o = sb[t]
    BY DEF ClosePut, xput, TypeOK
  <1>1. /\ o \in used /\ arg[t] \in Fds /\ slot[arg[t]] = o /\ fd[o] = arg[t]
        /\ ref[o] = Cardinality(Holders(o)) + Base(o)
        /\ Cardinality(Holders(o)) \in Nat /\ t \in Holders(o)
    BY <1>0, Held DEF ClosePut, xput
  <1>2. pc[t] = "xclose" /\ o \notin open /\ Closing(o) = {t}
    BY <1>0 DEF ClosePut, xput, RefInv
  <1>3. Base(o) = 1 /\ Cardinality(Holders(o)) >= 1
    BY <1>1, <1>2, Counted DEF Base
  <1>4. /\ pc' = [pc EXCEPT ![t] = "in"]
        /\ ref' = [ref EXCEPT ![o] = @ - 1]
        /\ sb' = [sb EXCEPT ![t] = o]
        /\ UNCHANGED <<slot, unused, n, fd, used, open, arg, aborted>>
    <2>1. ref[o] # 1 /\ slot[arg[t]] = o
      BY <1>1, <1>3
    <2>2. AfterClosePut = "in" /\ AfterClosePut # "idle"
      BY DEF AfterClosePut
    <2>3. /\ pc' = [pc EXCEPT ![t] = AfterClosePut]
          /\ sb' = [sb EXCEPT ![t] = o]
      BY <2>1, <2>2 DEF ClosePut, xput, Last
    <2>4. QED BY <2>1, <2>2, <2>3 DEF ClosePut, xput
  <1>5. sb' = sb
    BY <1>0, <1>4 DEF TypeOK
  <1>6. TypeOK'
    BY <1>0, <1>1, <1>4, <1>5 DEF TypeOK, Pcs
  <1>7. StackSound' /\ CountInv'
    BY <1>4 DEF StackSound, CountInv
  <1>8. HeldStays'
    BY <1>1, <1>0, <1>4, <1>5 DEF HeldStays, TypeOK
  <1>9. \A u \in Threads : pc[u] \in {"open", "clear", "close"} => sb[u] # o
    BY <1>0, <1>2 DEF PhaseInv
  <1>10. FreedAlone'
    BY <1>4, <1>5, <1>9 DEF FreedAlone, TypeOK
  <1>11. PhaseInv'
    BY <1>4, <1>5, <1>9 DEF PhaseInv, TypeOK
  <1>12. RefInv'
    <2>1. \A p : Holders(p)' = Holders(p)
      BY <1>2, <1>4, <1>5 DEF Holders, TypeOK
    <2>2. \A p : p # o => Closing(p)' = Closing(p)
      BY <1>0, <1>2, <1>4, <1>5 DEF Closing, TypeOK
    <2>3. \A p : p # o => Base(p)' = Base(p)
      BY <2>2, <1>4 DEF Base
    <2>4. \A u \in Threads : pc'[u] = "xclose" =>
            u # t /\ pc[u] = "xclose" /\ sb[u] # o
      <3>1. \A u \in Threads : pc[u] = "xclose" /\ sb[u] = o => u = t
        BY <1>2 DEF Closing
      <3>2. QED BY <3>1, <1>4 DEF TypeOK
    <2>5. Base(o)' = 0
      <3>1. Closing(o)' = {}
        BY <2>4, <1>5 DEF Closing
      <3>2. QED BY <3>1, <1>2, <1>4 DEF Base
    <2>6. ref'[o] = Cardinality(Holders(o)') + Base(o)'
      BY <1>1, <1>3, <1>4, <2>1, <2>5 DEF TypeOK
    <2>7. \A g \in Fds, p \in Socks : slot'[g] = p =>
            /\ p \in used' /\ fd'[p] = g
            /\ ref'[p] = Cardinality(Holders(p)') + Base(p)'
      BY <1>4, <2>1, <2>3, <2>6 DEF TypeOK, RefInv
    <2>8. \A u \in Threads, p \in Socks : pc'[u] = "xclose" /\ sb'[u] = p =>
            p \notin open' /\ Closing(p)' = {u}
      BY <1>4, <1>5, <2>2, <2>4 DEF RefInv
    <2>9. QED BY <1>4, <2>7, <2>8 DEF RefInv
  <1>13. QED BY <1>6, <1>7, <1>8, <1>10, <1>11, <1>12

\* Under the lock, the slot of the dead socket is cleared and pushed.
LEMMA ClearStep ==
  ASSUME IInv, NEW t \in Threads, xput_clear(t)
  PROVE  IInv'
  <1> USE DEF IInv
  <1>0. PICK o \in Socks, f \in Fds : o = sb[t] /\ f = fd[o] /\ slot[f] = o
    BY DEF xput_clear, TypeOK, PhaseInv
  <1>1. /\ pc[t] = "clear" /\ pc' = [pc EXCEPT ![t] = "close"]
        /\ slot' = [slot EXCEPT ![f] = NoSock]
        /\ n' = n - 1
        /\ unused' = [unused EXCEPT ![n-1] = f]
        /\ UNCHANGED <<ref, fd, used, open, arg, sb, aborted>>
    BY <1>0 DEF xput_clear, Cleared
  <1>2. /\ o \in used /\ o \notin open /\ o # NoSock
        /\ \A u \in Threads \ {t} : sb[u] # o
        /\ \A g \in Fds : slot[g] = o => g = f
    BY <1>0, <1>1 DEF TypeOK, PhaseInv, RefInv
  <1>3. n \in 1..MaxFd /\ n' \in 0..MaxFd-1
    <2>1. IsFiniteSet({g \in Fds : slot[g] # NoSock})
      BY Finite
    <2>2. {g \in Fds : slot[g] # NoSock} # {}
      BY <1>0, <1>2
    <2>3. n # 0
      BY <2>1, <2>2, FS_EmptySet DEF CountInv
    <2>4. QED BY <2>3, <1>1 DEF TypeOK
  <1>4. TypeOK'
    BY <1>0, <1>1, <1>2, <1>3 DEF TypeOK, Pcs, Fds
  <1>5. StackSound'
    <2>1. \A i \in n..MaxFd-1 : unused'[i] = unused[i] /\ unused[i] # f
      BY <1>0, <1>1, <1>2, <1>3 DEF StackSound, TypeOK, Fds
    <2>2. unused'[n'] = f
      BY <1>1, <1>3 DEF TypeOK, Fds
    <2>3. \A i \in n'..MaxFd-1 : i = n' \/ i \in n..MaxFd-1
      BY <1>1, <1>3
    <2>4. \A i, j \in n'..MaxFd-1 : unused'[i] = unused'[j] => i = j
      BY <2>1, <2>2, <2>3 DEF StackSound
    <2>5. \A i : i \in n'..MaxFd-1 <=> i = n' \/ i \in n..MaxFd-1
      BY <1>1, <1>3
    <2>6. {unused'[i] : i \in n'..MaxFd-1} = {unused[i] : i \in n..MaxFd-1} \cup {f}
      BY <2>1, <2>2, <2>5
    <2>7. {g \in Fds : slot'[g] = NoSock} = {g \in Fds : slot[g] = NoSock} \cup {f}
      BY <1>1 DEF TypeOK
    <2>8. QED BY <2>4, <2>6, <2>7 DEF StackSound
  <1>6. CountInv'
    <2>1. {g \in Fds : slot'[g] # NoSock} = {g \in Fds : slot[g] # NoSock} \ {f}
      BY <1>1, <1>2 DEF TypeOK
    <2>2. f \in {g \in Fds : slot[g] # NoSock}
      BY <1>0, <1>2
    <2>3. IsFiniteSet({g \in Fds : slot[g] # NoSock})
      BY Finite
    <2>4. QED BY <1>1, <2>1, <2>2, <2>3, FS_RemoveElement DEF CountInv
  <1>7. HeldStays'
    <2>1. \A u \in Threads : pc'[u] \in {"in", "xclose"} =>
            u # t /\ slot[arg[u]] = sb[u] /\ fd[sb[u]] = arg[u] /\ arg[u] \in Fds
      BY <1>1 DEF HeldStays, TypeOK
    <2>2. \A u \in Threads : pc'[u] \in {"in", "xclose"} => arg[u] # f
      BY <1>0, <1>2, <2>1
    <2>3. QED BY <1>1, <2>1, <2>2 DEF HeldStays, TypeOK
  <1>8. FreedAlone'
    BY <1>0, <1>1 DEF FreedAlone, TypeOK
  <1>9. PhaseInv'
    BY <1>0, <1>1, <1>2 DEF PhaseInv, TypeOK
  <1>10. RefInv'
    <2>1. \A p : Holders(p)' = Holders(p) /\ Closing(p)' = Closing(p)
      BY <1>1 DEF Holders, Closing, TypeOK
    <2>2. \A p : Base(p)' = Base(p)
      BY <2>1, <1>1 DEF Base
    <2>3. \A g \in Fds, p \in Socks : slot'[g] = p => slot[g] = p
      BY <1>1, <1>0 DEF TypeOK
    <2>4. \A p \in open : fd[p] # f
      BY <1>0, <1>2 DEF RefInv
    <2>5. \A p \in open' : fd'[p] \in Fds /\ slot'[fd'[p]] = p
      BY <1>1, <2>4 DEF TypeOK, RefInv
    <2>6. \A u \in Threads : pc'[u] = "xclose" => pc[u] = "xclose"
      BY <1>1 DEF TypeOK
    <2>7. QED BY <1>1, <2>1, <2>2, <2>3, <2>5, <2>6 DEF RefInv
  <1>11. QED BY <1>4, <1>5, <1>6, <1>7, <1>8, <1>9, <1>10

\* The memory of a socket that no slot and no other thread names is freed.
LEMMA FreeStep ==
  ASSUME IInv, NEW t \in Threads, vfptr_close(t)
  PROVE  IInv'
  <1> USE DEF IInv
  <1>0. PICK o \in Socks : o = sb[t]
    BY DEF vfptr_close, TypeOK
  <1>1. /\ pc[t] = "close" /\ pc' = [pc EXCEPT ![t] = "idle"]
        /\ fd' = [fd EXCEPT ![o] = -1]
        /\ used' = used \ {o}
        /\ sb' = [sb EXCEPT ![t] = NoSock]
        /\ UNCHANGED <<slot, unused, n, ref, open, arg, aborted>>
    BY <1>0 DEF vfptr_close
  <1>2. /\ o \notin open
        /\ \A u \in Threads \ {t} : sb[u] # o
        /\ \A g \in Fds : slot[g] # o
    BY <1>0, <1>1 DEF PhaseInv
  <1>3. TypeOK'
    BY <1>0, <1>1, <1>2 DEF TypeOK, Pcs
  <1>4. StackSound' /\ CountInv'
    BY <1>1 DEF StackSound, CountInv
  <1>5. HeldStays'
    BY <1>1, <1>2 DEF HeldStays, TypeOK
  <1>6. FreedAlone'
    BY <1>1, <1>2 DEF FreedAlone, TypeOK
  <1>7. PhaseInv'
    BY <1>1, <1>2 DEF PhaseInv, TypeOK
  <1>8. RefInv'
    <2>1. \A p : Holders(p)' = Holders(p) /\ Closing(p)' = Closing(p)
      BY <1>1 DEF Holders, Closing, TypeOK
    <2>2. \A p : Base(p)' = Base(p)
      BY <2>1, <1>1 DEF Base
    <2>3. \A u \in Threads : pc'[u] = "xclose" => pc[u] = "xclose" /\ sb'[u] = sb[u]
      BY <1>1 DEF TypeOK
    <2>4. QED BY <1>1, <1>2, <2>1, <2>2, <2>3 DEF RefInv, TypeOK
  <1>9. QED BY <1>3, <1>4, <1>5, <1>6, <1>7, <1>8

\* What ends the process leaves the table alone, and so does a stutter.
LEMMA SameStep ==
  ASSUME IInv, UNCHANGED <<tableVars, sockVars, threadVars>>,
         aborted' \in {"no", "xget", "xalloc"}
  PROVE  IInv'
  <1>1. \A p : Holders(p)' = Holders(p) /\ Closing(p)' = Closing(p)
    BY DEF Holders, Closing
  <1>2. \A p : Base(p)' = Base(p)
    BY <1>1 DEF Base
  <1>3. TypeOK'
    BY DEF IInv, TypeOK
  <1>4. StackSound' /\ CountInv'
    BY DEF IInv, StackSound, CountInv
  <1>5. HeldStays' /\ FreedAlone'
    BY DEF IInv, HeldStays, FreedAlone
  <1>6. PhaseInv'
    BY DEF IInv, PhaseInv
  <1>7. RefInv'
    BY <1>1, <1>2 DEF IInv, RefInv
  <1>8. QED BY <1>3, <1>4, <1>5, <1>6, <1>7 DEF IInv

----------------------------------------------------------------------------
(* The invariant, and what follows from it.                                *)

\* The empty table satisfies the inductive invariant.
LEMMA InitIInv == Init => IInv
  <1> SUFFICES ASSUME Init PROVE IInv
    OBVIOUS
  <1>1. TypeOK
    BY DEF Init, TypeOK, Pcs, Fds
  <1>2. StackSound
    <2>1. \A i : i \in n..MaxFd-1 <=> i \in Fds
      BY DEF Init, Fds
    <2>2. {unused[i] : i \in n..MaxFd-1} = Fds
      BY <2>1 DEF Init
    <2>3. {f \in Fds : slot[f] = NoSock} = Fds
      BY DEF Init
    <2>4. QED BY <2>1, <2>2, <2>3 DEF StackSound, Init
  <1>3. CountInv
    <2>1. {f \in Fds : slot[f] # NoSock} = {}
      BY DEF Init
    <2>2. QED BY <2>1, FS_EmptySet DEF CountInv, Init
  <1>4. HeldStays /\ FreedAlone /\ PhaseInv
    BY DEF Init, HeldStays, FreedAlone, PhaseInv
  <1>5. RefInv
    BY DEF Init, RefInv
  <1>6. QED BY <1>1, <1>2, <1>3, <1>4, <1>5 DEF IInv

\* Every step keeps it.
LEMMA NextIInv == IInv /\ [Next]_vars => IInv'
  <1> SUFFICES ASSUME IInv, [Next]_vars PROVE IInv'
    OBVIOUS
  <1>1. CASE UNCHANGED vars
    BY <1>1, SameStep DEF vars, IInv, TypeOK
  <1>2. ASSUME NEW t \in Threads, Call(t) \/ Inside(t) PROVE IInv'
    <2>1. CASE vfptr_open(t)
      BY <2>1, OpenStep
    <2>2. CASE Use(t)
      <3>1. PICK f \in Fds : xget(t, f, "in") /\ open' = open
        BY <2>2 DEF Use
      <3>2. PICK o \in Socks : slot[f] = o
        BY <3>1 DEF xget, IInv, TypeOK
      <3>3. QED BY <3>1, <3>2, GetStep
    <2>3. CASE NoRef(t) \/ TableFull(t)
      BY <2>3, SameStep DEF NoRef, TableFull
    <2>4. CASE xclose(t)
      <3>1. PICK o \in open : xget(t, fd[o], "xclose") /\ open' = open \ {o}
        BY <2>4 DEF xclose
      <3>2. o \in Socks /\ fd[o] \in Fds /\ slot[fd[o]] = o
        BY DEF IInv, TypeOK, RefInv
      <3>3. QED BY <3>1, <3>2, GetStep
    <2>5. CASE xalloc(t)
      BY <2>5, AllocStep
    <2>6. CASE Put(t)
      BY <2>6, PutStep
    <2>7. CASE ClosePut(t)
      BY <2>7, ClosePutStep
    <2>8. CASE xput_clear(t)
      BY <2>8, ClearStep
    <2>9. CASE vfptr_close(t)
      BY <2>9, FreeStep
    <2>10. QED BY <1>2, <2>1, <2>2, <2>3, <2>4, <2>5, <2>6, <2>7, <2>8, <2>9
                DEF Call, Inside
  <1>3. QED BY <1>1, <1>2 DEF Next

\* The conjunction holds in every state: references are counted exactly, and the
\* count of the table is the number of its slots.
THEOREM TableSound == Spec => []IInv
  BY InitIInv, NextIInv, PTL DEF Spec

\* A thread past xget holds a socket that is not freed.
THEOREM TableTyped == Spec => []TypeOK
  BY TableSound, PTL DEF IInv

\* xalloc never gives out a descriptor in use, and xput never loses one.
THEOREM StackCorrect == Spec => []StackSound
  BY TableSound, PTL DEF IInv

\* The second look-up of xput, without the lock, finds the socket xget found.
THEOREM HeldCorrect == Spec => []HeldStays
  BY TableSound, PTL DEF IInv

\* The thread that saw the last reference is alone with the socket it frees.
THEOREM FreedCorrect == Spec => []FreedAlone
  BY TableSound, PTL DEF IInv

=============================================================================
