----------------------------- MODULE Loop_proofs ----------------------------
(* Proofs about Loop, for any number of loops, users, descriptors, tasks    *)
(* and calls, and any back end.                                             *)
EXTENDS Loop, FiniteSetTheorems, WellFoundedInduction, TLAPS

----------------------------------------------------------------------------
(* The inductive invariant.                                                 *)

MainPcs == {"start", "run", "wait", "up", "exit", "stop", "join", "done"}
WkPcs == {"none", "top", "pop", "sleep", "init", "loop", "out"}
LpPcs == {"none", "top", "tasks", "hndl", "accept", "accepted"}
Mains == [pc : MainPcs, l : Int]
Workers == [Loops -> [pc : WkPcs, l : Int]]
Calls == [Users -> [pc : {"idle", "wait", "done"}, op : {"add", "del", "mod"},
                    fd : AllFds \cup {None}, l : Loops, rc : {0, -1}]]

\* A loop's state has its three fields, and the descriptor it has accepted its four.
Shape(r) ==
  /\ r = [pc |-> r.pc, todo |-> r.todo, new |-> r.new]
  /\ r.new = [fd |-> r.new.fd, l |-> r.new.l, fds |-> r.new.fds, size |-> r.new.size]
  /\ r.pc \in LpPcs /\ r.new.l \in Loops /\ r.new.size \in Int

TypeInv ==
  /\ main \in Mains
  /\ main.pc = "start" => main.l = 1
  /\ main.pc \in {"run", "wait"} => main.l \in Loops
  /\ stopping \in BOOLEAN /\ tasks \in Seq(Loops)
  /\ wk \in Workers /\ \A w \in Loops : wk[w].pc \in {"init", "loop"} => wk[w].l \in Loops
  /\ wg \in [Loops -> Int] /\ stopped \in [Loops -> BOOLEAN]
  /\ lp = [l \in Loops |-> lp[l]] /\ \A l \in Loops : Shape(lp[l])
  /\ head \in [Loops -> Seq(Users)] /\ cur \in [Loops -> Seq(Users)]
  /\ size \in [Loops -> Int]
  /\ us \in Calls /\ where \in [AllFds -> Loops \cup {None}]

\* The loops that __ev_init has given to the pool.
Given == CASE main.pc = "start" -> {}
           [] main.pc = "run" -> {l \in Loops : l < main.l}
           [] main.pc = "wait" -> {l \in Loops : l <= main.l}
           [] OTHER -> Loops

\* A loop that waits for its start is in one place, and its wait group knows of it.
Begun(w, l) == wk[w].pc = "init" /\ wk[w].l = l
PoolInv ==
  /\ IsInjective(tasks)
  /\ \A w, v \in Loops : \A l \in Loops : Begun(w, l) /\ Begun(v, l) => w = v
  /\ \A w, l \in Loops : Begun(w, l) => l \notin Elems(tasks)
  /\ \A l \in Loops : l \in Elems(tasks) \/ (\E w \in Loops : Begun(w, l))
                        => l \in Given /\ wg[l] = 1

\* A loop that has been waited for is up and has a thread, and none is told to stop yet.
Up(l) == lp[l].pc # "none" /\ \E w \in Loops : wk[w].pc = "loop" /\ wk[w].l = l
UpInv ==
  /\ main.pc \in {"start", "run", "wait", "up"} => \A l \in Loops : ~ stopped[l]
  /\ main.pc \in {"run", "wait", "up"} => \A l \in Given : wg[l] = 0 => Up(l)
  /\ \A l \in Given : (main.pc = "wait" => l # main.l) => wg[l] = 0
  /\ main.pc = "done" => \A w \in Loops : wk[w].pc = "out"

\* Nobody posts a task before the loops are up; what a loop has taken it has in hand.
ListInv ==
  /\ main.pc \in {"start", "run", "wait"} =>
       /\ \A i \in Users : us[i].pc = "idle"
       /\ \A l \in Loops : head[l] = <<>>
  /\ \A l \in Loops : lp[l].pc # "tasks" => cur[l] = <<>>

IInv == TypeInv /\ PoolInv /\ UpInv /\ ListInv /\ TasksLive

----------------------------------------------------------------------------
(* Lists of loops and of tasks.                                             *)

LEMMA NoElems == Elems(<<>>) = {} /\ IsInjective(<<>>)
  BY DEF Elems, IsInjective

LEMMA Appended ==
  ASSUME NEW S, NEW q \in Seq(S), NEW x \in S
  PROVE  /\ Append(q, x) \in Seq(S)
         /\ Elems(Append(q, x)) = Elems(q) \cup {x}
         /\ IsInjective(q) /\ x \notin Elems(q) => IsInjective(Append(q, x))
  <1>1. /\ Append(q, x) \in Seq(S) /\ DOMAIN Append(q, x) = 1 .. Len(q) + 1
        /\ \A k \in 1 .. Len(q) : Append(q, x)[k] = q[k]
        /\ Append(q, x)[Len(q) + 1] = x
        /\ DOMAIN q = 1 .. Len(q) /\ Len(q) \in Nat
    OBVIOUS
  <1>2. Elems(Append(q, x)) \subseteq Elems(q) \cup {x}
    BY <1>1 DEF Elems
  <1>3. Elems(q) \cup {x} \subseteq Elems(Append(q, x))
    BY <1>1 DEF Elems
  <1>4. ASSUME IsInjective(q), x \notin Elems(q) PROVE IsInjective(Append(q, x))
    BY <1>1, <1>4 DEF IsInjective, Elems
  <1>5. QED BY <1>1, <1>2, <1>3, <1>4

LEMMA Tailed ==
  ASSUME NEW S, NEW q \in Seq(S), q # <<>>, IsInjective(q)
  PROVE  /\ Head(q) \in S /\ Head(q) \in Elems(q)
         /\ Tail(q) \in Seq(S) /\ IsInjective(Tail(q))
         /\ Elems(Tail(q)) = Elems(q) \ {Head(q)}
  <1>1. /\ Tail(q) \in Seq(S) /\ DOMAIN Tail(q) = 1 .. Len(q) - 1
        /\ \A k \in 1 .. Len(q) - 1 : Tail(q)[k] = q[k + 1]
        /\ DOMAIN q = 1 .. Len(q) /\ Len(q) \in Nat \ {0} /\ Head(q) = q[1] /\ q[1] \in S
    OBVIOUS
  <1>2. IsInjective(Tail(q))
    BY <1>1 DEF IsInjective
  <1>3. Elems(Tail(q)) \subseteq Elems(q) \ {Head(q)}
    BY <1>1 DEF Elems, IsInjective
  <1>4. ASSUME NEW x \in Elems(q), x # Head(q) PROVE x \in Elems(Tail(q))
    <2>1. PICK k \in DOMAIN q : x = q[k]
      BY DEF Elems
    <2>2. k - 1 \in DOMAIN Tail(q) /\ Tail(q)[k - 1] = x
      BY <1>1, <1>4, <2>1
    <2>3. QED BY <2>2 DEF Elems
  <1>5. Head(q) \in Elems(q)
    BY <1>1 DEF Elems
  <1>6. QED BY <1>1, <1>2, <1>3, <1>4, <1>5

----------------------------------------------------------------------------
(* The loop of the lowest load exists.                                      *)

LEMMA NatMin ==
  ASSUME NEW T \in SUBSET Nat, T # {}
  PROVE  \E x \in T : \A y \in T : x <= y
  <1>1. PICK x \in T : \A y \in T : ~ (<<y, x>> \in OpToRel(<, Nat))
    BY WFMin, NatLessThanWellFounded
  <1>2. \A y \in T : ~ (y < x)
    BY <1>1 DEF OpToRel
  <1>3. QED BY <1>2

\* l is before k for ev_get_loop_lla.
Before(l, k) == size[l] < size[k] \/ (size[l] = size[k] /\ l < k)

LEMMA LlaIn ==
  ASSUME size \in [Loops -> Int]
  PROVE  Lla \in Loops
  <1> DEFINE B(l) == {k \in Loops : Before(k, l)}
             T == {Cardinality(B(l)) : l \in Loops}
  <1>0. Loops \subseteq Int /\ 1 \in Loops /\ IsFiniteSet(Loops)
    <2>1. IsFiniteSet(1 .. NLoops)
      BY LoopAssumption, FS_Interval
    <2>2. QED BY <2>1, LoopAssumption DEF Loops
  <1>1. \A l \in Loops : IsFiniteSet(B(l)) /\ Cardinality(B(l)) \in Nat
    BY <1>0, FS_Subset, FS_CardinalityType
  <1>2. T \in SUBSET Nat /\ T # {}
    BY <1>0, <1>1
  <1>3. PICK l \in Loops : \A k \in Loops : Cardinality(B(l)) <= Cardinality(B(k))
    <2>1. PICK x \in T : \A y \in T : x <= y
      BY <1>2, NatMin
    <2>2. QED BY <2>1
  <1>4. \A k \in Loops : ~ Before(k, l)
    <2> SUFFICES ASSUME NEW k \in Loops, Before(k, l) PROVE FALSE
      OBVIOUS
    <2>0. /\ \A a, b, c \in Loops : Before(a, b) /\ Before(b, c) => Before(a, c)
          /\ ~ Before(k, k)
      BY <1>0 DEF Before
    <2>1. B(k) \subseteq B(l) /\ k \in B(l) /\ k \notin B(k)
      BY <2>0
    <2>2. Cardinality(B(k)) <= Cardinality(B(l)) /\ Cardinality(B(l)) # Cardinality(B(k))
      BY <1>1, <2>1, FS_Subset
    <2>3. Cardinality(B(l)) <= Cardinality(B(k))
      BY <1>3
    <2> HIDE DEF B
    <2>4. Cardinality(B(l)) \in Nat /\ Cardinality(B(k)) \in Nat
      BY <1>1
    <2>5. QED BY <2>2, <2>3, <2>4
  <1>5. \A k \in Loops : size[k] > size[l] \/ (size[k] = size[l] /\ k >= l)
    BY <1>0, <1>4 DEF Before
  <1>6. QED BY <1>5 DEF Lla

----------------------------------------------------------------------------
(* Types.                                                                   *)

LEMMA LpStep ==
  ASSUME TypeInv, NEW l \in Loops, NEW r, Shape(r), lp' = [lp EXCEPT ![l] = r]
  PROVE  /\ lp' = [k \in Loops |-> lp'[k]] /\ \A k \in Loops : Shape(lp'[k])
         /\ lp'[l] = r /\ \A k \in Loops : k # l => lp'[k] = lp[k]
  BY DEF TypeInv

\* Each way in which the code of a loop changes its state.
LEMMA LpTos ==
  ASSUME TypeInv, NEW l \in Loops, NEW pc \in LpPcs, LpTo(l, pc)
  PROVE  /\ lp' = [k \in Loops |-> lp'[k]] /\ \A k \in Loops : Shape(lp'[k])
         /\ lp'[l].pc = pc /\ \A k \in Loops : k # l => lp'[k] = lp[k]
  <1> DEFINE r == [pc |-> pc, todo |-> lp[l].todo, new |-> lp[l].new]
  <1>1. Shape(lp[l])
    BY DEF TypeInv
  <1>2. Shape(r) /\ r.pc = pc
    BY <1>1 DEF Shape
  <1>3. lp' = [lp EXCEPT ![l] = r]
    <2>1. [lp[l] EXCEPT !.pc = pc] = r
      BY <1>1 DEF Shape
    <2>2. QED BY <2>1 DEF LpTo, TypeInv
  <1> HIDE DEF r
  <1>4. QED BY <1>2, <1>3, LpStep

LEMMA LpTodo ==
  ASSUME TypeInv, NEW l \in Loops, NEW pc \in LpPcs, NEW q,
         lp' = [lp EXCEPT ![l].pc = pc, ![l].todo = q]
  PROVE  /\ lp' = [k \in Loops |-> lp'[k]] /\ \A k \in Loops : Shape(lp'[k])
         /\ lp'[l].pc = pc /\ \A k \in Loops : k # l => lp'[k] = lp[k]
  <1> DEFINE r == [pc |-> pc, todo |-> q, new |-> lp[l].new]
  <1>1. Shape(lp[l])
    BY DEF TypeInv
  <1>2. Shape(r) /\ r.pc = pc
    BY <1>1 DEF Shape
  <1>3. lp' = [lp EXCEPT ![l] = r]
    <2>1. [lp[l] EXCEPT !.pc = pc, !.todo = q] = r
      <3>1. [lp[l] EXCEPT !.pc = pc] = [pc |-> pc, todo |-> lp[l].todo, new |-> lp[l].new]
        BY <1>1 DEF Shape
      <3>2. [[pc |-> pc, todo |-> lp[l].todo, new |-> lp[l].new] EXCEPT !.todo = q] = r
        OBVIOUS
      <3>3. QED BY <3>1, <3>2, Zenon
    <2>2. lp' = [lp EXCEPT ![l] = [lp[l] EXCEPT !.pc = pc, !.todo = q]]
      BY Zenon DEF TypeInv
    <2>3. QED BY <2>1, <2>2
  <1> HIDE DEF r
  <1>4. QED BY <1>2, <1>3, LpStep

LEMMA LpDispatch ==
  ASSUME TypeInv, NEW w \in Loops, NEW l \in Loops, Dispatch(w, l)
  PROVE  /\ lp' = [k \in Loops |-> lp'[k]] /\ \A k \in Loops : Shape(lp'[k])
         /\ lp'[l].pc \in {"hndl", "accept"} /\ \A k \in Loops : k # l => lp'[k] = lp[k]
  <1>0. Shape(lp[l]) /\ lp[l].pc = "hndl"
    BY DEF TypeInv, Dispatch, Runs
  <1>1. \E r : Shape(r) /\ r.pc \in {"hndl", "accept"} /\ lp' = [lp EXCEPT ![l] = r]
    <2>1. CASE lp' = [lp EXCEPT ![l].todo = Tail(@)]
      <3> DEFINE r == [pc |-> lp[l].pc, todo |-> Tail(lp[l].todo), new |-> lp[l].new]
      <3>1. Shape(r) /\ r.pc = "hndl"
        BY <1>0 DEF Shape
      <3>2. [lp[l] EXCEPT !.todo = Tail(lp[l].todo)] = r
        <4>1. PICK q : q = Tail(lp[l].todo)
          OBVIOUS
        <4>2. [lp[l] EXCEPT !.todo = q] = [pc |-> lp[l].pc, todo |-> q, new |-> lp[l].new]
          BY <1>0 DEF Shape
        <4>3. QED BY <4>1, <4>2
      <3>3. lp' = [lp EXCEPT ![l] = r]
        BY <2>1, <3>2 DEF TypeInv
      <3> HIDE DEF r
      <3>4. QED BY <3>1, <3>3
    <2>2. ASSUME NEW n, lp' = [lp EXCEPT ![l] =
                    [pc |-> "accept", todo |-> Tail(@.todo), new |-> New(n, Lla)]]
          PROVE  \E r : Shape(r) /\ r.pc = "accept" /\ lp' = [lp EXCEPT ![l] = r]
      <3> DEFINE r == [pc |-> "accept", todo |-> Tail(lp[l].todo), new |-> New(n, Lla)]
      <3>1. Lla \in Loops
        BY LlaIn DEF TypeInv
      <3>2. Shape(r) /\ r.pc = "accept"
        BY <3>1 DEF Shape, LpPcs, New
      <3>3. lp' = [lp EXCEPT ![l] = r]
        BY <2>2
      <3> HIDE DEF r
      <3>4. QED BY <3>2, <3>3
    <2>3. QED BY <2>1, <2>2 DEF Dispatch
  <1>2. QED BY <1>1, LpStep

LEMMA LpAccept ==
  ASSUME TypeInv, NEW w \in Loops, NEW l \in Loops, AcceptReads(w, l) \/ AcceptWrites(w, l)
  PROVE  /\ lp' = [k \in Loops |-> lp'[k]] /\ \A k \in Loops : Shape(lp'[k])
         /\ lp'[l].pc \in {"hndl", "accept", "accepted"} /\ \A k \in Loops : k # l => lp'[k] = lp[k]
  <1>0. Shape(lp[l]) /\ lp[l].new.l \in Loops
    BY DEF TypeInv, Shape
  <1> DEFINE x == lp[l].new
  <1>1. CASE AcceptReads(w, l)
    <2>1. PICK k \in Loops : k = x.l
      BY <1>0
    <2> DEFINE r == [pc |-> "accepted", todo |-> lp[l].todo,
                     new |-> [fd |-> x.fd, l |-> x.l, fds |-> fds[k], size |-> size[k]]]
    <2>2. Shape(r) /\ r.pc = "accepted"
      BY <1>0, <2>1 DEF Shape, LpPcs, TypeInv
    <2> DEFINE y == [x EXCEPT !.fds = fds[k], !.size = size[k]]
    <2>6. y = [fd |-> x.fd, l |-> x.l, fds |-> fds[k], size |-> size[k]]
      <3>1. [x EXCEPT !.fds = fds[k]] = [fd |-> x.fd, l |-> x.l, fds |-> fds[k], size |-> x.size]
        BY <1>0 DEF Shape
      <3>2. [[fd |-> x.fd, l |-> x.l, fds |-> fds[k], size |-> x.size] EXCEPT !.size = size[k]]
              = [fd |-> x.fd, l |-> x.l, fds |-> fds[k], size |-> size[k]]
        OBVIOUS
      <3>3. QED BY <3>1, <3>2, Zenon
    <2>3. [lp[l] EXCEPT !.pc = "accepted", !.new = y] = r
      <3> HIDE DEF y
      <3>1. [lp[l] EXCEPT !.pc = "accepted"] = [pc |-> "accepted", todo |-> lp[l].todo, new |-> x]
        BY <1>0 DEF Shape
      <3>2. [[pc |-> "accepted", todo |-> lp[l].todo, new |-> x] EXCEPT !.new = y]
              = [pc |-> "accepted", todo |-> lp[l].todo, new |-> y]
        OBVIOUS
      <3>3. QED BY <2>6, <3>1, <3>2, Zenon
    <2>4. lp' = [lp EXCEPT ![l] = [lp[l] EXCEPT !.pc = "accepted", !.new = y]]
      BY <1>1, <2>1 DEF AcceptReads, TypeInv
    <2> HIDE DEF r
    <2>5. QED BY <2>2, <2>3, <2>4, LpStep
  <1>2. CASE AcceptWrites(w, l)
    <2>1. 1 \in Loops
      BY LoopAssumption DEF Loops
    <2>2. ASSUME NEW pc \in {"accept", "hndl"}, NEW f, NEW k \in Loops,
                 lp' = [lp EXCEPT ![l] = [pc |-> pc, todo |-> @.todo, new |-> New(f, k)]]
          PROVE  \E r : /\ Shape(r) /\ r.pc \in {"hndl", "accept"} /\ lp' = [lp EXCEPT ![l] = r]
      <3> DEFINE r == [pc |-> pc, todo |-> lp[l].todo, new |-> New(f, k)]
      <3>1. Shape(r) /\ r.pc = pc
        BY DEF Shape, LpPcs, New
      <3>2. lp' = [lp EXCEPT ![l] = r]
        BY <2>2
      <3> HIDE DEF r
      <3>3. QED BY <3>1, <3>2
    <2>3. \/ lp' = [lp EXCEPT ![l] = [pc |-> "accept", todo |-> @.todo, new |-> New(Sig(x.fd), x.l)]]
          \/ lp' = [lp EXCEPT ![l] = [pc |-> "hndl", todo |-> @.todo, new |-> New(None, 1)]]
      BY <1>2 DEF AcceptWrites, TypeInv
    <2>4. \E r : /\ Shape(r) /\ r.pc \in {"hndl", "accept"} /\ lp' = [lp EXCEPT ![l] = r]
      BY <1>0, <2>1, <2>2, <2>3
    <2>5. QED BY <2>4, LpStep
  <1>3. QED BY <1>1, <1>2

\* What a step of a loop's thread does, but for the start and the end of it.
Inner(w, l) ==
  \/ RunTask(w, l) \/ eventpoll_wait(w, l) \/ Dispatch(w, l)
  \/ AcceptReads(w, l) \/ AcceptWrites(w, l) \/ ev_pop_gtask(w, l)

LEMMA InnerLp ==
  ASSUME TypeInv, NEW w \in Loops, NEW l \in Loops, Inner(w, l)
  PROVE  /\ lp' = [k \in Loops |-> lp'[k]] /\ \A k \in Loops : Shape(lp'[k])
         /\ \A k \in Loops : k # l => lp'[k] = lp[k]
         /\ lp'[l].pc \notin {"none", "tasks"} \/ lp' = lp
         /\ lp[l].pc # "none"
  <1>1. {"hndl", "top"} \subseteq LpPcs /\ lp[l].pc # "none"
    BY DEF LpPcs, Inner, RunTask, eventpoll_wait, Dispatch, AcceptReads, AcceptWrites, ev_pop_gtask, Runs
  <1>2. CASE RunTask(w, l)
    BY <1>1, <1>2 DEF RunTask, TypeInv
  <1>3. CASE eventpoll_wait(w, l)
    <2>1. PICK q : lp' = [lp EXCEPT ![l].pc = "hndl", ![l].todo = q]
      BY <1>3, Zenon DEF eventpoll_wait
    <2>2. "hndl" \in LpPcs
      BY <1>1
    <2>3. lp'[l].pc = "hndl" /\ \A k \in Loops : k # l => lp'[k] = lp[k]
      BY <2>1, <2>2, LpTodo
    <2>4. lp' = [k \in Loops |-> lp'[k]] /\ \A k \in Loops : Shape(lp'[k])
      BY <2>1, <2>2, LpTodo
    <2>5. QED BY <1>1, <2>3, <2>4
  <1>4. CASE Dispatch(w, l)
    BY <1>1, <1>4, LpDispatch
  <1>5. CASE AcceptReads(w, l) \/ AcceptWrites(w, l)
    BY <1>1, <1>5, LpAccept
  <1>6. CASE ev_pop_gtask(w, l)
    BY <1>1, <1>6, LpTos DEF ev_pop_gtask
  <1>7. QED BY <1>2, <1>3, <1>4, <1>5, <1>6 DEF Inner

LEMMA TypesInner ==
  ASSUME TypeInv, TasksLive, NEW w \in Loops, NEW l \in Loops, Inner(w, l)
  PROVE  TypeInv'
  <1>1. /\ UNCHANGED <<poolVars, stopped, head>>
        /\ lp' = [k \in Loops |-> lp'[k]] /\ \A k \in Loops : Shape(lp'[k])
    BY InnerLp DEF Inner, RunTask, eventpoll_wait, Dispatch, AcceptReads, AcceptWrites, ev_pop_gtask
  <1>2. CASE RunTask(w, l)
    <2>1. cur[l] \in Seq(Users) /\ cur[l] # <<>> /\ IsInjective(cur[l])
      <3>1. <<"cur", l>> \in Lists /\ List(<<"cur", l>>) = cur[l]
        BY DEF Lists, List
      <3>2. QED BY <1>2, <3>1 DEF RunTask, TypeInv, TasksLive
    <2>2. PICK i \in Users : i = Head(cur[l])
      BY <2>1, Tailed
    <2>3. cur' \in [Loops -> Seq(Users)]
      BY <1>2, <2>1, Tailed DEF RunTask, TypeInv
    <2>4. PICK rc \in {0, -1} : /\ Ctl(l, us[i].op, us[i].fd, rc)
                                /\ us' = [us EXCEPT ![i].pc = "done", ![i].rc = rc]
      BY <1>2, <2>2 DEF RunTask, Outcomes, DoneAt
    <2>5. us' \in Calls
      <3>1. us \in Calls /\ us'[i] = [us[i] EXCEPT !.pc = "done", !.rc = rc]
        BY <2>4 DEF TypeInv, Calls
      <3>2. us[i] \in [pc : {"idle", "wait", "done"}, op : {"add", "del", "mod"},
                       fd : AllFds \cup {None}, l : Loops, rc : {0, -1}]
        BY <3>1 DEF Calls
      <3>3. us'[i] \in [pc : {"idle", "wait", "done"}, op : {"add", "del", "mod"},
                        fd : AllFds \cup {None}, l : Loops, rc : {0, -1}]
        BY <3>1, <3>2
      <3>4. QED BY <2>4, <3>1, <3>3 DEF Calls
    <2>6. size' \in [Loops -> Int]
      <3>1. us[i].op \in {"add", "del", "mod"} /\ size \in [Loops -> Int]
        BY DEF TypeInv, Calls
      <3>2. size' = size \/ size' = [size EXCEPT ![l] = @ + 1] \/ size' = [size EXCEPT ![l] = @ - 1]
        BY <2>4, <3>1 DEF Ctl, fdVars
      <3>3. QED BY <3>1, <3>2
    <2>7. QED BY <1>1, <1>2, <2>3, <2>5, <2>6 DEF RunTask, poolVars, TypeInv
  <1>3. CASE AcceptWrites(w, l)
    <2>1. lp[l].new.l \in Loops /\ lp[l].new.size \in Int
      BY DEF TypeInv, Shape
    <2>2. size' \in [Loops -> Int]
      BY SMTT(60), <1>3, <2>1 DEF AcceptWrites, TypeInv
    <2>3. where' \in [AllFds -> Loops \cup {None}]
      <3>1. PICK k \in Loops : k = lp[l].new.l
        BY <2>1
      <3>2. PICK f : f = lp[l].new.fd
        OBVIOUS
      <3>3. where' = [where EXCEPT ![f] = k] /\ where \in [AllFds -> Loops \cup {None}]
        BY <1>3, <3>1, <3>2 DEF AcceptWrites, TypeInv
      <3>4. QED BY <3>3
    <2>4. QED BY <1>1, <1>3, <2>2, <2>3 DEF AcceptWrites, poolVars, TypeInv
  <1>4. CASE UNCHANGED <<cur, size, us, where>>
    BY <1>1, <1>4 DEF poolVars, TypeInv
  <1>5. QED BY <1>2, <1>3, <1>4 DEF Inner, eventpoll_wait, Dispatch, AcceptReads, ev_pop_gtask,
                                   userVars, fdVars

\* What the threads of the library do to start and to stop it.
Starts == taskpool_start \/ taskpool_run \/ waitgroup_wait \/ __ev_exit \/ StopFlag \/ taskpool_stop \/ Joined

LEMMA WkTos ==
  ASSUME TypeInv, NEW w \in Loops, NEW pc \in WkPcs, NEW l \in Int, WkTo(w, pc, l),
         pc \in {"init", "loop"} => l \in Loops
  PROVE  /\ wk' \in Workers /\ \A v \in Loops : wk'[v].pc \in {"init", "loop"} => wk'[v].l \in Loops
         /\ wk'[w].pc = pc /\ wk'[w].l = l /\ \A v \in Loops : v # w => wk'[v] = wk[v]
  <1>1. wk \in Workers /\ \A v \in Loops : wk[v].pc \in {"init", "loop"} => wk[v].l \in Loops
    BY DEF TypeInv
  <1>2. QED BY <1>1 DEF WkTo, Workers

\* The threads that sleep wake up, the others go on as they are.
LEMMA WkWakes ==
  ASSUME TypeInv,
         wk' = [w \in Loops |-> IF wk[w].pc = "sleep" THEN [wk[w] EXCEPT !.pc = "top"] ELSE wk[w]]
  PROVE  /\ wk' \in Workers /\ \A w \in Loops : wk'[w].pc \in {"init", "loop"} => wk'[w].l \in Loops
         /\ \A w \in Loops : wk'[w] = wk[w] \/ (wk[w].pc = "sleep" /\ wk'[w].pc = "top")
  <1>1. wk \in Workers /\ \A v \in Loops : wk[v].pc \in {"init", "loop"} => wk[v].l \in Loops
    BY DEF TypeInv
  <1>2. \A w \in Loops : [wk[w] EXCEPT !.pc = "top"] \in [pc : WkPcs, l : Int]
                         /\ [wk[w] EXCEPT !.pc = "top"].pc = "top"
    BY <1>1 DEF Workers, WkPcs
  <1>3. \A w \in Loops : wk'[w] = IF wk[w].pc = "sleep" THEN [wk[w] EXCEPT !.pc = "top"] ELSE wk[w]
    OBVIOUS
  <1>4. \A w \in Loops : wk'[w] = wk[w] \/ (wk[w].pc = "sleep" /\ wk'[w].pc = "top")
    BY <1>2, <1>3
  <1>5. \A w \in Loops : wk'[w] \in [pc : WkPcs, l : Int]
    BY <1>1, <1>2, <1>3 DEF Workers
  <1>6. wk' \in Workers
    BY <1>5 DEF Workers
  <1>7. QED BY <1>1, <1>4, <1>6

LEMMA TypesStarts ==
  ASSUME TypeInv, Starts
  PROVE  TypeInv'
  <1>0. /\ main \in Mains /\ (main.pc \in {"run", "wait"} => main.l \in Loops)
        /\ (main.pc = "start" => main.l = 1) /\ 1 \in Loops /\ Loops = 1 .. NLoops /\ NLoops \in Nat
    BY LoopAssumption DEF TypeInv, Loops
  <1>1. /\ main' \in Mains /\ (main'.pc \in {"run", "wait"} => main'.l \in Loops)
        /\ main'.pc # "start"
    <2>1. CASE waitgroup_wait
      BY <1>0, <2>1 DEF waitgroup_wait, MainAt, Mains, MainPcs
    <2>2. CASE taskpool_start \/ taskpool_run \/ __ev_exit \/ StopFlag \/ taskpool_stop \/ Joined
      BY <1>0, <2>2 DEF taskpool_start, taskpool_run, __ev_exit, StopFlag, taskpool_stop, Joined,
                       MainAt, MainTo, Mains, MainPcs
    <2>3. QED BY <2>1, <2>2 DEF Starts
  <1>2. wk' \in Workers /\ \A w \in Loops : wk'[w].pc \in {"init", "loop"} => wk'[w].l \in Loops
    <2>1. CASE taskpool_start
      BY <2>1 DEF taskpool_start, Workers, WkPcs
    <2>2. CASE taskpool_run \/ taskpool_stop
      BY <2>2, WkWakes DEF taskpool_run, taskpool_stop
    <2>3. CASE wk' = wk
      BY <2>3 DEF TypeInv
    <2>4. QED BY <2>1, <2>2, <2>3 DEF Starts, waitgroup_wait, __ev_exit, StopFlag, Joined
  <1>3. tasks' \in Seq(Loops) /\ wg' \in [Loops -> Int]
    <2>1. tasks \in Seq(Loops) /\ wg \in [Loops -> Int]
      BY DEF TypeInv
    <2>2. CASE taskpool_run
      <3>1. main.l \in Loops
        BY <1>0, <2>2 DEF taskpool_run, MainAt
      <3>2. tasks' = Append(tasks, main.l) /\ wg' = [wg EXCEPT ![main.l] = 1]
        BY <2>2 DEF taskpool_run, Initial
      <3>3. QED BY <2>1, <3>1, <3>2, Appended
    <2>3. UNCHANGED <<tasks, wg>> \/ taskpool_run
      BY DEF Starts, taskpool_start, waitgroup_wait, __ev_exit, StopFlag, taskpool_stop, Joined
    <2>4. QED BY <2>1, <2>2, <2>3
  <1>4. stopping' \in BOOLEAN /\ stopped' \in [Loops -> BOOLEAN]
    BY DEF Starts, taskpool_start, taskpool_run, waitgroup_wait, __ev_exit, StopFlag, taskpool_stop, Joined,
           TypeInv, loopVars
  <1>5. UNCHANGED <<lp, head, cur, size, us, where>>
    BY DEF Starts, taskpool_start, taskpool_run, waitgroup_wait, __ev_exit, StopFlag, taskpool_stop, Joined,
           loopVars, fdVars, userVars
  <1>6. QED BY <1>1, <1>2, <1>3, <1>4, <1>5 DEF TypeInv

\* What a thread of the pool does outside the loop it runs.
Outer(w) == Runner(w) \/ taskpool_pop(w) \/ ev_fdset_init(w) \/ \E l \in Loops : ev_hndl(w, l)

LEMMA TypesOuter ==
  ASSUME TypeInv, NEW w \in Loops, Outer(w)
  PROVE  TypeInv'
  <1>0. {"top", "pop", "sleep", "init", "loop", "out"} \subseteq WkPcs /\ 0 \in Int /\ Loops \subseteq Int
    BY LoopAssumption DEF WkPcs, Loops
  <1>1. CASE Runner(w)
    <2>1. wk' \in Workers /\ \A v \in Loops : wk'[v].pc \in {"init", "loop"} => wk'[v].l \in Loops
      BY <1>0, <1>1, WkTos DEF Runner
    <2>2. QED BY <1>1, <2>1 DEF Runner, loopVars, fdVars, userVars, TypeInv
  <1>2. CASE taskpool_pop(w)
    <2>1. tasks' \in Seq(Loops) /\ (tasks # <<>> => Head(tasks) \in Loops)
      <3>1. tasks \in Seq(Loops)
        BY DEF TypeInv
      <3>2. tasks # <<>> => Head(tasks) \in Loops /\ Tail(tasks) \in Seq(Loops)
        BY <3>1
      <3>3. tasks' = tasks \/ (tasks # <<>> /\ tasks' = Tail(tasks))
        BY <1>2 DEF taskpool_pop
      <3>4. QED BY <3>1, <3>2, <3>3
    <2>2. wk' \in Workers /\ \A v \in Loops : wk'[v].pc \in {"init", "loop"} => wk'[v].l \in Loops
      BY <1>0, <1>2, <2>1, WkTos DEF taskpool_pop
    <2>3. QED BY <1>2, <2>1, <2>2 DEF taskpool_pop, loopVars, fdVars, userVars, TypeInv
  <1>3. CASE ev_fdset_init(w)
    <2>1. PICK l \in Loops : l = wk[w].l
      BY <1>3 DEF ev_fdset_init, TypeInv
    <2>2. wk' \in Workers /\ \A v \in Loops : wk'[v].pc \in {"init", "loop"} => wk'[v].l \in Loops
      BY <1>0, <1>3, <2>1, WkTos DEF ev_fdset_init
    <2>3. lp' = [k \in Loops |-> lp'[k]] /\ \A k \in Loops : Shape(lp'[k])
      BY <1>3, <2>1, LpTos, "top" \in LpPcs DEF ev_fdset_init, LpPcs
    <2>4. wg' \in [Loops -> Int] /\ size' \in [Loops -> Int] /\ head' \in [Loops -> Seq(Users)]
      BY <1>3, <2>1 DEF ev_fdset_init, TypeInv
    <2>5. QED BY <1>3, <2>2, <2>3, <2>4 DEF ev_fdset_init, userVars, TypeInv
  <1>4. ASSUME NEW l \in Loops, ev_hndl(w, l) PROVE TypeInv'
    <2>1. CASE stopped[l]
      <3>1. wk' \in Workers /\ \A v \in Loops : wk'[v].pc \in {"init", "loop"} => wk'[v].l \in Loops
        BY <1>0, <1>4, <2>1, WkTos DEF ev_hndl
      <3>2. QED BY <1>4, <2>1, <3>1 DEF ev_hndl, fdVars, userVars, TypeInv
    <2>2. CASE ~ stopped[l]
      <3>1. lp' = [k \in Loops |-> lp'[k]] /\ \A k \in Loops : Shape(lp'[k])
        BY <1>4, <2>2, LpTos, "tasks" \in LpPcs DEF ev_hndl, LpPcs
      <3>2. head' \in [Loops -> Seq(Users)] /\ cur' \in [Loops -> Seq(Users)]
        <4>1. head \in [Loops -> Seq(Users)] /\ cur \in [Loops -> Seq(Users)] /\ <<>> \in Seq(Users)
          BY DEF TypeInv
        <4>2. head' = [head EXCEPT ![l] = <<>>] /\ cur' = [cur EXCEPT ![l] = head[l]]
          BY <1>4, <2>2 DEF ev_hndl, Taken
        <4>3. QED BY <4>1, <4>2
      <3>3. QED BY <1>4, <2>2, <3>1, <3>2 DEF ev_hndl, fdVars, userVars, TypeInv
    <2>3. QED BY <2>1, <2>2
  <1>5. QED BY <1>1, <1>2, <1>3, <1>4 DEF Outer

LEMMA PostTypes ==
  ASSUME TypeInv, NEW i \in Users, NEW op \in {"add", "del", "mod"}, NEW f \in AllFds, NEW l \in Loops,
         Post(i, op, f, l)
  PROVE  us' \in Calls /\ head' \in [Loops -> Seq(Users)]
  <1>1. us \in Calls /\ head \in [Loops -> Seq(Users)]
    BY DEF TypeInv
  <1>2. us' \in Calls
    BY <1>1 DEF Post, Calls
  <1>3. head' \in [Loops -> Seq(Users)]
    BY <1>1 DEF Post
  <1>4. QED BY <1>2, <1>3

\* A call posts one task, to a loop.
LEMMA Posts ==
  ASSUME TypeInv, NEW i \in Users, ev_fdset_ctl(i)
  PROVE  /\ Usable /\ \E op \in {"add", "del", "mod"}, f \in AllFds, l \in Loops : Post(i, op, f, l)
         /\ UNCHANGED <<poolVars, stopped, lp, cur, fdVars, ready, where, gq, gran>>
  <1>1. Lla \in Loops
    BY LlaIn DEF TypeInv
  <1>2. \A f \in AllFds : where[f] # None => where[f] \in Loops
    BY DEF TypeInv
  <1>3. QED BY <1>1, <1>2 DEF ev_fdset_ctl, Post

LEMMA TypesUser ==
  ASSUME TypeInv, NEW i \in Users, ev_fdset_ctl(i) \/ Return(i)
  PROVE  TypeInv'
  <1>1. CASE ev_fdset_ctl(i)
    <2>1. us' \in Calls /\ head' \in [Loops -> Seq(Users)]
      BY <1>1, Posts, PostTypes
    <2>2. QED BY <1>1, <2>1, Posts DEF poolVars, fdVars, TypeInv
  <1>2. CASE Return(i)
    <2>1. us \in Calls /\ where \in [AllFds -> Loops \cup {None}]
      BY DEF TypeInv
    <2>2. us' \in Calls
      <3>1. us' = [us EXCEPT ![i] = Idle]
        BY <1>2 DEF Return
      <3>2. Idle \in [pc : {"idle", "wait", "done"}, op : {"add", "del", "mod"},
                      fd : AllFds \cup {None}, l : Loops, rc : {0, -1}]
        BY LoopAssumption DEF Idle, Loops
      <3>3. QED BY <2>1, <3>1, <3>2 DEF Calls
    <2>3. PICK u \in [pc : {"idle", "wait", "done"}, op : {"add", "del", "mod"},
                      fd : AllFds \cup {None}, l : Loops, rc : {0, -1}] : u = us[i]
      BY <2>1 DEF Calls
    <2>4. \/ where' = where \/ where' = [where EXCEPT ![u.fd] = u.l]
          \/ where' = [where EXCEPT ![u.fd] = None] \/ where' = [where EXCEPT ![u.fd] = @]
      BY <1>2, <2>3 DEF Return
    <2>5. where' \in [AllFds -> Loops \cup {None}]
      <3>1. u.l \in Loops
        BY <2>3
      <3>2. PICK f : f = u.fd
        OBVIOUS
      <3>3. QED BY <2>1, <2>4, <3>1, <3>2
    <2>6. QED BY <1>2, <2>2, <2>5 DEF Return, poolVars, loopVars, fdVars, TypeInv
  <1>3. QED BY <1>1, <1>2

LEMMA TypesStep ==
  ASSUME TypeInv, TasksLive, [Next]_vars
  PROVE  TypeInv'
  <1>1. CASE UNCHANGED vars
    BY <1>1 DEF vars, poolVars, loopVars, fdVars, userVars, TypeInv
  <1>2. CASE ev_add_gtask \/ Readable
    BY <1>2 DEF ev_add_gtask, Readable, poolVars, loopVars, fdVars, userVars, TypeInv
  <1>3. QED BY <1>1, <1>2, TypesStarts, TypesOuter, TypesInner, TypesUser
     DEF Next, __ev_init, Exits, Works, Starts, Outer, Inner

----------------------------------------------------------------------------
(* The loops come up one after the other.                                   *)

\* A step that moves no loop between the pool, a thread that begins it and its run.
LEMMA PoolKeep ==
  ASSUME TypeInv, PoolInv, UNCHANGED <<tasks, wg>>, Given \subseteq Given',
         \A w \in Loops : wk'[w] = wk[w] \/ (wk[w].pc # "init" /\ wk'[w].pc # "init")
  PROVE  PoolInv'
  <1>1. \A w, l \in Loops : Begun(w, l)' <=> Begun(w, l)
    BY DEF Begun
  <1>2. Loops' = Loops /\ Elems(tasks') = Elems(tasks)
    BY DEF Elems
  <1>3. QED BY <1>1, <1>2 DEF PoolInv

LEMMA GivenIs ==
  ASSUME TypeInv
  PROVE  /\ Given \subseteq Loops
         /\ main.pc = "start" => Given = {}
         /\ main.pc = "run" => Given = {l \in Loops : l < main.l}
         /\ main.pc = "wait" => Given = {l \in Loops : l <= main.l}
         /\ main.pc \notin {"start", "run", "wait"} => Given = Loops
  BY DEF Given, TypeInv, Mains, MainPcs

LEMMA GivenNext ==
  ASSUME TypeInv'
  PROVE  /\ Given' \subseteq Loops
         /\ main'.pc = "start" => Given' = {}
         /\ main'.pc = "run" => Given' = {l \in Loops : l < main'.l}
         /\ main'.pc = "wait" => Given' = {l \in Loops : l <= main'.l}
         /\ main'.pc \notin {"start", "run", "wait"} => Given' = Loops
  BY DEF Given, TypeInv, Mains, MainPcs

LEMMA PoolRun ==
  ASSUME TypeInv, TypeInv', PoolInv, taskpool_run
  PROVE  PoolInv' /\ Given' = Given \cup {main.l}
  <1>1. main.pc = "run" /\ main.l \in Loops /\ main' = [main EXCEPT !.pc = "wait"] /\ main \in Mains
    BY DEF taskpool_run, MainAt, MainTo, TypeInv
  <1>2. main'.pc = "wait" /\ main'.l = main.l
    BY <1>1 DEF Mains
  <1>3. /\ Given = {l \in Loops : l < main.l} /\ Given' = {l \in Loops : l <= main.l}
        /\ Loops \subseteq Int
    BY <1>1, <1>2, GivenIs, GivenNext DEF Loops
  <1>4. Given' = Given \cup {main.l} /\ main.l \notin Given
    BY <1>1, <1>3
  <1>5. main.l \notin Elems(tasks) /\ \A w \in Loops : ~ Begun(w, main.l)
    BY <1>1, <1>4 DEF PoolInv
  <1>6. /\ Elems(tasks') = Elems(tasks) \cup {main.l} /\ IsInjective(tasks')
        /\ wg' = [wg EXCEPT ![main.l] = 1]
    <2>1. tasks \in Seq(Loops) /\ IsInjective(tasks)
      BY DEF TypeInv, PoolInv
    <2>2. tasks' = Append(tasks, main.l) /\ wg' = [wg EXCEPT ![main.l] = 1]
      BY DEF taskpool_run, Initial
    <2>3. QED BY <1>1, <1>5, <2>1, <2>2, Appended
  <1>7. PICK m \in Loops : m = main.l
    BY <1>1
  <1>8. \A w, l \in Loops : Begun(w, l)' <=> Begun(w, l)
    BY WkWakes DEF taskpool_run, Begun
  <1>9. wg'[m] = 1 /\ \A l \in Loops : l # m => wg'[l] = wg[l]
    BY <1>6, <1>7 DEF TypeInv
  <1>10. \A w, v \in Loops : \A l \in Loops : Begun(w, l)' /\ Begun(v, l)' => w = v
    BY <1>8 DEF PoolInv
  <1>11. \A w, l \in Loops : Begun(w, l)' => l \notin Elems(tasks')
    BY <1>5, <1>6, <1>8 DEF PoolInv
  <1>12. \A l \in Loops : l \in Elems(tasks') \/ (\E w \in Loops : Begun(w, l)')
                            => l \in Given' /\ wg'[l] = 1
    BY <1>4, <1>6, <1>7, <1>8, <1>9 DEF PoolInv
  <1>13. QED BY <1>4, <1>6, <1>10, <1>11, <1>12 DEF PoolInv

LEMMA PoolStarts ==
  ASSUME TypeInv, TypeInv', PoolInv, Starts
  PROVE  PoolInv' /\ Given \subseteq Given'
  <1>1. CASE taskpool_run
    BY <1>1, PoolRun
  <1>2. CASE ~ taskpool_run
    <2>0. /\ main \in Mains /\ main' \in Mains /\ Loops = 1 .. NLoops /\ NLoops \in Nat
          /\ (main.pc = "wait" => main.l \in Loops)
      BY LoopAssumption DEF TypeInv, Loops
    <2>1. Given \subseteq Given'
      <3>1. CASE waitgroup_wait /\ main.l < NLoops
        <4>1. main.pc = "wait" /\ main'.pc = "run" /\ main'.l = main.l + 1
          BY <3>1 DEF waitgroup_wait, MainAt
        <4>2. QED BY <2>0, <4>1, GivenIs, GivenNext
      <3>2. CASE waitgroup_wait /\ ~ main.l < NLoops
        <4>1. main'.pc = "up"
          BY <3>2 DEF waitgroup_wait
        <4>2. QED BY <4>1, GivenIs, GivenNext
      <3>3. CASE taskpool_start
        BY <3>3, GivenIs DEF taskpool_start, MainAt
      <3>4. CASE __ev_exit \/ StopFlag \/ taskpool_stop \/ Joined
        <4>1. main'.pc \in {"exit", "stop", "join", "done"}
          BY <2>0, <3>4 DEF __ev_exit, StopFlag, taskpool_stop, Joined, MainAt, MainTo, Mains
        <4>2. QED BY <4>1, GivenIs, GivenNext
      <3>5. QED BY <1>2, <3>1, <3>2, <3>3, <3>4 DEF Starts
    <2>2. UNCHANGED <<tasks, wg>>
      BY <1>2 DEF Starts, taskpool_start, waitgroup_wait, __ev_exit, StopFlag, taskpool_stop, Joined
    <2>3. CASE taskpool_start
      <3>1. \A w \in Loops : ~ Begun(w, 1)' /\ \A l \in Loops : ~ Begun(w, l)'
        BY <2>3 DEF taskpool_start, Begun
      <3>2. Elems(tasks') = Elems(tasks)
        BY <2>2 DEF Elems
      <3>3. QED BY <2>1, <2>2, <3>1, <3>2 DEF PoolInv
    <2>4. CASE ~ taskpool_start
      <3>1. \A w \in Loops : wk'[w] = wk[w] \/ (wk[w].pc # "init" /\ wk'[w].pc # "init")
        BY <1>2, <2>4, WkWakes DEF Starts, waitgroup_wait, __ev_exit, StopFlag, taskpool_stop, Joined
      <3>2. QED BY <2>1, <2>2, <3>1, PoolKeep
    <2>5. QED BY <2>1, <2>3, <2>4
  <1>3. QED BY <1>1, <1>2

LEMMA PoolPop ==
  ASSUME TypeInv, PoolInv, NEW w \in Loops, taskpool_pop(w), tasks' = Tail(tasks), tasks # <<>>,
         WkTo(w, "init", Head(tasks))
  PROVE  PoolInv'
  <1>1. /\ tasks \in Seq(Loops) /\ IsInjective(tasks) /\ Loops \subseteq Int
    BY DEF TypeInv, PoolInv, Loops
  <1>2. PICK m \in Loops : m = Head(tasks) /\ m \in Elems(tasks)
    BY <1>1, Tailed
  <1>3. Elems(tasks') = Elems(tasks) \ {m} /\ IsInjective(tasks')
    BY <1>1, <1>2, Tailed
  <1>4. wk'[w].pc = "init" /\ wk'[w].l = m /\ \A v \in Loops : v # w => wk'[v] = wk[v]
    BY <1>1, <1>2, WkTos, "init" \in WkPcs DEF WkPcs
  <1>5. \A v \in Loops : ~ Begun(v, m)
    BY <1>2 DEF PoolInv
  <1>6. ~ wk[w].pc = "init"
    BY DEF taskpool_pop
  <1>7. \A v, l \in Loops : Begun(v, l)' <=> Begun(v, l) \/ (v = w /\ l = m)
    BY <1>4, <1>6 DEF Begun
  <1>8. Given' = Given /\ wg' = wg
    BY DEF taskpool_pop, Given
  <1>9. \A v, u \in Loops : \A l \in Loops : Begun(v, l)' /\ Begun(u, l)' => v = u
    BY <1>5, <1>7 DEF PoolInv
  <1>10. \A v, l \in Loops : Begun(v, l)' => l \notin Elems(tasks')
    BY <1>3, <1>7 DEF PoolInv
  <1>11. \A l \in Loops : l \in Elems(tasks') \/ (\E v \in Loops : Begun(v, l)')
                            => l \in Given' /\ wg'[l] = 1
    BY <1>2, <1>3, <1>7, <1>8 DEF PoolInv
  <1>12. QED BY <1>3, <1>9, <1>10, <1>11 DEF PoolInv

\* The wait group of a loop that a thread begins comes to 0, and no other does.
LEMMA PoolInit ==
  ASSUME TypeInv, PoolInv, NEW w \in Loops, ev_fdset_init(w)
  PROVE  /\ PoolInv'
         /\ \E m \in Loops :
              /\ wk'[w].pc = "loop" /\ wk'[w].l = m /\ \A v \in Loops : v # w => wk'[v] = wk[v]
              /\ wk[w].pc = "init" /\ m \in Given /\ wg[m] = 1 /\ wg'[m] = 0
              /\ \A l \in Loops : l # m => wg'[l] = wg[l]
              /\ lp'[m].pc = "top" /\ \A l \in Loops : l # m => lp'[l] = lp[l]
  <1>1. PICK m \in Loops : m = wk[w].l
    BY DEF ev_fdset_init, TypeInv
  <1>2. /\ wk[w].pc = "init" /\ wk'[w].pc = "loop" /\ wk'[w].l = m
        /\ \A v \in Loops : v # w => wk'[v] = wk[v]
    <2>1. "loop" \in WkPcs /\ m \in Int
      BY DEF WkPcs, Loops
    <2>2. WkTo(w, "loop", m) /\ wk[w].pc = "init"
      BY <1>1 DEF ev_fdset_init
    <2>3. QED BY <2>1, <2>2, WkTos
  <1>3. Begun(w, m)
    BY <1>1, <1>2 DEF Begun
  <1>4. m \in Given /\ wg[m] = 1 /\ m \notin Elems(tasks)
    BY <1>3 DEF PoolInv
  <1>5. wg'[m] = 0 /\ \A l \in Loops : l # m => wg'[l] = wg[l]
    BY <1>1, <1>4 DEF ev_fdset_init, TypeInv
  <1>6. \A v, l \in Loops : Begun(v, l)' <=> Begun(v, l) /\ v # w
    BY <1>2 DEF Begun
  <1>7. Given' = Given /\ tasks' = tasks
    BY DEF ev_fdset_init, Given
  <1>8. \A v \in Loops : ~ Begun(v, m)'
    BY <1>3, <1>6 DEF PoolInv
  <1>9. PoolInv'
    <2>1. Elems(tasks') = Elems(tasks)
      BY <1>7 DEF Elems
    <2>2. \A l \in Loops : l \in Elems(tasks') \/ (\E v \in Loops : Begun(v, l)')
                            => l \in Given' /\ wg'[l] = 1
      BY <1>4, <1>5, <1>6, <1>7, <1>8, <2>1 DEF PoolInv
    <2>3. \A v, u \in Loops : \A l \in Loops : Begun(v, l)' /\ Begun(u, l)' => v = u
      BY <1>6 DEF PoolInv
    <2>4. \A v, l \in Loops : Begun(v, l)' => l \notin Elems(tasks')
      BY <1>6, <2>1 DEF PoolInv
    <2>5. QED BY <1>7, <2>2, <2>3, <2>4 DEF PoolInv
  <1>10. lp'[m].pc = "top" /\ \A l \in Loops : l # m => lp'[l] = lp[l]
    BY <1>1, LpTos, "top" \in LpPcs DEF ev_fdset_init, LpPcs
  <1>11. QED BY <1>2, <1>4, <1>5, <1>9, <1>10

LEMMA PoolStep ==
  ASSUME TypeInv, TypeInv', PoolInv, [Next]_vars
  PROVE  PoolInv' /\ Given \subseteq Given'
  <1>0. 0 \in Int /\ {"top", "out", "pop", "sleep"} \subseteq WkPcs
    BY DEF WkPcs
  <1>1. CASE UNCHANGED <<main, tasks, wg, wk>>
    <2>1. Given' = Given
      BY <1>1 DEF Given
    <2>2. QED BY <1>1, <2>1, PoolKeep
  <1>2. ASSUME NEW w \in Loops, NEW pc \in {"top", "out", "pop", "sleep"}, WkTo(w, pc, 0), wk[w].pc # "init",
               UNCHANGED <<main, tasks, wg>>
        PROVE  PoolInv' /\ Given \subseteq Given'
    <2>1. wk'[w].pc = pc /\ \A v \in Loops : v # w => wk'[v] = wk[v]
      BY <1>0, <1>2, WkTos
    <2>2. Given' = Given
      BY <1>2 DEF Given
    <2>3. QED BY <1>2, <2>1, <2>2, PoolKeep
  <1>3. ASSUME NEW w \in Loops, Outer(w) PROVE PoolInv' /\ Given \subseteq Given'
    <2>1. CASE Runner(w)
      BY <1>2, <2>1 DEF Runner
    <2>2. CASE taskpool_pop(w)
      <3>1. Given' = Given
        BY <2>2 DEF taskpool_pop, Given
      <3>2. QED BY <1>2, <2>2, <3>1, PoolPop DEF taskpool_pop
    <2>3. CASE ev_fdset_init(w)
      <3>1. Given' = Given
        BY <2>3 DEF ev_fdset_init, Given
      <3>2. QED BY <2>3, <3>1, PoolInit
    <2>4. ASSUME NEW l \in Loops, ev_hndl(w, l) PROVE PoolInv' /\ Given \subseteq Given'
      <3>1. CASE stopped[l]
        BY <1>2, <2>4, <3>1 DEF ev_hndl, Runs
      <3>2. CASE ~ stopped[l]
        BY <1>1, <2>4, <3>2 DEF ev_hndl
      <3>3. QED BY <3>1, <3>2
    <2>5. QED BY <1>3, <2>1, <2>2, <2>3, <2>4 DEF Outer
  <1>4. ASSUME NEW w \in Loops, NEW l \in Loops, Inner(w, l) PROVE UNCHANGED <<main, tasks, wg, wk>>
    BY <1>4 DEF Inner, RunTask, eventpoll_wait, Dispatch, AcceptReads, AcceptWrites, ev_pop_gtask, poolVars
  <1>5. ASSUME NEW i \in Users, ev_fdset_ctl(i) \/ Return(i) PROVE UNCHANGED <<main, tasks, wg, wk>>
    BY <1>5, Posts DEF Return, poolVars
  <1>6. ev_add_gtask \/ Readable \/ UNCHANGED vars => UNCHANGED <<main, tasks, wg, wk>>
    BY DEF ev_add_gtask, Readable, vars, poolVars
  <1>7. QED BY <1>1, <1>3, <1>4, <1>5, <1>6, PoolStarts
     DEF Next, __ev_init, Exits, Works, Starts, Outer, Inner

\* A step that lowers no wait group and takes no thread from a loop.
LEMMA UpKeep ==
  ASSUME TypeInv, TypeInv', UpInv, UNCHANGED <<main, wg>>, stopped' = stopped,
         \A w \in Loops : wk[w].pc = "loop" => wk'[w] = wk[w],
         \A w \in Loops : wk[w].pc = "out" => wk'[w].pc = "out",
         \A l \in Loops : lp[l].pc # "none" => lp'[l].pc # "none"
  PROVE  UpInv'
  <1>1. \A l \in Loops : Up(l) => Up(l)'
    BY DEF Up
  <1>2. Given' = Given /\ Given \subseteq Loops
    BY GivenIs DEF Given
  <1>3. main' = main /\ wg' = wg /\ stopped' = stopped
    OBVIOUS
  <1>4. QED BY <1>1, <1>2, <1>3 DEF UpInv

LEMMA UpStarts ==
  ASSUME TypeInv, TypeInv', PoolInv, UpInv, Starts
  PROVE  UpInv'
  <1>0. /\ main \in Mains /\ main' \in Mains /\ Loops = 1 .. NLoops /\ NLoops \in Nat
        /\ (main.pc = "wait" => main.l \in Loops) /\ (main.pc = "start" => main.l = 1)
    BY LoopAssumption DEF TypeInv, Loops
  <1>1. CASE taskpool_start
    <2>1. main'.pc = "run" /\ main'.l = 1 /\ main.pc = "start" /\ stopped' = stopped
      BY <1>0, <1>1 DEF taskpool_start, MainAt, MainTo, loopVars, Mains
    <2>2. Given' = {}
      BY <1>0, <2>1, GivenNext
    <2>3. QED BY <2>1, <2>2 DEF UpInv
  <1>2. CASE taskpool_run
    <2>1. /\ Given' = Given \cup {main.l} /\ main.pc = "run" /\ main'.pc = "wait" /\ main'.l = main.l
          /\ stopped' = stopped /\ lp' = lp /\ Given \subseteq Loops
      BY <1>0, <1>2, PoolRun, GivenIs DEF taskpool_run, MainAt, MainTo, loopVars, Mains
    <2>2. PICK m \in Loops : m = main.l
      BY <2>1 DEF TypeInv
    <2>3. wg'[m] = 1 /\ \A l \in Loops : l # m => wg'[l] = wg[l]
      BY <1>2, <2>2 DEF taskpool_run, Initial, TypeInv
    <2>4. \A l \in Loops : Up(l) => Up(l)'
      BY <1>2, <2>1, WkWakes DEF taskpool_run, Up
    <2>5. \A l \in Given' : wg'[l] = 0 => Up(l)'
      BY <2>1, <2>2, <2>3, <2>4 DEF UpInv
    <2>6. \A l \in Given' : l # m => wg'[l] = 0
      BY <2>1, <2>2, <2>3 DEF UpInv
    <2>7. QED BY <2>1, <2>2, <2>5, <2>6 DEF UpInv
  <1>3. CASE waitgroup_wait
    <2>1. /\ main.pc = "wait" /\ wg[main.l] = 0 /\ main'.pc \in {"run", "up"}
          /\ stopped' = stopped /\ lp' = lp /\ wk' = wk /\ wg' = wg
      BY <1>3 DEF waitgroup_wait, MainAt, loopVars
    <2>2. Given' = Given
      <3>1. CASE main.l < NLoops
        <4>1. main'.pc = "run" /\ main'.l = main.l + 1
          BY <1>3, <3>1 DEF waitgroup_wait
        <4>2. Given = {l \in Loops : l <= main.l} /\ Given' = {l \in Loops : l < main'.l}
          BY <2>1, <4>1, GivenIs, GivenNext
        <4>3. QED BY <1>0, <2>1, <4>1, <4>2
      <3>2. CASE ~ main.l < NLoops
        <4>1. main'.pc = "up"
          BY <1>3, <3>2 DEF waitgroup_wait
        <4>2. Given = {l \in Loops : l <= main.l} /\ Given' = Loops
          BY <2>1, <4>1, GivenIs, GivenNext
        <4>3. QED BY <1>0, <2>1, <3>2, <4>2
      <3>3. QED BY <3>1, <3>2
    <2>3. \A l \in Given' : wg'[l] = 0
      BY <2>1, <2>2 DEF UpInv
    <2>4. \A l \in Loops : Up(l)' <=> Up(l)
      BY <2>1 DEF Up
    <2>5. \A l \in Given' : Up(l)'
      BY <2>1, <2>2, <2>3, <2>4, GivenIs DEF UpInv
    <2>6. QED BY <2>1, <2>3, <2>5 DEF UpInv
  <1>4. CASE __ev_exit \/ StopFlag \/ taskpool_stop \/ Joined
    <2>1. /\ main.pc \in {"up", "exit", "stop", "join"} /\ main'.pc \in {"exit", "stop", "join", "done"} /\ wg' = wg
          /\ main'.pc = "done" => \A w \in Loops : wk'[w].pc = "out"
      BY <1>0, <1>4 DEF __ev_exit, StopFlag, taskpool_stop, Joined, MainAt, MainTo, Mains
    <2>2. Given' = Given
      BY <2>1, GivenIs, GivenNext
    <2>3. \A l \in Given' : wg'[l] = 0
      BY <2>1, <2>2 DEF UpInv
    <2>4. QED BY <2>1, <2>3 DEF UpInv
  <1>5. QED BY <1>1, <1>2, <1>3, <1>4 DEF Starts

LEMMA UpOuter ==
  ASSUME TypeInv, TypeInv', PoolInv, UpInv, NEW w \in Loops, Outer(w)
  PROVE  UpInv'
  <1>0. 0 \in Int /\ {"top", "out", "pop", "sleep", "init"} \subseteq WkPcs /\ Loops \subseteq Int
    BY DEF WkPcs, Loops
  <1>1. CASE Runner(w)
    <2>1. \A v \in Loops : v # w => wk'[v] = wk[v]
      BY <1>0, <1>1, WkTos DEF Runner
    <2>2. wk[w].pc = "top" /\ UNCHANGED <<main, wg, stopped, lp>>
      BY <1>1 DEF Runner, loopVars
    <2>3. QED BY <2>1, <2>2, UpKeep
  <1>2. CASE taskpool_pop(w)
    <2>1. \A v \in Loops : v # w => wk'[v] = wk[v]
      BY <1>0, <1>2 DEF taskpool_pop, WkTo, TypeInv, Workers
    <2>2. wk[w].pc = "pop" /\ UNCHANGED <<main, wg, stopped, lp>>
      BY <1>2 DEF taskpool_pop, loopVars
    <2>3. QED BY <2>1, <2>2, UpKeep
  <1>3. CASE ev_fdset_init(w)
    <2>1. PICK m \in Loops :
              /\ wk'[w].pc = "loop" /\ wk'[w].l = m /\ \A v \in Loops : v # w => wk'[v] = wk[v]
              /\ wk[w].pc = "init" /\ m \in Given /\ wg[m] = 1 /\ wg'[m] = 0
              /\ \A l \in Loops : l # m => wg'[l] = wg[l]
              /\ lp'[m].pc = "top" /\ \A l \in Loops : l # m => lp'[l] = lp[l]
      BY <1>3, PoolInit
    <2>2. Given' = Given /\ Given \subseteq Loops /\ main' = main /\ stopped' = stopped
      BY <1>3, GivenIs DEF ev_fdset_init, Given
    <2>3. Up(m)'
      BY <2>1 DEF Up
    <2>4. \A l \in Loops : Up(l) => Up(l)'
      BY <2>1 DEF Up
    <2>5. main.pc \in {"run", "wait", "up"} => \A l \in Given : wg'[l] = 0 => Up(l)'
      BY <2>1, <2>2, <2>3, <2>4 DEF UpInv
    <2>6. \A l \in Given : (main.pc = "wait" => l # main.l) => wg'[l] = 0
      BY <2>1, <2>2 DEF UpInv
    <2>7. main.pc # "done"
      BY <2>1 DEF UpInv
    <2>8. QED BY <2>2, <2>5, <2>6, <2>7 DEF UpInv
  <1>4. ASSUME NEW l \in Loops, ev_hndl(w, l) PROVE UpInv'
    <2>0. UNCHANGED <<main, wg, stopped>> /\ wk[w].pc = "loop" /\ lp[l].pc = "top"
      BY <1>4 DEF ev_hndl, Runs
    <2>1. CASE stopped[l]
      <3>1. main.pc \notin {"start", "run", "wait", "up", "done"}
        BY <2>0, <2>1 DEF UpInv
      <3>2. Given' = Given
        BY <2>0 DEF Given
      <3>3. QED BY <2>0, <3>1, <3>2 DEF UpInv
    <2>2. CASE ~ stopped[l]
      <3>1. LpTo(l, "tasks") /\ wk' = wk
        BY <1>4, <2>2 DEF ev_hndl
      <3>2. lp'[l].pc = "tasks" /\ \A k \in Loops : k # l => lp'[k] = lp[k]
        BY <3>1, LpTos, "tasks" \in LpPcs DEF LpPcs
      <3>3. QED BY <2>0, <3>1, <3>2, UpKeep
    <2>3. QED BY <2>1, <2>2
  <1>5. QED BY <1>1, <1>2, <1>3, <1>4 DEF Outer

LEMMA UpStep ==
  ASSUME TypeInv, TypeInv', PoolInv, UpInv, [Next]_vars
  PROVE  UpInv'
  <1>1. CASE UNCHANGED <<main, wg, stopped, wk, lp>>
    BY <1>1, UpKeep
  <1>2. ASSUME NEW w \in Loops, NEW l \in Loops, Inner(w, l) PROVE UpInv'
    <2>1. UNCHANGED <<main, wg, stopped, wk>>
      BY <1>2 DEF Inner, RunTask, eventpoll_wait, Dispatch, AcceptReads, AcceptWrites, ev_pop_gtask, poolVars
    <2>2. QED BY <1>2, <2>1, InnerLp, UpKeep
  <1>3. ASSUME NEW i \in Users, ev_fdset_ctl(i) \/ Return(i) PROVE UNCHANGED <<main, wg, stopped, wk, lp>>
    BY <1>3, Posts DEF Return, poolVars, loopVars
  <1>4. ev_add_gtask \/ Readable \/ UNCHANGED vars => UNCHANGED <<main, wg, stopped, wk, lp>>
    BY DEF ev_add_gtask, Readable, vars, poolVars, loopVars
  <1>5. QED BY <1>1, <1>2, <1>3, <1>4, UpStarts, UpOuter
     DEF Next, __ev_init, Exits, Works, Starts, Outer, Inner

----------------------------------------------------------------------------
(* The lists of tasks.                                                      *)

\* A task that a thread begins to run is for the loop that __ev_init waits for.
LEMMA BeginsEarly ==
  ASSUME TypeInv, PoolInv, UpInv, ListInv, TasksLive, NEW w \in Loops, ev_fdset_init(w)
  PROVE  /\ wk[w].l \in Loops /\ head[wk[w].l] = <<>> /\ cur[wk[w].l] = <<>>
  <1>1. PICK m \in Loops : m = wk[w].l
    BY DEF ev_fdset_init, TypeInv
  <1>2. Begun(w, m)
    BY <1>1 DEF Begun, ev_fdset_init
  <1>3. m \in Given /\ wg[m] = 1
    BY <1>2 DEF PoolInv
  <1>4. main.pc = "wait"
    BY <1>3 DEF UpInv
  <1>5. (\A i \in Users : us[i].pc = "idle") /\ head[m] = <<>>
    BY <1>4 DEF ListInv
  <1>6. cur[m] = <<>>
    <2>1. cur[m] \in Seq(Users)
      BY DEF TypeInv
    <2>2. <<"cur", m>> \in Lists /\ List(<<"cur", m>>) = cur[m]
      BY DEF Lists, List
    <2>3. \A i \in Users : i \notin Elems(cur[m])
      BY <1>5, <2>2 DEF TasksLive
    <2>4. \A k \in DOMAIN cur[m] : cur[m][k] \in Users /\ cur[m][k] \in Elems(cur[m])
      BY <2>1 DEF Elems
    <2>5. QED BY <2>1, <2>3, <2>4
  <1>7. QED BY <1>1, <1>5, <1>6

LEMMA ListsNext ==
  /\ \A l \in Loops : <<"head", l>> \in Lists /\ <<"cur", l>> \in Lists
  /\ \A l \in Loops : List(<<"head", l>>) = head[l] /\ List(<<"cur", l>>) = cur[l]
  /\ \A p \in Lists : List(p)' = IF p[1] = "head" THEN head'[p[2]] ELSE cur'[p[2]]
  /\ \A p \in Lists : \E l \in Loops : p = <<"head", l>> \/ p = <<"cur", l>>
  BY DEF Lists, List

LEMMA LiveKeep ==
  ASSUME TasksLive, UNCHANGED <<head, cur>>,
         \A i \in Users : us'[i].pc = "wait" <=> us[i].pc = "wait"
  PROVE  TasksLive'
  <1>1. \A p \in Lists : List(p)' = List(p)
    BY ListsNext DEF List
  <1>2. \A p \in Lists : Elems(List(p))' = Elems(List(p)) /\ (IsInjective(List(p))' <=> IsInjective(List(p)))
    BY <1>1 DEF Elems, IsInjective
  <1>3. QED BY <1>2 DEF TasksLive

LEMMA LivePost ==
  ASSUME TypeInv, TasksLive, NEW i \in Users, NEW op, NEW f, NEW l \in Loops, Post(i, op, f, l)
  PROVE  TasksLive'
  <1>1. PICK p \in Lists : p = <<"head", l>> /\ List(p) = head[l]
    BY ListsNext
  <1>2. /\ us[i].pc = "idle" /\ us'[i].pc = "wait" /\ \A j \in Users : j # i => us'[j] = us[j]
    BY DEF Post, TypeInv, Calls
  <1>3. /\ head' = [head EXCEPT ![l] = Append(@, i)] /\ cur' = cur /\ head \in [Loops -> Seq(Users)]
    BY DEF Post, TypeInv
  <1>4. List(p)' = Append(List(p), i) /\ \A q \in Lists : q # p => List(q)' = List(q)
    <2>1. List(p)' = head'[l] /\ head'[l] = Append(head[l], i)
      BY <1>1, <1>3, ListsNext
    <2>2. ASSUME NEW q \in Lists, q # p PROVE List(q)' = List(q)
      <3>1. PICK k \in Loops : q = <<"head", k>> \/ q = <<"cur", k>>
        BY ListsNext
      <3>2. CASE q = <<"head", k>>
        <4>1. k # l
          BY <1>1, <2>2, <3>2
        <4>2. List(q)' = head'[k] /\ List(q) = head[k]
          BY <3>2, ListsNext
        <4>3. QED BY <1>3, <4>1, <4>2
      <3>3. CASE q = <<"cur", k>>
        <4>1. List(q)' = cur'[k] /\ List(q) = cur[k]
          BY <3>3, ListsNext
        <4>2. QED BY <1>3, <4>1
      <3>4. QED BY <3>1, <3>2, <3>3
    <2>3. QED BY <1>1, <2>1, <2>2
  <1>5. \A q \in Lists : i \notin Elems(List(q))
    BY <1>2 DEF TasksLive
  <1>6. /\ Elems(List(p))' = Elems(List(p)) \cup {i} /\ IsInjective(List(p))'
        /\ \A q \in Lists : q # p => Elems(List(q))' = Elems(List(q)) /\ IsInjective(List(q))'
    <2>1. List(p) \in Seq(Users)
      BY <1>1 DEF TypeInv
    <2>2. PICK x : x = List(p)'
      OBVIOUS
    <2>3. Elems(x) = Elems(List(p)) \cup {i} /\ IsInjective(x)
      BY <1>4, <1>5, <2>1, <2>2, Appended DEF TasksLive
    <2>4. Elems(List(p))' = Elems(List(p)) \cup {i} /\ IsInjective(List(p))'
      BY <2>2, <2>3 DEF Elems, IsInjective
    <2>5. ASSUME NEW q \in Lists, q # p PROVE Elems(List(q))' = Elems(List(q)) /\ IsInjective(List(q))'
      <3>1. List(q)' = List(q) /\ IsInjective(List(q))
        BY <1>4, <2>5 DEF TasksLive
      <3>2. QED BY <3>1 DEF Elems, IsInjective
    <2>6. QED BY <2>4, <2>5
  <1>7. ASSUME NEW j \in Users PROVE us'[j].pc = "wait" <=> \E q \in Lists : j \in Elems(List(q))'
    BY <1>2, <1>6 DEF TasksLive
  <1>8. ASSUME NEW q \in Lists, NEW r \in Lists, q # r PROVE Elems(List(q))' \cap Elems(List(r))' = {}
    <2>1. Elems(List(q)) \cap Elems(List(r)) = {}
      BY <1>8 DEF TasksLive
    <2>2. QED BY <1>5, <1>6, <1>8, <2>1
  <1>9. \A q \in Lists : IsInjective(List(q))'
    BY <1>6
  <1>10. Lists' = Lists
    BY DEF Lists
  <1>11. QED BY <1>7, <1>8, <1>9, <1>10 DEF TasksLive

LEMMA LiveRun ==
  ASSUME TypeInv, TasksLive, NEW w \in Loops, NEW l \in Loops, RunTask(w, l)
  PROVE  /\ TasksLive'
         /\ \E i \in Users : us[i].pc = "wait" /\ us'[i].pc = "done" /\ \A j \in Users : j # i => us'[j] = us[j]
  <1>1. PICK p \in Lists : p = <<"cur", l>> /\ List(p) = cur[l]
    BY ListsNext
  <1>2. List(p) \in Seq(Users) /\ List(p) # <<>> /\ IsInjective(List(p))
    BY <1>1 DEF RunTask, TypeInv, TasksLive
  <1>3. PICK i \in Users : i = Head(List(p)) /\ i \in Elems(List(p))
    BY <1>2, Tailed
  <1>4. us[i].pc = "wait"
    BY <1>3 DEF TasksLive
  <1>5. us'[i].pc = "done" /\ \A j \in Users : j # i => us'[j] = us[j]
    <2>1. PICK rc \in Outcomes : us' = [us EXCEPT ![i].pc = "done", ![i].rc = rc]
      BY <1>1, <1>3 DEF RunTask, DoneAt
    <2>2. us \in Calls
      BY DEF TypeInv
    <2>3. QED BY <2>1, <2>2 DEF Calls
  <1>6. cur' = [cur EXCEPT ![l] = Tail(@)] /\ head' = head /\ cur \in [Loops -> Seq(Users)]
    BY DEF RunTask, TypeInv
  <1>7. List(p)' = Tail(List(p)) /\ \A q \in Lists : q # p => List(q)' = List(q)
    <2>1. List(p)' = cur'[l] /\ cur'[l] = Tail(cur[l])
      BY <1>1, <1>6, ListsNext
    <2>2. ASSUME NEW q \in Lists, q # p PROVE List(q)' = List(q)
      <3>1. PICK k \in Loops : q = <<"head", k>> \/ q = <<"cur", k>>
        BY ListsNext
      <3>2. CASE q = <<"cur", k>>
        <4>1. k # l
          BY <1>1, <2>2, <3>2
        <4>2. List(q)' = cur'[k] /\ List(q) = cur[k]
          BY <3>2, ListsNext
        <4>3. QED BY <1>6, <4>1, <4>2
      <3>3. CASE q = <<"head", k>>
        <4>1. List(q)' = head'[k] /\ List(q) = head[k]
          BY <3>3, ListsNext
        <4>2. QED BY <1>6, <4>1
      <3>4. QED BY <3>1, <3>2, <3>3
    <2>3. QED BY <1>1, <2>1, <2>2
  <1>8. /\ Elems(List(p))' = Elems(List(p)) \ {i} /\ IsInjective(List(p))'
        /\ \A q \in Lists : q # p => Elems(List(q))' = Elems(List(q)) /\ IsInjective(List(q))'
    <2>1. PICK x : x = List(p)'
      OBVIOUS
    <2>2. Elems(x) = Elems(List(p)) \ {i} /\ IsInjective(x)
      BY <1>2, <1>3, <1>7, <2>1, Tailed
    <2>3. Elems(List(p))' = Elems(List(p)) \ {i} /\ IsInjective(List(p))'
      BY <2>1, <2>2 DEF Elems, IsInjective
    <2>4. ASSUME NEW q \in Lists, q # p PROVE Elems(List(q))' = Elems(List(q)) /\ IsInjective(List(q))'
      <3>1. List(q)' = List(q) /\ IsInjective(List(q))
        BY <1>7, <2>4 DEF TasksLive
      <3>2. QED BY <3>1 DEF Elems, IsInjective
    <2>5. QED BY <2>3, <2>4
  <1>9. \A q \in Lists : q # p => i \notin Elems(List(q))
    BY <1>3 DEF TasksLive
  <1>10. ASSUME NEW j \in Users PROVE us'[j].pc = "wait" <=> \E q \in Lists : j \in Elems(List(q))'
    BY <1>5, <1>8, <1>9 DEF TasksLive
  <1>11. ASSUME NEW q \in Lists, NEW r \in Lists, q # r PROVE Elems(List(q))' \cap Elems(List(r))' = {}
    <2>1. Elems(List(q)) \cap Elems(List(r)) = {}
      BY <1>11 DEF TasksLive
    <2>2. QED BY <1>8, <1>11, <2>1
  <1>12. \A q \in Lists : IsInjective(List(q))'
    BY <1>8
  <1>13. Lists' = Lists
    BY DEF Lists
  <1>14. TasksLive'
    BY <1>10, <1>11, <1>12, <1>13 DEF TasksLive
  <1>15. QED BY <1>4, <1>5, <1>14

\* ev_fdset_poll takes the list of a loop that has nothing in hand.
LEMMA LiveTake ==
  ASSUME TypeInv, ListInv, TasksLive, NEW w \in Loops, NEW l \in Loops, ev_hndl(w, l), ~ stopped[l]
  PROVE  TasksLive'
  <1>1. PICK p \in Lists, q \in Lists : /\ p = <<"head", l>> /\ List(p) = head[l]
                                        /\ q = <<"cur", l>> /\ List(q) = cur[l] /\ p # q
    BY ListsNext
  <1>2. /\ head' = [head EXCEPT ![l] = <<>>] /\ cur' = [cur EXCEPT ![l] = head[l]]
        /\ cur[l] = <<>> /\ head \in [Loops -> Seq(Users)] /\ cur \in [Loops -> Seq(Users)]
    BY DEF ev_hndl, Taken, Runs, ListInv, TypeInv
  <1>3. /\ List(p)' = <<>> /\ List(q)' = List(p) /\ List(q) = <<>>
        /\ \A r \in Lists : r \notin {p, q} => List(r)' = List(r)
    <2>1. List(p)' = head'[l] /\ List(q)' = cur'[l]
      BY <1>1, ListsNext
    <2>2. ASSUME NEW r \in Lists, r \notin {p, q} PROVE List(r)' = List(r)
      <3>1. PICK k \in Loops : r = <<"head", k>> \/ r = <<"cur", k>>
        BY ListsNext
      <3>2. k # l
        BY <1>1, <2>2, <3>1
      <3>3. CASE r = <<"cur", k>>
        <4>1. List(r)' = cur'[k] /\ List(r) = cur[k]
          BY <3>3, ListsNext
        <4>2. QED BY <1>2, <3>2, <4>1
      <3>4. CASE r = <<"head", k>>
        <4>1. List(r)' = head'[k] /\ List(r) = head[k]
          BY <3>4, ListsNext
        <4>2. QED BY <1>2, <3>2, <4>1
      <3>5. QED BY <3>1, <3>3, <3>4
    <2>3. QED BY <1>1, <1>2, <2>1, <2>2
  <1>4. /\ Elems(List(p))' = {} /\ Elems(List(q)) = {} /\ Elems(List(q))' = Elems(List(p))
        /\ \A r \in Lists : r \notin {p, q} => Elems(List(r))' = Elems(List(r))
    BY <1>3, NoElems DEF Elems
  <1>5. \A r \in Lists : IsInjective(List(r))'
    <2>1. \A r \in Lists : IsInjective(List(r))
      BY DEF TasksLive
    <2>2. IsInjective(List(p))'
      BY <1>3 DEF IsInjective
    <2>3. IsInjective(List(q))'
      BY <1>3, <2>1 DEF IsInjective
    <2>4. ASSUME NEW r \in Lists, r \notin {p, q} PROVE IsInjective(List(r))'
      BY <1>3, <2>1, <2>4 DEF IsInjective
    <2>5. QED BY <2>2, <2>3, <2>4
  <1>6. ASSUME NEW j \in Users PROVE us'[j].pc = "wait" <=> \E r \in Lists : j \in Elems(List(r))'
    <2>1. us' = us
      BY DEF ev_hndl, userVars
    <2>2. (\E r \in Lists : j \in Elems(List(r))') <=> \E r \in Lists : j \in Elems(List(r))
      BY <1>4
    <2>3. QED BY <2>1, <2>2 DEF TasksLive
  <1>7. ASSUME NEW r \in Lists, NEW t \in Lists, r # t PROVE Elems(List(r))' \cap Elems(List(t))' = {}
    <2>1. \A x, y \in Lists : x # y => Elems(List(x)) \cap Elems(List(y)) = {}
      BY DEF TasksLive
    <2>2. CASE r = p \/ t = p
      BY <1>4, <2>2
    <2>3. CASE r = q /\ t \notin {p, q}
      BY <1>1, <1>4, <2>1, <2>3
    <2>4. CASE t = q /\ r \notin {p, q}
      BY <1>1, <1>4, <2>1, <2>4
    <2>5. CASE r \notin {p, q} /\ t \notin {p, q}
      BY <1>4, <1>7, <2>1, <2>5
    <2>6. QED BY <1>7, <2>2, <2>3, <2>4, <2>5
  <1>8. Lists' = Lists
    BY DEF Lists
  <1>9. QED BY <1>5, <1>6, <1>7, <1>8 DEF TasksLive

LEMMA ListKeep ==
  ASSUME TypeInv, TypeInv', ListInv, UNCHANGED <<head, cur>>,
         main'.pc \in {"start", "run", "wait"} => main.pc \in {"start", "run", "wait"},
         \A i \in Users : us[i].pc = "idle" => us'[i].pc = "idle",
         \A l \in Loops : lp'[l].pc # "tasks" => lp[l].pc # "tasks" \/ cur[l] = <<>>
  PROVE  ListInv'
  BY DEF ListInv

\* The steps of a thread that changes neither what is posted nor what is in hand.
LEMMA ListInner ==
  ASSUME TypeInv, TypeInv', ListInv, TasksLive, NEW w \in Loops, NEW l \in Loops, Inner(w, l)
  PROVE  ListInv' /\ TasksLive'
  <1>1. /\ UNCHANGED <<main, head>>
        /\ \A k \in Loops : k # l => lp'[k] = lp[k]
        /\ lp'[l].pc \notin {"none", "tasks"} \/ lp' = lp
    BY InnerLp DEF Inner, RunTask, eventpoll_wait, Dispatch, AcceptReads, AcceptWrites, ev_pop_gtask, poolVars
  <1>2. CASE RunTask(w, l)
    <2>1. PICK i \in Users : us[i].pc = "wait" /\ us'[i].pc = "done" /\ \A j \in Users : j # i => us'[j] = us[j]
      BY <1>2, LiveRun
    <2>2. lp[l].pc = "tasks" /\ lp' = lp /\ \A k \in Loops : k # l => cur'[k] = cur[k]
      BY <1>2 DEF RunTask, Runs, TypeInv
    <2>3. main.pc \notin {"start", "run", "wait"}
      BY <2>1 DEF ListInv
    <2>4. ListInv'
      BY <1>1, <2>2, <2>3 DEF ListInv
    <2>5. QED BY <1>2, <2>4, LiveRun
  <1>3. CASE ~ RunTask(w, l)
    <2>1. UNCHANGED <<cur, us>>
      BY <1>3 DEF Inner, eventpoll_wait, Dispatch, AcceptReads, AcceptWrites, ev_pop_gtask, userVars
    <2>2. cur[l] = <<>>
      BY <1>3 DEF Inner, eventpoll_wait, Dispatch, AcceptReads, AcceptWrites, ev_pop_gtask, Runs, ListInv
    <2>3. QED BY <1>1, <2>1, <2>2, ListKeep, LiveKeep
  <1>4. QED BY <1>2, <1>3

LEMMA ListOuter ==
  ASSUME TypeInv, TypeInv', PoolInv, UpInv, ListInv, TasksLive, NEW w \in Loops, Outer(w)
  PROVE  ListInv' /\ TasksLive'
  <1>0. UNCHANGED <<main, us>>
    BY DEF Outer, Runner, taskpool_pop, ev_fdset_init, ev_hndl, userVars
  <1>1. CASE Runner(w) \/ taskpool_pop(w)
    <2>1. UNCHANGED <<lp, head, cur>>
      BY <1>1 DEF Runner, taskpool_pop, loopVars
    <2>2. QED BY <1>0, <2>1, ListKeep, LiveKeep
  <1>2. CASE ev_fdset_init(w)
    <2>1. PICK m \in Loops : m = wk[w].l /\ head[m] = <<>> /\ cur[m] = <<>>
      BY <1>2, BeginsEarly
    <2>2. head' = head /\ cur' = cur
      BY <1>2, <2>1 DEF ev_fdset_init, TypeInv
    <2>3. \A l \in Loops : l # m => lp'[l] = lp[l]
      BY <1>2, <2>1, LpTos, "top" \in LpPcs DEF ev_fdset_init, LpPcs
    <2>4. QED BY <1>0, <2>1, <2>2, <2>3, ListKeep, LiveKeep
  <1>3. ASSUME NEW l \in Loops, ev_hndl(w, l) PROVE ListInv' /\ TasksLive'
    <2>1. CASE stopped[l]
      <3>1. UNCHANGED <<lp, head, cur>>
        BY <1>3, <2>1 DEF ev_hndl
      <3>2. QED BY <1>0, <3>1, ListKeep, LiveKeep
    <2>2. CASE ~ stopped[l]
      <3>1. LpTo(l, "tasks")
        BY <1>3, <2>2 DEF ev_hndl
      <3>2. lp'[l].pc = "tasks" /\ \A k \in Loops : k # l => lp'[k] = lp[k]
        BY <3>1, LpTos, "tasks" \in LpPcs DEF LpPcs
      <3>3. /\ head' = [head EXCEPT ![l] = <<>>] /\ \A k \in Loops : k # l => cur'[k] = cur[k]
        BY <1>3, <2>2 DEF ev_hndl, TypeInv
      <3>4. \A k \in Loops : head[k] = <<>> => head'[k] = <<>>
        BY <3>3 DEF TypeInv
      <3>5. \A k \in Loops : lp'[k].pc # "tasks" => cur'[k] = <<>>
        BY <3>2, <3>3 DEF ListInv
      <3>6. QED BY <1>0, <1>3, <2>2, <3>4, <3>5, LiveTake DEF ListInv
    <2>3. QED BY <2>1, <2>2
  <1>4. QED BY <1>1, <1>2, <1>3 DEF Outer

LEMMA ListUser ==
  ASSUME TypeInv, TypeInv', ListInv, TasksLive, NEW i \in Users, ev_fdset_ctl(i) \/ Return(i)
  PROVE  ListInv' /\ TasksLive'
  <1>1. CASE ev_fdset_ctl(i)
    <2>1. PICK op \in {"add", "del", "mod"}, f \in AllFds, l \in Loops : Post(i, op, f, l)
      BY <1>1, Posts
    <2>2. main'.pc \notin {"start", "run", "wait"} /\ UNCHANGED <<lp, cur>>
      BY <1>1, Posts DEF Usable, poolVars
    <2>3. QED BY <2>1, <2>2, LivePost DEF ListInv
  <1>2. CASE Return(i)
    <2>1. us[i].pc = "done" /\ us'[i].pc = "idle" /\ \A j \in Users : j # i => us'[j] = us[j]
      BY <1>2 DEF Return, Idle, TypeInv, Calls
    <2>2. UNCHANGED <<main, lp, head, cur>>
      BY <1>2 DEF Return, poolVars, loopVars
    <2>3. QED BY <2>1, <2>2, ListKeep, LiveKeep
  <1>3. QED BY <1>1, <1>2

LEMMA ListStep ==
  ASSUME TypeInv, TypeInv', PoolInv, UpInv, ListInv, TasksLive, [Next]_vars
  PROVE  ListInv' /\ TasksLive'
  <1>1. CASE Starts
    <2>1. UNCHANGED <<us, lp, head, cur>>
      BY <1>1 DEF Starts, taskpool_start, taskpool_run, waitgroup_wait, __ev_exit, StopFlag, taskpool_stop, Joined,
                  loopVars, userVars
    <2>2. main'.pc \in {"start", "run", "wait"} => main.pc \in {"start", "run", "wait"}
      BY <1>1 DEF Starts, taskpool_start, taskpool_run, waitgroup_wait, __ev_exit, StopFlag, taskpool_stop, Joined,
                  MainAt, MainTo, TypeInv, Mains
    <2>3. QED BY <2>1, <2>2, ListKeep, LiveKeep
  <1>2. CASE ev_add_gtask \/ Readable \/ UNCHANGED vars
    <2>1. UNCHANGED <<main, us, lp, head, cur>>
      BY <1>2 DEF ev_add_gtask, Readable, vars, poolVars, loopVars, userVars
    <2>2. QED BY <2>1, ListKeep, LiveKeep
  <1>3. QED BY <1>1, <1>2, ListInner, ListOuter, ListUser
     DEF Next, __ev_init, Exits, Works, Starts, Outer, Inner

----------------------------------------------------------------------------
(* The theorems.                                                            *)

LEMMA InitSound == Init => IInv
  <1> SUFFICES ASSUME Init PROVE IInv
    OBVIOUS
  <1>0. 1 \in Loops
    BY LoopAssumption DEF Loops
  <1>1. TypeInv
    <2>1. \A l \in Loops : Shape(lp[l])
      BY <1>0 DEF Init, Shape, LpPcs, New
    <2>2. us \in Calls
      BY <1>0 DEF Init, Calls, Idle
    <2>3. main \in Mains /\ wk \in Workers /\ \A w \in Loops : wk[w].pc = "none"
      BY DEF Init, Mains, MainPcs, Workers, WkPcs
    <2>4. head \in [Loops -> Seq(Users)] /\ cur \in [Loops -> Seq(Users)] /\ tasks \in Seq(Loops)
      BY DEF Init
    <2>5. lp = [l \in Loops |-> lp[l]]
      BY DEF Init
    <2>6. QED BY <2>1, <2>2, <2>3, <2>4, <2>5 DEF Init, TypeInv
  <1>2. Given = {}
    BY DEF Init, Given
  <1>3. PoolInv
    <2>1. tasks = <<>> /\ \A w, l \in Loops : ~ Begun(w, l)
      BY DEF Init, Begun
    <2>2. QED BY <2>1, NoElems DEF PoolInv
  <1>4. UpInv /\ ListInv
    BY <1>2 DEF Init, UpInv, ListInv, Idle
  <1>5. TasksLive
    <2>1. \A p \in Lists : List(p) = <<>>
      BY DEF Init, Lists, List
    <2>2. QED BY <2>1, NoElems DEF TasksLive, Init, Idle
  <1>6. QED BY <1>1, <1>3, <1>4, <1>5 DEF IInv

LEMMA NextSound == IInv /\ [Next]_vars => IInv'
  BY TypesStep, PoolStep, UpStep, ListStep DEF IInv

\* The inductive invariant of the event loops (ev.c:261-391, taskpool.c).
THEOREM LoopSound == Spec => []IInv
  BY InitSound, NextSound, PTL DEF Spec

\* When __ev_init returns every loop is ready for tasks and has its thread, and
\* the pool's memory is given back when no thread uses it (ev.c:369-391).
THEOREM LoopsStarted == Spec => []LoopsUp
  <1>1. IInv => LoopsUp
    <2> SUFFICES ASSUME IInv PROVE LoopsUp
      OBVIOUS
    <2>1. ASSUME main.pc = "up", NEW l \in Loops
          PROVE  lp[l].pc # "none" /\ \E w \in Loops : wk[w] = [pc |-> "loop", l |-> l]
      <3>1. l \in Given
        BY <2>1, GivenIs DEF IInv
      <3>2. Up(l)
        BY <2>1, <3>1 DEF IInv, UpInv
      <3>3. PICK w \in Loops : wk[w].pc = "loop" /\ wk[w].l = l
        BY <3>2 DEF Up
      <3>4. wk[w] = [pc |-> "loop", l |-> l]
        BY <3>3 DEF IInv, TypeInv, Workers
      <3>5. QED BY <3>2, <3>4 DEF Up
    <2>2. QED BY <2>1 DEF LoopsUp, IInv, UpInv
  <1>2. QED BY <1>1, LoopSound, PTL

\* The thread that posted a task waits while a loop has it, and whoever waits is
\* in one list once (ev.c:182-197, 276-284).
THEOREM TasksOnStacks == Spec => []TasksLive
  <1>1. IInv => TasksLive
    BY DEF IInv
  <1>2. QED BY <1>1, LoopSound, PTL
=============================================================================
