-------------------------------- MODULE Loop --------------------------------
(***************************************************************************)
(* The event loops of the library (src/ev) and the pool of threads that    *)
(* runs them (src/utils/taskpool.c): start, registration of descriptors by *)
(* tasks that are posted to a loop and waited for, readiness, and stop.    *)
(*                                                                         *)
(* A task of ev_fdset_ctl lives on the stack of the thread that posted it, *)
(* so it is named by its user.  The handler of a listening descriptor      *)
(* registers the accepted one without a task, with the loop of the lowest  *)
(* load, which may be another one than its own.  What the other handlers   *)
(* do is in SioConn; here they take what there is to read.                 *)
(***************************************************************************)
EXTENDS Integers, Sequences, FiniteSets, Functions

CONSTANTS
  NLoops,      \* ev_processors: the number of loops, and of pool threads
  Users,       \* threads that call ev_fdset_ctl
  Fds,         \* descriptors that users register
  Listening,   \* those of Fds that listen
  Accepted,    \* descriptors that come of accepting
  Gtasks,      \* tasks for any loop
  MaxEvents,   \* EV_MAXEVENTS: descriptors in one batch
  MaxOps,      \* bound of this model on calls and arrivals
  Backends,    \* "epoll", "poll" and "select"
  None

Loops == 1 .. NLoops

\* An accepted connection has two descriptors in its loop: the second is of the
\* pipe that its signals come through.
Sig(n) == <<n, "sig">>
Signals == {Sig(n) : n \in Accepted}
AllFds == Fds \cup Accepted \cup Signals

ASSUME LoopAssumption ==
  /\ NLoops \in Nat \ {0} /\ MaxEvents \in Nat \ {0} /\ MaxOps \in Nat
  /\ Listening \subseteq Fds /\ Fds \cap Accepted = {} /\ None \notin AllFds
  /\ Signals \cap (Fds \cup Accepted) = {}
  /\ Backends \subseteq {"epoll", "poll", "select"}

VARIABLES
  backend,    \* what eventpoll.c was built with
  main,       \* __ev_init and __ev_exit: [pc, l]
  stopping, tasks, \* of the pool; a task is a loop to run
  wk,         \* the pool's threads: [pc, l]
  wg,         \* the wait group of each loop
  stopped,    \* el->stopped
  lp,         \* the thread in ev_hndl: [pc, todo, new]
  head, cur,  \* evfds->task_head, and the list ev_fdset_poll has taken
  fds, size,  \* eventpoll.fds and fd_size
  want,       \* fdd.events has EV_READ
  ready,      \* descriptors with something to read
  us,         \* users: [pc, op, fd, l, rc]
  where,      \* the loop of each descriptor its owner has registered, or None
  gq, gran,   \* ev_tasks, and those of them that have run
  made        \* calls and arrivals, up to MaxOps

poolVars == <<backend, main, stopping, tasks, wk, wg>>
fdVars == <<fds, size, want>>
userVars == <<us, where, gq, gran>>
loopVars == <<stopped, lp, head, cur>>
vars == <<poolVars, loopVars, fdVars, ready, userVars, made>>

----------------------------------------------------------------------------
(* Faults, used by nothing below: a task is done before it is run; the     *)
(* batch of tasks is taken but for the last; a loop is reported up before  *)
(* it is; the stop of the library forgets a loop.                          *)

DoneAt_start == "taken"
Taken_most(q) == SubSeq(q, 1, Len(q) - 1)
Initial_none == 0
Flagged_most == NLoops - 1

----------------------------------------------------------------------------
(* Start and stop.                                                         *)

MainAt(pc) == main.pc = pc
MainTo(pc) == main' = [main EXCEPT !.pc = pc]

\* taskpool_start: the pool's threads begin.
taskpool_start ==
  /\ MainAt("start") /\ stopping /\ MainTo("run")
  /\ stopping' = FALSE /\ wk' = [w \in Loops |-> [pc |-> "top", l |-> 0]]
  /\ UNCHANGED <<backend, tasks, wg, loopVars, fdVars, ready, userVars, made>>

\* What waitgroup_add makes of the wait group of a loop.
Initial == 1

\* waitgroup_add, and taskpool_run with the wakeup of the threads that sleep.
taskpool_run ==
  /\ MainAt("run") /\ MainTo("wait")
  /\ wg' = [wg EXCEPT ![main.l] = Initial]
  /\ tasks' = Append(tasks, main.l)
  /\ wk' = [w \in Loops |-> IF wk[w].pc = "sleep" THEN [wk[w] EXCEPT !.pc = "top"] ELSE wk[w]]
  /\ UNCHANGED <<backend, stopping, loopVars, fdVars, ready, userVars, made>>

\* waitgroup_wait, then the next loop.
waitgroup_wait ==
  /\ MainAt("wait") /\ wg[main.l] = 0
  /\ main' = IF main.l < NLoops THEN [pc |-> "run", l |-> main.l + 1] ELSE [pc |-> "up", l |-> 0]
  /\ UNCHANGED <<backend, stopping, tasks, wk, wg, loopVars, fdVars, ready, userVars, made>>

\* The library is told to end.
__ev_exit ==
  /\ MainAt("up") /\ main' = [pc |-> "exit", l |-> 1]
  /\ UNCHANGED <<backend, stopping, tasks, wk, wg, loopVars, fdVars, ready, userVars, made>>

\* The last loop that __ev_exit sets the flag of.
Flagged == NLoops

\* The flag of the next loop, which that loop reads without a lock.
StopFlag ==
  /\ MainAt("exit") /\ stopped' = [stopped EXCEPT ![main.l] = TRUE]
  /\ main' = IF main.l < Flagged THEN [main EXCEPT !.l = @ + 1] ELSE [main EXCEPT !.pc = "stop"]
  /\ UNCHANGED <<backend, stopping, tasks, wk, wg, lp, head, cur, fdVars, ready, userVars, made>>

taskpool_stop ==
  /\ MainAt("stop") /\ MainTo("join") /\ stopping' = TRUE
  /\ wk' = [w \in Loops |-> IF wk[w].pc = "sleep" THEN [wk[w] EXCEPT !.pc = "top"] ELSE wk[w]]
  /\ UNCHANGED <<backend, tasks, wg, loopVars, fdVars, ready, userVars, made>>

\* thread_stop of every thread, then taskpool_destroy.
Joined ==
  /\ MainAt("join") /\ \A w \in Loops : wk[w].pc = "out"
  /\ MainTo("done")
  /\ UNCHANGED <<backend, stopping, tasks, wk, wg, loopVars, fdVars, ready, userVars, made>>

WkTo(w, pc, l) == wk' = [wk EXCEPT ![w] = [pc |-> pc, l |-> l]]

\* __taskpool_runner: the test without the lock.
Runner(w) ==
  /\ wk[w].pc = "top" /\ WkTo(w, IF stopping THEN "out" ELSE "pop", 0)
  /\ UNCHANGED <<backend, main, stopping, tasks, wg, loopVars, fdVars, ready, userVars, made>>

\* taskpool_pop: a task, or one wait and out with nothing.
taskpool_pop(w) ==
  /\ wk[w].pc = "pop"
  /\ \/ stopping /\ WkTo(w, "top", 0) /\ UNCHANGED tasks
     \/ ~stopping /\ tasks = <<>> /\ WkTo(w, "sleep", 0) /\ UNCHANGED tasks
     \/ ~stopping /\ tasks # <<>> /\ WkTo(w, "init", Head(tasks)) /\ tasks' = Tail(tasks)
  /\ UNCHANGED <<backend, main, stopping, wg, loopVars, fdVars, ready, userVars, made>>

----------------------------------------------------------------------------
(* A loop, in the thread w of the pool.                                    *)

LpTo(l, pc) == lp' = [lp EXCEPT ![l].pc = pc]
Runs(w, l, pc) == wk[w].pc = "loop" /\ wk[w].l = l /\ lp[l].pc = pc

\* ev_hndl: ev_fdset_init, waitgroup_done.
ev_fdset_init(w) ==
  LET l == wk[w].l
  IN  /\ wk[w].pc = "init" /\ WkTo(w, "loop", l)
      /\ wg' = [wg EXCEPT ![l] = @ - 1] /\ LpTo(l, "top")
      /\ fds' = [fds EXCEPT ![l] = <<>>] /\ size' = [size EXCEPT ![l] = 0]
      /\ head' = [head EXCEPT ![l] = <<>>]
      /\ UNCHANGED <<backend, main, stopping, tasks, stopped, cur, want, ready, userVars, made>>

\* The tasks that ev_fdset_poll takes.
Taken(q) == q

\* while (!el->stopped): ev_fdset_poll takes the tasks, or the thread goes back.
ev_hndl(w, l) ==
  /\ Runs(w, l, "top")
  /\ IF stopped[l]
     THEN WkTo(w, "top", 0) /\ UNCHANGED <<lp, head, cur>>
     ELSE /\ LpTo(l, "tasks") /\ cur' = [cur EXCEPT ![l] = Taken(head[l])]
          /\ head' = [head EXCEPT ![l] = <<>>] /\ UNCHANGED wk
  /\ UNCHANGED <<backend, main, stopping, tasks, wg, stopped, fdVars, ready, userVars, made>>

Elems(q) == {q[k] : k \in DOMAIN q}
Among(q, S) == SelectSeq(q, LAMBDA g : g \in S)
Without(q, f) == Among(q, Elems(q) \ {f})

\* ev_fdset_add, ev_fdset_rm and ev_fdset_mod with the back end; epoll_ctl may
\* fail, and then nothing changes.
Ctl(l, op, f, rc) ==
  IF rc # 0 THEN UNCHANGED fdVars
  ELSE CASE op = "add" -> /\ fds' = [fds EXCEPT ![l] = Append(@, f)]
                          /\ size' = [size EXCEPT ![l] = @ + 1] /\ UNCHANGED want
         [] op = "del" -> /\ fds' = [fds EXCEPT ![l] = Without(@, f)]
                          /\ size' = [size EXCEPT ![l] = @ - 1] /\ UNCHANGED want
         [] op = "mod" -> want' = [want EXCEPT ![f] = ~@] /\ UNCHANGED <<fds, size>>

Outcomes == IF backend = "epoll" THEN {0, -1} ELSE {0}

\* When its user is told that a task is done.
DoneAt == "run"

\* The next of the tasks: its hndl, and waitgroup_done.
RunTask(w, l) ==
  /\ Runs(w, l, "tasks") /\ cur[l] # <<>>
  /\ LET i == Head(cur[l])
     IN  /\ \E rc \in Outcomes :
              /\ Ctl(l, us[i].op, us[i].fd, rc)
              /\ us' = [us EXCEPT ![i].pc = IF DoneAt = "run" THEN "done" ELSE @, ![i].rc = rc]
         /\ cur' = [cur EXCEPT ![l] = Tail(@)]
  /\ UNCHANGED <<poolVars, stopped, lp, head, ready, where, gq, gran, made>>

\* The first descriptors of the list are those that poll and select look at; they
\* go back to the front, the last of them first.
Batch(l) == IF Len(fds[l]) < MaxEvents THEN Len(fds[l]) ELSE MaxEvents
Looked(l) == SubSeq(fds[l], 1, Batch(l))
Rest(l) == SubSeq(fds[l], Batch(l) + 1, Len(fds[l]))
Backwards(q) == [k \in DOMAIN q |-> q[Len(q) + 1 - k]]

\* Every order in which n of the descriptors of S can be reported.
Orders(S, n) == {q \in [1 .. n -> S] : Cardinality(Elems(q)) = n}

\* eventpoll_wait: up to MaxEvents descriptors that have something to read.
eventpoll_wait(w, l) ==
  LET mine == {f \in Elems(fds[l]) : f \in ready /\ want[f]}
  IN  /\ Runs(w, l, "tasks") /\ cur[l] = <<>>
      /\ \/ /\ backend = "epoll" /\ UNCHANGED fds
            /\ \E n \in 0 .. MaxEvents :
                 /\ n <= Cardinality(mine) /\ (n = 0 => mine = {})
                 /\ \E q \in Orders(mine, n) : lp' = [lp EXCEPT ![l].pc = "hndl", ![l].todo = q]
         \/ /\ backend \in {"poll", "select"}
            /\ fds' = [fds EXCEPT ![l] = Backwards(Looked(l)) \o Rest(l)]
            /\ lp' = [lp EXCEPT ![l].pc = "hndl",
                                ![l].todo = Among(Looked(l), mine)]
      /\ UNCHANGED <<poolVars, stopped, head, cur, size, want, ready, userVars, made>>

\* ev_get_loop_lla: the first of the loops with the lowest fd_size.
Lla == CHOOSE l \in Loops :
         \A k \in Loops : size[k] > size[l] \/ (size[k] = size[l] /\ k >= l)

\* What the handler of a listening descriptor registers, and with which loop.
New(f, l) == [fd |-> f, l |-> l, fds |-> <<>>, size |-> 0]

\* The handler of the next descriptor of the batch.
Dispatch(w, l) ==
  /\ Runs(w, l, "hndl") /\ lp[l].todo # <<>>
  /\ LET f == Head(lp[l].todo)
         free == {n \in Accepted : \A d \in {n, Sig(n)} :
                    where[d] = None /\ \A k \in Loops : lp[k].new.fd # d}
     IN  /\ ready' = ready \ {f}
         /\ \/ /\ f \notin Listening \cap ready \/ free = {}
               /\ lp' = [lp EXCEPT ![l].todo = Tail(@)]
            \/ /\ f \in Listening \cap ready
               /\ \E n \in free : lp' = [lp EXCEPT ![l] =
                    [pc |-> "accept", todo |-> Tail(@.todo), new |-> New(n, Lla)]]
  /\ UNCHANGED <<poolVars, stopped, head, cur, fdVars, userVars, made>>

\* __ev_fdset_ctl of the accepted descriptor, then of its signal: the list and the
\* count of their loop are read, and written, by this thread.
AcceptReads(w, l) ==
  LET k == lp[l].new.l
  IN  /\ Runs(w, l, "accept")
      /\ lp' = [lp EXCEPT ![l].pc = "accepted", ![l].new = [@ EXCEPT !.fds = fds[k], !.size = size[k]]]
      /\ UNCHANGED <<poolVars, stopped, head, cur, fdVars, ready, userVars, made>>
AcceptWrites(w, l) ==
  LET new == lp[l].new
  IN  /\ Runs(w, l, "accepted")
      /\ lp' = [lp EXCEPT ![l] = IF new.fd \in Accepted
                                 THEN [pc |-> "accept", todo |-> @.todo, new |-> New(Sig(new.fd), new.l)]
                                 ELSE [pc |-> "hndl", todo |-> @.todo, new |-> New(None, 1)]]
      /\ fds' = [fds EXCEPT ![new.l] = Append(new.fds, new.fd)]
      /\ size' = [size EXCEPT ![new.l] = new.size + 1]
      /\ where' = [where EXCEPT ![new.fd] = new.l]
      /\ UNCHANGED <<poolVars, stopped, head, cur, want, ready, us, gq, gran, made>>

\* The end of ev_fdset_poll, and a task for any loop.
ev_pop_gtask(w, l) ==
  /\ Runs(w, l, "hndl") /\ lp[l].todo = <<>> /\ LpTo(l, "top")
  /\ IF gq = <<>> THEN UNCHANGED <<gq, gran>>
     ELSE gq' = Tail(gq) /\ gran' = gran \cup {Head(gq)}
  /\ UNCHANGED <<poolVars, stopped, head, cur, fdVars, ready, us, where, made>>

----------------------------------------------------------------------------
(* The users.                                                              *)

MayMake == made < MaxOps /\ made' = made + 1

\* ev_fdset_ctl up to its wait: the task goes to the tail of the loop's list.
Post(i, op, f, l) ==
  /\ us[i].pc = "idle" /\ MayMake
  /\ us' = [us EXCEPT ![i] = [pc |-> "wait", op |-> op, fd |-> f, l |-> l, rc |-> 0]]
  /\ head' = [head EXCEPT ![l] = Append(@, i)]
  /\ UNCHANGED <<poolVars, stopped, lp, cur, fdVars, ready, where, gq, gran>>

Busy(f) == \E j \in Users : us[j].pc # "idle" /\ us[j].fd = f
Usable == main.pc \in {"up", "exit", "stop", "join", "done"}

\* An owner adds a descriptor it has not added, and removes or modifies one it has;
\* an accepted connection has an owner when its signal is registered too, and a
\* signal is not modified.
ev_fdset_ctl(i) ==
  /\ Usable
  /\ \E f \in AllFds :
       /\ ~Busy(f)
       /\ \/ f \in Fds /\ where[f] = None /\ Post(i, "add", f, Lla)
          \/ \E op \in IF f \in Signals THEN {"del"} ELSE {"del", "mod"} :
               /\ where[f] # None /\ \A k \in Loops : lp[k].new.fd # Sig(f)
               /\ Post(i, op, f, where[f])

\* A user between its calls.
Idle == [pc |-> "idle", op |-> "add", fd |-> None, l |-> 1, rc |-> 0]

\* The wait of ev_fdset_run_task is over.
Return(i) ==
  LET u == us[i]
  IN  /\ u.pc = "done" /\ us' = [us EXCEPT ![i] = Idle]
      /\ where' = IF u.rc # 0 THEN where
                  ELSE [where EXCEPT ![u.fd] = CASE u.op = "add" -> u.l
                                                 [] u.op = "del" -> None
                                                 [] u.op = "mod" -> @]
      /\ UNCHANGED <<poolVars, loopVars, fdVars, ready, gq, gran, made>>

ev_add_gtask ==
  /\ Usable /\ MayMake /\ \E g \in Gtasks \ (gran \cup Elems(gq)) : gq' = Append(gq, g)
  /\ UNCHANGED <<poolVars, loopVars, fdVars, ready, us, where, gran>>

\* Something to read arrives.
Readable ==
  /\ MayMake /\ \E f \in AllFds \ ready : where[f] # None /\ ready' = ready \cup {f}
  /\ UNCHANGED <<poolVars, loopVars, fdVars, userVars>>

----------------------------------------------------------------------------

Init ==
  /\ backend \in Backends
  /\ main = [pc |-> "start", l |-> 1] /\ stopping = TRUE /\ tasks = <<>>
  /\ wk = [w \in Loops |-> [pc |-> "none", l |-> 0]] /\ wg = [l \in Loops |-> 0]
  /\ stopped = [l \in Loops |-> FALSE]
  /\ lp = [l \in Loops |-> [pc |-> "none", todo |-> <<>>, new |-> New(None, 1)]]
  /\ head = [l \in Loops |-> <<>>] /\ cur = head /\ fds = head
  /\ size = [l \in Loops |-> 0] /\ want = [f \in AllFds |-> TRUE] /\ ready = {}
  /\ us = [i \in Users |-> Idle]
  /\ where = [f \in AllFds |-> None] /\ gq = <<>> /\ gran = {} /\ made = 0

__ev_init == taskpool_start \/ taskpool_run \/ waitgroup_wait
Exits == StopFlag \/ taskpool_stop \/ Joined
Works(w) ==
  \/ Runner(w) \/ taskpool_pop(w) \/ ev_fdset_init(w)
  \/ \E l \in Loops :
       \/ ev_hndl(w, l) \/ RunTask(w, l) \/ eventpoll_wait(w, l) \/ Dispatch(w, l)
       \/ AcceptReads(w, l) \/ AcceptWrites(w, l) \/ ev_pop_gtask(w, l)

Next ==
  \/ __ev_init \/ __ev_exit \/ Exits \/ \E w \in Loops : Works(w)
  \/ \E i \in Users : ev_fdset_ctl(i) \/ Return(i)
  \/ ev_add_gtask \/ Readable

\* Every thread of the library runs on; nobody need call it, or stop it.
Fairness ==
  /\ WF_vars(__ev_init) /\ WF_vars(Exits) /\ \A w \in Loops : WF_vars(Works(w))
  /\ \A i \in Users : WF_vars(Return(i))

Spec == Init /\ [][Next]_vars /\ Fairness

----------------------------------------------------------------------------
(* Properties.                                                             *)

\* A task is on the stack of the thread that posted it: while a loop has it in
\* hand, or in its list, that thread waits, and whoever waits is in one list
\* once (ev.c:182-197, 276-284).
Lists == {"head", "cur"} \X Loops
List(p) == IF p[1] = "head" THEN head[p[2]] ELSE cur[p[2]]
TasksLive ==
  /\ \A i \in Users : us[i].pc = "wait" <=> \E p \in Lists : i \in Elems(List(p))
  /\ \A p \in Lists : IsInjective(List(p))
  /\ \A p, q \in Lists : p # q => Elems(List(p)) \cap Elems(List(q)) = {}

\* When __ev_init returns every loop is ready for tasks and has one thread; the
\* pool's memory is given back when no thread uses it (ev.c:369-391).
LoopsUp ==
  /\ main.pc = "up" => \A l \in Loops : /\ lp[l].pc # "none"
                                        /\ \E w \in Loops : wk[w] = [pc |-> "loop", l |-> l]
  /\ main.pc = "done" => \A w \in Loops : wk[w].pc = "out"

\* A call of ev_fdset_ctl returns, unless its loop is told to stop.
CtlReturns == \A i \in Users : us[i].pc = "wait" ~> us[i].pc # "wait" \/ stopped[us[i].l]

\* The end of the library comes to an end.
ExitCompletes == main.pc = "exit" ~> main.pc = "done"

\* The load of a loop is the number of descriptors it has (ev.h:224): fd_size, when
\* nothing is under way, is what the users count.
LoadExact ==
  (\A i \in Users : us[i].pc = "idle") /\ (\A l \in Loops : lp[l].pc \notin {"accept", "accepted"})
    => \A l \in Loops : size[l] = Cardinality({f \in AllFds : where[f] = l})
=============================================================================
