--------------------------------- MODULE Sp ---------------------------------
(***************************************************************************)
(* An endpoint of the scalability protocols (src/sp): threads of the       *)
(* application that add and remove sockets, send, receive and close, and   *)
(* sp_runner, the thread that polls the sockets of all endpoints and moves *)
(* their messages.                                                         *)
(*                                                                         *)
(* Everything the endpoint lists is touched under ep->lock, but a target   *)
(* (struct tgtd) is freed outside it, by the runner, while batches of poll *)
(* results, listeners' handlers and senders keep pointers to targets.      *)
(* What follows the use of freed memory is undefined: the model stops      *)
(* there, with fault set.                                                  *)
(*                                                                         *)
(* A message has no content here; ReqRep follows those of request/reply.   *)
(* The application starts no call on an endpoint that it is closing.       *)
(***************************************************************************)
EXTENDS Integers, Sequences, FiniteSets, FiniteSetsExt

CONSTANTS
  Threads,    \* threads of the application
  Listeners, Connectors,  \* targets, by the type of their sockets
  None,       \* no target
  Kinds,      \* the protocols: "bus", "pub", "sub", "req" and "rep"
  MaxBatch,   \* poll results taken at once, NELEM(pollfds) in the code
  MaxEvents   \* bound of this model on messages sent and received, connections
              \* and breakages

Tgts == Listeners \cup Connectors

ASSUME SpAssumption ==
  /\ Kinds \subseteq {"bus", "pub", "sub", "req", "rep"}
  /\ Listeners \cap Connectors = {} /\ None \notin Tgts
  /\ MaxBatch \in Nat \ {0} /\ MaxEvents \in Nat
  /\ IsFiniteSet(Threads) /\ IsFiniteSet(Tgts)

VARIABLES
  kind,      \* the protocol of the endpoint
  ep,        \* its state, reference count, shutdown bit, being in shutdown_head
  listed,    \* ep->listeners and ep->connectors
  bad,       \* ep->bad_socks
  lbs,       \* the targets the load balancer of a "req" endpoint knows
  mem,       \* the memory of each target: "none", "live" or "freed"
  armed,     \* targets whose pollfd.events has XPOLLOUT
  reg,       \* targets whose socket is open and in the poll
  ls,        \* the number of messages in each target's ls_head
  rcv,       \* the number of messages in ep->rcv
  net,       \* messages, or connections, that wait in each target's socket
  broken,    \* targets whose socket is broken
  made,      \* events of MaxEvents that have happened
  th,        \* the call each thread is in: [pc, t]
  run,       \* the runner: [pc, batch]
  leaked,    \* references that nobody will put
  fault      \* the place where freed memory is used, or "none"

epVars == <<kind, ep, leaked>>
tgVars == <<listed, bad, lbs, mem, armed, reg, ls>>
msgVars == <<rcv, net, broken, made>>
vars == <<epVars, tgVars, msgVars, th, run, fault>>

----------------------------------------------------------------------------
(* Faults, used by nothing below: a plausible bug in the definition each   *)
(* name begins with.  A removed target stays listed; POLLOUT is disabled   *)
(* beside messages to send; the put before the last queues the endpoint; a *)
(* close wakes nobody.                                                     *)

Moved_listed(t) == listed
Disarm_always(t) == TRUE
LastPut_early == ep.ref <= 2
ShutWakes_none == {}

----------------------------------------------------------------------------
(* References and calls.                                                   *)

At(i, pc) == th[i].pc = pc
Is(pc) == [pc |-> pc, t |-> None]
To(i, pc) == th' = [th EXCEPT ![i] = Is(pc)]

\* Somebody has called sp_close, and the application calls no more.
Closing == ep.shut \/ \E i \in Threads : At(i, "close")

Waiters == {i \in Threads : At(i, "wait")}

\* Thread i goes to pc, and the sleepers of ws test again.
Wakes(i, pc, ws) ==
  th' = [j \in Threads |-> IF j = i THEN Is(pc) ELSE IF j \in ws THEN Is("recv") ELSE th[j]]

\* sp_endpoint: eid_alloc, with the reference of the descriptor.
sp_endpoint(i) ==
  /\ ep.st = "none" /\ At(i, "idle")
  /\ ep' = [st |-> "open", ref |-> 1, shut |-> FALSE, queued |-> FALSE]
  /\ kind' \in Kinds
  /\ UNCHANGED <<tgVars, msgVars, th, run, leaked, fault>>

\* eid_get: what every call begins with.
eid_get(i, pc, t) ==
  /\ ep.st = "open" /\ ~Closing /\ At(i, "idle")
  /\ ep' = [ep EXCEPT !.ref = @ + 1]
  /\ th' = [th EXCEPT ![i] = [pc |-> pc, t |-> t]]
  /\ UNCHANGED <<kind, leaked, fault>>

\* atomic_decr returns what the count was.
LastPut == ep.ref = 1

\* eid_put: the last reference queues the endpoint for the runner.
eid_put(i) ==
  /\ \E step \in {<<"put2", "put">>, <<"put", "idle">>} :
       At(i, step[1]) /\ To(i, step[2])
  /\ ep' = [ep EXCEPT !.ref = @ - 1, !.queued = LastPut]
  /\ UNCHANGED <<kind, tgVars, msgVars, run, leaked, fault>>

----------------------------------------------------------------------------
(* Targets.                                                                *)

\* The target's memory is used: where says by whom.
Uses(t, where) == fault' = IF mem[t] = "freed" THEN where ELSE fault

\* vfptr.join with generic_tgtd_init: a new target, armed if it connects, and
\* known to the load balancer.
Join(t) ==
  /\ mem[t] = "none"
  /\ armed' = IF t \in Connectors THEN armed \cup {t} ELSE armed
  /\ lbs' = IF kind = "req" /\ t \in Connectors THEN lbs \cup {t} ELSE lbs

\* epbase_add_tgtd, and vfptr.term of the target that may not be added.
Attach(t) ==
  IF ep.shut
  THEN mem' = [mem EXCEPT ![t] = "freed"] /\ lbs' = lbs \ {t} /\ UNCHANGED <<listed, reg>>
  ELSE listed' = listed \cup {t} /\ reg' = reg \cup {t} /\ UNCHANGED <<mem, lbs>>

\* Connections that no handler has accepted, for which memory is kept but for
\* the targets of ts.
Pending == MapThenSumSet(LAMBDA l : net[l], Listeners)
Spare(ts) == Cardinality({c \in Connectors \ ts : mem[c] = "none"})

sp_add(i) == \E t \in Tgts :
  /\ eid_get(i, "add", t) /\ Join(t) /\ Pending <= Spare({t})
  /\ mem' = [mem EXCEPT ![t] = "live"]
  /\ UNCHANGED <<listed, bad, reg, ls, msgVars, run>>

epbase_add_tgtd(i) ==
  /\ At(i, "add") /\ Attach(th[i].t)
  /\ To(i, "put")
  /\ UNCHANGED <<epVars, bad, armed, ls, msgVars, run, fault>>

\* list_move_tail to bad_socks: what is left in the lists.
Moved(t) == listed \ {t}

sp_rm(i) == \E t \in reg :
  eid_get(i, "rm", t) /\ UNCHANGED <<tgVars, msgVars, run>>

\* A target that is in neither list is left where it is.
sp_generic_term_by_fd(i) ==
  LET t == th[i].t
  IN  /\ At(i, "rm") /\ To(i, "put")
      /\ bad' = IF t \in listed THEN bad \cup {t} ELSE bad
      /\ listed' = Moved(t)
      /\ UNCHANGED <<epVars, lbs, mem, armed, reg, ls, msgVars, run, fault>>

----------------------------------------------------------------------------
(* Messages.                                                               *)

MayMake == made < MaxEvents

\* A clone for each of ts, whose POLLOUT is enabled.
Spread(ts) ==
  /\ ls' = [t \in Tgts |-> IF t \in ts THEN ls[t] + 1 ELSE ls[t]]
  /\ armed' = armed \cup ts

sp_send(i) ==
  /\ MayMake /\ made' = made + 1
  /\ eid_get(i, "send", None)
  /\ UNCHANGED <<tgVars, rcv, net, broken, run>>

\* The test of the shutdown bit, without the lock: a shut endpoint makes
\* sp_send return with its reference.
ShutTest(i) ==
  /\ At(i, "send") /\ To(i, IF ep.shut THEN "idle" ELSE "sendin")
  /\ leaked' = IF ep.shut THEN leaked + 1 ELSE leaked
  /\ UNCHANGED <<kind, ep, tgVars, msgVars, run, fault>>

\* vfptr.send.  A bus and a publisher queue at every connector; a subscriber
\* may not send; request and reply choose a target, which they go on to use
\* without the lock.
bus_ep_send(i) == kind = "bus" /\ Spread(listed \cap Connectors) /\ To(i, "put")
pub_ep_send(i) == kind = "pub" /\ Spread(listed \cap Connectors) /\ To(i, "put")
sub_ep_send(i) == kind = "sub" /\ To(i, "put") /\ UNCHANGED <<ls, armed>>

Chooses(i, ts) ==
  /\ IF ts = {} THEN To(i, "put")
     ELSE \E t \in ts : th' = [th EXCEPT ![i] = [pc |-> "xsend", t |-> t]]
  /\ UNCHANGED <<ls, armed>>
reqep_send(i) == kind = "req" /\ Chooses(i, lbs)
repep_send(i) == kind = "rep" /\ Chooses(i, listed \cap Connectors)

Send(i) ==
  /\ At(i, "sendin")
  /\ \/ bus_ep_send(i) \/ pub_ep_send(i) \/ sub_ep_send(i)
     \/ reqep_send(i) \/ repep_send(i)
  /\ UNCHANGED <<epVars, listed, bad, lbs, mem, reg, msgVars, run, fault>>

\* xsend(go->tg.fd) of a target that may have been freed meanwhile.
XSend(i) ==
  /\ At(i, "xsend") /\ Uses(th[i].t, "send") /\ To(i, "put")
  /\ UNCHANGED <<epVars, tgVars, msgVars, run>>

sp_recv(i) == eid_get(i, "recv", None) /\ UNCHANGED <<tgVars, msgVars, run>>

\* The loop of sp_recv: out with EBADF, out with a message, or to sleep.
Receive(i) ==
  /\ At(i, "recv")
  /\ \/ ep.shut /\ To(i, "put") /\ UNCHANGED rcv
     \/ ~ep.shut /\ rcv > 0 /\ rcv' = rcv - 1 /\ To(i, "put")
     \/ ~ep.shut /\ rcv = 0 /\ To(i, "wait") /\ UNCHANGED rcv
  /\ UNCHANGED <<epVars, tgVars, net, broken, made, run, fault>>

sp_close(i) == eid_get(i, "close", None) /\ UNCHANGED <<tgVars, msgVars, run>>

\* Whom the shutdown of the endpoint wakes.
ShutWakes == Waiters

Shutdown(i) ==
  /\ At(i, "close") /\ ep' = [ep EXCEPT !.shut = TRUE]
  /\ Wakes(i, "put2", ShutWakes)
  /\ UNCHANGED <<kind, leaked, tgVars, msgVars, run, fault>>

----------------------------------------------------------------------------
(* The runner.                                                             *)

Runs(pc) == run.pc = pc
Cur == Head(run.batch)
Goes(pc) == run' = [run EXCEPT !.pc = pc]
\* The event of the current target goes on at pc, with an error if e.
GoesErr(pc, e) ==
  run' = [pc |-> pc, batch |-> IF e THEN [run.batch EXCEPT ![1].ev = @ \cup {"err"}]
                               ELSE run.batch]

\* What xpoll_wait reports of a target.
Happened(t) ==
  (IF net[t] > 0 THEN {"in"} ELSE {})
    \cup (IF t \in armed THEN {"out"} ELSE {})
    \cup (IF t \in broken THEN {"err"} ELSE {})
Ready == {t \in reg : Happened(t) # {}}

\* xpoll_wait: as many of the ready targets as the array takes, or a timeout.
Poll ==
  /\ Runs("poll")
  /\ \/ Ready = {} /\ ep.queued /\ Goes("shutdown")
     \/ \E b \in [1 .. Min({MaxBatch, Cardinality(Ready)}) -> Ready] :
          /\ b # <<>> /\ IsInjective(b)
          /\ run' = [pc |-> "in", batch |-> [k \in DOMAIN b |->
                                               [t |-> b[k], ev |-> Happened(b[k])]]]
  /\ UNCHANGED <<epVars, tgVars, msgVars, th, fault>>

\* The message is queued in ep->rcv, and all who sleep there test again.
Deliver ==
  /\ rcv' = rcv + 1
  /\ th' = [i \in Threads |-> IF i \in Waiters THEN Is("recv") ELSE th[i]]

\* vfptr.add of a message of the current target.  A bus passes it to its other
\* connectors too; a publisher drops it.
bus_ep_add == kind = "bus" /\ Deliver /\ Spread((listed \cap Connectors) \ {Cur.t})
pub_ep_add == kind = "pub" /\ UNCHANGED <<rcv, th, ls, armed>>
sub_ep_add == kind \in {"sub", "req", "rep"} /\ Deliver /\ UNCHANGED <<ls, armed>>
Add == bus_ep_add \/ pub_ep_add \/ sub_ep_add

AfterIn == IF "out" \in Cur.ev THEN "out" ELSE "end"

\* connector_event_hndl, XPOLLIN; event_hndl has looked into the target first.
ConnectorIn ==
  LET t == Cur.t
  IN  /\ Runs("in") /\ t \in Connectors /\ Uses(t, "event")
      /\ IF "in" \in Cur.ev /\ net[t] > 0
         THEN net' = [net EXCEPT ![t] = @ - 1] /\ Add /\ Goes(AfterIn)
         ELSE /\ GoesErr(AfterIn, "in" \in Cur.ev /\ t \in broken)
              /\ UNCHANGED <<net, ls, armed, rcv, th>>
      /\ UNCHANGED <<epVars, listed, bad, lbs, mem, reg, broken, made>>

\* XPOLLOUT is disabled when there is nothing to send.
Disarm(t) == ls[t] = 0

\* vfptr.rm: the next message of t, if any.
Take(t) ==
  /\ armed' = IF Disarm(t) THEN armed \ {t} ELSE armed
  /\ ls' = IF ls[t] > 0 THEN [ls EXCEPT ![t] = @ - 1] ELSE ls
bus_ep_rm(t) == kind = "bus" /\ Take(t)
pub_ep_rm(t) == kind = "pub" /\ Take(t)
sub_ep_rm(t) == kind \in {"sub", "req", "rep"} /\ armed' = armed \ {t} /\ UNCHANGED ls

\* connector_event_hndl, XPOLLOUT: a message that xsend refuses is freed.
ConnectorOut ==
  LET t == Cur.t
  IN  /\ Runs("out")
      /\ bus_ep_rm(t) \/ pub_ep_rm(t) \/ sub_ep_rm(t)
      /\ GoesErr("end", ls[t] > 0 /\ t \in broken)
      /\ UNCHANGED <<epVars, listed, bad, lbs, mem, reg, msgVars, th, fault>>

\* The loop of listener_event_hndl.  A shut endpoint refuses the new target,
\* and the handler then frees the target of the listener.
ListenerIn ==
  LET l == Cur.t
  IN  /\ Runs("in") /\ l \in Listeners
      /\ \/ /\ mem[l] = "freed" \/ "in" \notin Cur.ev \/ net[l] = 0
            /\ Uses(l, "event") /\ GoesErr("end", "in" \in Cur.ev /\ l \in broken)
            /\ UNCHANGED <<net, tgVars>>
         \/ /\ mem[l] = "live" /\ "in" \in Cur.ev /\ net[l] > 0
            /\ net' = [net EXCEPT ![l] = @ - 1]
            /\ \E t \in Connectors :
                 /\ Join(t)
                 /\ IF ep.shut
                    THEN /\ mem' = [mem EXCEPT ![t] = "live", ![l] = "freed"]
                         /\ fault' = "accept" /\ UNCHANGED <<listed, reg>>
                    ELSE /\ mem' = [mem EXCEPT ![t] = "live"]
                         /\ listed' = listed \cup {t} /\ reg' = reg \cup {t}
                         /\ UNCHANGED fault
            /\ UNCHANGED <<bad, ls, run>>
      /\ UNCHANGED <<epVars, rcv, broken, made, th>>

\* Every target of ts is freed and its socket closed: its fields are gone, and
\* nothing waits in the socket.
Terminate(ts) ==
  /\ mem' = [t \in Tgts |-> IF t \in ts THEN "freed" ELSE mem[t]]
  /\ lbs' = lbs \ ts /\ reg' = reg \ ts /\ armed' = armed \ ts /\ broken' = broken \ ts
  /\ net' = [t \in Tgts |-> IF t \in ts THEN 0 ELSE net[t]]
  /\ ls' = [t \in Tgts |-> IF t \in ts THEN 0 ELSE ls[t]]

\* The end of an event: sp_generic_term_by_tgtd, if it is an error, and
\* epbase_close_bad_tgtds; then the next result of the poll.
EventEnds ==
  LET ts == bad \cup (IF "err" \in Cur.ev THEN {Cur.t} ELSE {})
  IN  /\ Runs("end") /\ Terminate(ts) /\ bad' = {} /\ listed' = listed \ ts
      /\ run' = [pc |-> IF Len(run.batch) > 1 THEN "in" ELSE "shutdown",
                 batch |-> Tail(run.batch)]
      /\ UNCHANGED <<epVars, rcv, made, th, fault>>

\* shutdown_epbase: every target goes, then the endpoint.
shutdown_epbase ==
  /\ Runs("shutdown") /\ Goes("poll")
  /\ IF ep.queued
     THEN /\ Terminate(listed \cup bad) /\ listed' = {} /\ bad' = {} /\ rcv' = 0
          /\ ep' = [ep EXCEPT !.st = "freed", !.queued = FALSE]
     ELSE UNCHANGED <<listed, bad, lbs, mem, reg, rcv, ep, armed, ls, net, broken>>
  /\ UNCHANGED <<kind, leaked, made, th, fault>>

----------------------------------------------------------------------------
(* The peers of the sockets: messages and connections arrive, sockets break. *)

Arrive(t) ==
  /\ t \in reg /\ MayMake /\ made' = made + 1
  /\ net' = [net EXCEPT ![t] = @ + 1]
  /\ t \in Listeners => Pending < Spare({})
  /\ UNCHANGED <<epVars, tgVars, rcv, broken, th, run, fault>>

Break(t) ==
  /\ t \in reg \ broken /\ broken' = broken \cup {t}
  /\ MayMake /\ made' = made + 1
  /\ UNCHANGED <<epVars, tgVars, rcv, net, th, run, fault>>

----------------------------------------------------------------------------

Init ==
  /\ kind \in Kinds
  /\ ep = [st |-> "none", ref |-> 0, shut |-> FALSE, queued |-> FALSE]
  /\ listed = {} /\ bad = {} /\ lbs = {} /\ armed = {} /\ reg = {} /\ broken = {}
  /\ mem = [t \in Tgts |-> "none"] /\ ls = [t \in Tgts |-> 0]
  /\ net = [t \in Tgts |-> 0] /\ rcv = 0 /\ made = 0
  /\ th = [i \in Threads |-> Is("idle")] /\ run = [pc |-> "poll", batch |-> <<>>]
  /\ leaked = 0 /\ fault = "none"

\* The calls of the application and what is left of the calls it has made.
Begins(i) == sp_endpoint(i) \/ sp_add(i) \/ sp_rm(i) \/ sp_send(i) \/ sp_recv(i) \/ sp_close(i)
Proceeds(i) ==
  \/ epbase_add_tgtd(i) \/ sp_generic_term_by_fd(i) \/ ShutTest(i) \/ Send(i)
  \/ XSend(i) \/ Receive(i) \/ Shutdown(i) \/ eid_put(i)
sp_runner ==
  \/ Poll \/ ConnectorIn \/ ConnectorOut \/ ListenerIn \/ EventEnds
  \/ shutdown_epbase

Next ==
  /\ fault = "none"
  /\ \/ \E i \in Threads : Begins(i) \/ Proceeds(i)
     \/ sp_runner
     \/ \E t \in Tgts : Arrive(t) \/ Break(t)

Spec == Init /\ [][Next]_vars

----------------------------------------------------------------------------
(* Properties.                                                             *)

\* A live target is in one list, and every target that can be reached from the
\* endpoint, the load balancer or the poll is live: term runs once for each
\* (sp_rm.c:28-65, sp_module.c:124-140).
TargetsSound ==
  fault = "none" =>
    /\ listed \cap bad = {}
    /\ reg = listed \cup bad
    /\ \A t \in Tgts :
         mem[t] = "live" <=> t \in listed \cup bad \/ \E i \in Threads : At(i, "add") /\ th[i].t = t
    /\ lbs \subseteq {t \in Tgts : mem[t] = "live"}

\* A message queued for a connector is under way: its POLLOUT is enabled, so the
\* runner comes for it (tgtd_try_enable_out against tgtd_try_disable_out).
NoStranded == \A t \in listed \cap Connectors : ls[t] > 0 => t \in armed

\* Every call has a reference to put, and sp_close two.
Calls == {i \in Threads : ~ At(i, "idle")}
Closes == {i \in Threads : At(i, "close") \/ At(i, "put2")}

\* The count is that of the calls under way, the descriptor and what sp_send
\* leaked; the endpoint is queued for its end once nobody is inside it.
RefsExact ==
  /\ ep.st # "none" =>
       ep.ref = Cardinality(Calls) + Cardinality(Closes) + leaked + (IF Closing THEN 0 ELSE 1)
  /\ ep.queued <=> ep.st = "open" /\ ep.ref = 0
  /\ ep.st = "freed" => \A i \in Threads : At(i, "idle")

\* Whoever sleeps in sp_recv has nothing to take and nothing to hear of.
SleepJustified == Waiters # {} => rcv = 0 /\ ~ep.shut

\* BUG_ON(tg->fd != tg->pollfd.fd), sp_module.c:145: the target that a poll
\* result points to is there.
EventTargetLive == Runs("in") => mem[Cur.t] # "freed"
=============================================================================
