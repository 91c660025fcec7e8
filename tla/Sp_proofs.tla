------------------------------ MODULE Sp_proofs -----------------------------
(* Proofs about Sp, for any threads, targets, protocol and number of        *)
(* events.                                                                  *)
EXTENDS Sp, FiniteSetTheorems, TLAPS

----------------------------------------------------------------------------
(* The inductive invariant.                                                 *)

ThPcs == {"idle", "add", "rm", "send", "sendin", "xsend", "recv", "wait", "close", "put2", "put"}
Threading == [Threads -> [pc : ThPcs, t : Tgts \cup {None}]]
Events == [t : Tgts, ev : SUBSET {"in", "out", "err"}]

Eps == [st : {"none", "open", "freed"}, ref : Int, shut : BOOLEAN, queued : BOOLEAN]
Runner == [pc : {"poll", "in", "out", "end", "shutdown"}, batch : Seq(Events)]

\* Types; the runner has a result in hand while it is at one.
TypeInv ==
  /\ kind \in Kinds
  /\ ep \in Eps
  /\ listed \subseteq Tgts /\ bad \subseteq Tgts /\ armed \subseteq Tgts /\ reg \subseteq Tgts
  /\ lbs \subseteq Tgts /\ mem \in [Tgts -> {"none", "live", "freed"}]
  /\ ls \in [Tgts -> Nat] /\ net \in [Tgts -> Nat] /\ rcv \in Nat
  /\ th \in Threading
  /\ \A i \in Threads : At(i, "add") => th[i].t \in Tgts
  /\ run \in Runner
  /\ run.pc \in {"in", "out", "end"} => run.batch # <<>>
  /\ leaked \in Nat

\* Before sp_endpoint there is nothing.
NoneInv == ep.st = "none" =>
  /\ \A i \in Threads : At(i, "idle")
  /\ reg = {} /\ Runs("poll") /\ leaked = 0 /\ ep.ref = 0 /\ ~ ep.shut /\ ~ ep.queued
  /\ \A t \in Tgts : ls[t] = 0

\* Only a bus and a publisher queue messages at targets, and what they queue is armed.
QueueInv == \A t \in Tgts : ls[t] > 0 => t \in armed /\ kind \in {"bus", "pub"}

\* A target that is being added is that of one thread, and nobody else knows of it.
AddsInv == \A i \in Threads : At(i, "add") =>
  /\ th[i].t \notin reg
  /\ \A j \in Threads : At(j, "add") /\ th[j].t = th[i].t => j = i

\* A result of the poll is about a registered target or about one that is gone.
BatchInv == \A k \in DOMAIN run.batch : run.batch[k].t \in reg \/ mem[run.batch[k].t] = "freed"

MemInv == TargetsSound /\ (fault = "none" => AddsInv /\ BatchInv)

IInv == TypeInv /\ NoneInv /\ QueueInv /\ MemInv /\ RefsExact /\ SleepJustified

----------------------------------------------------------------------------
(* Types.                                                                   *)

LEMMA Moves ==
  ASSUME TypeInv, NEW i \in Threads, NEW pc \in ThPcs, NEW t \in Tgts \cup {None},
         th' = [th EXCEPT ![i] = [pc |-> pc, t |-> t]], pc = "add" => t \in Tgts
  PROVE  /\ th' \in Threading
         /\ th'[i].pc = pc /\ th'[i].t = t /\ \A j \in Threads : j # i => th'[j] = th[j]
         /\ \A j \in Threads : At(j, "add")' => th'[j].t \in Tgts
  <1>1. th \in Threading /\ \A j \in Threads : At(j, "add") => th[j].t \in Tgts
    BY DEF TypeInv
  <1>2. QED BY <1>1 DEF At, Threading

\* A thread goes on without a target.
LEMMA Tos ==
  ASSUME TypeInv, NEW i \in Threads, NEW pc \in ThPcs \ {"add"}, To(i, pc)
  PROVE  /\ th' \in Threading
         /\ th'[i].pc = pc /\ \A j \in Threads : j # i => th'[j] = th[j]
         /\ \A j \in Threads : At(j, "add")' => th'[j].t \in Tgts
  BY Moves DEF To, Is

LEMMA Gets ==
  ASSUME TypeInv, NEW i \in Threads, NEW pc \in ThPcs, NEW t \in Tgts \cup {None},
         eid_get(i, pc, t), pc = "add" => t \in Tgts
  PROVE  /\ ep' \in Eps /\ ep'.st = "open"
         /\ ep'.shut = ep.shut /\ ep'.queued = ep.queued /\ ep'.ref = ep.ref + 1
         /\ th' \in Threading
         /\ th'[i].pc = pc /\ th'[i].t = t /\ \A j \in Threads : j # i => th'[j] = th[j]
         /\ \A j \in Threads : At(j, "add")' => th'[j].t \in Tgts
         /\ UNCHANGED <<kind, leaked, fault>>
  <1>1. ep \in Eps
    BY DEF TypeInv
  <1>2. /\ ep' \in Eps /\ ep'.st = "open"
        /\ ep'.shut = ep.shut /\ ep'.queued = ep.queued /\ ep'.ref = ep.ref + 1
    BY <1>1 DEF eid_get, Eps
  <1>3. th' = [th EXCEPT ![i] = [pc |-> pc, t |-> t]] /\ UNCHANGED <<kind, leaked, fault>>
    BY DEF eid_get
  <1>4. /\ th' \in Threading
        /\ th'[i].pc = pc /\ th'[i].t = t /\ \A j \in Threads : j # i => th'[j] = th[j]
        /\ \A j \in Threads : At(j, "add")' => th'[j].t \in Tgts
    BY <1>3, Moves
  <1>5. QED BY <1>2, <1>3, <1>4

\* Where all other threads are left or sent to test again.
LEMMA Wakens ==
  ASSUME TypeInv, NEW D \in SUBSET Threads, NEW pc \in ThPcs \ {"add"},
         th' = [j \in Threads |-> IF j \in D THEN Is(pc) ELSE IF j \in Waiters THEN Is("recv") ELSE th[j]]
  PROVE  /\ th' \in Threading
         /\ \A j \in D : th'[j].pc = pc
         /\ \A j \in Waiters \ D : th'[j].pc = "recv"
         /\ \A j \in Threads \ (D \cup Waiters) : th'[j] = th[j]
         /\ \A j \in Threads : At(j, "add")' => th'[j].t \in Tgts
  <1>1. th \in Threading /\ \A j \in Threads : At(j, "add") => th[j].t \in Tgts
    BY DEF TypeInv
  <1>2. "recv" \in ThPcs
    BY DEF ThPcs
  <1>3. Is(pc) \in [pc : ThPcs, t : Tgts \cup {None}] /\ Is("recv") \in [pc : ThPcs, t : Tgts \cup {None}]
        /\ Is(pc).pc = pc /\ Is("recv").pc = "recv"
    BY <1>2 DEF Is
  <1>4. th' \in Threading
    BY <1>1, <1>3 DEF Threading
  <1>5. /\ \A j \in D : th'[j] = Is(pc)
        /\ \A j \in Waiters \ D : th'[j] = Is("recv")
        /\ \A j \in Threads \ (D \cup Waiters) : th'[j] = th[j]
    BY DEF Waiters
  <1>6. QED BY <1>1, <1>3, <1>4, <1>5 DEF At

\* The current result of the poll may get an error.
LEMMA Errs ==
  ASSUME TypeInv, run.batch # <<>>, NEW pc \in {"out", "end"},
         Goes(pc) \/ \E e \in BOOLEAN : GoesErr(pc, e)
  PROVE  /\ run' \in Runner /\ run'.pc = pc /\ run'.batch # <<>>
         /\ DOMAIN run'.batch = DOMAIN run.batch
         /\ \A k \in DOMAIN run.batch : run'.batch[k].t = run.batch[k].t
  <1>1. run \in Runner
    BY DEF TypeInv
  <1>2. /\ run.batch \in Seq(Events) /\ Len(run.batch) \in Nat \ {0}
        /\ DOMAIN run.batch = 1 .. Len(run.batch)
        /\ \A k \in 1 .. Len(run.batch) : run.batch[k] \in Events
    BY <1>1 DEF Runner
  <1> DEFINE b == [run.batch EXCEPT ![1].ev = @ \cup {"err"}]
  <1>3. /\ b \in Seq(Events) /\ DOMAIN b = DOMAIN run.batch /\ b # <<>>
        /\ \A k \in DOMAIN run.batch : b[k].t = run.batch[k].t
    <2>1. [run.batch[1] EXCEPT !.ev = @ \cup {"err"}] \in Events
          /\ [run.batch[1] EXCEPT !.ev = @ \cup {"err"}].t = run.batch[1].t
      BY <1>2 DEF Events
    <2>2. QED BY <1>2, <2>1
  <1>4. CASE Goes(pc)
    BY <1>1, <1>2, <1>4 DEF Goes, Runner
  <1>5. ASSUME NEW e \in BOOLEAN, GoesErr(pc, e) PROVE run'.batch \in {b, run.batch} /\ run'.pc = pc
      /\ run' = [pc |-> pc, batch |-> run'.batch]
    BY <1>5 DEF GoesErr
  <1> HIDE DEF b
  <1>6. QED BY <1>2, <1>3, <1>4, <1>5 DEF Runner

LEMMA TypesBegin ==
  ASSUME TypeInv, NEW i \in Threads, Begins(i)
  PROVE  TypeInv'
  <1> USE DEF TypeInv, At, Is
  <1>1. CASE sp_endpoint(i)
    BY <1>1 DEF sp_endpoint, tgVars, msgVars, Eps
  <1>2. CASE sp_add(i)
    <2>1. PICK t \in Tgts : eid_get(i, "add", t) /\ Join(t) /\ mem' = [mem EXCEPT ![t] = "live"]
      BY <1>2 DEF sp_add
    <2>2. "add" \in ThPcs
      BY DEF ThPcs
    <2>3. QED BY <1>2, <2>1, <2>2, Gets DEF sp_add, Join, msgVars
  <1>3. CASE sp_rm(i)
    <2>1. PICK t \in Tgts : eid_get(i, "rm", t)
      BY <1>3 DEF sp_rm
    <2>2. "rm" \in ThPcs
      BY DEF ThPcs
    <2>3. QED BY <1>3, <2>1, <2>2, Gets DEF sp_rm, tgVars, msgVars
  <1>4. CASE sp_send(i)
    <2>1. "send" \in ThPcs /\ None \in Tgts \cup {None}
      BY DEF ThPcs
    <2>2. QED BY <1>4, <2>1, Gets DEF sp_send, tgVars
  <1>5. CASE sp_recv(i)
    <2>1. "recv" \in ThPcs /\ None \in Tgts \cup {None}
      BY DEF ThPcs
    <2>2. QED BY <1>5, <2>1, Gets DEF sp_recv, tgVars, msgVars
  <1>6. CASE sp_close(i)
    <2>1. "close" \in ThPcs /\ None \in Tgts \cup {None}
      BY DEF ThPcs
    <2>2. QED BY <1>6, <2>1, Gets DEF sp_close, tgVars, msgVars
  <1>7. QED BY <1>1, <1>2, <1>3, <1>4, <1>5, <1>6 DEF Begins

LEMMA TypesProceed ==
  ASSUME TypeInv, NEW i \in Threads, Proceeds(i)
  PROVE  TypeInv'
  <1>0. /\ {"put", "idle", "sendin", "wait"} \subseteq ThPcs \ {"add"}
        /\ "put2" \in ThPcs \ {"add"} /\ "xsend" \in ThPcs \ {"add"}
    BY DEF ThPcs
  <1> DEFINE Ok == th' \in Threading /\ \A j \in Threads : At(j, "add")' => th'[j].t \in Tgts
  <1>1. CASE epbase_add_tgtd(i)
    <2>1. Ok
      BY <1>0, <1>1, Tos DEF epbase_add_tgtd
    <2>2. th[i].t \in Tgts
      BY <1>1 DEF epbase_add_tgtd, TypeInv
    <2>3. QED BY <1>1, <2>1, <2>2 DEF epbase_add_tgtd, Attach, epVars, msgVars, TypeInv
  <1>2. CASE sp_generic_term_by_fd(i)
    <2>1. Ok
      BY <1>0, <1>2, Tos DEF sp_generic_term_by_fd
    <2>2. QED BY <1>2, <2>1 DEF sp_generic_term_by_fd, Moved, epVars, msgVars, TypeInv
  <1>3. CASE ShutTest(i)
    <2>1. Ok
      BY <1>0, <1>3, Tos DEF ShutTest
    <2>2. QED BY <1>3, <2>1 DEF ShutTest, tgVars, msgVars, TypeInv
  <1>4. CASE Send(i)
    <2>1. To(i, "put") \/ \E t \in Tgts : th' = [th EXCEPT ![i] = [pc |-> "xsend", t |-> t]]
      BY <1>4 DEF TypeInv, Send, bus_ep_send, pub_ep_send, sub_ep_send, reqep_send, repep_send, Chooses
    <2>2. Ok
      BY <1>0, <2>1, Tos, Moves
    <2>3. ls' \in [Tgts -> Nat] /\ armed' \subseteq Tgts
      BY SMTT(60), <1>4 DEF Send, bus_ep_send, pub_ep_send, sub_ep_send, reqep_send, repep_send, Chooses, Spread, TypeInv
    <2>4. QED BY <1>4, <2>2, <2>3 DEF Send, epVars, msgVars, TypeInv
  <1>5. CASE XSend(i)
    <2>1. Ok
      BY <1>0, <1>5, Tos DEF XSend
    <2>2. QED BY <1>5, <2>1 DEF XSend, epVars, tgVars, msgVars, TypeInv
  <1>6. CASE Receive(i)
    <2>1. Ok
      BY <1>0, <1>6, Tos DEF Receive
    <2>2. rcv' \in Nat
      BY <1>6 DEF Receive, TypeInv
    <2>3. QED BY <1>6, <2>1, <2>2 DEF Receive, epVars, tgVars, TypeInv
  <1>7. CASE Shutdown(i)
    <2>1. Ok
      BY <1>0, <1>7, Wakens, {i} \in SUBSET Threads DEF Shutdown, Wakes, ShutWakes
    <2>2. ep' \in Eps
      BY <1>7 DEF Shutdown, TypeInv, Eps
    <2>3. QED BY <1>7, <2>1, <2>2 DEF Shutdown, tgVars, msgVars, TypeInv
  <1>8. CASE eid_put(i)
    <2>1. Ok
      BY <1>0, <1>8, Tos DEF eid_put
    <2>2. ep' \in Eps
      <3>1. (ep.ref = 1) \in BOOLEAN /\ ep.ref - 1 \in Int /\ ep \in Eps
        BY DEF TypeInv, Eps
      <3>2. ep' = [ep EXCEPT !.ref = ep.ref - 1, !.queued = (ep.ref = 1)]
        BY <1>8 DEF eid_put, LastPut
      <3>3. QED BY <3>1, <3>2 DEF Eps
    <2>3. QED BY <1>8, <2>1, <2>2 DEF eid_put, tgVars, msgVars, TypeInv
  <1>9. QED BY <1>1, <1>2, <1>3, <1>4, <1>5, <1>6, <1>7, <1>8 DEF Proceeds

LEMMA Polled ==
  ASSUME TypeInv, Poll
  PROVE  \/ Ready = {} /\ ep.queued /\ Goes("shutdown")
         \/ /\ run' \in Runner /\ run'.pc = "in" /\ run'.batch # <<>>
            /\ \A k \in DOMAIN run'.batch : run'.batch[k].t \in reg
            /\ Ready # {}
  <1>1. Min({MaxBatch, Cardinality(Ready)}) \in Nat
    <2>1. IsFiniteSet(Ready) /\ Cardinality(Ready) \in Nat
      BY SpAssumption, FS_Subset, FS_CardinalityType DEF Ready, TypeInv
    <2>2. \A m, n \in Nat : Min({m, n}) \in Nat
      <3> TAKE m, n \in Nat
      <3>1. PICK x \in {m, n} : \A y \in {m, n} : x =< y
        OBVIOUS
      <3>2. QED BY <3>1 DEF Min
    <2>3. QED BY <2>1, <2>2, SpAssumption
  <1>2. ASSUME NEW n \in Nat, NEW b \in [1 .. n -> Ready], b # <<>>,
               run' = [pc |-> "in", batch |-> [k \in DOMAIN b |-> [t |-> b[k], ev |-> Happened(b[k])]]]
        PROVE  /\ run' \in Runner /\ run'.pc = "in" /\ run'.batch # <<>>
               /\ \A k \in DOMAIN run'.batch : run'.batch[k].t \in reg
               /\ Ready # {}
    <2>1. \A k \in 1 .. n : [t |-> b[k], ev |-> Happened(b[k])] \in Events /\ b[k] \in reg
      BY DEF Ready, Happened, Events, TypeInv
    <2>2. n # 0
      BY <1>2
    <2>3. QED BY <1>2, <2>1, <2>2 DEF Runner
  <1>3. QED BY <1>1, <1>2 DEF Poll

\* The runner is at a result of the poll.
LEMMA AtResult ==
  ASSUME TypeInv, Runs("in") \/ Runs("out") \/ Runs("end")
  PROVE  /\ run.batch \in Seq(Events) /\ run.batch # <<>> /\ Cur = run.batch[1]
         /\ Cur \in Events /\ Cur.t \in Tgts /\ 1 \in DOMAIN run.batch
  <1>1. run.batch \in Seq(Events) /\ run.batch # <<>>
    BY DEF TypeInv, Runs, Runner
  <1>2. Head(run.batch) = run.batch[1] /\ Head(run.batch) \in Events /\ 1 \in DOMAIN run.batch
    BY <1>1
  <1>3. QED BY <1>1, <1>2 DEF Cur, Events

LEMMA TypesConnectorIn ==
  ASSUME TypeInv, ConnectorIn
  PROVE  TypeInv'
  <1>0. Cur \in Events /\ Cur.t \in Tgts /\ run.batch # <<>> /\ AfterIn \in {"out", "end"}
    BY AtResult DEF ConnectorIn, AfterIn
  <1>1. run' \in Runner /\ run'.batch # <<>>
    <2>1. Goes(AfterIn) \/ \E e \in BOOLEAN : GoesErr(AfterIn, e)
      <3>1. ("in" \in Cur.ev /\ Cur.t \in broken) \in BOOLEAN
        OBVIOUS
      <3>2. QED BY <3>1 DEF ConnectorIn
    <2>2. QED BY <1>0, <2>1, Errs
  <1>2. th' \in Threading /\ rcv' \in Nat /\ \A i \in Threads : At(i, "add")' => th'[i].t \in Tgts
    <2>1. UNCHANGED <<rcv, th>> \/ Deliver
      BY DEF ConnectorIn, Add, bus_ep_add, pub_ep_add, sub_ep_add
    <2>2. CASE Deliver
      <3>1. th' \in Threading /\ \A i \in Threads : At(i, "add")' => th'[i].t \in Tgts
        <4>1. "put" \in ThPcs \ {"add"} /\ {} \in SUBSET Threads
          BY DEF ThPcs
        <4>2. th' = [j \in Threads |-> IF j \in {} THEN Is("put")
                                        ELSE IF j \in Waiters THEN Is("recv") ELSE th[j]]
          BY <2>2 DEF Deliver
        <4>3. QED BY <4>1, <4>2, Wakens
      <3>2. QED BY <2>2, <3>1 DEF Deliver, TypeInv
    <2>3. QED BY <2>1, <2>2 DEF TypeInv, At
  <1>3. ls' \in [Tgts -> Nat] /\ armed' \subseteq Tgts
    BY DEF ConnectorIn, Add, bus_ep_add, pub_ep_add, sub_ep_add, Spread, TypeInv
  <1>4. net' \in [Tgts -> Nat]
    BY <1>0 DEF ConnectorIn, TypeInv
  <1>5. QED BY <1>1, <1>2, <1>3, <1>4 DEF ConnectorIn, epVars, TypeInv

LEMMA TypesConnectorOut ==
  ASSUME TypeInv, ConnectorOut
  PROVE  TypeInv'
  <1>1. run' \in Runner /\ run'.batch # <<>>
    <2>1. (ls[Cur.t] > 0 /\ Cur.t \in broken) \in BOOLEAN /\ run.batch # <<>>
      BY AtResult DEF ConnectorOut
    <2>2. QED BY <2>1, Errs DEF ConnectorOut
  <1>2. ls' \in [Tgts -> Nat] /\ armed' \subseteq Tgts
    <2>1. Cur.t \in Tgts
      BY AtResult DEF ConnectorOut
    <2>2. QED BY SMTT(60), <2>1 DEF ConnectorOut, bus_ep_rm, pub_ep_rm, sub_ep_rm, Take, TypeInv
  <1>3. QED BY <1>1, <1>2 DEF ConnectorOut, epVars, msgVars, TypeInv, At

LEMMA TypesListenerIn ==
  ASSUME TypeInv, ListenerIn
  PROVE  TypeInv'
  <1>0. Cur \in Events /\ Cur.t \in Tgts /\ run.batch # <<>>
    BY AtResult DEF ListenerIn
  <1>1. CASE UNCHANGED <<net, tgVars>> /\ GoesErr("end", "in" \in Cur.ev /\ Cur.t \in broken)
    <2>1. run' \in Runner /\ run'.batch # <<>>
      <3>1. ("in" \in Cur.ev /\ Cur.t \in broken) \in BOOLEAN
        OBVIOUS
      <3>2. QED BY <1>0, <1>1, <3>1, Errs
    <2>2. QED BY <1>1, <2>1 DEF ListenerIn, epVars, tgVars, TypeInv, At
  <1>2. CASE net[Cur.t] > 0 /\ net' = [net EXCEPT ![Cur.t] = @ - 1] /\ UNCHANGED <<bad, ls, run>>
    <2>1. net' \in [Tgts -> Nat]
      BY <1>0, <1>2 DEF TypeInv
    <2>2. /\ mem' \in [Tgts -> {"none", "live", "freed"}]
          /\ listed' \subseteq Tgts /\ reg' \subseteq Tgts /\ armed' \subseteq Tgts
          /\ lbs' \subseteq Tgts
      BY SMTT(60), <1>0, <1>2 DEF ListenerIn, tgVars, TypeInv, Tgts, Join
    <2>3. QED BY <1>2, <2>1, <2>2 DEF ListenerIn, epVars, TypeInv, At
  <1>3. QED BY <1>1, <1>2 DEF ListenerIn

LEMMA Terminated ==
  ASSUME TypeInv, NEW ts \in SUBSET Tgts, Terminate(ts)
  PROVE  /\ mem' \in [Tgts -> {"none", "live", "freed"}] /\ reg' \subseteq Tgts /\ lbs' \subseteq Tgts
         /\ armed' \subseteq Tgts /\ net' \in [Tgts -> Nat] /\ ls' \in [Tgts -> Nat]
  BY DEF Terminate, TypeInv

LEMMA TailMore ==
  ASSUME NEW q \in Seq(Events), q # <<>>
  PROVE  Tail(q) \in Seq(Events) /\ (Len(q) > 1 => Tail(q) # <<>>)
  <1>1. /\ Tail(q) \in Seq(Events) /\ DOMAIN Tail(q) = 1 .. Len(q) - 1
        /\ Len(q) \in Nat
    OBVIOUS
  <1>2. ASSUME Len(q) > 1 PROVE 1 \in DOMAIN Tail(q)
    BY <1>1, <1>2
  <1>3. 1 \notin DOMAIN <<>>
    OBVIOUS
  <1>4. QED BY <1>1, <1>2, <1>3

LEMMA TypesRun ==
  ASSUME TypeInv, sp_runner
  PROVE  TypeInv'
  <1>1. CASE Poll
    <2>1. run' \in Runner /\ (run'.pc \in {"in", "out", "end"} => run'.batch # <<>>)
      BY <1>1, Polled DEF Goes, TypeInv, Runner
    <2>2. QED BY <1>1, <2>1 DEF Poll, epVars, tgVars, msgVars, TypeInv, At
  <1>2. CASE EventEnds
    <2>1. /\ run' \in Runner /\ (run'.pc = "in" => run'.batch # <<>>)
          /\ run'.pc \in {"in", "shutdown"}
      <3>1. run.batch \in Seq(Events) /\ run.batch # <<>>
        BY <1>2, AtResult DEF EventEnds
      <3>2. Tail(run.batch) \in Seq(Events) /\ (Len(run.batch) > 1 => Tail(run.batch) # <<>>)
        BY <3>1, TailMore
      <3>3. QED BY <1>2, <3>2 DEF EventEnds, Runner
    <2>2. listed' \subseteq Tgts /\ bad' = {}
      BY <1>2 DEF EventEnds, TypeInv
    <2>3. PICK ts \in SUBSET Tgts : Terminate(ts)
      BY <1>2, AtResult DEF EventEnds, TypeInv
    <2>4. /\ mem' \in [Tgts -> {"none", "live", "freed"}] /\ reg' \subseteq Tgts /\ lbs' \subseteq Tgts
          /\ armed' \subseteq Tgts /\ net' \in [Tgts -> Nat] /\ ls' \in [Tgts -> Nat]
      BY <2>3, Terminated
    <2>5. QED BY <1>2, <2>1, <2>2, <2>4 DEF EventEnds, epVars, TypeInv, At
  <1>3. CASE shutdown_epbase
    <2>1. run' \in Runner /\ run'.pc = "poll"
      BY <1>3 DEF shutdown_epbase, Goes, TypeInv, Runner
    <2>2. CASE ep.queued
      <3>1. /\ mem' \in [Tgts -> {"none", "live", "freed"}] /\ reg' \subseteq Tgts /\ lbs' \subseteq Tgts
            /\ armed' \subseteq Tgts /\ net' \in [Tgts -> Nat] /\ ls' \in [Tgts -> Nat]
        BY <1>3, <2>2, Terminated, listed \cup bad \in SUBSET Tgts DEF shutdown_epbase, TypeInv
      <3>2. ep' \in Eps
        BY ZenonT(60), <1>3, <2>2 DEF shutdown_epbase, TypeInv, Eps
      <3>3. QED BY <1>3, <2>1, <2>2, <3>1, <3>2 DEF shutdown_epbase, TypeInv, At
    <2>3. CASE ~ ep.queued
      BY <1>3, <2>1, <2>3 DEF shutdown_epbase, TypeInv, At
    <2>4. QED BY <2>2, <2>3
  <1>4. QED BY <1>1, <1>2, <1>3, TypesConnectorIn, TypesConnectorOut, TypesListenerIn DEF sp_runner

LEMMA TypesStep ==
  ASSUME TypeInv, [Next]_vars
  PROVE  TypeInv'
  <1>1. CASE UNCHANGED vars
    BY <1>1 DEF vars, epVars, tgVars, msgVars, TypeInv, At
  <1>2. ASSUME NEW t \in Tgts, Arrive(t) \/ Break(t) PROVE TypeInv'
    <2>1. net' \in [Tgts -> Nat]
      BY <1>2 DEF Arrive, Break, TypeInv
    <2>2. QED BY <1>2, <2>1 DEF Arrive, Break, epVars, tgVars, TypeInv, At
  <1>3. QED BY <1>1, <1>2, TypesBegin, TypesProceed, TypesRun DEF Next

----------------------------------------------------------------------------
(* Queues and sleepers.                                                     *)

\* Where there is no endpoint, nothing happens but that one is opened.
LEMMA OnlyOpens ==
  ASSUME TypeInv, NoneInv, ep.st = "none", Next
  PROVE  \E i \in Threads : sp_endpoint(i)
  <1>1. /\ \A i \in Threads : th[i].pc = "idle"
        /\ reg = {} /\ run.pc = "poll" /\ ~ ep.queued
    BY DEF NoneInv, At, Runs
  <1>2. ~ sp_runner
    <2>1. ~ Poll
      <3>1. Ready = {}
        BY <1>1 DEF Ready
      <3>2. QED BY <1>1, <3>1, Polled
    <2>2. QED BY <1>1, <2>1 DEF sp_runner, Runs, ConnectorIn, ConnectorOut, ListenerIn, EventEnds,
                               shutdown_epbase
  <1>3. \A t \in Tgts : ~ Arrive(t) /\ ~ Break(t)
    BY <1>1 DEF Arrive, Break
  <1>4. \A i \in Threads : ~ Proceeds(i)
    BY <1>1 DEF Proceeds, At, epbase_add_tgtd, sp_generic_term_by_fd, ShutTest, Send, XSend, Receive,
                Shutdown, eid_put
  <1>5. \A i \in Threads : Begins(i) => sp_endpoint(i)
    BY DEF Begins, sp_add, sp_rm, sp_send, sp_recv, sp_close, eid_get
  <1>6. QED BY <1>2, <1>3, <1>4, <1>5 DEF Next

\* The state of the endpoint, its shutdown bit and the protocol, in each kind of step.
LEMMA EpStep ==
  ASSUME TypeInv, NoneInv, [Next]_vars
  PROVE  /\ ep.st # "none" => ep'.st # "none" /\ kind' = kind
         /\ ep.st = "none" => UNCHANGED vars \/ \E i \in Threads : sp_endpoint(i)
  <1>0. ep \in Eps
    BY DEF TypeInv
  <1> SUFFICES ASSUME ep.st # "none", Next PROVE ep'.st # "none" /\ kind' = kind
    BY OnlyOpens DEF vars, epVars
  <1>1. ASSUME NEW i \in Threads, Begins(i) PROVE ep'.st # "none" /\ kind' = kind
    BY <1>0, <1>1 DEF Eps, Begins, sp_endpoint, sp_add, sp_rm, sp_send, sp_recv, sp_close, eid_get
  <1>2. ASSUME NEW i \in Threads, Proceeds(i) PROVE ep'.st # "none" /\ kind' = kind
    <2>1. CASE Shutdown(i)
      BY <1>0, <2>1 DEF Shutdown, Eps
    <2>2. CASE eid_put(i)
      BY <1>0, <2>2 DEF eid_put, Eps
    <2>3. QED BY <1>2, <2>1, <2>2 DEF Proceeds, epbase_add_tgtd, sp_generic_term_by_fd, ShutTest,
                                     Send, XSend, Receive, epVars
  <1>3. CASE sp_runner
    BY <1>0, <1>3 DEF Eps, sp_runner, Poll, ConnectorIn, ConnectorOut, ListenerIn, EventEnds,
                      shutdown_epbase, epVars
  <1>4. QED BY <1>1, <1>2, <1>3 DEF Next, Arrive, Break, epVars

LEMMA NoneStep ==
  ASSUME TypeInv, NoneInv, [Next]_vars
  PROVE  NoneInv'
  <1>1. CASE UNCHANGED vars
    BY <1>1 DEF vars, epVars, tgVars, msgVars, NoneInv, At, Runs
  <1>2. CASE \E i \in Threads : sp_endpoint(i)
    BY <1>2 DEF sp_endpoint, NoneInv
  <1>3. QED BY <1>1, <1>2, EpStep DEF NoneInv

\* What moves the queues of the targets.
LEMMA QueueStep ==
  ASSUME TypeInv, NoneInv, QueueInv, [Next]_vars
  PROVE  QueueInv'
  <1>1. CASE ep.st = "none"
    <2>1. ls' = ls /\ \A t \in Tgts : ls[t] = 0
      BY <1>1, EpStep DEF NoneInv, vars, tgVars, sp_endpoint
    <2>2. QED BY <2>1 DEF QueueInv
  <1>2. ASSUME NEW ts, Spread(ts), kind \in {"bus", "pub"}, kind' = kind
        PROVE  QueueInv'
    BY <1>2 DEF Spread, QueueInv, TypeInv
  <1>3. ASSUME armed \subseteq armed', ls' = ls, kind' = kind
        PROVE  QueueInv'
    BY <1>3 DEF QueueInv
  <1>4. ASSUME NEW t \in Tgts, bus_ep_rm(t) \/ pub_ep_rm(t) \/ sub_ep_rm(t), kind' = kind
        PROVE  QueueInv'
    <2>1. CASE Take(t)
      BY <1>4, <2>1 DEF Take, Disarm, QueueInv, TypeInv
    <2>2. CASE sub_ep_rm(t)
      BY <1>4, <2>2 DEF sub_ep_rm, QueueInv
    <2>3. QED BY <1>4, <2>1, <2>2 DEF bus_ep_rm, pub_ep_rm
  <1>5. CASE ep.st # "none" /\ Next
    <2>0. kind' = kind
      BY <1>5, EpStep
    <2>1. ASSUME NEW i \in Threads, Begins(i) PROVE QueueInv'
      BY <1>3, <2>0, <2>1 DEF Begins, sp_endpoint, sp_add, sp_rm, sp_send, sp_recv, sp_close, tgVars, Join
    <2>2. ASSUME NEW i \in Threads, Send(i) PROVE QueueInv'
      BY <1>2, <1>3, <2>0, <2>2 DEF Send, bus_ep_send, pub_ep_send, sub_ep_send, reqep_send,
                                   repep_send, Chooses
    <2>3. ASSUME NEW i \in Threads, Proceeds(i) PROVE QueueInv'
      BY <1>3, <2>0, <2>2, <2>3 DEF Proceeds, epbase_add_tgtd, sp_generic_term_by_fd, ShutTest, XSend,
                                   Receive, Shutdown, eid_put, tgVars
    <2>4. CASE ConnectorIn
      BY <1>2, <1>3, <2>0, <2>4 DEF ConnectorIn, Add, bus_ep_add, pub_ep_add, sub_ep_add
    <2>5. CASE ConnectorOut
      <3>1. Cur.t \in Tgts
        BY <2>5, AtResult DEF ConnectorOut
      <3>2. QED BY <1>4, <2>0, <2>5, <3>1 DEF ConnectorOut
    <2>6. CASE ListenerIn
      BY <1>3, <2>0, <2>6 DEF ListenerIn, tgVars, Join
    <2>7. CASE Poll \/ EventEnds \/ shutdown_epbase
      <3>1. ASSUME NEW ts, Terminate(ts) PROVE QueueInv'
        BY <2>0, <3>1 DEF Terminate, QueueInv, TypeInv
      <3>2. QED BY <1>3, <2>0, <2>7, <3>1 DEF Poll, EventEnds, shutdown_epbase, tgVars
    <2>8. ASSUME NEW t \in Tgts, Arrive(t) \/ Break(t) PROVE QueueInv'
      BY <1>3, <2>0, <2>8 DEF Arrive, Break, tgVars
    <2>9. QED BY <1>5, <2>1, <2>3, <2>4, <2>5, <2>6, <2>7, <2>8 DEF Next, sp_runner
  <1>6. QED BY <1>1, <1>3, <1>5 DEF vars, epVars, tgVars

\* A step that puts nobody to sleep, sends all sleepers to test again when it brings
\* what they wait for, or puts one to sleep who has found nothing.
LEMMA SleepStep ==
  ASSUME TypeInv, NoneInv, SleepJustified, [Next]_vars
  PROVE  SleepJustified'
  <1>0. ep \in Eps /\ rcv \in Nat /\ th \in Threading
    BY DEF TypeInv
  <1>1. ASSUME \A j \in Threads : th'[j].pc = "wait" => th[j].pc = "wait",
               rcv' = rcv \/ rcv' = 0, ep'.shut = ep.shut
        PROVE  SleepJustified'
    BY <1>1 DEF SleepJustified, Waiters, At
  <1>2. ASSUME NEW i \in Threads, NEW pc \in ThPcs \ {"wait"}, NEW t,
               th' = [th EXCEPT ![i] = [pc |-> pc, t |-> t]]
        PROVE  \A j \in Threads : th'[j].pc = "wait" => th[j].pc = "wait"
    BY <1>0, <1>2 DEF Threading
  <1>3. ASSUME NEW i \in Threads, NEW pc \in ThPcs \ {"wait"}, To(i, pc)
        PROVE  \A j \in Threads : th'[j].pc = "wait" => th[j].pc = "wait"
    BY <1>2, <1>3 DEF To, Is
  <1>4. {"idle", "add", "rm", "send", "sendin"} \subseteq ThPcs \ {"wait"}
        /\ {"xsend", "recv", "close", "put2", "put"} \subseteq ThPcs \ {"wait"}
    BY DEF ThPcs
  <1>5. ASSUME NEW i \in Threads, NEW pc \in ThPcs \ {"wait"}, NEW t, eid_get(i, pc, t), UNCHANGED rcv
        PROVE  SleepJustified'
    <2>1. ep'.shut = ep.shut
      BY <1>0, <1>5 DEF eid_get, Eps
    <2>2. QED BY <1>1, <1>2, <1>5, <2>1 DEF eid_get
  <1>6. ASSUME NEW i \in Threads, Begins(i) PROVE SleepJustified'
    <2>1. CASE sp_endpoint(i)
      BY <2>1 DEF sp_endpoint, msgVars, SleepJustified, Waiters, At, NoneInv
    <2>2. QED BY <1>4, <1>5, <1>6, <2>1 DEF Begins, sp_add, sp_rm, sp_send, sp_recv, sp_close, msgVars
  <1>7. ASSUME NEW i \in Threads, Proceeds(i) PROVE SleepJustified'
    <2>1. CASE Receive(i) /\ ep.shut = FALSE /\ rcv = 0
      BY <2>1 DEF Receive, SleepJustified, epVars
    <2>2. CASE Receive(i) /\ ~ (ep.shut = FALSE /\ rcv = 0)
      <3>1. To(i, "put") /\ SleepJustified /\ rcv' \in Nat /\ ep' = ep
        BY <1>0, <2>2 DEF Receive, Eps, epVars
      <3>2. CASE rcv' = rcv
        BY <1>1, <1>3, <1>4, <3>1, <3>2
      <3>3. CASE rcv > 0
        <4>1. Waiters = {}
          BY <3>3 DEF SleepJustified
        <4>2. QED BY <1>3, <1>4, <3>1, <4>1 DEF SleepJustified, Waiters, At
      <3>4. QED BY <2>2, <3>2, <3>3 DEF Receive
    <2>3. CASE Shutdown(i)
      <3>1. \A j \in Threads : th'[j].pc # "wait"
        BY <2>3 DEF Shutdown, Wakes, ShutWakes, Waiters, At, Is
      <3>2. QED BY <3>1 DEF SleepJustified, Waiters, At
    <2>4. CASE eid_put(i)
      <3>1. ep'.shut = ep.shut
        BY <1>0, <2>4 DEF eid_put, Eps
      <3>2. QED BY <1>1, <1>3, <1>4, <2>4, <3>1 DEF eid_put, msgVars
    <2>5. CASE Send(i)
      <3>1. To(i, "put") \/ \E t : th' = [th EXCEPT ![i] = [pc |-> "xsend", t |-> t]]
        BY <2>5 DEF Send, bus_ep_send, pub_ep_send, sub_ep_send, reqep_send, repep_send, Chooses
      <3>2. QED BY <1>1, <1>2, <1>3, <1>4, <2>5, <3>1 DEF Send, epVars, msgVars
    <2>6. CASE ShutTest(i)
      BY <1>1, <1>3, <1>4, <2>6 DEF ShutTest, msgVars
    <2>7. QED BY <1>1, <1>3, <1>4, <1>7, <2>1, <2>2, <2>3, <2>4, <2>5, <2>6
         DEF Proceeds, epbase_add_tgtd, sp_generic_term_by_fd, XSend, epVars, msgVars
  <1>8. CASE sp_runner
    <2>1. CASE Deliver
      <3>1. \A j \in Threads : th'[j].pc # "wait"
        BY <2>1 DEF Deliver, Waiters, At, Is
      <3>2. QED BY <3>1 DEF SleepJustified, Waiters, At
    <2>2. CASE ConnectorIn
      BY <1>1, <2>1, <2>2 DEF ConnectorIn, Add, bus_ep_add, pub_ep_add, sub_ep_add, epVars
    <2>3. CASE shutdown_epbase
      <3>1. ep'.shut = ep.shut /\ th' = th
        BY <1>0, <2>3 DEF shutdown_epbase, Eps
      <3>2. QED BY <1>1, <2>3, <3>1 DEF shutdown_epbase
    <2>4. QED BY <1>1, <1>8, <2>2, <2>3 DEF sp_runner, Poll, ConnectorOut, ListenerIn, EventEnds,
                                          epVars, msgVars
  <1>9. QED BY <1>1, <1>6, <1>7, <1>8 DEF Next, Arrive, Break, vars, epVars, msgVars

----------------------------------------------------------------------------
(* The memory of the targets.                                               *)

\* The parts of TargetsSound, where there is no fault.
Lists == listed \cap bad = {} /\ reg = listed \cup bad
Adds(t) == \E i \in Threads : At(i, "add") /\ th[i].t = t
Lives == \A t \in Tgts : mem[t] = "live" <=> t \in reg \/ Adds(t)
Known == \A t \in lbs : mem[t] = "live"

LEMMA MemParts == TypeInv =>
    (MemInv <=> (fault = "none" => Lists /\ Lives /\ Known /\ AddsInv /\ BatchInv))
  BY DEF MemInv, TargetsSound, Lists, Lives, Known, Adds, TypeInv

LEMMA MemPartsNext == TypeInv' =>
    (MemInv' <=> (fault' = "none" => Lists' /\ Lives' /\ Known' /\ AddsInv' /\ BatchInv'))
  BY DEF MemInv, TargetsSound, Lists, Lives, Known, Adds, TypeInv

LEMMA BatchTgts == TypeInv => \A k \in DOMAIN run.batch : run.batch[k].t \in Tgts
  <1> SUFFICES ASSUME TypeInv PROVE \A k \in DOMAIN run.batch : run.batch[k].t \in Tgts
    OBVIOUS
  <1>1. run.batch \in Seq(Events)
    BY DEF TypeInv, Runner
  <1>2. \A k \in DOMAIN run.batch : run.batch[k] \in Events
    BY <1>1
  <1>3. QED BY <1>2 DEF Events

\* A step that adds no target, registers none and frees none.
LEMMA MemKeep ==
  ASSUME TypeInv, TypeInv', MemInv, fault' = "none" => fault = "none",
         UNCHANGED <<lbs, mem, reg>>, Lists => Lists',
         \A i \in Threads : At(i, "add")' <=> At(i, "add"),
         \A i \in Threads : At(i, "add") => th'[i].t = th[i].t,
         BatchInv => BatchInv'
  PROVE  MemInv'
  <1>1. \A t : Adds(t)' <=> Adds(t)
    BY DEF Adds
  <1>2. (Lives => Lives') /\ (Known => Known') /\ (AddsInv => AddsInv')
    BY <1>1 DEF Lives, Known, AddsInv
  <1>3. QED BY <1>2, MemParts, MemPartsNext

LEMMA BatchKeep ==
  ASSUME UNCHANGED <<mem, reg>>,
         DOMAIN run'.batch = DOMAIN run.batch,
         \A k \in DOMAIN run.batch : run'.batch[k].t = run.batch[k].t
  PROVE  BatchInv => BatchInv'
  BY DEF BatchInv

LEMMA MemBegin ==
  ASSUME TypeInv, TypeInv', MemInv, fault = "none", NEW i \in Threads, Begins(i)
  PROVE  MemInv'
  <1>0. Lists /\ Lives /\ Known /\ AddsInv /\ BatchInv /\ th \in Threading
    BY MemParts DEF TypeInv
  <1>1. CASE sp_endpoint(i)
    <2>1. UNCHANGED <<listed, bad, lbs, mem, reg, th, run, fault>>
      BY <1>1 DEF sp_endpoint, tgVars
    <2>2. QED BY <2>1, MemKeep, BatchKeep DEF Lists, At
  <1>2. ASSUME NEW pc \in ThPcs \ {"add"}, NEW t \in Tgts \cup {None}, eid_get(i, pc, t),
               UNCHANGED <<tgVars, run>>
        PROVE  MemInv'
    <2>1. /\ th[i].pc = "idle" /\ fault' = fault
          /\ th'[i].pc = pc /\ \A j \in Threads : j # i => th'[j] = th[j]
      BY <1>2, Gets DEF eid_get, At
    <2>2. UNCHANGED <<listed, bad, lbs, mem, reg, run>>
      BY <1>2 DEF tgVars
    <2>3. QED BY <2>1, <2>2, MemKeep, BatchKeep DEF Lists, At
  <1>3. CASE sp_add(i)
    <2>1. PICK t \in Tgts : /\ eid_get(i, "add", t) /\ Join(t)
                            /\ mem' = [mem EXCEPT ![t] = "live"]
      BY <1>3 DEF sp_add
    <2>2. /\ th[i].pc = "idle" /\ fault' = fault
          /\ th'[i].pc = "add" /\ th'[i].t = t /\ \A j \in Threads : j # i => th'[j] = th[j]
      <3>1. "add" \in ThPcs
        BY DEF ThPcs
      <3>2. QED BY <2>1, <3>1, Gets DEF eid_get, At
    <2>3. UNCHANGED <<listed, bad, reg, run>> /\ mem[t] = "none" /\ lbs' \subseteq lbs \cup {t}
      BY <1>3, <2>1 DEF sp_add, Join
    <2>4. mem \in [Tgts -> {"none", "live", "freed"}] /\ mem'[t] = "live"
          /\ \A x \in Tgts : x # t => mem'[x] = mem[x]
      BY <2>1 DEF TypeInv
    <2>5. ~ Adds(t) /\ t \notin reg
      BY <1>0, <2>3 DEF Lives
    <2>6. \A x : Adds(x)' <=> Adds(x) \/ x = t
      BY <2>2 DEF Adds, At
    <2>7. Lives' /\ Lists'
      BY <1>0, <2>3, <2>4, <2>6 DEF Lives, Lists
    <2>8. Known'
      BY <1>0, <2>3, <2>4 DEF Known, TypeInv
    <2>9. AddsInv'
      <3>1. \A j \in Threads : th[j].pc = "add" => th[j].t # t
        BY <2>5 DEF Adds, At
      <3>2. QED BY <1>0, <2>2, <2>3, <2>5, <3>1 DEF AddsInv, At
    <2>10. BatchInv'
      <3>1. \A k \in DOMAIN run.batch : run.batch[k].t \in Tgts
        BY BatchTgts
      <3>2. QED BY <1>0, <2>3, <2>4, <3>1 DEF BatchInv
    <2>11. QED BY <2>7, <2>8, <2>9, <2>10, MemPartsNext
  <1>4. {"rm", "send", "recv", "close"} \subseteq ThPcs \ {"add"}
    BY DEF ThPcs
  <1>5. CASE sp_rm(i)
    <2>1. PICK t \in Tgts : eid_get(i, "rm", t)
      BY <1>5 DEF sp_rm, TypeInv
    <2>2. QED BY <1>2, <1>4, <1>5, <2>1 DEF sp_rm
  <1>6. QED BY <1>1, <1>2, <1>3, <1>4, <1>5 DEF Begins, sp_send, sp_recv, sp_close

LEMMA MemProceed ==
  ASSUME TypeInv, TypeInv', MemInv, fault = "none", NEW i \in Threads, Proceeds(i)
  PROVE  MemInv'
  <1>0. Lists /\ Lives /\ Known /\ AddsInv /\ BatchInv
    BY MemParts
  <1>1. ASSUME UNCHANGED <<lbs, mem, reg, run>>, Lists', ~ At(i, "add"), th'[i].pc # "add",
               \A j \in Threads : j # i => th'[j] = th[j] \/ (th[j].pc # "add" /\ th'[j].pc # "add")
        PROVE  MemInv'
    BY <1>1, MemKeep, BatchKeep DEF At
  <1>2. {"idle", "sendin", "put"} \subseteq ThPcs \ {"add"} /\ {"xsend", "wait", "put2"} \subseteq ThPcs \ {"add"}
    BY DEF ThPcs
  <1>3. CASE epbase_add_tgtd(i)
    <2>0. PICK t : t = th[i].t
      OBVIOUS
    <2>1. /\ th[i].pc = "add" /\ t \in Tgts /\ fault' = fault
          /\ th'[i].pc = "put" /\ \A j \in Threads : j # i => th'[j] = th[j]
      BY <1>2, <1>3, <2>0, Tos DEF epbase_add_tgtd, TypeInv, At
    <2>2. Adds(t) /\ t \notin reg /\ \A j \in Threads : At(j, "add") /\ th[j].t = t => j = i
      BY <1>0, <2>0, <2>1 DEF Adds, AddsInv, At
    <2>3. UNCHANGED <<bad, run>> /\ Attach(t)
      BY <1>3, <2>0 DEF epbase_add_tgtd
    <2>4. ~ Adds(t)' /\ \A x : x # t => (Adds(x)' <=> Adds(x))
      <3>1. \A j \in Threads : th'[j].pc = "add" <=> th[j].pc = "add" /\ j # i
        BY <2>1
      <3>2. \A j \in Threads : th[j].pc = "add" /\ j # i => th[j].t # t /\ th'[j].t = th[j].t
        BY <2>1, <2>2 DEF At
      <3>3. QED BY <2>0, <2>1, <3>1, <3>2 DEF Adds, At
    <2>5. AddsInv' /\ BatchInv'
      <3>1. reg \subseteq reg' /\ reg' \subseteq reg \cup {t}
        BY <2>3 DEF Attach
      <3>2. \A x \in Tgts : mem[x] = "freed" => mem'[x] = "freed"
        BY <2>3 DEF Attach, TypeInv
      <3>3. \A j \in Threads : th'[j].pc = "add" => th[j].pc = "add" /\ th'[j] = th[j] /\ th[j].t # t
        BY <2>1, <2>2 DEF At
      <3>4. AddsInv'
        BY <1>0, <3>1, <3>3 DEF AddsInv, At
      <3>5. \A k \in DOMAIN run.batch : run.batch[k].t \in Tgts
        BY BatchTgts
      <3>6. BatchInv'
        BY <1>0, <2>3, <3>1, <3>2, <3>5 DEF BatchInv
      <3>7. QED BY <3>4, <3>6
    <2>6. CASE ep.shut
      <3>1. UNCHANGED <<listed, reg>> /\ mem' = [mem EXCEPT ![t] = "freed"] /\ lbs' = lbs \ {t}
        BY <2>3, <2>6 DEF Attach
      <3>2. Lists' /\ Known'
        BY <1>0, <2>3, <3>1 DEF Lists, Known, TypeInv
      <3>3. Lives'
        <4>1. mem'[t] = "freed" /\ \A x \in Tgts : x # t => mem'[x] = mem[x]
          BY <2>1, <3>1 DEF TypeInv
        <4>2. QED BY <1>0, <2>2, <2>4, <3>1, <4>1 DEF Lives
      <3>4. QED BY <2>5, <3>2, <3>3, MemPartsNext
    <2>7. CASE ~ ep.shut
      <3>1. listed' = listed \cup {t} /\ reg' = reg \cup {t} /\ UNCHANGED <<mem, lbs>>
        BY <2>3, <2>7 DEF Attach
      <3>2. Lists' /\ Known'
        BY <1>0, <2>2, <2>3, <3>1 DEF Lists, Known
      <3>3. Lives'
        BY <1>0, <2>2, <2>4, <3>1 DEF Lives
      <3>4. QED BY <2>5, <3>2, <3>3, MemPartsNext
    <2>8. QED BY <2>6, <2>7
  <1>4. CASE sp_generic_term_by_fd(i)
    <2>1. Lists'
      BY <1>0, <1>4 DEF sp_generic_term_by_fd, Moved, Lists
    <2>2. th[i].pc = "rm" /\ th'[i].pc = "put" /\ \A j \in Threads : j # i => th'[j] = th[j]
      BY <1>2, <1>4, Tos DEF sp_generic_term_by_fd, At
    <2>3. UNCHANGED <<lbs, mem, reg, run>>
      BY <1>4 DEF sp_generic_term_by_fd
    <2>4. QED BY <1>1, <2>1, <2>2, <2>3 DEF At
  <1>5. CASE UNCHANGED <<listed, bad, lbs, mem, reg, run>>
    <2>0. Lists' /\ UNCHANGED <<lbs, mem, reg, run>>
      BY <1>0, <1>5 DEF Lists
    <2>1. ASSUME NEW pc \in ThPcs \ {"add"}, ~ At(i, "add"), To(i, pc) PROVE MemInv'
      <3>1. th'[i].pc = pc /\ \A j \in Threads : j # i => th'[j] = th[j]
        BY <2>1, Tos
      <3>2. QED BY <1>1, <2>0, <2>1, <3>1
    <2>2. CASE Send(i)
      <3>1. To(i, "put") \/ \E t \in Tgts : th' = [th EXCEPT ![i] = [pc |-> "xsend", t |-> t]]
        BY <2>2 DEF TypeInv, Send, bus_ep_send, pub_ep_send, sub_ep_send, reqep_send, repep_send, Chooses
      <3>2. ~ At(i, "add")
        BY <2>2 DEF Send, At
      <3>3. ASSUME NEW t \in Tgts, th' = [th EXCEPT ![i] = [pc |-> "xsend", t |-> t]] PROVE MemInv'
        <4>1. th'[i].pc = "xsend" /\ \A j \in Threads : j # i => th'[j] = th[j]
          BY <1>2, <3>3, Moves
        <4>2. QED BY <1>1, <2>0, <3>2, <4>1
      <3>4. QED BY <1>2, <2>1, <3>1, <3>2, <3>3
    <2>3. CASE Shutdown(i)
      <3>1. /\ th[i].pc = "close" /\ th'[i].pc = "put2"
            /\ \A j \in Threads : j # i => th'[j] = th[j] \/ (th[j].pc = "wait" /\ th'[j].pc = "recv")
        <4>1. th[i].pc = "close" /\ \A j \in Waiters : th[j].pc = "wait"
          BY <2>3 DEF Shutdown, Waiters, At
        <4>2. \A j \in Threads :
                th'[j] = IF j \in {i} THEN Is("put2") ELSE IF j \in Waiters THEN Is("recv") ELSE th[j]
          BY <2>3 DEF Shutdown, Wakes, ShutWakes
        <4>3. Is("put2").pc = "put2" /\ Is("recv").pc = "recv"
          BY DEF Is
        <4>4. QED BY <4>1, <4>2, <4>3
      <3>2. QED BY <1>1, <2>0, <3>1 DEF At
    <2>4. CASE ShutTest(i) \/ XSend(i) \/ Receive(i) \/ eid_put(i)
      <3>1. ~ At(i, "add") /\ (To(i, "put") \/ To(i, "idle") \/ To(i, "sendin") \/ To(i, "wait"))
        BY <2>4 DEF ShutTest, XSend, Receive, eid_put, At
      <3>2. QED BY <1>2, <2>1, <3>1
    <2>5. CASE epbase_add_tgtd(i) \/ sp_generic_term_by_fd(i)
      BY <1>3, <1>4, <2>5
    <2>6. QED BY <2>2, <2>3, <2>4, <2>5 DEF Proceeds
  <1>6. QED BY <1>3, <1>4, <1>5 DEF Proceeds, ShutTest, Send, XSend, Receive, Shutdown, eid_put, tgVars

LEMMA MemTerminate ==
  ASSUME TypeInv, TypeInv', MemInv, fault = "none", NEW ts \in SUBSET Tgts, Terminate(ts),
         \A t \in ts : t \in reg \/ mem[t] = "freed", bad' = {}, listed' = listed \ ts, bad \subseteq ts,
         UNCHANGED th, \A k \in DOMAIN run'.batch : \E n \in DOMAIN run.batch : run'.batch[k] = run.batch[n]
  PROVE  MemInv'
  <1>0. Lists /\ Lives /\ Known /\ AddsInv /\ BatchInv
    BY MemParts
  <1>1. \A t : Adds(t)' <=> Adds(t)
    BY DEF Adds, At
  <1>2. \A t \in ts : ~ Adds(t) /\ mem'[t] = "freed"
    <2>1. \A t : Adds(t) => t \notin reg
      BY <1>0 DEF Adds, AddsInv
    <2>2. \A t \in Tgts : Adds(t) => mem[t] = "live"
      BY <1>0 DEF Lives
    <2>3. QED BY <2>1, <2>2 DEF Terminate
  <1>3. reg' = reg \ ts /\ lbs' = lbs \ ts /\ \A t \in Tgts \ ts : mem'[t] = mem[t]
    BY DEF Terminate
  <1>4. Lists'
    BY <1>0, <1>3 DEF Lists
  <1>5. Lives'
    BY <1>0, <1>1, <1>2, <1>3 DEF Lives
  <1>6. Known' /\ AddsInv'
    BY <1>0, <1>3 DEF Known, AddsInv, At, TypeInv
  <1>7. BatchInv'
    <2>1. \A n \in DOMAIN run.batch : run.batch[n].t \in Tgts
      BY BatchTgts
    <2>2. \A n \in DOMAIN run.batch : run.batch[n].t \in reg' \/ mem'[run.batch[n].t] = "freed"
      BY <1>0, <1>2, <1>3, <2>1 DEF BatchInv
    <2>3. QED BY <2>2 DEF BatchInv
  <1>8. QED BY <1>4, <1>5, <1>6, <1>7, MemPartsNext

LEMMA MemListenerIn ==
  ASSUME TypeInv, TypeInv', MemInv, fault = "none", ListenerIn
  PROVE  MemInv'
  <1>0. /\ Lists /\ Lives /\ Known /\ AddsInv /\ BatchInv
        /\ mem \in [Tgts -> {"none", "live", "freed"}]
    BY MemParts DEF TypeInv
  <1>1. CASE UNCHANGED tgVars /\ GoesErr("end", "in" \in Cur.ev /\ Cur.t \in broken)
    <2>1. run.batch # <<>> /\ ("in" \in Cur.ev /\ Cur.t \in broken) \in BOOLEAN
      BY AtResult DEF ListenerIn
    <2>2. BatchInv => BatchInv'
      BY <1>1, <2>1, Errs, BatchKeep DEF tgVars
    <2>3. UNCHANGED <<listed, bad, lbs, mem, reg, th>>
      BY <1>1 DEF ListenerIn, tgVars
    <2>4. QED BY <2>2, <2>3, MemKeep DEF Lists, At
  <1>2. ASSUME fault' = "none", NEW t \in Connectors, Join(t), mem' = [mem EXCEPT ![t] = "live"],
               listed' = listed \cup {t}, reg' = reg \cup {t}, UNCHANGED <<bad, run, th>>
        PROVE  MemInv'
    <2>1. t \in Tgts /\ mem[t] = "none" /\ lbs' \subseteq lbs \cup {t}
      BY <1>2 DEF Join, Tgts
    <2>2. mem'[t] = "live" /\ \A x \in Tgts : x # t => mem'[x] = mem[x]
      BY <1>0, <1>2, <2>1
    <2>3. ~ Adds(t) /\ t \notin reg /\ \A x : Adds(x)' <=> Adds(x)
      BY <1>0, <1>2, <2>1 DEF Lives, Adds, At
    <2>4. Lists'
      BY <1>0, <1>2, <2>3 DEF Lists
    <2>5. Lives'
      BY <1>0, <1>2, <2>2, <2>3 DEF Lives
    <2>6. Known'
      BY <1>0, <2>1, <2>2 DEF Known, TypeInv
    <2>7. AddsInv'
      BY <1>0, <1>2, <2>3 DEF AddsInv, Adds, At
    <2>8. BatchInv'
      BY <1>0, <1>2, <2>1, <2>2, BatchTgts DEF BatchInv
    <2>9. QED BY <2>4, <2>5, <2>6, <2>7, <2>8, MemPartsNext
  <1>3. CASE fault' # "none"
    BY <1>3, MemPartsNext
  <1>4. QED BY <1>1, <1>2, <1>3 DEF ListenerIn

LEMMA MemRun ==
  ASSUME TypeInv, TypeInv', MemInv, fault = "none", sp_runner
  PROVE  MemInv'
  <1>0. Lists /\ Lives /\ Known /\ AddsInv /\ BatchInv
    BY MemParts
  <1>1. CASE Poll
    <2>1. UNCHANGED <<listed, bad, lbs, mem, reg, th>>
      BY <1>1 DEF Poll, tgVars
    <2>2. BatchInv'
      <3>1. CASE Goes("shutdown")
        BY <1>0, <2>1, <3>1, BatchKeep DEF Goes, TypeInv, Runner
      <3>2. QED BY <1>1, <2>1, <3>1, Polled DEF BatchInv
    <2>3. QED BY <2>1, <2>2, MemKeep DEF Lists, At
  <1>2. CASE ConnectorIn
    <2>1. UNCHANGED <<listed, bad, lbs, mem, reg>>
      BY <1>2 DEF ConnectorIn
    <2>2. BatchInv => BatchInv'
      <3>1. Goes(AfterIn) \/ \E e \in BOOLEAN : GoesErr(AfterIn, e)
        <4>1. ("in" \in Cur.ev /\ Cur.t \in broken) \in BOOLEAN
          OBVIOUS
        <4>2. QED BY <1>2, <4>1 DEF ConnectorIn
      <3>2. run.batch # <<>> /\ AfterIn \in {"out", "end"}
        BY <1>2, AtResult DEF ConnectorIn, AfterIn
      <3>3. QED BY <2>1, <3>1, <3>2, Errs, BatchKeep
    <2>3. \A j \in Threads : th'[j] = th[j] \/ (th[j].pc # "add" /\ th'[j].pc # "add")
      <3>1. CASE UNCHANGED th
        BY <3>1
      <3>2. CASE Deliver
        <4>1. \A j \in Threads : th'[j] = IF j \in Waiters THEN Is("recv") ELSE th[j]
          BY <3>2 DEF Deliver
        <4>2. Is("recv").pc = "recv" /\ \A j \in Waiters : th[j].pc = "wait"
          BY DEF Is, Waiters, At
        <4>3. QED BY <4>1, <4>2
      <3>3. QED BY <1>2, <3>1, <3>2 DEF ConnectorIn, Add, bus_ep_add, pub_ep_add, sub_ep_add
    <2>4. fault' = "none" => fault = "none"
      OBVIOUS
    <2>5. QED BY <2>1, <2>2, <2>3, <2>4, MemKeep DEF Lists, At
  <1>3. CASE ConnectorOut
    <2>1. UNCHANGED <<listed, bad, lbs, mem, reg, th>>
      BY <1>3 DEF ConnectorOut
    <2>2. (ls[Cur.t] > 0 /\ Cur.t \in broken) \in BOOLEAN /\ run.batch # <<>>
      BY <1>3, AtResult DEF ConnectorOut
    <2>3. BatchInv => BatchInv'
      BY <1>3, <2>1, <2>2, Errs, BatchKeep DEF ConnectorOut
    <2>4. QED BY <2>1, <2>3, MemKeep DEF Lists, At
  <1>4. CASE EventEnds
    <2>1. /\ run.batch \in Seq(Events) /\ run.batch # <<>> /\ Cur = run.batch[1]
          /\ Cur.t \in Tgts /\ 1 \in DOMAIN run.batch
      BY <1>4, AtResult DEF EventEnds
    <2> DEFINE ts == bad \cup (IF "err" \in Cur.ev THEN {Cur.t} ELSE {})
    <2>2. Cur.t \in reg \/ mem[Cur.t] = "freed"
      BY <1>0, <2>1 DEF BatchInv
    <2>3. ts \in SUBSET Tgts /\ bad \subseteq ts /\ \A t \in ts : t \in reg \/ mem[t] = "freed"
      BY <1>0, <2>1, <2>2 DEF Lists, TypeInv
    <2>4. /\ Terminate(ts) /\ bad' = {} /\ listed' = listed \ ts /\ UNCHANGED th
          /\ run'.batch = Tail(run.batch)
      BY <1>4 DEF EventEnds
    <2>5. \A k \in DOMAIN Tail(run.batch) : \E n \in DOMAIN run.batch : Tail(run.batch)[k] = run.batch[n]
      <3>1. \A q \in Seq(Events) : q # <<>> =>
              \A k \in DOMAIN Tail(q) : k + 1 \in DOMAIN q /\ Tail(q)[k] = q[k + 1]
        OBVIOUS
      <3>2. QED BY <2>1, <3>1
    <2> HIDE DEF ts
    <2>6. QED BY <2>3, <2>4, <2>5, MemTerminate
  <1>5. CASE shutdown_epbase /\ ep.queued
    <2>1. /\ Terminate(listed \cup bad) /\ bad' = {} /\ listed' = listed \ (listed \cup bad)
          /\ UNCHANGED th /\ Goes("poll")
      BY <1>5 DEF shutdown_epbase
    <2>2. run'.batch = run.batch
      BY <2>1 DEF Goes, TypeInv, Runner
    <2>3. (listed \cup bad) \in SUBSET Tgts /\ \A t \in listed \cup bad : t \in reg
      BY <1>0 DEF Lists, TypeInv
    <2>4. QED BY <2>1, <2>2, <2>3, MemTerminate
  <1>6. CASE shutdown_epbase /\ ~ ep.queued
    <2>1. UNCHANGED <<listed, bad, lbs, mem, reg, th>> /\ Goes("poll")
      BY <1>6 DEF shutdown_epbase
    <2>2. run'.batch = run.batch
      BY <2>1 DEF Goes, TypeInv, Runner
    <2>3. QED BY <2>1, <2>2, MemKeep, BatchKeep DEF Lists, At
  <1>7. QED BY <1>1, <1>2, <1>3, <1>4, <1>5, <1>6, MemListenerIn DEF sp_runner

LEMMA MemStep ==
  ASSUME TypeInv, TypeInv', MemInv, [Next]_vars
  PROVE  MemInv'
  <1>1. CASE UNCHANGED vars
    <2>1. UNCHANGED <<listed, bad, lbs, mem, reg, th, run, fault>>
      BY <1>1 DEF vars, tgVars
    <2>2. QED BY <2>1, MemKeep, BatchKeep DEF Lists, At
  <1>2. ASSUME NEW t \in Tgts, Arrive(t) \/ Break(t) PROVE MemInv'
    <2>1. UNCHANGED <<listed, bad, lbs, mem, reg, th, run, fault>>
      BY <1>2 DEF Arrive, Break, tgVars
    <2>2. QED BY <2>1, MemKeep, BatchKeep DEF Lists, At
  <1>3. QED BY <1>1, <1>2, MemBegin, MemProceed, MemRun DEF Next

----------------------------------------------------------------------------
(* References.                                                              *)

LEMMA CallsFinite ==
  /\ Calls \subseteq Threads /\ IsFiniteSet(Calls) /\ Cardinality(Calls) \in Nat
  /\ Closes \subseteq Threads /\ IsFiniteSet(Closes) /\ Cardinality(Closes) \in Nat
  /\ Closes \subseteq Calls
  <1>1. Calls \subseteq Threads /\ Closes \subseteq Threads /\ Closes \subseteq Calls
    BY DEF Calls, Closes, At
  <1>2. QED BY <1>1, SpAssumption, FS_Subset, FS_CardinalityType

\* A call that begins takes a reference, and sp_close the one of the descriptor too.
LEMMA RefsGet ==
  ASSUME TypeInv, RefsExact, NEW i \in Threads, NEW pc \in ThPcs \ {"idle", "put2"},
         NEW t \in Tgts \cup {None}, eid_get(i, pc, t), pc = "add" => t \in Tgts
  PROVE  RefsExact'
  <1>1. /\ ep'.st = "open" /\ ep'.shut = ep.shut /\ ep'.queued = ep.queued /\ ep'.ref = ep.ref + 1
        /\ th'[i].pc = pc /\ \A j \in Threads : j # i => th'[j] = th[j]
        /\ leaked' = leaked
    BY Gets
  <1>2. /\ ep.st = "open" /\ ~ Closing /\ th[i].pc = "idle" /\ ep.ref \in Int /\ leaked \in Nat
        /\ ep.queued \in BOOLEAN
    BY DEF eid_get, At, TypeInv, Eps
  <1>3. i \notin Calls /\ i \notin Closes /\ Calls' = Calls \cup {i}
    BY <1>1, <1>2 DEF Calls, Closes, At
  <1>4. Cardinality(Calls') = Cardinality(Calls) + 1
    BY <1>3, CallsFinite, FS_AddElement
  <1>5. /\ ep.ref = Cardinality(Calls) + Cardinality(Closes) + leaked + 1
        /\ ~ ep.queued
    BY <1>2, CallsFinite DEF RefsExact
  <1>6. CASE pc = "close"
    <2>1. Closes' = Closes \cup {i} /\ Closing'
      BY <1>1, <1>6 DEF Closes, Closing, At
    <2>2. Cardinality(Closes') = Cardinality(Closes) + 1
      BY <1>3, <2>1, CallsFinite, FS_AddElement
    <2>3. QED BY <1>1, <1>2, <1>4, <1>5, <2>1, <2>2, CallsFinite DEF RefsExact
  <1>7. CASE pc # "close"
    <2>1. Closes' = Closes /\ ~ Closing'
      BY <1>1, <1>2, <1>7 DEF Closes, Closing, At
    <2>2. QED BY <1>1, <1>2, <1>4, <1>5, <2>1, CallsFinite DEF RefsExact
  <1>8. QED BY <1>6, <1>7

\* A step that leaves the calls and the references as they are.
LEMMA RefsKeep ==
  ASSUME TypeInv, RefsExact, UNCHANGED <<ep, leaked>>,
         \A j \in Threads : \/ th'[j].pc = th[j].pc
                            \/ /\ {th[j].pc, th'[j].pc} \cap {"idle", "close", "put2"} = {}
  PROVE  RefsExact'
  <1>1. Calls' = Calls /\ Closes' = Closes /\ Closing' = Closing
    BY DEF Calls, Closes, Closing, At
  <1>2. \A i \in Threads : At(i, "idle")' <=> At(i, "idle")
    BY DEF At
  <1>3. QED BY <1>1, <1>2 DEF RefsExact

LEMMA RefsPut ==
  ASSUME TypeInv, RefsExact, ep.st = "open", NEW i \in Threads, eid_put(i)
  PROVE  RefsExact'
  <1>1. /\ ep.queued \in BOOLEAN /\ ep.ref \in Int /\ leaked \in Nat /\ th \in Threading
        /\ ep.shut \in BOOLEAN /\ ep \in Eps
    BY DEF TypeInv, Eps
  <1>2. leaked' = leaked /\ ep' = [ep EXCEPT !.ref = ep.ref - 1, !.queued = (ep.ref = 1)]
    BY DEF eid_put, LastPut
  <1>3. (ep.ref = 1) \in BOOLEAN
    OBVIOUS
  <1>4. /\ ep'.st = "open" /\ ep'.shut = ep.shut /\ ep'.ref = ep.ref - 1
        /\ ep'.queued = (ep.ref = 1)
    BY <1>1, <1>2, <1>3 DEF Eps
  <1>5. ep'.queued <=> ep'.ref = 0
    <2>1. ep'.ref = 0 <=> ep.ref = 1
      BY <1>1, <1>4
    <2>2. ep'.queued <=> ep.ref = 1
      BY <1>4, Zenon
    <2>3. QED BY <2>1, <2>2
  <1>6. ep.ref = Cardinality(Calls) + Cardinality(Closes) + leaked + (IF Closing THEN 0 ELSE 1)
    BY DEF RefsExact
  <1>7. /\ {th[i].pc, th'[i].pc} \subseteq {"put2", "put", "idle"}
        /\ \A j \in Threads : j # i => th'[j] = th[j]
    BY <1>1 DEF eid_put, To, Is, At, Threading
  <1>8. Closing' <=> Closing
    BY <1>4, <1>7 DEF Closing, At
  <1>9. CASE th[i].pc = "put2" /\ th'[i].pc = "put"
    <2>1. i \in Closes /\ Closes' = Closes \ {i} /\ Calls' = Calls
      BY <1>7, <1>9 DEF Calls, Closes, At
    <2>2. Cardinality(Closes') = Cardinality(Closes) - 1
      BY <2>1, CallsFinite, FS_RemoveElement
    <2>3. ep'.ref = Cardinality(Calls') + Cardinality(Closes') + leaked' + (IF Closing' THEN 0 ELSE 1)
      BY <1>1, <1>2, <1>4, <1>6, <1>8, <2>1, <2>2, CallsFinite
    <2>4. ep'.queued <=> ep'.st = "open" /\ ep'.ref = 0
      BY <1>4, <1>5
    <2>5. QED BY <1>4, <2>3, <2>4 DEF RefsExact
  <1>10. CASE th[i].pc = "put" /\ th'[i].pc = "idle"
    <2>1. i \in Calls /\ Calls' = Calls \ {i} /\ Closes' = Closes
      BY <1>7, <1>10 DEF Calls, Closes, At
    <2>2. Cardinality(Calls') = Cardinality(Calls) - 1
      BY <2>1, CallsFinite, FS_RemoveElement
    <2>3. ep'.ref = Cardinality(Calls') + Cardinality(Closes') + leaked' + (IF Closing' THEN 0 ELSE 1)
      BY <1>1, <1>2, <1>4, <1>6, <1>8, <2>1, <2>2, CallsFinite
    <2>4. ep'.queued <=> ep'.st = "open" /\ ep'.ref = 0
      BY <1>4, <1>5
    <2>5. QED BY <1>4, <2>3, <2>4 DEF RefsExact
  <1>11. QED BY <1>1, <1>9, <1>10 DEF eid_put, To, Is, At, Threading

\* A reference is put, or left behind by sp_send.
LEMMA RefsProceed ==
  ASSUME TypeInv, NoneInv, RefsExact, NEW i \in Threads, Proceeds(i)
  PROVE  RefsExact'
  <1>1. /\ ep \in Eps /\ leaked \in Nat /\ ep.queued \in BOOLEAN /\ ep.ref \in Int
        /\ ep.st \in {"none", "open", "freed"} /\ th \in Threading
    BY DEF TypeInv, Eps
  <1>2. i \in Calls /\ ep.st = "open"
    <2>1. th[i].pc # "idle"
      BY DEF Proceeds, At, epbase_add_tgtd, sp_generic_term_by_fd, ShutTest, Send, XSend, Receive,
             Shutdown, eid_put
    <2>2. QED BY <1>1, <2>1 DEF RefsExact, NoneInv, Calls, At
  <1>3. ASSUME NEW pc \in {"put", "sendin", "xsend", "wait"}, NEW t, UNCHANGED <<ep, leaked>>,
               th[i].pc \notin {"idle", "close", "put2"},
               th' = [th EXCEPT ![i] = [pc |-> pc, t |-> t]]
        PROVE  RefsExact'
    <2>1. th'[i].pc = pc /\ \A j \in Threads : j # i => th'[j] = th[j]
      BY <1>1, <1>3 DEF Threading
    <2>2. QED BY <1>3, <2>1, RefsKeep
  <1>4. ASSUME NEW pc \in {"put", "sendin", "wait"}, UNCHANGED <<ep, leaked>>,
               th[i].pc \notin {"idle", "close", "put2"}, To(i, pc)
        PROVE  RefsExact'
    BY <1>3, <1>4 DEF To, Is
  <1>5. CASE ShutTest(i) /\ ep.shut
    <2>1. /\ th[i].pc = "send" /\ th'[i].pc = "idle" /\ \A j \in Threads : j # i => th'[j] = th[j]
          /\ leaked' = leaked + 1 /\ ep' = ep
      BY <1>1, <1>5 DEF ShutTest, To, Is, At, Threading
    <2>2. Calls' = Calls \ {i} /\ Closes' = Closes /\ (Closing' <=> Closing)
      BY <2>1 DEF Calls, Closes, Closing, At
    <2>3. Cardinality(Calls') = Cardinality(Calls) - 1
      BY <1>2, <2>2, CallsFinite, FS_RemoveElement
    <2>4. QED BY <1>1, <1>2, <2>1, <2>2, <2>3, CallsFinite DEF RefsExact
  <1>6. CASE ShutTest(i) /\ ~ ep.shut
    BY <1>4, <1>6 DEF ShutTest, At
  <1>7. CASE Shutdown(i)
    <2>1. /\ ep'.st = "open" /\ ep'.shut /\ ep'.ref = ep.ref /\ ep'.queued = ep.queued
          /\ leaked' = leaked
      BY <1>1, <1>2, <1>7 DEF Shutdown, Eps
    <2>2. /\ th[i].pc = "close" /\ th'[i].pc = "put2"
          /\ \A j \in Threads : j # i => th'[j] = th[j] \/ (th[j].pc = "wait" /\ th'[j].pc = "recv")
      <3>1. th[i].pc = "close" /\ \A j \in Waiters : th[j].pc = "wait"
        BY <1>7 DEF Shutdown, Waiters, At
      <3>2. \A j \in Threads :
              th'[j] = IF j \in {i} THEN Is("put2") ELSE IF j \in Waiters THEN Is("recv") ELSE th[j]
        BY <1>7 DEF Shutdown, Wakes, ShutWakes
      <3>3. Is("put2").pc = "put2" /\ Is("recv").pc = "recv"
        BY DEF Is
      <3>4. QED BY <3>1, <3>2, <3>3
    <2>3. Calls' = Calls /\ Closes' = Closes /\ Closing /\ Closing'
      BY <2>1, <2>2 DEF Calls, Closes, Closing, At
    <2>4. QED BY <1>1, <1>2, <2>1, <2>3, CallsFinite DEF RefsExact
  <1>8. CASE Send(i)
    <2>1. To(i, "put") \/ \E t \in Tgts : th' = [th EXCEPT ![i] = [pc |-> "xsend", t |-> t]]
      BY <1>8 DEF TypeInv, Send, bus_ep_send, pub_ep_send, sub_ep_send, reqep_send, repep_send, Chooses
    <2>2. QED BY <1>3, <1>4, <1>8, <2>1 DEF Send, At, epVars
  <1>9. CASE epbase_add_tgtd(i) \/ sp_generic_term_by_fd(i) \/ XSend(i) \/ Receive(i)
    BY <1>4, <1>9 DEF epbase_add_tgtd, sp_generic_term_by_fd, XSend, Receive, At, epVars
  <1>10. QED BY <1>2, <1>5, <1>6, <1>7, <1>8, <1>9, RefsPut DEF Proceeds

LEMMA RefsRun ==
  ASSUME TypeInv, RefsExact, sp_runner
  PROVE  RefsExact'
  <1>1. CASE Deliver /\ UNCHANGED <<ep, leaked>>
    <2>1. \A j \in Threads : th'[j] = IF j \in Waiters THEN Is("recv") ELSE th[j]
      BY <1>1 DEF Deliver
    <2>2. Is("recv").pc = "recv" /\ \A j \in Waiters : th[j].pc = "wait"
      BY DEF Is, Waiters, At
    <2>3. QED BY <1>1, <2>1, <2>2, RefsKeep
  <1>2. CASE ConnectorIn
    BY <1>1, <1>2, RefsKeep DEF ConnectorIn, Add, bus_ep_add, pub_ep_add, sub_ep_add, epVars
  <1>3. CASE shutdown_epbase /\ ep.queued
    <2>1. /\ ep.st = "open" /\ ep.ref = 0 /\ ep.ref \in Int /\ leaked \in Nat /\ ep \in Eps
      BY <1>3 DEF RefsExact, TypeInv, Eps
    <2>2. /\ ep'.st = "freed" /\ ep'.shut = ep.shut /\ ep'.ref = 0 /\ ~ ep'.queued
          /\ leaked' = leaked /\ th' = th
      BY <1>3, <2>1 DEF shutdown_epbase, Eps
    <2>3. Calls' = Calls /\ Closes' = Closes /\ (Closing' <=> Closing)
      BY <2>2 DEF Calls, Closes, Closing, At
    <2>4. ep.ref = Cardinality(Calls) + Cardinality(Closes) + leaked + (IF Closing THEN 0 ELSE 1)
      BY <2>1 DEF RefsExact
    <2>5. Cardinality(Calls) = 0
      BY <2>1, <2>4, CallsFinite
    <2>6. \A j \in Threads : At(j, "idle")'
      BY <2>2, <2>5, CallsFinite, FS_EmptySet DEF Calls, At
    <2>7. QED BY <2>1, <2>2, <2>3, <2>4, <2>6 DEF RefsExact
  <1>4. CASE shutdown_epbase /\ ~ ep.queued
    BY <1>4, RefsKeep DEF shutdown_epbase
  <1>5. QED BY <1>2, <1>3, <1>4, RefsKeep
     DEF sp_runner, Poll, ConnectorOut, ListenerIn, EventEnds, epVars

LEMMA RefsStep ==
  ASSUME TypeInv, NoneInv, RefsExact, [Next]_vars
  PROVE  RefsExact'
  <1>1. CASE UNCHANGED vars
    BY <1>1, RefsKeep DEF vars, epVars
  <1>2. ASSUME NEW t \in Tgts, Arrive(t) \/ Break(t) PROVE RefsExact'
    BY <1>2, RefsKeep DEF Arrive, Break, epVars
  <1>3. ASSUME NEW i \in Threads, Begins(i) PROVE RefsExact'
    <2>1. CASE sp_endpoint(i)
      <3>1. /\ \A j \in Threads : th[j].pc = "idle" /\ th'[j].pc = "idle"
            /\ ep'.ref = 1 /\ ep'.st = "open" /\ ~ ep'.shut /\ ~ ep'.queued /\ leaked' = 0
        BY <2>1 DEF sp_endpoint, NoneInv, At
      <3>2. Calls' = {} /\ Closes' = {} /\ ~ Closing'
        BY <3>1 DEF Calls, Closes, Closing, At
      <3>3. QED BY <3>1, <3>2, FS_EmptySet DEF RefsExact
    <2>2. {"add", "rm", "send", "recv", "close"} \subseteq ThPcs \ {"idle", "put2"}
      BY DEF ThPcs
    <2>3. CASE sp_add(i)
      BY <2>2, <2>3, RefsGet DEF sp_add
    <2>4. CASE sp_rm(i)
      <3>1. PICK t \in Tgts : eid_get(i, "rm", t)
        BY <2>4 DEF sp_rm, TypeInv
      <3>2. QED BY <2>2, <3>1, RefsGet
    <2>5. QED BY <1>3, <2>1, <2>2, <2>3, <2>4, RefsGet DEF Begins, sp_send, sp_recv, sp_close
  <1>4. QED BY <1>1, <1>2, <1>3, RefsProceed, RefsRun DEF Next

----------------------------------------------------------------------------
(* The theorems.                                                            *)

\* The inductive invariant: types, an endpoint that is not there has nothing, and the
\* four properties with the facts about calls and poll results they rest on.
THEOREM EndpointSound == Spec => []IInv
  <1>1. Init => IInv
    <2> SUFFICES ASSUME Init PROVE IInv
      OBVIOUS
    <2>1. /\ \A i \in Threads : th[i].pc = "idle"
          /\ run = [pc |-> "poll", batch |-> <<>>]
          /\ ep.st = "none" /\ ~ ep.queued /\ ~ ep.shut /\ ep.ref = 0
      BY DEF Init, Is
    <2>2. TypeInv
      <3>1. th \in Threading
        BY DEF Init, Is, Threading, ThPcs
      <3>2. run \in Runner /\ ep \in Eps
        BY DEF Init, Runner, Eps
      <3>3. QED BY <2>1, <3>1, <3>2 DEF Init, TypeInv, At
    <2>3. NoneInv /\ QueueInv
      BY <2>1 DEF Init, NoneInv, QueueInv, At, Runs
    <2>4. MemInv
      BY <2>1 DEF Init, MemInv, TargetsSound, AddsInv, BatchInv, At
    <2>5. RefsExact /\ SleepJustified
      BY <2>1 DEF RefsExact, SleepJustified, Waiters, At
    <2>6. QED BY <2>2, <2>3, <2>4, <2>5 DEF IInv
  <1>2. IInv /\ [Next]_vars => IInv'
    BY TypesStep, NoneStep, QueueStep, SleepStep, MemStep, RefsStep DEF IInv
  <1>3. QED BY <1>1, <1>2, PTL DEF Spec

\* Every target is in one list or being added by one thread while its memory is there,
\* and nothing that can be reached is freed (sp_rm.c:28-65, sp_module.c:124-140).
THEOREM TargetsKept == Spec => []TargetsSound
  <1>1. IInv => TargetsSound
    BY DEF IInv, MemInv
  <1>2. QED BY <1>1, EndpointSound, PTL

\* No message stays queued at a connector whose POLLOUT is off (sp_module.h:117-133).
THEOREM NothingStranded == Spec => []NoStranded
  <1>1. IInv => NoStranded
    BY DEF IInv, TypeInv, QueueInv, NoStranded
  <1>2. QED BY <1>1, EndpointSound, PTL

\* The reference count is that of the calls under way (sp_module.c:291-316).
THEOREM RefsCounted == Spec => []RefsExact
  <1>1. IInv => RefsExact
    BY DEF IInv
  <1>2. QED BY <1>1, EndpointSound, PTL

\* Nobody sleeps in sp_recv beside a message or after the close (sp_recv.c:34-58).
THEOREM SleepersJustified == Spec => []SleepJustified
  <1>1. IInv => SleepJustified
    BY DEF IInv
  <1>2. QED BY <1>1, EndpointSound, PTL
=============================================================================
