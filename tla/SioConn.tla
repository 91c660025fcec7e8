------------------------------ MODULE SioConn ------------------------------
(***************************************************************************)
(* A stream-socket connector of xio (src/socket/sio/sio.c): the user       *)
(* threads inside xsend, xrecv and xclose, the event-loop thread that owns *)
(* the descriptor, the signal queue (src/ev/ev.c, ev_sig) by which the     *)
(* users tell the loop what they did, and the kernel stream to the peer.   *)
(*                                                                         *)
(* One action is one critical section of sb->lock, or one call that takes  *)
(* no lock (a system call, a step of the loop).  A message is a value with *)
(* a size; the bytes of a message on the wire are one final fragment,      *)
(* preceded by a first fragment when the kernel took only a part of it.    *)
(***************************************************************************)
EXTENDS Integers, Sequences, FiniteSets

CONSTANTS
  Senders,      \* user threads that call xsend
  Receivers,    \* user threads that call xrecv
  Closers,      \* user threads that may call xclose (the first one does)
  Out,          \* messages the users send, each at most once
  In,           \* messages the peer sends, each at most once
  Usize,        \* usize(ubuf) of every message
  SndWnd,       \* sb->snd.wnd (XSNDBUF)
  RcvWnd,       \* sb->rcv.wnd (XRCVBUF)
  WireCap,      \* fragments the kernel buffers before EAGAIN
  NonBlock      \* sb->flagset.non_block (XNOBLOCK)

Threads == Senders \cup Receivers \cup Closers
Msg == Out \cup In

ASSUME ConstAssumption ==
  /\ IsFiniteSet(Threads)
  /\ Usize \in [Msg -> Nat]
  /\ SndWnd \in Nat
  /\ RcvWnd \in Nat
  /\ WireCap \in Nat \ {0}
  /\ NonBlock \in BOOLEAN

VARIABLES
  pc,        \* where each user thread is
  arg,       \* the message a thread inside xsend carries
  unsent,    \* messages of Out not handed to xsend yet
  unput,     \* messages of In the peer has not sent yet
  open,      \* the user has not called xclose yet
  ref,       \* sb->ref
  snd,       \* sb->snd, oldest first
  part,      \* a first fragment of Head(snd) is written (msg->soff > 0)
  rcv,       \* sb->rcv, oldest first
  epipe,     \* sb->flagset.epipe
  sendLock,  \* tcps->flagset.send_lock
  evr, evw,  \* EV_READ, EV_WRITE in tcps->et.events
  sig,       \* tcps->sig.signals
  efd,       \* unread words in tcps->sig.efd
  reg,       \* descriptors registered with the loop
  task,      \* EV_DEL tasks posted to the loop
  lpc,       \* where the loop thread is
  todo,      \* ready descriptors of this epoll_wait not dispatched yet
  rdy,       \* ready_events of the connector's descriptor
  back,      \* where sio_connector_hndl returns to
  lrc,       \* rc and errno in sio_connector_hndl
  wrote,     \* what the last sendmsg of the loop took
  rbuf,      \* tcps->rbuf: fragments read and not deserialized
  win, wout, \* the kernel stream from and to the peer
  link       \* "up", or "down" once the peer or this side has closed it

userVars == <<pc, arg, unsent, open, ref>>
sbVars   == <<snd, part, rcv, epipe>>
evVars   == <<sendLock, evr, evw>>
sigVars  == <<sig, efd>>
loopVars == <<lpc, todo, rdy, back, lrc, wrote>>
netVars  == <<rbuf, win, wout, link, unput>>
vars == <<userVars, sbVars, evVars, sigVars, reg, task, loopVars, netVars>>

NoMsg == "none"
NoWrite == [n |-> 0, part |-> FALSE]
Frag(S) == [msg : S, last : BOOLEAN]
Signals == {"SNDBUF_ADD", "RCVBUF_FULL", "RCVBUF_NONFULL"}
UserPcs == {"idle", "send", "send_wait", "send_woken",
            "recv", "recv_wait", "recv_woken", "ret", "xclose", "put2",
            "unsig", "unsig_wait", "del_wait", "flush", "free"}
LoopPcs == {"top", "wait", "disp", "sig", "full", "nonfull", "unsig", "read",
            "deser", "lock", "write", "install", "unlock", "err"}

\* bh->size of a queue of messages.
SizeOf(q) ==
  LET sum[i \in 0..Len(q)] == IF i = 0 THEN 0 ELSE sum[i-1] + Usize[q[i]]
  IN  sum[Len(q)]

----------------------------------------------------------------------------
(* Faults.  Nothing below uses these: each is the form that a plausible    *)
(* bug would give to the definition its name begins with, and a run in     *)
(* which it takes that definition's place violates the property named.     *)

\* RecvProgress: an empty queue counts as full.
RcvFull_early(q) == RcvWnd <= SizeOf(q) + 1

\* ReadMatchesWindow: the last signal overtakes the others.
ev_signal_front(s) ==
  sig' = <<s>> \o sig /\ efd' = IF sig = <<>> THEN efd + 1 ELSE efd

\* SendProgress: the event descriptor is not written.
ev_signal_mute(s) == sig' = Append(sig, s) /\ efd' = efd

\* NoLostWakeup: receivers are not woken.
Woken_send == [t \in Threads |-> IF pc[t] = "send_wait" THEN "send_woken" ELSE pc[t]]

\* SendersReturn: senders are not woken.
Woken_recv == [t \in Threads |-> IF pc[t] = "recv_wait" THEN "recv_woken" ELSE pc[t]]

\* TeardownAlone: the first xput after xclose tears the socket down.
AfterPut_now(n) == IF open THEN "idle" ELSE "unsig"

\* CloseCompletes: dropping two references at once is not noticed.
AfterPut_lost(n) == IF ref = 1 THEN "unsig" ELSE "idle"

\* StreamIntact: a message that was sent in part counts as sent.
Rest_begun(q, w) == SubSeq(q, w.n + (IF w.part THEN 2 ELSE 1), Len(q))

\* SignalsReadable: the event descriptor is drained whatever has come since.
ev_unsignal_all ==
  /\ lpc = "unsig"
  /\ efd' = 0
  /\ lpc' = "disp"
  /\ UNCHANGED <<userVars, sbVars, evVars, sig, reg, task, todo, rdy, back,
                 lrc, wrote, netVars>>

\* NoStrandedSend: EV_WRITE is switched off, and never on.
UnlockSend_off ==
  /\ lpc = "unlock"
  /\ sendLock' = FALSE
  /\ evw' = (evw /\ snd # <<>>)
  /\ lpc' = IF lrc = "err" THEN "err" ELSE back
  /\ UNCHANGED <<userVars, sbVars, evr, sigVars, reg, task, todo, rdy, back, lrc,
                 wrote, netVars>>

----------------------------------------------------------------------------
(* Queues, signals, wakeups and writes.                                    *)

msgbuf_can_in(q) == q = <<>> \/ SizeOf(q) < SndWnd
RcvFull(q) == RcvWnd <= SizeOf(q)

\* ev_signal: the event descriptor is written only when no signal is queued.
ev_signal(s) ==
  /\ sig' = Append(sig, s)
  /\ efd' = IF sig = <<>> THEN efd + 1 ELSE efd

\* condition_broadcast(&sb->cond), as a new value of pc.
Woken == [t \in Threads |-> IF pc[t] = "send_wait" THEN "send_woken"
                            ELSE IF pc[t] = "recv_wait" THEN "recv_woken"
                            ELSE pc[t]]
SndWaiters == {t \in Threads : pc[t] \in {"send_wait", "send_woken"}}
RcvWaiters == {t \in Threads : pc[t] \in {"recv_wait", "recv_woken"}}

\* The last reference is dropped by the thread that tears the socket down.
AfterPut(n) == IF ref = n THEN "unsig" ELSE "idle"

\* What one sendmsg of the queue q may take: n whole messages, and a first part
\* of the next one.  A message already begun (part) is finished by the next
\* write: further partial writes of it change nothing that is modelled.
Writes(q) == {w \in [n : 0..Len(q), part : BOOLEAN] :
                /\ w.n > 0 \/ (w.part /\ ~part)
                /\ w.part => w.n < Len(q)}
Frags(q, w) == [i \in 1..w.n |-> [msg |-> q[i], last |-> TRUE]]
               \o (IF w.part THEN <<[msg |-> q[w.n + 1], last |-> FALSE]>> ELSE <<>>)
Fits(q, w) == Len(wout) + Len(Frags(q, w)) <= WireCap
Rest(q, w) == SubSeq(q, w.n + 1, Len(q))

\* The final fragment of the message rbuf begins with is at this index; rbuf
\* holds the whole message when it reaches so far.
LastFrag == IF Head(rbuf).last THEN 1 ELSE 2
HasWhole == rbuf # <<>> /\ LastFrag <= Len(rbuf)

----------------------------------------------------------------------------
(* User threads: xsend, xrecv, xclose.                                     *)

\* xsend: xget, then vfptr->send.
xsend(t) ==
  /\ t \in Senders /\ pc[t] = "idle" /\ ref > 0
  /\ \E m \in unsent : arg' = [arg EXCEPT ![t] = m] /\ unsent' = unsent \ {m}
  /\ ref' = ref + 1
  /\ pc' = [pc EXCEPT ![t] = "send"]
  /\ UNCHANGED <<open, sbVars, evVars, sigVars, reg, task, loopVars, netVars>>

\* snd_msgbuf_head_add, blocked: condition_wait releases the lock.
SndWait(t) ==
  /\ pc[t] \in {"send", "send_woken"}
  /\ ~epipe /\ ~msgbuf_can_in(snd) /\ ~NonBlock
  /\ pc' = [pc EXCEPT ![t] = "send_wait"]
  /\ UNCHANGED <<arg, unsent, open, ref, sbVars, evVars, sigVars, reg, task,
                 loopVars, netVars>>

\* snd_msgbuf_head_add, the rest: the message is queued in every case, with
\* sndhead_add_ev_usignal called from msgbuf_head_in.
snd_msgbuf_head_add(t) ==
  /\ pc[t] \in {"send", "send_woken"}
  /\ epipe \/ msgbuf_can_in(snd) \/ NonBlock
  /\ snd' = Append(snd, arg[t])
  /\ arg' = [arg EXCEPT ![t] = NoMsg]
  /\ IF ~sendLock /\ ~evw THEN ev_signal("SNDBUF_ADD") ELSE UNCHANGED sigVars
  /\ pc' = [pc EXCEPT ![t] = "ret"]
  /\ UNCHANGED <<unsent, open, ref, part, rcv, epipe, evVars, reg, task,
                 loopVars, netVars>>

\* xrecv: xget, then vfptr->recv.
xrecv(t) ==
  /\ t \in Receivers /\ pc[t] = "idle" /\ ref > 0
  /\ ref' = ref + 1
  /\ pc' = [pc EXCEPT ![t] = "recv"]
  /\ UNCHANGED <<arg, unsent, open, sbVars, evVars, sigVars, reg, task,
                 loopVars, netVars>>

\* rcv_msgbuf_head_rm, blocked.
RcvWait(t) ==
  /\ pc[t] \in {"recv", "recv_woken"}
  /\ ~epipe /\ rcv = <<>> /\ ~NonBlock
  /\ pc' = [pc EXCEPT ![t] = "recv_wait"]
  /\ UNCHANGED <<arg, unsent, open, ref, sbVars, evVars, sigVars, reg, task,
                 loopVars, netVars>>

\* rcv_msgbuf_head_rm, a message or EPIPE/EAGAIN; msgbuf_head_out signals
\* nonfull whenever the rest of the queue is below the window.
rcv_msgbuf_head_rm(t) ==
  /\ pc[t] \in {"recv", "recv_woken"}
  /\ epipe \/ rcv # <<>> \/ NonBlock
  /\ IF rcv = <<>>
     THEN UNCHANGED <<rcv, sigVars>>
     ELSE /\ rcv' = Tail(rcv)
          /\ IF RcvFull(Tail(rcv)) THEN UNCHANGED sigVars
                                   ELSE ev_signal("RCVBUF_NONFULL")
  /\ pc' = [pc EXCEPT ![t] = "ret"]
  /\ UNCHANGED <<arg, unsent, open, ref, snd, part, epipe, evVars, reg, task,
                 loopVars, netVars>>

\* xput at the end of xsend and xrecv.
xput(t) ==
  /\ pc[t] = "ret"
  /\ ref' = ref - 1
  /\ pc' = [pc EXCEPT ![t] = AfterPut(1)]
  /\ UNCHANGED <<arg, unsent, open, sbVars, evVars, sigVars, reg, task,
                 loopVars, netVars>>

\* xclose: xget.
xclose(t) ==
  /\ t \in Closers /\ pc[t] = "idle" /\ open
  /\ open' = FALSE
  /\ ref' = ref + 1
  /\ pc' = [pc EXCEPT ![t] = "xclose"]
  /\ UNCHANGED <<arg, unsent, sbVars, evVars, sigVars, reg, task, loopVars,
                 netVars>>

\* __xclose: break the connection and wake everyone who waits on it.
__xclose(t) ==
  /\ pc[t] = "xclose"
  /\ epipe' = TRUE
  /\ pc' = [Woken EXCEPT ![t] = "put2"]
  /\ UNCHANGED <<arg, unsent, open, ref, snd, part, rcv, evVars, sigVars, reg,
                 task, loopVars, netVars>>

\* The xput of __xclose (the reference of the open descriptor) and of xclose.
xcloseput(t) ==
  /\ pc[t] = "put2"
  /\ ref' = ref - 2
  /\ pc' = [pc EXCEPT ![t] = AfterPut(2)]
  /\ UNCHANGED <<arg, unsent, open, sbVars, evVars, sigVars, reg, task,
                 loopVars, netVars>>

----------------------------------------------------------------------------
(* sio_connector_close, in the thread that dropped the last reference.     *)

\* ev_fdset_unsighndl: post EV_DEL of the signal descriptor and wait for it.
unsighndl(t) ==
  /\ pc[t] = "unsig"
  /\ task' = {"sig"}
  /\ pc' = [pc EXCEPT ![t] = "unsig_wait"]
  /\ UNCHANGED <<arg, unsent, open, ref, sbVars, evVars, sigVars, reg,
                 loopVars, netVars>>

\* ... then ev_fdset_ctl(EV_DEL) of the connector's descriptor.
del(t) ==
  /\ pc[t] = "unsig_wait" /\ task = {}
  /\ task' = {"fd"}
  /\ pc' = [pc EXCEPT ![t] = "del_wait"]
  /\ UNCHANGED <<arg, unsent, open, ref, sbVars, evVars, sigVars, reg,
                 loopVars, netVars>>

deldone(t) ==
  /\ pc[t] = "del_wait" /\ task = {}
  /\ pc' = [pc EXCEPT ![t] = "flush"]
  /\ UNCHANGED <<arg, unsent, open, ref, sbVars, evVars, sigVars, reg, task,
                 loopVars, netVars>>

\* flush_snd_msgbuf by the closing thread, one __simple_send that takes
\* something: no other thread can reach the socket any more.
FlushSome(t) ==
  /\ pc[t] = "flush" /\ link = "up"
  /\ \E w \in Writes(snd) :
       /\ Fits(snd, w)
       /\ wout' = wout \o Frags(snd, w)
       /\ snd' = Rest(snd, w)
       /\ part' = w.part
  /\ UNCHANGED <<userVars, rcv, epipe, evVars, sigVars, reg, task, loopVars,
                 rbuf, win, link, unput>>

\* ... its last one: nothing to send, EAGAIN or EPIPE.
FlushEnd(t) ==
  /\ pc[t] = "flush"
  /\ snd = <<>> \/ link = "down" \/ Len(wout) = WireCap
  /\ pc' = [pc EXCEPT ![t] = "free"]
  /\ UNCHANGED <<arg, unsent, open, ref, sbVars, evVars, sigVars, reg, task,
                 loopVars, netVars>>

\* rex_sock_destroy, ev_sig_term and sockbase_exit.
sockbase_exit(t) ==
  /\ pc[t] = "free"
  /\ link' = "down"
  /\ snd' = <<>> /\ rcv' = <<>> /\ part' = FALSE
  /\ sig' = <<>> /\ efd' = 0
  /\ pc' = [pc EXCEPT ![t] = "idle"]
  /\ UNCHANGED <<arg, unsent, open, ref, epipe, evVars, reg, task, loopVars,
                 rbuf, win, wout, unput>>

----------------------------------------------------------------------------
(* The event-loop thread: ev_fdset_poll and the handlers it calls.         *)

Goto(l) == lpc' = l

\* Run the posted tasks before waiting: __ev_fdset_ctl(EV_DEL).  The locals of
\* the last round are dead and get their initial values.
RunTasks ==
  /\ lpc = "top"
  /\ reg' = reg \ task
  /\ task' = {}
  /\ rdy' = {} /\ back' = "disp" /\ lrc' = "ok"
  /\ Goto("wait")
  /\ UNCHANGED <<userVars, sbVars, evVars, sigVars, todo, wrote, netVars>>

\* epoll_wait: the ready descriptors, or a timeout when there is none.  Of a
\* descriptor that is registered EPOLLERR and EPOLLHUP, which count as EV_READ,
\* are reported whatever its events are; not every closed link raises them.
eventpoll_wait ==
  /\ lpc = "wait"
  /\ \E hup \in {FALSE, link = "down"} :
       LET reads  == \/ hup
                     \/ evr /\ (win # <<>> \/ link = "down")
           writes == evw /\ (Len(wout) < WireCap \/ link = "down")
       IN  /\ rdy' = IF "fd" \in reg
                     THEN {e \in {"R", "W"} : IF e = "R" THEN reads ELSE writes}
                     ELSE {}
           /\ todo' = {f \in reg : IF f = "sig" THEN efd > 0 ELSE rdy' # {}}
  /\ Goto(IF todo' = {} THEN "top" ELSE "disp")
  /\ UNCHANGED <<userVars, sbVars, evVars, sigVars, reg, task, back, lrc,
                 wrote, netVars>>

\* The next ready descriptor, in either order, or the end of the batch.
Dispatch ==
  /\ lpc = "disp"
  /\ \/ /\ todo = {}
        /\ Goto("top")
        /\ UNCHANGED <<todo, back>>
     \/ /\ "sig" \in todo
        /\ todo' = todo \ {"sig"}
        /\ Goto("sig")
        /\ UNCHANGED back
     \/ /\ "fd" \in todo
        /\ todo' = todo \ {"fd"}
        /\ back' = "disp"
        /\ Goto(IF "R" \in rdy THEN "read" ELSE "lock")
  /\ UNCHANGED <<userVars, sbVars, evVars, sigVars, reg, task, rdy, lrc,
                 wrote, netVars>>

\* ev_sigfd_hndl: take one signal and call sio_usignal_hndl with it.
ev_get_signals ==
  /\ lpc = "sig"
  /\ IF sig = <<>>
     THEN Goto("unsig") /\ UNCHANGED <<sig, back>>
     ELSE /\ sig' = Tail(sig)
          /\ back' = "sig"
          /\ \/ Head(sig) = "SNDBUF_ADD" /\ Goto("lock")
             \/ Head(sig) = "RCVBUF_FULL" /\ Goto("full")
             \/ Head(sig) = "RCVBUF_NONFULL" /\ Goto("nonfull")
  /\ UNCHANGED <<userVars, sbVars, evVars, efd, reg, task, todo, rdy, lrc,
                 wrote, netVars>>

\* Drain the event descriptor, or take one word when a signal has come since.
ev_unsignal ==
  /\ lpc = "unsig"
  /\ efd' = IF sig = <<>> \/ efd = 0 THEN 0 ELSE efd - 1
  /\ Goto("disp")
  /\ UNCHANGED <<userVars, sbVars, evVars, sig, reg, task, todo, rdy, back,
                 lrc, wrote, netVars>>

try_disable_ev_read ==
  /\ lpc = "full"
  /\ evr' = FALSE
  /\ Goto("sig")
  /\ UNCHANGED <<userVars, sbVars, sendLock, evw, sigVars, reg, task, todo, rdy,
                 back, lrc, wrote, netVars>>

try_enable_ev_read ==
  /\ lpc = "nonfull"
  /\ evr' = TRUE
  /\ Goto("sig")
  /\ UNCHANGED <<userVars, sbVars, sendLock, evw, sigVars, reg, task, todo, rdy,
                 back, lrc, wrote, netVars>>

\* sio_connector_rcv, bio_prefetch: read until EAGAIN, the end or an error.
bio_prefetch ==
  /\ lpc = "read"
  /\ rbuf' = rbuf \o win
  /\ win' = <<>>
  /\ lrc' = IF win = <<>> /\ link = "down" THEN "err" ELSE "ok"
  /\ Goto("deser")
  /\ UNCHANGED <<userVars, sbVars, evVars, sigVars, reg, task, todo, rdy, back,
                 wrote, wout, link, unput>>

\* msgbuf_deserialize and rcv_msgbuf_head_add of one whole message; the queue
\* takes it whatever its window is.
rcv_msgbuf_head_add ==
  /\ lpc = "deser" /\ lrc = "ok"
  /\ HasWhole
  /\ rcv' = Append(rcv, rbuf[LastFrag].msg)
  /\ rbuf' = SubSeq(rbuf, LastFrag + 1, Len(rbuf))
  /\ pc' = IF RcvWaiters # {} THEN Woken ELSE pc
  /\ IF RcvFull(rcv') THEN ev_signal("RCVBUF_FULL") ELSE UNCHANGED sigVars
  /\ UNCHANGED <<arg, unsent, open, ref, snd, part, epipe, evVars, reg, task,
                 loopVars, win, wout, link, unput>>

\* No whole message is left: go on with EV_WRITE if it is ready too.
ReadEnd ==
  /\ lpc = "deser"
  /\ lrc = "err" \/ ~HasWhole
  /\ Goto(IF "W" \in rdy THEN "lock" ELSE IF lrc = "err" THEN "err" ELSE back)
  /\ UNCHANGED <<userVars, sbVars, evVars, sigVars, reg, task, todo, rdy, back,
                 lrc, wrote, netVars>>

sio_lock_send ==
  /\ lpc = "lock"
  /\ sendLock' = TRUE
  /\ Goto("write")
  /\ UNCHANGED <<userVars, sbVars, evr, evw, sigVars, reg, task, todo, rdy, back,
                 lrc, wrote, netVars>>

\* flush_snd_msgbuf, one __simple_send: preinstall the iovs and sendmsg.
SendSome ==
  /\ lpc = "write" /\ link = "up"
  /\ \E w \in Writes(snd) :
       /\ Fits(snd, w)
       /\ wout' = wout \o Frags(snd, w)
       /\ wrote' = w
  /\ Goto("install")
  /\ UNCHANGED <<userVars, sbVars, evVars, sigVars, reg, task, todo, rdy, back,
                 lrc, rbuf, win, link, unput>>

\* ... the last one of the flush; rc overwrites that of the read.
SendEnd ==
  /\ lpc = "write"
  /\ snd = <<>> \/ link = "down" \/ Len(wout) = WireCap
  /\ lrc' = IF snd # <<>> /\ link = "down" THEN "err" ELSE "ok"
  /\ Goto("unlock")
  /\ UNCHANGED <<userVars, sbVars, evVars, sigVars, reg, task, todo, rdy, back,
                 wrote, netVars>>

\* sndhead_install_iovs: drop what was written, __snd_msgbuf_head_rm wakes the
\* threads that wait.
sndhead_install_iovs ==
  /\ lpc = "install"
  /\ snd' = Rest(snd, wrote)
  /\ part' = wrote.part
  /\ pc' = IF wrote.n > 0 /\ SndWaiters # {} THEN Woken ELSE pc
  /\ wrote' = NoWrite
  /\ Goto("write")
  /\ UNCHANGED <<arg, unsent, open, ref, rcv, epipe, evVars, sigVars, reg, task,
                 todo, rdy, back, lrc, netVars>>

\* The end of the EV_WRITE part of sio_connector_hndl.
UnlockSend ==
  /\ lpc = "unlock"
  /\ sendLock' = FALSE
  /\ evw' = (snd # <<>>)
  /\ Goto(IF lrc = "err" THEN "err" ELSE back)
  /\ UNCHANGED <<userVars, sbVars, evr, sigVars, reg, task, todo, rdy, back, lrc,
                 wrote, netVars>>

\* A hard error: the connection is broken and everyone who waits is woken.
SetEpipe ==
  /\ lpc = "err"
  /\ epipe' = TRUE
  /\ pc' = IF SndWaiters \cup RcvWaiters # {} THEN Woken ELSE pc
  /\ Goto(back)
  /\ UNCHANGED <<arg, unsent, open, ref, snd, part, rcv, evVars, sigVars, reg,
                 task, todo, rdy, back, lrc, wrote, netVars>>

----------------------------------------------------------------------------
(* The peer and the kernel, external to the code.                          *)

peerOthers == <<userVars, sbVars, evVars, sigVars, reg, task, loopVars, rbuf>>

PeerTake ==
  /\ wout # <<>>
  /\ wout' = Tail(wout)
  /\ UNCHANGED <<peerOthers, win, link, unput>>

\* The peer writes a first part of a message, or all that is left of one.
PeerPut ==
  /\ link = "up" /\ Len(win) < WireCap
  /\ LET stream == rbuf \o win
         begun  == stream # <<>> /\ ~stream[Len(stream)].last
     IN  \E m \in unput, final \in BOOLEAN :
           /\ begun => final /\ m = stream[Len(stream)].msg
           /\ win' = Append(win, [msg |-> m, last |-> final])
           /\ unput' = IF final THEN unput \ {m} ELSE unput
  /\ UNCHANGED <<peerOthers, wout, link>>

\* The peer closes or dies; what it sent may be lost with it.
PeerClose ==
  /\ link = "up"
  /\ link' = "down"
  /\ win' \in {win, <<>>}
  /\ UNCHANGED <<peerOthers, wout, unput>>

----------------------------------------------------------------------------
(* The specification.                                                      *)

Init ==
  /\ pc = [t \in Threads |-> "idle"]
  /\ arg = [t \in Threads |-> NoMsg]
  /\ unsent = Out /\ unput = In
  /\ open = TRUE /\ ref = 1
  /\ snd = <<>> /\ part = FALSE /\ rcv = <<>> /\ epipe = FALSE
  /\ sendLock = FALSE /\ evr = TRUE /\ evw = FALSE
  /\ sig = <<>> /\ efd = 0
  /\ reg = {"sig", "fd"} /\ task = {}
  /\ lpc = "top" /\ todo = {} /\ rdy = {} /\ back = "disp" /\ lrc = "ok"
  /\ wrote = NoWrite
  /\ rbuf = <<>> /\ win = <<>> /\ wout = <<>> /\ link = "up"

\* What the application decides to do.
Call(t) == xsend(t) \/ xrecv(t) \/ xclose(t)

\* What a thread inside the library does next.
Inside(t) ==
  \/ SndWait(t) \/ snd_msgbuf_head_add(t)
  \/ RcvWait(t) \/ rcv_msgbuf_head_rm(t)
  \/ xput(t) \/ __xclose(t) \/ xcloseput(t)
  \/ unsighndl(t) \/ del(t) \/ deldone(t)
  \/ FlushSome(t) \/ FlushEnd(t) \/ sockbase_exit(t)

Loop ==
  \/ RunTasks \/ eventpoll_wait \/ Dispatch
  \/ ev_get_signals \/ ev_unsignal \/ try_disable_ev_read \/ try_enable_ev_read
  \/ bio_prefetch \/ rcv_msgbuf_head_add \/ ReadEnd
  \/ sio_lock_send \/ SendSome \/ SendEnd \/ sndhead_install_iovs
  \/ UnlockSend \/ SetEpipe

Peer == PeerTake \/ PeerPut \/ PeerClose

Next == (\E t \in Threads : Call(t) \/ Inside(t)) \/ Loop \/ Peer

Spec == Init /\ [][Next]_vars

\* The loop thread and the threads inside the library are scheduled, and the
\* peer reads what it is sent.
FairSpec ==
  /\ Spec
  /\ \A t \in Threads : WF_vars(Inside(t))
  /\ WF_vars(Loop)
  /\ WF_vars(PeerTake)

\* Besides, the application goes on receiving.
FairRecvSpec ==
  /\ FairSpec
  /\ \A t \in Receivers : WF_vars(xrecv(t))

----------------------------------------------------------------------------
(* Properties.                                                             *)

\* Every variable has its type, and a thread inside xsend carries a message.
UserOK ==
  /\ pc \in [Threads -> UserPcs]
  /\ arg \in [Threads -> Out \cup {NoMsg}]
  /\ \A t \in Threads : pc[t] \in {"send", "send_wait", "send_woken"} => arg[t] \in Out
  /\ unsent \in SUBSET Out /\ open \in BOOLEAN /\ ref \in Int
SbOK ==
  /\ snd \in Seq(Out) /\ part \in BOOLEAN /\ rcv \in Seq(In) /\ epipe \in BOOLEAN
  /\ sendLock \in BOOLEAN /\ evr \in BOOLEAN /\ evw \in BOOLEAN
  /\ sig \in Seq(Signals) /\ efd \in Nat
LoopOK ==
  /\ reg \in SUBSET {"sig", "fd"} /\ task \in SUBSET {"sig", "fd"}
  /\ lpc \in LoopPcs /\ todo \in SUBSET {"sig", "fd"}
  /\ rdy \in SUBSET {"R", "W"} /\ back \in {"disp", "sig"}
  /\ lrc \in {"ok", "err"} /\ wrote \in [n : Nat, part : BOOLEAN]
NetOK ==
  /\ rbuf \in Seq(Frag(In)) /\ win \in Seq(Frag(In)) /\ wout \in Seq(Frag(Out))
  /\ link \in {"up", "down"} /\ unput \in SUBSET In
TypeOK == UserOK /\ SbOK /\ LoopOK /\ NetOK

Queued(s) == \E i \in 1..Len(sig) : sig[i] = s

\* A message in the send queue is never forgotten: the loop holds the send
\* lock, or polls for EV_WRITE, or has an EV_SNDBUF_ADD to take or in its
\* hands.  sndhead_add_ev_usignal omits the signal in the first two cases.
NoStrandedSend ==
  snd # <<>> => sendLock \/ evw \/ lpc = "lock" \/ Queued("SNDBUF_ADD")

\* Whoever queues a signal may find the descriptor already written, and the
\* loop drains signals and descriptor in two steps: a queued signal always
\* leaves the descriptor readable, so that epoll_wait reports it again.
SignalsReadable == sig # <<>> => efd > 0

\* The loop reads the socket exactly when the receive queue is below its
\* window, up to the last FULL or NONFULL it has not applied yet.
Mark(f) == IF f THEN "RCVBUF_FULL" ELSE "RCVBUF_NONFULL"
MarkQueued ==
  \E i \in 1..Len(sig) : /\ sig[i] = Mark(RcvFull(rcv))
                         /\ \A j \in i+1..Len(sig) : sig[j] = "SNDBUF_ADD"
NoMarkQueued == \A j \in 1..Len(sig) : sig[j] = "SNDBUF_ADD"
MarkApplied ==
  IF lpc \in {"full", "nonfull"} THEN lpc = "full" <=> RcvFull(rcv)
                                 ELSE evr <=> ~RcvFull(rcv)
ReadMatchesWindow ==
  RcvWnd > 0 /\ ref > 0 => MarkQueued \/ (NoMarkQueued /\ MarkApplied)

\* No wakeup is lost: a sender sleeps only while the connection is sound and
\* its send queue full, a receiver only while it is sound and its queue empty.
NoLostWakeup ==
  \A t \in Threads :
    /\ pc[t] = "send_wait" => ~epipe /\ ~msgbuf_can_in(snd)
    /\ pc[t] = "recv_wait" => ~epipe /\ rcv = <<>>

TearingDown(t) == pc[t] \in {"unsig", "unsig_wait", "del_wait", "flush", "free"}

\* The socket is freed once, by one thread, when no other thread is inside and
\* the loop neither handles nor is about to dispatch an event of it.
TeardownAlone ==
  \A t \in Threads : TearingDown(t) =>
    /\ ref = 0 /\ \A u \in Threads \ {t} : pc[u] = "idle"
    /\ pc[t] \in {"flush", "free"} =>
         lpc \in {"top", "wait", "disp"} /\ todo = {} /\ ~sendLock

\* sio_connector_hndl's assertions: it can always take the send lock, and
\* still holds it after the flush (sio.c:333 and 337).
SendLockHeld == /\ lpc = "lock" => ~sendLock
                /\ lpc = "unlock" => sendLock

\* The peer can parse the stream: the first part of a message is followed by
\* the rest of that message, which is at the head of the send queue until then.
StreamIntact ==
  \A i \in 1..Len(wout) : ~wout[i].last =>
    IF i < Len(wout)
    THEN wout[i+1] = [wout[i] EXCEPT !.last = TRUE]
    ELSE \/ link = "down"
         \/ part /\ snd # <<>> /\ Head(snd) = wout[i].msg
         \/ /\ lpc = "install" /\ wrote.part
            /\ snd[wrote.n + 1] = wout[i].msg

\* What is queued is written to the kernel, or the connection breaks.
SendProgress == snd # <<>> ~> snd = <<>> \/ epipe

\* A thread blocked in xsend queues its message in the end.
SendersReturn ==
  \A t \in Senders : pc[t] \in {"send_wait", "send_woken"} ~> pc[t] = "ret"

\* What the peer has written is read and received while the user receives.
RecvProgress == win # <<>> \/ rcv # <<>> ~> (win = <<>> /\ rcv = <<>>) \/ epipe

\* Once xclose is called every thread leaves and the socket is freed.
CloseCompletes ==
  ~open ~> ref = 0 /\ reg = {} /\ \A t \in Threads : pc[t] = "idle"

----------------------------------------------------------------------------
(* The inductive invariant behind the safety properties above.             *)

\* The references: one per thread inside, and one of the open descriptor,
\* which xclose still holds until its two xput.
HoldPcs == {"send", "send_wait", "send_woken", "recv", "recv_wait",
            "recv_woken", "ret", "xclose", "put2"}
Holders == {t \in Threads : pc[t] \in HoldPcs}
Closing == {t \in Threads : pc[t] \in {"xclose", "put2"}}
Base == IF open \/ Closing # {} THEN 1 ELSE 0

RefInv ==
  /\ ref = Cardinality(Holders) + Base
  /\ \A t, u \in Closing : t = u /\ ~open
  /\ \A t \in Threads : pc[t] = "put2" => epipe
  /\ Base = 0 => epipe
  /\ \A t \in Threads : TearingDown(t) =>
       ref = 0 /\ \A u \in Threads : TearingDown(u) => u = t

\* The loop is in the handler of the signal, or of the connector's descriptor.
HndlPcs == {"lock", "write", "install", "unlock", "err"}
InSig == lpc \in {"sig", "full", "nonfull", "unsig"} \/ (lpc \in HndlPcs /\ back = "sig")
InFd  == lpc \in {"read", "deser"} \/ (lpc \in HndlPcs /\ back = "disp")

\* The loop dispatches only what is registered, and a descriptor whose EV_DEL
\* has been waited for is not registered.
RegInv ==
  /\ lpc \in {"top", "wait"} => todo = {}
  /\ lpc \in {"read", "deser"} => back = "disp"
  /\ InSig \/ "sig" \in todo => "sig" \in reg
  /\ InFd \/ "fd" \in todo => "fd" \in reg
  /\ \A t \in Threads :
       /\ pc[t] = "unsig_wait" => "sig" \in task \/ "sig" \notin reg
       /\ pc[t] \in {"del_wait", "flush", "free"} => "sig" \notin reg
       /\ pc[t] = "del_wait" => "fd" \in task \/ "fd" \notin reg
       /\ pc[t] \in {"flush", "free"} => "fd" \notin reg

\* The words in the event descriptor.
EfdInv ==
  /\ SignalsReadable
  /\ InSig \/ "sig" \in todo => efd > 0
  /\ InSig => "sig" \notin todo
  /\ lpc = "unsig" /\ sig # <<>> => efd > 1

LockInv == sendLock <=> (lpc \in {"write", "install", "unlock"})

\* Of the stream to the peer only the end may be a message in part: the one that
\* is next in the send queue, or next after what the loop is about to drop.
StreamInv ==
  /\ \A i \in 1 .. Len(wout) - 1 : ~wout[i].last => wout[i+1] = [wout[i] EXCEPT !.last = TRUE]
  /\ lpc = "install" => wrote.n <= Len(snd) /\ (wrote.part => wrote.n < Len(snd))
  /\ wout # <<>> /\ ~wout[Len(wout)].last /\ link = "up" =>
       IF lpc = "install" THEN wrote.part /\ snd[wrote.n + 1] = wout[Len(wout)].msg
                          ELSE part /\ snd # <<>> /\ Head(snd) = wout[Len(wout)].msg

WaitInv == \A t \in Threads : pc[t] = "send_wait" => ~NonBlock

IInv ==
  /\ TypeOK /\ RefInv /\ RegInv /\ EfdInv /\ LockInv /\ WaitInv
  /\ NoStrandedSend /\ NoLostWakeup /\ ReadMatchesWindow /\ StreamInv

=============================================================================
