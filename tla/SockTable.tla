----------------------------- MODULE SockTable -----------------------------
(***************************************************************************)
(* The table of xio descriptors (src/socket/sockbase.c, xgb): the slots,   *)
(* the stack of free descriptors and the reference count of every socket,  *)
(* under threads that create, use and close sockets.                       *)
(*                                                                         *)
(* xget counts a reference under xgb.lock; xput drops one outside it, and  *)
(* takes the lock only when the count it saw was the last.  Between the    *)
(* two the slot still names a socket without references.                   *)
(***************************************************************************)
EXTENDS Integers, FiniteSets

CONSTANTS
  Threads,   \* user threads
  Socks,     \* the memory a socket may occupy
  NoSock,    \* the null pointer
  MaxFd      \* PROXYIO_MAX_SOCKS

ASSUME TableAssumption ==
  /\ IsFiniteSet(Threads)
  /\ NoSock \notin Socks
  /\ MaxFd \in Nat \ {0}

Fds == 0..MaxFd-1

VARIABLES
  slot,      \* xgb.sockbases
  unused,    \* xgb.unused
  n,         \* xgb.nsockbases
  ref,       \* sb->ref
  fd,        \* sb->fd
  used,      \* sockets between vfptr->open and mem_free
  open,      \* sockets whose descriptor the application has not closed
  pc,        \* where each thread is
  arg,       \* the descriptor it was called with
  sb,        \* the socket it holds
  aborted    \* "no", or the function whose BUG_ON ended the process

tableVars == <<slot, unused, n>>
sockVars == <<ref, fd, used, open>>
threadVars == <<pc, arg, sb>>
vars == <<tableVars, sockVars, threadVars, aborted>>

Pcs == {"idle", "open", "in", "xclose", "clear", "close"}

----------------------------------------------------------------------------
(* Faults.  Nothing below uses these: each is the form a plausible bug     *)
(* would give to the definition its name begins with.                      *)

\* Pop the descriptor before counting it.
Top_below == IF n = 0 THEN unused[n] ELSE unused[n-1]

\* The caller is given the socket without a reference.
Got_free(o) == ref

\* The count is compared after the decrement.
Last_after(o) == ref[o] = 2

\* xclose keeps the reference of the open descriptor.
AfterClosePut_leak == "idle"

----------------------------------------------------------------------------
(* Actions.                                                                *)

At(t, from, to) == pc[t] = from /\ pc' = [pc EXCEPT ![t] = to]

\* The descriptor that xalloc takes from the stack.
Top == unused[n]

\* xget's new counts.
Got(o) == [ref EXCEPT ![o] = @ + 1]

\* atomic_decr(&sb->ref) == 1: the value before the decrement.
Last(o) == ref[o] = 1

\* The slots once descriptor f is free.
Cleared(f) == [slot EXCEPT ![f] = NoSock]

\* Where xclose goes from __xclose: its own reference is still to be put.
AfterClosePut == "in"

\* xalloc, vfptr->open: memory for a socket, and sockbase_init.
vfptr_open(t) ==
  /\ At(t, "idle", "open")
  /\ \E o \in Socks \ used :
       /\ used' = used \cup {o}
       /\ sb' = [sb EXCEPT ![t] = o]
       /\ ref' = [ref EXCEPT ![o] = 0]
  /\ UNCHANGED <<tableVars, fd, open, arg, aborted>>

\* xalloc, under the lock; a full table is an assertion.
xalloc(t) ==
  /\ n < MaxFd
  /\ At(t, "open", "idle")
  /\ slot' = [slot EXCEPT ![Top] = sb[t]]
  /\ fd' = [fd EXCEPT ![sb[t]] = Top]
  /\ n' = n + 1
  /\ ref' = [ref EXCEPT ![sb[t]] = @ + 1]
  /\ open' = open \cup {sb[t]}
  /\ sb' = [sb EXCEPT ![t] = NoSock]
  /\ UNCHANGED <<unused, used, arg, aborted>>

TableFull(t) ==
  /\ pc[t] = "open" /\ n >= MaxFd
  /\ aborted' = "xalloc"
  /\ UNCHANGED <<tableVars, sockVars, threadVars>>

\* xget of any descriptor, one the application has closed included; EBADF
\* changes nothing.
xget(t, f, to) ==
  /\ slot[f] # NoSock /\ ref[slot[f]] # 0
  /\ At(t, "idle", to)
  /\ ref' = Got(slot[f])
  /\ arg' = [arg EXCEPT ![t] = f]
  /\ sb' = [sb EXCEPT ![t] = slot[f]]
  /\ UNCHANGED <<tableVars, fd, used, aborted>>

Use(t) == \E f \in Fds : xget(t, f, "in") /\ UNCHANGED open

\* xget, BUG_ON(!atomic_fetch(&sb->ref)).
NoRef(t) ==
  /\ pc[t] = "idle"
  /\ \E f \in Fds : slot[f] # NoSock /\ ref[slot[f]] = 0
  /\ aborted' = "xget"
  /\ UNCHANGED <<tableVars, sockVars, threadVars>>

\* xclose: the application closes each of its descriptors once.
xclose(t) ==
  \E o \in open : xget(t, fd[o], "xclose") /\ open' = open \ {o}

\* xput(fd), the decrement: the socket is looked up again, without the lock.
\* A thread that drops the last reference goes on to clear the slot.
xput(t, from, to) ==
  /\ LET o == slot[arg[t]]
     IN  /\ At(t, from, IF Last(o) THEN "clear" ELSE to)
         /\ ref' = [ref EXCEPT ![o] = @ - 1]
         /\ sb' = [sb EXCEPT ![t] = IF Last(o) \/ to # "idle" THEN o ELSE NoSock]
  /\ UNCHANGED <<tableVars, fd, used, open, arg, aborted>>

Put(t) == xput(t, "in", "idle")
ClosePut(t) == xput(t, "xclose", AfterClosePut)

\* xput, under the lock: the slot is cleared and the descriptor pushed.
xput_clear(t) ==
  /\ At(t, "clear", "close")
  /\ slot' = Cleared(fd[sb[t]])
  /\ n' = n - 1
  /\ unused' = [unused EXCEPT ![n-1] = fd[sb[t]]]
  /\ UNCHANGED <<sockVars, arg, sb, aborted>>

\* vfptr->close: sockbase_exit and mem_free.
vfptr_close(t) ==
  /\ At(t, "close", "idle")
  /\ fd' = [fd EXCEPT ![sb[t]] = -1]
  /\ used' = used \ {sb[t]}
  /\ sb' = [sb EXCEPT ![t] = NoSock]
  /\ UNCHANGED <<tableVars, ref, open, arg, aborted>>

Init ==
  /\ slot = [f \in Fds |-> NoSock]
  /\ unused = [f \in Fds |-> f]
  /\ n = 0
  /\ ref = [o \in Socks |-> 0] /\ fd = [o \in Socks |-> -1]
  /\ used = {} /\ open = {}
  /\ pc = [t \in Threads |-> "idle"]
  /\ arg = [t \in Threads |-> 0] /\ sb = [t \in Threads |-> NoSock]
  /\ aborted = "no"

\* What the application asks for, and what a thread inside the library does.
Call(t) == vfptr_open(t) \/ Use(t) \/ NoRef(t) \/ xclose(t)
Inside(t) ==
  \/ xalloc(t) \/ TableFull(t) \/ Put(t) \/ ClosePut(t)
  \/ xput_clear(t) \/ vfptr_close(t)

Next == aborted = "no" /\ \E t \in Threads : Call(t) \/ Inside(t)

Spec == Init /\ [][Next]_vars
FairSpec == Spec /\ \A t \in Threads : WF_vars(aborted = "no" /\ Inside(t))

----------------------------------------------------------------------------
(* Properties.                                                             *)

\* Every variable has its type; a thread past xget holds a socket in use.
TypeOK ==
  /\ slot \in [Fds -> Socks \cup {NoSock}]
  /\ unused \in [Fds -> Fds] /\ n \in 0..MaxFd
  /\ ref \in [Socks -> Int] /\ fd \in [Socks -> Fds \cup {-1}]
  /\ used \in SUBSET Socks /\ open \in SUBSET used
  /\ pc \in [Threads -> Pcs] /\ arg \in [Threads -> Fds]
  /\ sb \in [Threads -> Socks \cup {NoSock}]
  /\ \A t \in Threads : pc[t] # "idle" => sb[t] \in used
  /\ aborted \in {"no", "xget", "xalloc"}

\* The stack holds exactly the free descriptors, each once: xalloc never gives
\* out a descriptor that is in use, and none is ever lost.
StackSound ==
  /\ \A i, j \in n..MaxFd-1 : unused[i] = unused[j] => i = j
  /\ {unused[i] : i \in n..MaxFd-1} = {f \in Fds : slot[f] = NoSock}

Holders(o) == {t \in Threads : pc[t] \in {"in", "xclose"} /\ sb[t] = o}
Closing(o) == {t \in Threads : pc[t] = "xclose" /\ sb[t] = o}

\* A descriptor means the same socket from a thread's xget to its xput, which
\* looks it up again without the lock.
HeldStays == \A t \in Threads :
  pc[t] \in {"in", "xclose"} => slot[arg[t]] = sb[t] /\ fd[sb[t]] = arg[t]

\* A socket is taken out of the table and freed by one thread, when no other
\* thread holds it and the application has closed it.
FreedAlone == \A t \in Threads : pc[t] \in {"clear", "close"} =>
  /\ ref[sb[t]] = 0 /\ sb[t] \notin open
  /\ \A u \in Threads \ {t} : sb[u] # sb[t]

\* Once closed, a socket leaves the table and its descriptor is free again,
\* however many threads were inside; or the process has stopped.  Threads that
\* call with closed descriptors for ever can keep a socket alive for ever.
Unused == <>[][\A t \in Threads : ~Use(t)]_vars
Closed(f) == slot[f] # NoSock /\ slot[f] \notin open
DescriptorsComeBack ==
  Unused => \A f \in Fds : Closed(f) ~> ~Closed(f) \/ aborted # "no"

\* The assertion of xget (sockbase.c:119): a socket in the table has a reference.
XgetFindsRef == aborted # "xget"

----------------------------------------------------------------------------
(* The inductive invariant.                                                *)

\* The reference of the open descriptor, which xclose holds until ClosePut.
Base(o) == IF o \in open \/ Closing(o) # {} THEN 1 ELSE 0

\* The references of a socket in the table are its holders and its base.
RefInv ==
  /\ \A f \in Fds, o \in Socks : slot[f] = o =>
       /\ o \in used /\ fd[o] = f
       /\ ref[o] = Cardinality(Holders(o)) + Base(o)
  /\ \A o \in open : fd[o] \in Fds /\ slot[fd[o]] = o
  /\ \A t \in Threads, o \in Socks : pc[t] = "xclose" /\ sb[t] = o =>
       o \notin open /\ Closing(o) = {t}

\* Who is past the table: a new socket, or one that is being freed.
PhaseInv ==
  \A t \in Threads :
    /\ pc[t] = "idle" => sb[t] = NoSock
    /\ pc[t] = "clear" => fd[sb[t]] \in Fds /\ slot[fd[sb[t]]] = sb[t]
    /\ pc[t] \in {"open", "close"} => \A f \in Fds : slot[f] # sb[t]
    /\ pc[t] = "open" => ref[sb[t]] = 0
    /\ pc[t] \in {"open", "clear", "close"} =>
         sb[t] \notin open /\ \A u \in Threads \ {t} : sb[u] # sb[t]

\* n counts the slots in use.
CountInv == n = Cardinality({f \in Fds : slot[f] # NoSock})

IInv ==
  /\ TypeOK /\ StackSound /\ CountInv
  /\ HeldStays /\ FreedAlone /\ RefInv /\ PhaseInv

=============================================================================
