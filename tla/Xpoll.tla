------------------------------- MODULE Xpoll -------------------------------
(***************************************************************************)
(* One xpoll instance (src/poll) over the sockets it watches: threads that *)
(* register, change and remove sockets, wait, and close the poll and the   *)
(* sockets, while the library emits the readiness of a socket.             *)
(*                                                                         *)
(* A poll_entry has a reference for its place in the poll's list, one for  *)
(* its place on the socket, and one for each call that holds it; the poll  *)
(* has one for the user, one for each entry and one for each call inside.  *)
(* A removed entry stays on its socket until the socket emits or closes.   *)
(***************************************************************************)
EXTENDS Integers, Sequences, FiniteSets

CONSTANTS
  Threads,   \* threads of the application and of the library
  Socks,     \* sockets
  Entries,   \* memory for poll_entry
  Events,    \* XPOLLIN, XPOLLOUT, XPOLLERR
  Asks,      \* the sets of events an application asks for
  Finds,     \* those a socket may be ready for
  None       \* null

\* An emission asserts that the events of an entry are not empty.
ASSUME XpollAssumption ==
  /\ Asks \subseteq (SUBSET Events) \ {{}} /\ Finds \subseteq SUBSET Events /\ {} \in Finds
  /\ IsFiniteSet(Threads) /\ IsFiniteSet(Socks) /\ IsFiniteSet(Entries)
  /\ None \notin Threads \cup Socks \cup Entries

VARIABLES
  lru,       \* self->lru_head
  pollref,   \* self->ref
  pclosed,   \* the user has called xpoll_close
  live,      \* entries between poll_entry_alloc and poll_entry_destroy
  ref,       \* ent->ref
  fdof,      \* ent->base.pollfd.fd
  events,    \* ent->base.pollfd.events
  happened,  \* ent->base.pollfd.happened
  atts,      \* sb->poll_entries
  cond,      \* what check_pollevents finds of a socket
  life,      \* "open", "closing" or "closed" by the user
  lock,      \* the holder of sb->lock while it emits
  th         \* each thread: its place, and its local variables

pollVars == <<lru, pollref, pclosed>>
entVars == <<live, ref, fdof, events, happened>>
sockVars == <<atts, cond, life, lock>>
vars == <<pollVars, entVars, sockVars, th>>

Pcs == {"idle", "add", "fill", "attach", "broken", "emit", "apply", "eput", "rm", "rmput",
        "added", "mod", "modev", "modset", "modput", "wait", "sleep", "close", "ret2",
        "ret", "xclose", "walk", "unref"}

\* s, e: the socket and the entry of the call; cur: the entry to emit to or to
\* drop; todo: the list being walked; hap: the events found; ev: those of cur;
\* back, eback: where the thread goes after poll_put and after the emission.
Local == [pc : Pcs, s : Socks \cup {None}, e : Entries \cup {None},
          cur : Entries \cup {None}, todo : Seq(Entries), hap : SUBSET Events,
          ev : SUBSET Events, back : {"idle", "close", "unref"},
          eback : {"idle", "ret", "modput"}]

Idle == [pc |-> "idle", s |-> None, e |-> None, cur |-> None, todo |-> <<>>,
         hap |-> {}, ev |-> {}, back |-> "idle", eback |-> "idle"]

\* Thread t is at pc, and goes on as r.
At(t, pc) == th[t].pc = pc
Goes(t, r) == th' = [th EXCEPT ![t] = IF r.pc = "idle" THEN Idle ELSE r]
To(t, pc) == Goes(t, [th[t] EXCEPT !.pc = pc])

On(q) == {q[i] : i \in DOMAIN q}

\* The list q when e has left it; e was in it once, or not at all.
Without(q, e) ==
  LET k == CHOOSE i \in DOMAIN q : q[i] = e
  IN  IF e \notin On(q) THEN q
      ELSE [i \in 1 .. Len(q) - 1 |-> q[IF i < k THEN i ELSE i + 1]]

Registered(s) == {e \in On(lru) : fdof[e] = s}

\* Threads that hold the socket s by an xget.
Using(s) == {t \in Threads : th[t].s = s /\
  \/ th[t].pc \in {"add", "fill", "attach", "added", "broken", "emit", "apply",
                   "eput", "mod", "modev", "modset", "xclose"}
  \/ th[t].back = "unref"}

\* xget finds the socket until the last reference is dropped.
Alive(s) == life[s] # "closed" \/ Using(s) # {}

\* Threads that are adding s to the poll.
Adding(s) == {t \in Threads : th[t].s = s /\
  \/ th[t].pc \in {"add", "fill", "attach", "added"}
  \/ th[t].pc \in {"emit", "apply", "eput"} /\ th[t].eback = "ret"}

----------------------------------------------------------------------------
(* Entries and the poll.                                                   *)

\* Calls enter the library with poll_get and leave it with poll_put.
poll_get == pollref' = pollref + 1
poll_put(k) == pollref' = pollref - k

\* The reference of e is dropped; with the last one its memory is freed.
Unref(e) ==
  IF ref[e] > 1 THEN ref' = [ref EXCEPT ![e] = @ - 1]
                     /\ UNCHANGED <<live, fdof, events, happened>>
  ELSE /\ live' = live \ {e} /\ ref' = [ref EXCEPT ![e] = 0]
       /\ fdof' = [fdof EXCEPT ![e] = None]
       /\ events' = [events EXCEPT ![e] = {}]
       /\ happened' = [happened EXCEPT ![e] = {}]

\* Faults, used by nothing below: a plausible bug in the definition each name
\* begins with.  The entry's reference to its poll is forgotten; the reference
\* of the list is; waiters are woken when nothing is ready; the mask is not
\* applied.
poll_entry_put_keep(e) == Unref(e) /\ pollref' = pollref
NewRef_one == 1
Woken_never(ev) == IF ev = {} THEN {t \in Threads : At(t, "sleep")} ELSE {}
Emitted_all(found, e) == found

\* poll_entry_put: the destruction of an entry puts its poll.
poll_entry_put(e) == Unref(e) /\ poll_put(IF ref[e] = 1 THEN 1 ELSE 0)

\* list_del_init of an entry of the poll's list; its reference is still to put.
Unlist(e) == lru' = Without(lru, e)

\* The references of a new entry: the list's, and that of the caller, which
\* becomes the socket's.
NewRef == 2

\* The order of the list after an emission to e: ready entries go first.
Moved(e, ev) ==
  IF ev # {} THEN <<e>> \o Without(lru, e)
  ELSE IF happened[e] # {} THEN Append(Without(lru, e), e)
  ELSE lru

\* The threads that the broadcast of self->cond wakes.
Woken(ev) == IF ev # {} THEN {t \in Threads : At(t, "sleep")} ELSE {}

\* What is emitted to an entry of what the socket found.
Emitted(found, e) == found \cap events[e]

\* The sockets' lists once a close has taken that of s.
Spliced(s) == [atts EXCEPT ![s] = <<>>]

----------------------------------------------------------------------------
(* __emit_pollevents, under sb->lock.                                      *)

\* The lock is taken, the readiness found and the walk begun.
Emit(t, s, eback, found) ==
  /\ lock[s] = None
  /\ lock' = [lock EXCEPT ![s] = t]
  /\ Goes(t, [th[t] EXCEPT !.pc = "emit", !.s = s, !.eback = eback,
                           !.hap = found, !.todo = atts[s]])

\* The mask of the next entry is read without self->lock.
EmitRead(t) ==
  /\ At(t, "emit") /\ th[t].todo # <<>>
  /\ LET e == Head(th[t].todo)
     IN  Goes(t, [th[t] EXCEPT !.pc = "apply", !.cur = e, !.todo = Tail(@),
                               !.ev = Emitted(th[t].hap, e)])
  /\ UNCHANGED <<pollVars, entVars, sockVars>>

\* xpollbase_emit, under self->lock, to an entry that was removed.
EmitDetached(t) ==
  LET e == th[t].cur
  IN  /\ At(t, "apply") /\ e \notin On(lru)
      /\ atts' = [atts EXCEPT ![th[t].s] = Without(@, e)]
      /\ To(t, "eput")
      /\ UNCHANGED <<pollVars, entVars, cond, life, lock>>

EmitPut(t) ==
  /\ At(t, "eput")
  /\ poll_entry_put(th[t].cur)
  /\ To(t, "emit")
  /\ UNCHANGED <<lru, pclosed, sockVars>>

\* xpollbase_emit to an entry of the list.
xpollbase_emit(t) ==
  LET e == th[t].cur
      ev == th[t].ev
  IN  /\ At(t, "apply") /\ e \in On(lru)
      /\ happened' = [happened EXCEPT ![e] = ev]
      /\ lru' = Moved(e, ev)
      /\ th' = [u \in Threads |->
                  IF u = t THEN [th[t] EXCEPT !.pc = "emit"]
                  ELSE IF u \in Woken(ev) THEN [th[u] EXCEPT !.pc = "ret"]
                  ELSE th[u]]
      /\ UNCHANGED <<pollref, pclosed, live, ref, fdof, events, sockVars>>

EmitEnd(t) ==
  /\ At(t, "emit") /\ th[t].todo = <<>>
  /\ lock' = [lock EXCEPT ![th[t].s] = None]
  /\ Goes(t, [th[t] EXCEPT !.pc = th[t].eback, !.cur = None, !.hap = {}, !.ev = {}])
  /\ UNCHANGED <<pollVars, entVars, atts, cond, life>>

\* emit_pollevents takes the lock for itself.
emit_pollevents(t, from, eback) ==
  /\ At(t, from)
  /\ Emit(t, th[t].s, eback, cond[th[t].s])
  /\ UNCHANGED <<pollVars, entVars, atts, cond, life>>

\* A queue of the socket changes: the library emits in the same critical section.
Change(t, s) ==
  /\ At(t, "idle") /\ Alive(s)
  /\ cond' \in {[cond EXCEPT ![s] = c] : c \in Finds \ {cond[s]}}
  /\ Emit(t, s, "idle", cond'[s])
  /\ UNCHANGED <<pollVars, entVars, atts, life>>

\* The loop marks a broken connection in one critical section and emits in
\* another (sio.c:352).
Break(t, s) ==
  /\ At(t, "idle") /\ Alive(s) /\ lock[s] = None
  /\ cond' \in {[cond EXCEPT ![s] = c] : c \in Finds \ {cond[s]}}
  /\ Goes(t, [th[t] EXCEPT !.pc = "broken", !.s = s])
  /\ UNCHANGED <<pollVars, entVars, atts, life, lock>>

----------------------------------------------------------------------------
(* xpoll_ctl.  The application uses the poll until it calls xpoll_close,   *)
(* and does not close a socket while it adds it (sockbase.c:189).          *)

Call(t, s, pc) ==
  /\ At(t, "idle") /\ ~pclosed
  /\ poll_get
  /\ Goes(t, [th[t] EXCEPT !.pc = pc, !.s = s])
  /\ UNCHANGED <<lru, pclosed, entVars, sockVars>>

CallAdd(t, s) == life[s] = "open" /\ Call(t, s, "add")
CallMod(t, s) == Call(t, s, IF Alive(s) THEN "mod" ELSE "ret")
CallRm(t, s) == Call(t, s, "rm")

\* add_poll_entry, under self->lock; EEXIST if the socket is registered.
add_poll_entry(t) ==
  /\ At(t, "add") /\ Registered(th[t].s) = {}
  /\ \E e \in Entries \ live :
       /\ live' = live \cup {e}
       /\ ref' = [ref EXCEPT ![e] = NewRef]
       /\ fdof' = [fdof EXCEPT ![e] = th[t].s]
       /\ events' = [events EXCEPT ![e] = {}]
       /\ happened' = [happened EXCEPT ![e] = {}]
       /\ lru' = Append(lru, e)
       /\ Goes(t, [th[t] EXCEPT !.pc = "fill", !.e = e])
  /\ poll_get
  /\ UNCHANGED <<pclosed, sockVars>>

\* EEXIST, or ENOMEM.
AddFails(t) ==
  /\ At(t, "add") /\ (Registered(th[t].s) # {} \/ live = Entries)
  /\ To(t, "ret")
  /\ UNCHANGED <<pollVars, entVars, sockVars>>

\* ent->base.pollfd = *pollfd, with the happened of the user's structure,
\* which xpoll_wait may have filled in before.
Fill(t) ==
  /\ At(t, "fill")
  /\ \E ev \in Asks, old \in Finds :
       /\ events' = [events EXCEPT ![th[t].e] = ev]
       /\ happened' = [happened EXCEPT ![th[t].e] = old]
  /\ To(t, "attach")
  /\ UNCHANGED <<pollVars, live, ref, fdof, sockVars>>

\* add_pollbase, under sb->lock; emit_pollevents takes the lock again.
add_pollbase(t) ==
  LET s == th[t].s
  IN  /\ At(t, "attach") /\ lock[s] = None
      /\ atts' = [atts EXCEPT ![s] = Append(@, th[t].e)]
      /\ Goes(t, [th[t] EXCEPT !.pc = "added", !.e = None])
      /\ UNCHANGED <<pollVars, entVars, cond, life, lock>>

EmitAdded(t) == emit_pollevents(t, "added", "ret")
EmitModified(t) == emit_pollevents(t, "modset", "modput")
EmitBroken(t) == emit_pollevents(t, "broken", "idle")

\* rm_poll_entry by descriptor: ENOENT, or the entry leaves the list and its
\* reference is put.
rm_poll_entry(t) ==
  /\ At(t, "rm")
  /\ IF Registered(th[t].s) = {}
     THEN To(t, "ret") /\ UNCHANGED lru
     ELSE \E e \in Registered(th[t].s) :
            /\ Unlist(e)
            /\ Goes(t, [th[t] EXCEPT !.pc = "rmput", !.cur = e])
  /\ UNCHANGED <<pollref, pclosed, entVars, sockVars>>

RmPut(t) ==
  /\ At(t, "rmput")
  /\ poll_entry_put(th[t].cur)
  /\ Goes(t, [th[t] EXCEPT !.pc = IF th[t].back = "close" THEN "close" ELSE "ret",
                           !.cur = None])
  /\ UNCHANGED <<lru, pclosed, sockVars>>

\* get_poll_entry, under self->lock.
get_poll_entry(t) ==
  /\ At(t, "mod")
  /\ IF Registered(th[t].s) = {}
     THEN To(t, "ret") /\ UNCHANGED ref
     ELSE \E e \in Registered(th[t].s) :
            /\ ref' = [ref EXCEPT ![e] = @ + 1]
            /\ Goes(t, [th[t] EXCEPT !.pc = "modev", !.e = e])
  /\ UNCHANGED <<pollVars, live, fdof, events, happened, sockVars>>

\* xpoll_mod: only the events change, under self->lock.
xpoll_mod(t) ==
  /\ At(t, "modev")
  /\ \E ev \in Asks : events' = [events EXCEPT ![th[t].e] = ev]
  /\ To(t, "modset")
  /\ UNCHANGED <<pollVars, live, ref, fdof, happened, sockVars>>

ModPut(t) ==
  /\ At(t, "modput")
  /\ poll_entry_put(th[t].e)
  /\ Goes(t, [th[t] EXCEPT !.pc = "ret", !.e = None])
  /\ UNCHANGED <<lru, pclosed, sockVars>>

\* xpoll_ctl's poll_put, and the return.
Return(t) ==
  /\ At(t, "ret")
  /\ poll_put(1)
  /\ To(t, th[t].back)
  /\ UNCHANGED <<lru, pclosed, entVars, sockVars>>

----------------------------------------------------------------------------
(* xpoll_wait.                                                             *)

CallWait(t) == Call(t, None, "wait")

\* The head of an empty list is not an entry: what is read there is arbitrary.
Ready == IF lru = <<>> THEN BOOLEAN ELSE {happened[Head(lru)] # {}}

\* Under self->lock, once, with a timeout that may be 0; then the entries before
\* the first that is not ready go to the caller.
xpoll_wait(t) ==
  /\ At(t, "wait")
  /\ \E ready \in Ready, to \in {0, 1} :
       To(t, IF ~ready /\ to > 0 THEN "sleep" ELSE "ret")
  /\ UNCHANGED <<pollVars, entVars, sockVars>>

Timeout(t) ==
  /\ At(t, "sleep")
  /\ To(t, "ret")
  /\ UNCHANGED <<pollVars, entVars, sockVars>>

----------------------------------------------------------------------------
(* xpoll_close: every entry is removed, then the poll put twice.           *)

xpoll_close(t) ==
  /\ At(t, "idle") /\ ~pclosed
  /\ poll_get /\ pclosed' = TRUE
  /\ Goes(t, [th[t] EXCEPT !.pc = "close", !.back = "close"])
  /\ UNCHANGED <<lru, entVars, sockVars>>

CloseNext(t) ==
  /\ At(t, "close")
  /\ IF lru = <<>>
     THEN To(t, "ret2") /\ UNCHANGED lru
     ELSE /\ Unlist(Head(lru))
          /\ Goes(t, [th[t] EXCEPT !.pc = "rmput", !.cur = Head(lru)])
  /\ UNCHANGED <<pollref, pclosed, entVars, sockVars>>

\* The user's reference, and that of the call.
ClosePut(t) ==
  /\ At(t, "ret2")
  /\ poll_put(1)
  /\ Goes(t, [th[t] EXCEPT !.pc = "ret", !.back = "idle"])
  /\ UNCHANGED <<lru, pclosed, entVars, sockVars>>

----------------------------------------------------------------------------
(* xclose of a socket: __xclose takes the entries and closes each.         *)

xclose(t, s) ==
  /\ At(t, "idle") /\ life[s] = "open" /\ Adding(s) = {}
  /\ life' = [life EXCEPT ![s] = "closing"]
  /\ Goes(t, [th[t] EXCEPT !.pc = "xclose", !.s = s])
  /\ UNCHANGED <<pollVars, entVars, atts, cond, lock>>

__xclose(t) ==
  LET s == th[t].s
  IN  /\ At(t, "xclose") /\ lock[s] = None
      /\ atts' = Spliced(s)
      /\ Goes(t, [th[t] EXCEPT !.pc = "walk", !.todo = atts[s], !.back = "unref"])
      /\ UNCHANGED <<pollVars, entVars, cond, life, lock>>

\* xpollbase_close: xpoll_ctl(XPOLL_DEL) by descriptor, then the reference.
xpollbase_close(t) ==
  /\ At(t, "walk") /\ th[t].todo # <<>>
  /\ poll_get
  /\ Goes(t, [th[t] EXCEPT !.pc = "rm", !.e = Head(th[t].todo), !.todo = Tail(@)])
  /\ UNCHANGED <<lru, pclosed, entVars, sockVars>>

CloseUnref(t) ==
  /\ At(t, "unref")
  /\ poll_entry_put(th[t].e)
  /\ Goes(t, [th[t] EXCEPT !.pc = "walk", !.e = None])
  /\ UNCHANGED <<lru, pclosed, sockVars>>

\* The references of the open descriptor and of the call are put.
CloseEnd(t) ==
  /\ At(t, "walk") /\ th[t].todo = <<>>
  /\ life' = [life EXCEPT ![th[t].s] = "closed"]
  /\ To(t, "idle")
  /\ UNCHANGED <<pollVars, entVars, atts, cond, lock>>

----------------------------------------------------------------------------
Init ==
  /\ lru = <<>> /\ pollref = 1 /\ pclosed = FALSE
  /\ live = {} /\ ref = [e \in Entries |-> 0]
  /\ fdof = [e \in Entries |-> None]
  /\ events = [e \in Entries |-> {}] /\ happened = [e \in Entries |-> {}]
  /\ atts = [s \in Socks |-> <<>>] /\ cond = [s \in Socks |-> {}]
  /\ life = [s \in Socks |-> "open"] /\ lock = [s \in Socks |-> None]
  /\ th = [t \in Threads |-> Idle]

\* What the application and the transports begin, and what a call goes on with.
Begin(t) ==
  \/ \E s \in Socks : \/ Change(t, s) \/ Break(t, s) \/ CallAdd(t, s) \/ CallMod(t, s)
                      \/ CallRm(t, s) \/ xclose(t, s)
  \/ CallWait(t) \/ xpoll_close(t)

Inside(t) ==
  \/ EmitRead(t) \/ EmitDetached(t) \/ EmitPut(t) \/ xpollbase_emit(t) \/ EmitEnd(t)
  \/ EmitBroken(t)
  \/ add_poll_entry(t) \/ AddFails(t) \/ Fill(t) \/ add_pollbase(t) \/ EmitAdded(t)
  \/ rm_poll_entry(t) \/ RmPut(t) \/ Return(t)
  \/ get_poll_entry(t) \/ xpoll_mod(t) \/ EmitModified(t) \/ ModPut(t)
  \/ xpoll_wait(t) \/ Timeout(t)
  \/ CloseNext(t) \/ ClosePut(t)
  \/ __xclose(t) \/ xpollbase_close(t) \/ CloseUnref(t) \/ CloseEnd(t)

Next == \E t \in Threads : Begin(t) \/ Inside(t)

Spec == Init /\ [][Next]_vars

----------------------------------------------------------------------------
(* Properties.                                                             *)

\* Every variable has its type, and only living entries are listed or attached.
TypeOK ==
  /\ lru \in Seq(live) /\ pollref \in Nat /\ pclosed \in BOOLEAN
  /\ live \subseteq Entries /\ ref \in [Entries -> Nat]
  /\ fdof \in [Entries -> Socks \cup {None}]
  /\ events \in [Entries -> SUBSET Events] /\ happened \in [Entries -> SUBSET Events]
  /\ \A s \in Socks : atts[s] \in Seq(live)
  /\ cond \in [Socks -> SUBSET Events]
  /\ life \in [Socks -> {"open", "closing", "closed"}]
  /\ lock \in [Socks -> Threads \cup {None}]
  /\ \A t \in Threads : th[t] \in Local

\* Who holds an entry: the list; a socket, or the thread that closes it; the
\* call that works on it; and the thread that has still to put it.
SocksOf(e) == {s \in Socks : e \in On(atts[s])}
ClosersOf(e) == {t \in Threads : th[t].back = "unref" /\ e \in On(th[t].todo)}
CallsOn(e) == {t \in Threads : th[t].e = e}
PutsOf(e) == {t \in Threads : th[t].pc \in {"eput", "rmput"} /\ th[t].cur = e}
Holders(e) ==
  Cardinality(On(lru) \cap {e}) + Cardinality(SocksOf(e)) + Cardinality(ClosersOf(e))
    + Cardinality(CallsOn(e)) + Cardinality(PutsOf(e))

\* The references of an entry are exactly its holders: none is leaked, and none
\* is freed under the list, a socket or a thread.  A socket has no entry left
\* when it is freed (sockbase.c:193).
EntryRefs ==
  /\ \A e \in Entries : ref[e] = Holders(e) /\ (e \in live <=> ref[e] > 0)
  /\ \A s \in Socks : ~Alive(s) => atts[s] = <<>>

\* Threads that are in no call on the poll, and the user's own reference.
Outside == {t \in Threads :
  \/ th[t].pc \in {"idle", "broken", "xclose", "walk", "unref"}
  \/ th[t].pc \in {"emit", "apply", "eput"} /\ th[t].eback = "idle"}
Opened == IF ~pclosed \/ \E t \in Threads :
                th[t].back = "close" /\ th[t].pc \in {"close", "rmput", "ret2"}
          THEN 1 ELSE 0

\* The poll lives as long as the user, an entry or a call needs it: xclose may
\* call it by its number long after xpoll_close.
PollRefs ==
  pollref = Opened + Cardinality(live) + Cardinality(Threads \ Outside)

\* Both counts are exact: poll_entry_put and poll_put free what nothing needs.
RefsCounted == EntryRefs /\ PollRefs

\* What xpoll_wait would report of a registered socket is what the socket is
\* ready for, whenever no thread has still to emit it, whichever emissions and
\* modifications ran against each other.
Pending(s) == lock[s] # None \/ \E t \in Threads :
                th[t].s = s /\ th[t].pc \in {"added", "modset", "broken"}
ReadinessExact == \A s \in Socks : \A e \in On(atts[s]) \cap On(lru) :
  Pending(s) \/ happened[e] = cond[s] \cap events[e]

\* Entries that are ready come first, where xpoll_wait looks for them, and no
\* thread sleeps while one is: the entry of a call that is still adding, with
\* what the user left in happened, is the only exception.
Settled == {e \in On(lru) : Adding(fdof[e]) = {}}
SleepersQuiet ==
  /\ \A i, j \in DOMAIN lru :
       i < j /\ lru[j] \in Settled /\ happened[lru[j]] # {} => happened[lru[i]] # {}
  /\ \A t \in Threads : At(t, "sleep") => \A e \in Settled : happened[e] = {}

=============================================================================
