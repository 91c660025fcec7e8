# Verification of xio

TLA+ models of xio, the socket library of proxyio: what they cover, how they
correspond to the code, what TLC checks on small instances and what TLAPS
proves for every value of the constants. Paths are relative to the root of the
library (`src/` holds the C files).

## The system

| Part | State | Operations | Hard behaviour |
|---|---|---|---|
| `socket/sockbase.c` descriptor table | `xgb.sockbases`, the stack `unused`, `sb->ref` | `xalloc`, `xget`, `xput` | the last `xput` decides outside the lock |
| `socket/send.c`, `recv.c`, `close.c` | `sb->snd`, `sb->rcv`, waiter counts, `epipe` | `xsend`, `xrecv`, `xclose` | threads that wait on one condition, a close while they do |
| `socket/sio` stream connector | `et.events`, `send_lock`, `rbuf`, `msg->soff` | send, receive, close, `sio_connector_hndl` | users and loop share the queues; partial reads and writes |
| `ev` event loop | registered descriptors, posted tasks, signals | `ev_signal`, `ev_sigfd_hndl`, `ev_fdset_ctl`, `ev_fdset_poll` | signals against drain, EV_DEL against a batch in flight |
| `ev` loops, `utils` task pool and wait group | the loops, their descriptors and tasks, the pool's threads | start, stop, `ev_fdset_ctl`, accept | tasks on the stack of the caller; a second loop's list |
| `msgbuf` | a message with sub-messages, a queue with a window | in, out, serialize, install, deserialize | offsets across a tree |
| `socket/inproc`, `socket/mix`, `listen.c` | the peer, the accept queue, the address map | connect, accept, send, close | two sockets that reference each other; a listener over listeners |
| `sockaddr.c`, the options | names; tables of getters and setters | `xlisten`, `xsetopt`, `xgetopt` | nested names; tables kept by hand |
| `poll` | entries, their references, the lru list | `xpoll_ctl`, `xpoll_wait`, `xpoll_close` | entries removed while a socket emits |
| `sp` scalability protocols | endpoints, targets, the runner thread | add, rm, send, recv, close; req/rep, pub/sub, bus | routing a reply back; targets that break or are freed |
| `sp/reqrep/lbs` load balancing | turns, an array, a ring | add, rm, select | a set of targets that changes |
| `rex` | descriptors and socket files | listen, accept, connect, destroy | failures half way, descriptors that run out |
| `utils` containers | red-black trees, the array | insert, erase, replace, find | rebalancing |

A user thread calls `xsend`/`xrecv`/`xclose`; a queue hook (`sndhead_add_ev_usignal`,
`rcvhead_full_ev_usignal`, `rcvhead_nonfull_ev_usignal`) signals the loop through
`ev_signal`; the loop thread takes the signals and the readiness of the descriptor from
`epoll_wait`, moves bytes, and wakes the users through `sb->cond`. A close drops the
reference of the open descriptor; the thread that drops the last one posts two tasks to the
loop, waits for them, flushes and frees the socket. `emit_pollevents` tells the poll entries
of a socket what changed; `sp` runs one thread over one poll.

PROJECT.json lists every component with its status, and under "hazards" what is hard to
test in this code, at its line, with the properties that watch it.

## The modules

| Module | Models | Composition |
|---|---|---|
| `SioConn` | one connected stream socket: users, queues, event loop, signals, kernel stream | the sockbase calls, `ev` and `sio.c` in one module, since they share `sb->lock` |
| `SioConn_proofs` | theorems about `SioConn` | extends `SioConn`, `TLAPS` |
| `SockTable` | the descriptor table under threads that open, use and close sockets | |
| `SockTable_proofs` | theorems about `SockTable` | extends `SockTable`, `TLAPS` |
| `Xpoll` | one poll with its entries, while sockets emit events and close | |
| `Xpoll_proofs` | theorems about `Xpoll` | extends `Xpoll`, `TLAPS` |
| `Inproc` | listening, connecting, accepting, sending and closing in one process | |
| `Inproc_proofs` | theorems about `Inproc` | extends `Inproc`, `TLAPS` |
| `Sp` | an endpoint of each protocol, its targets, the runner, threads of the application | |
| `Sp_proofs` | theorems about `Sp` | extends `Sp`, `TLAPS` |
| `Answers` | abstract: what request/reply promises to its users | |
| `ReqRep` | requests and replies over clients, proxies and servers, links that break | implements `Answers` (`AnswersCorrect`) |
| `ReqRep_proofs` | theorems about `ReqRep`, with the refinement | extends `ReqRep`, `TLAPS` |
| `Loop` | event loops, their tasks and batches, the task pool and the wait group | |
| `Loop_proofs` | theorems about `Loop` | extends `Loop`, `TLAPS` |
| `Rbtree` | `krb.c` and the two maps built on it | |
| `List` | the linked lists of `list.h` and the loops over them | |
| `Lbs` | the three algorithms of load balancing | its ring is an instance of `Rbtree` |
| `Msg` | a tree of sub-messages, its partial writes and its parse | |
| `Addr` | what a name makes `xlisten` listen at | |
| `Rex` | the portability layer's sockets over the kernel's descriptors, a crash | |
| `Options` | the tables of options of all sockets | |
| `Mix` | the mixed listener: binding, arrivals, close | |
| `Parts_proofs` | theorems about `Mix`, `Rex`, `Options` and `List` | extends the four, which share no name, and `TLAPS` |
| `MCParts` | instances of the last eight modules of parts (`Rbtree` to `Mix`) | extends `Mix`, `Rex`, `Options` and `List`; see below |
| `MCLive` | two instances of `SioConn`, for liveness | |
| `MCSioConn`, `MCSockTable`, `MCXpoll`, `MCInproc`, `MCSp`, `MCReqRep`, `MCLoop` | symmetry sets and the values a `.cfg` cannot write | each extends its module |

The modules under `MCParts` have no state in common: in the program each of these parts runs
under a lock of its own, or on its own. One run checks them all: its first states choose one
part, whose steps the behaviour then takes while the others stand still, and each property is
about its part. `MCLive` chooses between two scenarios in the same way.

In every module an action is one critical section of the code (one hold of the lock it
names), or one step outside a lock: an atomic increment or decrement, a system call, a read
of a field. What the code does between two of them is part of the action before. `PROJECT.json`
maps each definition to its lines. The operators named `X_fault` under the heading *Faults*
are forms that plausible bugs would give to the definition `X`; nothing in the model uses
them, and each property of a passing run is known to fail with one of them in place of `X`.

### SioConn: a connection

| Variables | Code |
|---|---|
| `pc`, `arg` | where each thread is in `xsend`, `xrecv`, `xclose`, and what it carries |
| `snd`, `rcv`, `part` | `sb->snd`, `sb->rcv`, and whether the first message is partly written (`msg->soff`) |
| `epipe`, `sendLock`, `evr`, `evw` | `flagset.epipe`, `flagset.send_lock`, `EV_READ` and `EV_WRITE` of `et.events` |
| `sig`, `efd` | the queued signals of `struct ev_sig` and the words in its event descriptor |
| `reg`, `task` | what the loop polls, and the `EV_DEL` tasks posted to it |
| `lpc`, `todo`, `rdy`, `back`, `lrc`, `wrote` | the loop thread inside `ev_fdset_poll`, `ev_sigfd_hndl` and `sio_connector_hndl` |
| `ref`, `open` | `sb->ref`, and whether the application still has the descriptor |

The rest of the variables are the two directions of the kernel stream, with room for
`WireCap` fragments, and what the peer has sent and taken. A message has a size (`Usize`); on the wire it is one final
fragment, preceded by one first fragment if `sendmsg` took only a part of it. The first
state is an established connection. The peer may send, read, or break the connection at any
time.

`snd_msgbuf_head_add` and `rcv_msgbuf_head_rm` are a test that may put the thread to sleep,
a wakeup, and the test again. The hook of the queue runs in the same critical section, and
decides whether to signal. The loop takes a batch of ready descriptors; each is dispatched
in a step of its own, so that users, closes and the peer come in between.

### SockTable: descriptors

`slot`, `unused` and `n` are `xgb.sockbases`, `xgb.unused` and `xgb.nsockbases`; `ref` and
`fd` are fields of a socket, `used` the sockets whose memory is allocated. `xalloc`, `xget`, `xput`
and `xclose` are split at every atomic operation and at every hold of `xgb.lock`. A failed
`BUG_ON` is a state (`aborted`) after which nothing happens.

### Xpoll: polling

`lru` is the poll's list, `ref`, `fdof`, `events` and `happened` the fields of each entry,
`atts` the entries attached to each socket (`sb->poll_entries`), `pollref` the references of
the poll. An emission is a thread that walks the entries of a socket: it reads the mask of
an entry under the socket's lock, and applies it under the poll's; between the two another
thread may modify or remove the entry, wait, or close the poll. What an application does
with several entries or descriptors at once, and a user who closes a socket he is at that
moment adding to a poll, are left out; the comment at `sockbase.c:193` calls the latter a
mistake of the user.

### Inproc: the in-process transport and the accept queue

`map` is `xgb.inproc_listeners` for one address; `sref` is `sb->ref`, `iref` the second count
that a connector has on its memory, `peer` the other end, `accq` and `rcv` the queues. `th`
holds for each thread the steps it has still to make, as a stack: `xconnect` is a socket
made, a listener looked up, a pair built, a connection queued, the listener put; a put that
turns out to be the last one inserts the steps of the close it calls. So a close inside a
close (a listener that drains its queue) is the same definitions again. Sockets are
blocking.

### Sp: an endpoint

`ep` is the state, the count and the shutdown bit of `struct epbase`; `listed`, `bad`, `lbs` are the
lists a target can be in, `mem` its memory, `armed` its `XPOLLOUT`, `ls` its queue. The runner
takes a batch of poll results and handles them one by one; between two of them a thread may
add, remove, send or close. A thread is in a call (`th`): `eid_get` and `eid_put` are
steps of their own, so is `xsend` after `reqep_send` has chosen a target and unlocked. The use
of freed memory sets `fault` and ends the behaviour. The protocol is chosen at the start.

### Answers, ReqRep: request and reply

`Answers` says it in three actions: a client asks, a server serves it at most once, the answer
goes at most once, to the client that asked. `ReqRep` is the code: a message is its header with
the ttl and the stack of routes, an end of a connection has a queue (`ls`), a connection is
two queues (`wire`). A "req" end picks a connection by turns, a "rep" end goes back by the entry
the ttl points to. Any link may break at any time, with what is on it. `owner`, `served` and
`got` are the variables of `Answers`, so the refinement mapping is the identity of names.
A message is a reply if it travels backward; what an application writes in it has no part.
The handlers of a proxy (`pipeline.c`) take no lock: each is a step here, as if it had that of both
endpoints, so that `lbs->select` beside the add of `reqep_join`, which has one, is not seen.
`Shallow` says that no chain of proxies is longer than the ttl can count. Nothing in the code sees to
it; `MCReqRep` assumes it of its instance, and only `RoutesSound` has it as a hypothesis.

### Loop: event loops

`main` is the thread in `__ev_init` and `__ev_exit`, `wk` the pool's threads, `lp` the loop each of
them runs. `head` and `cur` are the task list of a loop and what it has taken of it. A
call of `ev_fdset_ctl` posts a task and waits for it. The handler of a listening descriptor makes a
new one and adds it, then that of its signals, to the loop of the lowest load without a lock: the read and the
write of that loop's list and count are two steps for each. `__ev_exit` sets the flags of the loops one
by one, and the loops read them in between. The back end is chosen at the start: with `epoll` any
subset of what is ready comes in any order, with `poll` and `select` the batch is the front of
the list, which is then turned round.

### The parts

`Rbtree` writes the two mirror cases of `krb.c` once, with the side as a parameter.
`List` has the pointers themselves, with what each list should be as history; the body of
`walk_each_entry_s` may delete or move the entry it is at. In the other modules a list is a
sequence, which is what `Circles` says of it. `Lbs` takes
where an MD5 sum falls as a parameter, so the ring is any ring; a point may find its place taken, or no
memory, and then the points before it are taken out again. `Msg` lays
the tree out as bytes `<<message, place>>`, writes it in portions cut anywhere, and lets the
receiver parse it from pages after each arrival. It sends one message: of what follows the last byte of a message
the run sees little. A message with several parts is not copied to itself: `walk_msg_s` (`msgbuf.c:196`)
would go over the list it appends to until it is too long. `Rex` has the kernel's side as external operators: the
lowest free number, one listener for an address, one file for a path, accepts that fail. Its destroy of
an old local listener may unlink the file of a newer one, which `PathsLive` allows. `Options` has the tables
of the three kinds of socket and of `rex` with what each entry accepts and converts. What the kernel keeps of
a timeout is external and Linux's: whole ticks of `HZ` in a second, rounded up, and 0 for negative seconds.
`Addr` reads names of symbols, nested mixed names included. In `Mix` connections arrive at children
from other threads; reading `owner` and queueing are two steps.

## What the runs check

| Run | Instance | What it shows |
|---|---|---|
| `conn_both` | two senders, a receiver, a closer; windows, kernel buffer of one | no queued message is out of the loop's reach (`NoStrandedSend`), no wakeup is lost, a signal leaves its descriptor readable, `EV_READ` follows the window, the first part of a message is followed on the wire by its rest (`StreamIntact`), the socket is torn down by one thread alone |
| `conn_live` | two senders and a closer, or a receiver that goes on and a closer; fair loop and peer | a message is taken or the connection breaks or closes; senders return; what the peer sent is received; a close completes |
| `table` | three threads, three sockets, two descriptors | the stack holds the free descriptors once each, a descriptor names one socket while a thread is inside, a socket is freed once, descriptors come back |
| `poll` | two threads, two sockets, memory for three entries | entries and the poll live exactly as long as something refers to them (`RefsCounted`), and nothing refers to a closed socket; readiness is exact; ready entries come first and no waiter sleeps while one is ready |
| `inproc` | three threads, memory for four sockets | nothing reachable is freed, both counts are exact, no connection is lost, nobody sleeps beside what it waits for, a listener is in the map (until the defect below) |
| `sp` | two threads, a listener, two connectors, each protocol | a live target is in one list and is freed once; a queued message is armed; the count is that of the calls inside, plus what `sp_send` leaks; no receiver sleeps beside a message or a shutdown |
| `reqrep` | two clients, two proxies in a chain, a server, five links of which one may break | every message is on the path its stack tells and no assertion on the ttl fails; `ReqRep` implements `Answers`; without a break every request is answered |
| `loop` | two loops, two users, two descriptors and an accepted one, epoll and select | a task is in one list for as long as its user waits; after the start every loop runs, after the stop none does; registration returns, and so does the stop |
| `parts` | see `MCParts` and `parts.cfg` | an open mixed listener finds every connection of a bound child (but the late ones, below), a closed one leaves none in a queue and none that would go into freed memory (`MixSound`); open descriptors and the sockets that hold them correspond through failures and a crash, and a socket file leads to a listener (`DescriptorsSound`); an option answers what was last set, a timeout to the tick, whatever was set for the others (`GetIsSet`); the pointers of linked lists make the circles of what was put in them, and a loop whose body takes entries out is at each once (`ListsSound`); red-black trees keep their rules and their order (`MapsSound`); a request goes to a live connection, by turns; a tree of messages arrives as it was sent, and a name leads to its listeners (`ReadAsMeant`) |
| `table_ref`, `sp_event`, `loop_race` | | the code fails an assertion or a comment, see below |

### Bounds

A window or kernel buffer of one makes every queue full after one message and empty after
one more, so both edges of every window test are met in each order; two senders make one
of them wait for the other's message. Two descriptors for three sockets and three threads fill the table and reuse
each descriptor. Three entries for two sockets are needed for an entry that was removed but
not yet detached, next to its successor and an entry of the other socket. Four sockets are
a listener, a connection and a fourth: a second listener at the address, or a connection
that is being made while another is closed. `MaxRcv` bounds the receive queue of an
in-process connector; the code has no bound. Threads and memory cells are
symmetric where no liveness is checked.

In `sp` a batch has two results, so that the first can free the target of the second; `MaxEvents`
bounds messages and breakages. In `reqrep` one client has two ways to the server, through one
proxy and through both, so that stacks of one and of two entries meet at one server; `TtlMod` is 4 where the code has
16. In `loop` two loops are enough for a registration in another loop than one's own. Nine entries
with keys that prefix one another, of which two are equal, reach every case of the
insertion and of the removal of `krb.c`. Three targets of three points make a ring where points
are interleaved, and an array where the last element and the hole differ. Two descriptors for
three sockets run out, and the number of a failed listen is given out again. With three entries
an entry or the head follows the one that a loop is at, and there is a second list for it to be moved to. Two children are one of each
kind; with three connections one is on its way while others are queued and moved. `MaxSets` lets an option
be set over itself and over each other option of the socket. Windows, descriptors, batches and the ring never enter a property but by
being full, empty or crossed. Of the values of an option -2000 is a timeout that is stored as 0, -1 one that the
kernel refuses, and 1501 at 300 ticks a second one that comes back longer than it was set.

### Fairness

`conn_live` assumes weak fairness of the loop, of every thread that is
inside a library call, and of the peer's reading. The loop is a thread that only waits in
`epoll_wait`, and a thread inside a call is runnable unless it sleeps on a condition, in
which case its step is not enabled. Nothing is assumed about a thread that is not inside a
call, except in the receiving scenario, where the application goes on calling `xrecv`; without that
a full receive queue rightly stops the connection. `table` assumes the same of threads
inside a call, `loop` of the library's threads and of a user whose task is done, `reqrep` of the runners
and of servers that answer what they have received (one condition for all of them: every
request gives rise to finitely many of their steps). `sp`, `poll`, `inproc` and
`parts` check safety only: an accepter on a closing listener, or
a receiver whose peer was closed, really waits for ever (see the hazards).

Where the system may stop (all threads idle, memory used up, or an assertion failed), the
configuration turns the deadlock check off; in the runs of a connection it stays on or the
peer can always act.

## What disagrees

Three runs end in a violation, of what the code itself says:

- `table_ref`: `xget` asserts that a socket in the table has a reference. Between the last
  `atomic_decr` of `xput` and its lock there is none (`sockbase.c:119`, `128`).
- `sp_event`: `event_hndl` asserts that the target of a poll result has the result's
  descriptor. `sp_rm` and an earlier result of the same batch free the target
  (`sp_module.c:145`).
- `loop_race`: the listener's handler adds a descriptor to another loop's list, which that
  loop's thread is changing (`sio_listener.c:112`); the load of `ev.h:224` is then wrong.

Other disagreements were met while modelling. Where one would break a property, the property
says so in its condition, with a history variable that tells when it has happened:

- `inproc_listener.c:111`: a listen at an address in use fails and closes its socket, whose
  close deletes a tree node that was never inserted. The root of the tree becomes null: the
  listener that has the address can be found no more, although `docs/xpf_inproc.7.txt:18`
  says it is visible (`foreign` in `Inproc`).
- `rex_posix.c:145`, `rex_posix.c:269`: an accept that fails with none of the errors listed there (a local listener
  lists `EMFILE` too) reports success, with -1 for a descriptor.
- `pipeline.c:48`: a proxy selects a target without the lock under which `reqep_join` adds one (`req_ep.c:130`).
- `sp_send.c:30`: a refused send does not put its reference (`leaked` in `Sp`).
- `req_ep.c:64`, `rep_ep.c`: a target chosen under the lock is used after it (`fault` in `Sp`).
- `unorder_p_array.h:63`: a target moved into a hole keeps its old index (`strayed` in `Lbs`);
  `req_ep.c:173`: a new algorithm is not told of the connections there are, and `req_ep.c:134` does not look
  whether the algorithm took the new one (`strangers`).
- `msgbuf.c:149`: a message that grows after it was put into another leaves that one with a
  length too short (`stale` in `Msg`); `msgbuf.c:169` overwrites the counts of a destination
  that had some.
- `rex_posix.c:126`: after a failed listen a number is closed twice (`reused` in `Rex`).
- `mix_listener.c:53`: a connection whose thread read `owner` early may be queued at the child
  for good (`late` in `Mix`).
- `sockaddr.c:50`: a mixed name without a token, one of whose names has one, is refused, although the
  comment at `sockaddr.c:28` gives every name a token.
- The manual of `XSNDBUF` and of `XRCVBUF` allows one message beyond the buffer: a non-blocking
  `xsend` queues without limit (`send.c:68`), and one read of the loop queues every complete
  message it found (`sio.c:236`). The manual of `xclose` promises delivery for the time of
  `XLINGER`: the final flush ends at the first `EAGAIN` (`sio.c:215`).

## What is proved

The proofs are for any sets of threads, messages, sockets, targets, links and descriptors, any
windows, and any sizes; threads, the targets of an endpoint, the sockets and entries of a poll and the
memory for in-process sockets are finite, because references are counted. Each proof has the same plan: an invariant
`IInv`, a conjunction of named parts, holds at first and is kept by every step, one lemma for each action or
group of actions; a property that a run checks is a part of it or follows from it. TLC checked
each `IInv` on the instance of the run before it was proved.

**SioConn_proofs.** `IInvCorrect`: the invariant `IInv` holds in every state. It is inductive and
the conjunction of named parts. `RefInv` says that `sb->ref` is the number of threads inside
plus one for an open descriptor (a cardinality, hence the assumption that threads are
finite), and that a thread past the last put is alone; `RegInv` that the loop has in hand
only what is registered, and that a descriptor whose `EV_DEL` was waited for is not. From the two
follows `TeardownAlone`. `LockInv` ties `send_lock` to the loop's position, which gives
`SendLockHeld`. `EfdInv` ties the words of the event
descriptor to the queued signals and to the loop's position between its two critical
sections; from it follows `SignalsReadable`. With these, `NoStrandedSend` and
`ReadMatchesWindow` are inductive: a sender that does not signal found the lock taken or
`EV_WRITE` on, and the loop is at a point after which it looks at the queue again. `NoWakeupLost` and
`TypeCorrect` complete the conjunction. `StreamCorrect` adds `StreamInv`, where the socket stands in a
message: the wire ends in a first part exactly if the next fragment is the rest of
it, so that `StreamIntact` survives a close and the flush of another thread. Type correctness, `IInv` and the assertions on
`send_lock` are proved for every instance; the runs do not repeat them.

The same module proves what the size of a queue becomes when a message is put in or taken
out (`SizeOfAppend`, `SizeOfTail`). The size is a recursive function; the induction is over a
set of lengths, since the induction theorem with an operator parameter cannot be used.

**SockTable_proofs.** `TableSound`, `StackCorrect`, `HeldCorrect`, `FreedCorrect` and
`TableTyped`. The invariant counts: the references of a socket are the threads that hold it
(`Holders`) plus one for its open descriptor (`Base`); the socket that a thread holds is in its
slot; the stack above `n` is a one-to-one list of exactly the empty slots. The last xput therefore
sees a socket nobody else holds, whatever happens between its decrement and its lock,
and the descriptor it clears is still its own. The proof has one lemma per action.

**Sp_proofs.** `EndpointSound`: `TargetsSound`, `RefsExact`, `SleepJustified` and `NoStranded` for any
threads and targets and each protocol. `TargetsSound` needs to know that a thread which adds a target is
alone with it (`AddsInv`) and that a result of the poll is about a target the poll has or about one that is
gone (`BatchInv`). These two hold until freed memory is used (`fault`, where the model
stops); that this happens is the run `sp_event`. `RefsExact` is a sum of two cardinalities, of the threads in a
call and of those that close.

**ReqRep_proofs.** `AnswersImplemented`: `ReqRep` implements `Answers`, over any graph of clients,
proxies and servers, with links that break at any time. `TokensOnPaths` is its invariant:
`Tokens` says that a request is in one place at a time, not yet served on its way forth and served
once on its way back; `OnPath` that its stack of routes names the last links of a path from
its client to where it is, so that a reply is popped to the connection the request came
by; `HdrInv` and `UuidInv` say the same of a request that was refused and of what a "rep" end knows.
The refinement needs no hypothesis on the network: where an assertion on the ttl fails the model
stops. `RoutesSound` says that none fails if the network is `Shallow`: a rank of the nodes bounds the length
of every stack.

**Xpoll_proofs.** `Invariant`, and from it `EntriesCounted` and `PollCounted` (together `RefsAreCounted`),
`ReadinessIsExact` and `SleepersAreQuiet`. `RefInv` and `PollRefs` count holders: the list, the attachment to a socket, the calls and
the closes that have taken an entry off but not yet put it. They need `ListInv` (an entry is in a list once),
`MakeInv` (an entry that is being made belongs to one thread), `LifeInv` (a socket whose close has
started gets no entries), `CloserInv` and `AttachInv` (a listed entry of an open socket is attached, or a
thread is still making it). `LockInv` says of an emission what it knew when it took the lock of the socket:
what it found is what holds, and what it has still to visit is attached. With it `ExactInv` is
inductive: an entry which is not exact has a visitor, or a thread that will emit again, and the mask a
visitor has read is that of the entry unless the thread that changed it is about to emit. `OrderInv` and
`QuietInv` except only the entries of a call of `xpoll_add` that is not over.

**Loop_proofs.** `LoopSound`, from which `LoopsStarted` and `TasksOnStacks`. `PoolInv` follows a loop from the pool's
queue to the thread that begins it, with its wait group at 1; `UpInv` says that a loop whose wait group
came to 0 is up and has a thread, `ListInv` that nobody posts a task before that, and that a loop takes
its list only with nothing in hand. Without the last two a start would lose tasks: `ev_fdset_init` resets
the list. The load balancing of `ev_get_loop_lla` is a CHOOSE; that it has a value needs the
well-foundedness of the naturals.

**Inproc_proofs.** `Invariant`, and from it `NothingDangles`, `ReferencesExact`, `NothingOrphaned`,
`SleepersJustified` and `ListenersVisible`. A thread is a stack of steps, and `ShapeInv` says which stacks there are:
what follows a step is what the call it began as has still to do (a put after each operation, the put of
the socket itself after that of its peer). Over these stacks `Puts`, `Makes`, `Downs` and `Leaves` count
the steps that put a socket, will return its descriptor, tear it down or put its peer; a count moves with
one stack at a time (`StackEffect`), since waking a sleeper changes no step that is counted. `RefInv` is
`sb->ref` as the sum of the puts and of one descriptor, which a thread makes, a queue holds or the application has.
`LifeInv` says that a socket is allocated exactly while it has a reference, is being torn down, or is pointed at, and
that one thread tears it down; `MemInv` and `PeerInv` give the count of the memory, which two
closes from both ends decrement in any order. `HandInv` is needed for `Pair`: the connecting socket has no peer yet
and no other thread builds it, or a second pair would overwrite the first. `NoDangling`
is not part of the invariant: it follows from `LifeInv`, as each use is counted.

**Parts_proofs, Mix.** `MixInvariant`, and from it `MixServes` and `MixLeavesNothing` (together `MixCorrect`). `Progress` and `Owned` say
how far the binding and the closing are: which children listen, which have an owner, which are closed, so that a
child below the current one has an owner and an empty queue, or one whose connections came late. `Placed` says where
a connection is: an arrival is inside a child that is not closed yet (the close of a stream child waits for it), a
queued one in a queue or between two. Without it the owner an arrival has read could be gone: this is what the
wait in `NextChild` is for. `Emptied` says that what a closed listener still has came through an in-process child,
whose connector holds a reference of the child only.

**Parts_proofs, Rex.** `RexInvariant`, and from it `FdsAreOwned` and `PathsAreLive`
(together `DescriptorsCorrect`). `SocksRight` and `FdsRight` are the
two directions of the correspondence of sockets and descriptors; `ClosedRight` says that the number which a
failing `rex_tcp_listen` still holds is free, so that its second close does nothing; `FilesRight` that a socket file is dead after a
crash or leads to a listener that has the path for its name, so that its destroy unlinks the very file it would leave
dead. All hold until such a number is given out again (`reused`). The kernel's lowest free number is
a CHOOSE: that it has a value follows from the well-foundedness of the naturals.

**Parts_proofs, Options.** `OptInvariant`, and from it `GetsAreSets`: the fields of a socket hold what was last accepted for
their options. The tables are compared position by position (`XsoEntries`, `RexEntries`). A timeout is not what was set but what
Linux makes of it: a number of milliseconds goes to a timeval, to ticks, and back, and is less than a tick longer
(`TimeoutBack`); one of negative seconds is stored as 0. This is proved for every `HZ` that Linux is built with, and for
every integer but the ten largest, which rounded up to a tick are no C int; a `long` has 64 bits.

**Parts_proofs, List.** `ListInvariant`, and from it `ListsAreCircles` and `LoopsVisitAll` (together `ListsCorrect`), for
any number of lists and entries. `Makes` says that the pointers make the lists: each neighbour on a circle points
to the next and back, no entry is at two places (`Apart`), and one at none is initialised or poisoned. The
operations are three, whichever name they have: to put an entry in at a place (`Inserts`), to join its neighbours (`CutsOut`),
and to put one circle into another (`SpliceMakes`); `Longer` relates the lists before and after the first two,
so both use one account of which place becomes which (`PutPlaces`, `PutApart`). `Walking` is what a loop needs:
behind it are the entries its body left, before it the rest of the list as it was when the loop began
(`Remains`), and the pointer read ahead is the entry after the current one. This holds because a body takes out
no entry but the current one.

The assumptions are `ConstAssumption` (`SioConn`), `TableAssumption` (`SockTable`), `SpAssumption`,
`ReqRepAssumption`, `LoopAssumption`, `XpollAssumption`, `InprocAssumption`, `MixAssumption`, `RexAssumption`,
`OptAssumption` and `ListAssumption`: sizes and windows are natural numbers, at least one
fragment fits the kernel, there is a descriptor and a loop, the null pointer is no socket, no thread, no entry and no
target, a poll is asked for at least one event, clients, proxies and servers are different nodes,
the ttl counts to 1 at least, the children on streams are children, descriptors are positive numbers (0 is
the standard input), names resolve to sequences of addresses, options are set to numbers that rounded up to a tick are C ints, the kernel's ticks are 100, 250, 300 or
1000 in a second, the descriptors of signals are no others, a descriptor has one of the three transports or none, and entries,
heads and the poison are different. TLC evaluates them in
the runs above.

## What is only model-checked

Liveness (`SendProgress`, `SendersReturn`, `CloseCompletes`, `RecvProgress`,
`DescriptorsComeBack`, `CtlReturns`, `ExitCompletes`, `AllAnswered`): fairness and ENABLED are
out of the reach of the proof system. `Rbtree`, `Msg`, `Lbs` and `Addr` define recursive
operators, as their algorithms are; what they compute
(`MapsSound`, `BalanceSound`, `ReadAsMeant`) is checked over bounded inputs only.
`LoadExact` does
not hold (`loop_race`).

## Assumptions of the models

The application closes each descriptor once, makes no call on a poll it has closed, asks a
poll for at least one event, does not close a socket while adding it to a poll, starts no call
on an endpoint it is closing, joins a proxy before it adds connections, answers with the control
messages of the request, and has one owner for each descriptor it registers with a loop. Locks
are fair mutual exclusion; a broadcast wakes every sleeper, and no thread wakes without one.
Memory is exhausted only where a module bounds it. The windows of the runs are at least 1, and they are not set while a socket
is polled: an `xsetopt(XSNDBUF)` can change the readiness of a socket without an emission, so `ReadinessExact` says
nothing of it, and with a receive window of 0 a connection stops reading for good (`sio_getsetor.c:150`).
That the result of the flush hides an error of the read (`sio.c:335`) is in `SioConn`, but no property fails by it. The loop and the kernel deliver
readiness level-triggered, as `ev_epoll.c` sets it up.

## What is not modelled

Timers of the loop, `xselect` and the table of polls, several in-process addresses, `kqueue` and
Windows, and the width of the counters other than `rrhdr.ttl` (`msgbuf_head.size` is an `int`).
The hash functions are parameters or arbitrary; outside `List` lists are
sequences; the hash lists of `list.h`, which nothing uses, and its backward loops are left out. `conhash` is
modelled although nothing in the library selects it: `set_lbs` offers the other two. Statistics,
logs and allocation, the bindings and the performance tools have no effect on the rest.
`PROJECT.json` gives the status of each part.

## Plan

The modules of the plan are written, and the core, the descriptor table, the endpoints, request/reply, the
loops, the poll, the in-process transport, the mixed listener, the sockets of the portability layer, the options and the
linked lists are proved.
