---------------------------------- MODULE Rex ----------------------------------
(***************************************************************************)
(* The portability layer's sockets (rex/rex_posix.c) over the descriptors  *)
(* of a POSIX kernel: listening, accepting, connecting and destroying for  *)
(* the TCP and the local family.                                           *)
(*                                                                         *)
(* A call is one action, except rex_tcp_listen when every address is in    *)
(* use: it goes on, with the number of a descriptor it has already closed, *)
(* to listen on it and close it, and other calls run in between.  The      *)
(* kernel is external: it gives out the lowest free number, keeps one TCP  *)
(* listener per address and one file per local path.                       *)
(***************************************************************************)
EXTENDS Integers, Sequences, FiniteSets, Functions

CONSTANTS
    Socks,      \* the rex_sock structures the program has
    Fds,        \* the numbers the kernel may give out, all positive
    Hosts,      \* the names rex_tcp_listen and rex_tcp_connect are called with
    Resolve,    \* what getaddrinfo answers for a name: a sequence of addresses
    Paths,      \* the file names of local sockets
    MaxCrashes, \* bound: restarts of the process
    MaxBacklog  \* bound: connections waiting at one listener (REX_MAX_BACKLOG)

VARIABLES
    rs,      \* rex_sock: [family, fd, passive, addr, use], and in "host" the name
             \* that a failing rex_tcp_listen was called with
    kern,    \* the kernel: [fd |-> per number, file |-> per path]
    closed,  \* per sock: the number a failing rex_tcp_listen still holds, or -1
    reused,  \* history: such a number was given out again before its second close
    left,    \* history: the paths whose listener died with the process
    crashes

rexvars == <<rs, kern, closed, reused, left, crashes>>

Addrs == UNION {Range(Resolve[h]) : h \in Hosts}

ASSUME RexAssumption ==
    /\ Fds \subseteq Nat \ {0}
    /\ \A h \in Hosts : Resolve[h] \in Seq(Addrs)

Free == [kind |-> "free", addr |-> "", waiting |-> 0]
Dead == -2      \* a socket file whose socket is closed
None == -1

Unused == [family |-> "none", fd |-> None, passive |-> FALSE, addr |-> "", use |-> "new",
           host |-> ""]

RexInit ==
    /\ rs = [s \in Socks |-> Unused]
    /\ kern = [fd |-> [f \in Fds |-> Free], file |-> [p \in Paths |-> None]]
    /\ closed = [s \in Socks |-> None]
    /\ reused = FALSE
    /\ left = {}
    /\ crashes = 0

(* ------------------------------ the kernel ------------------------------ *)

\* The number socket and accept answer: the lowest free one, -1 when there is none.
NewFd(k) ==
    LET free == {f \in Fds : k.fd[f].kind = "free"}
    IN  IF free = {} THEN None ELSE CHOOSE f \in free : \A g \in free : f <= g

Open(k, f, kind, a) ==
    [k EXCEPT !.fd[f] = [kind |-> kind, addr |-> a, waiting |-> 0]]

\* close: nothing for a number that is not open; the file of a local listener stays.
close(k, f) ==
    IF f \notin Fds THEN k
    ELSE [fd |-> [k.fd EXCEPT ![f] = Free],
          file |-> [p \in Paths |-> IF k.file[p] = f THEN Dead ELSE k.file[p]]]

unlink(k, p) == [k EXCEPT !.file[p] = None]

\* The descriptors a connect to the address would reach.
ListenerAt(k, a) ==
    IF a \in Paths
    THEN {f \in Fds : k.file[a] = f /\ k.fd[f].kind = "listen"}
    ELSE {f \in Fds : k.fd[f].kind = "listen" /\ k.fd[f].addr = a}

\* connect on the new descriptor f; the listener's queue has room.
Reach(k, f, l) ==
    [Open(k, f, "conn", k.fd[l].addr) EXCEPT !.fd[l].waiting = @ + 1]

Reachable(k, a) == {l \in ListenerAt(k, a) : k.fd[l].waiting < MaxBacklog}

\* Numbers given out since the last step that a failing rex_tcp_listen still holds.
Reuse(k) == reused \/ \E s \in Socks : closed[s] # None /\ k.fd[closed[s]].kind # "free"

(* ------------------------- life of a rex_sock ---------------------------- *)

rex_sock_init(s, family) ==
    /\ rs[s].family = "none"
    /\ rs' = [rs EXCEPT ![s] = [Unused EXCEPT !.family = family]]
    /\ UNCHANGED <<kern, closed, reused, left, crashes>>

rex_tcp_destroy(s) == close(kern, rs[s].fd)

\* Faults: the file of the listener is left behind (PathsLive), or its descriptor
\* is left open (FdsOwned).
rex_unix_destroy_file(s) == close(kern, rs[s].fd)
rex_unix_destroy_open(s) ==
    IF rs[s].passive THEN unlink(kern, rs[s].addr) ELSE close(kern, rs[s].fd)

rex_unix_destroy(s) ==
    IF rs[s].passive THEN unlink(close(kern, rs[s].fd), rs[s].addr)
    ELSE close(kern, rs[s].fd)

rex_sock_destroy(s) ==
    /\ rs[s].family # "none"
    /\ closed[s] = None
    /\ kern' = IF rs[s].family = "tcp" THEN rex_tcp_destroy(s) ELSE rex_unix_destroy(s)
    /\ rs' = [rs EXCEPT ![s] = Unused]
    /\ UNCHANGED <<closed, reused, left, crashes>>

\* xlisten and xconnect bind a socket once, when it is new.
New(s, family) == rs[s].family = family /\ rs[s].use = "new" /\ closed[s] = None

Listening(s, f, a) ==
    rs' = [rs EXCEPT ![s] = [@ EXCEPT !.fd = f, !.passive = TRUE, !.addr = a, !.use = "listen",
                                      !.host = ""]]

(* --------------------------------- TCP ----------------------------------- *)

\* The first of the addresses of a name that is in a set: where a loop over what
\* getaddrinfo answered breaks off.
FirstOf(host, S) ==
    {a \in S : \E i \in DOMAIN Resolve[host] :
        Resolve[host][i] = a /\ \A j \in 1..(i - 1) : Resolve[host][j] \notin S}

\* rex_tcp_listen's loop opens a descriptor for each address, and closes it when
\* bind fails.  When all of them fail, fd still holds the number.
rex_tcp_listen(s, host) ==
    LET f == NewFd(kern)
        unbound == {a \in Range(Resolve[host]) : ListenerAt(kern, a) = {}}
    IN  /\ New(s, "tcp")
        /\ \/ /\ f # None
              /\ \E a \in FirstOf(host, unbound) : kern' = Open(kern, f, "listen", a)
              /\ Listening(s, f, host)
              /\ UNCHANGED closed
           \/ /\ f # None /\ unbound = {}
              /\ closed' = [closed EXCEPT ![s] = f]
              /\ rs' = [rs EXCEPT ![s].host = host]
              /\ UNCHANGED kern
           \/ f = None /\ UNCHANGED <<kern, rs, closed>>
        /\ reused' = Reuse(kern')
        /\ UNCHANGED <<left, crashes>>

\* The end of a rex_tcp_listen no address was free for: listen on the closed
\* number fails and close does nothing, unless another call got the number.
rex_tcp_listen_failed(s) ==
    LET f == closed[s]
    IN  /\ f # None
        /\ IF kern.fd[f].kind = "listen"
           THEN Listening(s, f, rs[s].host) /\ UNCHANGED kern
           ELSE kern' = close(kern, f) /\ rs' = [rs EXCEPT ![s].host = ""]
        /\ closed' = [closed EXCEPT ![s] = None]
        /\ UNCHANGED <<reused, left, crashes>>

\* A connect that reached the listener l, at the address the program gave.
Connected(s, f, l, a) ==
    /\ kern' = Reach(kern, f, l)
    /\ rs' = [rs EXCEPT ![s] = [@ EXCEPT !.fd = f, !.addr = a, !.use = "conn"]]
    /\ reused' = Reuse(kern')
    /\ UNCHANGED <<closed, left, crashes>>

\* rex_tcp_connect's loop too closes the descriptor an address refused.
rex_tcp_connect(s, host) ==
    LET f == NewFd(kern)
        answering == {a \in Range(Resolve[host]) : Reachable(kern, a) # {}}
    IN  /\ New(s, "tcp")
        /\ \/ /\ f # None
              /\ \E a \in FirstOf(host, answering) : \E l \in Reachable(kern, a) :
                    Connected(s, f, l, host)
           \/ /\ f = None \/ answering = {}
              /\ UNCHANGED rexvars

(* -------------------------------- local ---------------------------------- *)

\* The file is removed before bind; bind may then fail for want of permission.
rex_unix_listen(s, p) ==
    LET f == NewFd(kern)
    IN  /\ New(s, "local")
        /\ f # None
        /\ \/ /\ kern' = [Open(unlink(kern, p), f, "listen", p) EXCEPT !.file[p] = f]
              /\ Listening(s, f, p)
              /\ reused' = Reuse(kern')
           \/ /\ kern' = unlink(kern, p)
              /\ UNCHANGED <<rs, reused>>
        /\ left' = left \ {p}
        /\ UNCHANGED <<closed, crashes>>

rex_unix_connect(s, p) ==
    LET f == NewFd(kern)
    IN  /\ New(s, "local")
        /\ f # None
        /\ \E l \in Reachable(kern, p) :
               Connected(s, f, l, p)

(* -------------------------------- accept --------------------------------- *)

\* The connection is taken with a new descriptor.  TCP knows of four errors that
\* are no connection, the local family of EMFILE too; after any other, as when the
\* kernel has no file to give, both report success with -1 for a descriptor.
Accepted(s, new, f) ==
    rs' = [rs EXCEPT ![new] = [@ EXCEPT !.fd = f, !.addr = rs[s].addr, !.use = "conn"]]

rex_sock_accept(s, new) ==
    LET f == NewFd(kern)
        l == rs[s].fd
    IN  /\ rs[s].use = "listen"
        /\ New(new, rs[s].family)
        /\ kern.fd[l].kind = "listen"
        /\ \/ /\ f # None
              /\ kern.fd[l].waiting > 0
              /\ Accepted(s, new, f)
              /\ kern' = Open([kern EXCEPT !.fd[l].waiting = @ - 1], f, "conn", kern.fd[l].addr)
           \/ Accepted(s, new, None) /\ UNCHANGED kern
        /\ reused' = Reuse(kern')
        /\ UNCHANGED <<closed, left, crashes>>

\* The process dies and is started again: the kernel closes its descriptors
\* and the files of its local listeners stay.
Crash ==
    /\ crashes < MaxCrashes
    /\ crashes' = crashes + 1
    /\ rs' = [s \in Socks |-> Unused]
    /\ kern' = [fd |-> [f \in Fds |-> Free],
                file |-> [p \in Paths |-> IF kern.file[p] = None THEN None ELSE Dead]]
    /\ left' = {p \in Paths : kern.file[p] # None}
    /\ closed' = [s \in Socks |-> None]
    /\ UNCHANGED reused

RexNext ==
    \/ \E s \in Socks :
        \/ \E family \in {"tcp", "local"} : rex_sock_init(s, family)
        \/ rex_sock_destroy(s)
        \/ \E h \in Hosts : rex_tcp_listen(s, h) \/ rex_tcp_connect(s, h)
        \/ rex_tcp_listen_failed(s)
        \/ \E p \in Paths : rex_unix_listen(s, p) \/ rex_unix_connect(s, p)
        \/ \E new \in Socks \ {s} : rex_sock_accept(s, new)
    \/ Crash

RexSpec == RexInit /\ [][RexNext]_rexvars

(* ------------------------------ properties ------------------------------- *)

\* Across listening, connecting, accepting, destroying and restarts, the open
\* descriptors and the sockets in use correspond one to one: none leaks, none
\* has two owners.  Only a socket that was accepted without a descriptor has none,
\* and only the second close of a failed rex_tcp_listen, when its number
\* had been given out again, can break the rule.
FdsOwned ==
    ~reused =>
        /\ \A f \in Fds : kern.fd[f].kind # "free" =>
               Cardinality({s \in Socks : rs[s].fd = f}) = 1
        /\ \A s \in Socks : rs[s].use # "new" =>
               \/ rs[s].fd \in Fds /\ kern.fd[rs[s].fd].kind = rs[s].use
               \/ rs[s].fd = None /\ rs[s].use = "conn"

\* The file of a local socket leads to a listening socket: a listener that is
\* destroyed takes its file with it, whatever other listeners were bound to the
\* path meanwhile.  Only a crash leaves a dead file, until the next
\* rex_unix_listen on the path removes it.
PathsLive ==
    ~reused => \A p \in Paths :
        \/ kern.file[p] = None
        \/ kern.file[p] = Dead /\ p \in left
        \/ kern.file[p] \in Fds /\ kern.fd[kern.file[p]].kind = "listen"

\* What the layer holds of the kernel: descriptors and socket files.
DescriptorsSound == FdsOwned /\ PathsLive
================================================================================
