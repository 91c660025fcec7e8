-------------------------------- MODULE Options --------------------------------
(***************************************************************************)
(* The options of sockets: xsetopt and xgetopt over the tables of the      *)
(* stream sockets, in-process sockets and mixed listeners, and below the   *)
(* stream sockets the options of a rex_sock over the kernel's.             *)
(*                                                                         *)
(* A rex_sock's timeouts pass through a kernel that keeps them in ticks:   *)
(* Linux's, and external here.                                             *)
(*                                                                         *)
(* The accessors of a socket are picked from a table by the option's       *)
(* position, and each table is written out twice, for reading and for      *)
(* writing; an accessor runs under the socket's lock, as one action.       *)
(***************************************************************************)
EXTENDS Integers, Sequences, Functions

CONSTANTS
    Descs,    \* descriptors, open or not
    Class,    \* the transport of a descriptor: "sio", "inproc", "mix", or "none"
    Listens,  \* the descriptors that are listeners
    Values,   \* the integers options are set to
    HZ,       \* the kernel's ticks in a second
    MaxSets   \* bound: accepted sets in a behaviour

ASSUME OptAssumption ==
    /\ Class \in [Descs -> {"sio", "inproc", "mix", "none"}]
    /\ \A v \in Values : v \in Int /\ v <= 2147483637   \* rounded up it is a C int
    /\ HZ \in {100, 250, 300, 1000}   \* what Linux is built with, a long of 64 bits

VARIABLES
    sock,   \* per descriptor: [non_block, verbose, snd, rcv] of its sockbase
    kopt,   \* per descriptor: the kernel's options of its rex_sock
    asked,  \* history: per level, descriptor and option, the last value accepted
    got,    \* the last get: [level, s, opt, out], or <<>>
    sets

optvars == <<sock, kopt, asked, got, sets>>

\* The positions of the two levels, from 0: XSO_LINGER... and REX_SO_BACKLOG...
Xso == <<"linger", "sndbuf", "rcvbuf", "noblock", "nodelay", "sndtimeo", "rcvtimeo",
         "socktype", "sockprotocol", "verbose">>
RexSo == <<"backlog", "linger", "sndbuf", "rcvbuf", "noblock", "nodelay", "rcvtimeo",
           "sndtimeo", "reuseaddr", "sockname", "peername">>

Window == 409600     \* what sockbase_init gives both queues

OptInit ==
    /\ sock = [s \in Descs |-> [non_block |-> 0, verbose |-> 0, snd |-> Window, rcv |-> Window]]
    /\ kopt = [s \in Descs |-> [noblock |-> 0, nodelay |-> 0, reuseaddr |-> 0,
                                sndtimeo |-> 0, rcvtimeo |-> 0]]
    /\ asked = [level \in {"xso", "rex"} |->
                  [s \in Descs |-> [o \in Range(Xso) \cup Range(RexSo) |-> <<>>]]]
    /\ got = <<>>
    /\ sets = 0

Bool(v) == IF v = 0 THEN 0 ELSE 1

\* C's quotient and remainder, and the timeval they give for milliseconds.
Quot(a, b) == IF a >= 0 THEN a \div b ELSE -((-a) \div b)
Rem(a, b) == a - b * Quot(a, b)
Timeval(to) == <<Quot(to, 1000), Rem(to, 1000) * 1000>>
Millis(tv) == tv[1] * 1000 + Quot(tv[2], 1000)

\* What the kernel keeps of a timeval, in ticks rounded up, and the timeval it
\* answers.  Negative seconds are kept as 0, which answers 0 as having no timeout
\* does.
Ticks(tv) ==
    IF tv[1] < 0 THEN 0 ELSE tv[1] * HZ - ((-tv[2]) \div (1000000 \div HZ))
TicksBack(n) == <<n \div HZ, ((n % HZ) * 1000000) \div HZ>>

(* ------------------------------ the tables ------------------------------- *)

\* The entries of the accessors' tables: a name is a function, "0" a null.
sio_getopt ==
    <<"linger", "sndbuf", "rcvbuf", "noblock", "nodelay", "sndtimeo", "rcvtimeo",
      "socktype", "sockprotocol", "verbose">>
inproc_getopt ==
    <<"linger", "sndbuf", "rcvbuf", "noblock", "0", "sndtimeo", "rcvtimeo",
      "socktype", "sockprotocol", "verbose">>
mix_getopt ==
    <<"0", "0", "0", "noblock", "0", "0", "0", "socktype", "sockprotocol", "verbose">>

\* Fault for GetIsSet: the two windows change places in the writers' table.
sio_setopt_swapped ==
    <<"linger", "rcvbuf", "sndbuf", "noblock", "nodelay", "sndtimeo", "rcvtimeo",
      "0", "0", "verbose">>

sio_setopt ==
    <<"linger", "sndbuf", "rcvbuf", "noblock", "nodelay", "sndtimeo", "rcvtimeo",
      "0", "0", "verbose">>
inproc_setopt ==
    <<"linger", "sndbuf", "rcvbuf", "noblock", "0", "sndtimeo", "rcvtimeo",
      "0", "0", "verbose">>
mix_setopt == <<"0", "0", "0", "noblock", "0", "0", "0", "0", "0", "verbose">>

\* sockbase_vfptr: the tables of a transport.
Getters == [sio |-> sio_getopt, inproc |-> inproc_getopt, mix |-> mix_getopt]
Setters == [sio |-> sio_setopt, inproc |-> inproc_setopt, mix |-> mix_setopt]

get_vfptr == <<"backlog", "linger", "sndbuf", "rcvbuf", "noblock", "nodelay", "rcvtimeo",
               "sndtimeo", "reuseaddr", "sockname", "peername">>
set_vfptr == <<"backlog", "linger", "sndbuf", "rcvbuf", "noblock", "nodelay", "rcvtimeo",
               "sndtimeo", "reuseaddr", "0", "0">>

\* The accessor at an option's position: "0" past the table, which a negative
\* option is too, for the comparison is of unsigned numbers.
Entry(table, opt) == IF opt \in 0..(Len(table) - 1) THEN table[opt + 1] ELSE "0"

Counted == sets < MaxSets /\ sets' = sets + 1 /\ got' = <<>>

(* --------------------------- options of a rex_sock ------------------------ *)

\* What the kernel refuses: a timeval whose microseconds are negative.
\* The sizes of the kernel's buffers are its own affair: only the check is here.
RexAccepts(name, v) ==
    /\ name \in {"sndbuf", "rcvbuf", "noblock", "nodelay", "rcvtimeo", "sndtimeo", "reuseaddr"}
    /\ name \in {"sndbuf", "rcvbuf"} => v >= 0
    /\ name \in {"rcvtimeo", "sndtimeo"} => Timeval(v)[2] >= 0

RexSet(k, name, v) ==
    IF name \in {"noblock", "nodelay", "reuseaddr"} THEN [k EXCEPT ![name] = Bool(v)]
    ELSE IF name \in {"rcvtimeo", "sndtimeo"} THEN [k EXCEPT ![name] = Ticks(Timeval(v))]
    ELSE k

\* A get answers [rc, val]; buffers and names are not followed.
Refused == [rc |-> -1, val |-> 0]
Answer(v) == [rc |-> 0, val |-> v]
RexGet(k, name) ==
    IF name = "noblock" THEN Answer(k.noblock)
    ELSE IF name \in {"rcvtimeo", "sndtimeo"} THEN Answer(Millis(TicksBack(k[name])))
    ELSE Refused

\* sio_listener_bind and sio_init set REX_SO_NOBLOCK through rex_gen_setopt too.
rex_gen_setopt(s, opt, v) ==
    LET name == Entry(set_vfptr, opt)
    IN  /\ Class[s] = "sio"
        /\ RexAccepts(name, v)
        /\ kopt' = [kopt EXCEPT ![s] = RexSet(@, name, v)]
        /\ asked' = [asked EXCEPT !["rex"][s][RexSo[opt + 1]] = <<v>>]
        /\ Counted
        /\ UNCHANGED sock

rex_gen_getopt(s, opt) ==
    /\ Class[s] = "sio"
    /\ got' = [level |-> "rex", s |-> s, opt |-> RexSo[opt + 1],
               out |-> RexGet(kopt[s], Entry(get_vfptr, opt))]
    /\ UNCHANGED <<sock, kopt, asked, sets>>

(* ---------------------------- options of a socket ------------------------- *)

\* What each writer does: [rc, sock, kopt].  The lingering time is refused by
\* the rex_sock, the timeouts by everyone.
Set(s, name, v) ==
    LET done(b) == [rc |-> 0, sock |-> b, kopt |-> kopt[s]]
    IN  CASE name = "noblock" -> done([sock[s] EXCEPT !.non_block = Bool(v)])
          [] name = "sndbuf" -> done([sock[s] EXCEPT !.snd = v])
          [] name = "rcvbuf" -> done([sock[s] EXCEPT !.rcv = v])
          [] name = "verbose" -> done([sock[s] EXCEPT !.verbose = v % 16])
          [] name = "nodelay" -> [done(sock[s]) EXCEPT !.kopt = RexSet(@, "nodelay", v)]
          [] OTHER -> [done(sock[s]) EXCEPT !.rc = -1]

\* xget answers no socket for a closed descriptor, and the call EBADF.
xsetopt(s, opt, v) ==
    LET r == Set(s, Entry(Setters[Class[s]], opt), v)
    IN  /\ Class[s] # "none"
        /\ r.rc = 0
        /\ sock' = [sock EXCEPT ![s] = r.sock]
        /\ kopt' = [kopt EXCEPT ![s] = r.kopt]
        /\ asked' = [asked EXCEPT !["xso"][s][Xso[opt + 1]] = <<v>>]
        /\ Counted

Get(s, name) ==
    CASE name = "noblock" -> Answer(sock[s].non_block)
      [] name = "sndbuf" -> Answer(sock[s].snd)
      [] name = "rcvbuf" -> Answer(sock[s].rcv)
      [] name = "verbose" -> Answer(sock[s].verbose)
      [] name = "socktype" -> Answer(IF s \in Listens THEN "XLISTENER" ELSE "XCONNECTOR")
      [] name = "sockprotocol" -> Answer(Class[s])
      [] OTHER -> Refused

xgetopt(s, opt) ==
    /\ Class[s] # "none"
    /\ got' = [level |-> "xso", s |-> s, opt |-> Xso[opt + 1],
               out |-> Get(s, Entry(Getters[Class[s]], opt))]
    /\ UNCHANGED <<sock, kopt, asked, sets>>

OptNext ==
    \E s \in Descs :
        \/ \E opt \in 0..9 : xgetopt(s, opt) \/ \E v \in Values : xsetopt(s, opt, v)
        \/ \E opt \in 0..10 : rex_gen_getopt(s, opt) \/ \E v \in Values : rex_gen_setopt(s, opt, v)

OptSpec == OptInit /\ [][OptNext]_optvars

(* ------------------------------ properties ------------------------------- *)

\* A timeout comes back in milliseconds, up to a tick later than it was set; one
\* of negative seconds does not come back.
Tick == (999 + HZ) \div HZ
InTime(v, w) == IF v < 0 THEN w = 0 ELSE w \in v..(v + Tick - 1)

\* What an option can hold of a value: a truth, four bits, a timeout, or all of it.
Held(o, v, w) ==
    CASE o = "noblock" -> w = Bool(v)
      [] o = "verbose" -> w = v % 16
      [] o \in {"sndtimeo", "rcvtimeo"} -> InTime(v, w)
      [] OTHER -> w = v

\* An option that was set and can be read answers what was last set for this
\* option of this socket, at both levels, whatever was set for the others since:
\* the tables of readers and writers agree with each other and with the numbers
\* of the options, and no option's storage is another's.  A timeout is what the
\* kernel keeps of it: none if it is negative, else never shorter than it was
\* set, and less than a tick longer.
GetIsSet ==
    got # <<>> /\ got.out.rc = 0 /\ asked[got.level][got.s][got.opt] # <<>> =>
        Held(got.opt, asked[got.level][got.s][got.opt][1], got.out.val)
================================================================================
