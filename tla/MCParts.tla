------------------------------- MODULE MCParts -------------------------------
(***************************************************************************)
(* The modules whose parts do not share state: the mixed listener, the     *)
(* portability layer, the options and the lists, which this module         *)
(* extends, and instances of the maps, load balancing, messages and names. *)
(* A behaviour takes the steps of one of them, the others stay in an       *)
(* initial state.                                                          *)
(***************************************************************************)
EXTENDS Mix, Rex, Options, List

CONSTANT Nil

VARIABLES
    which,
    tkind, t,
    alg, conns, strangers, rr, origin, current, arr, idx, strayed, ring, picked, turns,
    m, phase, soff, wire, pages, parsed, ops, stale,
    name, where

\* Three sockets and two descriptors, so that they run out (parts.cfg).
MCResolve == [h1 |-> <<"a4", "a6">>, h2 |-> <<"a6">>]

\* A descriptor of each transport, and a closed one.
MCClass == [d \in Descs |-> d]
MCValues == {-2000, -1, 0, 1501}

\* Keys of which one begins another, and two entries of one key.
MCKeyOf == <<<<0>>, <<0, 0>>, <<0, 1>>, <<1>>, <<1, 0>>, <<1, 1>>, <<1, 1, 0>>, <<1, 1>>, <<2>>>>
Tree == INSTANCE Rbtree WITH Entries <- 1..9, Key <- MCKeyOf, Nil <- Nil, kind <- tkind

\* Three targets of three points, two of them interleaved on the ring.
MCTargets == {"a", "b", "c"}
MCPoint == [p \in MCTargets \X (1..3) |->
    CASE p[1] = "a" -> <<2 * p[2]>> [] p[1] = "b" -> <<2 * p[2] + 1>> [] p[1] = "c" -> <<3, p[2]>>]
Lb == INSTANCE Lbs WITH Targets <- MCTargets, VNodes <- 3, Point <- MCPoint,
    Keys <- {<<1>>, <<3>>, <<3, 1, 1>>, <<4>>, <<>>}, Weights <- {-1, 0, 2}, MaxTurns <- 2, Nil <- Nil

\* Five messages, three of them with a byte of their own.
MCNodes == {"r", "a", "b", "c", "d"}
Ms == INSTANCE Msg WITH Nodes <- MCNodes, Root <- "r",
    Size <- [n \in MCNodes |-> IF n \in {"r", "a", "d"} THEN 1 ELSE 0],
    Hdr <- 2, SubMark <- 2, LenMark <- 8, Iovs <- 2, MaxOps <- 4, PageSize <- 2, got <- parsed

\* Names of two families, up to two of them joined, and mixed names within mixed ones.
Ad == INSTANCE Addr WITH Plain <- {"tcp", "inproc"}, Most <- 2

ASSUME PartsAssumption == Tree!TreeAssumption /\ Lb!LbsAssumption /\ Ms!MsgAssumption

treeVars == <<tkind, t>>
lbVars == <<alg, conns, strangers, rr, origin, current, arr, idx, strayed, ring, picked, turns>>
msgVars == <<m, phase, soff, wire, pages, parsed, ops, stale>>
adVars == <<name, where>>

Init ==
    /\ which \in {"mix", "rex", "options", "tree", "list", "lbs", "msg", "addr"}
    /\ MixInit /\ RexInit /\ OptInit /\ ListInit
    /\ Tree!Init /\ (which # "tree" => tkind = "str")
    /\ Lb!Init /\ (which # "lbs" => alg = "rrbin")
    /\ Ms!Init
    /\ Ad!AddrInit /\ (which # "addr" => name = [token |-> FALSE, pf |-> "tcp", to |-> "a"])

Instances == <<treeVars, lbVars, msgVars, adVars>>

Next ==
    /\ UNCHANGED which
    /\ \/ which = "mix" /\ MixNext /\ UNCHANGED <<rexvars, optvars, listvars, Instances>>
       \/ which = "rex" /\ RexNext /\ UNCHANGED <<mixvars, optvars, listvars, Instances>>
       \/ which = "options" /\ OptNext /\ UNCHANGED <<mixvars, rexvars, listvars, Instances>>
       \/ which = "list" /\ ListNext /\ UNCHANGED <<mixvars, rexvars, optvars, Instances>>
       \/ /\ UNCHANGED <<mixvars, rexvars, optvars, listvars>>
          /\ \/ which = "tree" /\ Tree!Next /\ UNCHANGED <<lbVars, msgVars, adVars>>
             \/ which = "lbs" /\ Lb!Next /\ UNCHANGED <<treeVars, msgVars, adVars>>
             \/ which = "msg" /\ Ms!Next /\ UNCHANGED <<treeVars, lbVars, adVars>>
             \/ which = "addr" /\ Ad!xlisten /\ UNCHANGED <<treeVars, lbVars, msgVars>>

\* The maps keep the rules of a red-black tree and the order of their keys, whatever is
\* inserted, deleted and replaced (krb.c:36-43, str_rb.c:82-105).
MapsSound == which = "tree" => Tree!RedBlack /\ Tree!Ordered

\* A request goes to a connection that is there, and by turns no connection has
\* two while another waits (req_ep.c:59, lbs_rrbin.c:42-49).
BalanceSound == which = "lbs" => Lb!PicksLive /\ Lb!TurnsEven

\* What is read is what was meant: a message leaves the queue exactly when its tree is
\* written, and the receiver makes the same tree of it (msgbuf.c:256-343); xlisten
\* listens at the addresses that a name lists, however its mixed names are nested
\* (sockaddr.c:45-92, mix_listener.c:31-69).
ReadAsMeant == /\ which = "msg" => Ms!SentWhole /\ Ms!TreeIntact
               /\ which = "addr" => Ad!ListensAsNamed
================================================================================
