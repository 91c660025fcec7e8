---------------------------------- MODULE Addr ----------------------------------
(***************************************************************************)
(* Where xlisten listens, given a name (socket/sockaddr.c, str_array.c,    *)
(* listen.c): [token@]family://address, where the address of the family    *)
(* mix is a list of names joined by "+".                                   *)
(*                                                                         *)
(* A name is a sequence of symbols; "@", "://" and "+" are one each.       *)
(***************************************************************************)
EXTENDS Naturals, Sequences, SequencesExt

CONSTANTS
    Plain,  \* the families of plain names that are tried
    Most    \* bound: the names a mixed name joins

VARIABLES
    name,   \* what the caller means: [token, pf, to], to an address or a sequence of names
    where   \* what xlisten made of it: <<>> before the call, then <<result>>

addrvars == <<name, where>>

\* The families are numbers from 1 to 4, and sockaddr_pf joins them by "or".
Bits == [inproc |-> {1}, tcp |-> {2}, ipc |-> {1, 2}, mix |-> {4}]
Families == DOMAIN Bits

\* The place of the first symbol s, 0 if there is none (strchr, strstr).
First(u, s) == LET at == {k \in DOMAIN u : u[k] = s}
               IN  IF at = {} THEN 0 ELSE CHOOSE k \in at : \A j \in at : k <= j
From(u, k) == SubSeq(u, k, Len(u))

\* What stands before "://", without a token; {} when a token comes after it.
sockaddr_pf(u) ==
    LET sep == First(u, "://")
        at == First(u, "@")
    IN  IF sep = 0 \/ at > sep THEN {}
        ELSE UNION {Bits[f] : f \in Families \cap Range(SubSeq(u, at + 1, sep - 1))}

\* Fault for ListensAsNamed: the address is looked for from the end of the name.
sockaddr_addr_last(u) ==
    From(u, 1 + CHOOSE k \in DOMAIN u : u[k] = "://" /\ "://" \notin Range(From(u, k + 1)))

sockaddr_addr(u) == From(u, First(u, "://") + 1)

RECURSIVE str_split(_)
str_split(u) ==
    LET sep == First(u, "+")
    IN  IF sep = 0 THEN <<u>> ELSE <<SubSeq(u, 1, sep - 1)>> \o str_split(From(u, sep + 1))

\* sockbase_vfptr_lookup: the transports with exactly these bits.
sockbase_vfptr_lookup(bits) == {f \in Families : Bits[f] = bits}

Fails == <<<<"fails", <<>>>>>>

\* The addresses listened at, in their order; a mixed listener whose child fails
\* closes the others and fails.
RECURSIVE Listened(_)
Listened(u) ==
    LET to == sockaddr_addr(u)
        found == sockbase_vfptr_lookup(sockaddr_pf(u))
        each == [k \in DOMAIN str_split(to) |-> Listened(str_split(to)[k])]
    IN  IF found = {} THEN Fails
        ELSE IF found # {"mix"} THEN <<<<CHOOSE f \in found : TRUE, to>>>>
        ELSE IF Fails \in Range(each) THEN Fails
        ELSE FlattenSeq(each)

----------------------------------------------------------------------------

\* The names: plain ones, and mixed ones of those or of a mixed one.
Plains == [token : BOOLEAN, pf : Plain, to : {"a"}]
Mixes(of) == [token : BOOLEAN, pf : {"mix"}, to : UNION {[1..n -> of] : n \in 1..Most}]
Names == Plains \cup Mixes(Plains) \cup Mixes({[token |-> FALSE, pf |-> "tcp", to |-> "b"]}
             \cup {m \in Mixes(Plains) : ~m.token /\ ~m.to[1].token})

RECURSIVE Url(_)
Url(n) ==
    (IF n.token THEN <<"key", "@">> ELSE <<>>) \o <<n.pf, "://">> \o
    IF n.pf = "mix"
    THEN FoldLeft(LAMBDA u, v : IF u = <<>> THEN v ELSE u \o <<"+">> \o v, <<>>,
                  [k \in DOMAIN n.to |-> Url(n.to[k])])
    ELSE <<n.to>>

AddrInit == name \in Names /\ where = <<>>

xlisten ==
    /\ where = <<>>
    /\ where' = <<Listened(Url(name))>>
    /\ UNCHANGED name

(* ------------------------------- properties ------------------------------- *)

RECURSIVE Meant(_), Hidden(_)
Meant(n) == IF n.pf = "mix" THEN FlattenSeq([k \in DOMAIN n.to |-> Meant(n.to[k])])
            ELSE <<<<n.pf, <<n.to>>>>>>

\* A mixed name without a token, one of whose names has one: the first "@" is then not
\* before the first "://".
Hidden(n) == n.pf = "mix" /\ ((~n.token /\ "@" \in Range(Url(n))) \/ \E k \in DOMAIN n.to : Hidden(n.to[k]))

\* xlisten listens at the addresses that the name lists, at each once and in their
\* order, also when mixed names are nested.  Only a mixed name that hides the token of
\* one of its names is refused, although the comment at sockaddr.c:28-32 gives every
\* name a token.
ListensAsNamed == where # <<>> => where[1] = Meant(name) \/ (where[1] = Fails /\ Hidden(name))
================================================================================
