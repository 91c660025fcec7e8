-------------------------------- MODULE Msg --------------------------------
(***************************************************************************)
(* A message and its sub-messages (src/msgbuf/msgbuf.c): how uctl puts     *)
(* them together, how the tree is laid out for writev and accounted for    *)
(* when a part of it was written, and how the receiver takes it apart from *)
(* the pages of its buffer (src/utils/bufio.c), whatever the portions that *)
(* the bytes come in.                                                      *)
(*                                                                         *)
(* A byte is <<message, place>>: the first Hdr of them are the frame, and  *)
(* say what the message says of itself.  Sizes are in units of a few bytes.*)
(***************************************************************************)
EXTENDS Integers, Sequences, FiniteSets, SequencesExt

CONSTANTS
  Nodes,      \* messages
  Root,       \* the one that is sent
  Size,       \* Nodes -> ulen
  Hdr,        \* sizeof(struct msghdr)
  SubMark,    \* MSGBUF_SUBNUMMARK
  LenMark,    \* MSGBUF_CMSGLENMARK
  Iovs,       \* segments of one writev
  MaxOps,     \* bound of this model on calls of uctl
  PageSize    \* of a bio_page

\* What the constants must be.
MsgAssumption ==
  /\ Root \in Nodes /\ Size \in [Nodes -> Nat]
  /\ {Hdr, SubMark, LenMark, Iovs, PageSize} \subseteq Nat \ {0} /\ MaxOps \in Nat

VARIABLES
  m,          \* the messages: [subs, num, clen], of cmsg_head, cmsg_num, cmsg_length
  phase,      \* "build", "send" or "sent"
  soff,       \* bytes of each that were written
  wire,       \* what was written and has not arrived
  pages,      \* bio.page_head of the receiver
  got,        \* what the receiver made: Again, Bug or <<message, its subs>>
  ops,        \* calls of uctl, up to MaxOps
  stale       \* history: a message that has a parent was changed, or sub-messages
              \* were moved to one that had some

vars == <<m, phase, soff, wire, pages, got, ops, stale>>

Again == <<"again">>
Bug == <<"bug">>

\* Faults: the total leaves the sub-messages out, for the writer and for the reader.
Total_own(n) == Hdr + Size[n]
msgbuf_recv_finish_own(b) == Len(b) >= Hdr /\ Len(b) >= Hdr + Size[b[1][1]]

----------------------------------------------------------------------------

msgbuf_len(n) == Hdr + Size[n]

RECURSIVE msgbuf_lens(_, _), SumLens(_, _)
msgbuf_lens(u, n) == msgbuf_len(n) + SumLens(u, u.subs[n])
SumLens(u, q) == IF q = <<>> THEN 0 ELSE msgbuf_lens(u, Head(q)) + SumLens(u, Tail(q))

HasParent(u, n) == \E p \in Nodes : n \in Range(u.subs[p])
Descends(u, n) == LET d[k \in 0 .. Cardinality(Nodes)] ==
                        IF k = 0 THEN {n} ELSE d[k - 1] \cup UNION {Range(u.subs[p]) : p \in d[k - 1]}
                  IN  d[Cardinality(Nodes)]

TooMuch(u, p, n) == u.num[p] = SubMark \/ u.clen[p] + msgbuf_lens(u, n) > LenMark
sub_msgbuf_add(u, p, n) ==
  IF TooMuch(u, p, n) THEN u
  ELSE [u EXCEPT !.num[p] = @ + 1, !.clen[p] = @ + msgbuf_lens(u, n), !.subs[p] = Append(@, n)]
sub_msgbuf_rm(u, p, n) ==
  [u EXCEPT !.num[p] = @ - 1, !.clen[p] = @ - msgbuf_lens(u, n),
            !.subs[p] = SelectSeq(@, LAMBDA k : k # n)]
sub_msgbuf_switch(u, src, dst) ==
  [subs |-> [u.subs EXCEPT ![src] = <<>>, ![dst] = u.subs[src] \o u.subs[dst]],
   num |-> [u.num EXCEPT ![dst] = u.num[src], ![src] = 0],
   clen |-> [u.clen EXCEPT ![dst] = u.clen[src], ![src] = 0]]

\* sub_msgbuf_copy: the children alone, as new messages; one too many is lost.
sub_msgbuf_copy(u, dst, news) ==
  LET add[k \in 0 .. Len(news)] == IF k = 0 THEN u ELSE sub_msgbuf_add(add[k - 1], dst, news[k])
  IN  add[Len(news)]

\* ufree of a message: it and all below it are new again.
Freed(u, n) ==
  LET gone == Descends(u, n)
      new(f, v) == [k \in Nodes |-> IF k \in gone THEN v ELSE f[k]]
  IN  [subs |-> new(u.subs, <<>>), num |-> new(u.num, 0), clen |-> new(u.clen, 0)]

New(n) == n # Root /\ m.subs[n] = <<>> /\ ~HasParent(m, n)

\* uctl: the operations that change a message.
SADD == \E p, n \in Nodes :
  /\ n # Root /\ ~HasParent(m, n) /\ p \notin Descends(m, n)
  /\ m' = sub_msgbuf_add(m, p, n) /\ stale' = (stale \/ HasParent(m, p))
SRM == \E p \in Nodes : \E n \in Range(m.subs[p]) :
  m' = sub_msgbuf_rm(m, p, n) /\ stale' = (stale \/ HasParent(m, p))
SSWITCH == \E src, dst \in Nodes :
  /\ src # dst /\ m.subs[src] # <<>> /\ dst \notin Descends(m, src)
  /\ m' = sub_msgbuf_switch(m, src, dst)
  /\ stale' = (stale \/ HasParent(m, src) \/ HasParent(m, dst) \/ m.subs[dst] # <<>>)
\* The walk of a message copied into itself goes on over the copies it appends, until
\* there are too many, if there were two or more to begin with: that is left out.
SCOPY == \E src, dst \in Nodes :
  LET q == m.subs[src]
  IN  /\ q # <<>> /\ (src = dst => Len(q) = 1)
      /\ \E news \in [1 .. Len(q) -> Nodes] :
           /\ \A k \in DOMAIN q : New(news[k]) /\ Size[news[k]] = Size[q[k]] /\ news[k] # dst
           /\ Cardinality(Range(news)) = Len(q)
           /\ m' = sub_msgbuf_copy(m, dst, news) /\ stale' = (stale \/ HasParent(m, dst))
ufree == \E n \in Nodes \ {Root} :
  ~HasParent(m, n) /\ m.subs[n] # <<>> /\ m' = Freed(m, n) /\ UNCHANGED stale

uctl ==
  /\ phase = "build" /\ ops < MaxOps /\ ops' = ops + 1 /\ (SADD \/ SRM \/ SSWITCH \/ SCOPY \/ ufree)
  /\ UNCHANGED <<phase, soff, wire, pages, got>>

\* xsend.
Send == phase = "build" /\ phase' = "send" /\ UNCHANGED <<m, soff, wire, pages, got, ops, stale>>

----------------------------------------------------------------------------
(* Writing.                                                                *)

\* msgbuf_serialize: the segments <<message, first, last>> left to write, n at most.
RECURSIVE msgbuf_serialize(_, _), SerializeAll(_, _)
msgbuf_serialize(k, n) ==
  IF n = 0 THEN <<>>
  ELSE LET own == IF soff[k] < msgbuf_len(k) THEN <<<<k, soff[k] + 1, msgbuf_len(k)>>>> ELSE <<>>
       IN  own \o SerializeAll(m.subs[k], n - Len(own))
SerializeAll(q, n) ==
  IF q = <<>> \/ n = 0 THEN <<>>
  ELSE LET first == msgbuf_serialize(Head(q), n)
       IN  first \o SerializeAll(Tail(q), n - Len(first))

Bytes(segs) ==
  LET one(s) == [k \in 1 .. s[3] - s[2] + 1 |-> <<s[1], s[2] + k - 1>>]
  IN  FlattenSeq([k \in DOMAIN segs |-> one(segs[k])])

\* __msgbuf_install_iovs: [s, left, sum] after left bytes more were written from n on.
RECURSIVE Install(_, _, _), InstallAll(_, _, _)
Install(s, n, left) ==
  LET diff == IF left > msgbuf_len(n) - s[n] THEN msgbuf_len(n) - s[n] ELSE left
      own == [s |-> [s EXCEPT ![n] = @ + diff], left |-> left - diff, sum |-> s[n] + diff]
  IN  IF left = diff THEN own
      ELSE LET below == InstallAll(own.s, m.subs[n], own.left)
           IN  [below EXCEPT !.sum = @ + own.sum]
InstallAll(s, q, left) ==
  IF q = <<>> THEN [s |-> s, left |-> left, sum |-> 0]
  ELSE LET one == Install(s, Head(q), left)
       IN  IF one.left = 0 THEN one
           ELSE LET rest == InstallAll(one.s, Tail(q), one.left)
                IN  [rest EXCEPT !.sum = @ + one.sum]

\* How much of it there is to write, for msgbuf_install_iovs.
Total(n) == msgbuf_len(n) + m.clen[n]

\* A writev that takes some of the bytes, and what msgbuf_install_iovs makes of it.
Write ==
  /\ phase = "send"
  /\ LET bytes == Bytes(msgbuf_serialize(Root, Iovs))
     IN  \E k \in 1 .. Len(bytes) :
           LET done == Install(soff, Root, k)
           IN  /\ wire' = wire \o SubSeq(bytes, 1, k) /\ soff' = done.s
               /\ phase' = IF done.sum = Total(Root) THEN "sent" ELSE "send"
  /\ UNCHANGED <<m, pages, got, ops, stale>>

----------------------------------------------------------------------------
(* Reading.                                                                *)

\* What still goes into a page.
Room(p) == PageSize - Len(p)

\* bio_write, bio_copy of all there is, and bio_read.
RECURSIVE bio_write(_, _)
bio_write(ps, b) ==
  IF b = <<>> THEN ps
  ELSE IF ps = <<>> \/ Room(Last(ps)) <= 0 THEN bio_write(Append(ps, <<>>), b)
  ELSE LET n == IF Room(Last(ps)) > Len(b) THEN Len(b) ELSE Room(Last(ps))
       IN  bio_write([ps EXCEPT ![Len(ps)] = @ \o SubSeq(b, 1, n)], SubSeq(b, n + 1, Len(b)))
bio_copy(ps) == FlattenSeq(ps)
RECURSIVE bio_read(_, _)
bio_read(ps, n) ==
  IF n = 0 \/ ps = <<>> THEN ps
  ELSE IF Len(Head(ps)) <= n THEN bio_read(Tail(ps), n - Len(Head(ps)))
  ELSE <<SubSeq(Head(ps), n + 1, Len(Head(ps)))>> \o Tail(ps)

\* msgbuf_recv_finish: the frame is there, and as much as it says comes with it.
msgbuf_recv_finish(b) ==
  Len(b) >= Hdr /\ Len(b) >= msgbuf_len(b[1][1]) + m.clen[b[1][1]]

\* msgbuf_deserialize: [msg, rest]; a sub-message that is not all there is a BUG.  After
\* a wrong count of sub-messages the bytes are not those of a frame: any outcome, Bug.
RECURSIVE msgbuf_deserialize(_), Subs(_, _, _)
msgbuf_deserialize(ps) ==
  LET b == bio_copy(ps)
      k == b[1][1]
  IN  IF ~msgbuf_recv_finish(b) THEN [msg |-> Again, rest |-> ps]
      ELSE IF b[1][2] # 1 THEN [msg |-> Bug, rest |-> ps]
      ELSE Subs(<<k>>, m.num[k], bio_read(ps, msgbuf_len(k)))
Subs(tree, n, ps) ==
  IF n = 0 THEN [msg |-> tree, rest |-> ps]
  ELSE LET one == msgbuf_deserialize(ps)
       IN  IF one.msg \in {Again, Bug} THEN [msg |-> Bug, rest |-> ps]
           ELSE Subs(Append(tree, one.msg), n - 1, one.rest)

\* Some of the bytes arrive, and the receiver tries.  The writer does not depend on it:
\* here it has written what it can before.
Arrive ==
  /\ phase = "sent" \/ (phase = "send" /\ msgbuf_serialize(Root, Iovs) = <<>>)
  /\ got = Again /\ \E k \in 1 .. Len(wire) :
       LET in == bio_write(pages, SubSeq(wire, 1, k))
           out == msgbuf_deserialize(in)
       IN  /\ wire' = SubSeq(wire, k + 1, Len(wire)) /\ pages' = out.rest /\ got' = out.msg
  /\ UNCHANGED <<m, phase, soff, ops, stale>>

Init ==
  /\ m = [subs |-> [n \in Nodes |-> <<>>], num |-> [n \in Nodes |-> 0], clen |-> [n \in Nodes |-> 0]]
  /\ phase = "build" /\ soff = [n \in Nodes |-> 0] /\ wire = <<>> /\ pages = <<>>
  /\ got = Again /\ ops = 0 /\ stale = FALSE

Next == uctl \/ Send \/ Write \/ Arrive

Spec == Init /\ [][Next]_vars

----------------------------------------------------------------------------
(* Properties.                                                             *)

RECURSIVE TreeOf(_)
TreeOf(n) == <<n>> \o [k \in DOMAIN m.subs[n] |-> TreeOf(m.subs[n][k])]

\* A message leaves the send queue when the last byte of its tree has been written, and
\* not before, however the writes divide it (msgbuf.c:256-287).
SentWhole ==
  ~stale => (phase = "sent" <=> \A n \in Descends(m, Root) : soff[n] = msgbuf_len(n))

\* The receiver makes the tree that was sent, out of whatever portions come, and reads
\* no byte of what follows (msgbuf.c:289-343).
TreeIntact ==
  ~stale => /\ got # Again => got = TreeOf(Root) /\ pages = <<>>
            /\ phase = "sent" /\ wire = <<>> => got # Again

\* The assertion that a sub-message is there when its parent is (msgbuf.c:337).
SubsThere == got # Bug
=============================================================================
