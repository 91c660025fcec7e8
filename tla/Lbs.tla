-------------------------------- MODULE Lbs --------------------------------
(***************************************************************************)
(* How a request endpoint chooses the connection of a request              *)
(* (src/sp/reqrep/lbs_*.c): by turns with weights, by a hash into an array *)
(* (src/utils/unorder_p_array.h), or by a hash onto a ring of points       *)
(* (src/utils/consistent_hash.c), which is a map of Rbtree.  The endpoint  *)
(* calls it under its lock, so an operation is one step.  Where an MD5 sum *)
(* falls on the ring is a parameter.                                       *)
(***************************************************************************)
EXTENDS Integers, Sequences, FiniteSets

CONSTANTS
  Targets,    \* the connections of the endpoint
  VNodes,     \* CONHASH_DEFAULT_VNODES: points of one target on the ring
  Point,      \* <<target, number>> -> the MD5 sum of a point
  Keys,       \* first bytes of messages, and what a user's hash makes of them
  Weights,    \* weights that a user sets
  MaxTurns,   \* bound of this model on turns between two changes
  Nil

Points == Targets \X (1 .. VNodes)

\* What the constants must be.
LbsAssumption ==
  /\ Nil \notin Targets /\ VNodes \in Nat \ {0} /\ Point \in [Points -> Seq(Nat)]
  /\ Keys \subseteq Seq(Nat) /\ Weights \subseteq Int /\ MaxTurns \in Nat

VARIABLES
  alg,        \* "rrbin", "ulhash" or "conhash"
  conns,      \* the connectors that take part
  strangers,  \* history: those the algorithm in use does not know: they came to
              \* another one, or did not get onto the ring
  rr,         \* rrbin_lbs.head
  origin, current, \* weights
  arr, idx,   \* unorder_p_array, and the index each target keeps
  strayed,    \* history: a target was erased by an index that was another's
  ring,       \* consistent_hash.v_rb_tree
  picked,     \* what the last select gave: [tg, live]
  turns       \* history: turns of each target since the last change

R == INSTANCE Rbtree WITH Entries <- Points, Key <- Point, kind <- "str", t <- ring

rrVars == <<rr, origin, current, turns>>
ulVars == <<arr, idx, strayed>>
vars == <<alg, conns, strangers, rrVars, ulVars, ring, picked>>

\* Faults: a target whose turn is over goes back to the front; the last point of a
\* target stays on the ring.
MovedBack_front(q, g) == <<g>> \o SelectSeq(q, LAMBDA h : h # g)
PointsOf_few(g) == {p \in Points : p[1] = g /\ p[2] < VNodes}

----------------------------------------------------------------------------

NoTurns == [g \in Targets |-> 0]

\* weight_rrbin_add.
weight_rrbin_add(g) ==
  /\ rr' = Append(rr, g) /\ turns' = NoTurns
  /\ origin' = [origin EXCEPT ![g] = 1] /\ current' = [current EXCEPT ![g] = 1]
  /\ UNCHANGED <<ulVars, ring, strangers>>

\* unorder_p_array_push_back.
ulhash_add(g) ==
  /\ idx' = [idx EXCEPT ![g] = Len(arr)] /\ arr' = Append(arr, g)
  /\ UNCHANGED <<rrVars, strayed, ring, strangers>>

\* consistent_hash_rm: the list of points holds them by target, in the order added.
AllRemoved(u, S) ==
  LET rm[k \in 0 .. VNodes] ==
        IF k = 0 THEN u
        ELSE LET p == {q \in S : q[2] = k}
             IN  IF p = {} THEN rm[k - 1] ELSE R!rb_erase(rm[k - 1], CHOOSE q \in p : TRUE)
  IN  rm[VNodes]
Unlinked(u) == [u EXCEPT !.up = [p \in Points |-> IF p \in R!Within(u) THEN @[p] ELSE Nil],
                         !.black = [p \in Points |-> p \in R!Within(u) /\ @[p]],
                         !.child = [s \in R!Sides |-> [p \in Points |->
                                      IF p \in R!Within(u) THEN @[s][p] ELSE Nil]]]

\* consistent_hash_add: the points of the target in turn, n of them.
PointsOf(g) == {p \in Points : p[1] = g}
Added(u, g, n) ==
  LET add[k \in 0 .. n] == IF k = 0 THEN u ELSE R!str_rb_insert(add[k - 1], <<g, k>>)
  IN  add[n]

\* There is no room for a point whose sum is on the ring already.
Room(u, g, k) == R!str_rb_find(Added(u, g, k - 1), Point[<<g, k>>]) = Nil

\* All of them, or when one cannot be added, or allocated, those before it are taken
\* out again: the endpoint is not told, and has a connection that is not on the ring.
conhash_add(g) ==
  /\ \E n \in 0 .. VNodes :
       /\ \A k \in 1 .. n : Room(ring, g, k)
       /\ IF n = VNodes THEN ring' = Added(ring, g, n) /\ UNCHANGED strangers
          ELSE /\ ring' = Unlinked(AllRemoved(Added(ring, g, n), {<<g, k>> : k \in 1 .. n}))
               /\ strangers' = strangers \cup {g}
  /\ UNCHANGED <<rrVars, ulVars>>

Add == \E g \in Targets \ conns :
  /\ conns' = conns \cup {g}
  /\ CASE alg = "rrbin" -> weight_rrbin_add(g)
       [] alg = "ulhash" -> ulhash_add(g)
       [] alg = "conhash" -> conhash_add(g)
  /\ UNCHANGED <<alg, picked>>

weight_rrbin_rm(g) ==
  /\ rr' = SelectSeq(rr, LAMBDA h : h # g) /\ turns' = NoTurns
  /\ UNCHANGED <<origin, current, ulVars, ring>>

\* unorder_p_array_erase: the last one comes in the place of the one that leaves, and
\* keeps the index it had.  An index past the end writes where nothing is read.
ulhash_rm(g) ==
  LET n == Len(arr) - 1
  IN  /\ arr' = [k \in 1 .. n |-> IF k = idx[g] + 1 THEN arr[n + 1] ELSE arr[k]]
      /\ strayed' = (strayed \/ idx[g] > n \/ arr[idx[g] + 1] # g)
      /\ UNCHANGED <<rrVars, idx, ring>>

conhash_rm(g) ==
  /\ ring' = Unlinked(AllRemoved(ring, PointsOf(g) \cap R!Within(ring)))
  /\ UNCHANGED <<rrVars, ulVars>>

\* The links of a stranger of rrbin or ulhash lead into memory that is free: what
\* taking it out would do is not followed.  conhash searches, and finds none of its points.
Rm == \E g \in conns :
  /\ g \in strangers => alg = "conhash"
  /\ conns' = conns \ {g} /\ strangers' = strangers \ {g}
  /\ CASE alg = "rrbin" -> weight_rrbin_rm(g)
       [] alg = "ulhash" -> ulhash_rm(g)
       [] alg = "conhash" -> conhash_rm(g)
  /\ UNCHANGED <<alg, picked>>

\* list_move_tail.
MovedBack(q, g) == SelectSeq(q, LAMBDA h : h # g) \o <<g>>

Picks(g) == picked' = [tg |-> g, live |-> IF g = Nil THEN conns \subseteq strangers ELSE g \in conns]

\* The turn of a target is over when its weight is used up.
weight_rrbin_select ==
  /\ alg = "rrbin"
  /\ IF rr = <<>> THEN Picks(Nil) /\ UNCHANGED <<rr, current, turns>>
     ELSE LET g == Head(rr)
          IN  /\ Picks(g)
              /\ IF current[g] - 1 <= 0
                 THEN /\ turns[g] < MaxTurns /\ turns' = [turns EXCEPT ![g] = @ + 1]
                      /\ current' = [current EXCEPT ![g] = origin[g]] /\ rr' = MovedBack(rr, g)
                 ELSE current' = [current EXCEPT ![g] = @ - 1] /\ UNCHANGED <<rr, turns>>
  /\ UNCHANGED <<alg, conns, strangers, origin, ulVars, ring>>

HashOf(k) == IF k = <<>> THEN 0 ELSE k[Len(k)]
ulhash_select ==
  /\ alg = "ulhash"
  /\ \E k \in Keys : Picks(IF arr = <<>> THEN Nil ELSE arr[(HashOf(k) % Len(arr)) + 1])
  /\ UNCHANGED <<alg, conns, strangers, rrVars, ulVars, ring>>

\* consistent_hash_get: the bytes of the message, whose MD5 sum is not used, are
\* searched for as they are.
conhash_select ==
  /\ alg = "conhash"
  /\ \E k \in Keys : LET leaf == R!str_rb_find_leaf(ring, k)
                     IN  Picks(IF leaf = Nil THEN Nil ELSE leaf[1])
  /\ UNCHANGED <<alg, conns, strangers, rrVars, ulVars, ring>>

set_rrbin_weight ==
  /\ alg = "rrbin"
  /\ \E g \in conns \ strangers, w \in Weights : origin' = [origin EXCEPT ![g] = w]
  /\ UNCHANGED <<alg, conns, strangers, rr, current, turns, ulVars, ring, picked>>

\* The algorithm is replaced by a new one, which knows none of the connections there
\* are; conhash cannot be chosen so, and what was chosen cannot be left for it.
set_lbs ==
  /\ alg # "conhash"
  /\ alg' \in {"rrbin", "ulhash"}
  /\ strangers' = conns
  /\ rr' = <<>> /\ origin' = NoTurns /\ current' = NoTurns /\ turns' = NoTurns
  /\ arr' = <<>> /\ idx' = NoTurns /\ strayed' = FALSE
  /\ picked' = [tg |-> Nil, live |-> TRUE]
  /\ UNCHANGED <<conns, ring>>

\* reqep_alloc begins with rrbin; conhash is there but nothing chooses it yet.
Init ==
  /\ alg \in {"rrbin", "conhash"} /\ conns = {} /\ strangers = {} /\ rr = <<>>
  /\ origin = NoTurns /\ current = NoTurns /\ turns = NoTurns
  /\ arr = <<>> /\ idx = NoTurns /\ strayed = FALSE
  /\ ring = R!Empty /\ picked = [tg |-> Nil, live |-> TRUE]

Next == Add \/ Rm \/ weight_rrbin_select \/ ulhash_select \/ conhash_select
        \/ set_rrbin_weight \/ set_lbs

Spec == Init /\ [][Next]_vars

----------------------------------------------------------------------------
(* Properties.                                                             *)

\* A request goes to a connection that is there, and is refused only if there is none
\* that the algorithm knows: none that came after it was chosen and got onto its ring
\* (req_ep.c:55-63, 173-180, consistent_hash.c:86-120).  The array keeps this only until
\* a target is erased that had come in another's place: its index is the old one, and
\* it takes another one out (unorder_p_array.h:61-63).
PicksLive == (alg = "ulhash" /\ strayed) \/ picked.live

\* Whatever the weights, no target has two turns while another waits for one
\* (lbs_rrbin.c:42-49).
TurnsEven == \A g, h \in conns \ strangers : turns[g] <= turns[h] + 1
=============================================================================
