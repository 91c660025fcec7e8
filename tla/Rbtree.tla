------------------------------- MODULE Rbtree -------------------------------
(***************************************************************************)
(* The red-black tree of src/utils (krb.c, krb_augmented.c) and the two    *)
(* maps built on it: str_rb, whose keys are strings of bytes and unique,   *)
(* and i64_rb, whose keys are numbers that may repeat.  The table of       *)
(* in-process listeners and the consistent hash are str_rb maps.           *)
(*                                                                         *)
(* The source writes each case of the rebalancing twice, for a left and    *)
(* for a right child; here a side is a parameter.  A map is used under its *)
(* owner's lock, so an operation is one step.                              *)
(***************************************************************************)
EXTENDS Integers, Sequences, FiniteSets

CONSTANTS
  Entries,    \* the nodes, each in the tree or out of it
  Key,        \* Entries -> sequences of bytes; an i64 is a sequence of one
  Nil

Sides == {"l", "r"}
Other(s) == IF s = "l" THEN "r" ELSE "l"

\* What the constants must be.
TreeAssumption ==
  /\ Nil \notin Entries /\ Key \in [Entries -> Seq(Nat)] /\ Cardinality(Entries) > 1

VARIABLES
  kind,       \* "str" or "i64"
  t           \* rb_root with its nodes: [root, child, up, black]

Empty == [root |-> Nil, child |-> [s \in Sides |-> [n \in Entries |-> Nil]],
          up |-> [n \in Entries |-> Nil], black |-> [n \in Entries |-> FALSE]]

----------------------------------------------------------------------------
(* krb_augmented.h                                                         *)

Red(u, n) == n # Nil /\ ~u.black[n]

\* A step of the source for a NULL node is skipped there too.
rb_set_parent_color(u, n, p, b) ==
  IF n = Nil THEN u ELSE [u EXCEPT !.up[n] = p, !.black[n] = b]
rb_set_parent(u, n, p) == IF n = Nil THEN u ELSE [u EXCEPT !.up[n] = p]
SetChild(u, s, n, c) == [u EXCEPT !.child[s][n] = c]

\* Fault for Ordered: a child put back on the left whatever side it was.
__rb_change_child_left(u, old, new, p) ==
  IF p = Nil THEN [u EXCEPT !.root = new] ELSE SetChild(u, "l", p, new)

__rb_change_child(u, old, new, p) ==
  IF p = Nil THEN [u EXCEPT !.root = new]
  ELSE SetChild(u, IF u.child["l"][p] = old THEN "l" ELSE "r", p, new)

__rb_rotate_set_parents(u, old, new, b) ==
  LET p == u.up[old]
      v == [u EXCEPT !.up[new] = p, !.black[new] = u.black[old], !.up[old] = new, !.black[old] = b]
  IN  __rb_change_child(v, old, new, p)

----------------------------------------------------------------------------
(* krb.c: insertion                                                        *)

\* Case 2: the node n is the inner child of p; it takes the place of its parent,
\* but for the grandparent, which case 3 sets.
Outwards(u, n, p, s) ==
  LET c == u.child[s][n]
      v == SetChild(SetChild(u, Other(s), p, c), s, n, p)
  IN  rb_set_parent_color(rb_set_parent_color(v, c, p, TRUE), p, n, FALSE)

\* Case 3: the parent p comes up in the place of the grandparent g.
Upwards(u, g, p, s) ==
  LET c == u.child[Other(s)][p]
      v == SetChild(SetChild(u, s, g, c), Other(s), p, g)
  IN  __rb_rotate_set_parents(rb_set_parent_color(v, c, g, TRUE), g, p, FALSE)

RECURSIVE __rb_insert(_, _)
__rb_insert(u, n) ==
  LET p == u.up[n]
      g == u.up[p]
      s == IF u.child["r"][g] = p THEN "r" ELSE "l"
      uncle == u.child[Other(s)][g]
      flipped == rb_set_parent_color(rb_set_parent_color(
                   rb_set_parent_color(u, uncle, g, TRUE), p, g, TRUE), g, u.up[g], FALSE)
  IN  IF p = Nil THEN rb_set_parent_color(u, n, Nil, TRUE)
      ELSE IF u.black[p] THEN u
      ELSE IF Red(u, uncle) THEN __rb_insert(flipped, g)
      ELSE IF u.child[Other(s)][p] = n THEN Upwards(Outwards(u, n, p, s), g, n, s)
      ELSE Upwards(u, g, p, s)

----------------------------------------------------------------------------
(* krb.c: removal                                                          *)

\* Case 1: the sibling is red and comes up in the place of the parent.
SiblingUp(u, p, s, sib) ==
  LET c == u.child[s][sib]
      v == SetChild(SetChild(u, Other(s), p, c), s, sib, p)
  IN  __rb_rotate_set_parents(rb_set_parent_color(v, c, p, TRUE), p, sib, FALSE)

\* Case 3: the sibling's child on the near side comes up in the sibling's place.
NephewUp(u, p, s, sib) ==
  LET near == u.child[s][sib]
      c == u.child[Other(s)][near]
      v == SetChild(SetChild(SetChild(u, s, sib, c), Other(s), near, sib), Other(s), p, near)
  IN  rb_set_parent_color(v, c, sib, TRUE)

\* Fault for RedBlack: the sibling's far child stays red.
Settled_red(u, p, s, sib, far) ==
  LET c == u.child[s][sib]
      v == SetChild(SetChild(u, Other(s), p, c), s, sib, p)
  IN  __rb_rotate_set_parents(rb_set_parent(rb_set_parent(v, far, sib), c, p), p, sib, TRUE)

\* Case 4: the sibling comes up, black over black, for good.
Settled(u, p, s, sib, far) ==
  LET c == u.child[s][sib]
      v == SetChild(SetChild(u, Other(s), p, c), s, sib, p)
  IN  __rb_rotate_set_parents(
        rb_set_parent(rb_set_parent_color(v, far, sib, TRUE), c, p), p, sib, TRUE)

\* The paths through the child of p on one side, n, lack a black node.
RECURSIVE ____rb_erase_color(_, _, _)
____rb_erase_color(u0, p, n) ==
  LET s == IF u0.child["r"][p] = n THEN "r" ELSE "l"
      red == Red(u0, u0.child[Other(s)][p])
      u == IF red THEN SiblingUp(u0, p, s, u0.child[Other(s)][p]) ELSE u0
      sib == u.child[Other(s)][p]
      far == u.child[Other(s)][sib]
      near == u.child[s][sib]
      v == rb_set_parent_color(u, sib, p, FALSE)
  IN  IF Red(u, far) THEN Settled(u, p, s, sib, far)
      ELSE IF Red(u, near) THEN Settled(NephewUp(u, p, s, sib), p, s, near, sib)
      ELSE IF ~v.black[p] THEN [v EXCEPT !.black[p] = TRUE]
      ELSE IF v.up[p] = Nil THEN v
      ELSE ____rb_erase_color(v, v.up[p], p)

RECURSIVE Leftmost(_, _)
Leftmost(u, n) == IF u.child["l"][n] = Nil THEN n ELSE Leftmost(u, u.child["l"][n])

\* __rb_erase_augmented: the tree without n, and where to rebalance, if anywhere.
\* Case 1 has at most one child; in cases 2 and 3 the successor takes the place of n.
__rb_erase_augmented(u, n) ==
  LET p == u.up[n]
      l == u.child["l"][n]
      r == u.child["r"][n]
      only == IF l = Nil THEN r ELSE l
      suc == Leftmost(u, r)
      child2 == u.child["r"][suc]
      sp == IF suc = r THEN suc ELSE u.up[suc]
      moved == IF suc = r THEN u
               ELSE rb_set_parent(SetChild(SetChild(u, "l", sp, child2), "r", suc, r), r, suc)
      placed == __rb_change_child(rb_set_parent(SetChild(moved, "l", suc, l), l, suc), n, suc, p)
      coloured == rb_set_parent_color(placed, suc, p, u.black[n])
  IN  IF l = Nil \/ r = Nil
      THEN [tree |-> rb_set_parent_color(__rb_change_child(u, n, only, p), only, p, u.black[n]),
            at |-> IF only = Nil /\ u.black[n] THEN p ELSE Nil]
      ELSE [tree |-> rb_set_parent_color(coloured, child2, sp, TRUE),
            at |-> IF child2 = Nil /\ u.black[suc] THEN sp ELSE Nil]

rb_erase(u, n) ==
  LET e == __rb_erase_augmented(u, n)
  IN  IF e.at = Nil THEN e.tree ELSE ____rb_erase_color(e.tree, e.at, Nil)

rb_replace_node(u, victim, new) ==
  LET v == __rb_change_child(u, victim, new, u.up[victim])
      w == rb_set_parent(rb_set_parent(v, u.child["l"][victim], new), u.child["r"][victim], new)
  IN  [root |-> w.root, child |-> [s \in Sides |-> [w.child[s] EXCEPT ![new] = w.child[s][victim]]],
       up |-> [w.up EXCEPT ![new] = w.up[victim]],
       black |-> [w.black EXCEPT ![new] = w.black[victim]]]

\* rb_first and rb_last, rb_next and rb_prev: the next node on side s is the last one on
\* the other side below, or the first ancestor of which the node is on the other side.
RECURSIVE Deepest(_, _, _), Above(_, _, _)
Deepest(u, n, s) == IF n = Nil \/ u.child[s][n] = Nil THEN n ELSE Deepest(u, u.child[s][n], s)
Above(u, n, s) == IF u.up[n] # Nil /\ u.child[s][u.up[n]] = n THEN Above(u, u.up[n], s) ELSE u.up[n]
rb_step(u, n, s) == IF u.child[s][n] # Nil THEN Deepest(u, u.child[s][n], Other(s)) ELSE Above(u, n, s)

----------------------------------------------------------------------------
(* str_rb.c and i64_rb.c                                                   *)

\* str_rb_min and str_rb_max, i64_rb_min and i64_rb_max.
str_rb_min(u) == Deepest(u, u.root, "l")
str_rb_max(u) == Deepest(u, u.root, "r")

\* memcmp of the common length, then the lengths: -1, 0 or 1.
Compare(a, b) ==
  LET common == IF Len(a) < Len(b) THEN Len(a) ELSE Len(b)
      diff == {k \in 1 .. common : a[k] # b[k]}
      first == CHOOSE k \in diff : \A j \in diff : k <= j
  IN  IF diff # {} THEN IF a[first] < b[first] THEN -1 ELSE 1
      ELSE IF Len(a) < Len(b) THEN -1 ELSE IF Len(a) > Len(b) THEN 1 ELSE 0

\* str_rb_find_leaf from a node: the entry with the key, or the last one on the way.
RECURSIVE LeafFrom(_, _, _)
LeafFrom(u, n, k) ==
  LET c == Compare(k, Key[n])
      next == u.child[IF c < 0 THEN "l" ELSE "r"][n]
  IN  IF c = 0 \/ next = Nil THEN n ELSE LeafFrom(u, next, k)
str_rb_find_leaf(u, k) == IF u.root = Nil THEN Nil ELSE LeafFrom(u, u.root, k)

str_rb_find(u, k) ==
  LET n == str_rb_find_leaf(u, k) IN IF n # Nil /\ Key[n] = k THEN n ELSE Nil

\* rb_link_node and rb_insert_color: n becomes the child of p on side s.
Linked(u, n, p, s) ==
  LET v == [u EXCEPT !.up[n] = p, !.black[n] = FALSE,
                     !.child = [d \in Sides |-> [@[d] EXCEPT ![n] = Nil]]]
  IN  __rb_insert(IF p = Nil THEN [v EXCEPT !.root = n] ELSE SetChild(v, s, p, n), n)

\* str_rb_insert, when there is no entry with the key.
str_rb_insert(u, n) ==
  LET p == str_rb_find_leaf(u, Key[n])
  IN  Linked(u, n, p, IF p # Nil /\ Compare(Key[n], Key[p]) < 0 THEN "l" ELSE "r")

\* i64_rb_insert: an equal key goes to the right.
RECURSIVE SpotFrom(_, _, _)
SpotFrom(u, n, k) ==
  LET s == IF Compare(k, Key[n]) < 0 THEN "l" ELSE "r"
  IN  IF u.child[s][n] = Nil THEN <<n, s>> ELSE SpotFrom(u, u.child[s][n], k)
i64_rb_insert(u, n) ==
  LET spot == IF u.root = Nil THEN <<Nil, "l">> ELSE SpotFrom(u, u.root, Key[n])
  IN  Linked(u, n, spot[1], spot[2])

----------------------------------------------------------------------------

RECURSIVE Below(_, _)
Below(u, n) == IF n = Nil THEN {} ELSE {n} \cup Below(u, u.child["l"][n]) \cup Below(u, u.child["r"][n])
Within(u) == Below(u, u.root)

Init == kind \in {"str", "i64"} /\ t = Empty

StrInsert == kind = "str" /\ \E n \in Entries \ Within(t) :
  str_rb_find(t, Key[n]) = Nil /\ t' = str_rb_insert(t, n)
I64Insert == kind = "i64" /\ \E n \in Entries \ Within(t) : t' = i64_rb_insert(t, n)

\* What a node out of the tree holds is not looked at: it is cleared here, to have
\* fewer states.
Cleared(u, n) ==
  [u EXCEPT !.up[n] = Nil, !.black[n] = FALSE, !.child = [s \in Sides |-> [@[s] EXCEPT ![n] = Nil]]]
Delete == \E n \in Within(t) : t' = Cleared(rb_erase(t, n), n)
Replace == \E n \in Within(t), m \in Entries \ Within(t) :
  Key[m] = Key[n] /\ t' = Cleared(rb_replace_node(t, n, m), n)

Next == (StrInsert \/ I64Insert \/ Delete \/ Replace) /\ UNCHANGED kind

Spec == Init /\ [][Next]_<<kind, t>>

----------------------------------------------------------------------------
(* Properties.                                                             *)

\* The black nodes on a path from n down, when they are as many on every path.
RECURSIVE BlackHeight(_)
BlackHeight(n) ==
  IF n = Nil THEN 0
  ELSE LET l == BlackHeight(t.child["l"][n])
           r == BlackHeight(t.child["r"][n])
       IN  IF l = r /\ l >= 0 THEN l + (IF t.black[n] THEN 1 ELSE 0) ELSE -1

\* The five rules of krb.c:36-43: what keeps a path no longer than twice another; and
\* the parent pointers that rb_next and rb_erase go up by.
RedBlack ==
  /\ ~Red(t, t.root)
  /\ \A n \in Within(t) : Red(t, n) => ~Red(t, t.child["l"][n]) /\ ~Red(t, t.child["r"][n])
  /\ BlackHeight(t.root) >= 0
  /\ \A n \in Within(t), s \in Sides : t.child[s][n] # Nil => t.up[t.child[s][n]] = n
  /\ t.root # Nil => t.up[t.root] = Nil

RECURSIVE WalkFrom(_, _)
WalkFrom(n, s) == IF n = Nil THEN <<>> ELSE <<n>> \o WalkFrom(rb_step(t, n, s), s)
Walk(s) == WalkFrom(IF s = "r" THEN str_rb_min(t) ELSE str_rb_max(t), s)

\* Going from either end to the other meets every entry once, in the order of the keys;
\* a search for a key that is not there ends at one of its neighbours, which is what the
\* consistent hash takes for the owner of the key (str_rb.c:82-105).
Ordered ==
  /\ \A s \in Sides : /\ Len(Walk(s)) = Cardinality(Within(t))
                      /\ \A k \in 1 .. Len(Walk(s)) - 1 :
                           LET c == Compare(Key[Walk(s)[k]], Key[Walk(s)[k + 1]])
                           IN  c = 0 \/ c = IF s = "r" THEN -1 ELSE 1
  /\ kind = "str" => \A n \in Entries :
       LET leaf == str_rb_find_leaf(t, Key[n])
       IN  /\ leaf = Nil <=> t.root = Nil
           /\ leaf # Nil => ~\E m \in Within(t) \ {leaf} :
                \/ Compare(Key[leaf], Key[m]) <= 0 /\ Compare(Key[m], Key[n]) <= 0
                \/ Compare(Key[leaf], Key[m]) >= 0 /\ Compare(Key[m], Key[n]) >= 0
=============================================================================
