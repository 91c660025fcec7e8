---------------------------------- MODULE List ----------------------------------
(***************************************************************************)
(* The linked lists of the library (utils/list.h), on which its queues are *)
(* built: circles through a head, with pointers in both directions, and    *)
(* the two loops over them, of which one lets its body take out the entry  *)
(* it is at.  A list is used under its owner's lock, so an operation is    *)
(* one step, and so is one round of a loop.                                *)
(***************************************************************************)
EXTENDS Naturals, Sequences, SequencesExt

CONSTANTS
    Entries,  \* the links inside the structures that are listed
    Heads,    \* the heads of lists
    Poison    \* LIST_POISON1 and LIST_POISON2: no link

Links == Entries \cup Heads

ASSUME ListAssumption == Entries \cap Heads = {} /\ Poison \notin Links

VARIABLES
    ptr,     \* the pointers: [next, prev], per link
    loop,     \* the loop: [kind, head, pos, n], kind being "none", "entry" or "entry_s"
    listed,     \* history: what each list should be, a sequence per head
    walked,  \* history: what the list was when the loop began
    visited   \* history: the entries the loop was at

listvars == <<ptr, loop, listed, walked, visited>>

INIT_LIST_HEAD(p, x) == [p EXCEPT !.next[x] = x, !.prev[x] = x]

__list_add(p, x, prev, next) ==
    [p EXCEPT !.next[x] = next, !.prev[x] = prev, !.prev[next] = x, !.next[prev] = x]
list_add(p, x, head) == __list_add(p, x, head, p.next[head])
list_add_tail(p, x, head) == __list_add(p, x, p.prev[head], head)

__list_del(p, prev, next) == [p EXCEPT !.prev[next] = prev, !.next[prev] = next]
Unlinked(p, x) == __list_del(p, p.prev[x], p.next[x])
list_del(p, x) == [Unlinked(p, x) EXCEPT !.next[x] = Poison, !.prev[x] = Poison]
list_del_init(p, x) == INIT_LIST_HEAD(Unlinked(p, x), x)
list_move(p, x, head) == list_add(Unlinked(p, x), x, head)
list_move_tail(p, x, head) == list_add_tail(Unlinked(p, x), x, head)

list_empty(p, head) == p.next[head] = head

__list_splice(p, from1, to) ==
    LET first == p.next[from1]
        last == p.prev[from1]
        at == p.next[to]
    IN  [p EXCEPT !.prev[first] = to, !.next[to] = first, !.next[last] = at, !.prev[at] = last]
\* Fault for ListsSound: an empty list is spliced like the others.
list_splice_empty(p, from1, to) == INIT_LIST_HEAD(__list_splice(p, from1, to), from1)

list_splice(p, from1, to) ==
    IF list_empty(p, from1) THEN p ELSE INIT_LIST_HEAD(__list_splice(p, from1, to), from1)

----------------------------------------------------------------------------

\* The list an entry should be in, and the lists without it.
In(x) == {h \in Heads : x \in Range(listed[h])}
Place(s, x) == CHOOSE i \in DOMAIN s : s[i] = x
Without(x) ==
    [h \in Heads |-> IF x \in Range(listed[h]) THEN RemoveAt(listed[h], Place(listed[h], x))
                     ELSE listed[h]]
AtHead(lists, x, h) == [lists EXCEPT ![h] = <<x>> \o @]
AtTail(lists, x, h) == [lists EXCEPT ![h] = Append(@, x)]

Quiet == loop.kind = "none" /\ UNCHANGED <<loop, walked, visited>>

\* An entry that is new or was deleted comes into a list.
Add(x, h) ==
    /\ Quiet /\ In(x) = {}
    /\ \/ ptr' = list_add(ptr, x, h) /\ listed' = AtHead(listed, x, h)
       \/ ptr' = list_add_tail(ptr, x, h) /\ listed' = AtTail(listed, x, h)

\* What a caller, or the body of a loop, does with the entry x: list_del_init and the
\* moves also when it is initialised and in no list.
Takes(x) ==
    \/ In(x) # {} /\ ptr' = list_del(ptr, x) /\ listed' = Without(x)
    \/ /\ ptr.next[x] # Poison
       /\ \/ ptr' = list_del_init(ptr, x) /\ listed' = Without(x)
          \/ \E h \in Heads :
               /\ loop.kind = "none" \/ h # loop.head
               /\ \/ ptr' = list_move(ptr, x, h) /\ listed' = AtHead(Without(x), x, h)
                  \/ ptr' = list_move_tail(ptr, x, h) /\ listed' = AtTail(Without(x), x, h)

Take(x) == Quiet /\ Takes(x)

Splice(h1, h2) ==
    /\ Quiet /\ h1 # h2
    /\ ptr' = list_splice(ptr, h1, h2)
    /\ listed' = [listed EXCEPT ![h1] = <<>>, ![h2] = listed[h1] \o @]

\* The loops; a body may leave them at any entry.
Begin(kind, h) ==
    /\ loop.kind = "none"
    /\ loop' = [kind |-> kind, head |-> h, pos |-> ptr.next[h],
             n |-> IF kind = "entry_s" THEN ptr.next[ptr.next[h]] ELSE Poison]
    /\ walked' = listed[h] /\ visited' = <<>>
    /\ UNCHANGED <<ptr, listed>>

AtEntry(kind) == loop.kind = kind /\ loop.pos # loop.head /\ visited' = Append(visited, loop.pos) /\ UNCHANGED walked

walk_each_entry ==
    /\ AtEntry("entry")
    /\ loop' = [loop EXCEPT !.pos = ptr.next[@]]
    /\ UNCHANGED <<ptr, listed>>

\* Fault for ListsSound: the next entry is read after the body ran.
walk_each_entry_s_late ==
    /\ AtEntry("entry_s")
    /\ Takes(loop.pos) \/ UNCHANGED <<ptr, listed>>
    /\ loop' = [loop EXCEPT !.pos = ptr'.next[@]]

walk_each_entry_s ==
    /\ AtEntry("entry_s")
    /\ Takes(loop.pos) \/ UNCHANGED <<ptr, listed>>
    /\ loop' = [loop EXCEPT !.pos = loop.n, !.n = ptr'.next[loop.n]]

Idle == [kind |-> "none", head |-> Poison, pos |-> Poison, n |-> Poison]
Leave == loop.kind # "none" /\ loop' = Idle /\ walked' = <<>> /\ visited' = <<>> /\ UNCHANGED <<ptr, listed>>

ListInit ==
    /\ ptr = [next |-> [x \in Links |-> x], prev |-> [x \in Links |-> x]]
    /\ loop = Idle /\ walked = <<>> /\ visited = <<>>
    /\ listed = [h \in Heads |-> <<>>]

ListNext ==
    \/ \E x \in Entries : Take(x) \/ \E h \in Heads : Add(x, h)
    \/ \E h1, h2 \in Heads : Splice(h1, h2)
    \/ \E h \in Heads, kind \in {"entry", "entry_s"} : Begin(kind, h)
    \/ walk_each_entry \/ walk_each_entry_s \/ Leave

ListSpec == ListInit /\ [][ListNext]_listvars

(* ------------------------------- properties ------------------------------- *)

\* Every list is the circle of the entries that were put in it, in their order and in
\* both directions, and a link that is initialised is "empty" exactly if it is in none.
Circles ==
    /\ \A h \in Heads :
         LET c == <<h>> \o listed[h]
         IN  \A k \in DOMAIN c : LET j == IF k = Len(c) THEN 1 ELSE k + 1
                                 IN  ptr.next[c[k]] = c[j] /\ ptr.prev[c[j]] = c[k]
    /\ \A x \in Entries : ptr.next[x] # Poison => (list_empty(ptr, x) <=> In(x) = {})

\* A loop is at each entry that was in the list when it began, once and in order,
\* whatever its body does with the entries it is at.
Visited ==
    loop.kind # "none" =>
        /\ IsPrefix(visited, walked)
        /\ loop.pos = IF visited = walked THEN loop.head ELSE walked[Len(visited) + 1]

\* Both: what the queues of the library, and the loops over them, rely on.
ListsSound == Circles /\ Visited
================================================================================
