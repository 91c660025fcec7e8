------------------------------ MODULE Answers -------------------------------
(***************************************************************************)
(* What request/reply promises to its users, whatever lies between them:   *)
(* a request is asked once, by one client; it is served at most once; and  *)
(* an answer to it goes, at most once and after it was served, to the      *)
(* client that asked.  A request may be lost at any stage: it then stays   *)
(* there.                                                                  *)
(***************************************************************************)
EXTENDS Naturals

CONSTANTS Clients, Reqs, None

VARIABLES
  owner,    \* the client that asked each request, or None
  served,   \* how many servers have got it
  got       \* got[r][c]: how many answers to r client c has got

TypeOK ==
  /\ owner \in [Reqs -> Clients \cup {None}]
  /\ served \in [Reqs -> 0 .. 1]
  /\ got \in [Reqs -> [Clients -> 0 .. 1]]

Init ==
  /\ owner = [r \in Reqs |-> None]
  /\ served = [r \in Reqs |-> 0]
  /\ got = [r \in Reqs |-> [c \in Clients |-> 0]]

Ask(r, c) ==
  /\ owner[r] = None /\ owner' = [owner EXCEPT ![r] = c]
  /\ UNCHANGED <<served, got>>

Serve(r) ==
  /\ owner[r] # None /\ served[r] = 0 /\ served' = [served EXCEPT ![r] = 1]
  /\ UNCHANGED <<owner, got>>

Answer(r) ==
  /\ served[r] = 1 /\ got[r][owner[r]] = 0
  /\ got' = [got EXCEPT ![r][owner[r]] = 1]
  /\ UNCHANGED <<owner, served>>

Next == \E r \in Reqs : (\E c \in Clients : Ask(r, c)) \/ Serve(r) \/ Answer(r)

Spec == Init /\ [][Next]_<<owner, served, got>>
=============================================================================
