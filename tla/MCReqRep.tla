------------------------------ MODULE MCReqRep ------------------------------
(* An instance of ReqRep for TLC: two clients at a proxy px, one of them     *)
(* also at a proxy py, through which px reaches the server.                  *)
EXTENDS ReqRep, TLC
CONSTANTS a, b, px, py, sv, a1, a2, b1, p1, q1
MCSrc == a1 :> a @@ a2 :> a @@ b1 :> b @@ p1 :> px @@ q1 :> py
MCDst == a1 :> px @@ a2 :> py @@ b1 :> px @@ p1 :> py @@ q1 :> sv

ASSUME Shallow
=============================================================================
