--------------------------- MODULE MCIORPCServer ---------------------------
(* Instances of IORPCServer for TLC: what a client sends on a connection.  *)
EXTENDS IORPCServer, TLC

CONSTANTS q1, q2, q3, c1

(* Two requests. *)
TwoConn == q1 :> c1 @@ q2 :> c1
TwoID   == q1 :> 1 @@ q2 :> 2

(* The same, and one that wants no response. *)
ThreeConn == TwoConn @@ q3 :> c1
ThreeID   == TwoID @@ q3 :> 0
=============================================================================
