------------------------------ MODULE MCNodeSync ------------------------------
(* NodeSync for TLC: two clients, each with one connection.                *)
EXTENDS NodeSync, TLC

CONSTANTS c1, c2, k1, k2

TwoConnections == {k1, k2}
TwoOwners      == k1 :> c1 @@ k2 :> c2
===============================================================================
