------------------------------ MODULE MCGateway ------------------------------
(* The gateway with sales of one item each.                                *)
EXTENDS Gateway

MCItems == [t \in Txns |-> 1]
=============================================================================
