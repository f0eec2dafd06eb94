-------------------------- MODULE MCKraSubmissions --------------------------
(* KraSubmissions with purchases of two items and interchangeable requests. *)
EXTENDS KraSubmissions, TLC

MCItems == [d \in Purchases |-> 2]

MCSymmetry == Permutations(Requests)
=============================================================================
