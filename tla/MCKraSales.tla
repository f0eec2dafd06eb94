------------------------------ MODULE MCKraSales ------------------------------
(* KraSales on its own, with interchangeable requests and sales.           *)
EXTENDS KraSales, TLC

MCSymmetry == Permutations(Requests) \cup Permutations(Sales)
=============================================================================
