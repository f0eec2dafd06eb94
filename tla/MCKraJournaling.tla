--------------------------- MODULE MCKraJournaling ---------------------------
(* KraJournaling for a sale t1 of two items and other sales of one item.   *)
EXTENDS KraJournaling, TLC

CONSTANT t1

MCItems == [t \in Txns |-> IF t = t1 THEN 2 ELSE 1]

\* Workers are interchangeable; used with safety properties only.
MCSymmetry == Permutations(Workers)
=============================================================================
