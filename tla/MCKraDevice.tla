----------------------------- MODULE MCKraDevice -----------------------------
(* KraDevice with interchangeable requests, PINs and units.                *)
EXTENDS KraDevice, TLC

MCSymmetry ==
  Permutations(Requests) \cup Permutations(Pins) \cup Permutations(Units)
=============================================================================
