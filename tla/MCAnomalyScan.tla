--------------------------- MODULE MCAnomalyScan ---------------------------
(***************************************************************************)
(* Instances of AnomalyScan for TLC.  Addresses and ports, and the texts a *)
(* facet shows, are interchangeable.                                       *)
(***************************************************************************)
EXTENDS AnomalyScan, TLC

Symmetry == Permutations(Port) \cup Permutations(Look) \cup Permutations(Scan)
=============================================================================
