----------------------------- MODULE MCCveLookup ----------------------------
(***************************************************************************)
(* Instances of CveLookup for TLC: two services that share a name, of      *)
(* which OSV covers one, and two vulnerabilities of OSV that are the same  *)
(* one of NVD's.  A page has room for one record.                          *)
(***************************************************************************)
EXTENDS CveLookup, TLC

CONSTANTS openssh, ssh, name, c1, c2, v1, v2, q1, q2

MCScan == {q1, q2}
MCService == {openssh, ssh}
MCCPE == [s \in MCService |-> name]
MCCovered == {openssh}
MCVuln == {v1, v2}
MCAlias == [v \in MCVuln |-> c1]
Symmetry == Permutations(MCScan) \cup Permutations(MCVuln)
=============================================================================
