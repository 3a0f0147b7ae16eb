---------------------------- MODULE JobChannels ----------------------------
(***************************************************************************)
(* What the job registry and those who follow a scan have in common: the   *)
(* jobs, and the channels on which the results of a job are published.     *)
(***************************************************************************)
EXTENDS Naturals, Sequences, FiniteSets

CONSTANTS
  Job,         \* the job identifiers, fresh for every scan
  ChanCap,     \* the capacity of a subscriber channel (100 in the code)
  MaxResults   \* the bound of the results of one scan

ASSUME CapAssumption == ChanCap \in Nat \ {0}
ASSUME ResultsAssumption == MaxResults \in Nat
=============================================================================
