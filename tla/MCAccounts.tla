----------------------------- MODULE MCAccounts -----------------------------
(***************************************************************************)
(* An instance of Accounts for TLC: an address in two spellings.           *)
(***************************************************************************)
EXTENDS Accounts

CONSTANTS Ann, ann

MCAddress == {Ann, ann}
MCLower == [e \in MCAddress |-> ann]
=============================================================================
