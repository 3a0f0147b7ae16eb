----------------------------- MODULE MCReaders ------------------------------
(***************************************************************************)
(* An instance of Readers for TLC, with the plans of "ports opened in the  *)
(* last ..." and "hosts running ssh in the last ...".                      *)
(***************************************************************************)
EXTENDS Readers

CONSTANTS h1, h2, ssh

MCHost == {h1, h2}
MCQuery == {[target |-> None, back |-> 1, open |-> TRUE, service |-> None, number |-> None],
            [target |-> None, back |-> 1, open |-> FALSE, service |-> ssh, number |-> None]}
=============================================================================
