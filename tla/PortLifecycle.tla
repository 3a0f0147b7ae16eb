--------------------------- MODULE PortLifecycle ---------------------------
(***************************************************************************)
(* What the anomaly detection promises of the open and closed state of     *)
(* every endpoint (a host and a port), seen from outside: the dashboard    *)
(* reads "stored", the listener of the alert stream believes what the      *)
(* new-port and port-closed alerts told it.  A change is stored, then      *)
(* announced, and no endpoint changes again before it is announced: every  *)
(* change is announced exactly once, and nothing else is.                  *)
(***************************************************************************)
CONSTANT Endpoint

VARIABLES stored,    \* stored[e]: the latest stored state of e is open
          believed   \* believed[e]: the last lifecycle alert on e is new-port

lifecycle == <<stored, believed>>

Init ==
  /\ stored = [e \in Endpoint |-> FALSE]
  /\ believed = [e \in Endpoint |-> FALSE]

\* The scan finds that e appeared or disappeared and stores it.
Record(e) ==
  /\ stored[e] = believed[e]
  /\ stored' = [stored EXCEPT ![e] = ~stored[e]]
  /\ UNCHANGED believed

\* The alert about the stored change goes out.
Announce(e) ==
  /\ stored[e] # believed[e]
  /\ believed' = [believed EXCEPT ![e] = stored[e]]
  /\ UNCHANGED stored

Next == \E e \in Endpoint : Record(e) \/ Announce(e)

Spec == Init /\ [][Next]_lifecycle
=============================================================================
