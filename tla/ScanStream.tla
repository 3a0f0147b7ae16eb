---------------------------- MODULE ScanStream -----------------------------
(***************************************************************************)
(* What Scanner.Scan promises the result loop of the engine: a stream of   *)
(* the open ports among the probes of the scan, each at most once, that    *)
(* ends; unless the context was cancelled, it ends with all of them sent.  *)
(***************************************************************************)
CONSTANT Job     \* the probes of the scan, an address and a port each

VARIABLES up,         \* the probes that an open port answers
          delivered,  \* the results the consumer has received
          ended,      \* the consumer found the channel closed
          cancelled   \* the context is cancelled

stream == <<up, delivered, ended, cancelled>>

Init ==
  /\ up \in SUBSET Job
  /\ delivered = {}
  /\ ended = FALSE
  /\ cancelled = FALSE

Deliver(j) ==
  /\ ~ended
  /\ j \in up \ delivered
  /\ delivered' = delivered \cup {j}
  /\ UNCHANGED <<up, ended, cancelled>>

End ==
  /\ ~ended
  /\ cancelled \/ delivered = up
  /\ ended' = TRUE
  /\ UNCHANGED <<up, delivered, cancelled>>

Cancel ==
  /\ ~cancelled
  /\ cancelled' = TRUE
  /\ UNCHANGED <<up, delivered, ended>>

Next == (\E j \in Job : Deliver(j)) \/ End \/ Cancel

Spec == Init /\ [][Next]_stream
=============================================================================
