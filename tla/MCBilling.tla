----------------------------- MODULE MCBilling -----------------------------
(***************************************************************************)
(* An instance of Billing for TLC.  The requests are interchangeable.      *)
(*                                                                         *)
(* Payments and scans together are far too many states, so TLC looks at    *)
(* four smaller accounts at once: a state belongs to one of them, or it is *)
(* not followed any further.                                               *)
(***************************************************************************)
EXTENDS Billing, TLC

Symmetry == Permutations(Request)

Busy == Cardinality({q \in Request : pc[q] # "idle"})
Scans == running + Len(usage) + Cardinality({q \in Request : kind[q] \in {"free", "pro"}})
NoScan == Scans = 0 /\ started = << >>
NoPayment == offered = {} /\ confirmed = {} /\ foreign = {} /\ \A x \in Reference : ~HasRow(x)

\* Payments only: two requests at a time, one fault, within one instant.
Payments == NoScan /\ clock = 0 /\ Busy <= 2 /\ sub.status # "cancel_at_period_end"
\* A scan beside a request about a payment, within one instant.
PaidScan == Scans <= 1 /\ Len(started) <= 1 /\ clock = 0 /\ Busy <= 2 /\ faults = 0 /\ foreign = {}
\* Periods that run out, are cancelled and renewed, and one scan, one request at a time.
Months == Scans <= 1 /\ Len(started) <= 1 /\ Busy <= 1 /\ foreign = {}
\* The quota: no payments, every request and scan, and a window that moves on.
Quota == NoPayment
Scope == Payments \/ PaidScan \/ Months \/ Quota
=============================================================================
