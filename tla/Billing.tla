------------------------------ MODULE Billing ------------------------------
(***************************************************************************)
(* The plan of one user among others: Paystack checkout, webhook and       *)
(* verification, payments on a chain (internal/billing/handlers.go), the   *)
(* gate before POST /scan (internal/billing/middleware.go), the usage log  *)
(* and the plan claim in the user's token (internal/auth).                 *)
(*                                                                         *)
(* The handlers run SQL statements one by one, without a transaction, and  *)
(* several requests run at a time: every statement is a step of a request. *)
(* A restart of the server ends every request where it stands.  The rows   *)
(* of payments are those of all users, as anybody may have any reference   *)
(* verified; plan and subscription are those of the user.                  *)
(***************************************************************************)
EXTENDS Integers, Sequences, FiniteSets

CONSTANTS
  Ref,          \* the references the server makes up for payments
  Tx,           \* transactions on a chain, which payments are filed under as well
  None,
  Request,      \* the requests that may be served at the same time
  Limit,        \* free scans per window (5 in the code)
  Period,       \* the length of a subscription period, and of the quota window
  MayCancel,    \* whether the user may cancel the subscription
  MaxFaults,    \* the bound of failing SQL statements and restarts
  MaxTime,      \* the bound of the clock
  MaxScans      \* the bound of the scans started

ASSUME LimitAssumption == Limit \in Nat \ {0}
ASSUME PeriodAssumption == Period \in Nat \ {0}
ASSUME RequestAssumption == IsFiniteSet(Request)
ASSUME SwitchAssumption == MayCancel \in BOOLEAN
ASSUME BoundAssumption == MaxFaults \in Nat /\ MaxTime \in Nat /\ MaxScans \in Nat

Time == 0 .. MaxTime
Reference == Ref \cup Tx

VARIABLES
  clock,
  plan,      \* users.plan
  sub,       \* the row of subscriptions: its status ("none": no row), period end and charge
  payment,   \* payment[x]: the row with reference x: its status ("none": no row) and currency
  offered,   \* the references Paystack has a payment link for
  paid,      \* the references Paystack has charged
  confirmed, \* the transactions to the receiving address that the chain has confirmed
  foreign,   \* the references that belong to other users
  strayed,   \* the user's references that another user had verified (not in the program)
  claim,     \* the plan in the user's newest JWT
  usage,     \* created_at of the rows of usage_logs, in the order they were inserted
  pc,        \* pc[q]: the next statement of request q; idle: no request
  kind,      \* kind[q]: webhook, verification (by the user, by another, of a transaction), or
             \* the plan of a scan request; none if idle
  ref,       \* ref[q]: the reference the request is about
  running,   \* the scans of the user that run in the engine
  started,   \* when the scans with a free claim were started
  faults     \* how many statements failed and how often the server restarted

account == <<plan, sub, payment, strayed>>
world == <<offered, paid, confirmed, foreign>>
request == <<pc, kind, ref>>
scans == <<usage, running, started>>
vars == <<clock, account, world, claim, scans, request, faults>>

\* How many entries of a log are of time t or later, and in the quota window.
Since(log, t) == Cardinality({i \in 1 .. Len(log) : log[i] >= t})
InWindow(log) == Since(log, clock - Period)

\* time.Now().After(current_period_end) is false for an active row.
IsCurrent == sub.status = "active" /\ clock <= sub.ends

NoRow == [status |-> "none", currency |-> "none"]
HasRow(x) == payment[x].status # "none"

Init ==
  /\ clock = 0 /\ running = 0 /\ faults = 0
  /\ plan = "free" /\ claim = "free"
  /\ sub = [status |-> "none", ends |-> 0, of |-> None]
  /\ payment = [x \in Reference |-> NoRow]
  /\ offered = {} /\ paid = {} /\ confirmed = {} /\ strayed = {}
  /\ foreign \in SUBSET Reference
  /\ usage = << >> /\ started = << >>
  /\ pc = [q \in Request |-> "idle"]
  /\ kind = [q \in Request |-> "none"]
  /\ ref = [q \in Request |-> None]

\* An SQL statement takes effect, or fails; most errors are ignored.
Works == UNCHANGED faults
Fails == faults < MaxFaults /\ faults' = faults + 1

\* Request q goes on to its next statement, with the reference x, or is answered.
GotoWith(q, label, x) ==
  /\ pc' = [pc EXCEPT ![q] = label]
  /\ kind' = [kind EXCEPT ![q] = IF label = "idle" THEN "none" ELSE @]
  /\ ref' = [ref EXCEPT ![q] = IF label = "idle" THEN None ELSE x]
Goto(q, label) == GotoWith(q, label, ref[q])
Accept(q, label, how, x) ==
  /\ pc[q] = "idle"
  /\ pc' = [pc EXCEPT ![q] = label]
  /\ kind' = [kind EXCEPT ![q] = how]
  /\ ref' = [ref EXCEPT ![q] = x]

\* A payment is for the account of the user: by webhook for the one who has the
\* reference, by verification for the caller.
IsMine(q) == kind[q] = "verify" \/ (kind[q] = "webhook" /\ ref[q] \notin foreign)

-----------------------------------------------------------------------------
Tick ==
  /\ clock < MaxTime
  /\ clock' = clock + 1
  /\ UNCHANGED <<account, world, claim, scans, request, faults>>

InsertPayment(r, currency) ==
  /\ ~HasRow(r) /\ r \notin offered
  /\ \/ Works /\ payment' = [payment EXCEPT ![r] = [status |-> "pending", currency |-> currency]]
     \/ Fails /\ UNCHANGED payment

\* CreateCheckout inserts the pending payment and asks Paystack for a link.
CreateCheckout(r) ==
  /\ InsertPayment(r, "NGN")
  /\ offered' \in {offered, offered \cup {r}}
  /\ UNCHANGED <<clock, plan, sub, strayed, paid, confirmed, foreign, claim, scans, request>>

\* CryptoCheckout answers with the address to send a token to.
CryptoCheckout(r) ==
  /\ r \notin foreign
  /\ InsertPayment(r, "token")
  /\ UNCHANGED <<clock, plan, sub, strayed, world, claim, scans, request>>

\* The customer pays at Paystack.
Pay(r) ==
  /\ r \in offered \ paid
  /\ paid' = paid \cup {r}
  /\ UNCHANGED <<clock, account, offered, confirmed, foreign, claim, scans, request, faults>>

\* Somebody's transfer to the receiving address is confirmed.
Transfer(t) ==
  /\ t \notin confirmed
  /\ confirmed' = confirmed \cup {t}
  /\ UNCHANGED <<clock, account, offered, paid, foreign, claim, scans, request, faults>>

\* Paystack reports a charge, as often as it likes; the user, or another one, asks
\* to verify whatever reference; the user names a transaction for a payment.
Arrive(q, r, how) ==
  /\ CASE how = "webhook" -> r \in paid
       [] how \in {"verify", "other"} -> HasRow(r) \/ r \in offered
       [] OTHER -> HasRow(r) /\ r \notin foreign
  /\ Accept(q, IF how = "crypto" THEN "find" ELSE "check", how, r)
  /\ UNCHANGED <<clock, account, world, claim, scans, faults>>

\* Both handlers return when the payment is already successful.  The webhook looks
\* for the reference, a verification for the reference among those of its caller.
IsKnown(q) ==
  /\ payment[ref[q]].status = "success"
  /\ kind[q] = "verify" => ref[q] \notin foreign
  /\ kind[q] = "other" => ref[q] \in foreign
CheckStatus(q) ==
  /\ pc[q] = "check"
  /\ \/ Works /\ IsKnown(q) /\ Goto(q, "idle")
     \/ /\ Fails \/ (Works /\ ~IsKnown(q))
        /\ Goto(q, IF kind[q] = "webhook" THEN "mark" ELSE "ask")
  /\ UNCHANGED <<clock, account, world, claim, scans>>

\* Fault: the answer of Paystack is not looked at.
AskInVain(q) ==
  /\ pc[q] = "ask"
  /\ Goto(q, "mark")
  /\ UNCHANGED <<clock, account, world, claim, scans, faults>>

\* VerifyTransaction: Paystack confirms, denies or cannot be reached.
AskPaystack(q) ==
  /\ pc[q] = "ask"
  /\ Goto(q, "idle") \/ (ref[q] \in paid /\ Goto(q, "mark"))
  /\ UNCHANGED <<clock, account, world, claim, scans, faults>>

\* UPDATE payments SET status = 'success', whoever the owner is; nothing happens if
\* there is no row.  What follows for another user is not followed.
MarkPayment(q) ==
  /\ pc[q] = "mark"
  /\ \/ Works /\ payment' = [payment EXCEPT ![ref[q]].status = IF @ = "none" THEN @ ELSE "success"]
     \/ Fails /\ UNCHANGED payment
  /\ strayed' = IF kind[q] = "other" THEN strayed \cup ({ref[q]} \ foreign) ELSE strayed
  /\ Goto(q, IF IsMine(q) THEN "upgrade" ELSE "idle")
  /\ UNCHANGED <<clock, plan, sub, world, claim, scans>>

\* VerifyCrypto looks the payment up, with its currency.
FindPayment(q) ==
  /\ pc[q] = "find"
  /\ \/ Works /\ HasRow(ref[q]) /\ Goto(q, IF payment[ref[q]].currency = "token" THEN "confirm" ELSE "review")
     \/ (Fails \/ (Works /\ ~HasRow(ref[q]))) /\ Goto(q, "idle")
  /\ UNCHANGED <<clock, account, world, claim, scans>>

\* UPDATE payments SET reference = t, status: nothing happens if the row is gone, nor
\* if another one has that reference.
File(x, t, status) ==
  \/ /\ Works
     /\ payment' = IF HasRow(x) /\ (t = x \/ (~HasRow(t) /\ t \notin foreign))
                   THEN [payment EXCEPT ![x] = NoRow,
                                        ![t] = [status |-> status, currency |-> payment[x].currency]]
                   ELSE payment
  \/ Fails /\ UNCHANGED payment

\* An explorer of the chain confirms the transaction, or does not, or cannot tell, as
\* for the currency of Paystack; then the payment is filed under the transaction.
\* Confirmed ones stay confirmed: the question and the statement are one step.
FilePayment(q) ==
  /\ pc[q] \in {"confirm", "review"}
  /\ \E t \in Tx :
       \/ pc[q] = "confirm" /\ t \in confirmed /\ File(ref[q], t, "success") /\ GotoWith(q, "upgrade", t)
       \/ File(ref[q], t, "pending_review") /\ Goto(q, "idle")
  /\ UNCHANGED <<clock, plan, sub, strayed, world, claim, scans>>

\* UPDATE users SET plan = 'pro'
UpgradePlan(q) ==
  /\ pc[q] = "upgrade"
  /\ (Works /\ plan' = "pro") \/ (Fails /\ UNCHANGED plan)
  /\ Goto(q, "subscribe")
  /\ UNCHANGED <<clock, sub, payment, strayed, world, claim, scans>>

\* Fault: an UPDATE where the user may not have a row yet.
UpdateSubscription(q) ==
  /\ pc[q] = "subscribe"
  /\ sub' = IF sub.status = "none" THEN sub
            ELSE [status |-> "active", ends |-> clock + Period, of |-> ref[q]]
  /\ Goto(q, "idle")
  /\ UNCHANGED <<clock, plan, payment, strayed, world, claim, scans, faults>>

\* INSERT INTO subscriptions ... ON CONFLICT DO UPDATE, for a period from now on.
UpsertSubscription(q) ==
  /\ pc[q] = "subscribe"
  /\ \/ Works /\ sub' = [status |-> "active", ends |-> clock + Period, of |-> ref[q]]
     \/ Fails /\ UNCHANGED sub
  /\ Goto(q, "idle")
  /\ UNCHANGED <<clock, plan, payment, strayed, world, claim, scans>>

\* CancelSubscription changes the row, if there is one, whatever its status.
CancelSubscription ==
  /\ MayCancel /\ sub.status # "none"
  /\ sub' = [sub EXCEPT !.status = "cancel_at_period_end"]
  /\ UNCHANGED <<clock, plan, payment, strayed, world, claim, scans, request, faults>>

\* Login and Refresh issue a token with the plan in the database.
RefreshToken ==
  /\ claim' = plan
  /\ UNCHANGED <<clock, account, world, scans, request, faults>>

-----------------------------------------------------------------------------
\* A POST /scan with a JWT has the plan of the token, one with an API key the
\* plan in the database; one without a plan counts as free.
RequestScan(q) ==
  /\ running + Len(usage) < MaxScans
  /\ \E c \in {claim, plan, "free"} : Accept(q, "gate", c, None)
  /\ UNCHANGED <<clock, account, world, claim, scans, faults>>

\* Fault: the limit itself passes.
GateAtLimit(q) ==
  /\ pc[q] = "gate"
  /\ IF kind[q] = "pro"
     THEN Goto(q, IF IsCurrent THEN "start" ELSE "downgrade")
     ELSE Goto(q, IF InWindow(usage) <= Limit THEN "start" ELSE "idle")
  /\ UNCHANGED <<clock, account, world, claim, scans, faults>>

\* QuotaMiddleware lets a pro request with a current subscription pass and
\* downgrades the user otherwise, also when the query fails; a free request
\* passes below the limit.
Gate(q) ==
  /\ pc[q] = "gate"
  /\ IF kind[q] = "pro"
     THEN \/ Works /\ Goto(q, IF IsCurrent THEN "start" ELSE "downgrade")
          \/ Fails /\ Goto(q, "downgrade")
     ELSE \/ Works /\ Goto(q, IF InWindow(usage) < Limit THEN "start" ELSE "idle")
          \/ Fails /\ Goto(q, "idle")
  /\ UNCHANGED <<clock, account, world, claim, scans>>

\* UPDATE users SET plan = 'free'
DowngradePlan(q) ==
  /\ pc[q] = "downgrade"
  /\ (Works /\ plan' = "free") \/ (Fails /\ UNCHANGED plan)
  /\ Goto(q, "expire")
  /\ UNCHANGED <<clock, sub, payment, strayed, world, claim, scans>>

\* Fault: the whole row is replaced.
ExpireRow(q) ==
  /\ pc[q] = "expire"
  /\ sub' = [status |-> "expired", ends |-> -1, of |-> None]
  /\ Goto(q, "idle")
  /\ UNCHANGED <<clock, plan, payment, strayed, world, claim, scans, faults>>

\* UPDATE subscriptions SET status = 'expired', whatever the row says by now.
ExpireSubscription(q) ==
  /\ pc[q] = "expire"
  /\ \/ Works /\ sub' = IF sub.status = "none" THEN sub ELSE [sub EXCEPT !.status = "expired"]
     \/ Fails /\ UNCHANGED sub
  /\ Goto(q, "idle")
  /\ UNCHANGED <<clock, plan, payment, strayed, world, claim, scans>>

\* proceedAndLog: the scan handler starts the scan, or refuses its target.
StartScan(q) ==
  /\ pc[q] = "start"
  /\ \/ /\ running' = running + 1
        /\ started' = IF kind[q] = "free" THEN Append(started, clock) ELSE started
        /\ Goto(q, "log")
     \/ Goto(q, "idle") /\ UNCHANGED <<running, started>>
  /\ UNCHANGED <<clock, account, world, claim, usage, faults>>

\* proceedAndLog: the request is logged once the handler has answered.
LogRequest(q) ==
  /\ pc[q] = "log"
  /\ (Works /\ usage' = Append(usage, clock)) \/ (Fails /\ UNCHANGED usage)
  /\ Goto(q, "idle")
  /\ UNCHANGED <<clock, account, world, claim, running, started>>

\* A scan ends and runScan logs it too, unless it was abandoned.
EndScan ==
  /\ running > 0
  /\ running' = running - 1
  /\ usage' \in {usage, Append(usage, clock)}
  /\ UNCHANGED <<clock, account, world, claim, started, request, faults>>

\* The server restarts: requests and scans end where they are.
Crash ==
  /\ Fails
  /\ pc' = [q \in Request |-> "idle"]
  /\ kind' = [q \in Request |-> "none"]
  /\ ref' = [q \in Request |-> None]
  /\ running' = 0
  /\ UNCHANGED <<clock, account, world, claim, usage, started>>

Serve(q) ==
  \/ CheckStatus(q) \/ AskPaystack(q) \/ MarkPayment(q) \/ FindPayment(q) \/ FilePayment(q)
  \/ UpgradePlan(q) \/ UpsertSubscription(q)
  \/ Gate(q) \/ DowngradePlan(q) \/ ExpireSubscription(q) \/ StartScan(q) \/ LogRequest(q)

Next ==
  \/ Tick \/ CancelSubscription \/ RefreshToken \/ EndScan \/ Crash
  \/ \E r \in Ref : CreateCheckout(r) \/ CryptoCheckout(r) \/ Pay(r)
  \/ \E t \in Tx : Transfer(t)
  \/ \E q \in Request : \/ Serve(q) \/ RequestScan(q)
                        \/ \E r \in Ref, how \in {"webhook", "verify", "other"} : Arrive(q, r, how)
                        \/ \E x \in Reference : Arrive(q, x, "crypto")

Spec == Init /\ [][Next]_vars

-----------------------------------------------------------------------------
(***************************************************************************)
(* Properties                                                              *)
(***************************************************************************)

TypeOK ==
  /\ clock \in Time /\ running \in Nat /\ faults \in 0 .. MaxFaults
  /\ plan \in {"free", "pro"} /\ claim \in {"free", "pro"}
  /\ sub \in [status : {"none", "active", "cancel_at_period_end", "expired"},
              ends : 0 .. MaxTime + Period, of : Reference \cup {None}]
  /\ payment \in [Reference -> [status : {"none", "pending", "pending_review", "success"},
                                currency : {"none", "NGN", "token"}]]
  /\ offered \subseteq Ref /\ paid \subseteq offered /\ confirmed \subseteq Tx
  /\ foreign \subseteq Reference /\ strayed \subseteq Reference
  /\ usage \in Seq(Time) /\ started \in Seq(Time)
  /\ pc \in [Request -> {"idle", "check", "ask", "mark", "find", "confirm", "review", "upgrade",
                         "subscribe", "gate", "downgrade", "expire", "start", "log"}]
  /\ kind \in [Request -> {"none", "webhook", "verify", "other", "crypto", "free", "pro"}]
  /\ ref \in [Request -> Reference \cup {None}]

\* Nobody is upgraded without a charge, in whatever order webhooks, retries and
\* verifications arrive, statements fail and the server restarts: the subscription
\* is of a charge that Paystack made or of a transaction that the chain confirmed,
\* and so is what a payment is marked successful for.  The charge may be another
\* user's: the reference is not looked up by its owner.
Charged == paid \cup confirmed
ChargedBeforePro ==
  /\ plan = "pro" \/ claim = "pro" => Charged # {}
  /\ sub.status # "none" => sub.of \in Charged
  /\ \A x \in Reference : payment[x].status = "success" => x \in Charged

\* A successful payment of the user that no request works on has given the user a
\* subscription, unless another user had it verified.
SettledIsSubscribed ==
  \A x \in Reference \ (foreign \cup strayed) :
    /\ payment[x].status = "success"
    /\ \A q \in Request : ref[q] = x => pc[q] \notin {"upgrade", "subscribe"}
    => sub.status # "none"

\* As long as no statement fails and the server does not restart, whatever
\* webhooks, verifications and scan requests run at the same time, a payment
\* that both handlers will skip from now on has been applied.
SettledUnlessFault == faults = 0 => SettledIsSubscribed

\* The free quota is exceeded by at most the requests that were already past the
\* gate, once more for every restart and failed statement, which may lose the log
\* of all of them: the middleware counts first and logs after the scan was started.
QuotaOvershoot == InWindow(started) <= Limit - 1 + Cardinality(Request) * (1 + faults)

\* A user loses the pro plan only when the period is over ("marks a subscription
\* for cancellation at period end").
LapsesAtPeriodEnd == [][plan = "pro" /\ plan' = "free" => clock > sub.ends]_vars
=============================================================================
