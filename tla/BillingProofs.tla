--------------------------- MODULE BillingProofs ---------------------------
(***************************************************************************)
(* No upgrade without a charge, for any number of payments, requests at a  *)
(* time, failing statements and restarts; and no settled payment without a *)
(* subscription, as long as no statement fails.                            *)
(***************************************************************************)
EXTENDS Billing, SequenceTheorems, FiniteSetTheorems, TLAPS

\* A request that works towards an upgrade was told by Paystack of the charge, or
\* has asked for it, or has asked the chain for the transaction.
WorksOnCharge(q) ==
  /\ kind[q] = "webhook" /\ pc[q] = "check" => ref[q] \in paid
  /\ pc[q] = "mark" => ref[q] \in paid
  /\ pc[q] \in {"upgrade", "subscribe"} => ref[q] \in Charged
  /\ pc[q] \in {"check", "ask", "mark"} => kind[q] \in {"webhook", "verify", "other"}
  /\ pc[q] \in {"find", "confirm", "review"} => ref[q] \in Reference

ChargeInv == TypeOK /\ ChargedBeforePro /\ \A q \in Request : WorksOnCharge(q)

Label == {"idle", "check", "ask", "mark", "find", "confirm", "review", "upgrade",
          "subscribe", "gate", "downgrade", "expire", "start", "log"}
Kind == {"none", "webhook", "verify", "other", "crypto", "free", "pro"}
PaymentRow == [status : {"none", "pending", "pending_review", "success"},
               currency : {"none", "NGN", "token"}]

-----------------------------------------------------------------------------
\* The request moves on, or is answered.
LEMMA GotoWithType ==
  ASSUME TypeOK, NEW q \in Request, NEW label \in Label, NEW x \in Reference \cup {None},
         GotoWith(q, label, x)
  PROVE  /\ pc' \in [Request -> Label] /\ kind' \in [Request -> Kind]
         /\ ref' \in [Request -> Reference \cup {None}]
         /\ pc'[q] = label /\ kind'[q] \in {"none", kind[q]}
         /\ label # "idle" => kind'[q] = kind[q] /\ ref'[q] = x
         /\ label = "idle" => kind'[q] = "none" /\ ref'[q] = None
         /\ \A p \in Request : p # q => pc'[p] = pc[p] /\ kind'[p] = kind[p] /\ ref'[p] = ref[p]
<1>1. kind' = [kind EXCEPT ![q] = IF label = "idle" THEN "none" ELSE kind[q]]
  BY DEF GotoWith
<1>2. kind \in [Request -> Kind] /\ pc \in [Request -> Label] /\ "none" \in Kind
  BY DEF TypeOK, Kind, Label
<1> QED BY <1>1, <1>2 DEF GotoWith, TypeOK

LEMMA GotoType ==
  ASSUME TypeOK, NEW q \in Request, NEW label \in Label, Goto(q, label)
  PROVE  /\ pc' \in [Request -> Label] /\ kind' \in [Request -> Kind]
         /\ ref' \in [Request -> Reference \cup {None}]
         /\ pc'[q] = label /\ kind'[q] \in {"none", kind[q]}
         /\ label # "idle" => kind'[q] = kind[q] /\ ref'[q] = ref[q]
         /\ label = "idle" => kind'[q] = "none" /\ ref'[q] = None
         /\ \A p \in Request : p # q => pc'[p] = pc[p] /\ kind'[p] = kind[p] /\ ref'[p] = ref[p]
<1>1. ref[q] \in Reference \cup {None} /\ GotoWith(q, label, ref[q])
  BY DEF Goto, GotoWith, TypeOK
<1> QED BY <1>1, GotoWithType

\* A request arrives.
LEMMA AcceptType ==
  ASSUME TypeOK, NEW q \in Request, NEW label \in Label, NEW how \in Kind,
         NEW x \in Reference \cup {None}, Accept(q, label, how, x)
  PROVE  /\ pc' \in [Request -> Label] /\ kind' \in [Request -> Kind]
         /\ ref' \in [Request -> Reference \cup {None}]
         /\ pc[q] = "idle" /\ pc'[q] = label /\ kind'[q] = how /\ ref'[q] = x
         /\ \A p \in Request : p # q => pc'[p] = pc[p] /\ kind'[p] = kind[p] /\ ref'[p] = ref[p]
<1>1. kind \in [Request -> Kind] /\ pc \in [Request -> Label]
  BY DEF TypeOK, Kind, Label
<1> QED BY <1>1 DEF Accept, TypeOK

\* The number of faults stays within its bound.
LEMMA FaultsType ==
  ASSUME TypeOK, Works \/ Fails
  PROVE  faults' \in 0 .. MaxFaults
BY BoundAssumption DEF Works, Fails, TypeOK

\* The logs stay logs of times.
LEMMA LogTypes ==
  ASSUME TypeOK
  PROVE  Append(usage, clock) \in Seq(Time) /\ Append(started, clock) \in Seq(Time)
<1>1. usage \in Seq(Time) /\ started \in Seq(Time) /\ clock \in Time
  BY DEF TypeOK
<1> QED BY <1>1

LEMMA ScanTypes ==
  ASSUME TypeOK
  PROVE  /\ EndScan => usage' \in Seq(Time) /\ running' \in Nat
         /\ \A q \in Request : StartScan(q) => started' \in Seq(Time) /\ running' \in Nat
         /\ \A q \in Request : LogRequest(q) => usage' \in Seq(Time)
<1>1. usage \in Seq(Time) /\ started \in Seq(Time) /\ running \in Nat
  BY DEF TypeOK
<1>2. ASSUME EndScan
      PROVE  usage' \in Seq(Time) /\ running' \in Nat
  <2>1. running > 0 /\ running' = running - 1 /\ usage' \in {usage, Append(usage, clock)}
    BY <1>2 DEF EndScan
  <2>2. running' \in Nat
    BY <1>1, <2>1
  <2> QED BY <1>1, <2>1, <2>2, LogTypes
<1>3. ASSUME NEW q \in Request, StartScan(q)
      PROVE  started' \in Seq(Time) /\ running' \in Nat
  <2>1. started' \in {started, Append(started, clock)} /\ running' \in {running, running + 1}
    BY <1>3 DEF StartScan
  <2>2. running' \in Nat
    BY <1>1, <2>1
  <2> QED BY <1>1, <2>1, <2>2, LogTypes
<1>4. ASSUME NEW q \in Request, LogRequest(q)
      PROVE  usage' \in Seq(Time)
  <2>1. usage' \in {usage, Append(usage, clock)}
    BY <1>4 DEF LogRequest
  <2> QED BY <1>1, <2>1, LogTypes
<1> QED BY <1>2, <1>3, <1>4

\* A filed payment was a row and is one: nothing but the transaction is successful
\* for it.
LEMMA FileType ==
  ASSUME TypeOK, NEW x \in Reference, NEW t \in Tx,
         NEW status \in {"success", "pending_review"}, File(x, t, status)
  PROVE  /\ payment' \in [Reference -> PaymentRow]
         /\ \A y \in Reference : payment'[y].status = "success" =>
              payment[y].status = "success" \/ (y = t /\ status = "success")
         /\ faults' \in 0 .. MaxFaults
<1>1. faults' \in 0 .. MaxFaults
  BY FaultsType DEF File
<1>2. payment \in [Reference -> PaymentRow] /\ payment[x] \in PaymentRow /\ t \in Reference
  BY DEF TypeOK, Reference, PaymentRow
<1> DEFINE new == [status |-> status, currency |-> payment[x].currency]
<1>3. new \in PaymentRow /\ new.status = status
  BY <1>2 DEF PaymentRow
<1>4. NoRow \in PaymentRow /\ NoRow.status # "success"
  BY DEF NoRow, PaymentRow
<1>5. CASE payment' = payment
  BY <1>1, <1>2, <1>5
<1>6. CASE payment' = [payment EXCEPT ![x] = NoRow, ![t] = new]
  BY <1>1, <1>2, <1>3, <1>4, <1>6
<1> QED BY <1>3, <1>5, <1>6 DEF File

\* What the customer, Paystack, the clock and the account pages do.
LEMMA OutsideStep ==
  ASSUME ChargeInv,
         \/ Tick \/ CancelSubscription \/ RefreshToken \/ EndScan \/ Crash
         \/ \E r \in Ref : CreateCheckout(r) \/ CryptoCheckout(r) \/ Pay(r)
         \/ \E t \in Tx : Transfer(t)
  PROVE  ChargeInv'
<1> USE DEF ChargeInv, ChargedBeforePro, Charged, WorksOnCharge, account, world, request, scans
<1>1. CASE Tick
  BY <1>1, BoundAssumption DEF Tick, TypeOK, Time
<1>2. CASE CancelSubscription
  BY <1>2 DEF CancelSubscription, TypeOK
<1>3. CASE RefreshToken
  BY <1>3 DEF RefreshToken, TypeOK
<1>4. CASE EndScan
  <2>1. usage' \in Seq(Time) /\ running' \in Nat
    BY <1>4, ScanTypes
  <2> QED BY <1>4, <2>1 DEF EndScan, TypeOK
<1>5. CASE Crash
  <2>1. faults' \in 0 .. MaxFaults
    BY <1>5, FaultsType DEF Crash
  <2> QED BY <1>5, <2>1 DEF Crash, TypeOK
<1>6. ASSUME NEW r \in Ref, NEW currency \in {"NGN", "token"}, InsertPayment(r, currency)
      PROVE  /\ faults' \in 0 .. MaxFaults
             /\ payment' \in [Reference -> PaymentRow]
             /\ \A x \in Reference : payment'[x].status = "success" => payment[x].status = "success"
  <2>1. faults' \in 0 .. MaxFaults
    BY <1>6, FaultsType DEF InsertPayment
  <2>2. PICK new \in PaymentRow : new = [status |-> "pending", currency |-> currency]
    BY DEF PaymentRow
  <2>3. payment \in [Reference -> PaymentRow] /\ r \in Reference /\ new.status = "pending"
    BY <2>2 DEF TypeOK, PaymentRow, Reference
  <2>4. payment' = payment \/ payment' = [payment EXCEPT ![r] = new]
    BY <1>6, <2>2 DEF InsertPayment
  <2> QED BY <2>1, <2>3, <2>4
<1>7. ASSUME NEW r \in Ref, CreateCheckout(r) PROVE ChargeInv'
  <2>1. offered' \subseteq Ref /\ offered \subseteq offered'
    BY <1>7 DEF CreateCheckout, TypeOK
  <2> QED BY <1>6, <1>7, <2>1 DEF CreateCheckout, TypeOK, PaymentRow
<1>8. ASSUME NEW r \in Ref, CryptoCheckout(r) PROVE ChargeInv'
  BY <1>6, <1>8 DEF CryptoCheckout, TypeOK, PaymentRow
<1>9. ASSUME NEW r \in Ref, Pay(r) PROVE ChargeInv'
  BY <1>9 DEF Pay, TypeOK
<1>10. ASSUME NEW t \in Tx, Transfer(t) PROVE ChargeInv'
  BY <1>10 DEF Transfer, TypeOK
<1> QED BY <1>1, <1>2, <1>3, <1>4, <1>5, <1>7, <1>8, <1>9, <1>10

\* A step of one request that changes neither the account nor what was charged.
LEMMA RequestStep ==
  ASSUME ChargeInv, NEW q \in Request, UNCHANGED <<clock, account, world, claim>>,
         running' \in Nat, usage' \in Seq(Time), started' \in Seq(Time), faults' \in 0 .. MaxFaults,
         pc' \in [Request -> Label], kind' \in [Request -> Kind],
         ref' \in [Request -> Reference \cup {None}],
         \A p \in Request : p # q => pc'[p] = pc[p] /\ kind'[p] = kind[p] /\ ref'[p] = ref[p],
         WorksOnCharge(q)'
  PROVE  ChargeInv'
<1>1. TypeOK'
  BY DEF ChargeInv, TypeOK, account, world, Label, Kind
<1>2. ChargedBeforePro'
  BY DEF ChargeInv, ChargedBeforePro, Charged, account, world
<1>3. \A p \in Request : p # q => WorksOnCharge(p)'
  BY DEF ChargeInv, WorksOnCharge, Charged, world
<1> QED BY <1>1, <1>2, <1>3 DEF ChargeInv

\* Requests that do not touch the account: arrivals, the gate, the scan.
LEMMA ReadingStep ==
  ASSUME ChargeInv, NEW q \in Request,
         \/ \E r \in Ref, how \in {"webhook", "verify", "other"} : Arrive(q, r, how)
         \/ \E x \in Reference : Arrive(q, x, "crypto")
         \/ RequestScan(q) \/ CheckStatus(q) \/ AskPaystack(q) \/ FindPayment(q) \/ Gate(q)
         \/ StartScan(q) \/ LogRequest(q)
  PROVE  ChargeInv'
<1>0. /\ TypeOK /\ WorksOnCharge(q)
      /\ running \in Nat /\ usage \in Seq(Time) /\ started \in Seq(Time) /\ faults \in 0 .. MaxFaults
  BY DEF ChargeInv, TypeOK
<1>1. ASSUME NEW x \in Reference, NEW how \in {"webhook", "verify", "other", "crypto"},
             Arrive(q, x, how)
      PROVE  ChargeInv'
  <2> DEFINE label == IF how = "crypto" THEN "find" ELSE "check"
  <2>1. /\ Accept(q, label, how, x) /\ label \in Label /\ how \in Kind
        /\ UNCHANGED <<clock, account, world, claim, scans, faults>>
    BY <1>1 DEF Arrive, Label, Kind
  <2>2. how = "webhook" => x \in paid
    BY <1>1 DEF Arrive
  <2>3. /\ pc' \in [Request -> Label] /\ kind' \in [Request -> Kind]
        /\ ref' \in [Request -> Reference \cup {None}]
        /\ pc'[q] = label /\ kind'[q] = how /\ ref'[q] = x
        /\ \A p \in Request : p # q => pc'[p] = pc[p] /\ kind'[p] = kind[p] /\ ref'[p] = ref[p]
    BY <1>0, <2>1, AcceptType
  <2>4. WorksOnCharge(q)'
    BY <2>1, <2>2, <2>3 DEF WorksOnCharge, world
  <2> QED BY <1>0, <2>1, <2>3, <2>4, RequestStep DEF scans
<1>2. CASE RequestScan(q)
  <2>1. PICK c \in {"free", "pro"} : Accept(q, "gate", c, None)
    BY <1>0, <1>2 DEF RequestScan, TypeOK
  <2>2. "gate" \in Label /\ c \in Kind /\ None \in Reference \cup {None}
    BY DEF Label, Kind
  <2>3. /\ pc' \in [Request -> Label] /\ kind' \in [Request -> Kind]
        /\ ref' \in [Request -> Reference \cup {None}]
        /\ pc'[q] = "gate"
        /\ \A p \in Request : p # q => pc'[p] = pc[p] /\ kind'[p] = kind[p] /\ ref'[p] = ref[p]
    BY <1>0, <2>1, <2>2, AcceptType
  <2>4. WorksOnCharge(q)'
    BY <2>3 DEF WorksOnCharge
  <2> QED BY <1>0, <1>2, <2>3, <2>4, RequestStep DEF RequestScan, scans
<1>3. ASSUME NEW label \in Label, Goto(q, label), UNCHANGED <<clock, account, world, claim>>,
             running' \in Nat, usage' \in Seq(Time), started' \in Seq(Time), Works \/ Fails,
             label = "mark" => ref[q] \in paid,
             label \notin {"check", "upgrade", "subscribe"},
             label \in {"ask", "mark"} => kind[q] \in {"webhook", "verify", "other"},
             label \in {"find", "confirm", "review"} => ref[q] \in Reference
      PROVE  ChargeInv'
  <2>1. faults' \in 0 .. MaxFaults
    BY <1>0, <1>3, FaultsType
  <2>2. WorksOnCharge(q)'
    BY <1>0, <1>3, GotoType DEF WorksOnCharge, world
  <2> QED BY <1>0, <1>3, <2>1, <2>2, GotoType, RequestStep
<1>4. CASE CheckStatus(q)
  <2>1. /\ UNCHANGED <<clock, account, world, claim, scans>> /\ (Works \/ Fails)
        /\ pc[q] = "check"
        /\ Goto(q, "idle") \/ Goto(q, IF kind[q] = "webhook" THEN "mark" ELSE "ask")
    BY <1>4 DEF CheckStatus
  <2>2. {"idle", "mark", "ask"} \subseteq Label
    BY DEF Label
  <2>3. kind[q] \in {"webhook", "verify", "other"} /\ (kind[q] = "webhook" => ref[q] \in paid)
    BY <1>0, <2>1 DEF WorksOnCharge
  <2> QED BY <1>0, <1>3, <2>1, <2>2, <2>3 DEF scans
<1>5. CASE AskPaystack(q)
  <2>1. /\ UNCHANGED <<clock, account, world, claim, scans>> /\ Works /\ pc[q] = "ask"
        /\ Goto(q, "idle") \/ (ref[q] \in paid /\ Goto(q, "mark"))
    BY <1>5 DEF AskPaystack, Works
  <2>2. {"idle", "mark"} \subseteq Label
    BY DEF Label
  <2>3. kind[q] \in {"webhook", "verify", "other"}
    BY <1>0, <2>1 DEF WorksOnCharge
  <2> QED BY <1>0, <1>3, <2>1, <2>2, <2>3 DEF scans
<1>6. CASE FindPayment(q)
  <2>1. /\ UNCHANGED <<clock, account, world, claim, scans>> /\ (Works \/ Fails) /\ pc[q] = "find"
        /\ \E label \in {"idle", "confirm", "review"} : Goto(q, label)
    BY <1>6 DEF FindPayment
  <2>2. {"idle", "confirm", "review"} \subseteq Label
    BY DEF Label
  <2>3. ref[q] \in Reference
    BY <1>0, <2>1 DEF WorksOnCharge
  <2> QED BY <1>0, <1>3, <2>1, <2>2, <2>3 DEF scans
<1>7. CASE Gate(q)
  <2>1. /\ UNCHANGED <<clock, account, world, claim, scans>> /\ (Works \/ Fails)
        /\ \E label \in {"idle", "start", "downgrade"} : Goto(q, label)
    BY <1>7 DEF Gate
  <2>2. {"idle", "start", "downgrade"} \subseteq Label
    BY DEF Label
  <2> QED BY <1>0, <1>3, <2>1, <2>2 DEF scans
<1>8. CASE StartScan(q)
  <2>1. running' \in Nat /\ started' \in Seq(Time)
    BY <1>0, <1>8, ScanTypes
  <2>2. /\ UNCHANGED <<clock, account, world, claim, usage>> /\ Works
        /\ \E label \in {"idle", "log"} : Goto(q, label)
    BY <1>8 DEF StartScan, Works
  <2>3. {"idle", "log"} \subseteq Label
    BY DEF Label
  <2> QED BY <1>0, <1>3, <2>1, <2>2, <2>3
<1>9. CASE LogRequest(q)
  <2>1. usage' \in Seq(Time)
    BY <1>0, <1>9, ScanTypes
  <2>2. /\ UNCHANGED <<clock, account, world, claim, running, started>> /\ (Works \/ Fails)
        /\ Goto(q, "idle") /\ "idle" \in Label
    BY <1>9 DEF LogRequest, Label
  <2> QED BY <1>0, <1>3, <2>1, <2>2
<1>10. Ref \subseteq Reference
  BY DEF Reference
<1> QED BY <1>1, <1>2, <1>4, <1>5, <1>6, <1>7, <1>8, <1>9, <1>10

\* A step of one request that changes the account.
LEMMA AccountStep ==
  ASSUME ChargeInv, NEW q \in Request, NEW label \in Label, NEW x \in Reference \cup {None},
         GotoWith(q, label, x), UNCHANGED <<clock, world, claim, scans>>,
         faults' \in 0 .. MaxFaults, plan' \in {"free", "pro"}, strayed' \subseteq Reference,
         sub' \in [status : {"none", "active", "cancel_at_period_end", "expired"},
                   ends : 0 .. MaxTime + Period, of : Reference \cup {None}],
         payment' \in [Reference -> PaymentRow],
         label \notin {"check", "ask", "mark", "find", "confirm", "review"},
         label \in {"upgrade", "subscribe"} => x \in Charged,
         plan' = "pro" => Charged # {}, sub'.status # "none" => sub'.of \in Charged,
         \A y \in Reference : payment'[y].status = "success" => y \in Charged
  PROVE  ChargeInv'
<1>0. TypeOK
  BY DEF ChargeInv
<1>1. TypeOK'
  BY <1>0, GotoWithType DEF TypeOK, world, scans, Label, Kind, PaymentRow
<1>2. ChargedBeforePro'
  BY DEF ChargeInv, ChargedBeforePro, Charged, world
<1>3. \A p \in Request : WorksOnCharge(p)'
  <2>1. ASSUME NEW p \in Request, p # q PROVE WorksOnCharge(p)'
    BY <1>0, <2>1, GotoWithType DEF ChargeInv, WorksOnCharge, Charged, world
  <2>2. WorksOnCharge(q)'
    BY <1>0, GotoWithType DEF WorksOnCharge, Charged, world
  <2> QED BY <2>1, <2>2
<1> QED BY <1>1, <1>2, <1>3 DEF ChargeInv

\* Requests that change the account.
LEMMA WritingStep ==
  ASSUME ChargeInv, NEW q \in Request,
         \/ MarkPayment(q) \/ FilePayment(q) \/ UpgradePlan(q) \/ UpsertSubscription(q)
         \/ DowngradePlan(q) \/ ExpireSubscription(q)
  PROVE  ChargeInv'
<1> DEFINE Sub == [status : {"none", "active", "cancel_at_period_end", "expired"},
                   ends : 0 .. MaxTime + Period, of : Reference \cup {None}]
<1>0. /\ TypeOK /\ WorksOnCharge(q) /\ faults' \in 0 .. MaxFaults
      /\ ref[q] \in Reference \cup {None} /\ plan \in {"free", "pro"} /\ strayed \subseteq Reference
      /\ sub \in Sub /\ payment \in [Reference -> PaymentRow]
  <2>1. TypeOK /\ WorksOnCharge(q) /\ (Works \/ Fails)
    BY DEF ChargeInv, MarkPayment, FilePayment, File, UpgradePlan, UpsertSubscription, DowngradePlan,
           ExpireSubscription
  <2> QED BY <2>1, FaultsType DEF TypeOK, PaymentRow
<1>1. /\ plan = "pro" => Charged # {}
      /\ sub.status # "none" => sub.of \in Charged
      /\ \A y \in Reference : payment[y].status = "success" => y \in Charged
      /\ paid \subseteq Charged /\ paid \subseteq Reference /\ Charged \subseteq Reference
  BY DEF ChargeInv, ChargedBeforePro, Charged, TypeOK, Reference
<1>2. {"idle", "upgrade", "subscribe", "expire"} \subseteq Label
  BY DEF Label
<1> HIDE DEF Sub
<1>3. CASE MarkPayment(q)
  <2>1. /\ UNCHANGED <<clock, plan, sub, world, claim, scans>>
        /\ \E label \in {"idle", "upgrade"} : GotoWith(q, label, ref[q])
        /\ ref[q] \in paid /\ strayed' \subseteq Reference
    BY <1>0, <1>1, <1>3 DEF MarkPayment, WorksOnCharge, Goto
  <2>2. /\ payment' \in [Reference -> PaymentRow]
        /\ \A y \in Reference : payment'[y].status = "success" => payment[y].status = "success" \/ y = ref[q]
    <3>1. CASE payment' = payment
      BY <1>0, <3>1
    <3>2. CASE payment' = [payment EXCEPT ![ref[q]] = [payment[ref[q]] EXCEPT !.status = IF @ = "none" THEN @ ELSE "success"]]
      <4>1. ref[q] \in Reference /\ payment[ref[q]] \in PaymentRow
        BY <1>0, <1>1, <2>1
      <4>2. PICK new \in PaymentRow : new = [payment[ref[q]] EXCEPT !.status = IF @ = "none" THEN @ ELSE "success"]
        BY <4>1 DEF PaymentRow
      <4> QED BY <1>0, <3>2, <4>1, <4>2
    <3> QED BY <1>3, <3>1, <3>2 DEF MarkPayment
  <2>3. \A y \in Reference : payment'[y].status = "success" => y \in Charged
    BY <1>1, <2>1, <2>2
  <2> QED BY <1>0, <1>1, <1>2, <2>1, <2>2, <2>3, AccountStep DEF Sub
<1>4. CASE FilePayment(q)
  <2>1. PICK t \in Tx :
          \/ t \in confirmed /\ File(ref[q], t, "success") /\ GotoWith(q, "upgrade", t)
          \/ File(ref[q], t, "pending_review") /\ GotoWith(q, "idle", ref[q])
    BY <1>4 DEF FilePayment, Goto
  <2>2. /\ UNCHANGED <<clock, plan, sub, strayed, world, claim, scans>> /\ ref[q] \in Reference
        /\ t \in Reference /\ (t \in confirmed => t \in Charged)
    BY <1>0, <1>4 DEF FilePayment, WorksOnCharge, Reference, Charged
  <2>3. CASE t \in confirmed /\ File(ref[q], t, "success") /\ GotoWith(q, "upgrade", t)
    <3>1. /\ payment' \in [Reference -> PaymentRow]
          /\ \A y \in Reference : payment'[y].status = "success" => payment[y].status = "success" \/ y = t
      BY <1>0, <2>2, <2>3, FileType
    <3> QED BY <1>0, <1>1, <1>2, <2>2, <2>3, <3>1, AccountStep DEF Sub
  <2>4. CASE File(ref[q], t, "pending_review") /\ GotoWith(q, "idle", ref[q])
    <3>1. /\ payment' \in [Reference -> PaymentRow]
          /\ \A y \in Reference : payment'[y].status = "success" => payment[y].status = "success"
      BY <1>0, <2>2, <2>4, FileType
    <3> QED BY <1>0, <1>1, <1>2, <2>2, <2>4, <3>1, AccountStep DEF Sub
  <2> QED BY <2>1, <2>3, <2>4
<1>5. CASE UpgradePlan(q)
  <2>1. /\ UNCHANGED <<clock, sub, payment, strayed, world, claim, scans>>
        /\ GotoWith(q, "subscribe", ref[q]) /\ ref[q] \in Charged /\ plan' \in {plan, "pro"}
    BY <1>0, <1>5 DEF UpgradePlan, WorksOnCharge, Goto
  <2> QED BY <1>0, <1>1, <1>2, <2>1, AccountStep DEF Sub
<1>6. CASE UpsertSubscription(q)
  <2>1. /\ UNCHANGED <<clock, plan, payment, strayed, world, claim, scans>>
        /\ GotoWith(q, "idle", ref[q]) /\ ref[q] \in Charged
    BY <1>0, <1>6 DEF UpsertSubscription, WorksOnCharge, Goto
  <2>2. clock + Period \in 0 .. MaxTime + Period
    BY <1>0, PeriodAssumption, BoundAssumption DEF TypeOK, Time
  <2>3. sub' \in Sub /\ (sub'.status # "none" => sub'.of \in Charged)
    <3>1. CASE sub' = sub
      BY <1>0, <1>1, <3>1
    <3>2. CASE sub' = [status |-> "active", ends |-> clock + Period, of |-> ref[q]]
      BY <1>1, <2>1, <2>2, <3>2 DEF Sub
    <3> QED BY <1>6, <3>1, <3>2 DEF UpsertSubscription
  <2> QED BY <1>0, <1>1, <1>2, <2>1, <2>3, AccountStep DEF Sub
<1>7. CASE DowngradePlan(q)
  <2>1. /\ UNCHANGED <<clock, sub, payment, strayed, world, claim, scans>>
        /\ GotoWith(q, "expire", ref[q]) /\ plan' \in {plan, "free"}
    BY <1>7 DEF DowngradePlan, Goto
  <2> QED BY <1>0, <1>1, <1>2, <2>1, AccountStep DEF Sub
<1>8. CASE ExpireSubscription(q)
  <2>1. /\ UNCHANGED <<clock, plan, payment, strayed, world, claim, scans>>
        /\ GotoWith(q, "idle", ref[q])
    BY <1>8 DEF ExpireSubscription, Goto
  <2>2. sub' \in Sub /\ sub'.of = sub.of /\ (sub'.status # "none" => sub.status # "none")
    <3>1. sub' = sub \/ (sub.status # "none" /\ sub' = [sub EXCEPT !.status = "expired"])
      BY <1>8 DEF ExpireSubscription
    <3> QED BY <1>0, <3>1 DEF Sub
  <2> QED BY <1>0, <1>1, <1>2, <2>1, <2>2, AccountStep DEF Sub
<1> QED BY <1>3, <1>4, <1>5, <1>6, <1>7, <1>8

-----------------------------------------------------------------------------
\* The invariant holds in every reachable state.
THEOREM ChargeInvariant == Spec => []ChargeInv
<1>1. Init => ChargeInv
  <2> SUFFICES ASSUME Init PROVE ChargeInv
    OBVIOUS
  <2>1. TypeOK
    BY BoundAssumption, PeriodAssumption DEF Init, TypeOK, Time, NoRow
  <2>2. ChargedBeforePro /\ \A q \in Request : WorksOnCharge(q)
    BY DEF Init, ChargedBeforePro, WorksOnCharge, NoRow
  <2> QED BY <2>1, <2>2 DEF ChargeInv
<1>2. ChargeInv /\ [Next]_vars => ChargeInv'
  <2> SUFFICES ASSUME ChargeInv, [Next]_vars PROVE ChargeInv'
    OBVIOUS
  <2>1. CASE Next
    BY <2>1, OutsideStep, ReadingStep, WritingStep DEF Next, Serve
  <2>2. CASE UNCHANGED vars
    BY <2>2 DEF vars, account, world, request, scans, ChargeInv, TypeOK, ChargedBeforePro,
       Charged, WorksOnCharge
  <2> QED BY <2>1, <2>2
<1> QED BY <1>1, <1>2, PTL DEF Spec

\* Every reachable state of the account is well typed.
THEOREM BillingTypes == Spec => []TypeOK
BY ChargeInvariant, PTL DEF ChargeInv

\* Nobody is upgraded without a charge, in whatever order webhooks, verifications by
\* anybody and scans arrive, and whichever statements fail: the subscription is of a
\* reference that Paystack charged or of a transaction that the chain confirmed.
THEOREM NoUpgradeWithoutCharge == Spec => []ChargedBeforePro
BY ChargeInvariant, PTL DEF ChargeInv
-----------------------------------------------------------------------------
\* A step without a fault that settles no payment, does not take the row of the
\* subscription away, and takes no request from its upgrade, leaves a settled account
\* settled.
LEMMA SettledKeeps ==
  ASSUME SettledUnlessFault, faults' = faults, foreign' = foreign, strayed \subseteq strayed',
         \A x \in Reference : payment'[x].status = "success" => payment[x].status = "success",
         sub'.status = "none" => sub.status = "none",
         \A q \in Request :
           pc[q] \in {"upgrade", "subscribe"}
           => pc'[q] \in {"upgrade", "subscribe"} /\ ref'[q] = ref[q]
  PROVE  SettledUnlessFault'
BY DEF SettledUnlessFault, SettledIsSubscribed

\* After a fault nothing is promised.
LEMMA NothingAfterFault ==
  ASSUME TypeOK, Fails
  PROVE  SettledUnlessFault'
BY BoundAssumption DEF Fails, TypeOK, SettledUnlessFault

\* What the customer, Paystack, the chain, the clock and the account pages do.
LEMMA SettledOutside ==
  ASSUME TypeOK, SettledUnlessFault,
         \/ Tick \/ CancelSubscription \/ RefreshToken \/ EndScan \/ Crash
         \/ \E r \in Ref : CreateCheckout(r) \/ CryptoCheckout(r) \/ Pay(r)
         \/ \E t \in Tx : Transfer(t)
  PROVE  SettledUnlessFault'
<1> USE DEF account, world, request, scans
<1>1. CASE Tick \/ RefreshToken \/ EndScan
  BY <1>1, SettledKeeps DEF Tick, RefreshToken, EndScan
<1>2. CASE CancelSubscription
  <2>1. sub'.status # "none"
    BY <1>2 DEF CancelSubscription, TypeOK
  <2> QED BY <2>1 DEF SettledUnlessFault, SettledIsSubscribed
<1>3. CASE Crash
  BY <1>3, NothingAfterFault DEF Crash
<1>4. ASSUME NEW r \in Ref, NEW currency \in {"NGN", "token"}, InsertPayment(r, currency), Works,
             UNCHANGED <<sub, strayed, foreign, request>>
      PROVE  SettledUnlessFault'
  <2>1. \A x \in Reference : payment'[x].status = "success" => payment[x].status = "success"
    BY <1>4 DEF InsertPayment, TypeOK
  <2> QED BY <1>4, <2>1, SettledKeeps DEF Works
<1>5. ASSUME NEW r \in Ref, Pay(r) PROVE SettledUnlessFault'
  BY <1>5, SettledKeeps DEF Pay
<1>6. ASSUME NEW r \in Ref, CreateCheckout(r) \/ CryptoCheckout(r) PROVE SettledUnlessFault'
  <2>1. /\ InsertPayment(r, "NGN") \/ InsertPayment(r, "token")
        /\ UNCHANGED <<sub, strayed, foreign, request>>
    BY <1>6 DEF CreateCheckout, CryptoCheckout
  <2> QED BY <1>4, <2>1, NothingAfterFault DEF InsertPayment
<1>7. ASSUME NEW t \in Tx, Transfer(t) PROVE SettledUnlessFault'
  BY <1>7, SettledKeeps DEF Transfer
<1> QED BY <1>1, <1>2, <1>3, <1>5, <1>6, <1>7

\* Requests that change neither a payment nor the subscription: arrivals, the gate,
\* the downgrade of the plan, the scan.
LEMMA SettledReading ==
  ASSUME TypeOK, SettledUnlessFault, NEW q \in Request,
         \/ \E r \in Ref, how \in {"webhook", "verify", "other"} : Arrive(q, r, how)
         \/ \E x \in Reference : Arrive(q, x, "crypto")
         \/ RequestScan(q) \/ CheckStatus(q) \/ AskPaystack(q) \/ FindPayment(q) \/ Gate(q)
         \/ DowngradePlan(q) \/ StartScan(q) \/ LogRequest(q)
  PROVE  SettledUnlessFault'
<1> USE DEF account, world, request, scans
<1>1. CASE Fails
  BY <1>1, NothingAfterFault
<1>2. CASE ~Fails
  <2>1. UNCHANGED <<faults, payment, sub, foreign, strayed>>
    BY <1>2 DEF Arrive, RequestScan, CheckStatus, AskPaystack, FindPayment, Gate, DowngradePlan,
                StartScan, LogRequest, Works
  <2>2. pc[q] \notin {"upgrade", "subscribe"}
    BY DEF Arrive, RequestScan, Accept, CheckStatus, AskPaystack, FindPayment, Gate, DowngradePlan,
           StartScan, LogRequest
  <2>3. ASSUME NEW p \in Request, p # q
        PROVE  pc'[p] = pc[p] /\ ref'[p] = ref[p]
    BY <2>3 DEF Arrive, RequestScan, Accept, CheckStatus, AskPaystack, FindPayment, Gate,
                DowngradePlan, StartScan, LogRequest, Goto, GotoWith, TypeOK
  <2> QED BY <2>1, <2>2, <2>3, SettledKeeps
<1> QED BY <1>1, <1>2

\* A request that settles a payment of the user goes on to the upgrade.
LEMMA SettledByUpgrade ==
  ASSUME SettledUnlessFault, faults' = faults, foreign' = foreign, strayed \subseteq strayed',
         sub' = sub, NEW q \in Request, NEW x \in Reference,
         \A y \in Reference : payment'[y].status = "success" => payment[y].status = "success" \/ y = x,
         \/ pc'[q] = "upgrade" /\ ref'[q] = x
         \/ x \in foreign \cup strayed',
         pc[q] \notin {"upgrade", "subscribe"},
         \A p \in Request : p # q => pc'[p] = pc[p] /\ ref'[p] = ref[p]
  PROVE  SettledUnlessFault'
BY DEF SettledUnlessFault, SettledIsSubscribed

\* Requests that change the payment or the subscription: the one that settles a
\* payment goes on to the upgrade, and ends with a subscription.
LEMMA SettledWriting ==
  ASSUME ChargeInv, SettledUnlessFault, NEW q \in Request,
         \/ MarkPayment(q) \/ FilePayment(q) \/ UpgradePlan(q) \/ UpsertSubscription(q)
         \/ ExpireSubscription(q)
  PROVE  SettledUnlessFault'
<1> USE DEF account, world, request, scans
<1>0. TypeOK /\ WorksOnCharge(q) /\ {"idle", "upgrade", "subscribe"} \subseteq Label
  BY DEF ChargeInv, Label
<1>1. CASE Fails
  BY <1>0, <1>1, NothingAfterFault
<1>2. CASE ~Fails /\ MarkPayment(q)
  <2>1. /\ pc[q] = "mark" /\ UNCHANGED <<faults, foreign, sub>>
        /\ Goto(q, IF IsMine(q) THEN "upgrade" ELSE "idle")
    BY <1>2 DEF MarkPayment, Works
  <2>2. /\ ref[q] \in Reference /\ kind[q] \in {"webhook", "verify", "other"}
    BY <1>0, <2>1 DEF WorksOnCharge, TypeOK, Reference
  <2>3. /\ strayed \subseteq strayed'
        /\ kind[q] = "other" => ref[q] \in foreign \cup strayed'
    BY <1>2 DEF MarkPayment
  <2>4. \A p \in Request : p # q => pc'[p] = pc[p] /\ ref'[p] = ref[p]
    BY <1>0, <2>1, GotoType
  <2>5. (pc'[q] = "upgrade" /\ ref'[q] = ref[q]) \/ ref[q] \in foreign \cup strayed'
    BY <1>0, <2>1, <2>2, <2>3, GotoType DEF IsMine
  <2>6. \A y \in Reference : payment'[y].status = "success" => payment[y].status = "success" \/ y = ref[q]
    BY <1>0, <1>2, <2>2 DEF MarkPayment, TypeOK
  <2> QED BY <2>1, <2>2, <2>3, <2>4, <2>5, <2>6, SettledByUpgrade
<1>3. CASE ~Fails /\ FilePayment(q)
  <2>1. PICK t \in Tx :
          \/ t \in confirmed /\ File(ref[q], t, "success") /\ GotoWith(q, "upgrade", t)
          \/ File(ref[q], t, "pending_review") /\ Goto(q, "idle")
    BY <1>3 DEF FilePayment
  <2>2. /\ pc[q] \in {"confirm", "review"} /\ UNCHANGED <<faults, foreign, strayed, sub>>
        /\ ref[q] \in Reference /\ t \in Reference
    BY <1>0, <1>3, <2>1 DEF FilePayment, File, Works, WorksOnCharge, Reference
  <2>3. CASE File(ref[q], t, "success") /\ GotoWith(q, "upgrade", t)
    <3>1. \A y \in Reference : payment'[y].status = "success" => payment[y].status = "success" \/ y = t
      BY <1>0, <2>2, <2>3, FileType
    <3>2. /\ pc'[q] = "upgrade" /\ ref'[q] = t
          /\ \A p \in Request : p # q => pc'[p] = pc[p] /\ ref'[p] = ref[p]
      BY <1>0, <2>2, <2>3, GotoWithType
    <3> QED BY <2>2, <3>1, <3>2, SettledByUpgrade
  <2>4. CASE File(ref[q], t, "pending_review") /\ Goto(q, "idle")
    <3>1. \A y \in Reference : payment'[y].status = "success" => payment[y].status = "success"
      BY <1>0, <2>2, <2>4, FileType
    <3>2. \A p \in Request : p # q => pc'[p] = pc[p] /\ ref'[p] = ref[p]
      BY <1>0, <2>4, GotoType
    <3> QED BY <2>2, <3>1, <3>2, SettledKeeps
  <2> QED BY <2>1, <2>3, <2>4
<1>4. CASE ~Fails /\ UpgradePlan(q)
  <2>1. /\ UNCHANGED <<faults, payment, sub, foreign, strayed>>
        /\ pc'[q] = "subscribe" /\ ref'[q] = ref[q]
        /\ \A p \in Request : p # q => pc'[p] = pc[p] /\ ref'[p] = ref[p]
    BY <1>0, <1>4, GotoType DEF UpgradePlan, Works
  <2> QED BY <2>1, SettledKeeps
<1>5. CASE ~Fails /\ UpsertSubscription(q)
  <2>1. sub'.status # "none"
    BY <1>5 DEF UpsertSubscription
  <2> QED BY <2>1 DEF SettledUnlessFault, SettledIsSubscribed
<1>6. CASE ~Fails /\ ExpireSubscription(q)
  <2>1. UNCHANGED <<faults, payment, foreign, strayed>> /\ pc[q] = "expire"
    BY <1>6 DEF ExpireSubscription, Works
  <2>2. \A p \in Request : p # q => pc'[p] = pc[p] /\ ref'[p] = ref[p]
    BY <1>0, <1>6, GotoType DEF ExpireSubscription
  <2>3. sub'.status = "none" => sub.status = "none"
    BY <1>0, <1>6 DEF ExpireSubscription, TypeOK
  <2> QED BY <2>1, <2>2, <2>3, SettledKeeps
<1> QED BY <1>1, <1>2, <1>3, <1>4, <1>5, <1>6

\* Without a failing statement or a restart, a payment both handlers skip has been
\* applied (billing/handlers.go: the status is written first, the subscription
\* last, and the checks at the start read the status alone).
THEOREM SettledIsApplied == Spec => []SettledUnlessFault
<1>1. Init => SettledUnlessFault
  BY DEF Init, SettledUnlessFault, SettledIsSubscribed, NoRow
<1>2. ChargeInv /\ SettledUnlessFault /\ [Next]_vars => SettledUnlessFault'
  <2> SUFFICES ASSUME ChargeInv, SettledUnlessFault, [Next]_vars PROVE SettledUnlessFault'
    OBVIOUS
  <2>1. CASE UNCHANGED vars
    BY <2>1, SettledKeeps DEF vars, account, world, request
  <2>2. CASE Next
    BY <2>2, SettledOutside, SettledReading, SettledWriting DEF Next, Serve, ChargeInv
  <2> QED BY <2>1, <2>2
<1> QED BY <1>1, <1>2, ChargeInvariant, PTL DEF Spec

-----------------------------------------------------------------------------
(* The quota *)

\* The free requests at a statement: those past the gate whose scan is not started,
\* and those with a started scan that is not logged.
FreeAt(label) == {q \in Request : pc[q] = label /\ kind[q] = "free"}

\* Every free start since some time is logged since then, waits to be logged, or was
\* lost by a fault, which loses at most one log entry for each request.
StartsAreLogged ==
  \A t \in Int :
    Since(started, t) <= Since(usage, t) + Cardinality(FreeAt("log"))
                         + Cardinality(Request) * faults
QuotaInv ==
  /\ \A i \in 1 .. Len(started) : started[i] <= clock
  /\ StartsAreLogged
  /\ InWindow(started) + Cardinality(FreeAt("start"))
       <= Limit - 1 + Cardinality(Request) * (1 + faults)

\* Counting a log.
LEMMA SinceType ==
  ASSUME NEW log \in Seq(Int), NEW t \in Int
  PROVE  Since(log, t) \in Nat
<1>1. IsFiniteSet(1 .. Len(log))
  BY FS_Interval
<1> QED BY <1>1, FS_Subset, FS_CardinalityType DEF Since

LEMMA SinceLater ==
  ASSUME NEW log \in Seq(Int), NEW t \in Int, NEW u \in Int, t <= u
  PROVE  Since(log, u) <= Since(log, t)
<1> DEFINE at(v) == {i \in 1 .. Len(log) : log[i] >= v}
<1>1. IsFiniteSet(at(t))
  BY FS_Interval, FS_Subset
<1>2. at(u) \subseteq at(t)
  OBVIOUS
<1> QED BY <1>1, <1>2, FS_Subset DEF Since

LEMMA SinceAppend ==
  ASSUME NEW log \in Seq(Int), NEW t \in Int, NEW e \in Int
  PROVE  Since(Append(log, e), t) = Since(log, t) + IF e >= t THEN 1 ELSE 0
<1> DEFINE at == {i \in 1 .. Len(log) : log[i] >= t}
           new == {i \in 1 .. Len(Append(log, e)) : Append(log, e)[i] >= t}
<1>1. IsFiniteSet(at)
  BY FS_Interval, FS_Subset
<1>2. Len(log) + 1 \notin at
  OBVIOUS
<1>3. new = at \cup (IF e >= t THEN {Len(log) + 1} ELSE {})
  OBVIOUS
<1>4. Cardinality(at) \in Nat
  BY <1>1, FS_CardinalityType
<1>5. CASE e >= t
  BY <1>1, <1>2, <1>3, <1>5, FS_AddElement DEF Since
<1>6. CASE ~(e >= t)
  <2>1. Cardinality(new) = Cardinality(at)
    BY <1>3, <1>6
  <2>2. Since(Append(log, e), t) = Cardinality(new) /\ Since(log, t) = Cardinality(at)
    BY DEF Since
  <2> HIDE DEF at, new
  <2> QED BY <1>4, <1>6, <2>1, <2>2
<1> QED BY <1>5, <1>6

\* Nothing of a log is later than its newest entry.
LEMMA SinceFuture ==
  ASSUME NEW log \in Seq(Int), NEW t \in Int, \A i \in 1 .. Len(log) : log[i] < t
  PROVE  Since(log, t) = 0
<1>1. {i \in 1 .. Len(log) : log[i] >= t} = {}
  OBVIOUS
<1> QED BY <1>1, FS_EmptySet DEF Since

\* Counting requests.
LEMMA FreeType ==
  /\ Cardinality(Request) \in Nat
  /\ \A S \in SUBSET Request :
       IsFiniteSet(S) /\ Cardinality(S) \in Nat /\ Cardinality(S) <= Cardinality(Request)
BY RequestAssumption, FS_Subset, FS_CardinalityType

\* Two sets of requests without a common one, and one that is in neither.
LEMMA FreeTogether ==
  ASSUME NEW S \in SUBSET Request, NEW T \in SUBSET Request, S \cap T = {},
         NEW q \in Request \ (S \cup T)
  PROVE  Cardinality(S) + Cardinality(T) + 1 <= Cardinality(Request)
<1>1. Cardinality(S \cup T) = Cardinality(S) + Cardinality(T)
  <2>1. Cardinality(S \cup T) = Cardinality(S) + Cardinality(T) - Cardinality(S \cap T)
    BY FreeType, FS_Union
  <2> QED BY <2>1, FreeType, FS_EmptySet
<1>2. Cardinality((S \cup T) \cup {q}) = Cardinality(S \cup T) + 1
  BY FreeType, FS_AddElement
<1>3. Cardinality((S \cup T) \cup {q}) <= Cardinality(Request)
  BY FreeType
<1> QED BY <1>1, <1>2, <1>3, FreeType

LEMMA FreeLeaves ==
  ASSUME NEW S \in SUBSET Request, NEW q \in S
  PROVE  Cardinality(S \ {q}) = Cardinality(S) - 1
BY FreeType, FS_RemoveElement

LEMMA FreeEnters ==
  ASSUME NEW S \in SUBSET Request, NEW q \in Request \ S
  PROVE  Cardinality(S \cup {q}) = Cardinality(S) + 1
BY FreeType, FS_AddElement

\* The types the counting needs.
LEMMA QuotaTypes ==
  ASSUME TypeOK
  PROVE  /\ clock \in Int /\ faults \in Nat /\ Limit \in Nat /\ Period \in Int
         /\ usage \in Seq(Int) /\ started \in Seq(Int)
<1>1. Time \subseteq Int /\ clock \in Time
  BY BoundAssumption DEF Time, TypeOK
<1>2. usage \in Seq(Time) /\ started \in Seq(Time) /\ faults \in Nat
  BY BoundAssumption DEF TypeOK
<1>3. ASSUME NEW log \in Seq(Time) PROVE log \in Seq(Int)
  BY <1>1, SeqMonotonic
<1> QED BY <1>1, <1>2, <1>3, LimitAssumption, PeriodAssumption

LEMMA Counted ==
  ASSUME TypeOK, NEW t \in Int
  PROVE  /\ Since(started, t) \in Nat /\ Since(usage, t) \in Nat
         /\ Since(Append(started, clock), t) = Since(started, t) + IF clock >= t THEN 1 ELSE 0
         /\ Since(Append(usage, clock), t) = Since(usage, t) + IF clock >= t THEN 1 ELSE 0
         /\ Since(Append(started, clock), t) \in Nat /\ Since(Append(usage, clock), t) \in Nat
<1>1. clock \in Int /\ usage \in Seq(Int) /\ started \in Seq(Int)
  BY QuotaTypes
<1>2. Since(started, t) \in Nat /\ Since(usage, t) \in Nat
  BY <1>1, SinceType
<1>3. /\ Since(Append(started, clock), t) = Since(started, t) + IF clock >= t THEN 1 ELSE 0
      /\ Since(Append(usage, clock), t) = Since(usage, t) + IF clock >= t THEN 1 ELSE 0
  BY <1>1, SinceAppend
<1> QED BY <1>2, <1>3

LEMMA WindowStart ==
  ASSUME TypeOK
  PROVE  clock - Period \in Int /\ clock >= clock - Period
BY QuotaTypes, PeriodAssumption

LEMMA OneMore ==
  ASSUME NEW m \in Nat, NEW n \in Nat
  PROVE  /\ m * n \in Nat /\ m * (1 + n) = m + m * n /\ m * (n + 1) = m + m * n
         /\ m * (1 + n) \in Nat /\ m * (1 + (n + 1)) = m + m * (1 + n)
OBVIOUS

\* A fault allows as many lost entries as there are requests waiting.
LEMMA Allowance ==
  ASSUME NEW began \in Nat, NEW logged \in Nat, NEW after \in Nat, NEW waiting \in Nat,
         NEW left \in Nat, NEW all \in Nat, NEW allowed \in Nat,
         began <= logged + waiting + allowed, logged <= after, waiting <= left + all
  PROVE  began <= after + left + (allowed + all)
OBVIOUS

\* What the log makes up for, a longer log does too.
LEMMA LargerLog ==
  ASSUME NEW began \in Nat, NEW logged \in Nat, NEW after \in Nat, NEW waiting \in Nat,
         NEW allowed \in Nat, began <= logged + waiting + allowed, logged <= after
  PROVE  began <= after + waiting + allowed
OBVIOUS

\* What is below a bound stays below a larger one.
LEMMA Widen ==
  ASSUME NEW before \in Nat, NEW passed \in Nat, NEW begun \in Nat, NEW passing \in Nat,
         NEW limit \in Nat, NEW allowed \in Nat, NEW wider \in Nat,
         begun + passing <= before + passed, before + passed <= limit - 1 + allowed,
         allowed <= wider
  PROVE  begun + passing <= limit - 1 + wider
OBVIOUS

\* A step that starts no scan and lets none pass the gate: a fault may lose what
\* waits to be logged.
LEMMA QuotaQuiet ==
  ASSUME TypeOK, QuotaInv,
         clock' = clock, started' = started,
         usage' = usage \/ usage' = Append(usage, clock),
         FreeAt("start")' \subseteq FreeAt("start"),
         \/ Works /\ FreeAt("log")' = FreeAt("log")
         \/ Fails
  PROVE  QuotaInv'
<1> DEFINE R == Cardinality(Request)
           L == Cardinality(FreeAt("log"))
           P == Cardinality(FreeAt("start"))
<1>1. R \in Nat /\ L \in Nat /\ P \in Nat /\ L <= R
  BY FreeType DEF FreeAt
<1>2. L' \in Nat /\ P' \in Nat /\ P' <= P
  <2>1. FreeAt("log")' \in SUBSET Request
    BY DEF FreeAt
  <2>2. IsFiniteSet(FreeAt("start")) /\ Cardinality(FreeAt("log")') \in Nat
    BY <2>1, FreeType DEF FreeAt
  <2> QED BY <2>2, FS_Subset, FS_CardinalityType
<1>3. \/ faults' = faults /\ L' = L
      \/ faults' = faults + 1
  BY DEF Works, Fails
<1>4. R * (faults + 1) = R * faults + R /\ R * faults \in Nat
      /\ R * (1 + (faults + 1)) = R * (1 + faults) + R /\ R * (1 + faults) \in Nat
  <2> HIDE DEF R
  <2>1. faults \in Nat
    BY QuotaTypes
  <2> QED BY <1>1, <2>1, OneMore
<1>5. ASSUME NEW t \in Int
      PROVE  Since(started, t) <= Since(usage', t) + L' + R * faults'
  <2>1. Since(started, t) <= Since(usage, t) + L + R * faults
    BY DEF QuotaInv, StartsAreLogged
  <2>2. Since(started, t) \in Nat /\ Since(usage, t) \in Nat
        /\ Since(usage', t) \in Nat /\ Since(usage, t) <= Since(usage', t)
    <3>1. CASE usage' = usage
      BY <3>1, Counted
    <3>2. CASE usage' = Append(usage, clock)
      <4>1. Since(usage', t) = Since(Append(usage, clock), t)
        BY <3>2
      <4>2. Since(usage', t) = Since(usage, t) + IF clock >= t THEN 1 ELSE 0
        BY <4>1, Counted
      <4>3. Since(started, t) \in Nat /\ Since(usage, t) \in Nat
        BY Counted
      <4> QED BY <4>2, <4>3
    <3> QED BY <3>1, <3>2
  <2>3. CASE faults' = faults /\ L' = L
    <3>1. L \in Nat /\ R * faults \in Nat
      BY <1>1, <1>4
    <3> HIDE DEF R, L
    <3>2. Since(started, t) <= Since(usage', t) + L + R * faults
      BY <2>1, <2>2, <3>1, LargerLog
    <3> QED BY <2>3, <3>2
  <2>4. CASE faults' = faults + 1
    <3> HIDE DEF R
    <3>1. R * faults' = R * faults + R
      BY <1>4, <2>4
    <3>2. R \in Nat /\ L \in Nat /\ L' \in Nat /\ L <= L' + R /\ R * faults \in Nat
      BY <1>1, <1>2, <1>4
    <3> HIDE DEF L
    <3>3. Since(started, t) <= Since(usage', t) + L' + (R * faults + R)
      BY <2>1, <2>2, <3>2, Allowance
    <3> QED BY <3>1, <3>3
  <2> QED BY <1>3, <2>3, <2>4
<1>6. InWindow(started)' + P' <= Limit - 1 + R * (1 + faults')
  <2>1. InWindow(started)' = InWindow(started) /\ InWindow(started) \in Nat
    BY WindowStart, Counted DEF InWindow
  <2>2. InWindow(started) + P <= Limit - 1 + R * (1 + faults)
    BY DEF QuotaInv
  <2>3. R * (1 + faults) <= R * (1 + faults') /\ R * (1 + faults') \in Nat
    <3> HIDE DEF R
    <3> QED BY <1>1, <1>3, <1>4
  <2>4. Limit \in Nat
    BY QuotaTypes
  <2>5. InWindow(started)' + P' <= InWindow(started) + P
    <3> HIDE DEF P
    <3> QED BY <1>1, <1>2, <2>1
  <2>6. InWindow(started)' \in Nat /\ R * (1 + faults) \in Nat
    BY <1>4, <2>1
  <2> HIDE DEF R, P
  <2> QED BY <1>1, <1>2, <2>1, <2>2, <2>3, <2>4, <2>5, <2>6, Widen
<1>7. StartsAreLogged'
  BY <1>5 DEF StartsAreLogged, Since
<1> QED BY <1>6, <1>7 DEF QuotaInv

\* Time passes: the window moves on, and nothing was started later.
LEMMA QuotaTick ==
  ASSUME TypeOK, QuotaInv, Tick
  PROVE  QuotaInv'
<1>1. /\ clock' = clock + 1 /\ faults' = faults /\ started' = started /\ usage' = usage
      /\ pc' = pc /\ kind' = kind
  BY DEF Tick, scans, request
<1>2. StartsAreLogged'
  BY <1>1 DEF QuotaInv, StartsAreLogged, Since, FreeAt
<1>3. /\ InWindow(started)' <= InWindow(started)
      /\ InWindow(started) \in Nat /\ InWindow(started)' \in Nat
  <2>1. InWindow(started) = Since(started, clock - Period)
        /\ InWindow(started)' = Since(started, (clock + 1) - Period)
    <3>1. InWindow(started)' = Since(started', clock' - Period)
      BY DEF InWindow, Since
    <3>2. InWindow(started) = Since(started, clock - Period)
      BY DEF InWindow
    <3>3. Since(started', clock' - Period) = Since(started, (clock + 1) - Period)
      BY <1>1
    <3> QED BY <3>1, <3>2, <3>3
  <2>2. clock - Period \in Int /\ (clock + 1) - Period \in Int /\ started \in Seq(Int)
        /\ clock - Period <= (clock + 1) - Period
    BY QuotaTypes
  <2> QED BY <2>1, <2>2, SinceLater, SinceType
<1>4. Cardinality(FreeAt("start"))' = Cardinality(FreeAt("start"))
  BY <1>1 DEF FreeAt
<1>5. Cardinality(FreeAt("start")) \in Nat /\ Cardinality(Request) * (1 + faults) \in Nat
  BY FreeType, QuotaTypes DEF FreeAt
<1>6. InWindow(started)' + Cardinality(FreeAt("start"))'
        <= Limit - 1 + Cardinality(Request) * (1 + faults)
  BY <1>3, <1>4, <1>5, QuotaTypes DEF QuotaInv
<1>7. (\A i \in 1 .. Len(started) : started[i] <= clock)'
  BY <1>1, QuotaTypes DEF QuotaInv
<1> QED BY <1>1, <1>2, <1>6, <1>7 DEF QuotaInv

\* A free request passes the gate: what was started is logged, lost, or waits with
\* the others.
LEMMA QuotaGate ==
  ASSUME TypeOK, QuotaInv, NEW q \in Request, pc[q] = "gate", kind[q] = "free",
         InWindow(usage) < Limit, Goto(q, "start"),
         UNCHANGED <<clock, started, usage, faults>>
  PROVE  QuotaInv'
<1> DEFINE R == Cardinality(Request)
           L == Cardinality(FreeAt("log"))
           P == Cardinality(FreeAt("start"))
<1>1. FreeAt("log")' = FreeAt("log") /\ FreeAt("start")' = FreeAt("start") \cup {q}
  BY GotoType DEF FreeAt, Label
<1>2. P' = P + 1
  BY <1>1, FreeEnters DEF FreeAt
<1>3. L + P + 1 <= R
  BY FreeTogether DEF FreeAt
<1>4. R \in Nat /\ L \in Nat /\ P \in Nat /\ R * faults \in Nat
      /\ R * (1 + faults) = R + R * faults
  BY FreeType, QuotaTypes DEF FreeAt
<1>5. /\ InWindow(started) <= InWindow(usage) + L + R * faults
      /\ InWindow(started) \in Nat /\ InWindow(usage) \in Nat
  BY WindowStart, Counted DEF QuotaInv, StartsAreLogged, InWindow
<1>6. InWindow(started) + P' <= Limit - 1 + R * (1 + faults)
  <2>1. Limit \in Nat /\ InWindow(usage) <= Limit - 1
    <3>1. Limit \in Nat
      BY QuotaTypes
    <3> QED BY <1>5, <3>1
  <2> HIDE DEF R, L, P
  <2> QED BY <1>2, <1>3, <1>4, <1>5, <2>1
<1>7. StartsAreLogged'
  BY <1>1 DEF QuotaInv, StartsAreLogged, Since
<1>8. InWindow(started)' = InWindow(started)
  BY DEF InWindow
<1> QED BY <1>6, <1>7, <1>8 DEF QuotaInv

\* A free scan is started: its request was counted and now waits to be logged.
LEMMA QuotaStart ==
  ASSUME TypeOK, QuotaInv, NEW q \in Request, pc[q] = "start", kind[q] = "free",
         Goto(q, "log"), started' = Append(started, clock),
         UNCHANGED <<clock, usage, faults>>
  PROVE  QuotaInv'
<1> DEFINE R == Cardinality(Request)
           L == Cardinality(FreeAt("log"))
           P == Cardinality(FreeAt("start"))
<1>1. FreeAt("log")' = FreeAt("log") \cup {q} /\ FreeAt("start")' = FreeAt("start") \ {q}
  BY GotoType DEF FreeAt, Label
<1>2. L' = L + 1 /\ P' = P - 1
  <2>1. /\ FreeAt("log") \in SUBSET Request /\ q \in Request \ FreeAt("log")
        /\ FreeAt("start") \in SUBSET Request /\ q \in FreeAt("start")
    BY DEF FreeAt
  <2>2. Cardinality(FreeAt("log") \cup {q}) = L + 1
    BY <2>1, FreeEnters
  <2>3. Cardinality(FreeAt("start") \ {q}) = P - 1
    BY <2>1, FreeLeaves
  <2> QED BY <1>1, <2>2, <2>3
<1>3. R \in Nat /\ L \in Nat /\ P \in Nat /\ R * faults \in Nat /\ R * (1 + faults) \in Nat
  BY FreeType, QuotaTypes DEF FreeAt
<1>4. ASSUME NEW t \in Int
      PROVE  Since(started', t) <= Since(usage, t) + L' + R * faults
  <2>1. Since(started, t) <= Since(usage, t) + L + R * faults
    BY DEF QuotaInv, StartsAreLogged
  <2>2. Since(started, t) \in Nat /\ Since(usage, t) \in Nat
        /\ Since(started', t) \in Nat /\ Since(started', t) <= Since(started, t) + 1
    BY Counted
  <2>3. L' = L + 1 /\ L \in Nat /\ R * faults \in Nat
    BY <1>2, <1>3
  <2> HIDE DEF R, L
  <2> QED BY <2>1, <2>2, <2>3
<1>5. StartsAreLogged'
  BY <1>4 DEF StartsAreLogged, Since
<1>6. InWindow(started)' = InWindow(started) + 1 /\ InWindow(started) \in Nat
  <2>1. InWindow(started)' = Since(Append(started, clock), clock - Period)
    BY DEF InWindow, Since
  <2> QED BY <2>1, WindowStart, Counted DEF InWindow
<1>7. InWindow(started)' + P' <= Limit - 1 + R * (1 + faults)
  <2>1. InWindow(started) + P <= Limit - 1 + R * (1 + faults)
    BY DEF QuotaInv
  <2> HIDE DEF R, P
  <2> QED BY <1>2, <1>3, <1>6, <2>1, QuotaTypes
<1>8. \A i \in 1 .. Len(started') : started'[i] <= clock'
  <2>1. started \in Seq(Int) /\ clock \in Int
    BY QuotaTypes
  <2>2. Len(started') = Len(started) + 1
    BY <2>1
  <2>3. \A i \in 1 .. Len(started') :
          started'[i] = IF i = Len(started) + 1 THEN clock ELSE started[i]
    BY <2>1
  <2> QED BY <2>1, <2>2, <2>3 DEF QuotaInv
<1> QED BY <1>5, <1>7, <1>8 DEF QuotaInv

\* A free scan is logged: the entry is as late as its start, or later.
LEMMA QuotaLog ==
  ASSUME TypeOK, QuotaInv, NEW q \in Request, pc[q] = "log", kind[q] = "free",
         Goto(q, "idle"), usage' = Append(usage, clock),
         UNCHANGED <<clock, started, faults>>
  PROVE  QuotaInv'
<1> DEFINE R == Cardinality(Request)
           L == Cardinality(FreeAt("log"))
<1>1. FreeAt("log")' = FreeAt("log") \ {q} /\ FreeAt("start")' = FreeAt("start")
  BY GotoType DEF FreeAt, Label
<1>2. L' = L - 1 /\ L' \in Nat
  <2>1. FreeAt("log") \ {q} \in SUBSET Request
    BY DEF FreeAt
  <2> QED BY <1>1, <2>1, FreeLeaves, FreeType DEF FreeAt
<1>3. R \in Nat /\ L \in Nat /\ R * faults \in Nat
  BY FreeType, QuotaTypes DEF FreeAt
<1>4. ASSUME NEW t \in Int
      PROVE  Since(started, t) <= Since(usage', t) + L' + R * faults
  <2>1. CASE t <= clock
    <3>1. Since(started, t) <= Since(usage, t) + L + R * faults
      BY DEF QuotaInv, StartsAreLogged
    <3>2. Since(started, t) \in Nat /\ Since(usage, t) \in Nat
          /\ Since(usage', t) = Since(usage, t) + 1
      BY <2>1, Counted
    <3> HIDE DEF R, L
    <3> QED BY <1>2, <1>3, <3>1, <3>2
  <2>2. CASE t > clock
    <3>1. Since(started, t) = 0
      <4>1. \A i \in 1 .. Len(started) : started[i] < t
        BY <2>2, QuotaTypes DEF QuotaInv
      <4> QED BY <4>1, QuotaTypes, SinceFuture
    <3>2. Since(usage', t) \in Nat
      BY Counted
    <3> HIDE DEF R, L
    <3> QED BY <1>2, <1>3, <3>1, <3>2
  <2> QED BY <2>1, <2>2, QuotaTypes
<1>5. StartsAreLogged'
  BY <1>4 DEF StartsAreLogged, Since
<1>6. InWindow(started)' = InWindow(started)
  BY DEF InWindow
<1> QED BY <1>1, <1>5, <1>6 DEF QuotaInv

\* What the customer, Paystack, the clock and the account pages do.
LEMMA QuotaOutside ==
  ASSUME TypeOK, QuotaInv,
         \/ CancelSubscription \/ RefreshToken \/ EndScan \/ Crash
         \/ \E r \in Ref : CreateCheckout(r) \/ CryptoCheckout(r) \/ Pay(r)
         \/ \E t \in Tx : Transfer(t)
  PROVE  QuotaInv'
<1> USE DEF account, world, request, scans
<1>1. clock' = clock /\ started' = started /\ (usage' = usage \/ usage' = Append(usage, clock))
  BY DEF CancelSubscription, RefreshToken, EndScan, Crash, CreateCheckout, CryptoCheckout, InsertPayment, Pay, Transfer
<1>2. \/ pc' = pc /\ kind' = kind
      \/ Fails /\ FreeAt("start")' = {}
  BY DEF CancelSubscription, RefreshToken, EndScan, Crash, CreateCheckout, CryptoCheckout, InsertPayment, Pay, Transfer, FreeAt
<1>3. Works \/ Fails
  BY DEF CancelSubscription, RefreshToken, EndScan, Crash, CreateCheckout, CryptoCheckout, InsertPayment, Pay, Transfer, Works
<1>4. FreeAt("start")' \subseteq FreeAt("start") /\ (FreeAt("log")' = FreeAt("log") \/ Fails)
  BY <1>2 DEF FreeAt
<1> QED BY <1>1, <1>3, <1>4, QuotaQuiet

\* A request goes from one statement to another, neither of them the start of a
\* scan nor its log.
LEMMA QuotaMoves ==
  ASSUME TypeOK, QuotaInv, NEW q \in Request, Works \/ Fails,
         UNCHANGED <<clock, usage, started>>,
         pc[q] # "log", pc'[q] \notin {"start", "log"},
         \A p \in Request : p # q => pc'[p] = pc[p] /\ kind'[p] = kind[p]
  PROVE  QuotaInv'
<1>1. FreeAt("start")' \subseteq FreeAt("start") /\ FreeAt("log")' = FreeAt("log")
  BY DEF FreeAt
<1> QED BY <1>1, QuotaQuiet

\* A request arrives, and pays.
LEMMA QuotaPays ==
  ASSUME TypeOK, QuotaInv, NEW q \in Request,
         \/ \E r \in Ref, how \in {"webhook", "verify", "other"} : Arrive(q, r, how)
         \/ \E x \in Reference : Arrive(q, x, "crypto")
         \/ RequestScan(q) \/ CheckStatus(q) \/ AskPaystack(q) \/ MarkPayment(q)
         \/ FindPayment(q) \/ FilePayment(q) \/ UpgradePlan(q) \/ UpsertSubscription(q) \/ DowngradePlan(q) \/ ExpireSubscription(q)
  PROVE  QuotaInv'
<1> USE DEF account, world, request, scans, Arrive, RequestScan, Accept, CheckStatus,
            AskPaystack, MarkPayment, FindPayment, FilePayment, File, UpgradePlan,
            UpsertSubscription, DowngradePlan, ExpireSubscription
<1>1. UNCHANGED <<clock, usage, started>> /\ (Works \/ Fails)
  BY DEF Works
<1>2. pc[q] # "log"
  OBVIOUS
<1>3. pc'[q] \notin {"start", "log"}
  BY DEF Goto, GotoWith, TypeOK
<1>4. \A p \in Request : p # q => pc'[p] = pc[p] /\ kind'[p] = kind[p]
  BY DEF Goto, GotoWith, TypeOK
<1> HIDE DEF account, world, request, scans, Arrive, RequestScan, Accept, CheckStatus,
             AskPaystack, MarkPayment, FindPayment, FilePayment, File, UpgradePlan,
             UpsertSubscription, DowngradePlan, ExpireSubscription
<1> QED BY <1>1, <1>2, <1>3, <1>4, QuotaMoves

\* A request asks for a scan: the gate, the start and the log.
LEMMA QuotaScans ==
  ASSUME TypeOK, QuotaInv, NEW q \in Request, Gate(q) \/ StartScan(q) \/ LogRequest(q)
  PROVE  QuotaInv'
<1> USE DEF account, world, request, scans
<1>1. CASE Gate(q)
  <2>1. UNCHANGED <<clock, usage, started>> /\ (Works \/ Fails) /\ pc[q] = "gate"
    BY <1>1 DEF Gate
  <2>2. PICK label \in {"idle", "start", "downgrade"} : Goto(q, label)
    BY <1>1 DEF Gate
  <2>3. pc'[q] = label /\ (label # "idle" => kind'[q] = kind[q])
    BY <2>2 DEF Goto, GotoWith, TypeOK
  <2>4. \A p \in Request : p # q => pc'[p] = pc[p] /\ kind'[p] = kind[p]
    BY <2>2 DEF Goto, GotoWith, TypeOK
  <2>5. CASE label # "start"
    BY <2>1, <2>3, <2>4, <2>5, QuotaMoves
  <2>6. CASE label = "start" /\ kind[q] # "free"
    <3>1. FreeAt("start")' = FreeAt("start") /\ FreeAt("log")' = FreeAt("log")
      BY <2>1, <2>3, <2>4, <2>6 DEF FreeAt
    <3> QED BY <2>1, <3>1, QuotaQuiet
  <2>7. CASE label = "start" /\ kind[q] = "free"
    <3>1. Works /\ InWindow(usage) < Limit
      BY <1>1, <2>3, <2>7 DEF Gate, Goto, GotoWith, TypeOK
    <3> QED BY <2>1, <2>2, <2>7, <3>1, QuotaGate DEF Works
  <2> QED BY <2>5, <2>6, <2>7
<1>2. CASE StartScan(q)
  <2>1. UNCHANGED <<clock, usage, faults>> /\ pc[q] = "start"
    BY <1>2 DEF StartScan
  <2>2. CASE Goto(q, "idle") /\ UNCHANGED started
    BY <2>1, <2>2, GotoType, QuotaMoves DEF Works, Label
  <2>3. CASE Goto(q, "log") /\ kind[q] # "free" /\ UNCHANGED started
    <3>1. \A p \in Request : p # q => pc'[p] = pc[p] /\ kind'[p] = kind[p]
      BY <2>3, GotoType DEF Label
    <3>2. kind'[q] = kind[q]
      BY <2>3 DEF Goto, GotoWith, TypeOK
    <3>3. FreeAt("start")' = FreeAt("start") /\ FreeAt("log")' = FreeAt("log")
      BY <2>3, <3>1, <3>2 DEF FreeAt
    <3> QED BY <2>1, <2>3, <3>3, QuotaQuiet DEF Works
  <2>4. CASE Goto(q, "log") /\ kind[q] = "free" /\ started' = Append(started, clock)
    BY <2>1, <2>4, QuotaStart
  <2> QED BY <1>2, <2>2, <2>3, <2>4 DEF StartScan
<1>3. CASE LogRequest(q)
  <2>1. UNCHANGED <<clock, started>> /\ pc[q] = "log" /\ Goto(q, "idle")
    BY <1>3 DEF LogRequest
  <2>2. \A p \in Request : p # q => pc'[p] = pc[p] /\ kind'[p] = kind[p]
    BY <2>1, GotoType DEF Label
  <2>3. pc'[q] = "idle"
    BY <2>1, GotoType DEF Label
  <2>4. FreeAt("start")' = FreeAt("start")
    BY <2>1, <2>2, <2>3 DEF FreeAt
  <2>5. CASE Fails /\ UNCHANGED usage
    BY <2>1, <2>4, <2>5, QuotaQuiet
  <2>6. CASE Works /\ usage' = Append(usage, clock) /\ kind[q] # "free"
    <3>1. FreeAt("log")' = FreeAt("log")
      BY <2>1, <2>2, <2>3, <2>6 DEF FreeAt
    <3> QED BY <2>1, <2>4, <2>6, <3>1, QuotaQuiet
  <2>7. CASE Works /\ usage' = Append(usage, clock) /\ kind[q] = "free"
    BY <2>1, <2>7, QuotaLog DEF Works
  <2> QED BY <1>3, <2>5, <2>6, <2>7 DEF LogRequest
<1> QED BY <1>1, <1>2, <1>3

LEMMA QuotaInvariant == Spec => []QuotaInv
<1>1. ASSUME Init PROVE QuotaInv
  <2>1. clock = 0 /\ faults = 0 /\ usage = << >> /\ started = << >>
    BY <1>1 DEF Init
  <2>2. \A label \in {"start", "log"} : FreeAt(label) = {}
    BY <1>1 DEF Init, FreeAt
  <2>3. Cardinality(FreeAt("start")) = 0 /\ Cardinality(FreeAt("log")) = 0
    BY <2>2, FS_EmptySet
  <2>4. \A t \in Int : Since(<< >>, t) = 0
    <3>1. \A t \in Int : {i \in 1 .. Len(<< >>) : << >>[i] >= t} = {}
      OBVIOUS
    <3> QED BY <3>1, FS_EmptySet DEF Since
  <2>5. Cardinality(Request) \in Nat /\ Limit \in Nat /\ Limit >= 1
    BY FreeType, LimitAssumption
  <2>6. StartsAreLogged
    BY <2>1, <2>3, <2>4, <2>5 DEF StartsAreLogged
  <2>7. InWindow(started) = 0
    BY <2>1, <2>4, PeriodAssumption DEF InWindow
  <2> QED BY <2>1, <2>3, <2>5, <2>6, <2>7 DEF QuotaInv
<1>2. ASSUME TypeOK, QuotaInv, [Next]_vars PROVE QuotaInv'
  <2>1. CASE UNCHANGED vars
    <3>1. UNCHANGED <<clock, usage, started, faults, pc, kind>>
      BY <2>1 DEF vars, scans, request
    <3> QED BY <1>2, <3>1, QuotaQuiet DEF Works, FreeAt
  <2>2. CASE Next
    BY <1>2, <2>2, QuotaTick, QuotaOutside, QuotaPays, QuotaScans DEF Next, Serve
  <2> QED BY <1>2, <2>1, <2>2
<1> QED BY <1>1, <1>2, BillingTypes, PTL DEF Spec

\* The free quota is exceeded by at most one scan for each request that can be
\* served at the same time, and as many again for every fault (billing/middleware.go:
\* the count is read before the scan is started and written after it was answered).
THEOREM QuotaIsBounded == Spec => []QuotaOvershoot
<1>1. ASSUME TypeOK, QuotaInv PROVE QuotaOvershoot
  <2>1. InWindow(started) \in Nat
    BY <1>1, WindowStart, Counted DEF InWindow
  <2>2. /\ Cardinality(FreeAt("start")) \in Nat
        /\ Cardinality(Request) * (1 + faults) \in Nat /\ Limit \in Nat
    BY <1>1, FreeType, QuotaTypes, OneMore DEF FreeAt
  <2> QED BY <1>1, <2>1, <2>2 DEF QuotaInv, QuotaOvershoot
<1> QED BY <1>1, BillingTypes, QuotaInvariant, PTL
=============================================================================
