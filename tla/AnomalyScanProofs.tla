------------------------- MODULE AnomalyScanProofs -------------------------
(***************************************************************************)
(* Proofs about AnomalyScan, for every set of addresses, ports, scans and  *)
(* drift types, and every bound of the clock.                              *)
(***************************************************************************)
EXTENDS AnomalyScan, TLAPS

-----------------------------------------------------------------------------
(***************************************************************************)
(* Lemmas about the store                                                  *)
(***************************************************************************)

\* Put keeps one value per key.
LEMMA PutOnePerKey ==
  ASSUME NEW bucket, NEW rec, OnePerKey(bucket)
  PROVE  OnePerKey(PutAt(bucket, rec))
BY DEF PutAt, OnePerKey

\* Put never loses the last key: for every value there was, one is left whose
\* time is not before it.
LEMMA PutNeverRewinds ==
  ASSUME NEW bucket, NEW rec, rec.at \in Nat, \A r \in bucket : r.at \in Nat
  PROVE  \A r \in bucket : \E q \in PutAt(bucket, rec) : q.at >= r.at
BY DEF PutAt

\* A value whose time is not before any other is the last one when it is put.
LEMMA PutNewestIsLast ==
  ASSUME NEW bucket, NEW rec, rec.at \in Nat,
         \A r \in bucket : r.at \in Nat /\ r.at <= rec.at
  PROVE  /\ IsLast(PutAt(bucket, rec), rec)
         /\ \A r : IsLast(PutAt(bucket, rec), r) => r = rec
BY DEF PutAt, IsLast

\* ... so the port is open after the put exactly if that value says so.
LEMMA PutNewestDecides ==
  ASSUME NEW bucket, NEW rec, rec.at \in Nat, rec.open \in BOOLEAN,
         \A r \in bucket : r.at \in Nat /\ r.at <= rec.at
  PROVE  LatestIsOpen(PutAt(bucket, rec)) <=> rec.open
<1>1. IsLast(PutAt(bucket, rec), rec) /\ \A r : IsLast(PutAt(bucket, rec), r) => r = rec
  BY PutNewestIsLast
<1>2. rec \in PutAt(bucket, rec)
  BY DEF PutAt
<1>. QED  BY <1>1, <1>2, Zenon DEF LatestIsOpen

\* What ReadLatest returns is the last record of the bucket when there is one.
LEMMA ReadLatestIsLast ==
  ASSUME NEW bucket, NEW none, NEW last, IsLast(bucket, last)
  PROVE  IsLast(bucket, ReadLatest(bucket, none))
BY DEF ReadLatest, IsLast

\* A bucket that is not empty has a last value, and keeps having one.
LEMMA PutHasLast ==
  ASSUME NEW bucket, NEW rec, rec.at \in Nat, \A r \in bucket : r.at \in Nat,
         bucket # {} => \E r \in bucket : IsLast(bucket, r)
  PROVE  \E r \in PutAt(bucket, rec) : IsLast(PutAt(bucket, rec), r)
<1>1. CASE \A r \in bucket : r.at <= rec.at
  BY <1>1, PutNewestIsLast DEF IsLast
<1>2. CASE \E q \in bucket : ~(q.at <= rec.at)
  <2>1. PICK last \in bucket : IsLast(bucket, last)
    BY <1>2
  <2>2. rec.at < last.at
    BY <1>2, <2>1 DEF IsLast
  <2>. QED  BY <2>1, <2>2 DEF IsLast, PutAt
<1>. QED  BY <1>1, <1>2

-----------------------------------------------------------------------------
(***************************************************************************)
(* Type correctness                                                        *)
(***************************************************************************)

\* The events of diff are event types.
LEMMA DiffType ==
  ASSUME NEW old \in Record \cup {NoRecord}, NEW new \in Record
  PROVE  Diff(old, new) \subseteq EventType
BY FacetAssumption DEF Diff, EventType, Drift

\* The record Flush writes for a closed port is a record.
LEMMA ClosedType ==
  ASSUME NEW t \in Nat
  PROVE  Closed(t) \in Record
BY DEF Closed, Record

\* The latest state of an endpoint is one of its records, or nil when it has none.
LEMMA LatestType ==
  ASSUME TypeOK, NEW e \in Endpoint,
         history[e] # {} => \E r \in history[e] : IsLast(history[e], r)
  PROVE  Latest(e) \in Record \cup {NoRecord}
BY ReadLatestIsLast DEF TypeOK, Latest, ReadLatest, IsLast

\* Every bucket that holds a record holds a last one.
HasLast == \A e \in Endpoint :
             history[e] # {} => \E r \in history[e] : IsLast(history[e], r)

\* Type correctness of the scans.
LEMMA TypeStep ==
  ASSUME TypeOK, HasLast, [Next]_vars
  PROVE  TypeOK' /\ HasLast'
<1>. USE DEF TypeOK
<1>1. CASE Tick
  <2>1. clock' \in Nat /\ UNCHANGED <<history, alerts, listener>> /\ UNCHANGED <<scanner, engine, cancelled>>
    BY <1>1 DEF Tick, store
  <2>2. HasLast'
    BY <2>1 DEF HasLast
  <2>. QED  BY <2>1, <2>2, SMTT(30) DEF scanner, engine
<1>2. ASSUME NEW s \in Scan, NEW hs \in SUBSET Host, NEW ps \in SUBSET Port, Start(s, hs, ps)
      PROVE  TypeOK' /\ HasLast'
  BY <1>2 DEF Start, store, HasLast
<1>3. ASSUME NEW s \in Scan, Cancel(s) PROVE TypeOK' /\ HasLast'
  BY <1>3 DEF Cancel, store, scanner, engine, HasLast
<1>4. ASSUME NEW s \in Scan, Abandon(s) PROVE TypeOK' /\ HasLast'
  BY <1>4 DEF Abandon, store, HasLast
<1>5. ASSUME NEW s \in Scan, NEW e \in Endpoint, NEW face \in [Facet -> Look \cup {Blank}],
             NEW ms \in Latency, ProbeUp(s, e, face, ms)
      PROVE  TypeOK' /\ HasLast'
  <2>1. [ep |-> e, rec |-> [at |-> clock, open |-> TRUE, face |-> face, ms |-> ms]] \in Result
    BY DEF Result, Record
  <2>. QED  BY <1>5, <2>1 DEF ProbeUp, store, engine, HasLast
<1>6. ASSUME NEW s \in Scan, NEW e \in Endpoint, ProbeSilent(s, e) PROVE TypeOK' /\ HasLast'
  BY <1>6 DEF ProbeSilent, store, engine, HasLast
<1>7. ASSUME NEW s \in Scan, NEW r \in results[s], DropResult(s, r) PROVE TypeOK' /\ HasLast'
  BY <1>7 DEF DropResult, store, engine, HasLast
<1>8. ASSUME NEW s \in Scan, NEW r \in results[s], TakeResult(s, r) PROVE TypeOK' /\ HasLast'
  <2>1. r \in Result /\ r.ep \in Endpoint
    BY DEF Result
  <2>2. Latest(r.ep) \in Record \cup {NoRecord}
    BY <2>1, LatestType DEF HasLast
  <2>3. prev' \in [Scan -> Record \cup {NoRecord}]
    BY <1>8, <2>2 DEF TakeResult
  <2>4. cur' \in [Scan -> Result \cup {NoResult}] /\ step' \in [Scan -> {"next", "write", "dispatch"}]
    BY <1>8, <2>1 DEF TakeResult
  <2>5. seen' \in [Scan -> SUBSET Endpoint] /\ results' \in [Scan -> SUBSET Result]
    BY <1>8, <2>1 DEF TakeResult
  <2>6. \A t \in Scan : step'[t] # "next" => phase'[t] # "idle" /\ cur'[t] \in Result
    BY <1>8, <2>1 DEF TakeResult
  <2>. QED  BY <1>8, <2>3, <2>4, <2>5, <2>6 DEF TakeResult, store, HasLast
<1>9. ASSUME NEW s \in Scan, WriteState(s) PROVE TypeOK' /\ HasLast'
  <2>1. cur[s] \in Result /\ cur[s].ep \in Endpoint /\ cur[s].rec \in Record
    BY <1>9 DEF WriteState, Result
  <2>2. PutAt(history[cur[s].ep], cur[s].rec) \in SUBSET Record
    BY <2>1 DEF PutAt
  <2>3. history' \in [Endpoint -> SUBSET Record]
    BY <1>9, <2>1, <2>2 DEF WriteState
  <2>4. Diff(prev[s], cur[s].rec) \subseteq EventType /\ {"port-closed"} \subseteq EventType
    BY <2>1, DiffType DEF EventType
  <2>5. events' \in [Scan -> SUBSET EventType]
    BY <1>9, <2>4 DEF WriteState
  <2>6. TypeOK'
    <3>1. step' \in [Scan -> {"next", "write", "dispatch"}] /\ cur' \in [Scan -> Result \cup {NoResult}]
      BY <1>9 DEF WriteState
    <3>2. prev' \in [Scan -> Record \cup {NoRecord}]
      BY <1>9 DEF WriteState
    <3>3. \A t \in Scan : step'[t] # "next" => phase'[t] # "idle" /\ cur'[t] \in Result
      BY <1>9, <2>1 DEF WriteState
    <3>4. UNCHANGED <<clock, alerts, listener, scanner, phase, seen, hosts, openList, cancelled>>
      BY <1>9 DEF WriteState
    <3>. QED  BY <2>3, <2>5, <3>1, <3>2, <3>3, <3>4 DEF scanner
  <2>7. \E r \in PutAt(history[cur[s].ep], cur[s].rec) :
           IsLast(PutAt(history[cur[s].ep], cur[s].rec), r)
    <3>1. cur[s].rec.at \in Nat /\ \A r \in history[cur[s].ep] : r.at \in Nat
      BY <2>1 DEF Record
    <3>. QED  BY <2>1, <3>1, PutHasLast DEF HasLast
  <2>8. HasLast'
    <3>1. \A e \in Endpoint :
             history'[e] = history[e]
               \/ (e = cur[s].ep /\ history'[e] = PutAt(history[e], cur[s].rec))
      <4>1. CASE UNCHANGED history
        BY <4>1
      <4>2. CASE history' = [history EXCEPT ![cur[s].ep] = PutAt(@, cur[s].rec)]
        BY <4>2
      <4>. QED  BY <1>9, <4>1, <4>2 DEF WriteState
    <3>. QED  BY <2>7, <3>1 DEF HasLast
  <2>. QED  BY <2>6, <2>8
<1>10. ASSUME NEW s \in Scan, Dispatch(s) PROVE TypeOK' /\ HasLast'
  <2>1. cur[s] \in Result /\ cur[s].ep \in Endpoint /\ cur[s].rec.at \in Nat
    BY <1>10 DEF Dispatch, Result, Record
  <2>2. PICK type \in EventType :
          /\ \/ alerts' = PutAt(alerts,
                  [at |-> IF type = "port-closed" THEN clock ELSE cur[s].rec.at,
                   ep |-> cur[s].ep, type |-> type])
             \/ StoreMayFail /\ UNCHANGED alerts
          /\ listener' = IF type \in Drift THEN listener
                         ELSE [listener EXCEPT ![cur[s].ep] = type]
          /\ events' = [events EXCEPT ![s] = @ \ {type}]
    BY <1>10 DEF Dispatch
  <2>3. alerts' \subseteq Alert
    BY <2>1, <2>2 DEF Alert, PutAt
  <2>4. listener' \in [Endpoint -> {"none", "new-port", "port-closed"}]
    BY <2>1, <2>2 DEF EventType
  <2>5. events' \in [Scan -> SUBSET EventType]
    BY <2>2
  <2>6. step' \in [Scan -> {"next", "write", "dispatch"}] /\ cur' \in [Scan -> Result \cup {NoResult}]
    BY <1>10 DEF Dispatch
  <2>7. \A t \in Scan : step'[t] # "next" => phase'[t] # "idle" /\ cur'[t] \in Result
    BY <1>10, <2>1, SMTT(30) DEF Dispatch
  <2>. QED  BY <1>10, <2>3, <2>4, <2>5, <2>6, <2>7 DEF Dispatch, scanner, HasLast
<1>11. ASSUME NEW s \in Scan, EndCollect(s) PROVE TypeOK' /\ HasLast'
  BY <1>11 DEF EndCollect, store, scanner, HasLast
<1>12. ASSUME NEW s \in Scan, NEW h \in hosts[s], FlushHost(s, h) PROVE TypeOK' /\ HasLast'
  <2>1. {e \in {h} \X Port : IsOpen(e)} \in SUBSET Endpoint
    BY DEF Endpoint
  <2>2. hosts' \in [Scan -> SUBSET Host]
    BY <1>12 DEF FlushHost
  <2>3. \/ openList' = [openList EXCEPT ![s] = {e \in {h} \X Port : IsOpen(e)}]
        \/ UNCHANGED openList
    BY <1>12 DEF FlushHost
  <2>4. openList' \in [Scan -> SUBSET Endpoint]
    BY <2>1, <2>3, Zenon
  <2>. QED  BY <1>12, <2>2, <2>4 DEF FlushHost, store, scanner, HasLast
<1>13. ASSUME NEW s \in Scan, NEW e \in openList[s], FlushPort(s, e) PROVE TypeOK' /\ HasLast'
  <2>1. e \in Endpoint
    OBVIOUS
  <2>2. Latest(e) \in Record \cup {NoRecord} /\ [ep |-> e, rec |-> Closed(clock)] \in Result
    BY <2>1, LatestType, ClosedType DEF HasLast, Result
  <2>3. openList' \in [Scan -> SUBSET Endpoint]
    BY <1>13 DEF FlushPort
  <2>4. /\ prev' \in [Scan -> Record \cup {NoRecord}]
        /\ cur' \in [Scan -> Result \cup {NoResult}]
        /\ step' \in [Scan -> {"next", "write", "dispatch"}]
    <3>1. CASE UNCHANGED <<step, cur, prev>>
      BY <3>1
    <3>2. CASE /\ cur' = [cur EXCEPT ![s] = [ep |-> e, rec |-> Closed(clock)]]
               /\ prev' = [prev EXCEPT ![s] = Latest(e)]
               /\ step' = [step EXCEPT ![s] = "write"]
      <4>1. cur' \in [Scan -> Result \cup {NoResult}]
        BY <3>2, <2>2
      <4>2. prev' \in [Scan -> Record \cup {NoRecord}]
        BY <3>2, <2>2
      <4>3. step' \in [Scan -> {"next", "write", "dispatch"}]
        BY <3>2
      <4>. QED  BY <4>1, <4>2, <4>3
    <3>. QED  BY <1>13, <3>1, <3>2, Zenon DEF FlushPort
  <2>5. \A t \in Scan : step'[t] # "next" => phase'[t] # "idle" /\ cur'[t] \in Result
    <3>1. \A t \in Scan \ {s} : step'[t] = step[t] /\ phase'[t] = phase[t] /\ cur'[t] = cur[t]
      BY <1>13 DEF FlushPort
    <3>2. step'[s] = step[s] \/ cur'[s] \in Result
      BY <1>13, <2>2 DEF FlushPort
    <3>3. phase'[s] = "flush" /\ step[s] = "next"
      BY <1>13 DEF FlushPort
    <3>. QED  BY <3>1, <3>2, <3>3
  <2>. QED  BY <1>13, <2>3, <2>4, <2>5 DEF FlushPort, store, scanner, HasLast
<1>14. ASSUME NEW s \in Scan, Finish(s) PROVE TypeOK' /\ HasLast'
  BY <1>14 DEF Finish, store, HasLast
<1>15. CASE UNCHANGED vars
  BY <1>15 DEF vars, store, scanner, engine, HasLast
<1>. QED
  BY <1>1, <1>2, <1>3, <1>4, <1>5, <1>6, <1>7, <1>8, <1>9, <1>10, <1>11, <1>12, <1>13,
     <1>14, <1>15 DEF Next

\* The scans only ever hold values of their types, for every instance.
THEOREM TypeCorrect == Spec => [](TypeOK /\ HasLast)
<1>1. Init => TypeOK /\ HasLast
  BY DEF Init, TypeOK, HasLast
<1>2. TypeOK /\ HasLast /\ [Next]_vars => TypeOK' /\ HasLast'
  BY TypeStep
<1>. QED  BY <1>1, <1>2, PTL DEF Spec

-----------------------------------------------------------------------------
(***************************************************************************)
(* The keys of the store                                                   *)
(***************************************************************************)

\* A bucket has one value for a key, and no record is of the future, stored or in
\* flight.
KeysInv ==
  /\ OnePerKey(alerts)
  /\ \A e \in Endpoint : OnePerKey(history[e]) /\ \A r \in history[e] : r.at <= clock
  /\ \A s \in Scan :
       /\ \A r \in results[s] : r.rec.at <= clock
       /\ step[s] # "next" => cur[s].rec.at <= clock

\* The inductive step for the keys and the times of the records.
LEMMA KeysStep ==
  ASSUME TypeOK, KeysInv, [Next]_vars
  PROVE  KeysInv'
<1>. USE DEF TypeOK, KeysInv, Result, Record
<1>1. CASE Tick
  <2>1. clock' \in Nat /\ clock <= clock'
    BY <1>1 DEF Tick
  <2>. QED  BY <1>1, <2>1 DEF Tick, store, scanner, engine
<1>2. ASSUME NEW s \in Scan, NEW hs \in SUBSET Host, NEW ps \in SUBSET Port, Start(s, hs, ps)
      PROVE  KeysInv'
  BY <1>2 DEF Start, store
<1>3. ASSUME NEW s \in Scan, Cancel(s) \/ Abandon(s) \/ EndCollect(s) \/ Finish(s)
      PROVE  KeysInv'
  BY <1>3 DEF Cancel, Abandon, EndCollect, Finish, store, scanner, engine
<1>4. ASSUME NEW s \in Scan, NEW e \in Endpoint, NEW face \in [Facet -> Look \cup {Blank}],
             NEW ms \in Latency, ProbeUp(s, e, face, ms)
      PROVE  KeysInv'
  BY <1>4 DEF ProbeUp, store, engine
<1>5. ASSUME NEW s \in Scan, NEW e \in Endpoint, ProbeSilent(s, e)
      PROVE  KeysInv'
  BY <1>5 DEF ProbeSilent, store, engine
<1>6. ASSUME NEW s \in Scan, NEW r \in results[s], DropResult(s, r) \/ TakeResult(s, r)
      PROVE  KeysInv'
  <2>1. CASE DropResult(s, r)
    BY <2>1 DEF DropResult, store, engine
  <2>2. CASE TakeResult(s, r)
    <3>1. \A t \in Scan : results'[t] \subseteq results[t]
      BY <2>2 DEF TakeResult
    <3>2. \A t \in Scan : step'[t] # "next" => cur'[t].rec.at <= clock'
      BY <2>2 DEF TakeResult
    <3>. QED  BY <2>2, <3>1, <3>2 DEF TakeResult, store
  <2>. QED  BY <1>6, <2>1, <2>2
<1>7. ASSUME NEW s \in Scan, WriteState(s)
      PROVE  KeysInv'
  <2>1. cur[s].ep \in Endpoint /\ cur[s].rec.at <= clock /\ cur[s].rec.at \in Nat
    BY <1>7 DEF WriteState
  <2>2. \A e \in Endpoint : OnePerKey(history'[e]) /\ \A r \in history'[e] : r.at <= clock
    <3>1. OnePerKey(PutAt(history[cur[s].ep], cur[s].rec))
      BY <2>1, PutOnePerKey
    <3>2. \A r \in PutAt(history[cur[s].ep], cur[s].rec) : r.at <= clock
      BY <2>1 DEF PutAt
    <3>3. CASE UNCHANGED history
      BY <3>3
    <3>4. CASE history' = [history EXCEPT ![cur[s].ep] = PutAt(@, cur[s].rec)]
      BY <3>1, <3>2, <3>4
    <3>. QED  BY <1>7, <3>3, <3>4 DEF WriteState
  <2>3. \A t \in Scan : step'[t] # "next" => cur'[t].rec.at <= clock
    <3>1. \A t \in Scan : step'[t] # "next" => step[t] # "next" /\ cur'[t] = cur[t]
      BY <1>7 DEF WriteState
    <3>. QED  BY <3>1
  <2>. QED  BY <1>7, <2>2, <2>3 DEF WriteState, scanner
<1>8. ASSUME NEW s \in Scan, Dispatch(s)
      PROVE  KeysInv'
  <2>1. OnePerKey(alerts')
    BY <1>8, PutOnePerKey DEF Dispatch
  <2>2. \A t \in Scan : step'[t] # "next" => cur'[t].rec.at <= clock
    <3>1. \A t \in Scan : step'[t] # "next" => step[t] # "next" /\ cur'[t] = cur[t]
      <4>1. CASE UNCHANGED <<step, cur>>
        BY <4>1
      <4>2. CASE /\ step' = [step EXCEPT ![s] = "next"]
                 /\ cur' = [cur EXCEPT ![s] = NoResult]
        BY <4>2
      <4>. QED  BY <1>8, <4>1, <4>2, Zenon DEF Dispatch
    <3>. QED  BY <3>1
  <2>. QED  BY <1>8, <2>1, <2>2 DEF Dispatch, scanner
<1>9. ASSUME NEW s \in Scan, NEW h \in hosts[s], FlushHost(s, h)
      PROVE  KeysInv'
  BY <1>9 DEF FlushHost, store, scanner
<1>10. ASSUME NEW s \in Scan, NEW e \in openList[s], FlushPort(s, e)
      PROVE  KeysInv'
  <2>1. \A t \in Scan : step'[t] # "next" => cur'[t].rec.at <= clock
    <3>1. CASE UNCHANGED <<step, cur, prev>>
      BY <3>1
    <3>2. CASE /\ cur' = [cur EXCEPT ![s] = [ep |-> e, rec |-> Closed(clock)]]
               /\ step' = [step EXCEPT ![s] = "write"]
      <4>1. Closed(clock).at = clock
        BY DEF Closed
      <4>2. cur'[s].rec.at = clock
        BY <3>2, <4>1
      <4>3. \A t \in Scan \ {s} : step'[t] = step[t] /\ cur'[t] = cur[t]
        BY <3>2
      <4>. QED  BY <4>2, <4>3
    <3>. QED  BY <1>10, <3>1, <3>2, Zenon DEF FlushPort
  <2>. QED  BY <1>10, <2>1 DEF FlushPort, store, scanner
<1>11. CASE UNCHANGED vars
  BY <1>11 DEF vars, store, scanner, engine
<1>. QED
  BY <1>1, <1>2, <1>3, <1>4, <1>5, <1>6, <1>7, <1>8, <1>9, <1>10, <1>11 DEF Next

\* Keys and times are as KeysInv says in every reachable state.
LEMMA KeysInvariant == Spec => []KeysInv
<1>1. Init => KeysInv
  BY DEF Init, KeysInv, OnePerKey
<1>. QED  BY <1>1, TypeCorrect, KeysStep, PTL DEF Spec

\* The latest state of an endpoint never goes back in time, whatever order
\* overlapping scans write their records in.
THEOREM NeverRewinds == Spec => LatestNeverRewinds
<1>1. TypeOK /\ [Next]_vars =>
        [\A e \in Endpoint : \A r \in history[e] : \E q \in history'[e] : q.at >= r.at]_vars
  <2>. SUFFICES ASSUME TypeOK, Next,
                       NEW e \in Endpoint, NEW r \in history[e]
                PROVE  \E q \in history'[e] : q.at >= r.at
    OBVIOUS
  <2>1. r.at \in Nat
    BY DEF TypeOK, Record
  <2>2. CASE UNCHANGED history
    BY <2>1, <2>2
  <2>3. ASSUME NEW s \in Scan, WriteState(s)
        PROVE  \E q \in history'[e] : q.at >= r.at
    <3>1. cur[s].ep \in Endpoint /\ cur[s].rec.at \in Nat /\ \A x \in history[e] : x.at \in Nat
      BY <2>3 DEF WriteState, TypeOK, Result, Record
    <3>2. CASE history' = [history EXCEPT ![cur[s].ep] = PutAt(@, cur[s].rec)] /\ cur[s].ep = e
      <4>1. history'[e] = PutAt(history[e], cur[s].rec)
        BY <3>2 DEF TypeOK
      <4>. QED  BY <3>1, <4>1, PutNeverRewinds
    <3>3. CASE history' = [history EXCEPT ![cur[s].ep] = PutAt(@, cur[s].rec)] /\ cur[s].ep # e
      BY <2>1, <3>3 DEF TypeOK
    <3>. QED  BY <2>2, <2>3, <3>2, <3>3 DEF WriteState
  <2>4. UNCHANGED history \/ \E s \in Scan : WriteState(s)
    BY DEF Next, Tick, Start, Cancel, Abandon, ProbeUp, ProbeSilent, DropResult, TakeResult,
           Dispatch, EndCollect, FlushHost, FlushPort, Finish, store
  <2>. QED  BY <2>2, <2>3, <2>4
<1>. QED  BY <1>1, TypeCorrect, PTL DEF Spec, LatestNeverRewinds

-----------------------------------------------------------------------------
(***************************************************************************)
(* No overlap: the alerts tell what the store holds                        *)
(***************************************************************************)

\* With one record per key the last record decides whether the port is open.
LEMMA LatestDecides ==
  ASSUME NEW bucket \in SUBSET Record, OnePerKey(bucket),
         bucket # {} => \E r \in bucket : IsLast(bucket, r)
  PROVE  LatestIsOpen(bucket) <=> /\ ReadLatest(bucket, NoRecord) # NoRecord
                                  /\ ReadLatest(bucket, NoRecord).open
<1>1. CASE bucket = {}
  BY <1>1 DEF LatestIsOpen, ReadLatest, IsLast
<1>2. CASE bucket # {}
  <2>1. PICK last \in bucket : IsLast(bucket, last)
    BY <1>2
  <2>2. IsLast(bucket, ReadLatest(bucket, NoRecord))
    BY <2>1, ReadLatestIsLast
  <2>3. \A r : IsLast(bucket, r) => r = ReadLatest(bucket, NoRecord)
    BY <2>2 DEF IsLast, OnePerKey, Record
  <2>4. ReadLatest(bucket, NoRecord) \in Record
    BY <2>2 DEF IsLast
  <2>. QED  BY <2>2, <2>3, <2>4, NoneAssumption DEF LatestIsOpen
<1>. QED  BY <1>1, <1>2

\* What the scan is after a step that changes neither the store nor the record
\* being written keeps its knowledge.
LEMMA SerialFrame ==
  ASSUME SerialInv, UNCHANGED <<history, listener, step, cur, prev, events>>,
         \A s \in Scan : step[s] # "next" => phase'[s] = phase[s],
         \A s \in Scan : ResultsInv(s)',
         \A s \in Scan : step[s] = "write" => \A e \in Endpoint : probe[s][e] = "up" => probe'[s][e] = "up",
         \A s \in Scan : step[s] = "write" => cur[s].ep \in Endpoint
  PROVE  SerialInv'
<1>1. \A e : IsOpen(e)' = IsOpen(e) /\ InSync(e)' = InSync(e) /\ Latest(e)' = Latest(e)
  BY DEF IsOpen, InSync, Latest
<1>2. Agreement'
  BY <1>1 DEF SerialInv, Agreement
<1>3. ASSUME NEW s \in Scan PROVE WriteInv(s)'
  BY <1>1 DEF SerialInv, WriteInv, IsNewest
<1>4. ASSUME NEW s \in Scan PROVE DispatchInv(s)'
  BY <1>1 DEF SerialInv, DispatchInv
<1>. QED  BY <1>2, <1>3, <1>4 DEF SerialInv

\* The scans of a user do not overlap.
NoOverlap == \A s, t \in Scan : s = t

\* The inductive step for a scan that overlaps no other on a store without errors.
LEMMA SerialStep ==
  ASSUME NoOverlap, ~StoreMayFail, TypeOK, HasLast, KeysInv, SerialInv, [Next]_vars
  PROVE  SerialInv'
<1>. USE DEF TypeOK
<1>a. \A s \in Scan : step[s] # "next" => cur[s].ep \in Endpoint /\ cur[s].rec \in Record
  BY DEF Result
<1>b. \A s \in Scan : \A r \in results[s] : r.ep \in Endpoint /\ r.rec \in Record
  BY DEF Result
<1>1. CASE Tick
  BY <1>1, <1>a, SerialFrame DEF Tick, store, scanner, engine, SerialInv, ResultsInv, IsNewest
<1>2. ASSUME NEW s \in Scan, NEW hs \in SUBSET Host, NEW ps \in SUBSET Port, Start(s, hs, ps)
      PROVE  SerialInv'
  <2>1. step[s] = "next" /\ results[s] = {}
    BY <1>2 DEF Start, SerialInv, ResultsInv
  <2>2. \A t \in Scan : ResultsInv(t)'
    BY <1>2, <2>1 DEF NoOverlap, Start, store, SerialInv, ResultsInv
  <2>. QED  BY <1>2, <1>a, <2>1, <2>2, SerialFrame DEF Start, store, NoOverlap
<1>3. ASSUME NEW s \in Scan, Cancel(s)
      PROVE  SerialInv'
  BY <1>3, <1>a, SerialFrame DEF Cancel, store, scanner, engine, SerialInv, ResultsInv, IsNewest
<1>4. ASSUME NEW s \in Scan, Abandon(s)
      PROVE  SerialInv'
  <2>1. step[s] = "next" /\ results[s] = {}
    <3>1. ASSUME NEW r \in results[s] PROVE FALSE
      <4>1. r.ep \in Endpoint /\ probe[s][r.ep] = "up"
        BY <1>b DEF SerialInv, ResultsInv
      <4>. QED  BY <1>4, <4>1 DEF Abandon
    <3>. QED  BY <1>4, <3>1 DEF Abandon
  <2>2. \A t \in Scan : ResultsInv(t)'
    BY <1>4, <2>1 DEF NoOverlap, Abandon, store, SerialInv, ResultsInv
  <2>. QED  BY <1>4, <1>a, <2>1, <2>2, SerialFrame DEF Abandon, store, NoOverlap
<1>5. ASSUME NEW s \in Scan, NEW e \in Endpoint, NEW face \in [Facet -> Look \cup {Blank}],
             NEW ms \in Latency, ProbeUp(s, e, face, ms)
      PROVE  SerialInv'
  <2>0. PICK new \in Result : /\ results'[s] = results[s] \cup {new}
                             /\ new.ep = e /\ new.rec.open /\ new.rec.at = clock
    <3>. DEFINE answer == [ep |-> e, rec |-> [at |-> clock, open |-> TRUE, face |-> face, ms |-> ms]]
    <3>1. answer \in Result
      BY DEF Result, Record
    <3>2. results'[s] = results[s] \cup {answer}
      BY <1>5 DEF ProbeUp
    <3>. QED  BY <3>1, <3>2
  <2>1. IsNewest(new)
    BY <2>0 DEF IsNewest, KeysInv
  <2>2. results'[s] = results[s] \cup {new} /\ new.ep = e /\ new.rec.open
    BY <2>0
  <2>3. /\ probe'[s][e] = "up" /\ phase[s] = "collect"
        /\ \A f \in Endpoint : probe[s][f] = "up" => f # e /\ probe'[s][f] = "up"
    BY <1>5 DEF ProbeUp
  <2>4. step[s] = "write" => cur[s].ep # e
    BY <1>a, <2>3 DEF SerialInv, WriteInv
  <2>5. \A r \in results[s] : r.ep # e
    BY <1>b, <2>3 DEF SerialInv, ResultsInv
  <2>6. UNCHANGED <<history, listener, step, cur, prev, events, phase>>
    BY <1>5 DEF ProbeUp, store, engine
  <2>7. \A r \in results'[s] :
           /\ r.rec.open /\ IsNewest(r)' /\ probe'[s][r.ep] = "up"
           /\ step'[s] = "write" => cur'[s].ep # r.ep
    <3>1. ASSUME NEW r \in results[s]
          PROVE  /\ r.rec.open /\ IsNewest(r)' /\ probe'[s][r.ep] = "up"
                 /\ step'[s] = "write" => cur'[s].ep # r.ep
      BY <1>b, <2>3, <2>6 DEF SerialInv, ResultsInv, IsNewest
    <3>2. /\ new.rec.open /\ IsNewest(new)' /\ probe'[s][new.ep] = "up"
          /\ step'[s] = "write" => cur'[s].ep # new.ep
      BY <2>1, <2>2, <2>3, <2>4, <2>6 DEF IsNewest
    <3>. QED  BY <2>2, <3>1, <3>2
  <2>8. \A r, q \in results'[s] : r.ep = q.ep => r = q
    BY <2>2, <2>5 DEF SerialInv, ResultsInv
  <2>9. ResultsInv(s)'
    <3>1. phase'[s] = "collect"
      BY <2>3, <2>6
    <3>. QED  BY <2>7, <2>8, <3>1, Zenon DEF ResultsInv
  <2>. QED  BY <1>a, <2>3, <2>6, <2>9, SerialFrame DEF NoOverlap
<1>6. ASSUME NEW s \in Scan, NEW e \in Endpoint, ProbeSilent(s, e)
      PROVE  SerialInv'
  <2>1. \A f \in Endpoint : probe[s][f] = "up" => probe'[s][f] = "up"
    BY <1>6 DEF ProbeSilent
  <2>2. UNCHANGED <<history, listener, step, cur, prev, events, phase, results>>
    BY <1>6 DEF ProbeSilent, store, engine
  <2>3. ResultsInv(s)'
    BY <1>b, <2>1, <2>2 DEF SerialInv, ResultsInv, IsNewest
  <2>. QED  BY <1>a, <2>1, <2>2, <2>3, SerialFrame DEF NoOverlap
<1>7. ASSUME NEW s \in Scan, NEW r \in results[s], DropResult(s, r)
      PROVE  SerialInv'
  <2>1. results'[s] \subseteq results[s] /\ UNCHANGED <<history, listener, step, cur, prev, events, phase, probe>>
    BY <1>7 DEF DropResult, store, engine
  <2>2. ResultsInv(s)'
    BY <2>1 DEF SerialInv, ResultsInv, IsNewest
  <2>. QED  BY <1>a, <2>1, <2>2, SerialFrame DEF NoOverlap
<1>8. ASSUME NEW s \in Scan, NEW r \in results[s], TakeResult(s, r)
      PROVE  SerialInv'
  <2>1. /\ phase[s] = "collect" /\ step[s] = "next" /\ step'[s] = "write"
        /\ cur'[s] = r /\ prev'[s] = Latest(r.ep) /\ results'[s] = results[s] \ {r}
        /\ UNCHANGED <<history, listener, phase, probe>>
    BY <1>8 DEF TakeResult, store
  <2>2. \A e : IsOpen(e)' = IsOpen(e) /\ InSync(e)' = InSync(e) /\ Latest(e)' = Latest(e)
    BY <2>1 DEF IsOpen, InSync, Latest
  <2>3. Agreement'
    BY <2>1, <2>2 DEF NoOverlap, SerialInv, Agreement
  <2>4. ResultsInv(s)'
    BY <2>1 DEF SerialInv, ResultsInv, IsNewest
  <2>5. WriteInv(s)'
    BY <2>1, <2>2 DEF SerialInv, ResultsInv, WriteInv, IsNewest
  <2>6. DispatchInv(s)'
    BY <2>1 DEF DispatchInv
  <2>. QED  BY <2>3, <2>4, <2>5, <2>6 DEF NoOverlap, SerialInv
<1>9. ASSUME NEW s \in Scan, WriteState(s)
      PROVE  SerialInv'
  <2>1. PICK e \in Endpoint, rec \in Record : cur[s].ep = e /\ cur[s].rec = rec
    BY <1>9, <1>a DEF WriteState
  <2>2. step[s] = "write" /\ IsNewest(cur[s]) /\ prev[s] = Latest(e)
    BY <1>9, <2>1 DEF WriteState, SerialInv, WriteInv
  <2>3. /\ history' = [history EXCEPT ![e] = PutAt(history[e], rec)]
        /\ UNCHANGED <<listener, phase, probe, results>>
    BY <1>9, <2>1 DEF WriteState, scanner
  <2>4. IsOpen(e)' <=> rec.open
    <3>1. rec.at \in Nat /\ rec.open \in BOOLEAN /\ \A r \in history[e] : r.at \in Nat /\ r.at <= rec.at
      BY <2>1, <2>2 DEF IsNewest, Record
    <3>2. history'[e] = PutAt(history[e], rec)
      BY <2>3
    <3>. QED  BY <3>1, <3>2, PutNewestDecides DEF IsOpen
  <2>5. \A f \in Endpoint \ {e} : history'[f] = history[f]
    BY <2>3
  <2>6. \A f \in Endpoint : InSync(f)
    BY <2>2 DEF NoOverlap, SerialInv, Agreement
  <2>7. \A f \in Endpoint \ {e} : InSync(f)'
    BY <2>3, <2>5, <2>6 DEF InSync, IsOpen
  <2>8. IsOpen(e) <=> prev[s] # NoRecord /\ prev[s].open
    <3>1. history[e] \in SUBSET Record /\ OnePerKey(history[e])
      BY DEF KeysInv
    <3>2. history[e] # {} => \E r \in history[e] : IsLast(history[e], r)
      BY DEF HasLast
    <3>. QED  BY <2>2, <3>1, <3>2, LatestDecides, Zenon DEF IsOpen, Latest
  <2>9. step'[s] # "write" /\ (step'[s] = "next" <=> events'[s] = {}) /\ (events'[s] # {} => cur'[s] = cur[s])
    BY <1>9 DEF WriteState
  <2>10. ResultsInv(s)'
    <3>1. \A r \in results[s] : r.ep \in Endpoint \ {e}
      BY <1>b, <2>1, <2>2 DEF SerialInv, ResultsInv
    <3>2. \A r \in results[s] : IsNewest(r)'
      BY <2>5, <3>1 DEF SerialInv, ResultsInv, IsNewest
    <3>. QED  BY <2>3, <2>9, <3>2 DEF SerialInv, ResultsInv
  <2>11. WriteInv(s)'
    BY <2>9 DEF WriteInv
  <2>12. \/ events'[s] = {"new-port"} /\ IsOpen(e)' /\ ~InSync(e)'
         \/ events'[s] = {"port-closed"} /\ ~IsOpen(e)' /\ ~InSync(e)'
         \/ events'[s] \subseteq Drift /\ IsOpen(e)' /\ InSync(e)'
    <3>1. InSync(e)' <=> (rec.open <=> listener[e] = "new-port")
      BY <2>3, <2>4 DEF InSync
    <3>2. IsOpen(e) <=> listener[e] = "new-port"
      BY <2>6 DEF InSync
    <3>3. CASE phase[s] = "collect"
      <4>1. rec.open /\ events'[s] = Diff(prev[s], rec)
        BY <1>9, <2>1, <2>2, <3>3 DEF WriteState, SerialInv, WriteInv
      <4>2. CASE IsOpen(e)
        <5>1. Diff(prev[s], rec) \subseteq Drift
          BY <2>8, <4>1, <4>2, FacetAssumption DEF Diff, Drift
        <5>. QED  BY <2>4, <3>1, <3>2, <4>1, <4>2, <5>1
      <4>3. CASE ~IsOpen(e)
        <5>1. Diff(prev[s], rec) = {"new-port"}
          BY <2>8, <4>1, <4>3 DEF Diff
        <5>. QED  BY <2>4, <3>1, <3>2, <4>1, <4>3, <5>1
      <4>. QED  BY <4>2, <4>3
    <3>4. CASE phase[s] # "collect"
      <4>1. phase[s] = "flush"
        BY <2>2, <3>4
      <4>2. ~rec.open /\ IsOpen(e) /\ events'[s] = {"port-closed"}
        BY <1>9, <2>1, <2>2, <4>1 DEF WriteState, SerialInv, WriteInv
      <4>. QED  BY <2>4, <3>1, <3>2, <4>2
    <3>. QED  BY <3>3, <3>4
  <2>13. DispatchInv(s)'
    BY <2>1, <2>9, <2>12 DEF DispatchInv
  <2>14. InSync(e)' \/ (/\ step'[s] = "dispatch" /\ cur'[s].ep = e
                        /\ events'[s] \in {{"new-port"}, {"port-closed"}})
    BY <1>9, <2>1, <2>9, <2>12 DEF WriteState
  <2>15. Agreement'
    BY <2>7, <2>14 DEF Agreement
  <2>. QED  BY <2>10, <2>11, <2>13, <2>15 DEF NoOverlap, SerialInv
<1>10. ASSUME NEW s \in Scan, Dispatch(s)
      PROVE  SerialInv'
  <2>1. PICK e \in Endpoint : cur[s].ep = e
    BY <1>10, <1>a DEF Dispatch
  <2>2. step[s] = "dispatch" /\ UNCHANGED <<history, phase, probe, results, prev>>
    BY <1>10 DEF Dispatch, scanner
  <2>3. PICK type \in EventType :
          /\ type \in events[s]
          /\ listener' = IF type \in Drift THEN listener ELSE [listener EXCEPT ![e] = type]
          /\ events'[s] = events[s] \ {type}
    BY <1>10, <2>1 DEF Dispatch, IsNextEvent
  <2>4. /\ step'[s] # "write" /\ (step'[s] = "next" <=> events'[s] = {})
        /\ events'[s] # {} => cur'[s] = cur[s]
    BY <1>10, <2>2 DEF Dispatch
  <2>5. \A f \in Endpoint : IsOpen(f)' = IsOpen(f)
    BY <2>2 DEF IsOpen
  <2>6. \A f \in Endpoint \ {e} : InSync(f)'
    <3>1. \A f \in Endpoint \ {e} : InSync(f) /\ listener'[f] = listener[f]
      BY <2>1, <2>3 DEF NoOverlap, SerialInv, Agreement
    <3>. QED  BY <2>5, <3>1 DEF InSync
  <2>7. InSync(e)' /\ (events'[s] = {} \/ (events'[s] \subseteq Drift /\ IsOpen(e)'))
    <3>1. CASE events[s] = {"new-port"} /\ IsOpen(e) /\ ~InSync(e)
      <4>1. type = "new-port" /\ events'[s] = {} /\ listener'[e] = "new-port"
        BY <2>3, <3>1 DEF Drift
      <4>. QED  BY <2>5, <3>1, <4>1 DEF InSync
    <3>2. CASE events[s] = {"port-closed"} /\ ~IsOpen(e) /\ ~InSync(e)
      <4>1. type = "port-closed" /\ events'[s] = {} /\ listener'[e] = "port-closed"
        BY <2>3, <3>2 DEF Drift
      <4>. QED  BY <2>5, <3>2, <4>1 DEF InSync
    <3>3. CASE events[s] \subseteq Drift /\ IsOpen(e) /\ InSync(e)
      <4>1. events'[s] \subseteq Drift /\ listener' = listener
        BY <2>3, <3>3
      <4>. QED  BY <2>5, <3>3, <4>1 DEF InSync
    <3>. QED  BY <2>1, <2>2, <3>1, <3>2, <3>3 DEF SerialInv, DispatchInv
  <2>8. ResultsInv(s)'
    BY <2>2, <2>4 DEF SerialInv, ResultsInv, IsNewest
  <2>9. WriteInv(s)'
    BY <2>4 DEF WriteInv
  <2>10. DispatchInv(s)'
    BY <2>1, <2>4, <2>7 DEF DispatchInv
  <2>11. Agreement'
    BY <2>6, <2>7 DEF Agreement
  <2>. QED  BY <2>8, <2>9, <2>10, <2>11 DEF NoOverlap, SerialInv
<1>11. ASSUME NEW s \in Scan, EndCollect(s)
      PROVE  SerialInv'
  BY <1>11, <1>a, SerialFrame DEF EndCollect, store, scanner, SerialInv, ResultsInv, IsNewest
<1>12. ASSUME NEW s \in Scan, NEW h \in hosts[s], FlushHost(s, h)
      PROVE  SerialInv'
  BY <1>12, <1>a, SerialFrame DEF FlushHost, store, scanner, SerialInv, ResultsInv, IsNewest
<1>13. ASSUME NEW s \in Scan, NEW e \in openList[s], FlushPort(s, e)
      PROVE  SerialInv'
  <2>1. /\ phase[s] = "flush" /\ step[s] = "next" /\ e \in Endpoint /\ results[s] = {}
        /\ UNCHANGED <<history, listener, phase, probe, results, events>>
    BY <1>13 DEF FlushPort, store, scanner, SerialInv, ResultsInv
  <2>2. ResultsInv(s)'
    BY <2>1 DEF ResultsInv
  <2>3. CASE UNCHANGED <<step, cur, prev>>
    BY <1>a, <2>1, <2>2, <2>3, SerialFrame DEF NoOverlap
  <2>4. CASE /\ cur' = [cur EXCEPT ![s] = [ep |-> e, rec |-> Closed(clock)]]
             /\ prev' = [prev EXCEPT ![s] = Latest(e)]
             /\ step' = [step EXCEPT ![s] = "write"]
             /\ IsOpen(e)
    <3>0. Closed(clock).at = clock /\ ~Closed(clock).open
      BY DEF Closed
    <3>1. PICK rec : rec = Closed(clock) /\ rec.at = clock /\ ~rec.open
      BY <3>0
    <3>2. cur'[s] = [ep |-> e, rec |-> rec] /\ prev'[s] = Latest(e) /\ step'[s] = "write"
      BY <2>4, <3>1
    <3>3. cur'[s].ep = e /\ cur'[s].rec = rec
      BY <3>2
    <3>4. \A f : IsOpen(f)' = IsOpen(f) /\ InSync(f)' = InSync(f) /\ Latest(f)' = Latest(f)
      BY <2>1 DEF IsOpen, InSync, Latest
    <3>5. Agreement'
      BY <2>1, <3>4 DEF NoOverlap, SerialInv, Agreement
    <3>6. IsNewest(cur[s])'
      BY <2>1, <3>1, <3>3 DEF IsNewest, KeysInv
    <3>7. WriteInv(s)'
      BY <2>1, <2>4, <3>1, <3>2, <3>3, <3>4, <3>6 DEF WriteInv
    <3>8. DispatchInv(s)'
      BY <3>2 DEF DispatchInv
    <3>. QED  BY <2>2, <3>5, <3>7, <3>8 DEF NoOverlap, SerialInv
  <2>. QED  BY <1>13, <2>3, <2>4 DEF FlushPort
<1>14. ASSUME NEW s \in Scan, Finish(s)
      PROVE  SerialInv'
  <2>1. step[s] = "next" /\ results[s] = {}
    BY <1>14 DEF Finish, SerialInv, ResultsInv
  <2>2. \A t \in Scan : ResultsInv(t)'
    BY <1>14, <2>1 DEF NoOverlap, Finish, store, SerialInv, ResultsInv
  <2>. QED  BY <1>14, <1>a, <2>1, <2>2, SerialFrame DEF Finish, store, NoOverlap
<1>15. CASE UNCHANGED vars
  BY <1>15, <1>a, SerialFrame DEF vars, store, scanner, engine, SerialInv, ResultsInv, IsNewest
<1>. QED
  BY <1>1, <1>2, <1>3, <1>4, <1>5, <1>6, <1>7, <1>8, <1>9, <1>10, <1>11, <1>12, <1>13,
     <1>14, <1>15 DEF Next

\* A scan that overlaps no other knows the latest state between its transactions.
THEOREM SerialCorrect ==
  ASSUME NoOverlap, ~StoreMayFail
  PROVE  Spec => []SerialInv
<1>1. Init => SerialInv
  BY DEF Init, SerialInv, Agreement, InSync, IsOpen, LatestIsOpen, IsLast, ResultsInv,
         WriteInv, DispatchInv
<1>2. TypeOK /\ HasLast /\ KeysInv /\ SerialInv /\ [Next]_vars => SerialInv'
  BY SerialStep
<1>. QED  BY <1>1, <1>2, TypeCorrect, KeysInvariant, PTL DEF Spec

\* Every step of scans that do not overlap is a step of PortLifecycle, or one
\* that neither the dashboard nor the listener of the alerts can tell.
LEMMA LifecycleStep ==
  ASSUME NoOverlap, ~StoreMayFail, TypeOK, SerialInv, SerialInv', [Next]_vars
  PROVE  [PL!Next]_(PL!lifecycle)
<1>. DEFINE stored == [e \in Endpoint |-> IsOpen(e)]
            believed == [e \in Endpoint |-> listener[e] = "new-port"]
<1>1. CASE UNCHANGED <<history, listener>>
  <2>1. \A e : IsOpen(e)' = IsOpen(e)
    BY <1>1 DEF IsOpen
  <2>2. UNCHANGED stored /\ UNCHANGED believed
    BY <1>1, <2>1, Zenon
  <2>. QED  BY <2>2 DEF PL!lifecycle
<1>2. ASSUME NEW s \in Scan, WriteState(s)
      PROVE  [PL!Next]_(PL!lifecycle)
  <2>1. PICK e \in Endpoint : cur[s].ep = e
    BY <1>2 DEF WriteState, TypeOK, Result
  <2>2. InSync(e)
    BY <1>2 DEF WriteState, NoOverlap, SerialInv, Agreement
  <2>3. UNCHANGED listener /\ \A f \in Endpoint \ {e} : history'[f] = history[f]
    BY <1>2, <2>1 DEF WriteState, TypeOK
  <2>4. UNCHANGED believed
    BY <2>3
  <2>5. \A f \in Endpoint \ {e} : IsOpen(f)' = IsOpen(f)
    BY <2>3 DEF IsOpen
  <2>6. IsOpen(e)' \in BOOLEAN /\ IsOpen(e) \in BOOLEAN
    BY DEF IsOpen, LatestIsOpen
  <2>7. CASE IsOpen(e)' = IsOpen(e)
    <3>1. UNCHANGED stored
      BY <2>5, <2>7
    <3>. QED  BY <2>4, <3>1 DEF PL!lifecycle
  <2>8. CASE IsOpen(e)' # IsOpen(e)
    <3>1. stored[e] = believed[e]
      BY <2>2, <2>6 DEF InSync
    <3>2. stored' = [stored EXCEPT ![e] = ~stored[e]]
      <4>1. IsOpen(e)' = ~IsOpen(e)
        BY <2>6, <2>8
      <4>. QED  BY <2>5, <4>1, Zenon
    <3>3. PL!Record(e)
      BY <2>4, <3>1, <3>2 DEF PL!Record
    <3>. QED  BY <3>3 DEF PL!Next
  <2>. QED  BY <2>7, <2>8
<1>3. ASSUME NEW s \in Scan, Dispatch(s)
      PROVE  [PL!Next]_(PL!lifecycle)
  <2>1. PICK e \in Endpoint : cur[s].ep = e
    BY <1>3 DEF Dispatch, TypeOK, Result
  <2>2. PICK type \in EventType :
          /\ type \in events[s]
          /\ listener' = IF type \in Drift THEN listener ELSE [listener EXCEPT ![e] = type]
    BY <1>3, <2>1 DEF Dispatch, IsNextEvent
  <2>3. UNCHANGED history
    BY <1>3 DEF Dispatch
  <2>4. UNCHANGED stored
    BY <2>3 DEF IsOpen
  <2>5. CASE type \in Drift
    BY <1>1, <2>2, <2>3, <2>5
  <2>6. CASE type \notin Drift
    <3>1. /\ ~InSync(e) /\ type = IF IsOpen(e) THEN "new-port" ELSE "port-closed"
      BY <1>3, <2>1, <2>2, <2>6 DEF Dispatch, SerialInv, DispatchInv
    <3>2. stored[e] # believed[e]
      BY <3>1 DEF InSync
    <3>3. believed' = [believed EXCEPT ![e] = stored[e]]
      <4>1. listener' = [listener EXCEPT ![e] = type]
        BY <2>2, <2>6
      <4>2. (listener'[e] = "new-port") = IsOpen(e)
        BY <3>1, <4>1 DEF TypeOK, IsOpen, LatestIsOpen
      <4>3. \A f \in Endpoint \ {e} : listener'[f] = listener[f]
        BY <4>1 DEF TypeOK
      <4>. QED  BY <4>2, <4>3
    <3>4. PL!Announce(e)
      BY <2>4, <3>2, <3>3 DEF PL!Announce
    <3>. QED  BY <3>4 DEF PL!Next
  <2>. QED  BY <2>5, <2>6
<1>4. UNCHANGED <<history, listener>> \/ \E s \in Scan : WriteState(s) \/ Dispatch(s)
  BY DEF Next, vars, Tick, Start, Cancel, Abandon, ProbeUp, ProbeSilent, DropResult, TakeResult,
         EndCollect, FlushHost, FlushPort, Finish, store
<1>. QED  BY <1>1, <1>2, <1>3, <1>4

\* Scans that do not overlap, on a store whose transactions succeed, implement
\* PortLifecycle: every stored change of an endpoint is announced exactly once,
\* in order, and nothing else is.
THEOREM LifecycleCorrect ==
  ASSUME NoOverlap, ~StoreMayFail
  PROVE  Spec => Lifecycle
<1>1. Init => PL!Init
  BY DEF Init, PL!Init, IsOpen, LatestIsOpen, IsLast
<1>2. TypeOK /\ SerialInv /\ SerialInv' /\ [Next]_vars => [PL!Next]_(PL!lifecycle)
  BY LifecycleStep
<1>. QED  BY <1>1, <1>2, TypeCorrect, SerialCorrect, PTL DEF Spec, Lifecycle, PL!Spec

\* Drift is only reported of endpoints the listener was told are open.
THEOREM DriftCorrect ==
  ASSUME NoOverlap, ~StoreMayFail
  PROVE  Spec => DriftOnlyAfterNewPort
<1>1. SerialInv /\ [Next]_vars =>
        [\A s \in Scan, e \in Endpoint, type \in Drift :
           Sends(s, e, type) => listener[e] = "new-port"]_vars
  BY DEF SerialInv, DispatchInv, InSync, Sends, IsNextEvent, Drift
<1>. QED  BY <1>1, SerialCorrect, PTL DEF Spec, DriftOnlyAfterNewPort

-----------------------------------------------------------------------------
(***************************************************************************)
(* Overlapping scans: what answered a scan is not closed by it             *)
(***************************************************************************)

\* Every answer is on its way or processed, or the scan is cancelled; Flush works
\* on what was not seen.
AnswerInv(s) ==
  /\ phase[s] # "collect" => results[s] = {}
  /\ \A r \in results[s] : probe[s][r.ep] = "up"
  /\ \A e \in Endpoint : probe[s][e] = "up" =>
       cancelled[s] \/ e \in seen[s] \/ \E r \in results[s] : r.ep = e
  /\ phase[s] = "flush" /\ step[s] # "next" => cur[s].ep \notin seen[s]

AnswersInv == \A s \in Scan : AnswerInv(s)

\* The inductive step, for any number of overlapping scans.
LEMMA AnswerStep ==
  ASSUME TypeOK, AnswersInv, [Next]_vars
  PROVE  AnswersInv'
<1>. USE DEF TypeOK, AnswersInv, AnswerInv, Result
<1>1. CASE Tick \/ UNCHANGED vars
  BY <1>1 DEF Tick, vars, store, scanner, engine
<1>2. ASSUME NEW s \in Scan, NEW hs \in SUBSET Host, NEW ps \in SUBSET Port, Start(s, hs, ps)
      PROVE  AnswersInv'
  BY <1>2 DEF Start
<1>3. ASSUME NEW s \in Scan, Cancel(s)
      PROVE  AnswersInv'
  BY <1>3 DEF Cancel, scanner, engine
<1>4. ASSUME NEW s \in Scan, Abandon(s) \/ Finish(s)
      PROVE  AnswersInv'
  <2>1. CASE Abandon(s)
    <3>1. \A e \in Endpoint : probe[s][e] # "up"
      BY <2>1 DEF Abandon
    <3>2. results[s] = {}
      BY <3>1
    <3>. QED  BY <2>1, <3>2 DEF Abandon
  <2>2. CASE Finish(s)
    BY <2>2 DEF Finish
  <2>. QED  BY <1>4, <2>1, <2>2
<1>5. ASSUME NEW s \in Scan, NEW e \in Endpoint, NEW face \in [Facet -> Look \cup {Blank}],
             NEW ms \in Latency, ProbeUp(s, e, face, ms)
      PROVE  AnswersInv'
  <2>1. PICK r : r.ep = e /\ results' = [results EXCEPT ![s] = @ \cup {r}]
    BY <1>5 DEF ProbeUp
  <2>. QED  BY <1>5, <2>1 DEF ProbeUp, engine
<1>6. ASSUME NEW s \in Scan, NEW e \in Endpoint, ProbeSilent(s, e)
      PROVE  AnswersInv'
  BY <1>6 DEF ProbeSilent, engine
<1>7. ASSUME NEW s \in Scan, NEW r \in results[s], DropResult(s, r)
      PROVE  AnswersInv'
  BY <1>7 DEF DropResult, engine
<1>8. ASSUME NEW s \in Scan, NEW r \in results[s], TakeResult(s, r)
      PROVE  AnswersInv'
  BY <1>8 DEF TakeResult
<1>9. ASSUME NEW s \in Scan, WriteState(s) \/ Dispatch(s)
      PROVE  AnswersInv'
  <2>1. /\ UNCHANGED <<phase, probe, results, seen, cancelled>>
        /\ \A t \in Scan : step'[t] # "next" => step[t] # "next" /\ cur'[t] = cur[t]
    BY <1>9 DEF WriteState, Dispatch, scanner
  <2>. QED  BY <2>1
<1>10. ASSUME NEW s \in Scan, EndCollect(s)
       PROVE  AnswersInv'
  BY <1>10 DEF EndCollect, scanner
<1>11. ASSUME NEW s \in Scan, NEW h \in hosts[s], FlushHost(s, h)
       PROVE  AnswersInv'
  BY <1>11 DEF FlushHost, scanner
<1>12. ASSUME NEW s \in Scan, NEW e \in openList[s], FlushPort(s, e)
       PROVE  AnswersInv'
  <2>1. UNCHANGED <<phase, probe, results, seen, cancelled>>
    BY <1>12 DEF FlushPort, scanner
  <2>2. \A t \in Scan : step'[t] # "next" =>
          \/ step[t] # "next" /\ cur'[t] = cur[t]
          \/ t = s /\ cur'[t].ep \notin seen[t]
    BY <1>12 DEF FlushPort
  <2>. QED  BY <2>1, <2>2
<1>. QED  BY <1>1, <1>2, <1>3, <1>4, <1>5, <1>6, <1>7, <1>8, <1>9, <1>10, <1>11, <1>12 DEF Next

\* A scan that was not cancelled never closes an endpoint that answered it, for
\* any number of overlapping scans and whichever transactions fail.
THEOREM AnswersCorrect == Spec => []AnsweringIsNotClosed
<1>1. Init => AnswersInv
  BY DEF Init, AnswersInv, AnswerInv
<1>2. TypeOK /\ AnswersInv => AnsweringIsNotClosed
  BY DEF TypeOK, AnswersInv, AnswerInv, AnsweringIsNotClosed, Result
<1>. QED  BY <1>1, <1>2, TypeCorrect, AnswerStep, PTL DEF Spec

-----------------------------------------------------------------------------
(***************************************************************************)
(* A scan that overlaps no other leaves the store as it found the network  *)
(***************************************************************************)

\* What a scan has seen answered, and is open in the store as soon as it is written;
\* an endpoint of its addresses that is open and unseen is still to be closed.
ReflectInv(s) ==
  /\ \A e \in seen[s] :
       /\ probe[s][e] = "up"
       /\ IsOpen(e) \/ (step[s] = "write" /\ cur[s].ep = e)
  /\ phase[s] = "collect" =>
       \A target \in Endpoint : probe[s][target] # "out" => target[1] \in hosts[s]
  /\ phase[s] = "flush" =>
       \A e, target \in Endpoint :
         probe[s][target] # "out" /\ e[1] = target[1] /\ IsOpen(e) /\ e \notin seen[s] =>
           \/ e[1] \in hosts[s] \/ e \in openList[s]
           \/ step[s] = "write" /\ cur[s].ep = e
ReflectsInv == \A s \in Scan : ReflectInv(s)

\* The record being written decides whether its endpoint is open; no other changes.
LEMMA WriteDecides ==
  ASSUME ~StoreMayFail, TypeOK, SerialInv, NEW s \in Scan, WriteState(s)
  PROVE  /\ step[s] = "write" /\ cur[s].ep \in Endpoint
         /\ \A e \in Endpoint :
              IsOpen(e)' <=> IF e = cur[s].ep THEN cur[s].rec.open ELSE IsOpen(e)
<1>1. PICK e \in Endpoint, rec \in Record : cur[s].ep = e /\ cur[s].rec = rec
  BY DEF WriteState, TypeOK, Result
<1>2. step[s] = "write" /\ IsNewest(cur[s])
  BY DEF WriteState, SerialInv, WriteInv
<1>3. history' = [history EXCEPT ![e] = PutAt(history[e], rec)]
  BY <1>1 DEF WriteState
<1>4. history \in [Endpoint -> SUBSET Record]
  BY DEF TypeOK
<1>5. rec.at \in Nat /\ rec.open \in BOOLEAN /\ \A r \in history[e] : r.at \in Nat /\ r.at <= rec.at
  BY <1>1, <1>2, <1>4 DEF IsNewest, Record
<1>6. history'[e] = PutAt(history[e], rec)
  BY <1>3, <1>4
<1>7. IsOpen(e)' <=> rec.open
  BY <1>5, <1>6, PutNewestDecides DEF IsOpen
<1>8. \A f \in Endpoint \ {e} : IsOpen(f)' <=> IsOpen(f)
  BY <1>3, <1>4 DEF IsOpen
<1>. QED  BY <1>1, <1>2, <1>7, <1>8

\* A step that leaves the store alone, and what the scans know of it.
LEMMA ReflectFrame ==
  ASSUME ReflectsInv,
         TypeOK, UNCHANGED <<history, phase, probe, seen, hosts, openList>>,
         \A s \in Scan : step[s] = "write" => step'[s] = "write" /\ cur'[s] = cur[s]
  PROVE  ReflectsInv'
<1>1. \A e \in Endpoint : IsOpen(e)' <=> IsOpen(e)
  BY DEF IsOpen
<1>2. ASSUME NEW s \in Scan, NEW e \in Endpoint, step[s] = "write" /\ cur[s].ep = e
      PROVE  step'[s] = "write" /\ cur'[s].ep = e
  BY <1>2
<1>3. ASSUME NEW s \in Scan PROVE ReflectInv(s)'
  <2>1. ReflectInv(s) /\ seen[s] \subseteq Endpoint
    BY DEF ReflectsInv, TypeOK
  <2>. QED  BY <1>1, <1>2, <2>1 DEF ReflectInv
<1>. QED  BY <1>3 DEF ReflectsInv

\* The inductive step.
LEMMA ReflectStep ==
  ASSUME NoOverlap, ~StoreMayFail, TypeOK, SerialInv, AnswersInv, ReflectsInv, [Next]_vars
  PROVE  ReflectsInv'
<1>1. CASE Tick \/ UNCHANGED vars
  BY <1>1, ReflectFrame DEF Tick, vars, store, scanner, engine
<1>2. ASSUME NEW s \in Scan, NEW hs \in SUBSET Host, NEW ps \in SUBSET Port, Start(s, hs, ps)
      PROVE  ReflectsInv'
  <2>1. /\ phase'[s] = "collect" /\ seen'[s] = {} /\ hosts'[s] = hs
        /\ probe'[s] = [e \in Endpoint |-> IF e \in hs \X ps THEN "todo" ELSE "out"]
    BY <1>2 DEF Start, TypeOK
  <2>2. \A target \in Endpoint : probe'[s][target] # "out" => target[1] \in hs
    BY <2>1
  <2>. QED  BY <2>1, <2>2 DEF NoOverlap, ReflectsInv, ReflectInv
<1>3. ASSUME NEW s \in Scan, Cancel(s)
      PROVE  ReflectsInv'
  BY <1>3, ReflectFrame DEF Cancel, store, scanner, engine
<1>4. ASSUME NEW s \in Scan, Abandon(s) \/ Finish(s)
      PROVE  ReflectsInv'
  <2>1. phase'[s] = "idle" /\ seen'[s] = {}
    <3>1. CASE Abandon(s)
      <4>1. \A e \in Endpoint : probe[s][e] # "up"
        BY <3>1 DEF Abandon
      <4>2. seen[s] \subseteq Endpoint /\ \A e \in seen[s] : probe[s][e] = "up"
        BY DEF ReflectsInv, ReflectInv, TypeOK
      <4>3. seen[s] = {}
        BY <4>1, <4>2
      <4>. QED  BY <3>1, <4>3 DEF Abandon, TypeOK
    <3>2. CASE Finish(s)
      BY <3>2 DEF Finish, TypeOK
    <3>. QED  BY <1>4, <3>1, <3>2
  <2>. QED  BY <2>1 DEF NoOverlap, ReflectsInv, ReflectInv
<1>5. ASSUME NEW s \in Scan, NEW e \in Endpoint,
             \/ \E face \in [Facet -> Look \cup {Blank}], ms \in Latency : ProbeUp(s, e, face, ms)
             \/ ProbeSilent(s, e)
      PROVE  ReflectsInv'
  <2>1. /\ phase[s] = "collect" /\ probe[s][e] = "todo"
        /\ UNCHANGED <<history, phase, step, cur, seen, hosts>>
    BY <1>5 DEF ProbeUp, ProbeSilent, store, engine
  <2>2. \A f \in Endpoint : f # e => probe'[s][f] = probe[s][f]
    BY <1>5 DEF ProbeUp, ProbeSilent, TypeOK
  <2>3. \A f \in seen[s] : probe'[s][f] = "up"
    BY <2>1, <2>2 DEF ReflectsInv, ReflectInv, TypeOK
  <2>4. \A f \in Endpoint : probe'[s][f] # "out" => f[1] \in hosts[s]
    BY <2>1, <2>2 DEF ReflectsInv, ReflectInv
  <2>. QED  BY <2>1, <2>3, <2>4 DEF NoOverlap, ReflectsInv, ReflectInv, IsOpen
<1>6. ASSUME NEW s \in Scan, NEW r \in results[s], DropResult(s, r)
      PROVE  ReflectsInv'
  BY <1>6, ReflectFrame DEF DropResult, store, engine
<1>7. ASSUME NEW s \in Scan, NEW r \in results[s], TakeResult(s, r)
      PROVE  ReflectsInv'
  <2>1. /\ phase[s] = "collect" /\ step[s] = "next" /\ step'[s] = "write" /\ cur'[s] = r
        /\ seen'[s] = seen[s] \cup {r.ep}
        /\ UNCHANGED <<history, phase, probe, hosts>>
    BY <1>7 DEF TakeResult, store, TypeOK
  <2>2. probe[s][r.ep] = "up"
    BY DEF SerialInv, ResultsInv
  <2>3. \A e : IsOpen(e)' <=> IsOpen(e)
    BY <2>1 DEF IsOpen
  <2>4. \A e \in seen'[s] : probe[s][e] = "up" /\ (IsOpen(e) \/ e = cur'[s].ep)
    BY <2>1, <2>2 DEF ReflectsInv, ReflectInv
  <2>5. ReflectInv(s)
    BY DEF ReflectsInv
  <2>8. ReflectInv(s)'
    BY <2>1, <2>3, <2>4, <2>5 DEF ReflectInv, TypeOK
  <2>. QED  BY <2>8 DEF NoOverlap, ReflectsInv
<1>8. ASSUME NEW s \in Scan, WriteState(s)
      PROVE  ReflectsInv'
  <2>1. UNCHANGED <<phase, probe, seen, hosts, openList>>
    BY <1>8 DEF WriteState, scanner
  <2>2. /\ step[s] = "write" /\ cur[s].ep \in Endpoint
        /\ \A e \in Endpoint :
             IsOpen(e)' <=> IF e = cur[s].ep THEN cur[s].rec.open ELSE IsOpen(e)
    BY <1>8, WriteDecides
  <2>3. IF phase[s] = "collect" THEN cur[s].rec.open ELSE ~cur[s].rec.open /\ IsOpen(cur[s].ep)
    BY <2>2 DEF SerialInv, WriteInv
  <2>4. phase[s] \in {"collect", "flush"}
    BY <2>2 DEF TypeOK
  <2>5. CASE phase[s] = "collect"
    <3>1. \A e \in seen[s] : probe[s][e] = "up" /\ IsOpen(e)'
      BY <2>2, <2>3, <2>5 DEF ReflectsInv, ReflectInv, TypeOK
    <3>2. ReflectInv(s)
      BY DEF ReflectsInv
    <3>8. ReflectInv(s)'
      BY <2>1, <2>5, <3>1, <3>2 DEF ReflectInv
    <3>. QED  BY <3>8 DEF NoOverlap, ReflectsInv
  <2>6. CASE phase[s] = "flush"
    <3>1. cur[s].ep \notin seen[s]
      BY <2>2, <2>6 DEF AnswersInv, AnswerInv
    <3>2. ASSUME NEW e \in seen[s] PROVE probe[s][e] = "up" /\ IsOpen(e)'
      <4>1. e \in Endpoint /\ e # cur[s].ep
        BY <3>1 DEF TypeOK
      <4>2. probe[s][e] = "up" /\ IsOpen(e)
        BY <4>1 DEF ReflectsInv, ReflectInv
      <4>. QED  BY <2>2, <4>1, <4>2
    <3>3. \A e, target \in Endpoint :
            probe[s][target] # "out" /\ e[1] = target[1] /\ IsOpen(e)' /\ e \notin seen[s] =>
              e[1] \in hosts[s] \/ e \in openList[s]
      BY <2>2, <2>3, <2>6 DEF ReflectsInv, ReflectInv
    <3>8. ReflectInv(s)'
      BY <2>1, <2>6, <3>2, <3>3 DEF ReflectInv
    <3>. QED  BY <3>8 DEF NoOverlap, ReflectsInv
  <2>. QED  BY <2>4, <2>5, <2>6
<1>9. ASSUME NEW s \in Scan, Dispatch(s)
      PROVE  ReflectsInv'
  <2>1. UNCHANGED <<history, phase, probe, seen, hosts, openList>> /\ step[s] = "dispatch"
    BY <1>9 DEF Dispatch, scanner
  <2>. QED  BY <2>1, ReflectFrame DEF NoOverlap
<1>10. ASSUME NEW s \in Scan, EndCollect(s)
       PROVE  ReflectsInv'
  <2>1. /\ phase[s] = "collect" /\ phase'[s] = "flush" /\ step[s] = "next"
        /\ UNCHANGED <<history, probe, seen, hosts, step, cur>>
    BY <1>10 DEF EndCollect, store, scanner, TypeOK
  <2>. QED  BY <2>1 DEF NoOverlap, ReflectsInv, ReflectInv, IsOpen
<1>11. ASSUME NEW s \in Scan, NEW h \in hosts[s], FlushHost(s, h)
       PROVE  ReflectsInv'
  <2>1. /\ phase[s] = "flush" /\ openList[s] = {} /\ step[s] = "next"
        /\ hosts'[s] = hosts[s] \ {h} /\ openList'[s] = {e \in {h} \X Port : IsOpen(e)}
        /\ UNCHANGED <<history, phase, probe, seen, step, cur>>
    BY <1>11 DEF FlushHost, store, scanner, TypeOK
  <2>2. \A e \in Endpoint : e[1] = h => e \in {h} \X Port
    BY DEF Endpoint
  <2>. QED  BY <2>1, <2>2 DEF NoOverlap, ReflectsInv, ReflectInv, IsOpen
<1>12. ASSUME NEW s \in Scan, NEW e \in openList[s], FlushPort(s, e)
       PROVE  ReflectsInv'
  <2>1. /\ phase[s] = "flush" /\ step[s] = "next" /\ openList'[s] = openList[s] \ {e}
        /\ UNCHANGED <<history, phase, probe, seen, hosts>>
    BY <1>12 DEF FlushPort, store, scanner, TypeOK
  <2>2. \/ e \in seen[s] \/ ~IsOpen(e)
        \/ step'[s] = "write" /\ cur'[s].ep = e
    BY <1>12 DEF FlushPort, TypeOK
  <2>3. \A f \in Endpoint : IsOpen(f)' <=> IsOpen(f)
    BY <2>1 DEF IsOpen
  <2>4. \A f \in seen[s] : probe[s][f] = "up" /\ IsOpen(f)
    BY <2>1 DEF ReflectsInv, ReflectInv
  <2>5. \A f, target \in Endpoint :
          probe[s][target] # "out" /\ f[1] = target[1] /\ IsOpen(f) /\ f \notin seen[s] =>
            \/ f[1] \in hosts[s] \/ f \in openList'[s]
            \/ step'[s] = "write" /\ cur'[s].ep = f
    BY <2>1, <2>2 DEF ReflectsInv, ReflectInv
  <2>8. ReflectInv(s)'
    BY <2>1, <2>3, <2>4, <2>5 DEF ReflectInv, TypeOK
  <2>. QED  BY <2>8 DEF NoOverlap, ReflectsInv
<1>. QED  BY <1>1, <1>2, <1>3, <1>4, <1>5, <1>6, <1>7, <1>8, <1>9, <1>10, <1>11, <1>12 DEF Next

\* After a scan that was neither cancelled nor overlapped, the store calls open
\* exactly those endpoints of the scanned addresses that answered (runScan hands
\* every result to Process before it calls Flush, and Flush closes the others).
THEOREM ReflectsCorrect ==
  ASSUME NoOverlap, ~StoreMayFail
  PROVE  Spec => []ScanReflectsProbe
<1>1. Init => ReflectsInv /\ AnswersInv
  BY DEF Init, ReflectsInv, ReflectInv, AnswersInv, AnswerInv
<1>2. TypeOK /\ AnswersInv /\ ReflectsInv => ScanReflectsProbe
  <2> SUFFICES ASSUME TypeOK, AnswersInv, ReflectsInv, NEW s \in Scan,
                      phase[s] = "flush", step[s] = "next", hosts[s] = {}, openList[s] = {},
                      ~cancelled[s],
                      NEW e \in Endpoint, NEW target \in Endpoint,
                      probe[s][target] # "out", e[1] = target[1]
               PROVE  IsOpen(e) <=> probe[s][e] = "up"
    BY DEF ScanReflectsProbe
  <2>1. probe[s][e] = "up" => e \in seen[s]
    BY DEF AnswersInv, AnswerInv
  <2>2. e \in seen[s] => probe[s][e] = "up" /\ IsOpen(e)
    BY DEF ReflectsInv, ReflectInv
  <2>3. IsOpen(e) => e \in seen[s]
    BY DEF ReflectsInv, ReflectInv
  <2>. QED  BY <2>1, <2>2, <2>3
<1>3. TypeOK /\ SerialInv /\ AnswersInv /\ ReflectsInv /\ [Next]_vars => ReflectsInv'
  BY ReflectStep
<1>4. Spec => [](TypeOK /\ SerialInv)
  BY TypeCorrect, SerialCorrect, PTL
<1>. QED  BY <1>1, <1>2, <1>3, <1>4, AnswerStep, PTL DEF Spec
=============================================================================
