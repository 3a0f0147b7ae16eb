--------------------------- MODULE ReadersProofs ---------------------------
(***************************************************************************)
(* The answers of the readers are true, and one handle is open, for any    *)
(* number of readers and scans, hosts and ports, plans, records and        *)
(* failing transactions.                                                   *)
(*                                                                         *)
(* The invariant follows a reading: what it has put into rows was seen,    *)
(* and a port that has belonged in the answer all the time is in rows,     *)
(* lost with its host, or still to be read.                                *)
(***************************************************************************)
EXTENDS Readers, TLAPS

\* The map and the file.
HandleInv ==
  /\ live = IF current = None THEN {} ELSE {current}
  /\ \A c \in Client : pc[c] # "busy"

\* A bucket has one record of a time, and a last one if it has any.
BucketInv(p) ==
  /\ OnePerKey(bucket[p])
  /\ bucket[p] # {} => \E rec \in bucket[p] : IsLast(bucket[p], rec)

\* The port p is in the answer of c, was lost with its host, or is still to be read.
InAnswer(c, p) == p[1] \in missed[c] \/ \E row \in rows[c] : row[1] = p
ToRead(c, p) ==
  \/ p[1] \in hosts[c]
  \/ pc[c] \in {"ports", "history"} /\ p \in ports[c]
  \/ pc[c] = "history" /\ p = at[c]

\* The ports at hand have records, and the present ones have been seen.
SeenInv(c) ==
  IsReading(c) =>
    /\ pc[c] \in {"ports", "history"} => \A p \in ports[c] : bucket[p] # {}
    /\ pc[c] = "history" => since[c] # None /\ at[c] \in Port /\ bucket[at[c]] # {}
    /\ \A p \in Port : bucket[p] # {} => <<p, Latest(p)>> \in held[c]

SteadyInv(c) ==
  /\ IsReading(c) => \A p \in steady[c] : Belongs(c, p, bucket) /\ (InAnswer(c, p) \/ ToRead(c, p))
  /\ pc[c] = "done" => \A p \in steady[c] : InAnswer(c, p)

RowsInv(c) ==
  /\ pc[c] \in {"idle", "lock", "scan", "resolve"} => rows[c] = {}
  /\ IsReading(c) \/ pc[c] = "done" =>
       /\ rows[c] \subseteq held[c]
       /\ since[c] # None => \A row \in rows[c] : row[2].at >= since[c]

ReadInv(c) == SeenInv(c) /\ SteadyInv(c) /\ RowsInv(c)

TypeInv == TypeOK /\ \A p \in Port : BucketInv(p)
Inv == TypeInv /\ HandleInv /\ \A c \in Client : ReadInv(c)

-----------------------------------------------------------------------------
(* The buckets. *)

LEMMA LatestRecord ==
  ASSUME TypeInv, NEW p \in Port, bucket[p] # {}
  PROVE  Latest(p) \in bucket[p] /\ Latest(p) \in Record /\ IsLast(bucket[p], Latest(p))
  <1>1. PICK rec \in bucket[p] : IsLast(bucket[p], rec)
    BY DEF TypeInv, BucketInv
  <1>2. IsLast(bucket[p], Latest(p))
    BY <1>1 DEF Latest, ReadLatest
  <1> QED BY <1>2 DEF IsLast, TypeInv, TypeOK

\* The last record of the time range is the last record, if there is one.
LEMMA LatestOfPast ==
  ASSUME TypeInv, NEW p \in Port, NEW s \in Time,
         NEW past, past = {rec \in bucket[p] : rec.at >= s}, past # {}
  PROVE  ReadLatest(past, None) = Latest(p) /\ Latest(p) \in past
  <1>1. bucket[p] \subseteq Record /\ OnePerKey(bucket[p]) /\ bucket[p] # {}
    BY DEF TypeInv, TypeOK, BucketInv
  <1>2. Latest(p) \in bucket[p] /\ IsLast(bucket[p], Latest(p))
    BY <1>1, LatestRecord
  <1>3. \A rec \in bucket[p] : rec.at \in Nat
    BY <1>1 DEF Record, Time
  <1>4. Latest(p) \in past
    BY <1>2, <1>3 DEF IsLast, Time
  <1>5. IsLast(past, Latest(p))
    BY <1>2, <1>4 DEF IsLast
  <1>6. \A rec : IsLast(past, rec) => rec = Latest(p)
    BY <1>1, <1>2, <1>3, <1>4 DEF IsLast, OnePerKey
  <1> QED BY <1>4, <1>5, <1>6 DEF ReadLatest

LEMMA PutKeepsBucket ==
  ASSUME NEW b \in SUBSET Record, NEW rec \in Record, OnePerKey(b),
         b # {} => \E last \in b : IsLast(b, last)
  PROVE  /\ PutAt(b, rec) \in SUBSET Record /\ OnePerKey(PutAt(b, rec))
         /\ \E last \in PutAt(b, rec) : IsLast(PutAt(b, rec), last)
  <1>1. PutAt(b, rec) \in SUBSET Record /\ OnePerKey(PutAt(b, rec))
    BY DEF PutAt, OnePerKey
  <1>2. \A r \in b \cup {rec} : r.at \in Nat
    BY DEF Record, Time
  <1>3. CASE \A r \in b : r.at <= rec.at
    <2>1. rec \in PutAt(b, rec) /\ IsLast(PutAt(b, rec), rec)
      BY <1>2, <1>3 DEF PutAt, IsLast
    <2> QED BY <1>1, <2>1
  <1>4. CASE \E r \in b : ~(r.at <= rec.at)
    <2>1. PICK last \in b : IsLast(b, last)
      BY <1>4
    <2>2. rec.at < last.at
      BY <1>2, <1>4, <2>1 DEF IsLast
    <2>3. last \in PutAt(b, rec) /\ IsLast(PutAt(b, rec), last)
      BY <1>2, <2>1, <2>2 DEF IsLast, PutAt
    <2> QED BY <1>1, <2>3
  <1> QED BY <1>3, <1>4

-----------------------------------------------------------------------------
(* Types. *)

LEMMA PlansArePlans == Plans \subseteq Plan
  <1>1. \A target \in {None} \cup SUBSET Host : NoConditions(target) \in Plan
    BY DEF NoConditions, Plan
  <1>2. OpenPortsPlan \in Plan
    BY DEF OpenPortsPlan, NoConditions, Plan
  <1>3. AboutOneHost \subseteq Plan
    BY <1>1 DEF AboutOneHost, GetHost, renderHostDetail, GetSupplyChain
  <1>4. ListHosts \in Plan /\ loadHosts \in Plan
    BY <1>1 DEF ListHosts, loadHosts
  <1> QED BY <1>2, <1>3, <1>4, QueryAssumption DEF Plans, ExecuteQuery, runQuery, AskPlans

LEMMA InitInv ==
  ASSUME Init PROVE Inv
  <1>1. ListHosts \in Plan
    BY DEF ListHosts, NoConditions, Plan
  <1>2. TypeInv
    BY <1>1, BoundAssumption DEF Init, TypeInv, TypeOK, BucketInv, OnePerKey, Time
  <1>3. HandleInv
    BY DEF Init, HandleInv
  <1>4. \A c \in Client : ReadInv(c)
    BY DEF Init, ReadInv, SeenInv, SteadyInv, RowsInv, IsReading
  <1> QED BY <1>2, <1>3, <1>4 DEF Inv

\* A client and the buckets that a step does not touch.
LEMMA OthersKeep ==
  ASSUME NEW c \in Client, ReadInv(c), bucket' = bucket,
         pc'[c] = pc[c], plan'[c] = plan[c], since'[c] = since[c], hosts'[c] = hosts[c],
         ports'[c] = ports[c], at'[c] = at[c], rows'[c] = rows[c], missed'[c] = missed[c],
         held'[c] = held[c], steady'[c] = steady[c]
  PROVE  ReadInv(c)'
  BY DEF ReadInv, SeenInv, SteadyInv, RowsInv, IsReading, InAnswer, ToRead, Belongs, Latest, Matches

\* Steps that leave the reading of everybody alone.
LEMMA QuietSteps ==
  ASSUME Inv, Tick \/ CloseAll \/ UNCHANGED vars PROVE Inv'
  <1>1. bucket' = bucket /\ UNCHANGED <<pc, reading, seen>>
    BY DEF Tick, CloseAll, vars, file
  <1>2. \A c \in Client : ReadInv(c)'
    BY <1>1, OthersKeep DEF Inv, reading, seen
  <1>3. CASE Tick
    BY <1>1, <1>2, <1>3, BoundAssumption
    DEF Tick, Inv, TypeInv, TypeOK, BucketInv, HandleInv, file, manager, reading, seen, Time
  <1>4. CASE CloseAll
    BY <1>1, <1>2, <1>4
    DEF CloseAll, Inv, TypeInv, TypeOK, BucketInv, HandleInv, file, reading, seen
  <1>5. CASE UNCHANGED vars
    BY <1>2, <1>5
    DEF vars, Inv, TypeInv, TypeOK, BucketInv, HandleInv, file, manager, reading, seen
  <1> QED BY <1>3, <1>4, <1>5

LEMMA StoreSteps ==
  ASSUME Inv, NEW c \in Client,
         (\E q \in Plans : GetStore(c, q)) \/ OpenStore(c) \/ (c \in Scan /\ EndScan(c))
  PROVE  Inv'
  <1>1. /\ bucket' = bucket /\ UNCHANGED <<clock, written, hosts, ports, at, rows, missed, seen>>
        /\ \A d \in Client \ {c} : pc'[d] = pc[d] /\ plan'[d] = plan[d] /\ since'[d] = since[d]
    BY DEF GetStore, OpenStore, EndScan, OpenFile, Goto, Inv, TypeInv, TypeOK, file
  <1>2. /\ pc[c] \in {"idle", "lock", "scan"}
        /\ pc' = [pc EXCEPT ![c] = pc'[c]]
        /\ pc'[c] \in {"idle", "lock", "scan", "resolve", "error"}
    <2>1. CASE \E q \in Plans : GetStore(c, q)
      BY <2>1 DEF GetStore, Goto, GoOn, Inv, TypeInv, TypeOK
    <2>2. CASE OpenStore(c)
      BY <2>2 DEF OpenStore, OpenFile, Goto, GoOn, Inv, TypeInv, TypeOK, HandleInv
    <2>3. CASE EndScan(c)
      BY <2>3 DEF EndScan, Goto, Inv, TypeInv, TypeOK
    <2> QED BY <2>1, <2>2, <2>3
  <1>3. ReadInv(c)'
    BY <1>1, <1>2 DEF Inv, ReadInv, SeenInv, SteadyInv, RowsInv, IsReading
  <1>4. \A d \in Client \ {c} : ReadInv(d)'
    BY <1>1, OthersKeep DEF Inv, seen
  <1>5. /\ plan' \in [Client -> Plan] /\ since' \in [Client -> Time \cup {None}]
    <2>1. \A back \in Time \cup {None} : extractTimeSince(back) \in Time \cup {None}
      BY BoundAssumption DEF extractTimeSince, Inv, TypeInv, TypeOK, Time
    <2>2. \A q \in Plans : q \in Plan /\ q.back \in Time \cup {None}
      BY PlansArePlans DEF Plan
    <2>3. CASE \E q \in Plans : GetStore(c, q)
      BY <2>1, <2>2, <2>3 DEF GetStore, Inv, TypeInv, TypeOK
    <2> QED BY <2>3 DEF OpenStore, EndScan, Inv, TypeInv, TypeOK
  <1>6. /\ current' \in 1 .. MaxHandles \cup {None} /\ live' \subseteq 1 .. MaxHandles
        /\ handles' \in 0 .. MaxHandles /\ faults' \in 0 .. MaxFaults
        /\ handle' \in [Client -> 1 .. MaxHandles \cup {None}]
        /\ live' = IF current' = None THEN {} ELSE {current'}
    <2>1. CASE (\E q \in Plans : GetStore(c, q)) \/ EndScan(c)
      BY <2>1 DEF GetStore, EndScan, Inv, TypeInv, TypeOK, HandleInv, manager
    <2>2. CASE OpenStore(c) /\ (current # None \/ UNCHANGED manager)
      BY <2>2, BoundAssumption DEF OpenStore, OpenFile, Inv, TypeInv, TypeOK, HandleInv, manager
    <2>3. CASE OpenStore(c) /\ current = None /\ OpenFile(c) /\ UNCHANGED faults
      <3>1. live = {} /\ handles + 1 \in 1 .. MaxHandles /\ handles + 1 # None
        BY <2>3, BoundAssumption, NoneAssumption DEF OpenFile, Inv, TypeInv, TypeOK, HandleInv
      <3> QED BY <2>3, <3>1, BoundAssumption DEF OpenFile, Inv, TypeInv, TypeOK
    <2> QED BY <2>1, <2>2, <2>3 DEF OpenStore
  <1>7. \A d \in Client : pc'[d] # "busy"
    BY <1>1, <1>2 DEF Inv, HandleInv
  <1>8. TypeInv'
    <2>1. pc' \in [Client -> {"idle", "lock", "scan", "resolve", "hosts", "ports", "history", "done", "error", "busy"}]
      BY <1>2 DEF Inv, TypeInv, TypeOK
    <2> QED BY <1>1, <1>5, <1>6, <2>1 DEF Inv, TypeInv, TypeOK, BucketInv, seen
  <1> QED BY <1>3, <1>4, <1>6, <1>7, <1>8 DEF Inv, HandleInv

-----------------------------------------------------------------------------
(* Scans write, readers read. *)

LEMMA WriteStep ==
  ASSUME Inv, NEW w \in Scan, NEW q \in Port, NEW rec \in Record, WriteState(w, q, rec)
  PROVE  Inv'
  <1>0. /\ UNCHANGED <<clock, manager, faults, pc, reading>>
        /\ bucket' = [bucket EXCEPT ![q] = PutAt(bucket[q], rec)]
        /\ bucket \in [Port -> SUBSET Record]
    BY DEF WriteState, Inv, TypeInv, TypeOK
  <1>1. /\ PutAt(bucket[q], rec) \in SUBSET Record /\ OnePerKey(PutAt(bucket[q], rec))
        /\ \E last \in PutAt(bucket[q], rec) : IsLast(PutAt(bucket[q], rec), last)
    <2>1. /\ bucket[q] \in SUBSET Record /\ OnePerKey(bucket[q])
          /\ bucket[q] # {} => \E last \in bucket[q] : IsLast(bucket[q], last)
      BY <1>0 DEF Inv, TypeInv, BucketInv
    <2> QED BY <2>1, PutKeepsBucket
  <1>2. bucket' \in [Port -> SUBSET Record] /\ \A p \in Port : BucketInv(p)'
    BY <1>0, <1>1 DEF Inv, TypeInv, BucketInv
  <1>3. \A p \in Port : bucket[p] # {} => bucket'[p] # {}
    BY <1>0, <1>1
  <1> DEFINE now == {<<o, ReadLatest(bucket'[o], None)>> : o \in {x \in Port : bucket'[x] # {}}}
  <1>4. held' = [r \in Client |-> IF IsReading(r) THEN held[r] \cup now ELSE held[r]]
    BY DEF WriteState
  <1>5. \A p \in Port : bucket'[p] # {} => ReadLatest(bucket'[p], None) \in Record
    <2>1. ASSUME NEW p \in Port, bucket'[p] # {} PROVE ReadLatest(bucket'[p], None) \in Record
      <3>1. PICK last \in bucket'[p] : IsLast(bucket'[p], last)
        BY <1>2, <2>1 DEF BucketInv
      <3>2. IsLast(bucket'[p], ReadLatest(bucket'[p], None))
        BY <3>1 DEF ReadLatest
      <3> QED BY <1>2, <3>2 DEF IsLast
    <2> QED BY <2>1
  <1>6. now \subseteq Port \X Record
    BY <1>5
  <1>7. /\ held' \in [Client -> SUBSET (Port \X Record)]
        /\ \A c \in Client : held[c] \subseteq held'[c]
        /\ \A c \in Client : IsReading(c) => now \subseteq held'[c]
    BY <1>4, <1>6 DEF Inv, TypeInv, TypeOK
  <1>8. \A c \in Client : steady'[c] = {o \in steady[c] : Belongs(c, o, bucket')}
    BY DEF WriteState
  <1>9. TypeInv'
    <2>1. steady' \in [Client -> SUBSET Port]
      BY DEF WriteState, Inv, TypeInv, TypeOK
    <2>2. written' \in 0 .. MaxWrites
      BY BoundAssumption DEF WriteState, Inv, TypeInv, TypeOK
    <2> QED BY <1>0, <1>2, <1>7, <2>1, <2>2 DEF Inv, TypeInv, TypeOK, manager, reading
  <1>10. ASSUME NEW c \in Client PROVE ReadInv(c)'
    <2>1. /\ pc'[c] = pc[c] /\ plan'[c] = plan[c] /\ since'[c] = since[c] /\ hosts'[c] = hosts[c]
          /\ ports'[c] = ports[c] /\ at'[c] = at[c] /\ rows'[c] = rows[c]
          /\ missed'[c] = missed[c] /\ ReadInv(c)
      BY <1>0 DEF reading, Inv
    <2>2. SeenInv(c)'
      <3>1. ASSUME IsReading(c), NEW p \in Port, bucket'[p] # {}
            PROVE  <<p, Latest(p)'>> \in held'[c]
        BY <1>7, <3>1 DEF Latest
      <3>2. ports[c] \subseteq Port
        BY DEF Inv, TypeInv, TypeOK
      <3> QED BY <1>3, <2>1, <3>1, <3>2 DEF ReadInv, SeenInv, IsReading
    <2>3. SteadyInv(c)'
      <3>1. \A p \in steady'[c] : Belongs(c, p, bucket)'
        BY <1>8, <2>1 DEF Belongs, Matches
      <3>2. \A p : (InAnswer(c, p)' <=> InAnswer(c, p)) /\ (ToRead(c, p)' <=> ToRead(c, p))
        BY <2>1 DEF InAnswer, ToRead
      <3> QED BY <1>8, <2>1, <3>1, <3>2 DEF ReadInv, SteadyInv, IsReading
    <2>4. RowsInv(c)'
      BY <1>7, <2>1 DEF ReadInv, RowsInv, IsReading
    <2> QED BY <2>2, <2>3, <2>4 DEF ReadInv
  <1> QED BY <1>0, <1>9, <1>10 DEF Inv, HandleInv, manager

\* The reading begins.
LEMMA BeginStep ==
  ASSUME Inv, NEW c \in Client, ResolveHosts(c) PROVE Inv'
  <1>0. /\ UNCHANGED <<clock, file, manager, handle, plan, since, ports, at, rows, missed>>
        /\ pc[c] = "resolve" /\ bucket' = bucket
    BY DEF ResolveHosts, file
  <1>1. faults' \in 0 .. MaxFaults
    BY BoundAssumption DEF ResolveHosts, Works, Fails, Inv, TypeInv, TypeOK
  <1>2. ASSUME NEW those \in SUBSET Host, Begin(c, those),
               \A p \in Port : Belongs(c, p, bucket) => p[1] \in those
        PROVE  Inv'
    <2> DEFINE seenNow == {<<p, Latest(p)>> : p \in {x \in Port : bucket[x] # {}}}
               steadyNow == {p \in Port : Belongs(c, p, bucket)}
    <2>1. seenNow \subseteq Port \X Record
      BY LatestRecord DEF Inv
    <2>2. /\ hosts' = [hosts EXCEPT ![c] = those] /\ pc' = [pc EXCEPT ![c] = "hosts"]
          /\ held' = [held EXCEPT ![c] = seenNow] /\ steady' = [steady EXCEPT ![c] = steadyNow]
      BY <1>2 DEF Begin, Goto
    <2>3. \A p \in Port : bucket[p] # {} => <<p, Latest(p)>> \in seenNow
      OBVIOUS
    <2>4. steadyNow \subseteq Port /\ \A p \in steadyNow : Belongs(c, p, bucket) /\ p[1] \in those
      BY <1>2
    <2> HIDE DEF seenNow, steadyNow
    <2>5. TypeInv'
      BY <1>0, <1>1, <2>1, <2>2, <2>4
      DEF Inv, TypeInv, TypeOK, BucketInv, file, manager
    <2>6. /\ pc'[c] = "hosts" /\ hosts'[c] = those /\ held'[c] = seenNow
          /\ steady'[c] = steadyNow /\ rows'[c] = {}
      BY <1>0, <2>2 DEF Inv, TypeInv, TypeOK, ReadInv, RowsInv
    <2>7. ReadInv(c)'
      <3>1. SeenInv(c)'
        BY <1>0, <2>3, <2>6 DEF SeenInv, Latest
      <3>2. SteadyInv(c)'
        BY <1>0, <2>4, <2>6 DEF SteadyInv, ToRead, Belongs, Matches, IsReading
      <3>3. RowsInv(c)'
        BY <2>6 DEF RowsInv
      <3> QED BY <3>1, <3>2, <3>3 DEF ReadInv
    <2>8. \A d \in Client \ {c} : ReadInv(d)'
      BY <1>0, <2>2, OthersKeep DEF Inv, TypeInv, TypeOK
    <2> QED BY <1>0, <2>2, <2>5, <2>7, <2>8 DEF Inv, TypeInv, TypeOK, HandleInv, manager
  <1>3. CASE plan[c].target # None /\ Begin(c, plan[c].target)
    <2>1. plan[c].target \in SUBSET Host
      BY <1>3 DEF Inv, TypeInv, TypeOK, Plan
    <2> QED BY <1>2, <1>3, <2>1 DEF Belongs
  <1>4. CASE Begin(c, KnownHosts)
    <2>1. KnownHosts \in SUBSET Host
      BY DEF KnownHosts
    <2>2. ASSUME NEW p \in Port, Belongs(c, p, bucket) PROVE p[1] \in KnownHosts
      <3>1. bucket[p] # {} /\ p[1] \in Host /\ p[2] \in Number /\ p = <<p[1], p[2]>>
        BY <2>2 DEF Belongs, LatestIsOpen, Port
      <3>2. bucket[<<p[1], p[2]>>] # {}
        BY <3>1
      <3> QED BY <3>1, <3>2 DEF KnownHosts
    <2> QED BY <1>2, <1>4, <2>1, <2>2
  <1>5. CASE Goto(c, "error") /\ UNCHANGED <<hosts, seen>>
    <2>1. pc' = [pc EXCEPT ![c] = "error"] /\ UNCHANGED <<hosts, held, steady>>
      BY <1>5 DEF Goto, seen
    <2>2. TypeInv'
      BY <1>0, <1>1, <2>1 DEF Inv, TypeInv, TypeOK, BucketInv, file, manager
    <2>3. pc'[c] = "error"
      BY <2>1 DEF Inv, TypeInv, TypeOK
    <2>4. ReadInv(c)'
      BY <2>3 DEF ReadInv, SeenInv, SteadyInv, RowsInv, IsReading
    <2>5. \A d \in Client \ {c} : ReadInv(d)'
      BY <1>0, <2>1, OthersKeep DEF Inv, TypeInv, TypeOK
    <2> QED BY <1>0, <2>1, <2>2, <2>4, <2>5 DEF Inv, TypeInv, TypeOK, HandleInv, manager
  <1> QED BY <1>3, <1>4, <1>5 DEF ResolveHosts

\* What all steps of a reading have in common.
LEMMA ReadStep ==
  ASSUME Inv, NEW c \in Client, TypeOK', ReadInv(c)',
         UNCHANGED <<bucket, current, live>>, pc'[c] # "busy",
         \A d \in Client \ {c} :
           /\ pc'[d] = pc[d] /\ plan'[d] = plan[d] /\ since'[d] = since[d] /\ hosts'[d] = hosts[d]
           /\ ports'[d] = ports[d] /\ at'[d] = at[d] /\ rows'[d] = rows[d]
           /\ missed'[d] = missed[d] /\ held'[d] = held[d] /\ steady'[d] = steady[d]
  PROVE  Inv'
  <1>1. \A d \in Client \ {c} : ReadInv(d)'
    BY OthersKeep DEF Inv
  <1>2. TypeInv' /\ HandleInv'
    BY DEF Inv, TypeInv, BucketInv, HandleInv
  <1> QED BY <1>1, <1>2 DEF Inv

LEMMA OpenPortsStep ==
  ASSUME Inv, NEW c \in Client, NEW h \in hosts[c], OpenPorts(c, h) PROVE Inv'
  <1>0. /\ UNCHANGED <<clock, file, manager, handle, plan, since, at, rows, seen>>
        /\ pc[c] = "hosts" /\ ReadInv(c) /\ h \in Host
        /\ hosts' = [hosts EXCEPT ![c] = hosts[c] \ {h}]
    BY DEF OpenPorts, Inv, TypeInv, TypeOK
  <1>1. faults' \in 0 .. MaxFaults
    BY BoundAssumption DEF OpenPorts, Works, Fails, Inv, TypeInv, TypeOK
  <1> DEFINE open == {p \in Port : p[1] = h /\ LatestIsOpen(bucket[p])}
  <1>2. CASE /\ ports' = [ports EXCEPT ![c] = open]
             /\ pc' = [pc EXCEPT ![c] = "ports"] /\ UNCHANGED missed
    <2>1. /\ pc'[c] = "ports" /\ ports'[c] = open /\ hosts'[c] = hosts[c] \ {h}
      BY <1>0, <1>2 DEF Inv, TypeInv, TypeOK
    <2>2. \A p \in open : bucket[p] # {}
      BY DEF LatestIsOpen
    <2>3. \A p \in steady[c] : Belongs(c, p, bucket) /\ (p[1] = h => p \in open)
      BY <1>0 DEF ReadInv, SteadyInv, IsReading, Belongs, Inv, TypeInv, TypeOK
    <2>4. open \subseteq Port
      OBVIOUS
    <2> HIDE DEF open
    <2>5. SeenInv(c)'
      BY <1>0, <2>1, <2>2 DEF ReadInv, SeenInv, IsReading, Latest, file, seen
    <2>6. SteadyInv(c)'
      <3>1. ASSUME NEW p \in steady[c] PROVE Belongs(c, p, bucket)'
        BY <1>0, <2>3 DEF Belongs, Matches, file
      <3>2. ASSUME NEW p \in steady[c] PROVE InAnswer(c, p)' \/ ToRead(c, p)'
        BY <1>0, <1>2, <2>1, <2>3 DEF ReadInv, SteadyInv, IsReading, InAnswer, ToRead
      <3> QED BY <1>0, <2>1, <3>1, <3>2 DEF SteadyInv, seen
    <2>7. RowsInv(c)'
      BY <1>0, <2>1 DEF ReadInv, RowsInv, IsReading, seen
    <2>8. TypeOK'
      BY <1>0, <1>1, <1>2, <2>4 DEF Inv, TypeInv, TypeOK, file, manager, seen
    <2>9. \A d \in Client \ {c} : pc'[d] = pc[d] /\ ports'[d] = ports[d] /\ hosts'[d] = hosts[d]
      BY <1>0, <1>2 DEF Inv, TypeInv, TypeOK
    <2>10. ReadInv(c)'
      BY <2>5, <2>6, <2>7 DEF ReadInv
    <2> QED BY <1>0, <1>2, <2>1, <2>8, <2>9, <2>10, ReadStep DEF file, manager, seen
  <1>3. CASE /\ missed' = [missed EXCEPT ![c] = missed[c] \cup {h}]
             /\ pc' \in {[pc EXCEPT ![c] = "error"], [pc EXCEPT ![c] = "hosts"]}
             /\ UNCHANGED ports
    <2>1. /\ pc'[c] \in {"error", "hosts"} /\ missed'[c] = missed[c] \cup {h}
          /\ hosts'[c] = hosts[c] \ {h}
      BY <1>0, <1>3 DEF Inv, TypeInv, TypeOK
    <2>2. SeenInv(c)'
      BY <1>0, <2>1 DEF ReadInv, SeenInv, IsReading, Latest, file, seen
    <2>3. SteadyInv(c)'
      <3>1. ASSUME NEW p \in steady[c] PROVE Belongs(c, p, bucket)'
        BY <1>0 DEF ReadInv, SteadyInv, IsReading, Belongs, Matches, file
      <3>2. ASSUME NEW p \in steady[c] PROVE InAnswer(c, p)' \/ ToRead(c, p)'
        BY <1>0, <2>1 DEF ReadInv, SteadyInv, IsReading, InAnswer, ToRead
      <3> QED BY <1>0, <2>1, <3>1, <3>2 DEF SteadyInv, seen
    <2>4. RowsInv(c)'
      BY <1>0, <2>1 DEF ReadInv, RowsInv, IsReading, seen
    <2>5. TypeOK'
      BY <1>0, <1>1, <1>3 DEF Inv, TypeInv, TypeOK, file, manager, seen
    <2>6. \A d \in Client \ {c} : pc'[d] = pc[d] /\ missed'[d] = missed[d] /\ hosts'[d] = hosts[d]
      BY <1>0, <1>3 DEF Inv, TypeInv, TypeOK
    <2>7. ReadInv(c)'
      BY <2>2, <2>3, <2>4 DEF ReadInv
    <2> QED BY <1>0, <1>3, <2>1, <2>5, <2>6, <2>7, ReadStep DEF file, manager, seen
  <1> QED BY <1>2, <1>3 DEF OpenPorts, Goto

\* A port at hand leaves ports[c] or at[c], and its row, if it has one, is added.
\* more[c] are the rows that are added.
LEMMA RowStep ==
  ASSUME Inv, NEW c \in Client, NEW p \in Port, NEW more \in SUBSET (Port \X Record),
         pc[c] \in {"ports", "history"}, pc'[c] \in {"ports", "history"},
         UNCHANGED <<bucket, plan, since, hosts, held, steady>>,
         rows'[c] = rows[c] \cup more,
         more \subseteq held[c],
         since[c] # None => \A row \in more : row[2].at >= since[c],
         missed'[c] \in {missed[c], missed[c] \cup {p[1]}},
         ports'[c] \subseteq ports[c],
         pc'[c] = "history" => since[c] # None /\ at'[c] \in Port /\ bucket[at'[c]] # {},
         \A o \in steady[c] : ToRead(c, o) => ToRead(c, o)' \/ InAnswer(c, o)'
  PROVE  ReadInv(c)'
  <1>0. ReadInv(c) /\ IsReading(c) /\ IsReading(c)'
    BY DEF Inv, IsReading
  <1>1. SeenInv(c)'
    BY <1>0 DEF ReadInv, SeenInv, Latest
  <1>2. \A o : InAnswer(c, o) => InAnswer(c, o)'
    BY DEF InAnswer
  <1>3. \A o \in steady[c] : Belongs(c, o, bucket)'
    BY <1>0 DEF ReadInv, SteadyInv, Belongs, Matches
  <1>4. SteadyInv(c)'
    BY <1>0, <1>2, <1>3 DEF ReadInv, SteadyInv
  <1>5. RowsInv(c)'
    BY <1>0 DEF ReadInv, RowsInv
  <1> QED BY <1>1, <1>4, <1>5 DEF ReadInv

LEMMA NoRowStep ==
  ASSUME Inv, NEW c \in Client, NEW p \in Port,
         pc[c] \in {"ports", "history"}, pc'[c] \in {"ports", "history"},
         UNCHANGED <<bucket, plan, since, hosts, held, steady>>,
         rows'[c] = rows[c],
         missed'[c] \in {missed[c], missed[c] \cup {p[1]}},
         ports'[c] \subseteq ports[c],
         pc'[c] = "history" => since[c] # None /\ at'[c] \in Port /\ bucket[at'[c]] # {},
         \A o \in steady[c] : ToRead(c, o) => ToRead(c, o)' \/ InAnswer(c, o)'
  PROVE  ReadInv(c)'
  <1>1. PICK more \in SUBSET (Port \X Record) : more = {}
    OBVIOUS
  <1>2. /\ rows'[c] = rows[c] \cup more /\ more \subseteq held[c]
        /\ \A row \in more : row[2].at >= since[c]
    BY <1>1
  <1> QED BY <1>2, RowStep

\* The latest record of p as a row, if it matches.
Row(c, p) == IF Matches(plan[c], p, Latest(p)) THEN {<<p, Latest(p)>>} ELSE {}

LEMMA RowIsSeen ==
  ASSUME Inv, NEW c \in Client, IsReading(c), NEW p \in Port, bucket[p] # {}
  PROVE  /\ Row(c, p) \in SUBSET (Port \X Record) /\ Row(c, p) \subseteq held[c]
         /\ p \in steady[c] => <<p, Latest(p)>> \in Row(c, p)
  <1>1. Latest(p) \in Record /\ <<p, Latest(p)>> \in held[c]
    BY LatestRecord DEF Inv, ReadInv, SeenInv
  <1>2. p \in steady[c] => Matches(plan[c], p, Latest(p))
    BY DEF Inv, ReadInv, SteadyInv, Belongs, Latest
  <1> QED BY <1>1, <1>2 DEF Row

LEMMA LatestStep ==
  ASSUME Inv, NEW c \in Client, NEW p \in ports[c], LatestState(c, p) PROVE Inv'
  <1>0. /\ UNCHANGED <<clock, file, manager, handle, plan, since, hosts, seen>>
        /\ pc[c] = "ports" /\ p \in Port /\ bucket[p] # {} /\ IsReading(c)
        /\ ports' = [ports EXCEPT ![c] = ports[c] \ {p}]
    BY DEF LatestState, Inv, TypeInv, TypeOK, ReadInv, SeenInv, IsReading
  <1>1. faults' \in 0 .. MaxFaults
    BY BoundAssumption DEF LatestState, Works, Fails, Inv, TypeInv, TypeOK
  <1>2. ports'[c] = ports[c] \ {p} /\ \A d \in Client \ {c} : ports'[d] = ports[d]
    BY <1>0 DEF Inv, TypeInv, TypeOK
  <1>3. CASE since[c] = None /\ AddRow(c, p, Latest(p)) /\ UNCHANGED <<pc, at, missed>>
    <2>1. rows' = [rows EXCEPT ![c] = rows[c] \cup Row(c, p)]
      BY <1>3 DEF AddRow, Row, Inv, TypeInv, TypeOK
    <2>2. rows'[c] = rows[c] \cup Row(c, p) /\ \A d \in Client \ {c} : rows'[d] = rows[d]
      BY <2>1 DEF Inv, TypeInv, TypeOK
    <2>3. TypeOK'
      BY <1>0, <1>1, <1>3, <2>1, RowIsSeen DEF Inv, TypeInv, TypeOK, file, manager, seen
    <2>4. ASSUME NEW o \in steady[c], ToRead(c, o) PROVE ToRead(c, o)' \/ InAnswer(c, o)'
      <3>1. CASE o = p
        <4>1. <<p, Latest(p)>> \in Row(c, p)
          BY <1>0, <3>1, RowIsSeen
        <4>2. \E row \in rows'[c] : row[1] = p
          BY <2>2, <4>1
        <4> QED BY <3>1, <4>2 DEF InAnswer
      <3>2. CASE o # p
        BY <1>0, <1>2, <1>3, <2>4, <3>2 DEF ToRead
      <3> QED BY <3>1, <3>2
    <2>5. ReadInv(c)'
      BY <1>0, <1>2, <1>3, <2>2, <2>4, RowIsSeen, RowStep DEF file, seen
    <2> QED BY <1>0, <1>2, <1>3, <2>2, <2>3, <2>5, ReadStep DEF file, manager, seen
  <1>4. CASE /\ since[c] # None /\ at' = [at EXCEPT ![c] = p]
             /\ pc' = [pc EXCEPT ![c] = "history"] /\ UNCHANGED <<rows, missed>>
    <2>1. /\ pc'[c] = "history" /\ at'[c] = p
          /\ \A d \in Client \ {c} : pc'[d] = pc[d] /\ at'[d] = at[d]
      BY <1>4 DEF Inv, TypeInv, TypeOK
    <2>2. TypeOK'
      BY <1>0, <1>1, <1>4 DEF Inv, TypeInv, TypeOK, file, manager, seen
    <2>3. \A o \in steady[c] : ToRead(c, o) => ToRead(c, o)'
      BY <1>0, <1>2, <2>1 DEF ToRead
    <2>4. ReadInv(c)'
      <3>1. rows'[c] = rows[c] /\ missed'[c] = missed[c]
        BY <1>4
      <3> QED BY <1>0, <1>2, <1>4, <2>1, <2>3, <3>1, NoRowStep DEF file, seen
    <2> QED BY <1>0, <1>2, <1>4, <2>1, <2>2, <2>4, ReadStep DEF file, manager, seen
  <1>5. CASE missed' = [missed EXCEPT ![c] = missed[c] \cup {p[1]}] /\ UNCHANGED <<rows, pc, at>>
    <2>1. /\ missed'[c] = missed[c] \cup {p[1]} /\ p[1] \in Host
          /\ \A d \in Client \ {c} : missed'[d] = missed[d]
      BY <1>0, <1>5 DEF Inv, TypeInv, TypeOK, Port
    <2>2. TypeOK'
      BY <1>0, <1>1, <1>5, <2>1 DEF Inv, TypeInv, TypeOK, file, manager, seen
    <2>3. \A o \in steady[c] : ToRead(c, o) => ToRead(c, o)' \/ InAnswer(c, o)'
      BY <1>0, <1>2, <1>5, <2>1 DEF ToRead, InAnswer
    <2>4. ReadInv(c)'
      <3>1. rows'[c] = rows[c]
        BY <1>5
      <3> QED BY <1>0, <1>2, <1>5, <2>1, <2>3, <3>1, NoRowStep DEF file, seen
    <2> QED BY <1>0, <1>2, <1>5, <2>1, <2>2, <2>4, ReadStep DEF file, manager, seen
  <1> QED BY <1>3, <1>4, <1>5 DEF LatestState, Goto

LEMMA HistoryStep ==
  ASSUME Inv, NEW c \in Client, History(c) PROVE Inv'
  <1> DEFINE p == at[c]
             past == {rec \in bucket[p] : rec.at >= since[c]}
  <1>0. /\ UNCHANGED <<clock, file, manager, handle, plan, since, hosts, ports, seen>>
        /\ pc[c] = "history" /\ p \in Port /\ bucket[p] # {} /\ IsReading(c)
        /\ since[c] \in Time
        /\ pc' = [pc EXCEPT ![c] = "ports"] /\ at' = [at EXCEPT ![c] = None]
    BY DEF History, Goto, Inv, TypeInv, TypeOK, ReadInv, SeenInv, IsReading
  <1>1. faults' \in 0 .. MaxFaults
    BY BoundAssumption DEF History, Works, Fails, Inv, TypeInv, TypeOK
  <1>2. pc'[c] = "ports" /\ \A d \in Client \ {c} : pc'[d] = pc[d] /\ at'[d] = at[d]
    BY <1>0 DEF Inv, TypeInv, TypeOK
  <1>3. since[c] # None
    BY <1>0, NoneAssumption
  <1>4. p \in steady[c] => past # {}
    <2>1. p \in steady[c] => Latest(p).at >= since[c]
      BY <1>0, <1>3 DEF Inv, ReadInv, SteadyInv, Belongs, Latest
    <2> QED BY <1>0, <2>1, LatestRecord DEF Inv
  <1>5. past # {} => ReadLatest(past, None) = Latest(p) /\ Latest(p).at >= since[c]
    BY <1>0, LatestOfPast DEF Inv
  <1>6. CASE past # {} /\ AddRow(c, p, ReadLatest(past, None)) /\ UNCHANGED missed
    <2>1. rows' = [rows EXCEPT ![c] = rows[c] \cup Row(c, p)]
      BY <1>5, <1>6 DEF AddRow, Row, Inv, TypeInv, TypeOK
    <2>2. rows'[c] = rows[c] \cup Row(c, p) /\ \A d \in Client \ {c} : rows'[d] = rows[d]
      BY <2>1 DEF Inv, TypeInv, TypeOK
    <2>3. \A row \in Row(c, p) : row[2].at >= since[c]
      BY <1>5, <1>6 DEF Row
    <2> HIDE DEF past, p
    <2>4. TypeOK'
      BY <1>0, <1>1, <1>6, <2>1, RowIsSeen DEF Inv, TypeInv, TypeOK, file, manager, seen
    <2>5. ASSUME NEW o \in steady[c], ToRead(c, o) PROVE ToRead(c, o)' \/ InAnswer(c, o)'
      <3>1. CASE o = p
        <4>1. <<p, Latest(p)>> \in Row(c, p)
          BY <1>0, <3>1, RowIsSeen
        <4>2. \E row \in rows'[c] : row[1] = p
          BY <2>2, <4>1
        <4> QED BY <3>1, <4>2 DEF InAnswer
      <3>2. CASE o # p
        BY <1>0, <1>2, <2>5, <3>2 DEF ToRead, p
      <3> QED BY <3>1, <3>2
    <2>6. ReadInv(c)'
      <3>1. Row(c, p) \in SUBSET (Port \X Record) /\ Row(c, p) \subseteq held[c]
        BY <1>0, RowIsSeen
      <3> QED BY <1>0, <1>2, <1>6, <2>2, <2>3, <2>5, <3>1, RowStep DEF file, seen
    <2> QED BY <1>0, <1>2, <1>6, <2>2, <2>4, <2>6, ReadStep DEF file, manager, seen
  <1>7. CASE past = {} /\ UNCHANGED <<rows, missed>>
    <2> HIDE DEF past, p
    <2>1. TypeOK'
      BY <1>0, <1>1, <1>7 DEF Inv, TypeInv, TypeOK, file, manager, seen
    <2>2. \A o \in steady[c] : ToRead(c, o) => ToRead(c, o)'
      BY <1>0, <1>2, <1>4, <1>7 DEF ToRead, p
    <2>3. ReadInv(c)'
      <3>1. rows'[c] = rows[c] /\ missed'[c] = missed[c]
        BY <1>7
      <3> QED BY <1>0, <1>2, <2>2, <3>1, NoRowStep DEF file, seen
    <2> QED BY <1>0, <1>2, <1>7, <2>1, <2>3, ReadStep DEF file, manager, seen
  <1>8. CASE missed' = [missed EXCEPT ![c] = missed[c] \cup {p[1]}] /\ UNCHANGED rows
    <2>1. /\ missed'[c] = missed[c] \cup {p[1]} /\ p[1] \in Host
          /\ \A d \in Client \ {c} : missed'[d] = missed[d]
      BY <1>0, <1>8 DEF Inv, TypeInv, TypeOK, Port
    <2>2. \A o \in steady[c] : ToRead(c, o) => ToRead(c, o)' \/ InAnswer(c, o)'
      BY <1>0, <1>2, <2>1 DEF ToRead, InAnswer
    <2> HIDE DEF past, p
    <2>3. TypeOK'
      BY <1>0, <1>1, <1>8, <2>1 DEF Inv, TypeInv, TypeOK, file, manager, seen
    <2>4. ReadInv(c)'
      <3>1. rows'[c] = rows[c]
        BY <1>8
      <3> QED BY <1>0, <1>2, <2>1, <2>2, <3>1, NoRowStep DEF file, seen
    <2> QED BY <1>0, <1>2, <1>8, <2>1, <2>3, <2>4, ReadStep DEF file, manager, seen
  <1> QED BY <1>6, <1>7, <1>8 DEF History

LEMMA NextHostStep ==
  ASSUME Inv, NEW c \in Client, NextHost(c) PROVE Inv'
  <1>0. /\ UNCHANGED <<clock, file, manager, faults, reading, seen>> /\ IsReading(c)
        /\ pc' = [pc EXCEPT ![c] = IF hosts[c] = {} THEN "done" ELSE "hosts"]
        /\ pc[c] = "ports" => ports[c] = {}
        /\ pc[c] # "history"
    BY DEF NextHost, Goto, IsReading
  <1>1. /\ pc'[c] = IF hosts[c] = {} THEN "done" ELSE "hosts"
        /\ \A d \in Client \ {c} : pc'[d] = pc[d]
    BY <1>0 DEF Inv, TypeInv, TypeOK
  <1>2. TypeOK'
    BY <1>0 DEF Inv, TypeInv, TypeOK, file, manager, reading, seen
  <1>3. \A p : ToRead(c, p) => hosts[c] # {} /\ ToRead(c, p)'
    BY <1>0, <1>1 DEF ToRead, reading
  <1>4. \A p : InAnswer(c, p) => InAnswer(c, p)'
    BY <1>0 DEF InAnswer, reading
  <1>5. \A p \in steady[c] : Belongs(c, p, bucket)'
    BY <1>0 DEF Inv, ReadInv, SteadyInv, Belongs, Matches, reading, file
  <1>6. SteadyInv(c)'
    BY <1>0, <1>1, <1>3, <1>4, <1>5 DEF Inv, ReadInv, SteadyInv, seen
  <1>7. SeenInv(c)' /\ RowsInv(c)'
    BY <1>0, <1>1 DEF Inv, ReadInv, SeenInv, RowsInv, IsReading, Latest, reading, seen, file
  <1> QED BY <1>0, <1>1, <1>2, <1>6, <1>7, ReadStep DEF ReadInv, file, manager, reading, seen

LEMMA AnswerStep ==
  ASSUME Inv, NEW c \in Client, Answer(c) PROVE Inv'
  <1>0. /\ UNCHANGED <<clock, file, manager, faults, ports, at>>
        /\ pc' = [pc EXCEPT ![c] = "idle"]
    BY DEF Answer, Goto
  <1>1. TypeOK'
    <2>1. ListHosts \in Plan
      BY DEF ListHosts, NoConditions, Plan
    <2> QED BY <1>0, <2>1 DEF Answer, Inv, TypeInv, TypeOK, file, manager
  <1>2. pc'[c] = "idle" /\ rows'[c] = {}
    BY <1>0 DEF Answer, Inv, TypeInv, TypeOK
  <1>3. ReadInv(c)'
    BY <1>2 DEF ReadInv, SeenInv, SteadyInv, RowsInv, IsReading
  <1>4. \A d \in Client \ {c} :
           /\ pc'[d] = pc[d] /\ plan'[d] = plan[d] /\ since'[d] = since[d] /\ hosts'[d] = hosts[d]
           /\ ports'[d] = ports[d] /\ at'[d] = at[d] /\ rows'[d] = rows[d]
           /\ missed'[d] = missed[d] /\ held'[d] = held[d] /\ steady'[d] = steady[d]
    BY <1>0 DEF Answer, Inv, TypeInv, TypeOK
  <1> QED BY <1>0, <1>1, <1>2, <1>3, <1>4, ReadStep DEF file, manager

-----------------------------------------------------------------------------
\* What every reachable state satisfies.
LEMMA ReadersInvariant == Spec => []Inv
  <1>1. Init => Inv
    BY InitInv
  <1>2. Inv /\ [Next]_vars => Inv'
    BY QuietSteps, StoreSteps, WriteStep, BeginStep, OpenPortsStep, LatestStep, HistoryStep,
       NextHostStep, AnswerStep DEF Next, Client
  <1> QED BY <1>1, <1>2, PTL DEF Spec

\* Every reachable state is well typed: a row is a port and a record of its bucket.
THEOREM ReadersTypes == Spec => []TypeOK
  <1>1. Inv => TypeOK
    BY DEF Inv, TypeInv
  <1> QED BY <1>1, ReadersInvariant, PTL

\* However scans write between the transactions of a reading, its rows were true
\* while it read, and nothing that matched all the time is left out.
THEOREM AnswersTrue == Spec => []AnswersAreTrue
  <1>1. Inv => AnswersAreTrue
    BY DEF Inv, ReadInv, SteadyInv, RowsInv, InAnswer, AnswersAreTrue
  <1> QED BY <1>1, ReadersInvariant, PTL

\* The requests of a user share one handle, however they race to open the store and
\* whenever it is closed.
THEOREM HandleIsOne == Spec => []OneHandle
  <1>1. Inv => OneHandle
    BY DEF Inv, HandleInv, OneHandle
  <1> QED BY <1>1, ReadersInvariant, PTL
=============================================================================
