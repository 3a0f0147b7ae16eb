------------------------------ MODULE Readers ------------------------------
(***************************************************************************)
(* What reads the store of one user: the query engine                      *)
(* (internal/query/engine.go) behind POST /query, the LLM client and the   *)
(* TUI, and the host and supply-chain handlers, while scans write.  Both   *)
(* get the store from the manager (internal/store/manager.go).  A reader   *)
(* reads in one transaction per host, then per port, then per history:     *)
(* what it answers was not read at one moment.                             *)
(***************************************************************************)
EXTENDS TemporalStore, FiniteSets

CONSTANTS
  Reader,      \* the requests that read
  Scan,        \* the scans that write
  Host,
  Number,      \* the port numbers
  Service,
  None,        \* no target, no service, no time, no record, no handle
  Query,       \* the plans that Parse may yield
  Lag,         \* how much older than the present a record may be when it is written
  MaxTime,     \* the bound of the clock
  MaxWrites,   \* the bound of the records written
  MaxHandles,  \* the bound of the times the file is opened
  MaxFaults    \* the bound of the transactions that fail

Client == Reader \cup Scan
Time == 0 .. MaxTime
Port == Host \X Number
Record == [at : Time, open : BOOLEAN, service : Service \cup {None}]

\* A plan: its target, how far it looks back, and the conditions on the record and
\* the port, each of which may be absent.  Without a target it is about all hosts.
Plan == [target : {None} \cup SUBSET Host, back : Time \cup {None}, open : BOOLEAN,
         service : Service \cup {None}, number : Number \cup {None}]

\* parseConditions asks for open ports when it finds no other condition.
HasCondition(q) == q.open \/ q.service # None \/ q.number # None
ASSUME QueryAssumption == Query \subseteq Plan /\ \A q \in Query : HasCondition(q)
ASSUME ClientAssumption == Reader \cap Scan = {}
ASSUME BoundAssumption ==
  /\ Lag \in Nat /\ MaxTime \in Nat /\ MaxWrites \in Nat
  /\ MaxHandles \in Nat /\ MaxFaults \in Nat
ASSUME NoneAssumption == None \notin Service \cup Time \cup Number \cup Record \cup Nat

\* The plans of the other readers: no conditions, and for one host the history of a
\* while, which does not change the record that is shown.
NoConditions(target) ==
  [target |-> target, back |-> None, open |-> FALSE, service |-> None, number |-> None]
ListHosts == NoConditions(None)
loadHosts == NoConditions(None)
GetHost(h) == NoConditions({h})
renderHostDetail(h) == NoConditions({h})
GetSupplyChain(h) == NoConditions({h})

\* POST /query and the query tab of the TUI run a query as it is typed.
ExecuteQuery == Query
runQuery == Query

\* Ask has the question translated into a query, and answers with the question
\* itself as the query, or with "open ports", when that fails.
OpenPortsPlan == [NoConditions(None) EXCEPT !.open = TRUE]
AskPlans == Query \cup {OpenPortsPlan}

\* The handlers about one host answer with an error when it cannot be read.
AboutOneHost == UNION {{GetHost(h), renderHostDetail(h), GetSupplyChain(h)} : h \in Host}
Plans == ExecuteQuery \cup runQuery \cup AskPlans \cup {ListHosts, loadHosts} \cup AboutOneHost

VARIABLES
  clock,
  bucket,    \* bucket[p]: the records of a port
  written,   \* the number of records written
  current,   \* the handle in the manager's map, or None
  live,      \* the handles on the file that are open
  handles,   \* how often the file was opened
  faults,    \* how many transactions failed
  pc,        \* pc[c]: idle, lock, scan, resolve, hosts, ports, history, done, error, busy
  handle,    \* handle[c]: the handle c has got
  plan,      \* plan[c]: what c reads
  since,     \* since[c]: the start of the time range, or None
  hosts,     \* hosts[c]: the hosts that are still to be read
  ports,     \* ports[c]: the open ports of the host at hand that are still to be read
  at,        \* at[c]: the port at hand
  rows,      \* rows[c]: the rows of the answer, each a port and a record
  held,      \* held[c]: the rows that were true at some time of the reading (not in the program)
  steady,    \* steady[c]: the ports that matched all the time            (not in the program)
  missed     \* missed[c]: the hosts of which a reading failed            (not in the program)

file == <<bucket, written>>
manager == <<current, live, handles>>
reading == <<handle, plan, since, hosts, ports, at, rows, missed>>
seen == <<held, steady>>
vars == <<clock, file, manager, faults, pc, reading, seen>>

Latest(p) == ReadLatest(bucket[p], None)

\* matchesConditions, on a record of the port p.
Matches(q, p, rec) ==
  /\ q.number \in {None, p[2]}
  /\ q.service \in {None, rec.service}
  /\ q.open => rec.open

\* The port p has a place in the answer of c: it is open, its latest record is in
\* the time range and matches.
Belongs(c, p, buckets) ==
  LET rec == ReadLatest(buckets[p], None) IN
  /\ plan[c].target = None \/ p[1] \in plan[c].target
  /\ LatestIsOpen(buckets[p])
  /\ since[c] # None => rec.at >= since[c]
  /\ Matches(plan[c], p, rec)

Init ==
  /\ clock = 0
  /\ bucket = [p \in Port |-> {}] /\ written = 0
  /\ current = None /\ live = {} /\ handles = 0 /\ faults = 0
  /\ pc = [c \in Client |-> "idle"]
  /\ handle = [c \in Client |-> None]
  /\ plan = [c \in Client |-> ListHosts]
  /\ since = [c \in Client |-> None]
  /\ hosts = [c \in Client |-> {}] /\ ports = [c \in Client |-> {}]
  /\ at = [c \in Client |-> None]
  /\ rows = [c \in Client |-> {}] /\ missed = [c \in Client |-> {}]
  /\ held = [c \in Client |-> {}] /\ steady = [c \in Client |-> {}]

Goto(c, label) == pc' = [pc EXCEPT ![c] = label]
\* With the store, a scan runs and a reader resolves its hosts.
GoOn(c) == IF c \in Scan THEN "scan" ELSE "resolve"
IsReading(c) == pc[c] \in {"hosts", "ports", "history"}

-----------------------------------------------------------------------------
\* Time passes.
Tick ==
  /\ clock < MaxTime
  /\ clock' = clock + 1
  /\ UNCHANGED <<file, manager, faults, pc, reading, seen>>

\* The start of the time range, so far back from now.
extractTimeSince(back) ==
  IF back = None THEN None ELSE IF back > clock THEN 0 ELSE clock - back

\* A request parses its query, which fixes the start of the time range; then
\* GetStore, under the read lock: the handle of the map, if there is one.
GetStore(c, q) ==
  /\ pc[c] = "idle" /\ (c \in Scan => q = ListHosts)
  /\ plan' = [plan EXCEPT ![c] = q]
  /\ since' = [since EXCEPT ![c] = extractTimeSince(q.back)]
  /\ handle' = [handle EXCEPT ![c] = current]
  /\ Goto(c, IF current = None THEN "lock" ELSE GoOn(c))
  /\ UNCHANGED <<clock, file, manager, faults, hosts, ports, at, rows, missed, seen>>

\* Open of the file; it waits in vain for the lock of one that is open.
OpenFile(c) ==
  /\ handles < MaxHandles
  /\ IF live = {}
     THEN /\ handles' = handles + 1
          /\ current' = handles + 1 /\ live' = {handles + 1}
          /\ handle' = [handle EXCEPT ![c] = handles + 1]
          /\ Goto(c, GoOn(c))
     ELSE Goto(c, "busy") /\ UNCHANGED <<manager, handle>>

\* Fault: the map is not looked at again.
OpenStoreBlindly(c) ==
  /\ pc[c] = "lock" /\ OpenFile(c)
  /\ UNCHANGED <<clock, file, faults, plan, since, hosts, ports, at, rows, missed, seen>>

\* GetStore, under the lock: the handle that another request has put into the map
\* meanwhile, or a new one, or an error.
OpenStore(c) ==
  /\ pc[c] = "lock"
  /\ \/ /\ current # None
        /\ handle' = [handle EXCEPT ![c] = current] /\ Goto(c, GoOn(c))
        /\ UNCHANGED <<manager, faults>>
     \/ current = None /\ OpenFile(c) /\ UNCHANGED faults
     \/ /\ current = None /\ faults < MaxFaults /\ faults' = faults + 1
        /\ Goto(c, "error") /\ UNCHANGED <<manager, handle>>
  /\ UNCHANGED <<clock, file, plan, since, hosts, ports, at, rows, missed, seen>>

\* CloseAll, at the end of the program; requests may go on meanwhile.
CloseAll ==
  /\ current # None
  /\ live' = live \ {current} /\ current' = None
  /\ UNCHANGED <<clock, file, handles, faults, pc, reading, seen>>

-----------------------------------------------------------------------------
\* A scan writes a record, which may be older than one that is there.
WriteState(c, p, rec) ==
  /\ pc[c] = "scan" /\ handle[c] \in live /\ written < MaxWrites
  /\ rec.at <= clock /\ clock <= rec.at + Lag
  /\ bucket' = [bucket EXCEPT ![p] = PutAt(@, rec)]
  /\ written' = written + 1
  /\ LET now == {<<o, ReadLatest(bucket'[o], None)>> : o \in {x \in Port : bucket'[x] # {}}}
     IN held' = [r \in Client |-> IF IsReading(r) THEN held[r] \cup now ELSE held[r]]
  /\ steady' = [r \in Client |-> {o \in steady[r] : Belongs(r, o, bucket')}]
  /\ UNCHANGED <<clock, manager, faults, pc, reading>>

\* The scan ends.
EndScan(c) ==
  /\ pc[c] = "scan"
  /\ Goto(c, "idle") /\ handle' = [handle EXCEPT ![c] = None]
  /\ UNCHANGED <<clock, file, manager, faults, plan, since, hosts, ports, at, rows, missed, seen>>

\* A transaction works while its handle is open, and may fail all the same.
Works(c) == handle[c] \in live /\ UNCHANGED faults
Fails(c) ==
  \/ handle[c] \notin live /\ UNCHANGED faults
  \/ faults < MaxFaults /\ faults' = faults + 1

\* The reading begins with these hosts.
Begin(c, those) ==
  /\ hosts' = [hosts EXCEPT ![c] = those]
  /\ Goto(c, "hosts")
  /\ held' = [held EXCEPT ![c] = {<<p, Latest(p)>> : p \in {x \in Port : bucket[x] # {}}}]
  /\ steady' = [steady EXCEPT ![c] = {p \in Port : Belongs(c, p, bucket)}]

\* The hosts with a bucket of their own.
KnownHosts == {h \in Host : \E n \in Number : bucket[<<h, n>>] # {}}

\* resolveHosts: the hosts of the target, or those of which there are records.
ResolveHosts(c) ==
  /\ pc[c] = "resolve"
  /\ \/ plan[c].target # None /\ Begin(c, plan[c].target) /\ UNCHANGED faults
     \/ /\ plan[c].target = None /\ Works(c)
        /\ Begin(c, KnownHosts)
     \/ /\ plan[c].target = None /\ Fails(c)
        /\ Goto(c, "error")
        /\ UNCHANGED <<hosts, seen>>
  /\ UNCHANGED <<clock, file, manager, handle, plan, since, ports, at, rows, missed>>

\* ReadOpenPorts of the next host; one that cannot be read is left out of a list.
OpenPorts(c, h) ==
  /\ pc[c] = "hosts" /\ h \in hosts[c]
  /\ hosts' = [hosts EXCEPT ![c] = @ \ {h}]
  /\ \/ /\ Works(c)
        /\ ports' = [ports EXCEPT ![c] = {p \in Port : p[1] = h /\ LatestIsOpen(bucket[p])}]
        /\ Goto(c, "ports") /\ UNCHANGED missed
     \/ /\ Fails(c)
        /\ missed' = [missed EXCEPT ![c] = @ \cup {h}]
        /\ Goto(c, IF plan[c] \in AboutOneHost THEN "error" ELSE "hosts")
        /\ UNCHANGED ports
  /\ UNCHANGED <<clock, file, manager, handle, plan, since, at, rows, seen>>

\* A record of the port at hand becomes a row, if it matches.
AddRow(c, p, rec) ==
  rows' = [rows EXCEPT ![c] = IF Matches(plan[c], p, rec) THEN @ \cup {<<p, rec>>} ELSE @]

\* ReadLatestState of the next port of the host.
LatestState(c, p) ==
  /\ pc[c] = "ports" /\ p \in ports[c]
  /\ ports' = [ports EXCEPT ![c] = @ \ {p}]
  /\ \/ /\ Works(c)
        /\ IF since[c] = None
           THEN AddRow(c, p, Latest(p)) /\ UNCHANGED <<pc, at>>
           ELSE /\ at' = [at EXCEPT ![c] = p]
                /\ Goto(c, "history") /\ UNCHANGED rows
        /\ UNCHANGED missed
     \/ /\ Fails(c)
        /\ missed' = [missed EXCEPT ![c] = @ \cup {p[1]}]
        /\ UNCHANGED <<rows, pc, at>>
  /\ UNCHANGED <<clock, file, manager, handle, plan, since, hosts, seen>>

\* Fault: the first record of the history is taken.
HistoryFirst(c) ==
  /\ pc[c] = "history" /\ Works(c)
  /\ LET past == {rec \in bucket[at[c]] : rec.at >= since[c]}
     IN IF past = {} THEN UNCHANGED rows ELSE AddRow(c, at[c], ReadFirst(past, None))
  /\ Goto(c, "ports") /\ at' = [at EXCEPT ![c] = None]
  /\ UNCHANGED <<clock, file, manager, handle, plan, since, hosts, ports, missed, seen>>

\* ReadHistory of the port at hand: the last record of the time range is the row.
History(c) ==
  /\ pc[c] = "history"
  /\ LET past == {rec \in bucket[at[c]] : rec.at >= since[c]} IN
     \/ /\ Works(c) /\ past # {}
        /\ AddRow(c, at[c], ReadLatest(past, None)) /\ UNCHANGED missed
     \/ Works(c) /\ past = {} /\ UNCHANGED <<rows, missed>>
     \/ /\ Fails(c)
        /\ missed' = [missed EXCEPT ![c] = @ \cup {at[c][1]}] /\ UNCHANGED rows
  /\ Goto(c, "ports") /\ at' = [at EXCEPT ![c] = None]
  /\ UNCHANGED <<clock, file, manager, handle, plan, since, hosts, ports, seen>>

\* The host is finished; the last host ends the reading.
NextHost(c) ==
  /\ \/ pc[c] = "ports" /\ ports[c] = {}
     \/ pc[c] = "hosts" /\ hosts[c] = {}
  /\ Goto(c, IF hosts[c] = {} THEN "done" ELSE "hosts")
  /\ UNCHANGED <<clock, file, manager, faults, reading, seen>>

\* The rows, or the error, are the answer.
Answer(c) ==
  /\ pc[c] \in {"done", "error", "busy"}
  /\ Goto(c, "idle")
  /\ handle' = [handle EXCEPT ![c] = None] /\ plan' = [plan EXCEPT ![c] = ListHosts]
  /\ since' = [since EXCEPT ![c] = None]
  /\ hosts' = [hosts EXCEPT ![c] = {}]
  /\ rows' = [rows EXCEPT ![c] = {}] /\ missed' = [missed EXCEPT ![c] = {}]
  /\ held' = [held EXCEPT ![c] = {}] /\ steady' = [steady EXCEPT ![c] = {}]
  /\ UNCHANGED <<clock, file, manager, faults, ports, at>>

Next ==
  \/ Tick \/ CloseAll
  \/ \E c \in Scan : EndScan(c) \/ \E p \in Port, rec \in Record : WriteState(c, p, rec)
  \/ \E c \in Client :
       \/ \E q \in Plans : GetStore(c, q)
       \/ OpenStore(c) \/ ResolveHosts(c)
       \/ \E h \in hosts[c] : OpenPorts(c, h)
       \/ \E p \in ports[c] : LatestState(c, p)
       \/ History(c) \/ NextHost(c) \/ Answer(c)

Spec == Init /\ [][Next]_vars

-----------------------------------------------------------------------------
(***************************************************************************)
(* Properties                                                              *)
(***************************************************************************)

TypeOK ==
  /\ clock \in Time
  /\ bucket \in [Port -> SUBSET Record] /\ written \in 0 .. MaxWrites
  /\ current \in 1 .. MaxHandles \cup {None} /\ live \subseteq 1 .. MaxHandles
  /\ handles \in 0 .. MaxHandles /\ faults \in 0 .. MaxFaults
  /\ pc \in [Client -> {"idle", "lock", "scan", "resolve", "hosts", "ports", "history", "done", "error", "busy"}]
  /\ handle \in [Client -> 1 .. MaxHandles \cup {None}]
  /\ plan \in [Client -> Plan]
  /\ since \in [Client -> Time \cup {None}]
  /\ hosts \in [Client -> SUBSET Host]
  /\ ports \in [Client -> SUBSET Port]
  /\ at \in [Client -> Port \cup {None}]
  /\ rows \in [Client -> SUBSET (Port \X Record)]
  /\ held \in [Client -> SUBSET (Port \X Record)]
  /\ steady \in [Client -> SUBSET Port]
  /\ missed \in [Client -> SUBSET Host]

\* However scans write between the transactions of a reading: every row of an
\* answer was the latest record of its port at some time of the reading, within the
\* time range; and every port that belonged in the answer all the time is in it,
\* unless the store failed on that host.
AnswersAreTrue ==
  \A c \in Client : pc[c] = "done" =>
    /\ rows[c] \subseteq held[c]
    /\ since[c] # None => \A row \in rows[c] : row[2].at >= since[c]
    /\ \A p \in steady[c] : p[1] \in missed[c] \/ \E row \in rows[c] : row[1] = p

\* The requests of a user share one handle on the store: none ever waits for the
\* lock that another one has on the file, and what the map holds is open.
OneHandle ==
  /\ \A c \in Client : pc[c] # "busy"
  /\ current # None => live = {current}
=============================================================================
