---------------------------- MODULE AnomalyScan ----------------------------
(***************************************************************************)
(* The scans of one user: Engine.runScan (internal/engine/engine.go) from  *)
(* the scanner's results to the flush, the anomaly engine it creates for   *)
(* itself (internal/anomaly/engine.go) and the user's store, which all     *)
(* scans of the user share.                                                *)
(*                                                                         *)
(* Every bbolt transaction is one step, so that the scans of Scan          *)
(* interleave between the transactions: Process reads the latest state,    *)
(* writes the new one and dispatches each alert in steps of their own, and *)
(* so does Flush.  A scan in Scan runs again after it has ended: one       *)
(* element of Scan is a user whose scans never overlap.                    *)
(***************************************************************************)
EXTENDS TemporalStore

CONSTANTS
  Host, Port,    \* the addresses, and the port/protocol pairs, of the targets
  Scan,          \* the scans that may run at the same time
  Facet,         \* the drift types of diff that compare two texts
  Look,          \* the non-empty texts a facet may show
  Blank,         \* the empty text
  Latency,       \* the values of ResponseMs
  NoRecord, NoResult,
  StoreMayFail,  \* whether a bbolt transaction may return an error
  MaxTime        \* the bound of the clock

Endpoint == Host \X Port
Record == [at : Nat, open : BOOLEAN, face : [Facet -> Look \cup {Blank}], ms : Latency \cup {0}]
Result == [ep : Endpoint, rec : Record]
Drift == {"banner-drift", "version-drift", "cert-rotation", "latency-spike"}
EventType == {"new-port", "port-closed"} \cup Drift
Alert == [at : Nat, ep : Endpoint, type : EventType]

ASSUME FacetAssumption == Facet \subseteq Drift \ {"latency-spike"}
ASSUME BlankAssumption == Blank \notin Look
ASSUME LatencyAssumption == Latency \subseteq Nat
ASSUME NoneAssumption == NoRecord \notin Record /\ NoResult \notin Result
ASSUME FailAssumption == StoreMayFail \in BOOLEAN
ASSUME TimeAssumption == MaxTime \in Nat

VARIABLES
  clock,      \* time.Now()
  history,    \* history[e]: the records in the bucket hosts/<ip>/<port/proto>
  alerts,     \* the alerts bucket
  listener,   \* listener[e]: the last new-port or port-closed alert the sinks got
  phase,      \* phase[s]: idle, collect (the result loop), flush (Flush)
  step,       \* step[s]: next, write (before WriteState), dispatch (alerts to send)
  probe,      \* probe[s][e]: out (not a target), todo, up, silent
  results,    \* results[s]: answers probed and not yet taken by the result loop
  seen,       \* seenPorts of the anomaly engine of scan s
  cur, prev,  \* cur[s], prev[s]: the record being written and the one read before it
  events,     \* events[s]: the events of cur[s] still to dispatch
  hosts,      \* hosts[s]: the addresses Flush has still to look at
  openList,   \* openList[s]: the open ports Flush read for the present address
  cancelled   \* cancelled[s]: ctx.Err() # nil

store == <<history, alerts, listener>>
scanner == <<probe, results>>
engine == <<phase, step, seen, cur, prev, events, hosts, openList>>
vars == <<clock, store, scanner, engine, cancelled>>
-----------------------------------------------------------------------------
\* Fault: Flush writes the port back without clearing Open.
StillOpen(t) == [at |-> t, open |-> TRUE, face |-> [f \in Facet |-> Blank], ms |-> 0]
Closed(t) == [at |-> t, open |-> FALSE, face |-> [f \in Facet |-> Blank], ms |-> 0]

\* Faults of diff: only a port without history is new; every open port is new.
DiffForgetsClosed(old, new) ==
  IF new.open /\ old = NoRecord THEN {"new-port"}
  ELSE IF ~new.open \/ old = NoRecord THEN {}
  ELSE {f \in Facet : Blank \notin {old.face[f], new.face[f]} /\ old.face[f] # new.face[f]}
DiffIgnoresOld(old, new) == IF new.open THEN {"new-port"} ELSE {}

\* The events diff returns for two records.  All events of a pair carry the
\* timestamp of the new record.
Diff(old, new) ==
  IF new.open /\ (IF old = NoRecord THEN TRUE ELSE ~old.open) THEN {"new-port"}
  ELSE IF ~new.open \/ old = NoRecord THEN {}
  ELSE {f \in Facet : /\ Blank \notin {old.face[f], new.face[f]}
                      /\ old.face[f] # new.face[f]}
       \cup {f \in {"latency-spike"} : old.ms > 0 /\ new.ms > old.ms * 3}

\* The order in which diff lists its events, which is the order of dispatch.
Rank == [type \in EventType |->
  CASE type = "banner-drift" -> 1 [] type = "version-drift" -> 2
    [] type = "cert-rotation" -> 3 [] type = "latency-spike" -> 4 [] OTHER -> 0]
IsNextEvent(s, type) ==
  type \in events[s] /\ \A other \in events[s] : Rank[type] <= Rank[other]

Latest(e) == ReadLatest(history[e], NoRecord)
IsOpen(e) == LatestIsOpen(history[e])

Init ==
  /\ clock = 0
  /\ history = [e \in Endpoint |-> {}]
  /\ alerts = {}
  /\ listener = [e \in Endpoint |-> "none"]
  /\ phase = [s \in Scan |-> "idle"]
  /\ step = [s \in Scan |-> "next"]
  /\ probe = [s \in Scan |-> [e \in Endpoint |-> "out"]]
  /\ results = [s \in Scan |-> {}]
  /\ seen = [s \in Scan |-> {}]
  /\ cur = [s \in Scan |-> NoResult]
  /\ prev = [s \in Scan |-> NoRecord]
  /\ events = [s \in Scan |-> {}]
  /\ hosts = [s \in Scan |-> {}]
  /\ openList = [s \in Scan |-> {}]
  /\ cancelled = [s \in Scan |-> FALSE]

Tick ==
  /\ clock < MaxTime
  /\ clock' = clock + 1
  /\ UNCHANGED <<store, scanner, engine, cancelled>>

\* runScan begins with a target of the addresses hs and the ports ps: a new
\* anomaly engine, with nothing seen.
Start(s, hs, ps) ==
  /\ phase[s] = "idle"
  /\ hs # {} /\ ps # {}
  /\ phase' = [phase EXCEPT ![s] = "collect"]
  /\ probe' = [probe EXCEPT ![s] =
                 [e \in Endpoint |-> IF e \in hs \X ps THEN "todo" ELSE "out"]]
  /\ seen' = [seen EXCEPT ![s] = {}]
  /\ hosts' = [hosts EXCEPT ![s] = hs]
  /\ UNCHANGED <<clock, store, step, results, cur, prev, events, openList, cancelled>>

\* The context of the scan is cancelled.
Cancel(s) ==
  /\ phase[s] # "idle"
  /\ ~cancelled[s]
  /\ cancelled' = [cancelled EXCEPT ![s] = TRUE]
  /\ UNCHANGED <<clock, store, scanner, engine>>

\* A cancelled scan that was still predicting ports returns before it probes
\* anything, and does not flush.
Abandon(s) ==
  /\ phase[s] = "collect"
  /\ step[s] = "next"
  /\ cancelled[s]
  /\ \A e \in Endpoint : probe[s][e] \in {"out", "todo"}
  /\ phase' = [phase EXCEPT ![s] = "idle"]
  /\ probe' = [probe EXCEPT ![s] = [e \in Endpoint |-> "out"]]
  /\ hosts' = [hosts EXCEPT ![s] = {}]
  /\ cancelled' = [cancelled EXCEPT ![s] = FALSE]
  /\ UNCHANGED <<clock, store, step, results, seen, cur, prev, events, openList>>

\* A worker probes e and gets an answer, which it sends to the result loop.
ProbeUp(s, e, face, ms) ==
  /\ phase[s] = "collect"
  /\ ~cancelled[s]
  /\ probe[s][e] = "todo"
  /\ probe' = [probe EXCEPT ![s][e] = "up"]
  /\ results' = [results EXCEPT ![s] = @ \cup
       {[ep |-> e, rec |-> [at |-> clock, open |-> TRUE, face |-> face, ms |-> ms]]}]
  /\ UNCHANGED <<clock, store, engine, cancelled>>

\* A worker gets no answer from e: only open ports are sent.
ProbeSilent(s, e) ==
  /\ phase[s] = "collect"
  /\ ~cancelled[s]
  /\ probe[s][e] = "todo"
  /\ probe' = [probe EXCEPT ![s][e] = "silent"]
  /\ UNCHANGED <<clock, store, results, engine, cancelled>>

\* A worker of a cancelled scan may drop the answer it was about to send.
DropResult(s, r) ==
  /\ cancelled[s]
  /\ r \in results[s]
  /\ results' = [results EXCEPT ![s] = @ \ {r}]
  /\ UNCHANGED <<clock, store, probe, engine, cancelled>>

\* The result loop hands a result to Process, which marks the port as seen and
\* reads its latest state; after an error prev stays nil.
TakeResult(s, r) ==
  /\ phase[s] = "collect"
  /\ step[s] = "next"
  /\ r \in results[s]
  /\ results' = [results EXCEPT ![s] = @ \ {r}]
  /\ seen' = [seen EXCEPT ![s] = @ \cup {r.ep}]
  /\ cur' = [cur EXCEPT ![s] = r]
  /\ \/ prev' = [prev EXCEPT ![s] = Latest(r.ep)]
     \/ StoreMayFail /\ prev' = [prev EXCEPT ![s] = NoRecord]
  /\ step' = [step EXCEPT ![s] = "write"]
  /\ UNCHANGED <<clock, store, phase, probe, events, hosts, openList, cancelled>>

\* Process and Flush write the new state and go on to the alerts, whether the
\* write succeeded or not.
WriteState(s) ==
  /\ step[s] = "write"
  /\ \/ history' = [history EXCEPT ![cur[s].ep] = PutAt(@, cur[s].rec)]
     \/ StoreMayFail /\ UNCHANGED history
  /\ events' = [events EXCEPT ![s] = IF phase[s] = "flush" THEN {"port-closed"}
                                     ELSE Diff(prev[s], cur[s].rec)]
  /\ IF events'[s] = {}
     THEN /\ step' = [step EXCEPT ![s] = "next"]
          /\ cur' = [cur EXCEPT ![s] = NoResult]
     ELSE /\ step' = [step EXCEPT ![s] = "dispatch"]
          /\ UNCHANGED cur
  /\ prev' = [prev EXCEPT ![s] = NoRecord]
  /\ UNCHANGED <<clock, alerts, listener, scanner, phase, seen, hosts, openList, cancelled>>

\* dispatch stores one event and sends it to the sinks.  The events of Process
\* have the time of the probe, the event of Flush has the present time.
Dispatch(s) ==
  /\ step[s] = "dispatch"
  /\ \E type \in EventType :
       /\ IsNextEvent(s, type)
       /\ \/ alerts' = PutAt(alerts,
               [at |-> IF type = "port-closed" THEN clock ELSE cur[s].rec.at,
                ep |-> cur[s].ep, type |-> type])
          \/ StoreMayFail /\ UNCHANGED alerts
       /\ listener' = IF type \in Drift THEN listener
                      ELSE [listener EXCEPT ![cur[s].ep] = type]
       /\ events' = [events EXCEPT ![s] = @ \ {type}]
  /\ IF events'[s] = {}
     THEN /\ step' = [step EXCEPT ![s] = "next"]
          /\ cur' = [cur EXCEPT ![s] = NoResult]
     ELSE UNCHANGED <<step, cur>>
  /\ UNCHANGED <<clock, history, scanner, phase, seen, prev, hosts, openList, cancelled>>

\* Fault: Flush starts when every port is probed, not when every result is in.
EndCollectEarly(s) ==
  /\ phase[s] = "collect" /\ step[s] = "next"
  /\ cancelled[s] \/ \A e \in Endpoint : probe[s][e] # "todo"
  /\ phase' = [phase EXCEPT ![s] = "flush"]
  /\ UNCHANGED <<clock, store, scanner, step, seen, cur, prev, events, hosts,
                 openList, cancelled>>

\* The result channel is closed and drained; Flush follows, also after a
\* cancellation.
EndCollect(s) ==
  /\ phase[s] = "collect"
  /\ step[s] = "next"
  /\ results[s] = {}
  /\ cancelled[s] \/ \A e \in Endpoint : probe[s][e] # "todo"
  /\ phase' = [phase EXCEPT ![s] = "flush"]
  /\ UNCHANGED <<clock, store, scanner, step, seen, cur, prev, events, hosts,
                 openList, cancelled>>

\* Flush reads the open ports of its next address; after an error it skips it.
FlushHost(s, h) ==
  /\ phase[s] = "flush"
  /\ step[s] = "next"
  /\ openList[s] = {}
  /\ h \in hosts[s]
  /\ hosts' = [hosts EXCEPT ![s] = @ \ {h}]
  /\ \/ openList' = [openList EXCEPT ![s] = {e \in {h} \X Port : IsOpen(e)}]
     \/ StoreMayFail /\ UNCHANGED openList
  /\ UNCHANGED <<clock, store, scanner, phase, step, seen, cur, prev, events, cancelled>>

\* Flush takes the next open port of the address: a port the scan saw, and one
\* that is no longer open (or whose state cannot be read), is left alone.
FlushPort(s, e) ==
  /\ phase[s] = "flush"
  /\ step[s] = "next"
  /\ e \in openList[s]
  /\ openList' = [openList EXCEPT ![s] = @ \ {e}]
  /\ \/ /\ e \in seen[s] \/ ~IsOpen(e) \/ StoreMayFail
        /\ UNCHANGED <<step, cur, prev>>
     \/ /\ e \notin seen[s] /\ IsOpen(e)
        /\ cur' = [cur EXCEPT ![s] = [ep |-> e, rec |-> Closed(clock)]]
        /\ prev' = [prev EXCEPT ![s] = Latest(e)]
        /\ step' = [step EXCEPT ![s] = "write"]
  /\ UNCHANGED <<clock, store, scanner, phase, seen, events, hosts, cancelled>>

\* Fault: runScan returns while the last port is still being written.
FinishEarly(s) ==
  /\ phase[s] = "flush" /\ hosts[s] = {} /\ openList[s] = {}
  /\ phase' = [phase EXCEPT ![s] = "idle"]
  /\ probe' = [probe EXCEPT ![s] = [e \in Endpoint |-> "out"]]
  /\ seen' = [seen EXCEPT ![s] = {}]
  /\ cancelled' = [cancelled EXCEPT ![s] = FALSE]
  /\ UNCHANGED <<clock, store, step, results, cur, prev, events, hosts, openList>>

\* Flush has looked at every address and runScan returns.
Finish(s) ==
  /\ phase[s] = "flush"
  /\ step[s] = "next"
  /\ hosts[s] = {} /\ openList[s] = {}
  /\ phase' = [phase EXCEPT ![s] = "idle"]
  /\ probe' = [probe EXCEPT ![s] = [e \in Endpoint |-> "out"]]
  /\ seen' = [seen EXCEPT ![s] = {}]
  /\ cancelled' = [cancelled EXCEPT ![s] = FALSE]
  /\ UNCHANGED <<clock, store, step, results, cur, prev, events, hosts, openList>>

Next ==
  \/ Tick
  \/ \E s \in Scan :
       \/ \E hs \in SUBSET Host, ps \in SUBSET Port : Start(s, hs, ps)
       \/ Cancel(s)
       \/ Abandon(s)
       \/ \E e \in Endpoint, face \in [Facet -> Look \cup {Blank}], ms \in Latency :
            ProbeUp(s, e, face, ms)
       \/ \E e \in Endpoint : ProbeSilent(s, e)
       \/ \E r \in results[s] : DropResult(s, r) \/ TakeResult(s, r)
       \/ WriteState(s)
       \/ Dispatch(s)
       \/ EndCollect(s)
       \/ \E h \in hosts[s] : FlushHost(s, h)
       \/ \E e \in openList[s] : FlushPort(s, e)
       \/ Finish(s)

Spec == Init /\ [][Next]_vars
-----------------------------------------------------------------------------
(***************************************************************************)
(* Properties                                                              *)
(***************************************************************************)

\* The types of the variables, and which of cur and events a step goes with.
TypeOK ==
  /\ clock \in Nat
  /\ history \in [Endpoint -> SUBSET Record]
  /\ alerts \subseteq Alert
  /\ listener \in [Endpoint -> {"none", "new-port", "port-closed"}]
  /\ phase \in [Scan -> {"idle", "collect", "flush"}]
  /\ step \in [Scan -> {"next", "write", "dispatch"}]
  /\ probe \in [Scan -> [Endpoint -> {"out", "todo", "up", "silent"}]]
  /\ results \in [Scan -> SUBSET Result]
  /\ seen \in [Scan -> SUBSET Endpoint]
  /\ cur \in [Scan -> Result \cup {NoResult}]
  /\ prev \in [Scan -> Record \cup {NoRecord}]
  /\ events \in [Scan -> SUBSET EventType]
  /\ hosts \in [Scan -> SUBSET Host]
  /\ openList \in [Scan -> SUBSET Endpoint]
  /\ cancelled \in [Scan -> BOOLEAN]
  /\ \A s \in Scan : step[s] # "next" => phase[s] # "idle" /\ cur[s] \in Result

\* What the dashboard and the listener of the alerts see of the endpoints.
PL == INSTANCE PortLifecycle WITH
        stored <- [e \in Endpoint |-> IsOpen(e)],
        believed <- [e \in Endpoint |-> listener[e] = "new-port"]

\* Scans that do not overlap announce every stored change of an endpoint
\* exactly once and in order, and announce nothing else: new-port and
\* port-closed alerts of an endpoint alternate and agree with the store
\* (Process, Flush, WriteState, ReadLatestState).
Lifecycle == PL!Spec

\* At the end of an uncancelled scan (no overlap) the store says "open" of
\* exactly those endpoints of the scanned addresses that answered this scan: no
\* result was lost between the workers, Process and Flush.
ScanReflectsProbe ==
  \A s \in Scan :
    phase[s] = "flush" /\ step[s] = "next" /\ hosts[s] = {} /\ openList[s] = {}
      /\ ~cancelled[s]
    => \A e, target \in Endpoint :
         probe[s][target] # "out" /\ e[1] = target[1] => (IsOpen(e) <=> probe[s][e] = "up")

\* Scan s sends an alert of this type about endpoint e in this step.
Sends(s, e, type) ==
  step[s] = "dispatch" /\ cur[s].ep = e /\ IsNextEvent(s, type) /\ type \notin events'[s]

\* What the alerts said of e agrees with the store.
InSync(e) == IsOpen(e) <=> listener[e] = "new-port"

\* No record of the result's endpoint is younger than the result.
IsNewest(r) == \A h \in history[r.ep] : h.at <= r.rec.at

\* The results a scan holds are younger than what is stored about their
\* endpoints, and there is one per endpoint.
ResultsInv(s) ==
  /\ phase[s] # "collect" => results[s] = {}
  /\ \A r, q \in results[s] : r.ep = q.ep => r = q
  /\ \A r \in results[s] :
       /\ r.rec.open /\ IsNewest(r) /\ probe[s][r.ep] = "up"
       /\ step[s] = "write" => cur[s].ep # r.ep

\* prev is the latest state of the endpoint about to be written.
WriteInv(s) ==
  step[s] = "write" =>
    /\ IsNewest(cur[s])
    /\ prev[s] = Latest(cur[s].ep)
    /\ IF phase[s] = "collect"
       THEN cur[s].rec.open /\ probe[s][cur[s].ep] = "up"
       ELSE ~cur[s].rec.open /\ IsOpen(cur[s].ep)

\* The alerts a scan is about to dispatch are those the store calls for.
DispatchInv(s) ==
  step[s] = "dispatch" =>
    \/ events[s] = {"new-port"} /\ IsOpen(cur[s].ep) /\ ~InSync(cur[s].ep)
    \/ events[s] = {"port-closed"} /\ ~IsOpen(cur[s].ep) /\ ~InSync(cur[s].ep)
    \/ events[s] \subseteq Drift /\ IsOpen(cur[s].ep) /\ InSync(cur[s].ep)

\* The listener does not know the stored state of an endpoint only while the
\* alert about it is being dispatched.
Agreement ==
  \A e \in Endpoint :
    InSync(e) \/ \E s \in Scan : /\ step[s] = "dispatch"
                                 /\ cur[s].ep = e
                                 /\ events[s] \in {{"new-port"}, {"port-closed"}}

\* What a scan that overlaps no other knows between its transactions
\* (Process, Flush): nobody else writes what it has read.
SerialInv ==
  Agreement /\ \A s \in Scan : ResultsInv(s) /\ WriteInv(s) /\ DispatchInv(s)

\* A drift alert is only sent about an endpoint that the listener was told is
\* open (no overlap): diff compares two open records of one endpoint.
DriftOnlyAfterNewPort ==
  [][\A s \in Scan, e \in Endpoint, type \in Drift :
       Sends(s, e, type) => listener[e] = "new-port"]_vars

\* A scan that was not cancelled writes and announces as closed no endpoint
\* that answered it, whatever other scans do: Flush starts after the last
\* result was processed and knows all of them.
AnsweringIsNotClosed ==
  \A s \in Scan :
    phase[s] = "flush" /\ step[s] # "next" /\ ~cancelled[s] => probe[s][cur[s].ep] # "up"

\* The latest state of an endpoint never goes back in time, although a scan may
\* write a record that is older than one another scan wrote: the store orders
\* records by their own time and not by their arrival.
LatestNeverRewinds ==
  [][\A e \in Endpoint : \A r \in history[e] :
       \E q \in history'[e] : q.at >= r.at]_vars
=============================================================================
