---------------------------- MODULE JobRegistry ----------------------------
(***************************************************************************)
(* The job registry of internal/engine/engine.go: the jobs and subscribers *)
(* maps, the scan goroutine of each job, the evictor, and the clients that *)
(* follow a job over a WebSocket (Handlers.StreamScan).  What runs under   *)
(* Engine.mu is one step.  What the scan does with a result before it is   *)
(* published is the matter of AnomalyScan.                                 *)
(***************************************************************************)
EXTENDS JobChannels

CONSTANTS
  Client       \* the connections; each follows one job

VARIABLES
  registered,   \* the keys of Engine.jobs
  status,       \* status[j]: Job.Status
  results,      \* results[j]: Job.Results, the results published so far
  expired,      \* the jobs that started longer than an hour ago
  run,          \* run[j]: none, begin, loop, ended or aborted (defer to come), done
  subscribers,  \* subscribers[j]: the clients whose channels Engine.subscribers[j] has
  pc,           \* pc[c]: idle, checked, streaming, complete, gone
  target,       \* target[c]: the job client c follows, an element of Job
  from,         \* from[c]: results[target[c]] when c subscribed
  buffer,       \* buffer[c]: the results in the channel of c
  closed,       \* the clients whose channel is closed
  got,          \* got[c]: how many results c has received
  slow          \* the clients that missed a result since their channel was full

registry == <<registered, status, results, subscribers>>
client == <<pc, target, from, got>>
vars == <<registry, expired, run, client, buffer, closed, slow>>

TypeOK ==
  /\ registered \subseteq Job
  /\ status \in [Job -> {"running", "completed"}]
  /\ results \in [Job -> 0 .. MaxResults]
  /\ expired \subseteq Job
  /\ run \in [Job -> {"none", "begin", "loop", "ended", "aborted", "done"}]
  /\ subscribers \in [Job -> SUBSET Client]
  /\ pc \in [Client -> {"idle", "checked", "streaming", "complete", "gone"}]
  /\ target \in [Client -> Job]
  /\ from \in [Client -> 0 .. MaxResults]
  /\ buffer \in [Client -> Seq(1 .. MaxResults)]
  /\ closed \subseteq Client
  /\ got \in [Client -> 0 .. MaxResults]
  /\ slow \subseteq Client

Init ==
  /\ registered = {} /\ expired = {} /\ closed = {} /\ slow = {}
  /\ status = [j \in Job |-> "running"]
  /\ results = [j \in Job |-> 0]
  /\ run = [j \in Job |-> "none"]
  /\ subscribers = [j \in Job |-> {}]
  /\ pc = [c \in Client |-> "idle"]
  /\ target \in [Client -> Job]
  /\ from = [c \in Client |-> 0]
  /\ buffer = [c \in Client |-> << >>]
  /\ got = [c \in Client |-> 0]

-----------------------------------------------------------------------------
\* StartScan: the job is registered before its goroutine starts.
StartScan(j) ==
  /\ run[j] = "none"
  /\ registered' = registered \cup {j}
  /\ run' = [run EXCEPT ![j] = "begin"]
  /\ UNCHANGED <<status, results, subscribers, expired, client, buffer, closed, slow>>

\* runScan begins by looking its job up and opening the store of the user, which
\* may fail.
Begin(j) ==
  /\ run[j] = "begin"
  /\ run' = [run EXCEPT ![j] = IF j \in registered THEN "loop" ELSE "done"]
  /\ UNCHANGED <<registry, expired, client, buffer, closed, slow>>
GetStoreFails(j) ==
  /\ run[j] = "begin" /\ j \in registered
  /\ run' = [run EXCEPT ![j] = "aborted"]
  /\ UNCHANGED <<registry, expired, client, buffer, closed, slow>>

\* runScan counts a result and publishes it: it never waits for a subscriber, and
\* a subscriber whose channel is full misses the result.
Publish(j) ==
  LET full == {c \in subscribers[j] : Len(buffer[c]) >= ChanCap} IN
  /\ run[j] = "loop"
  /\ results[j] < MaxResults
  /\ results' = [results EXCEPT ![j] = @ + 1]
  /\ buffer' = [c \in Client |-> IF c \in subscribers[j] \ full
                                 THEN Append(buffer[c], results[j] + 1) ELSE buffer[c]]
  /\ slow' = slow \cup full
  /\ UNCHANGED <<registered, status, subscribers, expired, run, client, closed>>

\* The result loop ends, and Flush, SetMeta and LogScan run.
EndLoop(j) ==
  /\ run[j] = "loop"
  /\ run' = [run EXCEPT ![j] = "ended"]
  /\ UNCHANGED <<registry, expired, client, buffer, closed, slow>>

\* Faults: the deferred function is registered after GetStore; it keeps the
\* subscribers of the job.
ExitUndeferred(j) ==
  /\ run[j] \in {"ended", "aborted"}
  /\ run' = [run EXCEPT ![j] = "done"]
  /\ IF run[j] = "aborted" THEN UNCHANGED <<status, closed, subscribers>>
     ELSE /\ status' = [status EXCEPT ![j] = "completed"]
          /\ closed' = closed \cup subscribers[j]
          /\ subscribers' = [subscribers EXCEPT ![j] = {}]
  /\ UNCHANGED <<registered, results, expired, client, buffer, slow>>
ExitKeeps(j) ==
  /\ run[j] \in {"ended", "aborted"}
  /\ status' = [status EXCEPT ![j] = "completed"]
  /\ closed' = closed \cup subscribers[j]
  /\ run' = [run EXCEPT ![j] = "done"]
  /\ UNCHANGED <<registered, subscribers, results, expired, client, buffer, slow>>

\* The deferred function of runScan.
Exit(j) ==
  /\ run[j] \in {"ended", "aborted"}
  /\ status' = [status EXCEPT ![j] = "completed"]
  /\ closed' = closed \cup subscribers[j]
  /\ subscribers' = [subscribers EXCEPT ![j] = {}]
  /\ run' = [run EXCEPT ![j] = "done"]
  /\ UNCHANGED <<registered, results, expired, client, buffer, slow>>

\* An hour has passed since the job started.
Expire(j) ==
  /\ j \in registered \ expired
  /\ expired' = expired \cup {j}
  /\ UNCHANGED <<registry, run, client, buffer, closed, slow>>

\* Fault: the evictor does not look at the status.
EvictAll ==
  /\ registered' = registered \ expired /\ registered' # registered
  /\ UNCHANGED <<status, results, subscribers, expired, run, client, buffer, closed, slow>>

\* The evictor forgets every finished job that started more than an hour ago.
Evict ==
  /\ registered' = {j \in registered : status[j] = "running" \/ j \notin expired}
  /\ registered' # registered
  /\ UNCHANGED <<status, results, subscribers, expired, run, client, buffer, closed, slow>>

-----------------------------------------------------------------------------
\* StreamScan finds the job and upgrades the connection.
CheckJob(c) ==
  /\ pc[c] = "idle"
  /\ target[c] \in registered
  /\ pc' = [pc EXCEPT ![c] = "checked"]
  /\ UNCHANGED <<registry, expired, run, target, from, got, buffer, closed, slow>>

\* Fault: a new subscriber replaces the others.
SubscribeAlone(c) ==
  /\ pc[c] = "checked"
  /\ pc' = [pc EXCEPT ![c] = "streaming"]
  /\ from' = [from EXCEPT ![c] = results[target[c]]]
  /\ subscribers' = [subscribers EXCEPT ![target[c]] = {c}]
  /\ UNCHANGED <<registered, status, results, expired, run, target, got, buffer, closed, slow>>

\* Subscribe, on the upgraded connection, adds a new channel to the job's
\* subscribers; it does not look at the job.
Subscribe(c) ==
  /\ pc[c] = "checked"
  /\ pc' = [pc EXCEPT ![c] = "streaming"]
  /\ from' = [from EXCEPT ![c] = results[target[c]]]
  /\ subscribers' = [subscribers EXCEPT ![target[c]] = @ \cup {c}]
  /\ UNCHANGED <<registered, status, results, expired, run, target, got, buffer, closed, slow>>

\* The handler receives a result and writes it to the connection.
Receive(c) ==
  /\ pc[c] = "streaming"
  /\ buffer[c] # << >>
  /\ buffer' = [buffer EXCEPT ![c] = Tail(@)]
  /\ got' = [got EXCEPT ![c] = @ + 1]
  /\ UNCHANGED <<registry, expired, run, pc, target, from, closed, slow>>

\* Fault: the handler looks at the end of the scan before it looks at the channel.
CompleteFirst(c) ==
  /\ pc[c] = "streaming" /\ c \in closed
  /\ pc' = [pc EXCEPT ![c] = "complete"]
  /\ UNCHANGED <<registry, expired, run, target, from, got, buffer, closed, slow>>

\* The channel is closed and empty: the handler sends "complete" and returns.
Complete(c) ==
  /\ pc[c] = "streaming"
  /\ buffer[c] = << >> /\ c \in closed
  /\ pc' = [pc EXCEPT ![c] = "complete"]
  /\ UNCHANGED <<registry, expired, run, target, from, got, buffer, closed, slow>>

\* Writing a result or a ping fails: the handler returns, and its channel stays
\* among the subscribers.
Disconnect(c) ==
  /\ pc[c] = "streaming"
  /\ pc' = [pc EXCEPT ![c] = "gone"]
  /\ UNCHANGED <<registry, expired, run, target, from, got, buffer, closed, slow>>

ScanStep(j) == Begin(j) \/ GetStoreFails(j) \/ Publish(j) \/ EndLoop(j) \/ Exit(j)
ClientStep(c) == Subscribe(c) \/ Receive(c) \/ Complete(c)

Next ==
  \/ \E j \in Job : StartScan(j) \/ ScanStep(j) \/ Expire(j)
  \/ Evict
  \/ \E c \in Client : CheckJob(c) \/ ClientStep(c) \/ Disconnect(c)

\* A started scan ends (ScanPool!Terminates), and a connection that is open is
\* served.  Nobody has to start a scan or to connect.
Fairness ==
  /\ \A j \in Job : WF_vars(ScanStep(j))
  /\ \A c \in Client : WF_vars(ClientStep(c))

Spec == Init /\ [][Next]_vars /\ Fairness

-----------------------------------------------------------------------------
(***************************************************************************)
(* Properties                                                              *)
(***************************************************************************)

\* The evictor never takes the job of a scan that still runs: runScan and its
\* deferred function use e.jobs[jobID] without looking whether it is there.
RunningIsRegistered ==
  \A j \in Job : run[j] \notin {"none", "done"} => j \in registered /\ status[j] = "running"

\* The channels a scan sends on and closes are open, and they are those of its
\* own followers: no send on a closed channel, no channel closed twice.
ChannelsAreOpen ==
  \A j \in Job : \A c \in subscribers[j] : c \notin closed /\ target[c] = j

\* Every client is served as Subscribe promises, whoever else comes and goes: a
\* step of the engine does to its channel what JobFeed allows, and nothing else.
Line(c) == IF c \in closed THEN "closed"
           ELSE IF c \in subscribers[target[c]] THEN "open" ELSE "none"
Feed == INSTANCE JobFeed WITH
          Follower <- Client,
          published <- [c \in Client |-> results[target[c]]],
          over <- [c \in Client |-> run[target[c]] = "done"],
          line <- [c \in Client |-> Line(c)],
          queue <- buffer
ServesClients == Feed!Spec

\* A client is sent the results in the order of their publication, and one that
\* is not slow is sent all of them since it subscribed: the channel holds
\* exactly what it has not received yet.
StreamIsComplete ==
  \A c \in Client :
    /\ \A m, n \in 1 .. Len(buffer[c]) : m < n => buffer[c][m] < buffer[c][n]
    /\ pc[c] = "streaming" /\ c \notin slow =>
         buffer[c] = [n \in 1 .. results[target[c]] - from[c] - got[c] |-> from[c] + got[c] + n]

\* A client that is told "complete" follows a job whose scan has ended, and has
\* received all results since it subscribed unless it was slow.
CompleteMeansDone ==
  \A c \in Client : pc[c] = "complete" =>
    /\ run[target[c]] = "done"
    /\ c \notin slow => from[c] + got[c] = results[target[c]]

\* Every client that subscribed while the scan ran is told that it ended, unless
\* the connection breaks: the scan does not wait for its clients, and the
\* deferred function closes every channel.
EarlyClientsComplete ==
  \A c \in Client :
    pc[c] = "streaming" /\ run[target[c]] # "done" ~> pc[c] \in {"complete", "gone"}
=============================================================================
