----------------------------- MODULE ScanPool ------------------------------
(***************************************************************************)
(* The worker pool behind Scanner.Scan, the same in scanner.go, syn.go and *)
(* udp.go: a feeder that sends one job per address and port into a bounded *)
(* channel, workers that probe and send what is open into the bounded      *)
(* result channel, and the engine's loop that ranges over it.  The context *)
(* may be cancelled between any two steps.                                 *)
(*                                                                         *)
(* Jobs are numbered in the order the feeder sends them, so a first-in     *)
(* first-out job channel holds the jobs taken+1 .. fed.  No property looks *)
(* at the order of results, so the result channel is a set.                *)
(***************************************************************************)
EXTENDS Naturals, FiniteSets

CONSTANTS
  Jobs,       \* the number of jobs: addresses times ports
  Worker,     \* the workers, Concurrency many
  JobCap,     \* the capacity of the job channel
  ResultCap,  \* the capacity of the result channel
  Limited     \* whether the pool waits for a rate limiter before each probe

ASSUME JobsAssumption == Jobs \in Nat
ASSUME WorkerAssumption == Worker # {} /\ IsFiniteSet(Worker)
ASSUME CapAssumption == JobCap \in Nat \ {0} /\ ResultCap \in Nat \ {0}
ASSUME LimitedAssumption == Limited \in BOOLEAN

Job == 1 .. Jobs

VARIABLES
  up,         \* the jobs whose port answers
  cancelled,  \* ctx.Err() # nil
  feeder,     \* feed, wait (job channel closed, in wg.Wait), closed (results closed)
  fed,        \* how many jobs the feeder has sent
  taken,      \* how many jobs the workers have received
  pc,         \* pc[w]: recv, check, limit, probe, send, done
  job,        \* job[w]: the job worker w holds, 0 for none
  probes,     \* probes[j]: how often j was probed
  results,    \* the result channel
  delivered,  \* what the result loop has received
  ended       \* the result loop has ended

pool == <<feeder, fed, taken, pc, job, probes>>
vars == <<up, cancelled, pool, results, delivered, ended>>

Init ==
  /\ up \in SUBSET Job
  /\ cancelled = FALSE
  /\ feeder = "feed"
  /\ fed = 0
  /\ taken = 0
  /\ pc = [w \in Worker |-> "recv"]
  /\ job = [w \in Worker |-> 0]
  /\ probes = [j \in Job |-> 0]
  /\ results = {}
  /\ delivered = {}
  /\ ended = FALSE

-----------------------------------------------------------------------------
\* The feeder sends the next job; select waits while the channel is full.
Feed ==
  /\ feeder = "feed"
  /\ fed < Jobs
  /\ fed - taken < JobCap
  /\ fed' = fed + 1
  /\ UNCHANGED <<up, cancelled, feeder, taken, pc, job, probes, results, delivered, ended>>

\* Fault: a feeder that does not select on ctx.Done().
CloseJobsFedOnly ==
  /\ feeder = "feed" /\ fed = Jobs
  /\ feeder' = "wait"
  /\ UNCHANGED <<up, cancelled, fed, taken, pc, job, probes, results, delivered, ended>>

\* The feeder closes the job channel: every job is sent, or it took the
\* ctx.Done() branch of select instead of sending.
CloseJobs ==
  /\ feeder = "feed"
  /\ fed = Jobs \/ cancelled
  /\ feeder' = "wait"
  /\ UNCHANGED <<up, cancelled, fed, taken, pc, job, probes, results, delivered, ended>>

\* Fault: no wg.Wait() before close(results).
CloseResultsAtOnce ==
  /\ feeder = "wait"
  /\ feeder' = "closed"
  /\ UNCHANGED <<up, cancelled, fed, taken, pc, job, probes, results, delivered, ended>>

\* wg.Wait() returns and the deferred close(results) runs.
CloseResults ==
  /\ feeder = "wait"
  /\ \A w \in Worker : pc[w] = "done"
  /\ feeder' = "closed"
  /\ UNCHANGED <<up, cancelled, fed, taken, pc, job, probes, results, delivered, ended>>

-----------------------------------------------------------------------------
\* Fault: a receive that does not see that the channel is empty.
ReceiveAlways(w) ==
  /\ pc[w] = "recv" /\ taken < Jobs
  /\ taken' = taken + 1
  /\ job' = [job EXCEPT ![w] = taken + 1]
  /\ pc' = [pc EXCEPT ![w] = "check"]
  /\ UNCHANGED <<up, cancelled, feeder, fed, probes, results, delivered, ended>>

\* A worker receives a job.
Receive(w) ==
  /\ pc[w] = "recv"
  /\ taken < fed
  /\ taken' = taken + 1
  /\ job' = [job EXCEPT ![w] = taken + 1]
  /\ pc' = [pc EXCEPT ![w] = "check"]
  /\ UNCHANGED <<up, cancelled, feeder, fed, probes, results, delivered, ended>>

\* The job channel is closed and empty: range ends, wg.Done.
Drained(w) ==
  /\ pc[w] = "recv"
  /\ taken = fed /\ feeder # "feed"
  /\ pc' = [pc EXCEPT ![w] = "done"]
  /\ UNCHANGED <<up, cancelled, feeder, fed, taken, job, probes, results, delivered, ended>>

\* A worker leaves with the job in hand: ctx.Err() after receiving it, an error
\* of limiter.Wait, or the ctx.Done() branch while sending the result.
Leave(w) ==
  /\ pc[w] \in {"check", "limit", "send"}
  /\ cancelled
  /\ pc' = [pc EXCEPT ![w] = "done"]
  /\ job' = [job EXCEPT ![w] = 0]
  /\ UNCHANGED <<up, cancelled, feeder, fed, taken, probes, results, delivered, ended>>

\* The context is not cancelled yet: go on to the rate limiter, if there is one.
Check(w) ==
  /\ pc[w] = "check"
  /\ ~cancelled
  /\ pc' = [pc EXCEPT ![w] = IF Limited THEN "limit" ELSE "probe"]
  /\ UNCHANGED <<up, cancelled, feeder, fed, taken, job, probes, results, delivered, ended>>

\* The rate limiter lets the probe through.
Limit(w) ==
  /\ pc[w] = "limit"
  /\ ~cancelled
  /\ pc' = [pc EXCEPT ![w] = "probe"]
  /\ UNCHANGED <<up, cancelled, feeder, fed, taken, job, probes, results, delivered, ended>>

\* Fault: a port that does not answer is tried again.
ProbeRetries(w) ==
  /\ pc[w] = "probe"
  /\ probes[job[w]] < 2
  /\ probes' = [probes EXCEPT ![job[w]] = @ + 1]
  /\ pc' = [pc EXCEPT ![w] = IF job[w] \in up THEN "send" ELSE "check"]
  /\ UNCHANGED <<up, cancelled, feeder, fed, taken, job, results, delivered, ended>>

\* A probe of an open port finds it open; the probe of a closed one, or one a
\* cancelled context cuts short, does not, and the worker takes the next job.
Probe(w) ==
  /\ pc[w] = "probe"
  /\ probes' = [probes EXCEPT ![job[w]] = @ + 1]
  /\ \/ /\ job[w] \in up
        /\ pc' = [pc EXCEPT ![w] = "send"]
        /\ UNCHANGED job
     \/ /\ job[w] \notin up \/ cancelled
        /\ pc' = [pc EXCEPT ![w] = "recv"]
        /\ job' = [job EXCEPT ![w] = 0]
  /\ UNCHANGED <<up, cancelled, feeder, fed, taken, results, delivered, ended>>

\* The worker sends the result; select waits while the channel is full.
Send(w) ==
  /\ pc[w] = "send"
  /\ Cardinality(results) < ResultCap
  /\ results' = results \cup {job[w]}
  /\ pc' = [pc EXCEPT ![w] = "recv"]
  /\ job' = [job EXCEPT ![w] = 0]
  /\ UNCHANGED <<up, cancelled, feeder, fed, taken, probes, delivered, ended>>

-----------------------------------------------------------------------------
\* The result loop of the engine receives a result; it never stops early, also
\* not when the context is cancelled.
Consume(j) ==
  /\ j \in results
  /\ results' = results \ {j}
  /\ delivered' = delivered \cup {j}
  /\ UNCHANGED <<up, cancelled, pool, ended>>

\* Fault: the loop ends at the first empty channel.
EndLoopWhenEmpty ==
  /\ ~ended /\ results = {}
  /\ ended' = TRUE
  /\ UNCHANGED <<up, cancelled, pool, results, delivered>>

\* The result channel is closed and empty: the loop ends.
EndLoop ==
  /\ ~ended
  /\ feeder = "closed" /\ results = {}
  /\ ended' = TRUE
  /\ UNCHANGED <<up, cancelled, pool, results, delivered>>

Cancel ==
  /\ ~cancelled
  /\ cancelled' = TRUE
  /\ UNCHANGED <<up, pool, results, delivered, ended>>

FeederStep == Feed \/ CloseJobs \/ CloseResults
WorkerStep(w) ==
  Receive(w) \/ Drained(w) \/ Leave(w) \/ Check(w) \/ Limit(w) \/ Probe(w) \/ Send(w)
LoopStep == (\E j \in results : Consume(j)) \/ EndLoop

Next ==
  \/ FeederStep
  \/ \E w \in Worker : WorkerStep(w)
  \/ LoopStep
  \/ Cancel

\* The Go scheduler runs every goroutine that can run, and a probe and a wait for
\* the rate limiter are bounded by their timeouts.  Nobody has to cancel.
Fairness ==
  WF_vars(FeederStep) /\ (\A w \in Worker : WF_vars(WorkerStep(w))) /\ WF_vars(LoopStep)

Spec == Init /\ [][Next]_vars /\ Fairness

-----------------------------------------------------------------------------
(***************************************************************************)
(* Properties                                                              *)
(***************************************************************************)

TypeOK ==
  /\ up \subseteq Job
  /\ cancelled \in BOOLEAN
  /\ feeder \in {"feed", "wait", "closed"}
  /\ fed \in 0 .. Jobs /\ taken \in 0 .. fed
  /\ pc \in [Worker -> {"recv", "check", "limit", "probe", "send", "done"}]
  /\ job \in [Worker -> 0 .. Jobs]
  /\ probes \in [Job -> Nat]
  /\ results \subseteq Job
  /\ delivered \subseteq Job
  /\ ended \in BOOLEAN

\* No worker is left that could send on the closed result channel, which would
\* panic, and no result is left behind when the loop has ended.
NoSendAfterClose ==
  /\ feeder = "closed" => \A w \in Worker : pc[w] = "done"
  /\ ended => results = {}

\* No port is probed twice in a scan, and no result is sent twice.
ProbedOnce ==
  /\ \A j \in Job : probes[j] <= 1
  /\ \A w, v \in Worker : job[w] = job[v] /\ job[w] # 0 => w = v
  /\ results \cap delivered = {}
  /\ \A w \in Worker : job[w] \notin results \cup delivered

\* The pool is the stream the result loop relies on: only open ports, each at
\* most once, none after the end, and all of them unless it was cancelled.
Stream == INSTANCE ScanStream
IsStream == Stream!Spec

\* The result channel is closed and the loop ends: no goroutine waits forever
\* for another one, with or without a cancellation ("The channel is closed when
\* the scan is complete or ctx is cancelled").
Terminates == <>ended
=============================================================================
