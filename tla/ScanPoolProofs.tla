--------------------------- MODULE ScanPoolProofs ---------------------------
(***************************************************************************)
(* Two parts of a scan.  The worker pool is safe, and implements the       *)
(* stream of results that the engine relies on, for any number of jobs and *)
(* workers, any capacities of the channels, with or without a rate limiter *)
(* and a cancellation.  The plan of a scan is what its request asks for:   *)
(* the addresses that the target means, the ports that are named, in the   *)
(* order of scores that are the evidence, and no refusal without a reason, *)
(* for addresses of any width, any limits, requests and tables of scores.  *)
(***************************************************************************)
EXTENDS ScanPool, ScanPlan, SequenceTheorems, FiniteSetTheorems, WellFoundedInduction, TLAPS

\* What a worker holds in each of its states.
WorkerInv(w) ==
  /\ pc[w] \in {"recv", "done"} <=> job[w] = 0
  /\ job[w] <= taken
  /\ pc[w] \in {"check", "limit", "probe"} => probes[job[w]] = 0
  /\ pc[w] = "send" => job[w] \in up
  /\ pc[w] = "done" => cancelled \/ (taken = fed /\ feeder # "feed")

\* A job that no worker has taken is untouched; one that was taken and is up has
\* its result on the way, unless the scan is cancelled.
JobsInv ==
  /\ \A j \in Job : j > taken => probes[j] = 0 /\ j \notin results \cup delivered
  /\ ~cancelled => \A j \in up : j <= taken =>
                     j \in results \cup delivered \/ \E w \in Worker : job[w] = j
  /\ results \cup delivered \subseteq up

\* The job channel is closed after the last job, and the loop ends after the
\* result channel was closed.
ChannelInv ==
  /\ feeder # "feed" => fed = Jobs \/ cancelled
  /\ ended => feeder = "closed"

PoolInv ==
  /\ TypeOK /\ NoSendAfterClose /\ ProbedOnce
  /\ (\A w \in Worker : WorkerInv(w)) /\ JobsInv /\ ChannelInv

-----------------------------------------------------------------------------
\* The inductive step: the feeder, the result loop and a cancellation ...
LEMMA FeederInvStep ==
  ASSUME PoolInv, FeederStep \/ LoopStep \/ Cancel \/ UNCHANGED vars
  PROVE  PoolInv'
<1> USE JobsAssumption DEF PoolInv, TypeOK, NoSendAfterClose, ProbedOnce, WorkerInv, JobsInv, ChannelInv, pool, Job
<1>1. CASE Feed
  BY <1>1 DEF Feed
<1>2. CASE CloseJobs
  BY <1>2 DEF CloseJobs
<1>3. CASE CloseResults
  BY <1>3 DEF CloseResults
<1>4. ASSUME NEW j \in results, Consume(j) PROVE PoolInv'
  BY <1>4 DEF Consume
<1>5. CASE EndLoop
  BY <1>5 DEF EndLoop
<1>6. CASE Cancel
  BY <1>6 DEF Cancel
<1>7. CASE UNCHANGED vars
  BY <1>7 DEF vars
<1> QED BY <1>1, <1>2, <1>3, <1>4, <1>5, <1>6, <1>7 DEF FeederStep, LoopStep

\* ... a worker that receives a job: the first that nobody has taken ...
LEMMA ReceiveInvStep ==
  ASSUME PoolInv, NEW w \in Worker, Receive(w)
  PROVE  PoolInv'
<1>1. /\ pc[w] = "recv" /\ taken < fed /\ taken' = taken + 1
      /\ job' = [job EXCEPT ![w] = taken + 1] /\ pc' = [pc EXCEPT ![w] = "check"]
      /\ UNCHANGED <<up, cancelled, feeder, fed, probes, results, delivered, ended>>
  BY DEF Receive
<1>2. taken \in Nat /\ fed \in Nat /\ taken + 1 \in Job /\ taken + 1 <= fed
  BY <1>1, JobsAssumption DEF PoolInv, TypeOK, Job
<1>3. \A v \in Worker : job[v] \in 0 .. Jobs /\ job[v] <= taken
  BY DEF PoolInv, TypeOK, WorkerInv
<1>4. TypeOK'
  BY <1>1, <1>2, JobsAssumption DEF PoolInv, TypeOK, Job
<1>5. NoSendAfterClose' /\ ChannelInv'
  BY <1>1 DEF PoolInv, TypeOK, NoSendAfterClose, ChannelInv
<1>6. ProbedOnce'
  BY <1>1, <1>2, <1>3 DEF PoolInv, TypeOK, ProbedOnce, JobsInv
<1>7. \A v \in Worker : WorkerInv(v)'
  <2> SUFFICES ASSUME NEW v \in Worker PROVE WorkerInv(v)'
    OBVIOUS
  <2>1. CASE v = w
    BY <2>1, <1>1, <1>2 DEF PoolInv, TypeOK, WorkerInv, JobsInv
  <2>2. CASE v # w
    BY <2>2, <1>1, <1>2, <1>3 DEF PoolInv, TypeOK, WorkerInv
  <2> QED BY <2>1, <2>2
<1>8. JobsInv'
  <2>1. \A j \in Job : j > taken' => probes'[j] = 0 /\ j \notin results' \cup delivered'
    BY <1>1, <1>2 DEF PoolInv, JobsInv, Job
  <2>2. ASSUME ~cancelled', NEW j \in up', j <= taken'
        PROVE  j \in results' \cup delivered' \/ \E v \in Worker : job'[v] = j
    <3>1. CASE j = taken + 1
      BY <3>1, <1>1 DEF PoolInv, TypeOK
    <3>2. CASE j # taken + 1
      <4>1. j <= taken /\ j # 0
        BY <3>2, <2>2, <1>1, <1>2 DEF PoolInv, TypeOK, Job
      <4>2. j \in results \cup delivered \/ \E v \in Worker : job[v] = j
        BY <4>1, <2>2, <1>1 DEF PoolInv, JobsInv
      <4>3. \A v \in Worker : job[v] = j => job'[v] = j
        BY <4>1, <1>1 DEF PoolInv, TypeOK, WorkerInv
      <4> QED BY <4>2, <4>3, <1>1
    <3> QED BY <3>1, <3>2
  <2> QED BY <2>1, <2>2, <1>1 DEF PoolInv, JobsInv
<1> QED BY <1>4, <1>5, <1>6, <1>7, <1>8 DEF PoolInv

\* ... a worker that goes on or leaves: what it held is lost only when the scan is
\* cancelled ...
LEMMA WorkerMoves ==
  ASSUME PoolInv, NEW w \in Worker, Drained(w) \/ Leave(w) \/ Check(w) \/ Limit(w)
  PROVE  PoolInv'
<1>1. UNCHANGED <<up, cancelled, feeder, fed, taken, probes, results, delivered, ended>>
  BY DEF Drained, Leave, Check, Limit
<1>2. \/ /\ pc[w] = "recv" /\ pc' = [pc EXCEPT ![w] = "done"] /\ job' = job
         /\ taken = fed /\ feeder # "feed"
      \/ /\ cancelled /\ pc[w] # "done"
         /\ pc' = [pc EXCEPT ![w] = "done"] /\ job' = [job EXCEPT ![w] = 0]
      \/ /\ pc[w] \in {"check", "limit"} /\ job' = job
         /\ pc' = [pc EXCEPT ![w] = "limit"] \/ pc' = [pc EXCEPT ![w] = "probe"]
  BY DEF Drained, Leave, Check, Limit
<1>3. TypeOK'
  BY <1>1, <1>2, JobsAssumption DEF PoolInv, TypeOK
<1>4. NoSendAfterClose' /\ ChannelInv'
  BY <1>1, <1>2 DEF PoolInv, TypeOK, NoSendAfterClose, ChannelInv
<1>5. ProbedOnce'
  BY <1>1, <1>2, JobsAssumption DEF PoolInv, TypeOK, ProbedOnce, Job
<1>6. \A v \in Worker : WorkerInv(v)'
  BY <1>1, <1>2 DEF PoolInv, TypeOK, WorkerInv
<1>7. JobsInv'
  BY <1>1, <1>2 DEF PoolInv, TypeOK, JobsInv
<1> QED BY <1>3, <1>4, <1>5, <1>6, <1>7 DEF PoolInv

\* ... a worker that probes: nobody has probed its job before ...
LEMMA ProbeInvStep ==
  ASSUME PoolInv, NEW w \in Worker, Probe(w)
  PROVE  PoolInv'
<1> DEFINE i == job[w]
<1>1. /\ pc[w] = "probe" /\ probes' = [probes EXCEPT ![i] = @ + 1]
      /\ \/ i \in up /\ pc' = [pc EXCEPT ![w] = "send"] /\ job' = job
         \/ /\ i \notin up \/ cancelled
            /\ pc' = [pc EXCEPT ![w] = "recv"] /\ job' = [job EXCEPT ![w] = 0]
      /\ UNCHANGED <<up, cancelled, feeder, fed, taken, results, delivered, ended>>
  BY DEF Probe
<1>2. i \in Job /\ i <= taken /\ probes[i] = 0 /\ taken \in Nat
  BY <1>1, JobsAssumption DEF PoolInv, TypeOK, WorkerInv, Job
<1>3. \A v \in Worker : v # w => job[v] # i
  BY <1>1, <1>2, JobsAssumption DEF PoolInv, ProbedOnce, Job
<1>4. probes' \in [Job -> Nat] /\ probes'[i] = 1 /\ \A j \in Job : j # i => probes'[j] = probes[j]
  BY <1>1, <1>2 DEF PoolInv, TypeOK
<1> HIDE DEF i
<1>5. TypeOK'
  BY <1>1, <1>4, JobsAssumption DEF PoolInv, TypeOK
<1>6. NoSendAfterClose' /\ ChannelInv'
  BY <1>1 DEF PoolInv, TypeOK, NoSendAfterClose, ChannelInv
<1>7. ProbedOnce'
  <2>1. \A j \in Job : probes'[j] <= 1
    BY <1>4 DEF PoolInv, ProbedOnce
  <2>2. \A v \in Worker : job'[v] = job[v] \/ job'[v] = 0
    BY <1>1 DEF PoolInv, TypeOK
  <2>3. 0 \notin results \cup delivered
    BY JobsAssumption DEF PoolInv, TypeOK, Job
  <2> QED BY <2>1, <2>2, <2>3, <1>1 DEF PoolInv, ProbedOnce
<1>8. \A v \in Worker : WorkerInv(v)'
  <2> SUFFICES ASSUME NEW v \in Worker PROVE WorkerInv(v)'
    OBVIOUS
  <2>1. CASE v = w
    BY <2>1, <1>1, <1>2 DEF PoolInv, TypeOK, WorkerInv, i
  <2>2. CASE v # w
    <3>1. job[v] # 0 => job[v] \in Job
      BY JobsAssumption DEF PoolInv, TypeOK, Job
    <3> QED BY <3>1, <2>2, <1>1, <1>3, <1>4 DEF PoolInv, TypeOK, WorkerInv
  <2> QED BY <2>1, <2>2
<1>9. JobsInv'
  <2>1. \A j \in Job : j > taken => j # i
    BY <1>2 DEF Job
  <2>2. ASSUME ~cancelled, NEW j \in up, j <= taken
        PROVE  j \in results \cup delivered \/ \E v \in Worker : job'[v] = j
    <3>1. j \in results \cup delivered \/ \E v \in Worker : job[v] = j
      BY <2>2 DEF PoolInv, JobsInv
    <3>2. \A v \in Worker : job[v] = j => job'[v] = j
      BY <2>2, <1>1 DEF PoolInv, TypeOK, i
    <3> QED BY <3>1, <3>2
  <2> QED BY <2>1, <2>2, <1>1, <1>4 DEF PoolInv, JobsInv
<1> QED BY <1>5, <1>6, <1>7, <1>8, <1>9 DEF PoolInv

\* ... and one that sends: nobody has sent its result before.
LEMMA SendInvStep ==
  ASSUME PoolInv, NEW w \in Worker, Send(w)
  PROVE  PoolInv'
<1> DEFINE i == job[w]
<1>1. /\ pc[w] = "send" /\ results' = results \cup {i}
      /\ pc' = [pc EXCEPT ![w] = "recv"] /\ job' = [job EXCEPT ![w] = 0]
      /\ UNCHANGED <<up, cancelled, feeder, fed, taken, probes, delivered, ended>>
  BY DEF Send
<1>2. i \in Job /\ i \in up /\ i <= taken /\ i \notin results \cup delivered /\ taken \in Nat
  BY <1>1, JobsAssumption DEF PoolInv, TypeOK, WorkerInv, ProbedOnce, Job
<1>3. \A v \in Worker : v # w => job[v] # i
  BY <1>1, <1>2, JobsAssumption DEF PoolInv, ProbedOnce, Job
<1>4. \A v \in Worker : job'[v] = IF v = w THEN 0 ELSE job[v]
  BY <1>1 DEF PoolInv, TypeOK
<1> HIDE DEF i
<1>5. TypeOK'
  BY <1>1, <1>2, JobsAssumption DEF PoolInv, TypeOK
<1>6. NoSendAfterClose' /\ ChannelInv'
  BY <1>1 DEF PoolInv, TypeOK, NoSendAfterClose, ChannelInv
<1>7. ProbedOnce'
  <2>1. 0 \notin results' \cup delivered'
    BY <1>1, <1>2, JobsAssumption DEF PoolInv, TypeOK, Job
  <2> QED BY <2>1, <1>1, <1>2, <1>3, <1>4 DEF PoolInv, ProbedOnce
<1>8. \A v \in Worker : WorkerInv(v)'
  BY <1>1, <1>2, <1>4 DEF PoolInv, TypeOK, WorkerInv
<1>9. JobsInv'
  <2>1. \A j \in Job : j > taken => j # i
    BY <1>2 DEF Job
  <2>2. ASSUME ~cancelled, NEW j \in up, j <= taken
        PROVE  j \in results' \cup delivered \/ \E v \in Worker : job'[v] = j
    BY <2>2, <1>1, <1>4 DEF PoolInv, JobsInv, i
  <2> QED BY <2>1, <2>2, <1>1, <1>2 DEF PoolInv, JobsInv
<1> QED BY <1>5, <1>6, <1>7, <1>8, <1>9 DEF PoolInv

-----------------------------------------------------------------------------
\* The invariant holds in every reachable state.
THEOREM PoolInvariant == Spec => []PoolInv
<1>1. Init => PoolInv
  <2> SUFFICES ASSUME Init PROVE PoolInv
    OBVIOUS
  <2>1. TypeOK
    <3>1. fed \in 0 .. Jobs /\ taken \in 0 .. fed /\ 0 \in 0 .. Jobs
      BY JobsAssumption DEF Init
    <3>2. job \in [Worker -> 0 .. Jobs]
      BY <3>1 DEF Init
    <3>3. up \subseteq Job /\ probes \in [Job -> Nat]
      BY DEF Init
    <3> QED BY <3>1, <3>2, <3>3 DEF Init, TypeOK
  <2>2. NoSendAfterClose /\ ProbedOnce /\ ChannelInv
    BY DEF Init, NoSendAfterClose, ProbedOnce, ChannelInv
  <2>3. \A w \in Worker : WorkerInv(w)
    BY DEF Init, WorkerInv
  <2>4. JobsInv
    BY JobsAssumption DEF Init, JobsInv, Job
  <2> QED BY <2>1, <2>2, <2>3, <2>4 DEF PoolInv
<1>2. PoolInv /\ [Next]_vars => PoolInv'
  BY FeederInvStep, ReceiveInvStep, WorkerMoves, ProbeInvStep, SendInvStep DEF Next, WorkerStep
<1> QED BY <1>1, <1>2, PTL DEF Spec

\* Every reachable state of the pool is well typed.
THEOREM PoolTypes == Spec => []TypeOK
BY PoolInvariant, PTL DEF PoolInv

\* No worker sends on the closed result channel, for any number of workers and
\* wherever a cancellation strikes.
THEOREM PoolNeverSendsAfterClose == Spec => []NoSendAfterClose
BY PoolInvariant, PTL DEF PoolInv

\* No port is probed twice and no result is sent twice.
THEOREM PoolProbesOnce == Spec => []ProbedOnce
BY PoolInvariant, PTL DEF PoolInv

\* When the loop ends without a cancellation, every open port was delivered.
LEMMA EndIsComplete ==
  ASSUME PoolInv, EndLoop
  PROVE  cancelled \/ delivered = up
<1> SUFFICES ASSUME ~cancelled PROVE up \subseteq delivered
  BY DEF PoolInv, JobsInv
<1>1. feeder = "closed" /\ results = {}
  BY DEF EndLoop
<1>2. \A w \in Worker : pc[w] = "done" /\ job[w] = 0
  BY <1>1 DEF PoolInv, NoSendAfterClose, WorkerInv
<1>3. PICK w \in Worker : TRUE
  BY WorkerAssumption
<1>4. taken = Jobs
  BY <1>1, <1>2, <1>3 DEF PoolInv, WorkerInv, ChannelInv
<1>5. \A j \in up : j \in Job /\ j # 0 /\ j <= taken
  BY <1>4, JobsAssumption DEF PoolInv, TypeOK, Job
<1> QED BY <1>1, <1>2, <1>5 DEF PoolInv, JobsInv

\* The pool implements the stream the result loop relies on.
THEOREM PoolIsStream == Spec => IsStream
<1>1. Init => Stream!Init
  BY DEF Init, Stream!Init
<1>2. PoolInv /\ [Next]_vars => [Stream!Next]_Stream!stream
  <2> SUFFICES ASSUME PoolInv, [Next]_vars PROVE [Stream!Next]_Stream!stream
    OBVIOUS
  <2>1. CASE FeederStep
    BY <2>1 DEF FeederStep, Feed, CloseJobs, CloseResults, Stream!stream
  <2>2. ASSUME NEW w \in Worker, WorkerStep(w) PROVE UNCHANGED Stream!stream
    BY <2>2 DEF WorkerStep, Receive, Drained, Leave, Check, Limit, Probe, Send, Stream!stream
  <2>3. ASSUME NEW j \in results, Consume(j) PROVE Stream!Next
    <3>1. Stream!Deliver(j)
      BY <2>3 DEF Consume, pool, PoolInv, NoSendAfterClose, ProbedOnce, JobsInv, Stream!Deliver
    <3> QED BY <3>1, <2>3 DEF Stream!Next, PoolInv, TypeOK
  <2>4. CASE EndLoop
    BY <2>4, EndIsComplete DEF EndLoop, Stream!Next, Stream!End
  <2>5. CASE Cancel
    BY <2>5 DEF Cancel, Stream!Next, Stream!Cancel
  <2>6. CASE UNCHANGED vars
    BY <2>6 DEF vars, Stream!stream
  <2> QED BY <2>1, <2>2, <2>3, <2>4, <2>5, <2>6 DEF Next, LoopStep
<1> QED BY <1>1, <1>2, PoolInvariant, PTL DEF Spec, IsStream, Stream!Spec

-----------------------------------------------------------------------------
(***************************************************************************)
(* What termination rests on, less the fairness: the pool can always go on *)
(* until the loop has ended, and no step takes it back.                    *)
(***************************************************************************)

\* When each goroutine can take a step: the guards of its actions.
FeederCanStep ==
  \/ feeder = "feed" /\ (fed = Jobs \/ cancelled \/ fed - taken < JobCap)
  \/ feeder = "wait" /\ \A w \in Worker : pc[w] = "done"
WorkerCanStep(w) ==
  \/ pc[w] = "recv" /\ (taken < fed \/ feeder # "feed")
  \/ pc[w] \in {"check", "limit", "probe"}
  \/ pc[w] = "send" /\ (cancelled \/ Cardinality(results) < ResultCap)
LoopCanStep == results # {} \/ (~ended /\ feeder = "closed")
SomeoneCanStep == FeederCanStep \/ (\E w \in Worker : WorkerCanStep(w)) \/ LoopCanStep

\* How far a worker is with its job; one that waits for the next has done with it.
Stage == [at \in {"recv", "check", "limit", "probe", "send", "done"} |->
  CASE at = "check" -> 0 [] at = "limit" -> 1 [] at = "probe" -> 2
    [] at = "send" -> 3 [] at = "recv" -> 4 [] OTHER -> 5]

\* A step takes a job, which happens Jobs times at most, or brings some part of
\* the pool nearer to its end and none further away from it.
progress == <<fed, pc, feeder, delivered, ended, cancelled>>
Advances ==
  \/ taken' = taken + 1
  \/ /\ taken' = taken /\ fed' \in {fed, fed + 1}
     /\ \A w \in Worker : Stage[pc[w]] <= Stage[pc'[w]]
     /\ feeder' = feeder \/ <<feeder, feeder'>> \in {<<"feed", "wait">>, <<"wait", "closed">>}
     /\ delivered \subseteq delivered' /\ (ended => ended') /\ (cancelled => cancelled')
     /\ progress' # progress

\* No deadlock: until the loop has ended some goroutine can take a step, for any
\* number of workers and capacities of the channels, and wherever a cancellation
\* strikes.  No circle of a full result channel, a full job channel and wg.Wait.
THEOREM PoolIsNeverStuck == Spec => [](~ended => SomeoneCanStep)
<1>1. ASSUME PoolInv, ~ended PROVE SomeoneCanStep
  <2>1. CASE results # {} \/ feeder = "closed"
    BY <2>1, <1>1 DEF SomeoneCanStep, LoopCanStep
  <2>2. CASE results = {} /\ feeder # "closed"
    <3>1. Cardinality(results) < ResultCap
      <4>1. Cardinality({}) = 0
        BY FS_EmptySet
      <4> QED BY <4>1, <2>2, CapAssumption
    <3>2. CASE \E w \in Worker : pc[w] \notin {"recv", "done"}
      <4>1. PICK w \in Worker : pc[w] \in {"check", "limit", "probe", "send"}
        BY <3>2, <1>1 DEF PoolInv, TypeOK
      <4> QED BY <4>1, <3>1 DEF SomeoneCanStep, WorkerCanStep
    <3>3. CASE (\A w \in Worker : pc[w] \in {"recv", "done"}) /\ feeder = "wait"
      <4>1. CASE \E w \in Worker : pc[w] = "recv"
        BY <4>1, <3>3 DEF SomeoneCanStep, WorkerCanStep
      <4>2. CASE \A w \in Worker : pc[w] = "done"
        BY <4>2, <3>3 DEF SomeoneCanStep, FeederCanStep
      <4> QED BY <4>1, <4>2, <3>3
    <3>4. CASE (\A w \in Worker : pc[w] \in {"recv", "done"}) /\ feeder = "feed"
      <4>1. CASE \E w \in Worker : pc[w] = "recv"
        <5>1. PICK w \in Worker : pc[w] = "recv"
          BY <4>1
        <5>2. CASE taken < fed
          BY <5>1, <5>2 DEF SomeoneCanStep, WorkerCanStep
        <5>3. CASE taken = fed
          BY <5>3, <3>4, <1>1, CapAssumption, JobsAssumption
          DEF SomeoneCanStep, FeederCanStep, PoolInv, TypeOK
        <5> QED BY <5>2, <5>3, <1>1, JobsAssumption DEF PoolInv, TypeOK
      <4>2. CASE \A w \in Worker : pc[w] = "done"
        BY <4>2, <3>4, <1>1, WorkerAssumption
        DEF SomeoneCanStep, FeederCanStep, PoolInv, WorkerInv
      <4> QED BY <4>1, <4>2, <3>4
    <3> QED BY <3>2, <3>3, <3>4, <2>2, <1>1 DEF PoolInv, TypeOK
  <2> QED BY <2>1, <2>2
<1>2. PoolInv => (~ended => SomeoneCanStep)
  BY <1>1
<1> QED BY <1>2, PoolInvariant, PTL

\* A step of one worker: it takes a job, or is further with the one it has.
LEMMA WorkerAdvances ==
  ASSUME PoolInv, NEW w \in Worker, WorkerStep(w)
  PROVE  Advances
<1> DEFINE At == {"recv", "check", "limit", "probe", "send", "done"}
<1>1. /\ pc \in [Worker -> At] /\ taken \in Nat /\ fed \in Nat
      /\ \A v \in Worker : pc[v] \in At
  BY JobsAssumption DEF PoolInv, TypeOK
<1>2. /\ Stage["check"] = 0 /\ Stage["limit"] = 1 /\ Stage["probe"] = 2
      /\ Stage["send"] = 3 /\ Stage["recv"] = 4 /\ Stage["done"] = 5
  BY DEF Stage
<1>3. CASE Receive(w)
  BY <1>3 DEF Receive, Advances
<1>4. ASSUME NEW to \in At, pc' = [pc EXCEPT ![w] = to], Stage[pc[w]] < Stage[to],
             UNCHANGED <<cancelled, feeder, fed, taken, delivered, ended>>
      PROVE  Advances
  <2>1. \A v \in Worker : Stage[pc[v]] \in Nat
    BY <1>1, <1>2
  <2>2. pc'[w] = to /\ \A v \in Worker : v # w => pc'[v] = pc[v]
    BY <1>4, <1>1
  <2>3. ASSUME NEW v \in Worker PROVE Stage[pc[v]] <= Stage[pc'[v]]
    <3>1. CASE v = w
      BY <3>1, <2>1, <2>2, <1>2, <1>4
    <3>2. CASE v # w
      <4>1. pc'[v] = pc[v]
        BY <3>2, <2>2
      <4> QED BY <4>1, <2>1
    <3> QED BY <3>1, <3>2
  <2>4. pc' # pc
    BY <2>1, <2>2, <1>4
  <2> QED BY <2>3, <2>4, <1>4 DEF Advances, progress
<1>5. CASE Drained(w)
  BY <1>5, <1>4, <1>2 DEF Drained
<1>6. CASE Leave(w)
  BY <1>6, <1>4, <1>2 DEF Leave
<1>7. CASE Check(w)
  <2> DEFINE to == IF Limited THEN "limit" ELSE "probe"
  <2>1. to \in At /\ Stage["check"] < Stage[to]
    BY <1>2
  <2>2. /\ pc' = [pc EXCEPT ![w] = to] /\ pc[w] = "check"
        /\ UNCHANGED <<cancelled, feeder, fed, taken, delivered, ended>>
    BY <1>7 DEF Check
  <2> HIDE DEF to
  <2> QED BY <2>1, <2>2, <1>4
<1>8. CASE Limit(w)
  BY <1>8, <1>4, <1>2 DEF Limit
<1>9. CASE Probe(w)
  BY <1>9, <1>4, <1>2 DEF Probe
<1>10. CASE Send(w)
  BY <1>10, <1>4, <1>2 DEF Send
<1> QED BY <1>3, <1>5, <1>6, <1>7, <1>8, <1>9, <1>10 DEF WorkerStep

\* No livelock: every step takes a job or leads nearer to the end, none leads
\* back, so the pool takes finitely many steps and, by PoolIsNeverStuck, stops only
\* when the loop has ended.  No worker circles with its job, and the loop that
\* still receives after a cancellation only empties the channel.
THEOREM PoolOnlyAdvances == Spec => [][Advances]_vars
<1>1. ASSUME PoolInv, [Next]_vars PROVE [Advances]_vars
  <2>1. /\ fed \in Nat /\ taken \in Nat
        /\ \A w \in Worker : Stage[pc[w]] \in Nat
    BY <1>1, JobsAssumption DEF PoolInv, TypeOK, Stage
  <2>2. CASE FeederStep
    BY <2>2, <2>1 DEF FeederStep, Feed, CloseJobs, CloseResults, Advances, progress
  <2>3. ASSUME NEW w \in Worker, WorkerStep(w) PROVE Advances
    BY <2>3, <1>1, WorkerAdvances
  <2>4. ASSUME NEW j \in results, Consume(j) PROVE Advances
    <3>1. j \notin delivered
      BY <2>4, <1>1 DEF PoolInv, ProbedOnce
    <3> QED BY <3>1, <2>4, <2>1 DEF Consume, pool, Advances, progress
  <2>5. CASE EndLoop
    <3>1. ended' # ended
      BY <2>5 DEF EndLoop
    <3>2. progress' # progress
      BY <3>1 DEF progress
    <3> QED BY <3>2, <2>5, <2>1 DEF EndLoop, pool, Advances
  <2>6. CASE Cancel
    <3>1. cancelled' # cancelled
      BY <2>6 DEF Cancel
    <3>2. progress' # progress
      BY <3>1 DEF progress
    <3> QED BY <3>2, <2>6, <2>1 DEF Cancel, pool, Advances
  <2> QED BY <1>1, <2>2, <2>3, <2>4, <2>5, <2>6 DEF Next, LoopStep
<1> QED BY <1>1, PoolInvariant, PTL DEF Spec

-----------------------------------------------------------------------------
(***************************************************************************)
(* The plan of a scan: scores                                              *)
(***************************************************************************)

\* A set of numbers with a bound has a greatest one.
LEMMA MaxExists ==
  ASSUME NEW S \in SUBSET Nat, S # {}, NEW b \in Nat, \A x \in S : x <= b
  PROVE  Max(S) \in S /\ \A x \in S : x <= Max(S)
<1> DEFINE Below == {b - x : x \in S}
           Less == {p \in Nat \X Nat : p[1] < p[2]}
<1>1. Below \subseteq Nat /\ Below # {}
  <2>1. \A x \in S : b - x \in Nat
    OBVIOUS
  <2>2. PICK x : x \in S
    OBVIOUS
  <2> QED BY <2>1, <2>2
<1>2. IsWellFoundedOn(Less, Nat)
  BY NatLessThanWellFounded DEF OpToRel
<1>3. PICK m \in Below : \A y \in Below : <<y, m>> \notin Less
  <2> HIDE DEF Below, Less
  <2> QED BY <1>1, <1>2, WFMin
<1>4. PICK x \in S : m = b - x
  BY <1>3
<1>5. \A y \in S : y <= x
  <2> SUFFICES ASSUME NEW y \in S, ~(y <= x) PROVE FALSE
    OBVIOUS
  <2>1. b - y \in Below /\ b - y \in Nat /\ m \in Nat /\ b - y < m
    BY <1>1, <1>4
  <2>2. <<b - y, m>> \in Less
    BY <2>1
  <2> QED BY <1>3, <2>1, <2>2
<1> QED BY <1>5 DEF Max

\* The best of a set of scores, and of nothing 0.
Scores == SUBSET (0 .. TopScore)
LEMMA BestOf ==
  ASSUME NEW S \in Scores
  PROVE  /\ Best(S) \in S \cup {0} /\ Best(S) \in 0 .. TopScore
         /\ \A x \in S : x <= Best(S)
<1>1. S \cup {0} \in SUBSET Nat /\ TopScore \in Nat /\ \A x \in S \cup {0} : x <= TopScore
  BY ScoreAssumption DEF Scores
<1>2. Best(S) \in S \cup {0} /\ \A x \in S \cup {0} : x <= Best(S)
  <2>1. S \cup {0} # {}
    OBVIOUS
  <2> DEFINE T == S \cup {0}
  <2>2. Max(T) \in T /\ \A x \in T : x <= Max(T)
    <3> HIDE DEF T
    <3>1. T \in SUBSET Nat /\ T # {} /\ TopScore \in Nat /\ \A x \in T : x <= TopScore
      BY <1>1 DEF T
    <3> QED BY <3>1, MaxExists
  <2> QED BY <2>2 DEF Best
<1> QED BY <1>1, <1>2

LEMMA BestIs ==
  ASSUME NEW S \in Scores, NEW x \in S \cup {0}, \A y \in S : y <= x
  PROVE  Best(S) = x
<1>1. Best(S) \in Nat /\ x \in Nat /\ 0 <= x
  BY BestOf, ScoreAssumption DEF Scores
<1>2. x <= Best(S)
  BY <1>1, BestOf
<1>3. Best(S) <= x
  BY <1>1, BestOf
<1> QED BY <1>1, <1>2, <1>3

\* boostIfHigher keeps the best of what was said before and is said now.
LEMMA BestOfBoth ==
  ASSUME NEW S \in Scores, NEW T \in Scores
  PROVE  Best(S \cup T) = IF Best(T) > Best(S) THEN Best(T) ELSE Best(S)
<1> DEFINE x == IF Best(T) > Best(S) THEN Best(T) ELSE Best(S)
<1>1. S \cup T \in Scores
  BY DEF Scores
<1>2. /\ Best(S) \in Nat /\ Best(T) \in Nat /\ S \subseteq Nat /\ T \subseteq Nat
      /\ Best(S) \in S \cup {0} /\ Best(T) \in T \cup {0}
      /\ \A y \in S : y <= Best(S)
      /\ \A y \in T : y <= Best(T)
  BY BestOf, ScoreAssumption DEF Scores
<1>3. x \in (S \cup T) \cup {0} /\ \A y \in S \cup T : y <= x
  BY <1>2
<1> QED BY <1>1, <1>3, BestIs

\* What a reader of a profile expects, and what it is while it is gathered.
Profile == [names : SUBSET Name, provider : Provider \cup {NoProvider},
            scores : [Port -> 0 .. TopScore]]
ScoredBy(f) == \A p \in Port : f.scores[p] = Best(Evidence(f, p))

LEMMA EvidenceType ==
  ASSUME NEW f \in Profile, NEW p \in Port
  PROVE  Evidence(f, p) \in Scores
<1>1. \A n \in f.names : HostScore[n][p] \in 0 .. TopScore
  BY ScoreAssumption DEF Profile
<1>2. \A c \in {f.provider} \ {NoProvider} : CloudScore[c][p] \in 0 .. TopScore
  BY ScoreAssumption DEF Profile
<1> QED BY <1>1, <1>2 DEF Evidence, Scores

\* Names are scored as they are added ...
LEMMA NamedIsScored ==
  ASSUME NEW f \in Profile, NEW names \in SUBSET Name, ScoredBy(f)
  PROVE  /\ Named(f, names) \in Profile /\ ScoredBy(Named(f, names))
         /\ Named(f, names).provider = f.provider
<1> DEFINE said(p) == {HostScore[n][p] : n \in names}
           new == [p \in Port |-> Best(said(p))]
           g == Named(f, names)
<1>1. ASSUME NEW p \in Port
      PROVE  said(p) \in Scores
  <2>1. \A n \in names : HostScore[n][p] \in 0 .. TopScore
    BY ScoreAssumption
  <2> QED BY <2>1 DEF Scores
<1>2. /\ g.names = f.names \cup names /\ g.provider = f.provider
      /\ g.scores = Boost(f.scores, new)
  <2>1. g = [f EXCEPT !.names = f.names \cup names, !.scores = Boost(f.scores, new)]
    BY DEF Named
  <2> HIDE DEF new
  <2> QED BY <2>1 DEF Profile
<1>3. ASSUME NEW p \in Port
      PROVE  g.scores[p] = Best(Evidence(g, p)) /\ g.scores[p] \in 0 .. TopScore
  <2>1. Evidence(g, p) = Evidence(f, p) \cup said(p)
    BY <1>2 DEF Evidence
  <2>2. g.scores[p] = IF Best(said(p)) > Best(Evidence(f, p)) THEN Best(said(p)) ELSE Best(Evidence(f, p))
    BY <1>2 DEF Boost, ScoredBy
  <2> HIDE DEF said, g
  <2>3. g.scores[p] = Best(Evidence(g, p))
    BY <1>1, <2>1, <2>2, EvidenceType, BestOfBoth
  <2>4. Evidence(f, p) \cup said(p) \in Scores
    BY <1>1, EvidenceType DEF Scores
  <2> QED BY <2>1, <2>3, <2>4, BestOf
<1>4. g \in Profile
  <2>1. g.scores = [p \in Port |-> g.scores[p]]
    BY <1>2 DEF Boost
  <2>2. g.scores \in [Port -> 0 .. TopScore]
    BY <1>3, <2>1
  <2>3. g = [names |-> g.names, provider |-> g.provider, scores |-> g.scores]
    <3>1. g = [f EXCEPT !.names = f.names \cup names, !.scores = Boost(f.scores, new)]
      BY DEF Named
    <3> HIDE DEF new, g
    <3> QED BY <3>1 DEF Profile
  <2>4. g.names \in SUBSET Name /\ g.provider \in Provider \cup {NoProvider}
    BY <1>2 DEF Profile
  <2> HIDE DEF g
  <2> QED BY <2>2, <2>3, <2>4 DEF Profile
<1> QED BY <1>2, <1>3, <1>4 DEF ScoredBy

\* ... and so are the ports of the provider.
LEMMA ProviderIsScored ==
  ASSUME NEW f \in Profile, NEW c \in Provider, f.provider = NoProvider, ScoredBy(f),
         NEW g, g = [f EXCEPT !.provider = c, !.scores = Boost(@, CloudScore[c])]
  PROVE  g \in Profile /\ ScoredBy(g)
<1>1. /\ g.names = f.names /\ g.provider = c /\ g.scores = Boost(f.scores, CloudScore[c])
      /\ g = [names |-> f.names, provider |-> c, scores |-> g.scores]
  BY DEF Profile
<1>2. c # NoProvider
  BY ScoreAssumption
<1>3. ASSUME NEW p \in Port
      PROVE  g.scores[p] = Best(Evidence(g, p)) /\ g.scores[p] \in 0 .. TopScore
  <2>1. Evidence(g, p) = Evidence(f, p) \cup {CloudScore[c][p]}
    BY <1>1, <1>2 DEF Evidence
  <2>2. CloudScore[c][p] \in 0 .. TopScore
    BY ScoreAssumption
  <2>3. {CloudScore[c][p]} \in Scores /\ Best({CloudScore[c][p]}) = CloudScore[c][p]
    <3>1. {CloudScore[c][p]} \in Scores /\ CloudScore[c][p] <= CloudScore[c][p]
      BY <2>2 DEF Scores
    <3> QED BY <3>1, BestIs
  <2>4. g.scores[p] = IF CloudScore[c][p] > Best(Evidence(f, p)) THEN CloudScore[c][p] ELSE Best(Evidence(f, p))
    BY <1>1 DEF Boost, ScoredBy
  <2>5. g.scores[p] = Best(Evidence(g, p))
    BY <2>1, <2>3, <2>4, EvidenceType, BestOfBoth
  <2>6. Evidence(f, p) \cup {CloudScore[c][p]} \in Scores
    BY <2>3, EvidenceType DEF Scores
  <2> QED BY <2>1, <2>5, <2>6, BestOf
<1>4. g \in Profile
  <2>1. g.scores = [p \in Port |-> g.scores[p]]
    BY <1>1 DEF Boost
  <2>2. g.scores \in [Port -> 0 .. TopScore]
    BY <1>3, <2>1
  <2> QED BY <1>1, <2>2 DEF Profile
<1> QED BY <1>3, <1>4 DEF ScoredBy

\* The profile that Predict returns.
Told(f) ==
  \A p \in Port : LET told == Evidence(f, p) \ {0} IN
    f.scores[p] = IF told = {} THEN Default[p] ELSE Max(told)
LEMMA DefaultsAreTold ==
  ASSUME NEW f \in Profile, ScoredBy(f), NEW g, g = [f EXCEPT !.scores = ApplyDefaults(@)]
  PROVE  Told(g) /\ g \in Profile
<1>6. g \in Profile
  BY ScoreAssumption DEF Profile, ApplyDefaults
<1> SUFFICES ASSUME NEW p \in Port
             PROVE  LET told == Evidence(g, p) \ {0} IN
                      g.scores[p] = IF told = {} THEN Default[p] ELSE Max(told)
  BY <1>6 DEF Told
<1> DEFINE S == Evidence(f, p)
           told == S \ {0}
<1>1. Evidence(g, p) = S
  BY DEF Evidence, Profile
<1>2. g.scores[p] = IF Best(S) = 0 THEN Default[p] ELSE Best(S)
  BY DEF ScoredBy, Profile, ApplyDefaults
<1>3. /\ S \in Scores /\ S \subseteq Nat
      /\ Best(S) \in S \cup {0} /\ Best(S) \in Nat /\ \A x \in S : x <= Best(S)
  BY EvidenceType, BestOf, ScoreAssumption DEF Scores
<1> HIDE DEF S
<1>4. CASE told = {}
  <2>1. Best(S) = 0
    BY <1>3, <1>4
  <2> QED BY <1>1, <1>2, <1>4, <2>1
<1>5. CASE told # {}
  <2>1. PICK x \in told : x \in Nat /\ x > 0
    BY <1>3, <1>5
  <2>2. Best(S) # 0 /\ Best(S) \in told
    BY <1>3, <2>1
  <2>3. Max(told) \in told /\ \A y \in told : y <= Max(told)
    BY <1>3, <1>5, MaxExists
  <2>4. Max(told) = Best(S)
    <3>1. Max(told) \in Nat /\ Max(told) <= Best(S) /\ Best(S) <= Max(told)
      BY <1>3, <2>2, <2>3
    <3> QED BY <1>3, <3>1
  <2> QED BY <1>1, <1>2, <1>5, <2>2, <2>4
<1> QED BY <1>4, <1>5

\* A source brings names or a provider, and the provider is unknown until the
\* goroutine that asks for it is over.
Answer == [at : {"looking", "found", "over"}, names : SUBSET Name,
           provider : Provider \cup {NoProvider}]
GatherInv ==
  /\ source \in [Source -> Answer]
  /\ profile \in Profile /\ ScoredBy(profile)
  /\ source["asn"].at # "over" => profile.provider = NoProvider
  /\ \A a \in DOMAIN profiles : profiles[a] \in Profile
  /\ ScoresAreEvidence

LEMMA NothingIsTold == NoProfile \in Profile /\ ScoredBy(NoProfile)
<1>1. NoProfile \in Profile /\ \A p \in Port : NoProfile.scores[p] = 0 /\ Evidence(NoProfile, p) = {}
  BY ScoreAssumption DEF NoProfile, NoScores, Profile, Evidence
<1>2. Best({}) = 0
  BY BestIs DEF Scores
<1> QED BY <1>1, <1>2 DEF ScoredBy

LEMMA LookUpStep ==
  ASSUME GatherInv, NEW g \in Source, LookUp(g)
  PROVE  GatherInv'
<1>1. /\ UNCHANGED <<profile, profiles>> /\ source[g].at = "looking"
      /\ \/ source' = [source EXCEPT ![g] = Over]
         \/ g = "dns" /\ ReverseLookup
         \/ g = "asn" /\ LookupASN
         \/ g = "ct" /\ QueryCTLogs
  BY DEF LookUp
<1>2. Over \in Answer /\ Over.at = "over"
  BY DEF Over, Answer
<1>3. source' \in [Source -> Answer] /\ \A h \in Source : source'[h].at # "over" => source[h].at # "over"
  <2>1. CASE source' = [source EXCEPT ![g] = Over]
    BY <1>2, <2>1 DEF GatherInv
  <2>2. CASE g = "dns" /\ ReverseLookup
    <3>1. PICK names \in SUBSET Name :
            source' = [source EXCEPT !["dns"] = [source["dns"] EXCEPT !.at = "found", !.names = names]]
      BY <2>2 DEF ReverseLookup
    <3>2. source["dns"] \in Answer
      BY DEF GatherInv, Source
    <3>3. [source["dns"] EXCEPT !.at = "found", !.names = names] \in Answer
      BY <3>2 DEF Answer
    <3> QED BY <1>1, <2>2, <3>1, <3>3 DEF GatherInv
  <2>3. CASE g = "asn" /\ LookupASN
    <3>1. PICK c \in Provider \cup {NoProvider} :
            source' = [source EXCEPT !["asn"] = [source["asn"] EXCEPT !.at = "found", !.provider = c]]
      BY <2>3 DEF LookupASN
    <3>2. source["asn"] \in Answer
      BY DEF GatherInv, Source
    <3>3. [source["asn"] EXCEPT !.at = "found", !.provider = c] \in Answer
      BY <3>2 DEF Answer
    <3> QED BY <1>1, <2>3, <3>1, <3>3 DEF GatherInv
  <2>4. CASE g = "ct" /\ QueryCTLogs
    <3>1. PICK names \in SUBSET Name :
            source' = [source EXCEPT !["ct"] = [source["ct"] EXCEPT !.at = "found", !.names = names]]
      BY <2>4 DEF QueryCTLogs
    <3>2. source["ct"] \in Answer
      BY DEF GatherInv, Source
    <3>3. [source["ct"] EXCEPT !.at = "found", !.names = names] \in Answer
      BY <3>2 DEF Answer
    <3> QED BY <1>1, <2>4, <3>1, <3>3 DEF GatherInv
  <2> QED BY <1>1, <2>1, <2>2, <2>3, <2>4
<1>4. ScoresAreEvidence'
  BY <1>1 DEF GatherInv, ScoresAreEvidence
<1> QED BY <1>1, <1>3, <1>4 DEF GatherInv, Source

LEMMA MergeStep ==
  ASSUME GatherInv, NEW g \in Source, Merge(g)
  PROVE  GatherInv'
<1>1. source' = [source EXCEPT ![g] = Over] /\ profiles' = profiles
  BY DEF Merge
<1>2. source' \in [Source -> Answer] /\ \A h \in Source : source'[h].at # "over" => h # g /\ source'[h] = source[h]
  <2>1. Over \in Answer /\ Over.at = "over"
    BY DEF Over, Answer
  <2> QED BY <1>1, <2>1 DEF GatherInv
<1>3. profile \in Profile /\ ScoredBy(profile) /\ source[g] \in Answer
  BY DEF GatherInv
<1>4. profile' \in Profile /\ ScoredBy(profile') /\ (g # "asn" => profile'.provider = profile.provider)
  <2>1. CASE g = "dns" /\ MergeDNS
    <3>1. source["dns"].names \in SUBSET Name
      BY <1>3, <2>1 DEF Answer
    <3> QED BY <1>3, <2>1, <3>1, NamedIsScored DEF MergeDNS
  <2>2. CASE g = "ct" /\ MergeCT
    <3>1. source["ct"].names \ profile.names \in SUBSET Name
      BY <1>3, <2>2 DEF Answer
    <3> QED BY <1>3, <2>2, <3>1, NamedIsScored DEF MergeCT
  <2>3. CASE g = "asn" /\ MergeASN
    <3> DEFINE c == source["asn"].provider
    <3>1. c \in Provider \cup {NoProvider} /\ profile.provider = NoProvider
      BY <1>3, <2>3 DEF Answer, MergeASN, GatherInv
    <3>2. profile' = [profile EXCEPT !.provider = c,
                        !.scores = IF c = NoProvider THEN @ ELSE Boost(@, CloudScore[c])]
      BY <2>3 DEF MergeASN
    <3> HIDE DEF c
    <3>3. CASE c = NoProvider
      <4>1. profile' = profile
        BY <1>3, <3>1, <3>2, <3>3 DEF Profile
      <4> QED BY <1>3, <4>1
    <3>4. CASE c # NoProvider
      <4>1. profile' = [profile EXCEPT !.provider = c, !.scores = Boost(@, CloudScore[c])]
        BY <3>2, <3>4
      <4> QED BY <1>3, <2>3, <3>1, <3>4, <4>1, ProviderIsScored
    <3> QED BY <2>3, <3>3, <3>4
  <2> QED BY <2>1, <2>2, <2>3 DEF Merge
<1>5. ScoresAreEvidence'
  BY <1>1 DEF GatherInv, ScoresAreEvidence
<1>6. source'["asn"].at # "over" => profile'.provider = NoProvider
  BY <1>2, <1>4 DEF GatherInv, Source
<1>7. \A a \in DOMAIN profiles' : profiles'[a] \in Profile
  BY <1>1 DEF GatherInv
<1> QED BY <1>2, <1>4, <1>5, <1>6, <1>7 DEF GatherInv

LEMMA GatherStep ==
  ASSUME GatherInv, [PlanNext]_planVars
  PROVE  GatherInv'
<1>1. CASE UNCHANGED osint
  <2>1. UNCHANGED <<source, profile, profiles>>
    BY <1>1 DEF osint
  <2> QED BY <2>1 DEF GatherInv, ScoresAreEvidence
<1>2. CASE BeginPredict
  <2>1. profile' = NoProfile /\ source' = [h \in Source |-> Looking] /\ profiles' = profiles
    BY <1>2 DEF BeginPredict
  <2>2. Looking \in Answer
    BY DEF Looking, Answer
  <2>3. source' \in [Source -> Answer] /\ profile'.provider = NoProvider
    BY <2>1, <2>2 DEF NoProfile
  <2>4. ScoresAreEvidence'
    BY <2>1 DEF GatherInv, ScoresAreEvidence
  <2> QED BY <2>1, <2>3, <2>4, NothingIsTold DEF GatherInv
<1>3. CASE EndPredict
  <2> DEFINE f == [profile EXCEPT !.scores = ApplyDefaults(@)]
  <2>1. /\ UNCHANGED <<profile, source>>
        /\ profiles' = [a \in DOMAIN profiles \cup {addrs[next]} |->
                          IF a = addrs[next] THEN f ELSE profiles[a]]
    BY <1>3 DEF EndPredict
  <2>2. Told(f) /\ f \in Profile
    BY DefaultsAreTold DEF GatherInv
  <2> HIDE DEF f
  <2>3. \A a \in DOMAIN profiles : Told(profiles[a])
    BY DEF GatherInv, ScoresAreEvidence, Told
  <2>4. \A a \in DOMAIN profiles' : Told(profiles'[a])
    BY <2>1, <2>2, <2>3
  <2>5. ScoresAreEvidence'
    BY <2>4 DEF ScoresAreEvidence, Told, Evidence
  <2>6. \A a \in DOMAIN profiles' : profiles'[a] \in Profile
    BY <2>1, <2>2 DEF GatherInv
  <2> QED BY <2>1, <2>5, <2>6 DEF GatherInv
<1>4. ASSUME NEW g \in Source, LookUp(g) \/ Merge(g)
      PROVE  GatherInv'
  BY <1>4, LookUpStep, MergeStep
<1>5. CASE \/ BeginPart \/ WalkPart \/ EndPart \/ EndTarget \/ Abandon
           \/ BeginPorts \/ ListPort \/ EndList \/ EndPorts
           \/ Prioritise \/ PlacePort \/ EndSort \/ UNCHANGED planVars
  BY <1>1, <1>5 DEF BeginPart, WalkPart, EndPart, EndTarget, Abandon, BeginPorts, ListPort,
                    EndList, EndPorts, Prioritise, PlacePort, EndSort, planVars
<1> QED BY <1>2, <1>3, <1>4, <1>5 DEF PlanNext

LEMMA GatherInit ==
  ASSUME PlanInit
  PROVE  GatherInv
<1>1. Over \in Answer /\ Over.at = "over"
  BY DEF Over, Answer
<1>2. source \in [Source -> Answer] /\ source["asn"].at = "over"
  BY <1>1 DEF PlanInit, Source
<1>3. ScoresAreEvidence
  BY DEF PlanInit, ScoresAreEvidence
<1>4. profile \in Profile /\ ScoredBy(profile)
  BY NothingIsTold DEF PlanInit
<1>5. \A a \in DOMAIN profiles : profiles[a] \in Profile
  BY DEF PlanInit
<1> QED BY <1>2, <1>3, <1>4, <1>5 DEF GatherInv

\* A profile gives each port the best score that a name or the provider has for
\* it, and the default where none has any, in whatever order the three goroutines
\* of Predict come to an end (osint/predict.go).
THEOREM PlanScores == PlanSpec => []ScoresAreEvidence
<1>1. PlanInit => GatherInv
  BY GatherInit
<1>2. GatherInv => ScoresAreEvidence
  BY DEF GatherInv
<1> QED BY <1>1, <1>2, GatherStep, PTL DEF PlanSpec

-----------------------------------------------------------------------------
(***************************************************************************)
(* The plan of a scan: refusals                                            *)
(***************************************************************************)

\* The addresses of one width are those from Base up to below Top.
Base(a) == IF Six(a) THEN 2 ^ Wide ELSE 0
Top(a) == Base(a) + 2 ^ Width(a)

\* How far the loop over a part has come: by as many addresses as it has put into
\* the chunk, unless the part is one whose loop wraps round.
Walked(part) ==
  /\ part.kind \in {"cidr", "range"}
  /\ Six(cursor) <=> Six(part.from)
  /\ part.kind = "range" /\ part.to # 2 ^ Bits - 1 => cursor = part.from + Len(chunk)
  /\ part.kind = "cidr" /\ part.ones # 0 /\ InBlock(part, cursor) =>
       cursor = FirstOf(part) + Len(chunk)

\* The memory has given out for a reason.
OutOfMemory(part) ==
  \/ part.kind = "cidr" /\ part.ones = 0
  \/ /\ part.kind \in {"cidr", "range"}
     /\ Len(addrs) + (IF part.kind = "range" THEN MaxHosts ELSE BlockSize(part)) >= Memory

WalkRefused ==
  LET part == Head(todo) IN
  /\ stage = "refused" /\ todo # << >> =>
       \/ part.kind = "bad"
       \/ /\ part.kind = "range" /\ part.from <= part.to
          /\ part.to - part.from >= MaxHosts \/ part.to = 2 ^ Bits - 1
  /\ stage = "dead" => OutOfMemory(part)

WalkInv ==
  /\ todo \in Seq(Part) /\ cursor \in Addr /\ chunk \in Seq(Addr) /\ addrs \in Seq(Addr)
  /\ stage \notin {"parse", "loop", "refused", "dead"} => todo = << >>
  /\ stage = "loop" => todo # << >> /\ Walked(Head(todo))
  /\ WalkRefused

\* A block is an interval of addresses.
LEMMA IntervalOfBlock ==
  ASSUME NEW a \in Nat, NEW q \in Nat, NEW b \in Nat \ {0}
  PROVE  a \div b = q <=> q * b <= a /\ a < q * b + b
OBVIOUS

LEMMA Sizes ==
  /\ 2 ^ Bits \in Nat \ {0} /\ 2 ^ Wide \in Nat \ {0} /\ 2 ^ Bits <= 2 ^ Wide
  /\ Memory \in Nat /\ MaxHosts \in Nat
<1> DEFINE v == 2 ^ Bits
           w == 2 ^ Wide
           x == 2 ^ (Wide - Bits)
<1>1. v \in Nat \ {0} /\ w \in Nat \ {0} /\ x \in Nat \ {0} /\ w = v * x
  <2>1. Bits \in 0 .. Wide /\ Wide \in 0 .. Wide /\ Wide - Bits \in 0 .. Wide
    BY SizeAssumption
  <2> QED BY <2>1, PowersOfTwo
<1>2. v <= w
  <2> HIDE DEF v, w, x
  <2>1. PICK k \in Nat : x = 1 + k
    <3>1. x - 1 \in Nat /\ x = 1 + (x - 1)
      BY <1>1
    <3> QED BY <3>1
  <2>2. w = v + v * k /\ v * k \in Nat
    BY <1>1, <2>1
  <2> QED BY <1>1, <2>2
<1> QED BY <1>1, <1>2, SizeAssumption

LEMMA Families ==
  ASSUME NEW a \in Addr
  PROVE  /\ a \in Nat /\ Base(a) \in Nat /\ Top(a) \in Nat /\ Base(a) <= a /\ a < Top(a)
         /\ LastAddr(a) = Top(a) - 1
         /\ \A x \in Nat : Base(a) <= x /\ x < Top(a) => x \in Addr /\ (Six(x) <=> Six(a))
         /\ \A x \in Addr : (Six(x) <=> Six(a)) => Base(a) <= x /\ x < Top(a) /\ Top(x) = Top(a)
         /\ ~Six(a) => Base(a) = 0 /\ Top(a) = 2 ^ Bits
<1> DEFINE v == 2 ^ Bits
           w == 2 ^ Wide
<1>1. v \in Nat \ {0} /\ w \in Nat \ {0} /\ v <= w
  BY Sizes
<1>2. /\ \A x : x \in Addr <=> x \in 0 .. v - 1 \cup w .. w + w - 1
      /\ \A x : Six(x) <=> x >= w
      /\ \A x : Base(x) = IF x >= w THEN w ELSE 0
      /\ \A x : Top(x) = Base(x) + (IF x >= w THEN w ELSE v)
      /\ LastAddr(a) = IF a >= w THEN w + w - 1 ELSE v - 1
  <2>1. \A x : Top(x) = Base(x) + (IF x >= w THEN w ELSE v)
    BY DEF Top, Width, Six
  <2> QED BY <2>1 DEF Addr, Six, Base, LastAddr
<1>3. a \in 0 .. v - 1 \cup w .. w + w - 1
  BY <1>2
<1> HIDE DEF v, w
<1> QED BY <1>1, <1>2, <1>3 DEF v

\* A prefix that is not empty leaves out half of the addresses of its width, or more.
LEMMA BlockIsPart ==
  ASSUME NEW part \in Part
  PROVE  /\ BlockSize(part) \in Nat \ {0} /\ BlockSize(part) <= 2 ^ Width(part.from)
         /\ part.ones # 0 => 2 * BlockSize(part) <= 2 ^ Width(part.from)
<1> DEFINE n == part.ones
           width == Width(part.from)
           x == 2 ^ n
           b == 2 ^ (width - n)
           all == 2 ^ width
<1>1. width \in {Bits, Wide} /\ width \in Nat /\ n \in 0 .. width /\ width - n \in 0 .. width
  BY SizeAssumption DEF Part, Width
<1>2. x \in Nat \ {0} /\ b \in Nat \ {0} /\ all = x * b /\ (n > 0 => x >= 2)
  <2> HIDE DEF width, n
  <2>1. n = 1 \/ n > 1 => x >= 2
    BY <1>1, PowersOfTwo
  <2> QED BY <1>1, <2>1, PowersOfTwo
<1>3. BlockSize(part) = b
  BY DEF BlockSize
<1>4. b \in Nat \ {0} /\ b <= all /\ (n # 0 => 2 * b <= all)
  <2> HIDE DEF n, x, b, all, width
  <2>1. b <= x * b /\ (x >= 2 => 2 * b <= x * b)
    BY <1>2
  <2> QED BY <1>1, <1>2, <2>1
<1> QED BY <1>3, <1>4

\* A multiple of b below another one is below it by b or more.
LEMMA Multiples ==
  ASSUME NEW q \in Nat, NEW x \in Nat, NEW b \in Nat \ {0}, q * b < x * b
  PROVE  q * b + b <= x * b
<1>1. q < x
  <2> SUFFICES ASSUME x <= q PROVE FALSE
    OBVIOUS
  <2>1. PICK k \in Nat : q = x + k
    <3>1. q - x \in Nat /\ q = x + (q - x)
      OBVIOUS
    <3> QED BY <3>1
  <2>2. q * b = x * b + k * b /\ k * b \in Nat
    BY <2>1
  <2> QED BY <2>2
<1>2. PICK k \in Nat : x = q + 1 + k
  <2>1. x - q - 1 \in Nat /\ x = q + 1 + (x - q - 1)
    BY <1>1
  <2> QED BY <2>1
<1>3. x * b = q * b + b + k * b /\ k * b \in Nat /\ q * b \in Nat
  BY <1>2
<1> QED BY <1>3

\* A block is as many addresses as its size says, from its first one on, all of one
\* width; it has a network and a broadcast address when that is four or more.
LEMMA BlockOf ==
  ASSUME NEW part \in Part, part.kind = "cidr"
  PROVE  /\ FirstOf(part) \in Nat /\ BlockSize(part) \in Nat \ {0}
         /\ Base(part.from) <= FirstOf(part)
         /\ FirstOf(part) + BlockSize(part) <= Top(part.from)
         /\ part.ones # 0 => 2 * BlockSize(part) <= 2 ^ Width(part.from)
         /\ \A a \in Nat : InBlock(part, a) <=>
              FirstOf(part) <= a /\ a < FirstOf(part) + BlockSize(part)
         /\ part.ones < Width(part.from) - 1 <=> BlockSize(part) >= 4
<1> DEFINE n == part.ones
           width == Width(part.from)
           x == 2 ^ n
           b == 2 ^ (width - n)
           all == 2 ^ width
           base == Base(part.from)
           q == part.from \div b
           c == q * b
<1>1. width \in {Bits, Wide} /\ width \in Nat /\ n \in 0 .. width /\ width - n \in 0 .. width
  BY SizeAssumption DEF Part, Width
<1>2. /\ x \in Nat \ {0} /\ b \in Nat \ {0} /\ all = x * b
      /\ (width - n = 0 => b = 1) /\ (width - n = 1 => b = 2) /\ (width - n > 1 => b >= 4)
  <2> HIDE DEF width, n
  <2> QED BY <1>1, PowersOfTwo
<1>3. BlockSize(part) = b /\ FirstOf(part) = c
  BY DEF BlockSize, FirstOf
<1>4. /\ part.from \in Nat /\ base <= part.from /\ part.from < base + all
      /\ base \in Nat /\ base \in {0, all} /\ Top(part.from) = base + all
  <2>1. part.from \in Addr
    BY DEF Part
  <2>2. base \in {0, all}
    BY DEF Base, Width
  <2>3. Top(part.from) = base + all
    BY DEF Top
  <2> QED BY <2>1, <2>2, <2>3, Families
<1>5. q \in Nat /\ c \in Nat
  <2> HIDE DEF b
  <2>1. q \in Nat
    BY <1>2, <1>4
  <2> HIDE DEF q
  <2> QED BY <1>2, <2>1
<1>6. c <= part.from /\ part.from < c + b
  <2> HIDE DEF b
  <2> QED BY <1>2, <1>4, <1>5, IntervalOfBlock
<1>7. base <= c /\ c + b <= base + all
  <2> HIDE DEF b, x, q, all, base, c
  <2>1. PICK k \in Nat : base = k * b
    <3>1. 0 \in Nat /\ 0 * b = 0 /\ x \in Nat
      BY <1>2
    <3> QED BY <1>2, <1>4, <3>1
  <2>2. base + all = (k + x) * b /\ k + x \in Nat
    BY <1>2, <2>1
  <2>3. c = q * b /\ q \in Nat /\ b \in Nat \ {0}
    BY <1>2, <1>5 DEF c
  <2>4. ~(c < base)
    <3> SUFFICES ASSUME c < base PROVE FALSE
      OBVIOUS
    <3>1. q * b + b <= k * b
      BY <2>1, <2>3, Multiples
    <3> QED BY <1>2, <1>4, <1>5, <1>6, <2>1, <2>3, <3>1
  <2>5. c < base + all
    BY <1>2, <1>4, <1>5, <1>6
  <2>6. q * b + b <= (k + x) * b
    BY <2>2, <2>3, <2>5, Multiples
  <2> QED BY <1>4, <1>5, <2>2, <2>3, <2>4, <2>6
<1>8. ASSUME NEW a \in Nat
      PROVE  InBlock(part, a) <=> c <= a /\ a < c + b
  <2>1. InBlock(part, a) <=> a \div b = q
    BY DEF InBlock, BlockSize
  <2> HIDE DEF b, q
  <2> QED BY <1>2, <1>5, <2>1, IntervalOfBlock
<1>9. n < width - 1 <=> b >= 4
  <2>1. /\ width - n = 0 => b = 1
        /\ width - n = 1 => b = 2
        /\ width - n > 1 => b >= 4
    BY <1>2
  <2>2. width - n > 1 <=> n < width - 1
    BY <1>1
  <2> HIDE DEF b, n, width
  <2>3. width - n = 0 \/ width - n = 1 \/ width - n > 1
    BY <1>1
  <2> QED BY <2>1, <2>2, <2>3
<1>10. n # 0 => 2 * BlockSize(part) <= 2 ^ width
  BY BlockIsPart
<1> HIDE DEF b, c, q, all, base, width
<1> QED BY <1>2, <1>3, <1>4, <1>5, <1>7, <1>8, <1>9, <1>10 DEF base, width

LEMMA FirstIsInBlock ==
  ASSUME NEW part \in Part
  PROVE  FirstOf(part) \in Addr /\ (Six(FirstOf(part)) <=> Six(part.from))
<1>1. part.from \in Addr
  BY DEF Part
<1>2. CASE part.kind = "cidr"
  <2> DEFINE c == FirstOf(part)
             b == BlockSize(part)
  <2>1. c \in Nat /\ b \in Nat \ {0} /\ Base(part.from) <= c /\ c + b <= Top(part.from)
    BY <1>2, BlockOf
  <2> HIDE DEF b, c
  <2>2. c < Top(part.from)
    BY <1>1, <2>1, Families
  <2> QED BY <1>1, <2>1, <2>2, Families DEF c
<1>3. CASE part.kind # "cidr"
  BY <1>1, <1>3 DEF FirstOf
<1> QED BY <1>2, <1>3

\* One address further, or round to the first one.
LEMMA Increment ==
  ASSUME NEW a \in Addr
  PROVE  /\ IncrementIP(a) \in Addr /\ (Six(IncrementIP(a)) <=> Six(a))
         /\ IncrementIP(a) = IF a = Top(a) - 1 THEN Base(a) ELSE a + 1
<1>1. IncrementIP(a) = IF a = Top(a) - 1 THEN Base(a) ELSE a + 1
  BY Families DEF IncrementIP, Base
<1>2. /\ a \in Nat /\ Base(a) \in Nat /\ Top(a) \in Nat /\ Base(a) <= a /\ a < Top(a)
      /\ \A x \in Nat : Base(a) <= x /\ x < Top(a) => x \in Addr /\ (Six(x) <=> Six(a))
  BY Families
<1> HIDE DEF IncrementIP
<1>3. IncrementIP(a) \in Nat /\ Base(a) <= IncrementIP(a) /\ IncrementIP(a) < Top(a)
  BY <1>1, <1>2
<1> QED BY <1>1, <1>2, <1>3

\* Reading a part leads into its loop at its first address.
LEMMA BeginPartStep ==
  ASSUME WalkInv, BeginPart
  PROVE  WalkInv'
<1> DEFINE part == Head(todo)
<1>1. stage = "parse" /\ todo # << >> /\ todo \in Seq(Part) /\ part \in Part /\ part.from \in Addr
  BY HeadTailProperties DEF BeginPart, WalkInv, Part
<1>2. CASE part.kind = "bad"
  <2>1. stage' = "refused" /\ UNCHANGED <<todo, cursor, chunk, addrs>>
    BY <1>2 DEF BeginPart, parsing
  <2> QED BY <1>2, <2>1 DEF WalkInv, WalkRefused
<1>3. CASE part.kind \in {"blank", "single"}
  <2>1. /\ stage' = "parse" /\ todo' = Tail(todo) /\ UNCHANGED <<cursor, chunk>>
        /\ addrs' \in {addrs, Append(addrs, part.from)}
    BY <1>1, <1>3 DEF BeginPart
  <2>2. todo' \in Seq(Part)
    BY <1>1, <2>1, HeadTailProperties
  <2>3. addrs' \in Seq(Addr)
    BY <1>1, <2>1, AppendProperties DEF WalkInv
  <2> QED BY <2>1, <2>2, <2>3 DEF WalkInv, WalkRefused
<1>4. CASE part.kind \in {"cidr", "range"}
  <2>1. /\ stage' = "loop" /\ cursor' = FirstOf(part) /\ chunk' = << >> /\ todo' = todo
        /\ addrs' = addrs
    BY <1>4 DEF BeginPart
  <2>2. /\ FirstOf(part) \in Addr /\ (Six(FirstOf(part)) <=> Six(part.from))
        /\ Len(chunk') = 0 /\ chunk' \in Seq(Addr)
    BY <1>1, <2>1, FirstIsInBlock, EmptySeq
  <2>3. FirstOf(part) + 0 = FirstOf(part)
    BY <2>2, Families
  <2>4. part.kind = "range" => FirstOf(part) = part.from
    BY DEF FirstOf
  <2> HIDE DEF part
  <2>5. Walked(part)'
    <3>1. cursor' = FirstOf(part) + Len(chunk') /\ (part.kind = "range" => cursor' = part.from + Len(chunk'))
      BY <2>1, <2>2, <2>3, <2>4
    <3>2. part' = part
      BY <2>1 DEF part
    <3>3. Six(cursor') <=> Six(part.from)
      BY <2>1, <2>2
    <3> QED BY <1>4, <3>1, <3>2, <3>3 DEF Walked, InBlock, BlockSize, FirstOf, Six, Width
  <2> QED BY <1>1, <2>1, <2>2, <2>5 DEF WalkInv, WalkRefused, part
<1> QED BY <1>1, <1>2, <1>3, <1>4 DEF Part

\* A turn of the loop over a block stays below the size of the block.
LEMMA BlockTurn ==
  ASSUME NEW part \in Part, part.kind = "cidr", part.ones # 0,
         NEW a \in Addr, NEW n \in Nat, Six(a) <=> Six(part.from),
         InBlock(part, a), a = FirstOf(part) + n
  PROVE  /\ n + 1 <= BlockSize(part)
         /\ InBlock(part, IncrementIP(a)) => IncrementIP(a) = FirstOf(part) + (n + 1)
<1> DEFINE b == BlockSize(part)
           c == FirstOf(part)
           all == 2 ^ Width(part.from)
<1>1. /\ c \in Nat /\ b \in Nat \ {0} /\ Base(part.from) <= c /\ c + b <= Top(part.from)
      /\ 2 * b <= all /\ \A x \in Nat : InBlock(part, x) <=> c <= x /\ x < c + b
  BY BlockOf
<1>2. /\ a \in Nat /\ IncrementIP(a) \in Nat /\ Top(a) = Base(a) + all /\ all \in Nat
      /\ IncrementIP(a) = IF a = Top(a) - 1 THEN Base(a) ELSE a + 1
      /\ Base(a) \in Nat /\ Base(a) = Base(part.from)
  <2>1. Base(a) = Base(part.from) /\ Width(a) = Width(part.from)
    BY DEF Base, Width
  <2>2. all \in Nat
    BY Sizes DEF Width
  <2> QED BY <2>1, <2>2, Increment, Families DEF Top
<1> HIDE DEF b, c, all
<1>3. c <= a /\ a < c + b
  BY <1>1, <1>2
<1>4. n + 1 <= b
  BY <1>1, <1>2, <1>3 DEF c
<1>5. ASSUME InBlock(part, IncrementIP(a))
      PROVE  IncrementIP(a) = c + (n + 1)
  <2>1. c <= IncrementIP(a)
    BY <1>1, <1>2, <1>5
  <2>2. CASE a = Top(a) - 1
    <3>1. c = Base(a)
      BY <1>1, <1>2, <2>1, <2>2
    <3> QED BY <1>1, <1>2, <1>3, <2>2, <3>1
  <2>3. CASE a # Top(a) - 1
    BY <1>1, <1>2, <2>3 DEF c
  <2> QED BY <2>2, <2>3
<1> QED BY <1>4, <1>5 DEF b, c

LEMMA WalkPartStep ==
  ASSUME WalkInv, WalkPart
  PROVE  WalkInv'
<1> DEFINE part == Head(todo)
           n == Len(chunk)
           m == Len(addrs)
<1>1. /\ stage = "loop" /\ todo # << >> /\ part \in Part /\ Walked(part) /\ InPart(part)
      /\ todo' = todo /\ chunk' = Append(chunk, cursor) /\ cursor' = IncrementIP(cursor)
      /\ stage' = IF part.kind = "range" /\ Len(chunk') > MaxHosts THEN "refused"
                  ELSE IF m + Len(chunk') >= Memory THEN "dead" ELSE stage
      /\ addrs' = addrs
  BY HeadTailProperties DEF WalkInv, WalkPart
<1>2. /\ cursor \in Addr /\ n \in Nat /\ Len(chunk') = n + 1 /\ chunk' \in Seq(Addr)
      /\ cursor' \in Addr /\ todo' \in Seq(Part) /\ addrs' \in Seq(Addr) /\ m \in Nat
      /\ cursor' = IF cursor = Top(cursor) - 1 THEN Base(cursor) ELSE cursor + 1
      /\ Six(cursor') <=> Six(cursor)
  BY <1>1, AppendProperties, LenProperties, Increment DEF WalkInv
<1>3. /\ part.kind \in {"cidr", "range"} /\ part.from \in Addr /\ part.to \in Addr
      /\ Six(cursor') <=> Six(part.from)
      /\ part.kind = "range" => ~Six(part.from) /\ ~Six(part.to) /\ ~Six(cursor)
  BY <1>1, <1>2 DEF Walked, Part
<1>4. MaxHosts \in Nat /\ Memory \in Nat
  BY Sizes
<1> HIDE DEF part, n, m
<1>5. CASE part.kind = "range"
  <2>1. /\ cursor <= part.to /\ Top(cursor) = 2 ^ Bits /\ cursor \in Nat /\ part.from \in Nat
        /\ part.to \in Nat /\ part.to < 2 ^ Bits /\ 2 ^ Bits \in Nat /\ part.from < 2 ^ Bits
    <3>1. cursor <= part.to
      BY <1>1, <1>5 DEF InPart
    <3> QED BY <1>2, <1>3, <1>5, <3>1, Families, Sizes
  <2>2. ASSUME part.to # 2 ^ Bits - 1
        PROVE  cursor = part.from + n /\ cursor' = part.from + Len(chunk')
    <3>1. cursor = part.from + n
      BY <1>1, <1>5, <2>2 DEF Walked, n
    <3>2. cursor # 2 ^ Bits - 1
      BY <2>1, <2>2
    <3>3. cursor' = cursor + 1
      BY <1>2, <2>1, <3>2
    <3> QED BY <1>2, <2>1, <3>1, <3>3
  <2>3. Walked(part)'
    BY <1>1, <1>3, <1>5, <2>2 DEF Walked, part, Six
  <2>4. CASE stage' = "refused"
    <3>1. Len(chunk') > MaxHosts
      BY <1>1, <2>4
    <3>2. part.from <= part.to /\ (part.to - part.from >= MaxHosts \/ part.to = 2 ^ Bits - 1)
      <4>1. CASE part.to = 2 ^ Bits - 1
        BY <2>1, <4>1
      <4>2. CASE part.to # 2 ^ Bits - 1
        <5>1. part.from + n <= part.to /\ n + 1 > MaxHosts
          BY <1>2, <2>1, <2>2, <3>1, <4>2
        <5>2. /\ part.from \in Nat /\ part.to \in Nat /\ n \in Nat /\ MaxHosts \in Nat
          BY <1>2, <1>4, <2>1
        <5> QED BY <5>1, <5>2
      <4> QED BY <4>1, <4>2
    <3> QED BY <1>1, <1>2, <1>5, <2>4, <3>2 DEF WalkInv, WalkRefused, part
  <2>5. CASE stage' = "dead"
    <3>1. Len(chunk') <= MaxHosts /\ m + Len(chunk') >= Memory
      BY <1>1, <1>2, <1>4, <1>5, <2>5
    <3>2. m + MaxHosts >= Memory
      BY <1>2, <1>4, <3>1
    <3> QED BY <1>1, <1>2, <1>5, <2>5, <3>2 DEF WalkInv, WalkRefused, OutOfMemory, part, m
  <2>6. CASE stage' = "loop"
    BY <1>1, <1>2, <2>3, <2>6 DEF WalkInv, WalkRefused, part
  <2> QED BY <1>1, <2>4, <2>5, <2>6
<1>6. CASE part.kind = "cidr" /\ part.ones = 0
  <2>1. stage' \in {"loop", "dead"} /\ Walked(part)'
    BY <1>1, <1>3, <1>6 DEF Walked, part, Six
  <2> QED BY <1>1, <1>2, <1>6, <2>1 DEF WalkInv, WalkRefused, OutOfMemory, part
<1>7. CASE part.kind = "cidr" /\ part.ones # 0
  <2>1. InBlock(part, cursor) /\ cursor = FirstOf(part) + n /\ (Six(cursor) <=> Six(part.from))
    BY <1>1, <1>7 DEF InPart, Walked, n
  <2>2. /\ n + 1 <= BlockSize(part)
        /\ InBlock(part, IncrementIP(cursor)) => IncrementIP(cursor) = FirstOf(part) + (n + 1)
    BY <1>1, <1>2, <1>7, <2>1, BlockTurn
  <2>3. stage' \in {"loop", "dead"}
    BY <1>1, <1>7
  <2>4. Walked(part)'
    BY <1>1, <1>2, <1>3, <1>7, <2>2 DEF Walked, part, InBlock, BlockSize, FirstOf, Six, Width
  <2>5. stage' = "dead" => m + BlockSize(part) >= Memory
    <3>1. BlockSize(part) \in Nat
      BY <1>1, BlockIsPart
    <3> QED BY <1>1, <1>2, <1>4, <1>7, <2>2, <3>1
  <2>6. stage' = "dead" => OutOfMemory(part)'
    BY <1>1, <1>7, <2>5 DEF OutOfMemory, BlockSize, Width, Six, part, m
  <2> QED BY <1>1, <1>2, <2>3, <2>4, <2>6 DEF WalkInv, WalkRefused, part
<1> QED BY <1>3, <1>5, <1>6, <1>7

\* Leaving out the ends leaves addresses.
LEMMA DropEndsType ==
  ASSUME NEW part, NEW s \in Seq(Addr)
  PROVE  DropEnds(part, s) \in Seq(Addr)
<1>1. Len(s) \in Nat
  BY LenProperties
<1>2. Len(s) > 2 => SubSeq(s, 2, Len(s) - 1) \in Seq(Addr)
  BY <1>1
<1> QED BY <1>2 DEF DropEnds

LEMMA WalkStep ==
  ASSUME WalkInv, [PlanNext]_planVars
  PROVE  WalkInv'
<1>1. CASE UNCHANGED <<parsing, addrs>> /\ todo = << >> /\ stage' \notin {"parse", "loop", "dead"}
  BY <1>1 DEF parsing, WalkInv, WalkRefused
<1>2. CASE UNCHANGED <<parsing, addrs>> /\ stage' = stage
  BY <1>2 DEF parsing, WalkInv, WalkRefused, OutOfMemory, Walked, InBlock, BlockSize, FirstOf,
              Six, Width
<1>3. CASE EndPart
  <2>1. stage' = "parse" /\ todo' = Tail(todo) /\ chunk' = << >> /\ cursor' = 0
    BY <1>3 DEF EndPart
  <2>2. /\ todo' \in Seq(Part) /\ chunk' \in Seq(Addr) /\ cursor' \in Addr
        /\ addrs' \in Seq(Addr)
    <3>1. todo \in Seq(Part) /\ todo # << >>
      BY <1>3 DEF EndPart, WalkInv
    <3>2. 0 \in Addr
      BY Sizes DEF Addr
    <3>3. addrs' = addrs \o DropEnds(Head(todo), chunk)
      BY <1>3 DEF EndPart
    <3>4. addrs' \in Seq(Addr)
      BY <3>3, DropEndsType, ConcatProperties DEF WalkInv
    <3> QED BY <2>1, <3>1, <3>2, <3>4, HeadTailProperties, EmptySeq
  <2> QED BY <2>1, <2>2 DEF WalkInv, WalkRefused
<1>4. CASE EndTarget \/ BeginPorts \/ ListPort \/ EndList \/ EndPorts
  <2>1. UNCHANGED <<parsing, addrs>> /\ todo = << >> /\ stage' \notin {"parse", "loop", "dead"}
    BY <1>4 DEF EndTarget, BeginPorts, ListPort, EndList, EndPorts, WalkInv
  <2> QED BY <1>1, <2>1
<1>5. CASE BeginPart \/ WalkPart
  BY <1>5, BeginPartStep, WalkPartStep
<1>6. CASE BeginPredict \/ EndPredict \/ Abandon \/ Prioritise \/ PlacePort \/ EndSort
  <2>1. UNCHANGED <<parsing, addrs>> /\ todo = << >> /\ stage' \notin {"parse", "loop", "dead"}
    BY <1>6 DEF BeginPredict, EndPredict, Abandon, Prioritise, PlacePort, EndSort, WalkInv
  <2> QED BY <1>1, <2>1
<1>7. ASSUME NEW g \in Source, LookUp(g) \/ Merge(g)
      PROVE  WalkInv'
  BY <1>2, <1>7 DEF LookUp, Merge
<1>8. CASE UNCHANGED planVars
  BY <1>2, <1>8 DEF planVars
<1> QED BY <1>3, <1>4, <1>5, <1>6, <1>7, <1>8 DEF PlanNext

-----------------------------------------------------------------------------
(***************************************************************************)
(* The plan of a scan: the concatenation of sequences                      *)
(***************************************************************************)

\* A set of numbers has a least one.
LEMMA LeastExists ==
  ASSUME NEW S \in SUBSET Nat, S # {}
  PROVE  \E m \in S : \A x \in S : m <= x
<1> DEFINE Less == {p \in Nat \X Nat : p[1] < p[2]}
<1>1. IsWellFoundedOn(Less, Nat)
  BY NatLessThanWellFounded DEF OpToRel
<1>2. PICK m \in S : \A y \in S : <<y, m>> \notin Less
  <2> HIDE DEF Less
  <2> QED BY <1>1, WFMin
<1>3. \A y \in S : m <= y
  <2> SUFFICES ASSUME NEW y \in S, ~(m <= y) PROVE FALSE
    OBVIOUS
  <2>1. y < m /\ <<y, m>> \in Nat \X Nat
    OBVIOUS
  <2>2. <<y, m>> \in Less
    BY <2>1
  <2> QED BY <1>2, <2>2
<1> QED BY <1>3

\* f is the concatenation of the first sequences of s, for each number of them.
Flattens(f, s, n) ==
  \A i \in 1 .. n : f[i] = IF i = 1 THEN s[i] ELSE f[i - 1] \o s[i]

LEMMA FlattensExists ==
  ASSUME NEW S, NEW n \in Nat, NEW s \in [1 .. n -> Seq(S)]
  PROVE  \E f \in [1 .. n -> Seq(S)] : Flattens(f, s, n)
<1> DEFINE Bad == {m \in 0 .. n : ~ \E f \in [1 .. m -> Seq(S)] : Flattens(f, s, m)}
<1> SUFFICES ASSUME Bad # {} PROVE FALSE
  OBVIOUS
<1>1. PICK m \in Bad : \A x \in Bad : m <= x
  <2>1. Bad \in SUBSET Nat
    OBVIOUS
  <2> HIDE DEF Bad
  <2> QED BY <2>1, LeastExists
<1>2. m \in 0 .. n /\ ~ \E f \in [1 .. m -> Seq(S)] : Flattens(f, s, m)
  OBVIOUS
<1>3. CASE m = 0
  <2>1. [i \in 1 .. 0 |-> << >>] \in [1 .. m -> Seq(S)]
    BY <1>3
  <2>2. Flattens([i \in 1 .. 0 |-> << >>], s, m)
    BY <1>3 DEF Flattens
  <2> QED BY <1>2, <2>1, <2>2
<1>4. CASE m # 0
  <2>1. m - 1 \in 0 .. n /\ m - 1 \notin Bad
    <3> HIDE DEF Bad
    <3>1. m \in 0 .. n
      BY <1>2
    <3> QED BY <1>1, <1>4, <3>1
  <2>2. PICK g \in [1 .. m - 1 -> Seq(S)] : Flattens(g, s, m - 1)
    BY <2>1
  <2> DEFINE f == [i \in 1 .. m |-> IF i < m THEN g[i]
                                    ELSE IF m = 1 THEN s[m] ELSE g[m - 1] \o s[m]]
  <2>3. f \in [1 .. m -> Seq(S)]
    <3>1. s[m] \in Seq(S)
      BY <1>2, <1>4
    <3>2. m # 1 => g[m - 1] \in Seq(S) /\ g[m - 1] \o s[m] \in Seq(S)
      BY <1>2, <1>4, <3>1, ConcatProperties
    <3> QED BY <1>2, <3>1, <3>2
  <2>4. Flattens(f, s, m)
    <3> SUFFICES ASSUME NEW i \in 1 .. m
                 PROVE  f[i] = IF i = 1 THEN s[i] ELSE f[i - 1] \o s[i]
      BY DEF Flattens
    <3>1. CASE i = m
      BY <1>2, <1>4, <3>1
    <3>2. CASE i # m
      <4>1. i \in 1 .. m - 1 /\ f[i] = g[i] /\ (i # 1 => i - 1 \in 1 .. m - 1 /\ f[i - 1] = g[i - 1])
        BY <1>2, <3>2
      <4>2. g[i] = IF i = 1 THEN s[i] ELSE g[i - 1] \o s[i]
        BY <2>2, <4>1 DEF Flattens
      <4> HIDE DEF f
      <4> QED BY <4>1, <4>2
    <3> QED BY <3>1, <3>2
  <2> HIDE DEF f
  <2> QED BY <1>2, <2>3, <2>4
<1> QED BY <1>3, <1>4

LEMMA FlattensUnique ==
  ASSUME NEW n \in Nat, NEW s, NEW f, NEW g, Flattens(f, s, n), Flattens(g, s, n)
  PROVE  \A i \in 1 .. n : f[i] = g[i]
<1> DEFINE Bad == {i \in 1 .. n : f[i] # g[i]}
<1> SUFFICES ASSUME Bad # {} PROVE FALSE
  OBVIOUS
<1>1. PICK m \in Bad : \A x \in Bad : m <= x
  <2>1. Bad \in SUBSET Nat
    OBVIOUS
  <2> HIDE DEF Bad
  <2> QED BY <2>1, LeastExists
<1>2. m \in 1 .. n /\ f[m] # g[m] /\ (m # 1 => f[m - 1] = g[m - 1])
  BY <1>1
<1> QED BY <1>2 DEF Flattens

\* FlattenSeq is that concatenation.
LEMMA FlattenIs ==
  ASSUME NEW S, NEW s \in Seq(Seq(S)), s # << >>
  PROVE  \E f \in [1 .. Len(s) -> Seq(S)] : Flattens(f, s, Len(s)) /\ FlattenSeq(s) = f[Len(s)]
<1> DEFINE n == Len(s)
           F == CHOOSE h : h = [i \in 1 .. n |-> IF i = 1 THEN s[i] ELSE h[i - 1] \o s[i]]
<1>1. n \in Nat /\ n # 0 /\ s \in [1 .. n -> Seq(S)]
  BY LenProperties, EmptySeq
<1>2. FlattenSeq(s) = F[n]
  BY <1>1 DEF FlattenSeq
<1> HIDE DEF n
<1>3. PICK f \in [1 .. n -> Seq(S)] : Flattens(f, s, n)
  BY <1>1, FlattensExists
<1>4. f = [i \in 1 .. n |-> IF i = 1 THEN s[i] ELSE f[i - 1] \o s[i]]
  BY <1>3 DEF Flattens
<1>5. F = [i \in 1 .. n |-> IF i = 1 THEN s[i] ELSE F[i - 1] \o s[i]]
  BY <1>4
<1> HIDE DEF F
<1>6. Flattens(F, s, n)
  BY <1>5 DEF Flattens
<1>7. \A i \in 1 .. n : F[i] = f[i]
  BY <1>1, <1>3, <1>6, FlattensUnique
<1>8. n \in 1 .. n
  BY <1>1
<1>9. FlattenSeq(s) = f[n]
  BY <1>2, <1>7, <1>8
<1> QED BY <1>3, <1>9 DEF n

LEMMA FlattenEmpty == FlattenSeq(<< >>) = << >>
BY EmptySeq DEF FlattenSeq

\* Concatenating one sequence more.
LEMMA FlattenAppend ==
  ASSUME NEW S, NEW s \in Seq(Seq(S)), NEW e \in Seq(S)
  PROVE  /\ FlattenSeq(s) \in Seq(S)
         /\ FlattenSeq(Append(s, e)) = FlattenSeq(s) \o e
<1> DEFINE n == Len(s)
           m == n + 1
           t == Append(s, e)
<1>1. n \in Nat /\ m \in Nat \ {0} /\ m - 1 = n /\ m \in 1 .. m /\ (m = 1 <=> n = 0)
  BY LenProperties
<1>2. /\ t \in Seq(Seq(S)) /\ t # << >> /\ Len(t) = m /\ t[m] = e
      /\ \A i \in 1 .. n : t[i] = s[i]
  BY AppendProperties
<1> HIDE DEF n, m, t
<1>3. PICK f : Flattens(f, t, m) /\ FlattenSeq(t) = f[m]
  BY <1>2, FlattenIs
<1>4. f[m] = IF n = 0 THEN e ELSE f[n] \o e
  <2>1. f[m] = IF m = 1 THEN t[m] ELSE f[m - 1] \o t[m]
    BY <1>1, <1>3 DEF Flattens
  <2> QED BY <1>1, <1>2, <2>1
<1>5. CASE n = 0
  <2>1. s = << >>
    BY <1>5, EmptySeq DEF n
  <2>2. << >> \o e = e /\ << >> \in Seq(S)
    BY ConcatEmptySeq, EmptySeq
  <2> QED BY <1>3, <1>4, <1>5, <2>1, <2>2, FlattenEmpty DEF t
<1>6. CASE n # 0
  <2>1. s # << >>
    BY <1>6, EmptySeq DEF n
  <2>2. PICK g : Flattens(g, s, n) /\ FlattenSeq(s) = g[n] /\ g[n] \in Seq(S)
    <3>1. n \in 1 .. n
      BY <1>1, <1>6
    <3>2. \E g \in [1 .. n -> Seq(S)] : Flattens(g, s, n) /\ FlattenSeq(s) = g[n]
      BY <2>1, FlattenIs DEF n
    <3> QED BY <3>1, <3>2
  <2>3. \A i \in 1 .. n : i \in 1 .. m
    BY <1>1
  <2>4. Flattens(f, s, n)
    BY <1>2, <1>3, <2>3 DEF Flattens
  <2>5. \A i \in 1 .. n : f[i] = g[i]
    BY <1>1, <2>2, <2>4, FlattensUnique
  <2>6. n \in 1 .. n
    BY <1>1, <1>6
  <2>7. f[n] = g[n] /\ g[n] \in Seq(S)
    BY <2>2, <2>5, <2>6
  <2> QED BY <1>3, <1>4, <1>6, <2>2, <2>7 DEF t
<1> QED BY <1>5, <1>6

-----------------------------------------------------------------------------
(***************************************************************************)
(* The plan of a scan: what a target means                                 *)
(***************************************************************************)

\* n addresses from a on.
From(a, n) == [i \in 1 .. n |-> a + i - 1]

LEMMA FromType ==
  ASSUME NEW f \in Addr, NEW a \in Nat, NEW n \in Nat, Base(f) <= a, a + n <= Top(f)
  PROVE  /\ From(a, n) \in Seq(Addr) /\ Len(From(a, n)) = n
         /\ n = 0 => From(a, n) = << >>
         /\ n = 1 => From(a, n) = <<a>>
         /\ Append(From(a, n), a + n) = From(a, n + 1)
<1>1. \A i \in 1 .. n : a + i - 1 \in Addr
  <2> SUFFICES ASSUME NEW i \in 1 .. n PROVE a + i - 1 \in Addr
    OBVIOUS
  <2>1. Base(f) \in Nat /\ Top(f) \in Nat
    BY Families
  <2>2. a + i - 1 \in Nat /\ Base(f) <= a + i - 1 /\ a + i - 1 < Top(f)
    BY <2>1
  <2> QED BY <2>2, Families
<1>2. From(a, n) \in [1 .. n -> Addr]
  BY <1>1 DEF From
<1>3. From(a, n) \in Seq(Addr) /\ Len(From(a, n)) = n
  BY <1>2
<1>4. n = 0 => From(a, n) = << >>
  BY <1>3, EmptySeq
<1>5. n = 1 => From(a, n) = <<a>>
  BY DEF From
<1>6. Append(From(a, n), a + n) = From(a, n + 1)
  BY <1>3 DEF From
<1> QED BY <1>3, <1>4, <1>5, <1>6

\* What each kind of part stands for.
LEMMA MeantIs ==
  ASSUME NEW part \in Part
  PROVE  /\ part.kind = "blank" => Meant(part) = << >>
         /\ part.kind \in {"single", "bad"} => Meant(part) = From(part.from, 1)
         /\ part.kind = "range" =>
              Meant(part) = IF part.to < part.from THEN << >>
                            ELSE From(part.from, part.to - part.from + 1)
         /\ part.kind = "cidr" =>
              Meant(part) = IF BlockSize(part) >= 4 /\ ~Six(part.from)
                            THEN From(FirstOf(part) + 1, BlockSize(part) - 2)
                            ELSE From(FirstOf(part), BlockSize(part))
<1>1. /\ part.kind \in {"single", "cidr", "range", "blank", "bad"}
      /\ part.from \in Nat /\ part.to \in Nat /\ part.from \in Addr
  BY Families DEF Part
<1>2. CASE part.kind = "blank"
  BY <1>2 DEF Meant
<1>4. CASE part.kind \in {"single", "bad"}
  <2>1. Meant(part) = [i \in 1 .. part.from - part.from + 1 - 2 * 0 |-> part.from + 0 + i - 1]
    <3>1. part.kind # "cidr" /\ part.kind # "range" /\ part.kind # "blank"
      BY <1>4
    <3>2. ~(part.from < part.from)
      BY <1>1
    <3> QED BY <3>1, <3>2 DEF Meant
  <2>2. part.from - part.from + 1 - 2 * 0 = 1 /\ part.from + 0 = part.from
    BY <1>1
  <2> QED BY <1>4, <2>1, <2>2 DEF From
<1>5. CASE part.kind = "range"
  <2>1. Meant(part) = IF part.to < part.from THEN << >>
          ELSE [i \in 1 .. part.to - part.from + 1 - 2 * 0 |-> part.from + 0 + i - 1]
    BY <1>1, <1>5 DEF Meant
  <2>2. part.to - part.from + 1 - 2 * 0 = part.to - part.from + 1 /\ part.from + 0 = part.from
    BY <1>1
  <2> QED BY <1>5, <2>1, <2>2 DEF From
<1>3. CASE part.kind = "cidr"
  <2> DEFINE c == FirstOf(part)
             b == BlockSize(part)
             S == {a \in Addr : InBlock(part, a)}
             ends == ~Six(part.from)
  <2>1. /\ c \in Nat /\ b \in Nat \ {0} /\ Base(part.from) <= c /\ c + b <= Top(part.from)
        /\ Base(part.from) \in Nat /\ Top(part.from) \in Nat
    BY <1>1, <1>3, BlockOf, Families
  <2>2. \A a \in Nat : InBlock(part, a) <=> c <= a /\ a < c + b
    BY <1>3, BlockOf
  <2>3. \A a : a \in S <=> a \in Nat /\ c <= a /\ a < c + b
    <3>1. \A a \in Addr : a \in Nat
      BY Families
    <3>2. ASSUME NEW a \in Nat, c <= a, a < c + b
          PROVE  a \in Addr
      <4> HIDE DEF c, b
      <4>1. Base(part.from) <= a /\ a < Top(part.from)
        BY <2>1, <3>2
      <4> QED BY <1>1, <4>1, Families
    <3> HIDE DEF c, b
    <3> QED BY <2>2, <3>1, <3>2
  <2> HIDE DEF c, b, S, ends
  <2>4. Min(S) = c
    BY <2>1, <2>3 DEF Min
  <2>5. Max(S) = c + b - 1
    BY <2>1, <2>3 DEF Max
  <2>6. c + b - 1 - c >= 3 <=> b >= 4
    BY <2>1
  <2>7. Meant(part) = LET inner == IF b >= 4 /\ ends THEN 1 ELSE 0
                      IN [i \in 1 .. (c + b - 1) - c + 1 - 2 * inner |-> c + inner + i - 1]
    <3> DEFINE M(from, to) ==
                 LET inner == IF ends /\ to - from >= 3 THEN 1 ELSE 0
                 IN IF to < from THEN << >>
                    ELSE [i \in 1 .. to - from + 1 - 2 * inner |-> from + inner + i - 1]
    <3>1. Meant(part) = M(Min(S), Max(S))
      BY <1>3 DEF Meant, S, ends
    <3>2. Meant(part) = M(c, c + b - 1)
      <4> HIDE DEF M
      <4> QED BY <2>4, <2>5, <3>1
    <3> DEFINE e == c + b - 1
    <3>3. ~(e < c) /\ (e - c >= 3 <=> b >= 4) /\ Meant(part) = M(c, e)
      BY <2>1, <2>6, <3>2
    <3> HIDE DEF e
    <3>4. Meant(part) = LET inner == IF b >= 4 /\ ends THEN 1 ELSE 0
                        IN [i \in 1 .. e - c + 1 - 2 * inner |-> c + inner + i - 1]
      <4>1. CASE b >= 4 /\ ends
        BY <3>3, <4>1
      <4>2. CASE ~(b >= 4 /\ ends)
        BY <3>3, <4>2
      <4> QED BY <4>1, <4>2
    <3> QED BY <3>4 DEF e
  <2>8. CASE b >= 4 /\ ends
    <3>1. (c + b - 1) - c + 1 - 2 * 1 = b - 2
      BY <2>1
    <3> QED BY <1>3, <2>7, <2>8, <3>1 DEF From, b, c, ends
  <2>9. CASE ~(b >= 4 /\ ends)
    <3>1. (c + b - 1) - c + 1 - 2 * 0 = b /\ \A i : c + 0 = c
      BY <2>1
    <3> QED BY <1>3, <2>7, <2>9, <3>1 DEF From, b, c, ends
  <2> QED BY <2>8, <2>9
<1> QED BY <1>1, <1>2, <1>3, <1>4, <1>5

LEMMA MeantType ==
  ASSUME NEW part \in Part
  PROVE  Meant(part) \in Seq(Addr)
<1>1. /\ part.kind \in {"single", "cidr", "range", "blank", "bad"}
      /\ part.from \in Nat /\ part.to \in Nat /\ part.from \in Addr
      /\ Base(part.from) \in Nat /\ Base(part.from) <= part.from /\ part.from < Top(part.from)
      /\ Top(part.from) \in Nat /\ (part.kind = "range" => part.to < Top(part.from))
  BY Families DEF Part
<1>2. CASE part.kind \in {"single", "bad"}
  <2>1. part.from + 1 <= Top(part.from)
    BY <1>1
  <2>2. From(part.from, 1) \in Seq(Addr)
    BY <1>1, <2>1, FromType
  <2> QED BY <1>2, <2>2, MeantIs
<1>3. CASE part.kind = "range"
  <2>1. CASE part.to < part.from
    BY <1>3, <2>1, MeantIs, EmptySeq
  <2>2. CASE ~(part.to < part.from)
    <3> DEFINE n == part.to - part.from + 1
    <3>1. n \in Nat /\ part.from + n <= Top(part.from)
      BY <1>1, <1>3, <2>2
    <3>2. From(part.from, n) \in Seq(Addr)
      BY <1>1, <3>1, FromType
    <3> QED BY <1>3, <2>2, <3>2, MeantIs
  <2> QED BY <2>1, <2>2
<1>4. CASE part.kind = "cidr"
  <2> DEFINE c == FirstOf(part)
             b == BlockSize(part)
  <2>1. c \in Nat /\ b \in Nat \ {0} /\ Base(part.from) <= c /\ c + b <= Top(part.from)
    BY <1>4, BlockOf
  <2>2. Meant(part) = IF b >= 4 /\ ~Six(part.from) THEN From(c + 1, b - 2) ELSE From(c, b)
    BY <1>4, MeantIs
  <2> HIDE DEF b, c
  <2>3. b >= 4 => From(c + 1, b - 2) \in Seq(Addr)
    <3> SUFFICES ASSUME b >= 4 PROVE From(c + 1, b - 2) \in Seq(Addr)
      OBVIOUS
    <3>1. /\ c + 1 \in Nat /\ b - 2 \in Nat /\ Base(part.from) <= c + 1
          /\ c + 1 + (b - 2) <= Top(part.from)
      BY <1>1, <2>1
    <3> QED BY <1>1, <3>1, FromType
  <2>4. From(c, b) \in Seq(Addr)
    BY <1>1, <2>1, FromType
  <2> QED BY <2>2, <2>3, <2>4
<1>5. CASE part.kind = "blank"
  BY <1>5, MeantIs, EmptySeq
<1> QED BY <1>1, <1>2, <1>3, <1>4, <1>5

\* What the first parts of a target mean, and one part more.
LEMMA AskedNext ==
  ASSUME NEW t \in Seq(Part), NEW d \in Nat, d < Len(t)
  PROVE  /\ Asked(SubSeq(t, 1, d)) \in Seq(Addr)
         /\ Asked(SubSeq(t, 1, d + 1)) = Asked(SubSeq(t, 1, d)) \o Meant(t[d + 1])
<1> DEFINE u == SubSeq(t, 1, d)
           v == SubSeq(t, 1, d + 1)
           s == [i \in 1 .. Len(u) |-> Meant(u[i])]
<1>1. t \in [1 .. Len(t) -> Part] /\ Len(t) \in Nat
  BY LenProperties
<1>2. u = [i \in 1 .. d |-> t[i]] /\ v = [i \in 1 .. d + 1 |-> t[i]] /\ Len(u) = d /\ Len(v) = d + 1
  BY <1>1
<1>3. \A i \in 1 .. d + 1 : Meant(t[i]) \in Seq(Addr)
  BY <1>1, MeantType
<1>4. s = [i \in 1 .. d |-> Meant(t[i])]
  BY <1>2
<1>5. s \in Seq(Seq(Addr)) /\ Len(s) = d
  <2>1. s \in [1 .. d -> Seq(Addr)]
    BY <1>3, <1>4
  <2> HIDE DEF s
  <2> QED BY <2>1
<1>6. [i \in 1 .. Len(v) |-> Meant(v[i])] = Append(s, Meant(t[d + 1]))
  <2>1. [i \in 1 .. Len(v) |-> Meant(v[i])] = [i \in 1 .. d + 1 |-> Meant(t[i])]
    BY <1>2
  <2>2. Append(s, Meant(t[d + 1])) = [i \in 1 .. d + 1 |-> IF i = d + 1 THEN Meant(t[d + 1]) ELSE s[i]]
    <3> HIDE DEF s
    <3> QED BY <1>5
  <2>3. \A i \in 1 .. d + 1 : i # d + 1 => s[i] = Meant(t[i])
    BY <1>4
  <2> HIDE DEF s
  <2> QED BY <2>1, <2>2, <2>3
<1>7. Meant(t[d + 1]) \in Seq(Addr)
  BY <1>3
<1> HIDE DEF s, u, v
<1>8. FlattenSeq(s) \in Seq(Addr) /\ FlattenSeq(Append(s, Meant(t[d + 1]))) = FlattenSeq(s) \o Meant(t[d + 1])
  BY <1>5, <1>7, FlattenAppend
<1>9. Asked(u) = FlattenSeq(s) /\ Asked(v) = FlattenSeq(Append(s, Meant(t[d + 1])))
  BY <1>6 DEF Asked, s
<1> QED BY <1>8, <1>9 DEF u, v

LEMMA AskedEnds ==
  ASSUME NEW t \in Seq(Part)
  PROVE  /\ Asked(SubSeq(t, 1, 0)) = << >>
         /\ SubSeq(t, 1, Len(t)) = t
<1>1. SubSeq(t, 1, 0) = << >>
  BY EmptySeq
<1>2. Asked(<< >>) = FlattenSeq(<< >>)
  BY EmptySeq DEF Asked
<1> QED BY <1>1, <1>2, FlattenEmpty, SubSeqFull

-----------------------------------------------------------------------------
(***************************************************************************)
(* The plan of a scan: the addresses                                       *)
(***************************************************************************)

\* What the loop over a part has collected, unless it is one that wraps round.
Collected(part) ==
  LET n == Len(chunk)
      first == FirstOf(part)
  IN /\ part.kind = "range" /\ part.to # 2 ^ Bits - 1 =>
          chunk = From(first, n) /\ (n # 0 => cursor <= part.to + 1)
     /\ part.kind = "cidr" /\ part.ones # 0 =>
          /\ chunk = From(first, n) /\ n <= BlockSize(part)
          /\ cursor = IF first + n = Top(part.from) THEN Base(part.from) ELSE first + n

\* A turn of the loop collects one address more.
LEMMA CollectMore ==
  ASSUME NEW part \in Part, part = Head(todo), WalkInv, Collected(part), WalkPart
  PROVE  Collected(part)'
<1> DEFINE n == Len(chunk)
           first == FirstOf(part)
           b == BlockSize(part)
           low == Base(part.from)
           top == Top(part.from)
<1>1. /\ stage = "loop" /\ Walked(part) /\ InPart(part)
      /\ chunk' = Append(chunk, cursor) /\ cursor' = IncrementIP(cursor)
  BY DEF WalkPart, WalkInv
<1>2. /\ cursor \in Addr /\ n \in Nat /\ Len(chunk') = n + 1 /\ cursor \in Nat
      /\ cursor < top /\ top \in Nat /\ low \in Nat
      /\ cursor' = IF cursor = top - 1 THEN low ELSE cursor + 1
  <2>1. cursor \in Addr /\ n \in Nat /\ Len(chunk') = n + 1
    BY <1>1, AppendProperties, LenProperties DEF WalkInv
  <2>2. Base(cursor) = low /\ Top(cursor) = top
    BY <1>1 DEF Walked, Base, Top, Width
  <2> HIDE DEF low, top
  <2> QED BY <1>1, <2>1, <2>2, Increment, Families
<1>3. /\ first \in Nat /\ low <= first /\ first < top /\ part.from \in Addr /\ part.from \in Nat
      /\ part.to \in Nat
      /\ part.kind = "range" =>
           first = part.from /\ top = 2 ^ Bits /\ part.to < top
  <2>1. /\ first \in Addr /\ (Six(first) <=> Six(part.from)) /\ part.from \in Addr /\ part.to \in Addr
        /\ part.kind = "range" => ~Six(part.from) /\ ~Six(part.to)
    BY FirstIsInBlock DEF Part
  <2>2. part.kind = "range" => first = part.from
    BY DEF FirstOf
  <2> HIDE DEF first
  <2> QED BY <2>1, <2>2, Families
<1> HIDE DEF n, first, b, low, top
<1>5. ASSUME cursor = first + n, chunk = From(first, n)
      PROVE  chunk' = From(first, n + 1)
  <2>1. first + n <= top
    BY <1>2, <1>5
  <2>2. Append(From(first, n), first + n) = From(first, n + 1)
    BY <1>2, <1>3, <2>1, FromType DEF low, top
  <2> QED BY <1>1, <1>5, <2>2
<1>6. ASSUME part.kind = "range", part.to # 2 ^ Bits - 1
      PROVE  chunk' = From(first, n + 1) /\ cursor' <= part.to + 1
  <2>1. cursor = first + n /\ cursor <= part.to /\ chunk = From(first, n)
    BY <1>1, <1>3, <1>6 DEF Walked, InPart, Collected, n, first
  <2>2. cursor' = cursor + 1
    BY <1>2, <1>3, <1>6, <2>1
  <2> QED BY <1>2, <1>3, <1>5, <2>1, <2>2
<1>7. ASSUME part.kind = "cidr", part.ones # 0
      PROVE  /\ chunk' = From(first, n + 1) /\ n + 1 <= b
             /\ cursor' = IF first + (n + 1) = top THEN low ELSE first + (n + 1)
  <2>1. cursor = first + n
    BY <1>1, <1>7 DEF Walked, InPart, n, first
  <2>2. chunk = From(first, n)
    BY <1>7 DEF Collected, n, first
  <2>3. InBlock(part, cursor)
    BY <1>1, <1>7 DEF InPart
  <2>4. b \in Nat /\ cursor < first + b
    BY <1>2, <1>7, <2>3, BlockOf DEF first, b
  <2>5. n + 1 <= b
    BY <1>2, <1>3, <2>1, <2>4
  <2>6. cursor' = IF first + (n + 1) = top THEN low ELSE first + (n + 1)
    BY <1>2, <1>3, <2>1
  <2> QED BY <1>5, <2>1, <2>2, <2>5, <2>6
<1>8. FirstOf(part)' = first /\ BlockSize(part)' = b /\ Len(chunk') = n + 1
      /\ Base(part.from)' = low /\ Top(part.from)' = top
  BY <1>2 DEF first, b, low, top, FirstOf, BlockSize, Base, Top, Width, Six
<1> QED BY <1>2, <1>3, <1>6, <1>7, <1>8 DEF Collected

\* When the loop over a part comes to an end, it has collected what the part means.
LEMMA CollectedIsMeant ==
  ASSUME NEW part \in Part, part = Head(todo), WalkInv, stage = "loop",
         Collected(part), ~InPart(part)
  PROVE  DropEnds(part, chunk) = Meant(part)
<1> DEFINE n == Len(chunk)
           first == FirstOf(part)
           b == BlockSize(part)
           low == Base(part.from)
           top == Top(part.from)
<1>1. /\ Walked(part) /\ cursor \in Nat /\ low <= cursor /\ cursor < top /\ n \in Nat
      /\ top \in Nat /\ low \in Nat /\ part.from \in Addr /\ part.from \in Nat /\ part.to \in Nat
      /\ low <= part.from /\ part.from < top
      /\ part.kind = "range" => top = 2 ^ Bits /\ part.to < top
      /\ part.kind \in {"cidr", "range"}
  <2>1. /\ Walked(part) /\ cursor \in Addr /\ n \in Nat /\ part.from \in Addr /\ part.to \in Addr
        /\ (Six(cursor) <=> Six(part.from)) /\ part.kind \in {"cidr", "range"}
        /\ part.kind = "range" => ~Six(part.from) /\ ~Six(part.to)
    BY LenProperties DEF WalkInv, Walked, Part
  <2> QED BY <2>1, Families
<1> HIDE DEF n, first, b, low, top
<1>3. CASE part.kind = "range"
  <2>1. cursor > part.to /\ part.to # 2 ^ Bits - 1
    BY <1>1, <1>3 DEF InPart
  <2>2. /\ first = part.from /\ cursor = part.from + n /\ chunk = From(part.from, n)
        /\ n # 0 => cursor <= part.to + 1
    BY <1>1, <1>3, <2>1 DEF Walked, Collected, first, FirstOf, n
  <2>3. DropEnds(part, chunk) = chunk
    BY <1>3 DEF DropEnds
  <2>4. CASE n = 0
    <3>1. part.to < part.from /\ chunk = << >>
      <4>1. part.from + 0 <= top
        BY <1>1
      <4>2. From(part.from, 0) = << >>
        BY <1>1, <4>1, FromType DEF low, top
      <4> QED BY <1>1, <2>1, <2>2, <2>4, <4>2
    <3> QED BY <1>3, <2>3, <3>1, MeantIs
  <2>5. CASE n # 0
    <3>1. n = part.to - part.from + 1 /\ ~(part.to < part.from)
      BY <1>1, <2>1, <2>2, <2>5
    <3> QED BY <1>3, <2>2, <2>3, <3>1, MeantIs
  <2> QED BY <2>4, <2>5
<1>4. CASE part.kind = "cidr"
  <2>1. /\ first \in Nat /\ b \in Nat \ {0} /\ low <= first /\ first + b <= top
        /\ InBlock(part, cursor) <=> first <= cursor /\ cursor < first + b
        /\ ~Six(part.from) => (part.ones < Bits - 1 <=> b >= 4)
    BY <1>1, <1>4, BlockOf DEF first, b, low, top, Width
  <2>2. ~InBlock(part, cursor)
    BY <1>4 DEF InPart
  <2>3. part.ones # 0
    <3> SUFFICES ASSUME part.ones = 0 PROVE FALSE
      OBVIOUS
    <3>1. top = low + b
      <4>1. \A k \in Nat : k - 0 = k
        OBVIOUS
      <4>2. Width(part.from) \in Nat
        BY SizeAssumption DEF Width
      <4> QED BY <4>1, <4>2 DEF top, low, b, Top, BlockSize
    <3> QED BY <1>1, <2>1, <2>2, <3>1
  <2>4. chunk = From(first, n) /\ n <= b /\ cursor = IF first + n = top THEN low ELSE first + n
    BY <1>4, <2>3 DEF Collected, n, first, b, low, top
  <2>5. n = b
    BY <1>1, <2>1, <2>2, <2>4
  <2>6. CASE b >= 4 /\ ~Six(part.from)
    <3>1. n > 2 /\ n - 1 \in Nat
      BY <2>5, <2>6, <2>1
    <3>2. SubSeq(From(first, b), 2, b - 1) = From(first + 1, b - 2)
      <4>1. Len(From(first, b)) = b /\ From(first, b) \in Seq(Addr)
        BY <1>1, <2>1, FromType DEF low, top
      <4>2. SubSeq(From(first, b), 2, b - 1) = [i \in 1 .. (b - 1) - 2 + 1 |-> From(first, b)[2 + i - 1]]
        BY <2>1, <4>1
      <4>3. (b - 1) - 2 + 1 = b - 2
        BY <2>1
      <4>4. \A i \in 1 .. b - 2 : 2 + i - 1 \in 1 .. b /\ From(first, b)[2 + i - 1] = first + 1 + i - 1
        BY <2>1 DEF From
      <4>5. SubSeq(From(first, b), 2, b - 1) = [i \in 1 .. b - 2 |-> first + 1 + i - 1]
        BY <4>2, <4>3, <4>4
      <4> QED BY <4>5 DEF From
    <3>3. DropEnds(part, chunk) = SubSeq(chunk, 2, n - 1)
      BY <1>4, <2>1, <2>6, <3>1 DEF DropEnds, n
    <3> QED BY <1>4, <2>4, <2>5, <2>6, <3>2, <3>3, MeantIs DEF first, b
  <2>7. CASE ~(b >= 4 /\ ~Six(part.from))
    <3>1. DropEnds(part, chunk) = chunk
      BY <2>1, <2>7 DEF DropEnds
    <3> QED BY <1>4, <2>4, <2>5, <2>7, <3>1, MeantIs DEF first, b
  <2> QED BY <2>6, <2>7
<1> QED BY <1>1, <1>3, <1>4

\* The parts of a text that are still to be read are its last ones.
IsRest(rest, text) ==
  /\ Len(rest) <= Len(text)
  /\ \A i \in 1 .. Len(rest) : rest[i] = text[Len(text) - Len(rest) + i]
Done(rest, text) == Len(text) - Len(rest)

LEMMA RestStep ==
  ASSUME NEW S, NEW text \in Seq(S), NEW rest \in Seq(S), IsRest(rest, text), rest # << >>
  PROVE  /\ Done(rest, text) \in Nat /\ Done(rest, text) < Len(text)
         /\ Head(rest) = text[Done(rest, text) + 1]
         /\ IsRest(Tail(rest), text)
         /\ Done(Tail(rest), text) = Done(rest, text) + 1
<1>1. Len(rest) \in Nat \ {0} /\ Len(text) \in Nat
  BY EmptySeq, LenProperties
<1>2. /\ Head(rest) = rest[1] /\ Len(Tail(rest)) = Len(rest) - 1
      /\ \A i \in 1 .. Len(Tail(rest)) : Tail(rest)[i] = rest[i + 1]
  BY HeadTailProperties
<1>3. IsRest(Tail(rest), text)
  <2>1. Len(Tail(rest)) <= Len(text)
    BY <1>1, <1>2 DEF IsRest
  <2>2. ASSUME NEW i \in 1 .. Len(Tail(rest))
        PROVE  Tail(rest)[i] = text[Len(text) - Len(Tail(rest)) + i]
    <3>1. i + 1 \in 1 .. Len(rest) /\ Len(text) - Len(rest) + (i + 1) = Len(text) - Len(Tail(rest)) + i
      BY <1>1, <1>2
    <3> QED BY <1>2, <3>1 DEF IsRest
  <2> QED BY <2>1, <2>2 DEF IsRest
<1>4. 1 \in 1 .. Len(rest)
  BY <1>1
<1> QED BY <1>1, <1>2, <1>3, <1>4 DEF IsRest, Done

LEMMA RestEnds ==
  ASSUME NEW S, NEW text \in Seq(S)
  PROVE  IsRest(text, text) /\ Done(text, text) = 0 /\ Done(<< >>, text) = Len(text)
BY LenProperties, EmptySeq DEF IsRest, Done

\* The parts read so far are good ones, and the addresses are what they mean.
TargetInv ==
  LET t == request.target
      d == Done(todo, t)
  IN /\ request \in Request /\ IsRest(todo, t)
     /\ addrs = Asked(SubSeq(t, 1, d))
     /\ \A i \in 1 .. d : t[i].kind # "bad"
     /\ stage = "loop" => Collected(Head(todo))
     /\ stage \notin {"parse", "loop", "refused", "dead"} => addrs # << >>

\* A part is read to its end.
LEMMA ReadMore ==
  ASSUME WalkInv, TargetInv, todo # << >>, Head(todo).kind # "bad",
         todo' = Tail(todo), addrs' = addrs \o Meant(Head(todo)), request' = request,
         stage' = "parse"
  PROVE  TargetInv'
<1> DEFINE t == request.target
           d == Done(todo, t)
<1>1. t \in Seq(Part) /\ todo \in Seq(Part) /\ IsRest(todo, t)
  BY RequestAssumption DEF WalkInv, TargetInv
<1> HIDE DEF t
<1>2. /\ d \in Nat /\ d < Len(t) /\ Head(todo) = t[d + 1] /\ IsRest(todo', t)
      /\ Done(todo', t) = d + 1
  BY <1>1, RestStep
<1>3. addrs = Asked(SubSeq(t, 1, d)) /\ \A i \in 1 .. d : t[i].kind # "bad"
  BY DEF TargetInv, t
<1> HIDE DEF d
<1>4. addrs' = Asked(SubSeq(t, 1, d + 1))
  BY <1>1, <1>2, <1>3, AskedNext
<1>5. \A i \in 1 .. d + 1 : t[i].kind # "bad"
  BY <1>2, <1>3
<1>6. request \in Request
  BY DEF TargetInv
<1> QED BY <1>2, <1>4, <1>5, <1>6 DEF TargetInv, t

LEMMA TargetStep ==
  ASSUME WalkInv, TargetInv, [PlanNext]_planVars
  PROVE  TargetInv'
<1>1. CASE BeginPart
  <2> DEFINE part == Head(todo)
  <2>1. part \in Part /\ todo # << >> /\ stage = "parse" /\ request' = request
    BY <1>1, HeadTailProperties DEF BeginPart, WalkInv
  <2>2. CASE part.kind = "bad"
    <3>1. stage' = "refused" /\ UNCHANGED <<todo, addrs>>
      BY <1>1, <2>2 DEF BeginPart, parsing
    <3> QED BY <2>1, <3>1 DEF TargetInv
  <2>3. CASE part.kind = "blank"
    <3>1. todo' = Tail(todo) /\ addrs' = addrs /\ stage' = "parse"
      BY <1>1, <2>1, <2>3 DEF BeginPart
    <3>2. Meant(part) = << >>
      BY <2>1, <2>3, MeantIs
    <3>3. addrs \o << >> = addrs
      BY ConcatEmptySeq DEF WalkInv
    <3> QED BY <2>1, <2>3, <3>1, <3>2, <3>3, ReadMore
  <2>4. CASE part.kind = "single"
    <3>1. todo' = Tail(todo) /\ addrs' = Append(addrs, part.from) /\ stage' = "parse"
      BY <1>1, <2>1, <2>4 DEF BeginPart
    <3>2. Meant(part) = <<part.from>>
      <4>1. /\ part.from \in Addr /\ part.from \in Nat /\ Base(part.from) <= part.from
            /\ part.from + 1 <= Top(part.from)
        <5>1. part.from \in Addr
          BY <2>1 DEF Part
        <5> QED BY <5>1, Families
      <4>2. From(part.from, 1) = <<part.from>>
        BY <4>1, FromType
      <4> QED BY <2>1, <2>4, <4>2, MeantIs
    <3>3. Append(addrs, part.from) = addrs \o <<part.from>>
      <4>1. part.from \in Addr
        BY <2>1 DEF Part
      <4> QED BY <4>1, AppendIsConcat DEF WalkInv
    <3> HIDE DEF part
    <3> QED BY <2>1, <2>4, <3>1, <3>2, <3>3, ReadMore DEF part
  <2>5. CASE part.kind \in {"cidr", "range"}
    <3>1. /\ stage' = "loop" /\ cursor' = FirstOf(part) /\ chunk' = << >>
          /\ todo' = todo /\ addrs' = addrs
      BY <1>1, <2>5 DEF BeginPart
    <3>2. Collected(part)'
      <4>1. /\ FirstOf(part) \in Nat /\ Base(part.from) <= FirstOf(part) /\ part.from \in Addr
            /\ FirstOf(part) < Top(part.from) /\ Top(part.from) \in Nat
        <5>1. FirstOf(part) \in Addr /\ part.from \in Addr /\ (Six(FirstOf(part)) <=> Six(part.from))
          BY <2>1, FirstIsInBlock DEF Part
        <5> HIDE DEF part
        <5> QED BY <5>1, Families
      <4>2. Len(chunk') = 0 /\ chunk' = From(FirstOf(part), 0)
        <5>1. From(FirstOf(part), 0) = << >>
          BY <4>1, FromType
        <5> QED BY <3>1, <5>1, EmptySeq
      <4>3. /\ part' = part /\ FirstOf(part)' = FirstOf(part) /\ BlockSize(part)' = BlockSize(part)
            /\ Base(part.from)' = Base(part.from) /\ Top(part.from)' = Top(part.from)
        BY <3>1 DEF FirstOf, BlockSize, Base, Top, Six, Width
      <4>4. BlockSize(part) \in Nat
        BY <2>1, BlockIsPart
      <4> HIDE DEF part
      <4> QED BY <3>1, <4>1, <4>2, <4>3, <4>4 DEF Collected
    <3> QED BY <2>1, <3>1, <3>2 DEF TargetInv
  <2> QED BY <2>1, <2>2, <2>3, <2>4, <2>5 DEF Part
<1>2. CASE WalkPart
  <2>1. /\ todo' = todo /\ addrs' = addrs /\ request' = request /\ stage = "loop"
        /\ Head(todo) \in Part /\ stage' \in {"loop", "refused", "dead"}
    BY <1>2, HeadTailProperties DEF WalkPart, WalkInv
  <2>2. Collected(Head(todo))
    BY <2>1 DEF TargetInv
  <2>3. Collected(Head(todo))'
    BY <1>2, <2>1, <2>2, CollectMore
  <2> QED BY <2>1, <2>3 DEF TargetInv
<1>3. CASE EndPart
  <2> DEFINE part == Head(todo)
  <2>1. /\ todo # << >> /\ part \in Part /\ ~InPart(part) /\ stage = "loop" /\ Walked(part)
        /\ addrs' = addrs \o DropEnds(part, chunk) /\ todo' = Tail(todo)
        /\ stage' = "parse" /\ request' = request
    BY <1>3, HeadTailProperties DEF EndPart, WalkInv
  <2>2. Collected(part)
    BY <2>1 DEF TargetInv
  <2>3. DropEnds(part, chunk) = Meant(part)
    BY <2>1, <2>2, CollectedIsMeant
  <2>4. part.kind # "bad"
    BY <2>1 DEF Walked
  <2> QED BY <2>1, <2>3, <2>4, ReadMore
<1>4. CASE /\ UNCHANGED <<request, todo, addrs>> /\ stage' # "loop"
           /\ stage \notin {"parse", "loop", "refused", "dead"}
  BY <1>4 DEF TargetInv
<1>5. CASE EndTarget
  BY <1>5 DEF EndTarget, TargetInv, parsing
<1>6. CASE BeginPorts \/ ListPort \/ EndList \/ EndPorts
  BY <1>4, <1>6 DEF BeginPorts, ListPort, EndList, EndPorts, parsing
<1>7. CASE BeginPredict \/ EndPredict \/ Abandon \/ Prioritise \/ PlacePort \/ EndSort
  BY <1>4, <1>7 DEF BeginPredict, EndPredict, Abandon, Prioritise, PlacePort, EndSort, parsing
<1>8. ASSUME NEW g \in Source, LookUp(g) \/ Merge(g)
      PROVE  TargetInv'
  BY <1>4, <1>8 DEF LookUp, Merge, parsing
<1>9. CASE UNCHANGED planVars
  <2>1. UNCHANGED <<request, stage, todo, cursor, chunk, addrs>>
    BY <1>9 DEF planVars, parsing
  <2>2. Collected(Head(todo)) => Collected(Head(todo))'
    BY <2>1 DEF Collected, FirstOf, BlockSize, Base, Top, Six, Width
  <2> QED BY <2>1, <2>2 DEF TargetInv
<1> QED BY <1>1, <1>2, <1>3, <1>5, <1>6, <1>7, <1>8, <1>9 DEF PlanNext

-----------------------------------------------------------------------------
(***************************************************************************)
(* The plan of a scan: the ports                                           *)
(***************************************************************************)

\* The ports listed so far: those of the parts that are read, and the first ones
\* of the present part.
Listed(p) ==
  LET e == Done(spec, request.ports)
  IN \E i \in Names(request.ports, p) : i <= e \/ (stage = "list" /\ i = e + 1 /\ p < port)

PortsInv ==
  LET text == request.ports
      part == Head(spec)
  IN /\ request \in Request
     /\ spec \in Seq(PortPart) /\ IsRest(spec, text)
     /\ port \in Nat /\ ports \in Seq(Port)
     /\ \A i \in 1 .. Done(spec, text) : ~IsBad(text[i])
     /\ stage = "list" => /\ spec # << >> /\ part.kind = "range" /\ ~IsBad(part)
                          /\ part.from <= port
     /\ stage \in {"predict", "gather", "sort", "scan", "abandoned"} => spec = << >>
     /\ \A p \in Port : p \in ToSet(ports) <=> Listed(p)

\* A port lies before another one by its score, or by where it is named first.
Score(p) == IF request.predict THEN FirstScores[p] ELSE 0
InOrder(p, q) ==
  Score(p) > Score(q) \/ (Score(p) = Score(q) /\ Before(request.ports, p, q))

OrderInv ==
  \A i \in 1 .. Len(ports), j \in 1 .. Len(ports) : i < j =>
    IF stage = "scan" \/ (stage = "sort" /\ j < place) THEN InOrder(ports[i], ports[j])
    ELSE Before(request.ports, ports[i], ports[j])

\* The part of the text that is read next.
LEMMA NextPorts ==
  ASSUME PortsInv, spec # << >>
  PROVE  LET text == request.ports
             e == Done(spec, text)
         IN /\ text \in Seq(PortPart) /\ e \in Nat /\ e + 1 \in 1 .. Len(text)
            /\ Len(text) \in Nat
            /\ Head(spec) = text[e + 1] /\ Head(spec) \in PortPart
            /\ IsRest(Tail(spec), text) /\ Done(Tail(spec), text) = e + 1
            /\ Tail(spec) \in Seq(PortPart)
<1> DEFINE text == request.ports
           e == Done(spec, text)
<1>1. text \in Seq(PortPart) /\ spec \in Seq(PortPart) /\ IsRest(spec, text)
  BY RequestAssumption DEF PortsInv
<1> HIDE DEF text
<1>2. /\ e \in Nat /\ e < Len(text) /\ Head(spec) = text[e + 1]
      /\ IsRest(Tail(spec), text) /\ Done(Tail(spec), text) = e + 1
  BY <1>1, RestStep
<1>3. Head(spec) \in PortPart /\ Tail(spec) \in Seq(PortPart)
  BY <1>1, HeadTailProperties
<1>4. Len(text) \in Nat
  BY <1>1, LenProperties
<1> HIDE DEF e
<1>5. e + 1 \in 1 .. Len(text)
  BY <1>2, <1>4
<1> QED BY <1>1, <1>2, <1>3, <1>4, <1>5 DEF text, e

LEMMA PortIsNat == Port \subseteq Nat /\ PortMax \in Nat
BY SizeAssumption DEF Port

\* Reading past a part lists what it names.
LEMMA ReadPast ==
  ASSUME PortsInv, spec # << >>, ~IsBad(Head(spec)),
         spec' = Tail(spec), stage' \notin {"list", "predict", "gather", "sort", "scan", "abandoned"},
         UNCHANGED <<request, port, ports>>,
         \/ stage # "list" /\ Head(spec).kind # "range"
         \/ stage = "list" /\ port > Head(spec).to
  PROVE  PortsInv'
<1> DEFINE text == request.ports
           e == Done(spec, text)
           part == Head(spec)
<1>1. /\ e \in Nat /\ e + 1 \in 1 .. Len(text) /\ Len(text) \in Nat
      /\ part = text[e + 1] /\ part \in PortPart
      /\ IsRest(Tail(spec), text) /\ Done(Tail(spec), text) = e + 1
      /\ Tail(spec) \in Seq(PortPart)
  BY NextPorts
<1> HIDE DEF e
<1>2. \A i \in 1 .. e + 1 : ~IsBad(text[i])
  <2>1. \A i \in 1 .. e : ~IsBad(text[i])
    BY DEF PortsInv, e
  <2> QED BY <1>1, <2>1
<1>3. ASSUME NEW p \in Port
      PROVE  Listed(p)' <=> Listed(p)
  <2>1. Listed(p)' <=> \E i \in Names(text, p) : i <= e + 1
    BY <1>1 DEF Listed
  <2>2. Listed(p) <=>
          \E i \in Names(text, p) : i <= e \/ (stage = "list" /\ i = e + 1 /\ p < port)
    BY DEF Listed, e
  <2>3. e + 1 \in Names(text, p) => stage = "list" /\ p < port
    <3> SUFFICES ASSUME e + 1 \in Names(text, p) PROVE stage = "list" /\ p < port
      OBVIOUS
    <3>1. part.kind = "range" /\ p \in part.from .. part.to
      BY <1>1 DEF Names
    <3>2. stage = "list" /\ port > part.to
      BY <3>1
    <3>3. p \in Nat /\ part.to \in Nat /\ part.from \in Nat /\ port \in Nat
      BY <1>1, PortIsNat DEF PortPart, PortsInv
    <3> HIDE DEF part
    <3> QED BY <3>1, <3>2, <3>3
  <2>4. \A i \in Names(text, p) : i \in Nat /\ (i <= e + 1 <=> i <= e \/ i = e + 1)
    <3>1. \A i \in Names(text, p) : i \in 1 .. Len(text)
      BY DEF Names
    <3> QED BY <1>1, <3>1
  <2> QED BY <2>1, <2>2, <2>3, <2>4
<1>4. \A p \in Port : p \in ToSet(ports)' <=> Listed(p)'
  BY <1>3 DEF PortsInv
<1> QED BY <1>1, <1>2, <1>4 DEF PortsInv

\* A port of the present part is listed unless it is already there.
LEMMA ListPortStep ==
  ASSUME PortsInv, OrderInv, ListPort
  PROVE  PortsInv' /\ OrderInv'
<1> DEFINE text == request.ports
           e == Done(spec, text)
           part == Head(spec)
<1>1. /\ stage = "list" /\ stage' = "list" /\ port <= part.to /\ ports' = AppendNew(ports, port)
      /\ port' = port + 1 /\ UNCHANGED <<request, spec>>
  BY DEF ListPort
<1>2. /\ spec # << >> /\ part.kind = "range" /\ ~IsBad(part) /\ part.from <= port
      /\ port \in Nat /\ ports \in Seq(Port)
  BY <1>1 DEF PortsInv
<1>3. /\ e \in Nat /\ e + 1 \in 1 .. Len(text) /\ Len(text) \in Nat
      /\ part = text[e + 1] /\ part \in PortPart
  BY <1>2, NextPorts
<1>4. part.from \in Nat /\ part.to \in Nat /\ part.to \in Port /\ PortMax \in Nat
  BY <1>3, PortIsNat DEF PortPart
<1> HIDE DEF e, part
<1>5. port \in Port /\ e + 1 \in Names(text, port)
  BY <1>1, <1>2, <1>3, <1>4 DEF Port, Names
<1>6. \A p \in Port : Listed(p)' <=> Listed(p) \/ p = port
  <2> SUFFICES ASSUME NEW p \in Port
               PROVE  Listed(p)' <=> Listed(p) \/ p = port
    OBVIOUS
  <2>1. Listed(p)' <=> \E i \in Names(text, p) : i <= e \/ (i = e + 1 /\ p < port + 1)
    BY <1>1 DEF Listed, e
  <2>2. Listed(p) <=> \E i \in Names(text, p) : i <= e \/ (i = e + 1 /\ p < port)
    BY <1>1 DEF Listed, e
  <2>3. p < port + 1 <=> p < port \/ p = port
    BY <1>2, PortIsNat
  <2> QED BY <1>5, <2>1, <2>2, <2>3
<1>7. /\ ports' \in Seq(Port)
      /\ \A p \in Port : p \in ToSet(ports') <=> p \in ToSet(ports) \/ p = port
      /\ \/ ports' = ports
         \/ /\ Len(ports') = Len(ports) + 1 /\ ports'[Len(ports) + 1] = port
            /\ \A i \in 1 .. Len(ports) : ports'[i] = ports[i]
            /\ port \notin ToSet(ports)
  <2>1. CASE Contains(ports, port)
    <3>1. port \in ToSet(ports)
      BY <2>1 DEF Contains, ToSet
    <3> QED BY <1>1, <1>2, <2>1, <3>1 DEF AppendNew
  <2>2. CASE ~Contains(ports, port)
    <3>1. ports' = Append(ports, port)
      BY <1>1, <2>2 DEF AppendNew
    <3>2. port \notin ToSet(ports)
      BY <1>2, <2>2 DEF Contains, ToSet
    <3>3. /\ ports' \in Seq(Port) /\ Len(ports') = Len(ports) + 1
          /\ ports'[Len(ports) + 1] = port
          /\ \A i \in 1 .. Len(ports) : ports'[i] = ports[i]
      BY <1>2, <1>5, <3>1, AppendProperties
    <3>4. \A p : p \in ToSet(ports') <=> p \in ToSet(ports) \/ p = port
      <4>1. DOMAIN ports = 1 .. Len(ports) /\ DOMAIN ports' = 1 .. Len(ports) + 1 /\ Len(ports) \in Nat
        BY <1>2, <3>3, LenProperties
      <4>2. 1 .. Len(ports) + 1 = (1 .. Len(ports)) \cup {Len(ports) + 1}
        BY <4>1
      <4> QED BY <3>3, <4>1, <4>2 DEF ToSet
    <3> QED BY <3>2, <3>3, <3>4
  <2> QED BY <2>1, <2>2
<1>8. PortsInv'
  <2>1. \A p \in Port : p \in ToSet(ports)' <=> Listed(p)'
    BY <1>6, <1>7 DEF PortsInv
  <2>2. port' \in Nat /\ part.from <= port'
    BY <1>1, <1>2, <1>4
  <2> QED BY <1>1, <1>7, <2>1, <2>2 DEF PortsInv, part
<1>9. OrderInv'
  <2>1. \A i \in 1 .. Len(ports), j \in 1 .. Len(ports) :
          i < j => Before(text, ports[i], ports[j])
    BY <1>1 DEF OrderInv
  <2>2. CASE ports' = ports
    BY <1>1, <2>1, <2>2 DEF OrderInv
  <2>3. CASE ports' # ports
    <3> DEFINE n == Len(ports)
    <3>1. /\ Len(ports') = n + 1 /\ ports'[n + 1] = port /\ n \in Nat
          /\ \A i \in 1 .. n : ports'[i] = ports[i]
      BY <1>2, <1>7, <2>3, LenProperties
    <3>2. ~Listed(port)
      BY <1>5, <1>7, <2>3 DEF PortsInv
    <3>3. ASSUME NEW i \in 1 .. n
          PROVE  Before(text, ports[i], port)
      <4>1. ports[i] \in Port /\ ports[i] \in ToSet(ports) /\ ports[i] \in Nat
        <5>1. DOMAIN ports = 1 .. Len(ports)
          BY <1>2, LenProperties
        <5>2. ports[i] \in Port
          BY <1>2, ElementOfSeq
        <5> QED BY <5>1, <5>2, PortIsNat DEF ToSet
      <4>2. PICK k \in Names(text, ports[i]) : k <= e \/ (k = e + 1 /\ ports[i] < port)
        BY <1>1, <4>1 DEF PortsInv, Listed, e
      <4>3. ASSUME NEW j \in Names(text, port)
            PROVE  k < j \/ (k = j /\ ports[i] < port)
        <5>1. j \in Nat /\ k \in Nat
          BY DEF Names
        <5>2. ~(j <= e)
          BY <3>2 DEF Listed, e
        <5> QED BY <1>3, <4>2, <5>1, <5>2
      <4> QED BY <4>3 DEF Before
    <3>4. ASSUME NEW i \in 1 .. Len(ports'), NEW j \in 1 .. Len(ports'), i < j
          PROVE  Before(text, ports'[i], ports'[j])
      <4>1. i \in 1 .. n /\ (j \in 1 .. n \/ j = n + 1)
        BY <3>1, <3>4
      <4>2. CASE j \in 1 .. n
        BY <2>1, <3>1, <3>4, <4>1, <4>2
      <4>3. CASE j = n + 1
        BY <3>1, <3>3, <4>1, <4>3
      <4> QED BY <4>1, <4>2, <4>3
    <3> QED BY <1>1, <3>4 DEF OrderInv
  <2> QED BY <2>2, <2>3
<1> QED BY <1>8, <1>9

\* The place of a port: above those with a lower score.
LEMMA PlaceIs ==
  ASSUME NEW scores, NEW s, NEW i \in Nat \ {0}
  PROVE  \E k \in 1 .. i :
           /\ Place(scores, s, i) = MovedUp(s, i, k)
           /\ \A j \in k .. i - 1 : ~(scores[s[j]] >= scores[s[i]])
           /\ k # 1 => scores[s[k - 1]] >= scores[s[i]]
<1> DEFINE S == {0} \cup {j \in 1 .. i - 1 : scores[s[j]] >= scores[s[i]]}
           m == Max(S)
<1>1. m \in S /\ \A x \in S : x <= m
  <2>1. S \in SUBSET Nat /\ S # {} /\ i \in Nat /\ \A x \in S : x <= i
    OBVIOUS
  <2> HIDE DEF S
  <2> QED BY <2>1, MaxExists
<1>2. Place(scores, s, i) = MovedUp(s, i, 1 + m)
  BY DEF Place
<1>3. 1 + m \in 1 .. i /\ m \in Nat
  <2>1. m = 0 \/ m \in 1 .. i - 1
    BY <1>1
  <2> HIDE DEF m
  <2> QED BY <2>1
<1>4. \A j \in 1 + m .. i - 1 : ~(scores[s[j]] >= scores[s[i]])
  <2> SUFFICES ASSUME NEW j \in 1 + m .. i - 1 PROVE j \notin S
    <3>1. \A j \in 1 + m .. i - 1 : j \in 1 .. i - 1
      BY <1>3
    <3> HIDE DEF m
    <3> QED BY <3>1
  <2> HIDE DEF m, S
  <2> QED BY <1>1, <1>3
<1>5. 1 + m # 1 => scores[s[(1 + m) - 1]] >= scores[s[i]]
  <2>1. (1 + m) - 1 = m /\ (1 + m # 1 => m # 0)
    BY <1>3
  <2>2. m # 0 => scores[s[m]] >= scores[s[i]]
    BY <1>1
  <2> HIDE DEF m
  <2> QED BY <2>1, <2>2
<1> HIDE DEF m
<1> QED BY <1>2, <1>3, <1>4, <1>5

\* Moving an element up keeps the elements.
LEMMA MovedUpIs ==
  ASSUME NEW S, NEW s \in Seq(S), NEW i \in 1 .. Len(s), NEW k \in 1 .. i
  PROVE  LET t == MovedUp(s, i, k)
         IN /\ t \in Seq(S) /\ Len(t) = Len(s) /\ ToSet(t) = ToSet(s)
            /\ \A j \in 1 .. Len(s) :
                 t[j] = IF j < k \/ j > i THEN s[j] ELSE IF j = k THEN s[i] ELSE s[j - 1]
<1> DEFINE n == Len(s)
           t == MovedUp(s, i, k)
<1>1. n \in Nat /\ i \in Nat /\ k \in Nat /\ s \in [1 .. n -> S]
  BY LenProperties
<1>2. \A j \in 1 .. n : /\ j \in Nat
                       /\ ~(j < k \/ j > i) /\ j # k => j - 1 \in 1 .. n
  BY <1>1
<1>3. t = [j \in 1 .. n |-> IF j < k \/ j > i THEN s[j] ELSE IF j = k THEN s[i] ELSE s[j - 1]]
  BY DEF MovedUp
<1>4. t \in [1 .. n -> S]
  <2> HIDE DEF n, t
  <2>1. i \in 1 .. n
    BY DEF n
  <2> QED BY <1>1, <1>2, <1>3, <2>1
<1> HIDE DEF t
<1>5. t \in Seq(S) /\ Len(t) = n
  BY <1>1, <1>4
<1>6. DOMAIN t = 1 .. n /\ DOMAIN s = 1 .. n
  BY <1>1, <1>4
<1>7. ASSUME NEW x \in ToSet(t) PROVE x \in ToSet(s)
  <2>1. PICK j \in 1 .. n : x = t[j]
    BY <1>6 DEF ToSet
  <2>2. x = s[j] \/ x = s[i] \/ (j - 1 \in 1 .. n /\ x = s[j - 1])
    BY <1>2, <1>3, <2>1
  <2> QED BY <1>6, <2>1, <2>2 DEF ToSet
<1>8. ASSUME NEW x \in ToSet(s) PROVE x \in ToSet(t)
  <2>1. PICK j \in 1 .. n : x = s[j]
    BY <1>6 DEF ToSet
  <2>2. \E l \in 1 .. n : t[l] = s[j]
    <3>1. CASE j < k \/ j > i
      BY <1>3, <3>1
    <3>2. CASE j = i
      <4>1. k \in 1 .. n /\ t[k] = s[i]
        BY <1>1, <1>3
      <4> QED BY <3>2, <4>1
    <3>3. CASE ~(j < k \/ j > i) /\ j # i
      <4>1. j + 1 \in 1 .. n /\ ~(j + 1 < k \/ j + 1 > i) /\ j + 1 # k /\ (j + 1) - 1 = j
        BY <1>1, <3>3
      <4>2. t[j + 1] = s[(j + 1) - 1]
        BY <1>3, <4>1
      <4> QED BY <4>1, <4>2
    <3> QED BY <3>1, <3>2, <3>3
  <2> QED BY <1>6, <2>1, <2>2 DEF ToSet
<1> QED BY <1>3, <1>5, <1>7, <1>8 DEF t

\* How far the prediction has come, and what it has left for the sort.
NextInv ==
  /\ next \in Nat \ {0}
  /\ stage \notin {"predict", "gather", "sort", "scan", "abandoned"} => next = 1
  /\ stage \in {"predict", "gather", "sort", "abandoned"} => request.predict
  /\ stage = "gather" => next <= Len(addrs)
  /\ next # 1 => addrs[1] \in DOMAIN profiles
  /\ stage = "sort" => next # 1 /\ place \in Nat \ {0, 1}
  /\ stage = "scan" /\ request.predict => next # 1

LEMMA FirstScoresType ==
  ASSUME GatherInv, NextInv, next # 1
  PROVE  FirstScores \in [Port -> Nat]
<1>1. profiles[addrs[1]] \in Profile
  BY DEF GatherInv, NextInv
<1>2. TopScore \in Nat
  BY ScoreAssumption
<1> QED BY <1>1, <1>2 DEF Profile, FirstScores

\* The elements of s before place i are sorted by their scores, and those of the
\* same score, as well as the others, by R.
SortedTo(s, i, sc, R) ==
  \A a \in 1 .. Len(s), b \in 1 .. Len(s) : a < b =>
    IF b < i THEN sc[s[a]] > sc[s[b]] \/ (sc[s[a]] = sc[s[b]] /\ <<s[a], s[b]>> \in R)
    ELSE <<s[a], s[b]>> \in R

\* One element more is put in its place.
LEMMA PlaceSorts ==
  ASSUME NEW S, NEW s \in Seq(S), NEW sc \in [S -> Nat], NEW R, NEW i \in 1 .. Len(s),
         SortedTo(s, i, sc, R)
  PROVE  LET t == Place(sc, s, i)
         IN /\ t \in Seq(S) /\ Len(t) = Len(s) /\ ToSet(t) = ToSet(s)
            /\ SortedTo(t, i + 1, sc, R)
<1> DEFINE n == Len(s)
           t == Place(sc, s, i)
           Sorted(x, y) == sc[x] > sc[y] \/ (sc[x] = sc[y] /\ <<x, y>> \in R)
<1>1. n \in Nat /\ i \in Nat \ {0} /\ i \in 1 .. n
  BY LenProperties
<1>2. PICK k \in 1 .. i : /\ t = MovedUp(s, i, k)
                          /\ \A j \in k .. i - 1 : ~(sc[s[j]] >= sc[s[i]])
                          /\ k # 1 => sc[s[k - 1]] >= sc[s[i]]
  BY <1>1, PlaceIs
<1>3. /\ t \in Seq(S) /\ Len(t) = n /\ ToSet(t) = ToSet(s)
      /\ \A j \in 1 .. n :
           t[j] = IF j < k \/ j > i THEN s[j] ELSE IF j = k THEN s[i] ELSE s[j - 1]
  BY <1>2, MovedUpIs
<1>4. \A j \in 1 .. n : s[j] \in S /\ sc[s[j]] \in Nat
  BY ElementOfSeq
<1>5. \A a \in 1 .. n, b \in 1 .. n : a < b =>
        IF b < i THEN Sorted(s[a], s[b]) ELSE <<s[a], s[b]>> \in R
  BY DEF SortedTo
<1> HIDE DEF t, n
<1>6. ASSUME NEW a \in 1 .. n, NEW b \in 1 .. n, a < b, i < b
      PROVE  <<t[a], t[b]>> \in R
  <2>1. t[b] = s[b]
    BY <1>1, <1>3, <1>6
  <2>2. PICK c \in 1 .. n : t[a] = s[c] /\ c < b
    <3>1. CASE a < k \/ a > i
      BY <1>3, <1>6, <3>1
    <3>2. CASE a = k
      BY <1>1, <1>3, <1>6, <3>2
    <3>3. CASE ~(a < k \/ a > i) /\ a # k
      <4>1. a - 1 \in 1 .. n /\ a - 1 < b /\ t[a] = s[a - 1]
        BY <1>1, <1>3, <1>6, <3>3
      <4> QED BY <4>1
    <3> QED BY <3>1, <3>2, <3>3
  <2>3. ~(b < i)
    BY <1>1, <1>6
  <2> QED BY <1>5, <2>1, <2>2, <2>3
<1>7. ASSUME NEW a \in 1 .. n, NEW b \in 1 .. n, a < b, ~(i < b)
      PROVE  Sorted(t[a], t[b])
  <2>1. CASE b < k
    <3>1. t[a] = s[a] /\ t[b] = s[b] /\ b < i
      BY <1>1, <1>3, <1>7, <2>1
    <3> HIDE DEF Sorted
    <3> QED BY <1>5, <1>7, <3>1
  <2>2. CASE b = k
    <3>1. t[a] = s[a] /\ t[b] = s[i] /\ k - 1 \in 1 .. n /\ k - 1 < i /\ k # 1 /\ a < i
      BY <1>1, <1>3, <1>7, <2>2
    <3>2. <<s[a], s[i]>> \in R
      <4>1. ~(i < i)
        BY <1>1
      <4> QED BY <1>1, <1>5, <3>1, <4>1
    <3>3. sc[s[k - 1]] >= sc[s[i]]
      BY <1>2, <3>1
    <3>4. sc[s[a]] >= sc[s[k - 1]]
      <4>1. CASE a = k - 1
        BY <1>4, <4>1
      <4>2. CASE a # k - 1
        <5>1. a < k - 1
          BY <1>1, <1>7, <2>2, <4>2
        <5>2. Sorted(s[a], s[k - 1])
          <6> HIDE DEF Sorted
          <6> QED BY <1>5, <3>1, <5>1
        <5> QED BY <1>4, <3>1, <5>2
      <4> QED BY <4>1, <4>2
    <3>5. sc[s[a]] \in Nat /\ sc[s[i]] \in Nat /\ sc[s[k - 1]] \in Nat
      BY <1>1, <1>4, <3>1
    <3>6. sc[s[a]] > sc[s[i]] \/ sc[s[a]] = sc[s[i]]
      BY <3>3, <3>4, <3>5
    <3> QED BY <3>1, <3>2, <3>6
  <2>3. CASE b > k
    <3>1. t[b] = s[b - 1] /\ b - 1 \in k .. i - 1 /\ b - 1 \in 1 .. n /\ b - 1 < i
      BY <1>1, <1>3, <1>7, <2>3
    <3>2. CASE a < k
      <4>1. t[a] = s[a] /\ a < b - 1
        BY <1>1, <1>3, <1>7, <3>1, <3>2
      <4> HIDE DEF Sorted
      <4> QED BY <1>5, <3>1, <4>1
    <3>3. CASE a = k
      <4>1. t[a] = s[i]
        BY <1>1, <1>3, <3>3
      <4>2. ~(sc[s[b - 1]] >= sc[s[i]])
        BY <1>2, <3>1
      <4>3. sc[s[b - 1]] \in Nat /\ sc[s[i]] \in Nat
        BY <1>1, <1>4, <3>1
      <4>4. sc[s[i]] > sc[s[b - 1]]
        BY <4>2, <4>3
      <4> QED BY <3>1, <4>1, <4>4
    <3>4. CASE a > k
      <4>1. t[a] = s[a - 1] /\ a - 1 < b - 1 /\ a - 1 \in 1 .. n
        BY <1>1, <1>3, <1>7, <3>4
      <4> HIDE DEF Sorted
      <4> QED BY <1>5, <3>1, <4>1
    <3> QED BY <1>7, <3>2, <3>3, <3>4
  <2> QED BY <1>7, <2>1, <2>2, <2>3
<1>8. \A a \in 1 .. n, b \in 1 .. n : a < b =>
        IF b < i + 1 THEN Sorted(t[a], t[b]) ELSE <<t[a], t[b]>> \in R
  <2> HIDE DEF Sorted
  <2> TAKE a \in 1 .. n, b \in 1 .. n
  <2> HAVE a < b
  <2>1. b < i + 1 <=> ~(i < b)
    BY <1>1
  <2> QED BY <1>6, <1>7, <2>1
<1> QED BY <1>3, <1>8 DEF t, n, SortedTo

LEMMA PlacePortStep ==
  ASSUME PortsInv, GatherInv, NextInv, OrderInv, PlacePort
  PROVE  PortsInv' /\ OrderInv'
<1> DEFINE sc == FirstScores
           n == Len(ports)
           R == {r \in Port \X Port : Before(request.ports, r[1], r[2])}
<1>1. /\ stage = "sort" /\ stage' = "sort" /\ place <= n /\ ports' = Place(sc, ports, place)
      /\ place' = place + 1 /\ UNCHANGED <<request, spec, port, addrs, profiles>>
  BY DEF PlacePort, parsing, osint
<1>2. /\ ports \in Seq(Port) /\ place \in 1 .. n /\ next # 1 /\ request.predict /\ n \in Nat
      /\ place \in Nat
  BY <1>1, LenProperties DEF PortsInv, NextInv
<1>3. sc \in [Port -> Nat]
  BY <1>2, FirstScoresType
<1>4. \A i \in 1 .. n : ports[i] \in Port
  BY <1>2, ElementOfSeq
<1>5. \A p, q : InOrder(p, q) <=>
        sc[p] > sc[q] \/ (sc[p] = sc[q] /\ Before(request.ports, p, q))
  BY <1>2 DEF InOrder, Score
<1>6. \A p \in Port, q \in Port : <<p, q>> \in R <=> Before(request.ports, p, q)
  OBVIOUS
<1>7. SortedTo(ports, place, sc, R)
  <2> HIDE DEF R, sc
  <2> QED BY <1>1, <1>4, <1>5, <1>6 DEF OrderInv, SortedTo
<1> HIDE DEF R, sc
<1>8. /\ ports' \in Seq(Port) /\ Len(ports') = n /\ ToSet(ports') = ToSet(ports)
      /\ SortedTo(ports', place + 1, sc, R)
  BY <1>1, <1>2, <1>3, <1>7, PlaceSorts
<1>9. PortsInv'
  <2>1. \A p : Listed(p)' <=> Listed(p)
    BY <1>1 DEF Listed
  <2>2. \A p : p \in ToSet(ports)' <=> p \in ToSet(ports)
    BY <1>8
  <2> QED BY <1>1, <1>8, <2>1, <2>2 DEF PortsInv
<1>10. OrderInv'
  <2>1. \A i \in 1 .. n : ports'[i] \in Port
    BY <1>8, ElementOfSeq
  <2>2. FirstScores' = sc /\ request'.predict /\ request' = request
    BY <1>1, <1>2 DEF FirstScores, sc
  <2>3. \A i \in 1 .. n, j \in 1 .. n : i < j =>
          IF j < place + 1
          THEN \/ sc[ports'[i]] > sc[ports'[j]]
               \/ /\ sc[ports'[i]] = sc[ports'[j]]
                  /\ Before(request.ports, ports'[i], ports'[j])
          ELSE Before(request.ports, ports'[i], ports'[j])
    BY <1>6, <1>8, <2>1 DEF SortedTo
  <2> QED BY <1>1, <1>8, <2>2, <2>3 DEF OrderInv, InOrder, Score
<1> QED BY <1>9, <1>10

LEMMA NextStep ==
  ASSUME TargetInv, NextInv, [PlanNext]_planVars
  PROVE  NextInv'
<1>1. CASE \/ BeginPart \/ WalkPart \/ EndPart \/ EndTarget
           \/ BeginPorts \/ ListPort \/ EndList \/ EndPorts
  <2>1. /\ UNCHANGED <<request, next, profiles>> /\ next = 1
        /\ stage' \notin {"gather", "sort", "abandoned"}
        /\ stage' = "predict" => request.predict
        /\ stage' = "scan" => ~request.predict
    BY <1>1 DEF BeginPart, WalkPart, EndPart, EndTarget, BeginPorts, ListPort, EndList, EndPorts,
                osint, NextInv
  <2> QED BY <2>1 DEF NextInv
<1>2. CASE BeginPredict \/ Abandon
  BY <1>2 DEF BeginPredict, Abandon, osint, listing, NextInv
<1>3. CASE EndPredict
  <2>1. /\ stage = "gather" /\ stage' = "predict" /\ next' = next + 1
        /\ UNCHANGED <<request, addrs>>
        /\ profiles' = [a \in DOMAIN profiles \cup {addrs[next]} |->
                          IF a = addrs[next] THEN [profile EXCEPT !.scores = ApplyDefaults(@)]
                          ELSE profiles[a]]
    BY <1>3 DEF EndPredict
  <2>2. next' \in Nat \ {0} /\ request.predict
    BY <2>1 DEF NextInv
  <2>3. addrs[1] \in DOMAIN profiles'
    BY <2>1 DEF NextInv
  <2> QED BY <2>1, <2>2, <2>3 DEF NextInv
<1>4. CASE Prioritise
  <2>1. /\ stage = "predict" /\ next > Len(addrs) /\ stage' \in {"sort", "scan"} /\ place' = 2
        /\ UNCHANGED <<request, addrs, next, profiles>>
    BY <1>4 DEF Prioritise, osint
  <2>2. next # 1
    <3> SUFFICES ASSUME next = 1 PROVE FALSE
      OBVIOUS
    <3>1. addrs # << >> /\ addrs \in Seq(Addr)
      BY <2>1 DEF TargetInv
    <3>2. Len(addrs) \in Nat \ {0}
      BY <3>1, EmptySeq, LenProperties
    <3> QED BY <2>1, <3>2
  <2> QED BY <2>1, <2>2 DEF NextInv
<1>5. CASE PlacePort \/ EndSort
  BY <1>5 DEF PlacePort, EndSort, osint, listing, NextInv
<1>6. ASSUME NEW g \in Source, LookUp(g) \/ Merge(g)
      PROVE  NextInv'
  BY <1>6 DEF LookUp, Merge, listing, NextInv
<1>7. CASE UNCHANGED planVars
  BY <1>7 DEF planVars, osint, listing, NextInv
<1> QED BY <1>1, <1>2, <1>3, <1>4, <1>5, <1>6, <1>7 DEF PlanNext

LEMMA PortsStep ==
  ASSUME PortsInv, GatherInv, NextInv, OrderInv, TargetInv, WalkInv, [PlanNext]_planVars
  PROVE  PortsInv' /\ OrderInv'
<1>1. ASSUME UNCHANGED <<request, spec, port, ports>>, stage # "list", stage' # "list",
             stage' \in {"predict", "gather", "sort", "scan", "abandoned"} => spec = << >>
      PROVE  PortsInv'
  <2>1. \A p : Listed(p)' <=> Listed(p)
    BY <1>1 DEF Listed
  <2> QED BY <1>1, <2>1 DEF PortsInv
<1>2. ASSUME UNCHANGED <<request, ports>>, stage \notin {"sort", "scan"},
             stage' \notin {"sort", "scan"}
      PROVE  OrderInv'
  BY <1>2 DEF OrderInv
<1>3. CASE \/ BeginPart \/ WalkPart \/ EndPart \/ EndTarget \/ BeginPredict
           \/ EndPredict \/ Abandon \/ \E g \in Source : LookUp(g) \/ Merge(g)
  <2>1. /\ UNCHANGED <<request, spec, port, ports>> /\ stage \notin {"list", "sort", "scan"}
        /\ stage' \notin {"list", "sort", "scan"}
        /\ stage' \in {"predict", "gather", "abandoned"} => stage \in {"predict", "gather"}
    BY <1>3 DEF BeginPart, WalkPart, EndPart, EndTarget, BeginPredict, EndPredict, Abandon,
                LookUp, Merge, listing
  <2>2. stage' \in {"predict", "gather", "sort", "scan", "abandoned"} => spec = << >>
    BY <2>1 DEF PortsInv
  <2> QED BY <1>1, <1>2, <2>1, <2>2
<1>4. CASE BeginPorts
  <2> DEFINE part == Head(spec)
  <2>1. /\ stage = "ports" /\ spec # << >> /\ UNCHANGED <<request, ports>>
        /\ stage' \in {"ports", "list", "refused"}
    BY <1>4 DEF BeginPorts
  <2>2. OrderInv'
    BY <1>2, <2>1
  <2>3. CASE IsBad(part)
    <3>1. part.kind # "blank"
      BY <2>3 DEF IsBad
    <3>2. stage' = "refused" /\ UNCHANGED <<spec, port>>
      BY <1>4, <2>3, <3>1 DEF BeginPorts
    <3> QED BY <1>1, <2>1, <2>2, <3>2
  <2>4. CASE ~IsBad(part) /\ part.kind = "blank"
    <3>1. stage' = "ports" /\ spec' = Tail(spec) /\ port' = port
      BY <1>4, <2>1, <2>4 DEF BeginPorts
    <3> QED BY <2>1, <2>2, <2>4, <3>1, ReadPast
  <2>5. CASE ~IsBad(part) /\ part.kind # "blank"
    <3>1. stage' = "list" /\ port' = part.from /\ spec' = spec
      BY <1>4, <2>5 DEF BeginPorts
    <3>2. part \in PortPart /\ part.from \in Nat /\ part.kind = "range"
      BY <2>1, <2>5, NextPorts, PortIsNat DEF PortPart, IsBad
    <3>3. ASSUME NEW p \in Port
          PROVE  Listed(p)' <=> Listed(p)
      <4> DEFINE text == request.ports
                 e == Done(spec, text)
      <4>1. Listed(p) <=> \E i \in Names(text, p) : i <= e
        BY <2>1 DEF Listed
      <4>2. Listed(p)' <=> \E i \in Names(text, p) : i <= e \/ (i = e + 1 /\ p < part.from)
        BY <2>1, <3>1 DEF Listed
      <4>3. e + 1 \in Names(text, p) => ~(p < part.from)
        <5>1. part = text[e + 1]
          BY <2>1, NextPorts
        <5>2. p \in Nat /\ part.from \in Nat
          BY <3>2, PortIsNat
        <5>3. e + 1 \in Names(text, p) => p \in part.from .. part.to
          BY <5>1 DEF Names
        <5>4. part.to \in Nat
          BY <3>2, PortIsNat DEF PortPart
        <5> HIDE DEF part, e
        <5> QED BY <5>2, <5>3, <5>4
      <4> QED BY <4>1, <4>2, <4>3
    <3>4. \A p \in Port : p \in ToSet(ports)' <=> Listed(p)'
      BY <2>1, <3>3 DEF PortsInv
    <3>5. part.from <= part.from
      BY <3>2
    <3> QED BY <2>1, <2>2, <2>5, <3>1, <3>2, <3>4, <3>5 DEF PortsInv
  <2> QED BY <2>3, <2>4, <2>5
<1>5. CASE ListPort
  BY <1>5, ListPortStep
<1>6. CASE EndList
  <2>1. /\ stage = "list" /\ port > Head(spec).to /\ stage' = "ports" /\ spec' = Tail(spec)
        /\ UNCHANGED <<request, port, ports>>
    BY <1>6 DEF EndList
  <2>2. spec # << >> /\ ~IsBad(Head(spec))
    BY <2>1 DEF PortsInv
  <2> QED BY <1>2, <2>1, <2>2, ReadPast
<1>7. CASE EndPorts
  <2>1. /\ stage = "ports" /\ spec = << >> /\ UNCHANGED <<request, spec, port, ports>>
        /\ stage' \in {"refused", "predict", "scan"} /\ (stage' = "scan" => ~request.predict)
    BY <1>7 DEF EndPorts, listing
  <2>2. OrderInv'
    <3>1. CASE stage' = "scan"
      <4>1. \A i \in 1 .. Len(ports), j \in 1 .. Len(ports) :
              i < j => Before(request.ports, ports[i], ports[j])
        BY <2>1 DEF OrderInv
      <4> QED BY <2>1, <3>1, <4>1 DEF OrderInv, InOrder, Score
    <3>2. CASE stage' # "scan"
      BY <1>2, <2>1, <3>2
    <3> QED BY <3>1, <3>2
  <2> QED BY <1>1, <2>1, <2>2
<1>8. CASE Prioritise
  <2>1. /\ stage = "predict" /\ place' = 2
        /\ stage' = IF FirstScores = NoScores THEN "scan" ELSE "sort"
        /\ UNCHANGED <<request, spec, port, ports, addrs, profiles>>
    BY <1>8 DEF Prioritise, parsing, osint
  <2>2. spec = << >> /\ ports \in Seq(Port) /\ Len(ports) \in Nat
    BY <2>1, LenProperties DEF PortsInv
  <2>3. \A i \in 1 .. Len(ports), j \in 1 .. Len(ports) :
          i < j => Before(request.ports, ports[i], ports[j])
    BY <2>1 DEF OrderInv
  <2>4. OrderInv'
    <3>1. CASE stage' = "sort"
      <4>1. \A i \in 1 .. Len(ports), j \in 1 .. Len(ports) : i < j => ~(j < 2)
        BY <2>2
      <4> QED BY <2>1, <2>3, <3>1, <4>1 DEF OrderInv
    <3>2. CASE stage' = "scan"
      <4>1. FirstScores = NoScores /\ FirstScores' = FirstScores
        BY <2>1, <3>2 DEF FirstScores
      <4>2. \A i \in 1 .. Len(ports) : ports[i] \in Port
        BY <2>2, ElementOfSeq
      <4>3. \A i \in 1 .. Len(ports) : Score(ports[i])' = 0
        BY <2>1, <4>1, <4>2 DEF Score, NoScores
      <4> QED BY <2>1, <2>3, <3>2, <4>3 DEF OrderInv, InOrder
    <3> QED BY <2>1, <3>1, <3>2
  <2> QED BY <1>1, <2>1, <2>2, <2>4
<1>9. CASE PlacePort
  BY <1>9, PlacePortStep
<1>10. CASE EndSort
  <2>1. /\ stage = "sort" /\ place > Len(ports) /\ stage' = "scan"
        /\ UNCHANGED <<request, spec, port, ports, addrs, profiles>>
    BY <1>10 DEF EndSort, parsing, listing, osint
  <2>2. spec = << >> /\ ports \in Seq(Port) /\ Len(ports) \in Nat /\ place \in Nat
    BY <2>1, LenProperties DEF PortsInv, NextInv
  <2>3. \A j \in 1 .. Len(ports) : j < place
    BY <2>1, <2>2
  <2>4. \A p, q : InOrder(p, q)' <=> InOrder(p, q)
    BY <2>1 DEF InOrder, Score, FirstScores
  <2>5. OrderInv'
    BY <2>1, <2>3 DEF OrderInv, InOrder, Score, FirstScores
  <2> QED BY <1>1, <2>1, <2>2, <2>5
<1>11. CASE UNCHANGED planVars
  <2>1. UNCHANGED <<request, stage, addrs, spec, port, ports, place, profiles>>
    BY <1>11 DEF planVars, listing, osint
  <2>2. PortsInv'
    BY <2>1 DEF PortsInv, Listed
  <2>3. OrderInv'
    BY <2>1 DEF OrderInv, InOrder, Score, FirstScores
  <2> QED BY <2>2, <2>3
<1> QED BY <1>3, <1>4, <1>5, <1>6, <1>7, <1>8, <1>9, <1>10, <1>11 DEF PlanNext

\* Why a request is refused once its target is read.
ReadRefused ==
  stage = "refused" /\ todo = << >> =>
    \/ Asked(request.target) = << >>
    \/ \E i \in 1 .. Len(request.ports) : IsBad(request.ports[i])
    \/ \A p \in Port : Names(request.ports, p) = {}

\* All of the target is read.
LEMMA AllAsked ==
  ASSUME TargetInv, todo = << >>
  PROVE  /\ addrs = Asked(request.target)
         /\ \A i \in 1 .. Len(request.target) : request.target[i].kind # "bad"
<1>1. request.target \in Seq(Part)
  BY RequestAssumption DEF TargetInv
<1>2. Done(todo, request.target) = Len(request.target)
  BY <1>1, RestEnds
<1> QED BY <1>1, <1>2, AskedEnds DEF TargetInv

\* All of the text of ports is read.
LEMMA AllListed ==
  ASSUME PortsInv, spec = << >>
  PROVE  /\ \A i \in 1 .. Len(request.ports) : ~IsBad(request.ports[i])
         /\ ToSet(ports) = {p \in Port : Names(request.ports, p) # {}}
<1> DEFINE text == request.ports
<1>1. text \in Seq(PortPart) /\ ports \in Seq(Port)
  BY RequestAssumption DEF PortsInv
<1>2. Done(spec, text) = Len(text) /\ Len(text) \in Nat
  BY <1>1, RestEnds, LenProperties
<1>3. \A p \in Port : Listed(p) <=> Names(text, p) # {}
  <2>1. stage # "list"
    BY DEF PortsInv
  <2>2. \A p, i : i \in Names(text, p) => i <= Len(text)
    BY <1>2 DEF Names
  <2> QED BY <1>2, <2>1, <2>2 DEF Listed
<1>4. \A p \in ToSet(ports) : p \in Port
  <2>1. DOMAIN ports = 1 .. Len(ports)
    BY <1>1, LenProperties
  <2>2. \A i \in 1 .. Len(ports) : ports[i] \in Port
    BY <1>1, ElementOfSeq
  <2> QED BY <2>1, <2>2 DEF ToSet
<1>5. \A p \in Port : p \in ToSet(ports) <=> Names(text, p) # {}
  BY <1>3 DEF PortsInv
<1>6. \A i \in 1 .. Len(text) : ~IsBad(text[i])
  BY <1>2 DEF PortsInv
<1> QED BY <1>4, <1>5, <1>6

LEMMA RefusedStep ==
  ASSUME ReadRefused, PortsInv, TargetInv, WalkInv, [PlanNext]_planVars
  PROVE  ReadRefused'
<1>1. CASE EndTarget
  <2>1. /\ todo = << >> /\ UNCHANGED <<request, todo>> /\ (stage' = "refused" => addrs = << >>)
    BY <1>1 DEF EndTarget, parsing
  <2> QED BY <2>1, AllAsked DEF ReadRefused
<1>2. CASE BeginPorts
  <2>1. /\ spec # << >> /\ request' = request
        /\ stage' = "refused" => IsBad(Head(spec))
    BY <1>2 DEF BeginPorts
  <2>2. stage' = "refused" => \E i \in 1 .. Len(request.ports) : IsBad(request.ports[i])
    BY <2>1, NextPorts
  <2> QED BY <2>1, <2>2 DEF ReadRefused
<1>3. CASE EndPorts
  <2>1. /\ spec = << >> /\ request' = request
        /\ stage' = "refused" => ports = << >>
    BY <1>3 DEF EndPorts
  <2>2. ports = << >> => ToSet(ports) = {}
    BY EmptySeq DEF ToSet
  <2>3. stage' = "refused" => \A p \in Port : Names(request.ports, p) = {}
    BY <2>1, <2>2, AllListed
  <2> QED BY <2>1, <2>3 DEF ReadRefused
<1>4. CASE stage' # "refused" \/ (todo' = todo /\ todo # << >>)
  BY <1>4 DEF ReadRefused
<1>5. CASE BeginPart \/ WalkPart \/ EndPart
  <2>1. CASE BeginPart
    BY <1>4, <2>1 DEF BeginPart, parsing
  <2>2. CASE WalkPart
    BY <1>4, <2>2 DEF WalkPart, WalkInv
  <2>3. CASE EndPart
    BY <1>4, <2>3 DEF EndPart
  <2> QED BY <1>5, <2>1, <2>2, <2>3
<1>6. CASE \/ ListPort \/ EndList \/ BeginPredict \/ EndPredict \/ Abandon \/ Prioritise
           \/ PlacePort \/ EndSort \/ \E g \in Source : LookUp(g) \/ Merge(g)
  <2>1. stage' # "refused"
    BY <1>6 DEF ListPort, EndList, BeginPredict, EndPredict, Abandon, Prioritise, PlacePort,
                EndSort, LookUp, Merge
  <2> QED BY <1>4, <2>1
<1>7. CASE UNCHANGED planVars
  BY <1>7 DEF planVars, parsing, ReadRefused
<1> QED BY <1>1, <1>2, <1>3, <1>5, <1>6, <1>7 DEF PlanNext

-----------------------------------------------------------------------------
(***************************************************************************)
(* The plan of a scan: its invariant                                       *)
(***************************************************************************)

\* Everything about a plan that a step preserves.
PlanInv ==
  /\ WalkInv /\ TargetInv /\ GatherInv
  /\ PortsInv /\ NextInv /\ OrderInv
  /\ ReadRefused

LEMMA PlanInvInit ==
  ASSUME PlanInit
  PROVE  PlanInv
<1>1. /\ request \in Request /\ request.target \in Seq(Part) /\ request.ports \in Seq(PortPart)
  BY RequestAssumption DEF PlanInit
<1>2. /\ stage = "parse" /\ todo = request.target /\ cursor = 0 /\ chunk = << >> /\ addrs = << >>
      /\ spec = request.ports /\ port = 0 /\ ports = << >> /\ next = 1
  BY DEF PlanInit
<1>3. 0 \in Addr /\ << >> \in Seq(Addr) /\ << >> \in Seq(Port)
  BY Sizes, EmptySeq DEF Addr
<1>4. WalkInv
  BY <1>1, <1>2, <1>3 DEF WalkInv, WalkRefused
<1>5. TargetInv
  <2>1. IsRest(todo, request.target) /\ Done(todo, request.target) = 0
    BY <1>1, <1>2, RestEnds
  <2>2. Asked(SubSeq(request.target, 1, 0)) = << >>
    BY <1>1, AskedEnds
  <2> QED BY <1>1, <1>2, <2>1, <2>2 DEF TargetInv
<1>6. PortsInv
  <2>1. IsRest(spec, request.ports) /\ Done(spec, request.ports) = 0
    BY <1>1, <1>2, RestEnds
  <2>2. \A p \in Port : ~Listed(p)
    <3>1. \A p, i : i \in Names(request.ports, p) => ~(i <= 0)
      BY DEF Names
    <3> QED BY <1>2, <2>1, <3>1 DEF Listed
  <2>3. ToSet(ports) = {}
    BY <1>2, EmptySeq DEF ToSet
  <2> QED BY <1>1, <1>2, <1>3, <2>1, <2>2, <2>3 DEF PortsInv
<1>7. NextInv /\ OrderInv /\ ReadRefused
  <2>1. Len(ports) = 0
    BY <1>2, EmptySeq
  <2> QED BY <1>2, <2>1 DEF NextInv, OrderInv, ReadRefused
<1> QED BY <1>4, <1>5, <1>6, <1>7, GatherInit DEF PlanInv

\* The loops collect what each part means, the parts read so far are good, the ports
\* listed are those they name, and the beginning of the list that the sort has
\* passed is in its order.
THEOREM PlanInvariant == PlanSpec => []PlanInv
<1>1. PlanInit => PlanInv
  BY PlanInvInit
<1>2. PlanInv /\ [PlanNext]_planVars => PlanInv'
  BY WalkStep, TargetStep, GatherStep, PortsStep, NextStep, RefusedStep DEF PlanInv
<1> QED BY <1>1, <1>2, PTL DEF PlanSpec

\* A request is refused for a part of its target that is no address, for a range
\* of more than MaxHosts addresses or one up to the last address; once the target
\* is read, for meaning no address, for a wrong part of its ports or for naming no
\* port; and only a block of all addresses exhausts the memory (iprange.go,
\* Engine.StartScan).
THEOREM PlanRefusals == PlanSpec => []RefusalsAreExplained
<1>1. PlanInv => RefusalsAreExplained
  BY DEF PlanInv, WalkInv, WalkRefused, OutOfMemory, ReadRefused,
         RefusalsAreExplained
<1> QED BY <1>1, PlanInvariant, PTL

\* A scan that begins probes the addresses that the target means, part for part,
\* and each port that was asked for once, in the order asked for or, with a
\* prediction, by the scores of the first address; no wrong part was passed over
\* (iprange.go, PrioritisePorts).
THEOREM PlanAsked == PlanSpec => []ScansWhatWasAsked
<1>1. PlanInv => ScansWhatWasAsked
  <2> SUFFICES ASSUME PlanInv, stage = "scan" PROVE ScansWhatWasAsked
    BY DEF ScansWhatWasAsked
  <2>1. todo = << >> /\ spec = << >>
    BY DEF PlanInv, WalkInv, PortsInv
  <2>2. /\ addrs = Asked(request.target)
        /\ \A i \in 1 .. Len(request.target) : request.target[i].kind # "bad"
    BY <2>1, AllAsked DEF PlanInv
  <2>3. /\ \A i \in 1 .. Len(request.ports) : ~IsBad(request.ports[i])
        /\ ToSet(ports) = {p \in Port : Names(request.ports, p) # {}}
    BY <2>1, AllListed DEF PlanInv
  <2>4. ASSUME NEW i \in 1 .. Len(ports), NEW j \in 1 .. Len(ports), i < j
        PROVE  InOrder(ports[i], ports[j]) /\ ports[i] # ports[j]
    <3>1. InOrder(ports[i], ports[j])
      BY <2>4 DEF PlanInv, OrderInv
    <3>2. ~InOrder(ports[i], ports[i])
      <4>1. Score(ports[i]) \in Nat /\ ports[i] \in Nat
        <5>1. ports[i] \in Port
          BY ElementOfSeq DEF PlanInv, PortsInv
        <5>2. request.predict => FirstScores \in [Port -> Nat]
          BY FirstScoresType DEF PlanInv, NextInv
        <5> QED BY <5>1, <5>2, PortIsNat DEF Score
      <4>2. ~Before(request.ports, ports[i], ports[i])
        <5>1. \A k \in Names(request.ports, ports[i]) : k \in Nat
          BY DEF Names
        <5> QED BY <4>1, <5>1 DEF Before
      <4> QED BY <4>1, <4>2 DEF InOrder
    <3> QED BY <3>1, <3>2
  <2> QED BY <2>2, <2>3, <2>4 DEF ScansWhatWasAsked, InOrder, Score
<1> QED BY <1>1, PlanInvariant, PTL

=============================================================================
