------------------------- MODULE JobRegistryProofs -------------------------
(***************************************************************************)
(* The safety properties of the job registry and of the dashboard hold for *)
(* any number of jobs, clients and results, and any capacity of the        *)
(* channels; and both implement JobFeed, the contract of Subscribe.        *)
(***************************************************************************)
EXTENDS JobRegistry, TuiScan, SequenceTheorems, TLAPS

\* The job of a scan that has not ended is marked as running.
StatusInv == \A j \in Job : run[j] # "done" => status[j] = "running"

\* Who is connected, who is subscribed and whose channel is closed.
ClientInv ==
  \A c \in Client :
    /\ pc[c] \in {"idle", "checked"} => got[c] = 0 /\ from[c] = 0 /\ buffer[c] = << >>
    /\ c \in closed => run[target[c]] = "done" /\ pc[c] \notin {"idle", "checked"}
    /\ pc[c] = "streaming" => c \in closed \/ c \in subscribers[target[c]]
    /\ c \in subscribers[target[c]] => pc[c] \notin {"idle", "checked", "complete"}
    /\ pc[c] = "complete" => c \in closed

\* A channel q of a client that is to receive the results base+1 .. end holds some
\* of them in order, or exactly these.
Holds(q, base, end, exactly) ==
  /\ Len(q) <= end - base
  /\ \A n \in 1 .. Len(q) : q[n] <= end
  /\ \A m, n \in 1 .. Len(q) : m < n => q[m] < q[n]
  /\ exactly => Len(q) = end - base /\ \A n \in 1 .. Len(q) : q[n] = base + n

KeepsUp(c) == pc[c] \in {"streaming", "complete"} /\ c \notin slow
BufferInv ==
  \A c \in Client :
    /\ Holds(buffer[c], from[c] + got[c], results[target[c]], KeepsUp(c))
    /\ pc[c] = "complete" => buffer[c] = << >>

JobInv ==
  TypeOK /\ RunningIsRegistered /\ StatusInv /\ ChannelsAreOpen /\ ClientInv /\ BufferInv

-----------------------------------------------------------------------------
\* A channel of results is a sequence of numbers.
LEMMA ChannelType ==
  ASSUME NEW max \in Nat, NEW q \in Seq(1 .. max)
  PROVE  Len(q) \in Nat /\ \A n \in 1 .. Len(q) : q[n] \in 1 .. max
BY LenProperties, ElementOfSeq

\* The next result is put behind the others ...
LEMMA AppendHolds ==
  ASSUME NEW max \in Nat, NEW q \in Seq(1 .. max), NEW base \in Nat, NEW end \in Nat,
         end < max, NEW exactly \in BOOLEAN, Holds(q, base, end, exactly)
  PROVE  Append(q, end + 1) \in Seq(1 .. max) /\ Holds(Append(q, end + 1), base, end + 1, exactly)
<1> DEFINE r == Append(q, end + 1)
<1>1. Len(q) \in Nat /\ \A n \in 1 .. Len(q) : q[n] \in 1 .. max
  BY ChannelType
<1>2. end + 1 \in 1 .. max
  OBVIOUS
<1>3. /\ r \in Seq(1 .. max) /\ Len(r) = Len(q) + 1
      /\ \A n \in 1 .. Len(q) : r[n] = q[n]
      /\ r[Len(q) + 1] = end + 1
  BY <1>2, AppendProperties
<1> HIDE DEF r
<1>4. \A n \in 1 .. Len(r) : n \in 1 .. Len(q) \/ n = Len(q) + 1
  BY <1>1, <1>3
<1>5. Len(r) <= (end + 1) - base
  BY <1>1, <1>3 DEF Holds
<1>6. \A n \in 1 .. Len(r) : r[n] <= end + 1
  <2> SUFFICES ASSUME NEW n \in 1 .. Len(r) PROVE r[n] <= end + 1
    OBVIOUS
  <2>1. CASE n = Len(q) + 1
    BY <2>1, <1>3
  <2>2. CASE n \in 1 .. Len(q)
    <3>1. r[n] = q[n] /\ q[n] \in 1 .. max /\ q[n] <= end
      BY <2>2, <1>1, <1>3 DEF Holds
    <3> QED BY <3>1
  <2> QED BY <2>1, <2>2, <1>4
<1>7. \A m, n \in 1 .. Len(r) : m < n => r[m] < r[n]
  <2> SUFFICES ASSUME NEW m \in 1 .. Len(r), NEW n \in 1 .. Len(r), m < n
               PROVE  r[m] < r[n]
    OBVIOUS
  <2>1. m \in 1 .. Len(q)
    BY <1>1, <1>3
  <2>2. r[m] = q[m] /\ q[m] \in 1 .. max /\ q[m] <= end
    BY <2>1, <1>1, <1>3 DEF Holds
  <2>3. CASE n = Len(q) + 1
    <3>1. r[n] = end + 1 /\ r[m] <= end
      BY <2>2, <2>3, <1>3
    <3>2. r[m] \in Nat /\ end \in Nat
      BY <2>2
    <3> QED BY <3>1, <3>2
  <2>4. CASE n \in 1 .. Len(q)
    BY <2>1, <2>2, <2>4, <1>3 DEF Holds
  <2> QED BY <2>3, <2>4, <1>4
<1>8. exactly => Len(r) = (end + 1) - base /\ \A n \in 1 .. Len(r) : r[n] = base + n
  <2> SUFFICES ASSUME exactly
               PROVE  Len(r) = (end + 1) - base /\ \A n \in 1 .. Len(r) : r[n] = base + n
    OBVIOUS
  <2>1. Len(q) = end - base /\ \A n \in 1 .. Len(q) : q[n] = base + n
    BY DEF Holds
  <2>2. \A n \in 1 .. Len(q) : r[n] = base + n
    BY <2>1, <1>3
  <2>3. Len(r) = (end + 1) - base /\ r[Len(q) + 1] = base + (Len(q) + 1)
    BY <2>1, <1>1, <1>3
  <2> QED BY <2>2, <2>3, <1>4
<1> QED BY <1>3, <1>5, <1>6, <1>7, <1>8 DEF Holds, r

\* ... or missed ...
LEMMA MissHolds ==
  ASSUME NEW max \in Nat, NEW q \in Seq(1 .. max), NEW base \in Nat, NEW end \in Nat,
         NEW exactly, Holds(q, base, end, exactly)
  PROVE  Holds(q, base, end + 1, FALSE)
BY ChannelType DEF Holds

\* ... and the oldest one is received.
LEMMA TailHolds ==
  ASSUME NEW max \in Nat, NEW q \in Seq(1 .. max), q # << >>, NEW base \in Nat, NEW end \in Nat,
         NEW exactly, Holds(q, base, end, exactly)
  PROVE  /\ Tail(q) \in Seq(1 .. max) /\ base + 1 <= end
         /\ Holds(Tail(q), base + 1, end, exactly)
<1>1. Len(q) \in Nat /\ \A n \in 1 .. Len(q) : q[n] \in 1 .. max
  BY ChannelType
<1>2. /\ Tail(q) \in Seq(1 .. max) /\ Len(Tail(q)) = Len(q) - 1
      /\ \A n \in 1 .. Len(Tail(q)) : Tail(q)[n] = q[n + 1]
  BY HeadTailProperties
<1>3. Len(q) # 0
  BY EmptySeq
<1>4. \A n \in 1 .. Len(Tail(q)) : n + 1 \in 1 .. Len(q)
  BY <1>1, <1>2
<1> QED BY <1>1, <1>2, <1>3, <1>4 DEF Holds

\* What is received, and what is left.
LEMMA HeadAndTail ==
  ASSUME NEW max \in Nat, NEW q \in Seq(1 .. max), q # << >>
  PROVE  /\ Head(q) = q[1] /\ q[1] \in 1 .. max
         /\ Len(q) \in Nat \ {0} /\ Len(Tail(q)) = Len(q) - 1
         /\ Tail(q) \in Seq(1 .. max)
         /\ \A n \in 1 .. Len(Tail(q)) : Tail(q)[n] = q[n + 1]
<1>1. Len(q) \in Nat /\ Len(q) # 0 /\ \A n \in 1 .. Len(q) : q[n] \in 1 .. max
  BY ChannelType, EmptySeq
<1>2. 1 \in 1 .. Len(q)
  BY <1>1
<1> QED BY <1>1, <1>2, HeadTailProperties

-----------------------------------------------------------------------------
\* A step that leaves the clients and their channels alone, and the counts of the
\* results too, keeps what is said of them while no scan that was done runs again.
LEMMA ScanFrame ==
  ASSUME JobInv, TypeOK', RunningIsRegistered', StatusInv',
         UNCHANGED <<results, subscribers, client, buffer, closed, slow>>,
         \A j \in Job : run[j] = "done" => run'[j] = "done"
  PROVE  JobInv'
BY DEF JobInv, TypeOK, ChannelsAreOpen, ClientInv, BufferInv, KeepsUp, client

\* The steps of a scan that leave the clients alone.
LEMMA QuietStep ==
  ASSUME JobInv, NEW j \in Job,
         \/ StartScan(j) \/ Begin(j) \/ GetStoreFails(j) \/ EndLoop(j) \/ Expire(j) \/ Evict
  PROVE  JobInv'
<1> USE DEF JobInv, TypeOK, RunningIsRegistered, StatusInv, client, registry
<1>1. CASE StartScan(j)
  BY <1>1, ScanFrame DEF StartScan
<1>2. CASE Begin(j)
  BY <1>2, ScanFrame DEF Begin
<1>3. CASE GetStoreFails(j)
  BY <1>3, ScanFrame DEF GetStoreFails
<1>4. CASE EndLoop(j)
  BY <1>4, ScanFrame DEF EndLoop
<1>5. CASE Expire(j)
  BY <1>5, ScanFrame DEF Expire
<1>6. CASE Evict
  BY <1>6, ScanFrame DEF Evict
<1> QED BY <1>1, <1>2, <1>3, <1>4, <1>5, <1>6

\* The deferred function of runScan closes the channels of its own followers.
LEMMA ExitStep ==
  ASSUME JobInv, NEW j \in Job, Exit(j)
  PROVE  JobInv'
<1>1. TypeOK' /\ RunningIsRegistered' /\ StatusInv'
  BY DEF Exit, JobInv, TypeOK, RunningIsRegistered, StatusInv, client
<1>2. ChannelsAreOpen'
  BY DEF Exit, JobInv, TypeOK, ChannelsAreOpen, client
<1>3. ClientInv'
  BY DEF Exit, JobInv, TypeOK, ChannelsAreOpen, ClientInv, client
<1>4. BufferInv'
  BY DEF Exit, JobInv, BufferInv, KeepsUp, client
<1> QED BY <1>1, <1>2, <1>3, <1>4 DEF JobInv

\* A published result is put behind the older ones in every channel with room.
LEMMA PublishStep ==
  ASSUME JobInv, NEW j \in Job, Publish(j)
  PROVE  JobInv'
<1> DEFINE full == {c \in subscribers[j] : Len(buffer[c]) >= ChanCap}
<1>1. /\ run[j] = "loop" /\ results[j] < MaxResults
      /\ results' = [results EXCEPT ![j] = @ + 1]
      /\ buffer' = [c \in Client |-> IF c \in subscribers[j] \ full
                                     THEN Append(buffer[c], results[j] + 1) ELSE buffer[c]]
      /\ slow' = slow \cup full
      /\ UNCHANGED <<registered, status, subscribers, expired, run, client, closed>>
  BY DEF Publish
<1>2. full \subseteq Client
  BY DEF JobInv, TypeOK
<1> HIDE DEF full
<1>3. results[j] + 1 \in 1 .. MaxResults
  BY <1>1, ResultsAssumption DEF JobInv, TypeOK
<1>4. ASSUME NEW c \in Client
      PROVE  buffer[c] \in Seq(1 .. MaxResults) /\ from[c] + got[c] \in Nat
               /\ target[c] \in Job /\ results[target[c]] \in Nat /\ KeepsUp(c) \in BOOLEAN
  BY DEF JobInv, TypeOK, KeepsUp
<1>5. ASSUME NEW c \in subscribers[j] \ full
      PROVE  /\ c \in Client /\ target[c] = j /\ pc[c] # "complete"
             /\ Append(buffer[c], results[j] + 1) \in Seq(1 .. MaxResults)
             /\ Holds(Append(buffer[c], results[j] + 1), from[c] + got[c], results[j] + 1, KeepsUp(c))
  <2>1. c \in Client /\ target[c] = j /\ pc[c] # "complete"
    BY DEF JobInv, TypeOK, ChannelsAreOpen, ClientInv
  <2>2. Holds(buffer[c], from[c] + got[c], results[j], KeepsUp(c))
    BY <2>1 DEF JobInv, BufferInv
  <2> QED BY <2>1, <2>2, <1>1, <1>4, ResultsAssumption, AppendHolds
<1>6. TypeOK'
  <2>1. buffer' \in [Client -> Seq(1 .. MaxResults)]
    BY <1>1, <1>4, <1>5
  <2>2. results' \in [Job -> 0 .. MaxResults]
    BY <1>1, <1>3 DEF JobInv, TypeOK
  <2> QED BY <2>1, <2>2, <1>1, <1>2 DEF JobInv, TypeOK, client
<1>7. RunningIsRegistered' /\ StatusInv' /\ ChannelsAreOpen'
  BY <1>1 DEF JobInv, RunningIsRegistered, StatusInv, ChannelsAreOpen, client
<1>8. ClientInv'
  BY <1>1 DEF JobInv, ChannelsAreOpen, ClientInv, client
<1>9. BufferInv'
  <2> SUFFICES ASSUME NEW c \in Client
               PROVE  /\ Holds(buffer'[c], from[c] + got[c], results'[target[c]], KeepsUp(c)')
                      /\ pc[c] = "complete" => buffer'[c] = << >>
    BY <1>1 DEF BufferInv, client
  <2>1. KeepsUp(c)' => KeepsUp(c) /\ c \notin full
    BY <1>1 DEF KeepsUp, client
  <2>2. CASE c \in subscribers[j] \ full
    <3>1. buffer'[c] = Append(buffer[c], results[j] + 1) /\ results'[target[c]] = results[j] + 1
      BY <2>2, <1>1, <1>5 DEF JobInv, TypeOK
    <3> QED BY <3>1, <2>1, <2>2, <1>5 DEF Holds
  <2>3. CASE c \notin subscribers[j] \ full /\ target[c] # j
    <3>1. buffer'[c] = buffer[c] /\ results'[target[c]] = results[target[c]]
      BY <2>3, <1>1, <1>4 DEF JobInv, TypeOK
    <3> QED BY <3>1, <2>1 DEF JobInv, BufferInv, Holds
  <2>4. CASE c \notin subscribers[j] \ full /\ target[c] = j
    <3>1. buffer'[c] = buffer[c] /\ results'[target[c]] = results[target[c]] + 1
      BY <2>4, <1>1 DEF JobInv, TypeOK
    <3>2. ~KeepsUp(c)'
      BY <2>1, <2>4, <1>1 DEF JobInv, ClientInv, KeepsUp
    <3>3. Holds(buffer[c], from[c] + got[c], results[target[c]] + 1, FALSE)
      BY <1>4, ResultsAssumption, MissHolds DEF JobInv, BufferInv
    <3> QED BY <3>1, <3>2, <3>3 DEF Holds, JobInv, BufferInv
  <2> QED BY <2>2, <2>3, <2>4
<1> QED BY <1>6, <1>7, <1>8, <1>9 DEF JobInv

\* The clients that do not touch a channel: the check before the upgrade, the
\* end of the handler, with or without a broken connection.
LEMMA LeaveStep ==
  ASSUME JobInv, NEW c \in Client, CheckJob(c) \/ Complete(c) \/ Disconnect(c)
  PROVE  JobInv'
<1>1. /\ UNCHANGED <<registry, expired, run, target, from, got, buffer, closed, slow>>
      /\ \/ pc[c] = "idle" /\ pc' = [pc EXCEPT ![c] = "checked"]
         \/ pc[c] = "streaming" /\ pc' = [pc EXCEPT ![c] = "gone"]
         \/ /\ pc[c] = "streaming" /\ pc' = [pc EXCEPT ![c] = "complete"]
            /\ buffer[c] = << >> /\ c \in closed
  BY DEF CheckJob, Complete, Disconnect
<1>2. TypeOK' /\ RunningIsRegistered' /\ StatusInv' /\ ChannelsAreOpen'
  BY <1>1 DEF JobInv, TypeOK, RunningIsRegistered, StatusInv, ChannelsAreOpen, registry
<1>3. ClientInv'
  BY <1>1 DEF JobInv, TypeOK, ClientInv, ChannelsAreOpen, registry
<1>4. BufferInv'
  <2> SUFFICES ASSUME NEW d \in Client
               PROVE  /\ Holds(buffer[d], from[d] + got[d], results[target[d]], KeepsUp(d)')
                      /\ pc'[d] = "complete" => buffer[d] = << >>
    BY <1>1 DEF BufferInv, registry
  <2>1. Holds(buffer[d], from[d] + got[d], results[target[d]], KeepsUp(d))
    BY DEF JobInv, BufferInv
  <2>2. KeepsUp(d)' => KeepsUp(d)
    BY <1>1 DEF JobInv, TypeOK, KeepsUp
  <2>3. pc'[d] = "complete" => buffer[d] = << >>
    BY <1>1 DEF JobInv, TypeOK, BufferInv
  <2> QED BY <2>1, <2>2, <2>3 DEF Holds
<1> QED BY <1>2, <1>3, <1>4 DEF JobInv

\* Subscribe adds an open and empty channel.
LEMMA SubscribeStep ==
  ASSUME JobInv, NEW c \in Client, Subscribe(c)
  PROVE  JobInv'
<1>1. /\ pc[c] = "checked" /\ pc' = [pc EXCEPT ![c] = "streaming"]
      /\ from' = [from EXCEPT ![c] = results[target[c]]]
      /\ subscribers' = [subscribers EXCEPT ![target[c]] = @ \cup {c}]
      /\ UNCHANGED <<registered, status, results, expired, run, target, got, buffer, closed, slow>>
  BY DEF Subscribe
<1>2. target[c] \in Job /\ got[c] = 0 /\ buffer[c] = << >> /\ c \notin closed
  BY <1>1 DEF JobInv, TypeOK, ClientInv
<1>3. TypeOK' /\ RunningIsRegistered' /\ StatusInv'
  BY <1>1, <1>2 DEF JobInv, TypeOK, RunningIsRegistered, StatusInv
<1>4. ChannelsAreOpen'
  BY <1>1, <1>2 DEF JobInv, TypeOK, ChannelsAreOpen
<1>5. ClientInv'
  BY <1>1, <1>2 DEF JobInv, TypeOK, ChannelsAreOpen, ClientInv
<1>6. BufferInv'
  <2>1. results[target[c]] \in Nat
    BY <1>2 DEF JobInv, TypeOK
  <2>2. Holds(<< >>, results[target[c]] + 0, results[target[c]], TRUE)
    BY <2>1, EmptySeq DEF Holds
  <2> SUFFICES ASSUME NEW d \in Client
               PROVE  /\ Holds(buffer[d], from'[d] + got[d], results[target[d]], KeepsUp(d)')
                      /\ pc'[d] = "complete" => buffer[d] = << >>
    BY <1>1 DEF BufferInv
  <2>3. CASE d = c
    <3>1. from'[c] = results[target[c]] /\ pc'[c] = "streaming"
      BY <1>1 DEF JobInv, TypeOK
    <3> QED BY <2>2, <2>3, <3>1, <1>2 DEF Holds
  <2>4. CASE d # c
    <3>1. from'[d] = from[d] /\ pc'[d] = pc[d] /\ (KeepsUp(d)' <=> KeepsUp(d))
      BY <2>4, <1>1 DEF JobInv, TypeOK, KeepsUp
    <3> QED BY <3>1 DEF JobInv, BufferInv, Holds
  <2> QED BY <2>3, <2>4
<1> QED BY <1>3, <1>4, <1>5, <1>6 DEF JobInv

\* The client receives the oldest result in its channel.
LEMMA ReceiveStep ==
  ASSUME JobInv, NEW c \in Client, Receive(c)
  PROVE  JobInv'
<1>1. /\ pc[c] = "streaming" /\ buffer[c] # << >>
      /\ buffer' = [buffer EXCEPT ![c] = Tail(@)]
      /\ got' = [got EXCEPT ![c] = @ + 1]
      /\ UNCHANGED <<registry, expired, run, pc, target, from, closed, slow>>
  BY DEF Receive
<1>2. /\ buffer[c] \in Seq(1 .. MaxResults) /\ target[c] \in Job
      /\ from[c] \in Nat /\ got[c] \in Nat /\ results[target[c]] \in 0 .. MaxResults
  BY DEF JobInv, TypeOK
<1>3. /\ Tail(buffer[c]) \in Seq(1 .. MaxResults) /\ from[c] + got[c] + 1 <= results[target[c]]
      /\ Holds(Tail(buffer[c]), from[c] + got[c] + 1, results[target[c]], KeepsUp(c))
  <2>1. Holds(buffer[c], from[c] + got[c], results[target[c]], KeepsUp(c))
    BY DEF JobInv, BufferInv
  <2>2. from[c] + got[c] \in Nat /\ results[target[c]] \in Nat
    BY <1>2
  <2> HIDE DEF KeepsUp
  <2> QED BY <2>1, <2>2, <1>1, <1>2, ResultsAssumption, TailHolds
<1>4. buffer'[c] = Tail(buffer[c]) /\ got'[c] = got[c] + 1
  BY <1>1 DEF JobInv, TypeOK
<1>5. TypeOK'
  <2>1. got[c] + 1 \in 0 .. MaxResults
    BY <1>2, <1>3, ResultsAssumption
  <2>2. got' \in [Client -> 0 .. MaxResults]
    BY <2>1, <1>1 DEF JobInv, TypeOK
  <2>3. buffer' \in [Client -> Seq(1 .. MaxResults)]
    BY <1>1, <1>3 DEF JobInv, TypeOK
  <2> QED BY <2>2, <2>3, <1>1 DEF JobInv, TypeOK, registry
<1>6. RunningIsRegistered' /\ StatusInv' /\ ChannelsAreOpen'
  BY <1>1 DEF JobInv, RunningIsRegistered, StatusInv, ChannelsAreOpen, registry
<1>7. ClientInv'
  BY <1>1 DEF JobInv, TypeOK, ClientInv, registry
<1>8. BufferInv'
  <2> SUFFICES ASSUME NEW d \in Client
               PROVE  /\ Holds(buffer'[d], from[d] + got'[d], results[target[d]], KeepsUp(d))
                      /\ pc[d] = "complete" => buffer'[d] = << >>
    BY <1>1 DEF BufferInv, KeepsUp, registry
  <2>1. CASE d # c
    BY <2>1, <1>1 DEF JobInv, TypeOK, BufferInv
  <2>2. CASE d = c
    <3>1. from[c] + got'[c] = from[c] + got[c] + 1
      BY <1>2, <1>4
    <3> QED BY <2>2, <3>1, <1>1, <1>3, <1>4
  <2> QED BY <2>1, <2>2
<1> QED BY <1>5, <1>6, <1>7, <1>8 DEF JobInv

-----------------------------------------------------------------------------
\* The invariant holds in every reachable state.
THEOREM JobInvariant == Spec => []JobInv
<1>1. Init => JobInv
  <2> SUFFICES ASSUME Init PROVE JobInv
    OBVIOUS
  <2>1. Holds(<< >>, 0 + 0, 0, FALSE)
    BY EmptySeq DEF Holds
  <2>2. << >> \in Seq(1 .. MaxResults)
    OBVIOUS
  <2>3. TypeOK
    BY <2>2, ResultsAssumption DEF Init, TypeOK
  <2>4. RunningIsRegistered /\ StatusInv /\ ChannelsAreOpen /\ ClientInv
    BY DEF Init, RunningIsRegistered, StatusInv, ChannelsAreOpen, ClientInv
  <2>5. BufferInv
    BY <2>1 DEF Init, BufferInv, KeepsUp, Holds
  <2> QED BY <2>3, <2>4, <2>5 DEF JobInv
<1>2. JobInv /\ [Next]_vars => JobInv'
  <2> SUFFICES ASSUME JobInv, [Next]_vars PROVE JobInv'
    OBVIOUS
  <2>1. ASSUME NEW j \in Job, StartScan(j) \/ ScanStep(j) \/ Expire(j)
        PROVE  JobInv'
    BY <2>1, QuietStep, ExitStep, PublishStep DEF ScanStep
  <2>2. CASE Evict
    <3>1. CASE Job = {}
      BY <2>2, <3>1 DEF Evict, JobInv, TypeOK
    <3>2. CASE Job # {}
      BY <2>2, <3>2, QuietStep
    <3> QED BY <3>1, <3>2
  <2>3. ASSUME NEW c \in Client, CheckJob(c) \/ ClientStep(c) \/ Disconnect(c)
        PROVE  JobInv'
    BY <2>3, LeaveStep, SubscribeStep, ReceiveStep DEF ClientStep
  <2>4. CASE UNCHANGED vars
    BY <2>4 DEF vars, registry, client, JobInv, TypeOK, RunningIsRegistered, StatusInv,
       ChannelsAreOpen, ClientInv, BufferInv, KeepsUp
  <2> QED BY <2>1, <2>2, <2>3, <2>4 DEF Next
<1> QED BY <1>1, <1>2, PTL DEF Spec

\* Every reachable state of the registry is well typed.
THEOREM JobTypes == Spec => []TypeOK
BY JobInvariant, PTL DEF JobInv

\* The evictor never takes the job of a running scan, for any number of jobs.
THEOREM JobStaysRegistered == Spec => []RunningIsRegistered
BY JobInvariant, PTL DEF JobInv

\* No send on a closed channel and no channel closed twice, for any number of
\* jobs and clients, whenever the clients come and go.
THEOREM JobChannelsOpen == Spec => []ChannelsAreOpen
BY JobInvariant, PTL DEF JobInv

\* A client receives the results in order, and all of them when its channel was
\* never full, for any capacity of the channels.
THEOREM JobStreams == Spec => []StreamIsComplete
<1>1. JobInv => StreamIsComplete
  <2> SUFFICES ASSUME JobInv, NEW c \in Client
               PROVE  /\ \A m, n \in 1 .. Len(buffer[c]) : m < n => buffer[c][m] < buffer[c][n]
                      /\ pc[c] = "streaming" /\ c \notin slow =>
                           buffer[c] = [n \in 1 .. results[target[c]] - from[c] - got[c]
                                          |-> from[c] + got[c] + n]
    BY DEF StreamIsComplete
  <2>1. Holds(buffer[c], from[c] + got[c], results[target[c]], KeepsUp(c))
    BY DEF JobInv, BufferInv
  <2>2. /\ buffer[c] \in Seq(1 .. MaxResults) /\ from[c] \in Nat /\ got[c] \in Nat
        /\ results[target[c]] \in Nat
    BY DEF JobInv, TypeOK
  <2>3. ASSUME pc[c] = "streaming", c \notin slow
        PROVE  buffer[c] = [n \in 1 .. results[target[c]] - from[c] - got[c] |-> from[c] + got[c] + n]
    <3>1. /\ Len(buffer[c]) = results[target[c]] - from[c] - got[c]
          /\ \A n \in 1 .. Len(buffer[c]) : buffer[c][n] = from[c] + got[c] + n
      BY <2>1, <2>2, <2>3 DEF Holds, KeepsUp
    <3>2. buffer[c] = [n \in 1 .. Len(buffer[c]) |-> buffer[c][n]]
      BY <2>2, LenProperties
    <3> QED BY <3>1, <3>2
  <2> QED BY <2>1, <2>3 DEF Holds
<1> QED BY <1>1, JobInvariant, PTL

\* A client is told "complete" only when the scan has ended and, unless its
\* channel was full at times, after the last result.
THEOREM JobCompletes == Spec => []CompleteMeansDone
<1>1. JobInv => CompleteMeansDone
  <2> SUFFICES ASSUME JobInv, NEW c \in Client, pc[c] = "complete"
               PROVE  /\ run[target[c]] = "done"
                      /\ c \notin slow => from[c] + got[c] = results[target[c]]
    BY DEF CompleteMeansDone
  <2>1. run[target[c]] = "done"
    BY DEF JobInv, ClientInv
  <2>2. /\ Holds(<< >>, from[c] + got[c], results[target[c]], KeepsUp(c))
        /\ from[c] \in Nat /\ got[c] \in Nat /\ results[target[c]] \in Nat
    BY DEF JobInv, TypeOK, BufferInv
  <2> QED BY <2>1, <2>2, EmptySeq DEF Holds, KeepsUp
<1> QED BY <1>1, JobInvariant, PTL

-----------------------------------------------------------------------------
\* What EarlyClientsComplete rests on, less the fairness: the end of a scan closes
\* the channel of each client that streams it, and no channel is opened again, so
\* that such a client can always receive or be told "complete" from then on.
EndReachesClients ==
  /\ \A c \in Client :
       pc[c] = "streaming" /\ run[target[c]] # "done" /\ run'[target'[c]] = "done" => c \in closed'
  /\ closed \subseteq closed'

\* No client of a running scan is left out when it ends, however the scan ends and
\* whoever came or went before: also a store that cannot be opened reaches the
\* deferred function, and the evictor does not take the job before.
THEOREM JobEndReachesClients == Spec => [][EndReachesClients]_vars
<1>1. ASSUME JobInv, [Next]_vars PROVE EndReachesClients
  <2>1. \A c \in Client : target[c] \in Job
    BY <1>1 DEF JobInv, TypeOK
  <2>2. ASSUME NEW j \in Job, Exit(j) PROVE EndReachesClients
    <3>1. /\ target' = target /\ closed' = closed \cup subscribers[j]
          /\ \A i \in Job : i # j => run'[i] = run[i]
      BY <2>2, <1>1 DEF Exit, client, JobInv, TypeOK
    <3>2. ASSUME NEW c \in Client, pc[c] = "streaming", run[target[c]] # "done",
                 run'[target'[c]] = "done"
          PROVE  c \in closed'
      <4>1. target[c] = j
        BY <3>1, <3>2, <2>1
      <4>2. c \in closed \/ c \in subscribers[j]
        BY <4>1, <3>2, <1>1 DEF JobInv, ClientInv
      <4> QED BY <4>2, <3>1
    <3> QED BY <3>1, <3>2 DEF EndReachesClients
  <2>3. ASSUME NEW j \in Job, Begin(j) \/ GetStoreFails(j) \/ Publish(j) \/ EndLoop(j)
        PROVE  EndReachesClients
    <3>1. /\ target' = target /\ closed' = closed
          /\ \A i \in Job : run'[i] = "done" => run[i] = "done"
      BY <2>3, <1>1
      DEF Begin, GetStoreFails, Publish, EndLoop, client, JobInv, TypeOK, RunningIsRegistered
    <3> QED BY <3>1, <2>1 DEF EndReachesClients
  <2>4. CASE \/ Evict \/ UNCHANGED vars
             \/ \E j \in Job : StartScan(j) \/ Expire(j)
             \/ \E c \in Client : CheckJob(c) \/ ClientStep(c) \/ Disconnect(c)
    <3>1. UNCHANGED <<target, closed>>
      BY <2>4 DEF Evict, vars, StartScan, Expire, CheckJob, ClientStep, Subscribe, Receive,
                  Complete, Disconnect, client
    <3>2. \A i \in Job : run'[i] = "done" => run[i] = "done"
      BY <2>4, <1>1 DEF JobInv, TypeOK, Evict, vars, StartScan, Expire, CheckJob, ClientStep,
                        Subscribe, Receive, Complete, Disconnect
    <3> QED BY <3>1, <3>2, <2>1 DEF EndReachesClients
  <2> QED BY <1>1, <2>2, <2>3, <2>4 DEF Next, ScanStep
<1> QED BY <1>1, JobInvariant, PTL DEF Spec

-----------------------------------------------------------------------------
(***************************************************************************)
(* The registry implements JobFeed                                         *)
(***************************************************************************)

\* What happens to the channel of a client, in the words of the registry.
LEMMA FeedOfClient ==
  ASSUME NEW c \in Client, target' = target
  PROVE  /\ /\ results'[target[c]] = results[target[c]] /\ Line(c)' = Line(c)
            /\ run'[target[c]] = "done" <=> run[target[c]] = "done"
            /\ buffer'[c] = buffer[c]
            => Feed!Rest(c)
         /\ /\ run[target[c]] # "done" /\ run'[target[c]] = "done"
            /\ results'[target[c]] = results[target[c]] /\ buffer'[c] = buffer[c]
            /\ Line(c)' = IF Line(c) = "open" THEN "closed" ELSE Line(c)
            => Feed!End(c)
         /\ /\ run[target[c]] # "done" /\ run'[target[c]] # "done"
            /\ Line(c) # "closed" /\ Line(c)' = Line(c)
            /\ results'[target[c]] = results[target[c]] + 1
            /\ buffer'[c] = IF Line(c) = "open" /\ Len(buffer[c]) < ChanCap
                            THEN Append(buffer[c], results'[target[c]]) ELSE buffer[c]
            => Feed!Publish(c)
         /\ /\ results'[target[c]] = results[target[c]] /\ Line(c) = "none" /\ Line(c)' = "open"
            /\ run'[target[c]] = "done" <=> run[target[c]] = "done"
            /\ buffer'[c] = buffer[c]
            => Feed!Subscribe(c)
         /\ /\ results'[target[c]] = results[target[c]] /\ Line(c)' = Line(c)
            /\ run'[target[c]] = "done" <=> run[target[c]] = "done"
            /\ buffer[c] # << >> /\ buffer'[c] = Tail(buffer[c])
            => Feed!Receive(c)
<1> HIDE DEF Line
<1> QED BY DEF Feed!Rest, Feed!End, Feed!Publish, Feed!Subscribe, Feed!Receive

\* A step that does not touch a channel of anyone.
LEMMA FeedFrame ==
  ASSUME UNCHANGED <<results, target, buffer, subscribers, closed>>,
         \A j \in Job : run'[j] = "done" <=> run[j] = "done", TypeOK
  PROVE  \A c \in Client : Feed!Rest(c)
<1> SUFFICES ASSUME NEW c \in Client PROVE Feed!Rest(c)
  OBVIOUS
<1>1. target[c] \in Job
  BY DEF TypeOK
<1>2. Line(c)' = Line(c)
  BY DEF Line
<1> QED BY <1>1, <1>2, FeedOfClient

\* A step of a scan publishes to the followers of that scan, or ends them.
LEMMA FeedScanStep ==
  ASSUME JobInv, NEW j \in Job, ScanStep(j), NEW c \in Client
  PROVE  Feed!Rest(c) \/ Feed!Publish(c) \/ Feed!End(c)
<1>1. /\ TypeOK /\ target[c] \in Job /\ target' = target
      /\ c \in subscribers[j] => c \notin closed /\ target[c] = j
      /\ c \in closed => run[target[c]] = "done"
  BY DEF JobInv, TypeOK, ChannelsAreOpen, ClientInv, ScanStep, Begin, GetStoreFails, Publish,
     EndLoop, Exit, client
<1>2. CASE Begin(j) \/ GetStoreFails(j) \/ EndLoop(j)
  <2>1. UNCHANGED <<results, target, buffer, subscribers, closed>>
    BY <1>2 DEF Begin, GetStoreFails, EndLoop, registry, client
  <2>2. j \in registered \/ run[j] # "begin"
    BY DEF JobInv, RunningIsRegistered
  <2>3. \A i \in Job : run'[i] = "done" <=> run[i] = "done"
    BY <1>1, <1>2, <2>2 DEF Begin, GetStoreFails, EndLoop, TypeOK
  <2> QED BY <1>1, <2>1, <2>3, FeedFrame
<1>3. CASE Exit(j)
  <2>1. /\ run[j] # "done" /\ run' = [run EXCEPT ![j] = "done"]
        /\ closed' = closed \cup subscribers[j] /\ subscribers' = [subscribers EXCEPT ![j] = {}]
        /\ UNCHANGED <<results, buffer>>
    BY <1>3 DEF Exit
  <2>2. CASE target[c] = j
    <3>1. run'[j] = "done" /\ subscribers'[j] = {}
      BY <1>1, <2>1 DEF TypeOK
    <3>2. Line(c)' = IF Line(c) = "open" THEN "closed" ELSE Line(c)
      BY <1>1, <2>1, <2>2, <3>1 DEF Line
    <3> QED BY <1>1, <2>1, <2>2, <3>1, <3>2, FeedOfClient
  <2>3. CASE target[c] # j
    <3>1. run'[target[c]] = run[target[c]] /\ subscribers'[target[c]] = subscribers[target[c]]
      BY <1>1, <2>1, <2>3 DEF TypeOK
    <3>2. Line(c)' = Line(c)
      BY <1>1, <2>1, <2>3, <3>1 DEF Line
    <3> QED BY <1>1, <2>1, <3>1, <3>2, FeedOfClient
  <2> QED BY <2>2, <2>3
<1>4. CASE Publish(j)
  <2> DEFINE full == {d \in subscribers[j] : Len(buffer[d]) >= ChanCap}
  <2>1. /\ run[j] = "loop" /\ results' = [results EXCEPT ![j] = @ + 1]
        /\ buffer' = [d \in Client |-> IF d \in subscribers[j] \ full
                                       THEN Append(buffer[d], results[j] + 1) ELSE buffer[d]]
        /\ UNCHANGED <<run, closed, subscribers>>
    BY <1>4 DEF Publish
  <2>2. Line(c)' = Line(c)
    BY <1>1, <2>1 DEF Line
  <2>3. CASE target[c] = j
    <3>1. c \notin closed /\ results'[j] = results[j] + 1
      BY <1>1, <2>1, <2>3 DEF TypeOK
    <3>2. Line(c) # "closed" /\ (Line(c) = "open" <=> c \in subscribers[j])
      BY <2>3, <3>1 DEF Line
    <3>3. c \in subscribers[j] \ full <=> Line(c) = "open" /\ Len(buffer[c]) < ChanCap
      <4>1. Len(buffer[c]) \in Nat /\ ChanCap \in Nat
        BY <1>1, CapAssumption, LenProperties DEF TypeOK
      <4> QED BY <3>2, <4>1
    <3>4. buffer'[c] = IF Line(c) = "open" /\ Len(buffer[c]) < ChanCap
                       THEN Append(buffer[c], results'[target[c]]) ELSE buffer[c]
      <4> HIDE DEF full
      <4> QED BY <2>1, <2>3, <3>1, <3>3
    <3> QED BY <1>1, <2>1, <2>2, <2>3, <3>1, <3>2, <3>4, FeedOfClient
  <2>4. CASE target[c] # j
    <3>1. results'[target[c]] = results[target[c]] /\ buffer'[c] = buffer[c]
      BY <1>1, <2>1, <2>4 DEF TypeOK
    <3> QED BY <1>1, <2>1, <2>2, <3>1, FeedOfClient
  <2> QED BY <2>3, <2>4
<1> QED BY <1>2, <1>3, <1>4 DEF ScanStep

\* A step of a client concerns its own channel only.
LEMMA FeedClientStep ==
  ASSUME JobInv, NEW d \in Client, Subscribe(d) \/ Receive(d), NEW c \in Client
  PROVE  Feed!Rest(c) \/ Feed!Subscribe(c) \/ Feed!Receive(c)
<1>1. TypeOK /\ target[c] \in Job /\ target[d] \in Job /\ target' = target
  BY DEF JobInv, TypeOK, Subscribe, Receive
<1>2. CASE Subscribe(d)
  <2>1. /\ UNCHANGED <<results, run, buffer, closed>> /\ pc[d] = "checked"
        /\ subscribers' = [subscribers EXCEPT ![target[d]] = @ \cup {d}]
    BY <1>2 DEF Subscribe
  <2>2. d \notin closed /\ d \notin subscribers[target[d]]
    BY <2>1 DEF JobInv, ClientInv
  <2>3. CASE c = d
    <3>1. Line(c) = "none" /\ Line(c)' = "open"
      BY <1>1, <2>1, <2>2, <2>3 DEF Line, TypeOK
    <3> QED BY <1>1, <2>1, <3>1, FeedOfClient
  <2>4. CASE c # d
    <3>1. Line(c)' = Line(c)
      BY <1>1, <2>1, <2>4 DEF Line, TypeOK
    <3> QED BY <1>1, <2>1, <3>1, FeedOfClient
  <2> QED BY <2>3, <2>4
<1>3. CASE Receive(d)
  <2>1. /\ UNCHANGED <<results, run, subscribers, closed>>
        /\ buffer[d] # << >> /\ buffer' = [buffer EXCEPT ![d] = Tail(@)]
    BY <1>3 DEF Receive, registry
  <2>2. Line(c)' = Line(c)
    BY <1>1, <2>1 DEF Line
  <2>3. buffer'[c] = IF c = d THEN Tail(buffer[c]) ELSE buffer[c]
    BY <1>1, <2>1 DEF TypeOK
  <2> QED BY <1>1, <2>1, <2>2, <2>3, FeedOfClient
<1> QED BY <1>2, <1>3

\* The registry implements JobFeed for each of its clients: whoever comes and
\* goes, nobody loses a result for which there was room, receives one after the
\* end, or is left out when the channels are closed.
THEOREM JobsServeClients == Spec => ServesClients
<1>1. Init => Feed!Init
  <2> SUFFICES ASSUME Init PROVE Feed!Init
    OBVIOUS
  <2>1. \A c \in Client : target[c] \in Job /\ Line(c) = "none"
    BY DEF Init, Line
  <2> QED BY <2>1 DEF Init, Feed!Init
<1>2. JobInv /\ [Next]_vars => [Feed!Next]_(Feed!feed)
  <2> SUFFICES ASSUME JobInv, [Next]_vars PROVE Feed!Next
    OBVIOUS
  <2>1. ASSUME NEW j \in Job, ScanStep(j)
        PROVE  Feed!Next
    BY <2>1, FeedScanStep DEF Feed!Next
  <2>2. ASSUME NEW c \in Client, Subscribe(c) \/ Receive(c)
        PROVE  Feed!Next
    BY <2>2, FeedClientStep DEF Feed!Next
  <2>3. CASE \/ Evict \/ UNCHANGED vars
             \/ \E j \in Job : StartScan(j) \/ Expire(j)
             \/ \E c \in Client : CheckJob(c) \/ Complete(c) \/ Disconnect(c)
    <3>1. UNCHANGED <<results, target, buffer, subscribers, closed>>
      BY <2>3 DEF Evict, vars, StartScan, Expire, CheckJob, Complete, Disconnect, registry, client
    <3>2. \A i \in Job : run'[i] = "done" <=> run[i] = "done"
      BY <2>3 DEF JobInv, TypeOK, Evict, vars, StartScan, Expire, CheckJob, Complete, Disconnect
    <3> QED BY <3>1, <3>2, FeedFrame DEF JobInv, Feed!Next
  <2> QED BY <2>1, <2>2, <2>3 DEF Next, ClientStep
<1> QED BY <1>1, <1>2, JobInvariant, PTL DEF Spec, ServesClients, Feed!Spec

-----------------------------------------------------------------------------
(***************************************************************************)
(* The dashboard (TuiScan), for any number of scans and results, any       *)
(* capacity of the channels and any way of switching tabs                  *)
(***************************************************************************)

\* What is in a channel has been published, in order.
ChannelInv ==
  \A j \in Job :
    /\ \A n \in 1 .. Len(channel[j]) : channel[j][n] <= sent[j]
    /\ \A m, n \in 1 .. Len(channel[j]) : m < n => channel[j][m] < channel[j][n]

\* The view has a cancel function while it runs, and a channel as soon as a
\* command waits.
ScanInv ==
  /\ running => canceller \in Job
  /\ \A j \in Job : chain[j].at # "none" => stream \in Job

\* The scan that the view is about.
Present == IF busy = NoJob THEN stream ELSE busy

\* Unless esc was pressed: only the command of the present scan is alive, and only
\* while the view runs ...
CommandInv ==
  /\ running => canceller = Present
  /\ busy # NoJob => running /\ shown = << >>
  /\ \A j \in Job : chain[j].at # "none" =>
       running /\ busy = NoJob /\ stream = j /\ chain[j].on = j
  /\ \A j \in Job : chain[j].at = "holding" /\ chain[j].msg = 0 => j \in finished

\* ... what it holds comes before what is still in the channel, and what is shown
\* before both.
OrderInv ==
  /\ \A i \in 1 .. Len(shown) :
       /\ shown[i][1] = Present
       /\ stream \in Job => shown[i][2] <= sent[stream]
       /\ stream \in Job => \A n \in 1 .. Len(channel[stream]) : shown[i][2] < channel[stream][n]
       /\ i > 1 => shown[i - 1][2] < shown[i][2]
  /\ \A j \in Job : chain[j].at = "holding" /\ chain[j].msg # 0 =>
       /\ chain[j].msg <= sent[j]
       /\ \A n \in 1 .. Len(channel[j]) : chain[j].msg < channel[j][n]
       /\ \A i \in 1 .. Len(shown) : shown[i][2] < chain[j].msg

TuiInv ==
  /\ TuiTypeOK /\ ChannelInv /\ ScanInv /\ CancelsOnlyEnded
  /\ escaped = {} => CommandInv /\ OrderInv

\* The numbers of the results in the list.
LEMMA ShownType ==
  ASSUME TuiTypeOK
  PROVE  \A i \in 1 .. Len(shown) : shown[i][2] \in Nat
<1>1. \A i \in 1 .. Len(shown) : shown[i] \in Job \X (1 .. MaxResults)
  BY ElementOfSeq DEF TuiTypeOK
<1> QED BY <1>1, ResultsAssumption

\* Steps of keys that change neither a scan nor what the view shows of one.
LEMMA TuiFrame ==
  ASSUME TuiInv, TuiTypeOK', UNCHANGED <<view, engine, channel, chain, escaped>>,
         quit' \/ (quit' = quit /\ cancelled' = cancelled)
  PROVE  TuiInv'
<1>1. ChannelInv' /\ ScanInv'
  BY DEF TuiInv, ChannelInv, ScanInv, view, engine
<1>2. CancelsOnlyEnded'
  BY DEF TuiInv, CancelsOnlyEnded, engine
<1>3. escaped' = {} => CommandInv' /\ OrderInv'
  BY DEF TuiInv, CommandInv, OrderInv, Present, view, engine
<1> QED BY <1>1, <1>2, <1>3 DEF TuiInv

\* The keys.
LEMMA KeyStep ==
  ASSUME TuiInv, Key
  PROVE  TuiInv'
<1> USE DEF tabHosts, tabAlerts, tabScan, tabQuery, Tab
<1>1. ASSUME NEW t \in Tab, SwitchTab(t)
      PROVE  TuiInv'
  <2>1. TuiTypeOK'
    BY <1>1 DEF TuiInv, TuiTypeOK, SwitchTab, RefreshActiveTab, view, engine
  <2> QED BY <2>1, <1>1, TuiFrame DEF SwitchTab
<1>2. CASE CtrlC
  <2>1. TuiTypeOK'
    BY <1>2 DEF TuiInv, TuiTypeOK, CtrlC, keys, view, engine
  <2> QED BY <2>1, <1>2, TuiFrame DEF CtrlC
<1>3. CASE KeyQ
  <2>1. TuiTypeOK'
    BY <1>3 DEF TuiInv, TuiTypeOK, KeyQ, keys, view, engine
  <2> QED BY <2>1, <1>3, TuiFrame DEF KeyQ
<1>4. CASE FocusKey
  <2>1. TuiTypeOK'
    BY <1>4 DEF TuiInv, TuiTypeOK, FocusKey, view, engine
  <2> QED BY <2>1, <1>4, TuiFrame DEF FocusKey
<1>5. ASSUME NEW m \in Mode, TableKey(m)
      PROVE  TuiInv'
  <2>1. TuiTypeOK'
    BY <1>5 DEF TuiInv, TuiTypeOK, TableKey, view, engine
  <2> QED BY <2>1, <1>5, TuiFrame DEF TableKey
<1>6. CASE StartFails
  <2>1. /\ ~running /\ busy = NoJob /\ canceller' = NoJob /\ shown' = << >>
        /\ UNCHANGED <<keys, running, stream, busy, quit, engine, channel, cancelled, chain, escaped, lost>>
    BY <1>6 DEF StartFails, Idle
  <2>2. TuiTypeOK'
    BY <2>1 DEF TuiInv, TuiTypeOK, keys, engine
  <2>3. ChannelInv' /\ ScanInv' /\ CancelsOnlyEnded'
    BY <2>1 DEF TuiInv, ChannelInv, ScanInv, CancelsOnlyEnded, engine
  <2>4. escaped' = {} => CommandInv' /\ OrderInv'
    BY <2>1, EmptySeq DEF TuiInv, CommandInv, OrderInv, engine
  <2> QED BY <2>2, <2>3, <2>4 DEF TuiInv
<1>7. CASE Escape
  <2>1. /\ running /\ running' = FALSE
        /\ cancelled' = cancelled \cup {canceller} /\ escaped' = escaped \cup {canceller}
        /\ UNCHANGED <<keys, stream, canceller, shown, busy, quit, engine, channel, chain, lost>>
    BY <1>7 DEF Escape
  <2>2. TuiTypeOK' /\ ScanInv'
    BY <2>1 DEF TuiInv, TuiTypeOK, ScanInv, keys, engine
  <2>3. ChannelInv'
    BY <2>1 DEF TuiInv, ChannelInv, engine
  <2>4. escaped' # {}
    BY <2>1
  <2> QED BY <2>2, <2>3, <2>4 DEF TuiInv, CancelsOnlyEnded
<1>8. ASSUME NEW j \in Job, StartKey(j)
      PROVE  TuiInv'
  <2>1. /\ ~running /\ running' = TRUE /\ busy = NoJob /\ busy' = j /\ canceller' = j
        /\ shown' = << >> /\ scan' = [scan EXCEPT ![j] = "running"]
        /\ UNCHANGED <<keys, quit, stream, sent, subscribed, finished, channel, cancelled, chain, escaped, lost>>
    BY <1>8 DEF StartKey, Idle
  <2>2. TuiTypeOK' /\ ScanInv'
    BY <2>1 DEF TuiInv, TuiTypeOK, ScanInv, keys
  <2>3. ChannelInv' /\ CancelsOnlyEnded'
    BY <2>1 DEF TuiInv, ChannelInv, CancelsOnlyEnded
  <2>4. escaped' = {} => CommandInv' /\ OrderInv'
    BY <2>1, NoJobAssumption, EmptySeq DEF TuiInv, CommandInv, OrderInv, Present
  <2> QED BY <2>2, <2>3, <2>4 DEF TuiInv
<1> QED BY <1>1, <1>2, <1>3, <1>4, <1>5, <1>6, <1>7, <1>8 DEF Key

\* startScanJob subscribes to a channel of its own.
LEMMA SubscribeViewStep ==
  ASSUME TuiInv, NEW j \in Job, SubscribeView(j)
  PROVE  TuiInv'
<1>1. /\ busy = j /\ busy' = NoJob /\ stream' = j
      /\ subscribed' = subscribed \cup {j}
      /\ chain' = [chain EXCEPT ![j] = Waiting(j)]
      /\ lost' \in {lost, lost \cup {j}}
      /\ UNCHANGED <<keys, running, canceller, shown, quit, scan, sent, finished, channel, cancelled, escaped>>
  BY DEF SubscribeView
<1>2. Waiting(j) \in Command /\ Waiting(j).at = "waiting" /\ Waiting(j).on = j
  BY ResultsAssumption DEF Waiting, Command
<1>3. chain' \in [Job -> Command] /\ chain'[j] = Waiting(j) /\ \A k \in Job \ {j} : chain'[k] = chain[k]
  BY <1>1, <1>2 DEF TuiInv, TuiTypeOK
<1>4. TuiTypeOK' /\ ScanInv'
  BY <1>1, <1>3 DEF TuiInv, TuiTypeOK, ScanInv, keys
<1>5. ChannelInv' /\ CancelsOnlyEnded'
  BY <1>1 DEF TuiInv, ChannelInv, CancelsOnlyEnded
<1>6. ASSUME escaped' = {} PROVE CommandInv' /\ OrderInv'
  <2>1. CommandInv /\ j # NoJob /\ running /\ shown = << >> /\ canceller = j
    BY <1>1, <1>6, NoJobAssumption DEF TuiInv, CommandInv, Present
  <2>2. \A k \in Job : chain[k].at = "none"
    BY <1>1, <2>1 DEF CommandInv
  <2>3. CommandInv'
    BY <1>1, <1>2, <1>3, <2>1, <2>2 DEF CommandInv, Present
  <2>4. OrderInv'
    BY <1>1, <1>2, <1>3, <2>1, <2>2, EmptySeq DEF OrderInv
  <2> QED BY <2>3, <2>4
<1> QED BY <1>4, <1>5, <1>6 DEF TuiInv

\* The engine publishes a result, which comes after all that the view knows.
LEMMA PublishResultStep ==
  ASSUME TuiInv, NEW j \in Job, PublishResult(j)
  PROVE  TuiInv'
<1>1. /\ sent[j] < MaxResults /\ sent' = [sent EXCEPT ![j] = @ + 1]
      /\ \/ channel' = [channel EXCEPT ![j] = Append(@, sent[j] + 1)]
         \/ channel' = channel
      /\ UNCHANGED <<keys, view, quit, scan, subscribed, finished, cancelled, chain, escaped, lost>>
  BY DEF PublishResult
<1>2. /\ sent[j] \in Nat /\ sent[j] + 1 \in 1 .. MaxResults /\ sent'[j] = sent[j] + 1
      /\ sent' \in [Job -> 0 .. MaxResults]
      /\ \A k \in Job : sent[k] \in Nat /\ sent'[k] \in Nat /\ sent[k] <= sent'[k]
  BY <1>1, ResultsAssumption DEF TuiInv, TuiTypeOK
<1>3. /\ channel' \in [Job -> Seq(1 .. MaxResults)]
      /\ \A k \in Job : \A n \in 1 .. Len(channel'[k]) :
           \/ n \in 1 .. Len(channel[k]) /\ channel'[k][n] = channel[k][n]
           \/ n = Len(channel[k]) + 1 /\ k = j /\ channel'[k][n] = sent[j] + 1
  <2>1. channel[j] \in Seq(1 .. MaxResults) /\ channel \in [Job -> Seq(1 .. MaxResults)]
    BY DEF TuiInv, TuiTypeOK
  <2>2. /\ Append(channel[j], sent[j] + 1) \in Seq(1 .. MaxResults)
        /\ Len(Append(channel[j], sent[j] + 1)) = Len(channel[j]) + 1
        /\ Append(channel[j], sent[j] + 1)[Len(channel[j]) + 1] = sent[j] + 1
        /\ \A n \in 1 .. Len(channel[j]) : Append(channel[j], sent[j] + 1)[n] = channel[j][n]
    BY <1>2, <2>1, AppendProperties
  <2>3. Len(channel[j]) \in Nat
    BY <2>1, LenProperties
  <2>4. CASE channel' = channel
    BY <2>1, <2>4
  <2>5. CASE channel' = [channel EXCEPT ![j] = Append(@, sent[j] + 1)]
    <3>1. channel'[j] = Append(channel[j], sent[j] + 1) /\ \A k \in Job \ {j} : channel'[k] = channel[k]
      BY <2>1, <2>5
    <3>2. channel' \in [Job -> Seq(1 .. MaxResults)]
      BY <2>1, <2>2, <2>5
    <3> QED BY <2>2, <2>3, <3>1, <3>2
  <2> QED BY <1>1, <2>4, <2>5
<1>4. TuiTypeOK' /\ ScanInv' /\ CancelsOnlyEnded'
  BY <1>1, <1>2, <1>3 DEF TuiInv, TuiTypeOK, ScanInv, CancelsOnlyEnded, keys, view
<1>5. ASSUME NEW k \in Job, NEW n \in 1 .. Len(channel[k])
      PROVE  n \in Nat /\ channel[k][n] \in Nat /\ channel[k][n] <= sent[k]
  BY ChannelType, ResultsAssumption DEF TuiInv, TuiTypeOK, ChannelInv
<1>6. ASSUME NEW k \in Job PROVE Len(channel[k]) \in Nat /\ Len(channel'[k]) \in Nat
  BY <1>3, ChannelType, ResultsAssumption DEF TuiInv, TuiTypeOK
<1>7. ChannelInv'
  <2>1. ASSUME NEW k \in Job, NEW n \in 1 .. Len(channel'[k])
        PROVE  channel'[k][n] <= sent'[k]
    <3>1. CASE n \in 1 .. Len(channel[k]) /\ channel'[k][n] = channel[k][n]
      BY <3>1, <1>2, <1>5
    <3>2. CASE k = j /\ channel'[k][n] = sent[j] + 1
      BY <3>2, <1>1, <1>2
    <3> QED BY <1>3, <3>1, <3>2
  <2>2. ASSUME NEW k \in Job, NEW m \in 1 .. Len(channel'[k]), NEW n \in 1 .. Len(channel'[k]), m < n
        PROVE  channel'[k][m] < channel'[k][n]
    <3>1. m \in 1 .. Len(channel[k]) /\ channel'[k][m] = channel[k][m]
      BY <1>3, <1>6, <2>2
    <3>2. CASE n \in 1 .. Len(channel[k]) /\ channel'[k][n] = channel[k][n]
      BY <2>2, <3>1, <3>2 DEF TuiInv, ChannelInv
    <3>3. CASE k = j /\ channel'[k][n] = sent[j] + 1
      BY <1>2, <1>5, <3>1, <3>3
    <3> QED BY <1>3, <3>2, <3>3
  <2> QED BY <2>1, <2>2 DEF ChannelInv
<1>8. ASSUME escaped' = {} PROVE CommandInv' /\ OrderInv'
  <2>1. CommandInv /\ OrderInv
    BY <1>1, <1>8 DEF TuiInv
  <2>2. CommandInv'
    BY <1>1, <2>1 DEF CommandInv, Present, view
  <2>3. ASSUME NEW x \in Nat, NEW k \in Job, x <= sent[k],
               \A n \in 1 .. Len(channel[k]) : x < channel[k][n]
        PROVE  x <= sent'[k] /\ \A n \in 1 .. Len(channel'[k]) : x < channel'[k][n]
    <3>1. x <= sent'[k]
      BY <1>2, <2>3
    <3>2. ASSUME NEW n \in 1 .. Len(channel'[k]) PROVE x < channel'[k][n]
      <4>1. CASE n \in 1 .. Len(channel[k]) /\ channel'[k][n] = channel[k][n]
        BY <2>3, <4>1
      <4>2. CASE k = j /\ channel'[k][n] = sent[j] + 1
        BY <1>2, <2>3, <4>2
      <4> QED BY <1>3, <4>1, <4>2
    <3> QED BY <3>1, <3>2
  <2>4. \A i \in 1 .. Len(shown) : shown[i][2] \in Nat
    BY ShownType DEF TuiInv, TuiTypeOK
  <2>5. \A k \in Job : chain[k].msg \in Nat
    BY DEF TuiInv, TuiTypeOK, Command
  <2> QED BY <1>1, <2>1, <2>2, <2>3, <2>4, <2>5 DEF OrderInv, Present, view
<1> QED BY <1>4, <1>7, <1>8 DEF TuiInv

\* The engine ends a scan and closes its channel.
LEMMA EndScanStep ==
  ASSUME TuiInv, NEW j \in Job, EndScan(j)
  PROVE  TuiInv'
<1>1. /\ scan' = [scan EXCEPT ![j] = "done"]
      /\ finished' = finished \cup ({j} \cap subscribed)
      /\ subscribed' = subscribed \ {j}
      /\ UNCHANGED <<keys, view, quit, sent, channel, cancelled, chain, escaped, lost>>
  BY DEF EndScan
<1>2. TuiTypeOK' /\ ScanInv'
  BY <1>1 DEF TuiInv, TuiTypeOK, ScanInv, keys, view
<1>3. ChannelInv' /\ CancelsOnlyEnded'
  BY <1>1 DEF TuiInv, ChannelInv, CancelsOnlyEnded
<1>4. escaped' = {} => CommandInv' /\ OrderInv'
  BY <1>1 DEF TuiInv, CommandInv, OrderInv, Present, view
<1> QED BY <1>2, <1>3, <1>4 DEF TuiInv

\* A command receives the oldest result of its channel, or its end.
LEMMA PumpStep ==
  ASSUME TuiInv, NEW j \in Job, Pump(j)
  PROVE  TuiInv'
<1> DEFINE k == chain[j].on
<1>1. k \in Job /\ channel[k] \in Seq(1 .. MaxResults) /\ chain[j].at = "waiting"
  BY DEF TuiInv, TuiTypeOK, Command, Pump
<1>2. UNCHANGED <<keys, view, quit, engine, cancelled, escaped, lost>>
  BY DEF Pump
<1>3. \/ /\ channel[k] # << >>
         /\ chain' = [chain EXCEPT ![j] = [at |-> "holding", on |-> k, msg |-> Head(channel[k])]]
         /\ channel' = [channel EXCEPT ![k] = Tail(@)]
      \/ /\ channel[k] = << >> /\ k \in finished
         /\ chain' = [chain EXCEPT ![j] = [at |-> "holding", on |-> k, msg |-> 0]]
         /\ channel' = channel
  BY DEF Pump
<1> HIDE DEF k
<1>4. CASE channel[k] = << >> /\ k \in finished
  <2>1. channel' = channel /\ chain' = [chain EXCEPT ![j] = [at |-> "holding", on |-> k, msg |-> 0]]
    BY <1>3, <1>4
  <2>2. /\ chain' \in [Job -> Command] /\ chain'[j] = [at |-> "holding", on |-> k, msg |-> 0]
        /\ \A i \in Job \ {j} : chain'[i] = chain[i]
    BY <2>1, <1>1, ResultsAssumption DEF TuiInv, TuiTypeOK, Command
  <2>3. TuiTypeOK' /\ ScanInv'
    BY <1>1, <1>2, <2>1, <2>2 DEF TuiInv, TuiTypeOK, ScanInv, keys, view, engine
  <2>4. ChannelInv' /\ CancelsOnlyEnded'
    BY <1>2, <2>1 DEF TuiInv, ChannelInv, CancelsOnlyEnded, engine
  <2>5. escaped' = {} => CommandInv' /\ OrderInv'
    <3>1. escaped' = {} => CommandInv'
      BY <1>1, <1>2, <1>4, <2>2 DEF TuiInv, CommandInv, Present, view, engine, k
    <3>2. escaped' = {} => OrderInv'
      BY <1>2, <2>1, <2>2 DEF TuiInv, OrderInv, Present, view, engine
    <3> QED BY <3>1, <3>2
  <2> QED BY <2>3, <2>4, <2>5 DEF TuiInv
<1>5. CASE channel[k] # << >>
  <2> DEFINE x == channel[k][1]
  <2>1. /\ Head(channel[k]) = x /\ x \in 1 .. MaxResults
        /\ Len(channel[k]) \in Nat \ {0} /\ Len(Tail(channel[k])) = Len(channel[k]) - 1
        /\ Tail(channel[k]) \in Seq(1 .. MaxResults)
        /\ \A n \in 1 .. Len(Tail(channel[k])) : Tail(channel[k])[n] = channel[k][n + 1]
    BY <1>1, <1>5, HeadAndTail, ResultsAssumption
  <2>2. /\ chain' = [chain EXCEPT ![j] = [at |-> "holding", on |-> k, msg |-> x]]
        /\ channel' = [channel EXCEPT ![k] = Tail(@)]
    BY <1>3, <1>5, <2>1
  <2>3. x <= sent[k]
    BY <1>1, <2>1 DEF TuiInv, ChannelInv
  <2>4. \A n \in 1 .. Len(Tail(channel[k])) : n + 1 \in 1 .. Len(channel[k]) /\ x < Tail(channel[k])[n]
    <3>1. \A n \in 1 .. Len(Tail(channel[k])) : n + 1 \in 1 .. Len(channel[k]) /\ 1 < n + 1
      BY <2>1
    <3> QED BY <1>1, <2>1, <3>1 DEF TuiInv, ChannelInv
  <2> HIDE DEF x
  <2>5. /\ chain' \in [Job -> Command] /\ chain'[j] = [at |-> "holding", on |-> k, msg |-> x]
        /\ \A i \in Job \ {j} : chain'[i] = chain[i]
    <3>1. [at |-> "holding", on |-> k, msg |-> x] \in Command
      BY <1>1, <2>1, ResultsAssumption DEF Command
    <3>2. chain \in [Job -> Command]
      BY DEF TuiInv, TuiTypeOK
    <3> QED BY <2>2, <3>1, <3>2
  <2>6. /\ channel' \in [Job -> Seq(1 .. MaxResults)] /\ channel'[k] = Tail(channel[k])
        /\ \A i \in Job \ {k} : channel'[i] = channel[i]
    BY <1>1, <2>1, <2>2 DEF TuiInv, TuiTypeOK
  <2>7. TuiTypeOK' /\ ScanInv'
    BY <1>1, <1>2, <2>5, <2>6 DEF TuiInv, TuiTypeOK, ScanInv, keys, view, engine
  <2>8. CancelsOnlyEnded'
    BY <1>2 DEF TuiInv, CancelsOnlyEnded, engine
  <2>9. ChannelInv'
    <3>1. ASSUME NEW i \in Job, i # k PROVE
              /\ \A n \in 1 .. Len(channel'[i]) : channel'[i][n] <= sent'[i]
              /\ \A m, n \in 1 .. Len(channel'[i]) : m < n => channel'[i][m] < channel'[i][n]
      BY <1>2, <2>6, <3>1 DEF TuiInv, ChannelInv, engine
    <3>2. \A n \in 1 .. Len(channel'[k]) : channel'[k][n] <= sent'[k]
      BY <1>1, <1>2, <2>1, <2>4, <2>6 DEF TuiInv, ChannelInv, engine
    <3>3. \A m, n \in 1 .. Len(channel'[k]) : m < n => channel'[k][m] < channel'[k][n]
      <4> SUFFICES ASSUME NEW m \in 1 .. Len(channel'[k]), NEW n \in 1 .. Len(channel'[k]), m < n
                   PROVE  channel'[k][m] < channel'[k][n]
        OBVIOUS
      <4>1. m + 1 \in 1 .. Len(channel[k]) /\ n + 1 \in 1 .. Len(channel[k]) /\ m + 1 < n + 1
        BY <2>4, <2>6
      <4>2. channel[k][m + 1] < channel[k][n + 1]
        BY <1>1, <4>1 DEF TuiInv, ChannelInv
      <4> QED BY <2>1, <2>6, <4>2
    <3> QED BY <3>1, <3>2, <3>3 DEF ChannelInv
  <2>10. ASSUME escaped' = {} PROVE CommandInv' /\ OrderInv'
    <3>1. CommandInv /\ OrderInv
      BY <1>2, <2>10 DEF TuiInv
    <3>2. k = j /\ stream = j /\ running /\ busy = NoJob
      BY <1>1, <3>1 DEF CommandInv, k
    <3>3. CommandInv'
      BY <1>2, <2>1, <2>5, <3>1, <3>2 DEF CommandInv, Present, view, engine
    <3>4. \A i \in Job : chain'[i].at # "none" => i = j
      BY <1>2, <3>3, <3>2 DEF CommandInv, view
    <3>5. \A i \in 1 .. Len(shown) : shown[i][2] < x
      BY <1>1, <2>1, <3>1, <3>2 DEF OrderInv, x
    <3>6. ASSUME NEW i \in 1 .. Len(shown), NEW n \in 1 .. Len(channel'[j])
          PROVE  shown[i][2] < channel'[j][n]
      BY <1>1, <2>1, <2>4, <2>6, <3>1, <3>2 DEF OrderInv
    <3>7. /\ \A i \in 1 .. Len(shown) :
               /\ shown[i][1] = Present /\ shown[i][2] <= sent[stream]
               /\ i > 1 => shown[i - 1][2] < shown[i][2]
          /\ sent' = sent /\ shown' = shown /\ stream' = stream /\ Present' = Present
      BY <1>1, <1>2, <3>1, <3>2 DEF OrderInv, Present, view, engine
    <3>8. \A i \in Job : chain'[i].at = "holding" /\ chain'[i].msg # 0 =>
            /\ chain'[i].msg <= sent'[i]
            /\ \A n \in 1 .. Len(channel'[i]) : chain'[i].msg < channel'[i][n]
            /\ \A n \in 1 .. Len(shown') : shown'[n][2] < chain'[i].msg
      <4>1. chain'[j].msg = x /\ x <= sent'[j] /\ \A n \in 1 .. Len(channel'[j]) : x < channel'[j][n]
        <5>1. chain'[j].msg = x /\ channel'[j] = Tail(channel[k])
          BY <2>5, <2>6, <3>2
        <5> QED BY <2>3, <2>4, <3>2, <3>7, <5>1
      <4> QED BY <3>4, <3>5, <3>7, <4>1
    <3>9. \A i \in 1 .. Len(shown') :
            /\ shown'[i][1] = Present' /\ shown'[i][2] <= sent'[stream']
            /\ \A n \in 1 .. Len(channel'[stream']) : shown'[i][2] < channel'[stream'][n]
            /\ i > 1 => shown'[i - 1][2] < shown'[i][2]
      BY <3>2, <3>6, <3>7
    <3>10. OrderInv'
      BY <3>8, <3>9 DEF OrderInv
    <3> QED BY <3>3, <3>10
  <2> QED BY <2>7, <2>8, <2>9, <2>10 DEF TuiInv
<1> QED BY <1>3, <1>4, <1>5

\* The view shows a result and asks for the next, ends, or never hears of either.
LEMMA HandleStep ==
  ASSUME TuiInv, NEW j \in Job, Handle(j)
  PROVE  TuiInv'
<1>1. CASE ShowResult(j)
  <2> DEFINE row == <<chain[j].on, chain[j].msg>>
  <2>1. /\ busy = NoJob /\ chain[j].at = "holding" /\ chain[j].msg # 0
        /\ shown' = Append(shown, row)
        /\ chain' = [chain EXCEPT ![j] = Waiting(stream)]
        /\ UNCHANGED <<keys, running, stream, canceller, busy, quit, engine, channel, cancelled, escaped, lost>>
    BY <1>1 DEF ShowResult, Idle
  <2>2. row \in Job \X (1 .. MaxResults) /\ row[1] = chain[j].on /\ row[2] = chain[j].msg
    BY <2>1, ResultsAssumption DEF TuiInv, TuiTypeOK, Command
  <2> HIDE DEF row
  <2>3. stream \in Job
    BY <2>1 DEF TuiInv, ScanInv
  <2>4. /\ Waiting(stream) \in Command
        /\ Waiting(stream).at = "waiting" /\ Waiting(stream).on = stream
    BY <2>3, ResultsAssumption DEF Waiting, Command
  <2>5. /\ chain' \in [Job -> Command] /\ chain'[j] = Waiting(stream)
        /\ \A i \in Job \ {j} : chain'[i] = chain[i]
    BY <2>1, <2>4 DEF TuiInv, TuiTypeOK
  <2>6. shown \in Seq(Job \X (1 .. MaxResults))
    BY DEF TuiInv, TuiTypeOK
  <2>7. /\ shown' \in Seq(Job \X (1 .. MaxResults)) /\ Len(shown') = Len(shown) + 1
        /\ \A i \in 1 .. Len(shown) : shown'[i] = shown[i]
        /\ shown'[Len(shown) + 1] = row /\ Len(shown) \in Nat
    BY <2>1, <2>2, <2>6, AppendProperties, LenProperties
  <2>8. TuiTypeOK' /\ ScanInv'
    BY <2>1, <2>3, <2>5, <2>7 DEF TuiInv, TuiTypeOK, ScanInv, keys, engine
  <2>9. ChannelInv' /\ CancelsOnlyEnded'
    BY <2>1 DEF TuiInv, ChannelInv, CancelsOnlyEnded, engine
  <2>10. ASSUME escaped' = {} PROVE CommandInv' /\ OrderInv'
    <3>1. CommandInv /\ OrderInv
      BY <2>1, <2>10 DEF TuiInv
    <3>2. stream = j /\ running /\ chain[j].on = j /\ Present = j
      BY <2>1, <3>1 DEF CommandInv, Present
    <3>3. CommandInv'
      BY <2>1, <2>4, <2>5, <3>1, <3>2 DEF CommandInv, Present, engine
    <3>4. \A i \in Job : chain'[i].at # "holding"
      BY <2>1, <2>4, <2>5, <3>1, <3>2 DEF CommandInv
    <3>5. /\ row[1] = j /\ row[2] <= sent[j]
          /\ \A n \in 1 .. Len(channel[j]) : row[2] < channel[j][n]
          /\ \A i \in 1 .. Len(shown) : shown[i][2] < row[2]
      BY <2>1, <2>2, <3>1, <3>2 DEF OrderInv
    <3>6. \A i \in 1 .. Len(shown') : i \in 1 .. Len(shown) \/ i = Len(shown) + 1
      BY <2>7
    <3>7. ASSUME NEW i \in 1 .. Len(shown')
          PROVE  /\ shown'[i][1] = j /\ shown'[i][2] <= sent[j]
                 /\ \A n \in 1 .. Len(channel[j]) : shown'[i][2] < channel[j][n]
                 /\ i > 1 => shown'[i - 1][2] < shown'[i][2]
      <4>1. CASE i \in 1 .. Len(shown)
        <5>1. i > 1 => i - 1 \in 1 .. Len(shown)
          BY <2>7, <4>1
        <5> QED BY <2>7, <3>1, <3>2, <4>1, <5>1 DEF OrderInv
      <4>2. CASE i = Len(shown) + 1
        <5>1. i > 1 => i - 1 \in 1 .. Len(shown)
          BY <2>7, <4>2
        <5> QED BY <2>7, <3>5, <4>2, <5>1
      <4> QED BY <3>6, <4>1, <4>2
    <3>8. OrderInv'
      BY <2>1, <3>2, <3>4, <3>7 DEF OrderInv, Present, engine
    <3> QED BY <3>3, <3>8
  <2> QED BY <2>8, <2>9, <2>10 DEF TuiInv
<1>2. CASE FinishView(j) \/ LoseMessage(j)
  <2>1. /\ busy = NoJob /\ chain[j].at = "holding"
        /\ chain' = [chain EXCEPT ![j] = Ended(j)]
        /\ UNCHANGED <<keys, stream, canceller, shown, busy, quit, engine, channel, escaped>>
    BY <1>2 DEF FinishView, LoseMessage, Idle, view
  <2>2. \/ /\ chain[j].msg = 0 /\ running' = FALSE /\ lost' = lost
           /\ cancelled' = cancelled \cup ({canceller} \ {NoJob})
        \/ running' = running /\ cancelled' = cancelled /\ lost' = lost \cup {chain[j].on}
    BY <1>2 DEF FinishView, LoseMessage, view
  <2>3. Ended(j) \in Command /\ Ended(j).at = "none"
    BY ResultsAssumption DEF Ended, Command
  <2>4. /\ chain' \in [Job -> Command] /\ chain'[j] = Ended(j)
        /\ \A i \in Job \ {j} : chain'[i] = chain[i]
    BY <2>1, <2>3 DEF TuiInv, TuiTypeOK
  <2>5. TuiTypeOK' /\ ScanInv'
    <3>1. chain[j].on \in Job
      BY DEF TuiInv, TuiTypeOK, Command
    <3>2. running' \in BOOLEAN /\ lost' \subseteq Job /\ cancelled' \subseteq Job
      BY <2>2, <3>1 DEF TuiInv, TuiTypeOK
    <3>3. TuiTypeOK'
      BY <2>1, <2>4, <3>2 DEF TuiInv, TuiTypeOK, keys, engine
    <3>4. ScanInv'
      BY <2>1, <2>2, <2>3, <2>4 DEF TuiInv, ScanInv
    <3> QED BY <3>3, <3>4
  <2>6. ChannelInv'
    BY <2>1 DEF TuiInv, ChannelInv, engine
  <2>7. ASSUME escaped' = {}
        PROVE  CommandInv' /\ OrderInv' /\ (quit \/ cancelled' \subseteq finished)
    <3>1. CommandInv /\ OrderInv /\ CancelsOnlyEnded
      BY <2>1, <2>7 DEF TuiInv
    <3>2. \A i \in Job : chain'[i].at = "none"
      BY <2>1, <2>3, <2>4, <3>1 DEF CommandInv
    <3>3. CommandInv' /\ OrderInv'
      BY <2>1, <2>2, <3>1, <3>2 DEF CommandInv, OrderInv, Present, engine
    <3>4. chain[j].msg = 0 => canceller \in finished
      BY <2>1, <3>1 DEF CommandInv, Present
    <3> QED BY <2>1, <2>2, <2>7, <3>1, <3>3, <3>4 DEF CancelsOnlyEnded
  <2>8. CancelsOnlyEnded'
    BY <2>1, <2>7 DEF CancelsOnlyEnded, engine
  <2> QED BY <2>5, <2>6, <2>7, <2>8 DEF TuiInv
<1> QED BY <1>1, <1>2 DEF Handle

\* The invariant of the dashboard.
THEOREM TuiInvariant == TuiSpec => []TuiInv
<1>1. TuiInit => TuiInv
  <2> SUFFICES ASSUME TuiInit PROVE TuiInv
    OBVIOUS
  <2> USE DEF TuiInit, tabHosts, tabAlerts, tabScan, tabQuery, Tab
  <2>1. << >> \in Seq(1 .. MaxResults) /\ << >> \in Seq(Job \X (1 .. MaxResults)) /\ Len(<< >>) = 0
    BY EmptySeq
  <2>2. \A j \in Job : Ended(j) \in Command /\ Ended(j).at = "none"
    BY ResultsAssumption DEF Ended, Command
  <2>3. TuiTypeOK
    <3>1. tab \in Tab /\ focus \in 0 .. 4 /\ mode \in [{tabHosts, tabAlerts} -> Mode]
      BY ModeAssumption
    <3>2. /\ sent \in [Job -> 0 .. MaxResults] /\ channel \in [Job -> Seq(1 .. MaxResults)]
          /\ chain \in [Job -> Command]
      BY <2>1, <2>2, ResultsAssumption
    <3> QED BY <2>1, <3>1, <3>2 DEF TuiTypeOK
  <2>4. ChannelInv /\ ScanInv /\ CancelsOnlyEnded
    BY <2>1, <2>2 DEF ChannelInv, ScanInv, CancelsOnlyEnded
  <2>5. CommandInv /\ OrderInv
    BY <2>1, <2>2 DEF CommandInv, OrderInv
  <2> QED BY <2>3, <2>4, <2>5 DEF TuiInv
<1>2. TuiInv /\ [TuiNext]_tuiVars => TuiInv'
  <2> SUFFICES ASSUME TuiInv, [TuiNext]_tuiVars PROVE TuiInv'
    OBVIOUS
  <2>1. CASE UNCHANGED tuiVars
    <3>1. UNCHANGED <<keys, view, quit, engine, channel, cancelled, chain, escaped, lost>>
      BY <2>1 DEF tuiVars
    <3>2. TuiTypeOK'
      BY <3>1 DEF TuiInv, TuiTypeOK, keys, view, engine
    <3> QED BY <3>1, <3>2, TuiFrame
  <2>2. ASSUME NEW j \in Job,
               SubscribeView(j) \/ PublishResult(j) \/ EndScan(j) \/ Pump(j) \/ Handle(j)
        PROVE  TuiInv'
    BY <2>2, SubscribeViewStep, PublishResultStep, EndScanStep, PumpStep, HandleStep
  <2> QED BY <2>1, <2>2, KeyStep DEF TuiNext
<1> QED BY <1>1, <1>2, PTL DEF TuiSpec

\* Every reachable state of the dashboard is well typed.
THEOREM TuiTypes == TuiSpec => []TuiTypeOK
BY TuiInvariant, PTL DEF TuiInv

\* Without esc, the list has the results of the present scan, each once and in
\* order, whatever tabs were switched and messages lost.
THEOREM TuiShowsPresent == TuiSpec => []ShownOfCurrent
<1>1. TuiInv => ShownOfCurrent
  BY DEF TuiInv, OrderInv, ShownOfCurrent, Present
<1> QED BY <1>1, TuiInvariant, PTL

\* Without esc, the view only cancels scans that have ended.
THEOREM TuiCancelsEnded == TuiSpec => []CancelsOnlyEnded
BY TuiInvariant, PTL DEF TuiInv

-----------------------------------------------------------------------------
(***************************************************************************)
(* The channel of the dashboard is one of the same kind                    *)
(***************************************************************************)

\* The channel of a scan is closed only after its end, and the view subscribes to
\* a scan that it started, once.
LineInv ==
  /\ \A j \in finished : scan[j] = "done"
  /\ \A j \in subscribed \cup finished : scan[j] # "none" /\ busy # j
  /\ busy # NoJob => scan[busy] # "none"

\* What happens to the channel of a scan, in the words of the dashboard.
LEMMA FeedOfScan ==
  ASSUME NEW j \in Job
  PROVE  /\ /\ sent'[j] = sent[j] /\ TuiLine(j)' = TuiLine(j) /\ channel'[j] = channel[j]
            /\ scan'[j] = "done" <=> scan[j] = "done"
            => TuiFeed!Rest(j)
         /\ /\ scan[j] # "done" /\ scan'[j] = "done"
            /\ sent'[j] = sent[j] /\ channel'[j] = channel[j]
            /\ TuiLine(j)' = IF TuiLine(j) = "open" THEN "closed" ELSE TuiLine(j)
            => TuiFeed!End(j)
         /\ /\ scan[j] # "done" /\ scan'[j] # "done"
            /\ TuiLine(j) # "closed" /\ TuiLine(j)' = TuiLine(j)
            /\ sent'[j] = sent[j] + 1
            /\ channel'[j] = IF TuiLine(j) = "open" /\ Len(channel[j]) < ChanCap
                             THEN Append(channel[j], sent'[j]) ELSE channel[j]
            => TuiFeed!Publish(j)
         /\ /\ sent'[j] = sent[j] /\ TuiLine(j) = "none" /\ TuiLine(j)' = "open"
            /\ scan'[j] = "done" <=> scan[j] = "done"
            /\ channel'[j] = channel[j]
            => TuiFeed!Subscribe(j)
         /\ /\ sent'[j] = sent[j] /\ TuiLine(j)' = TuiLine(j)
            /\ scan'[j] = "done" <=> scan[j] = "done"
            /\ channel[j] # << >> /\ channel'[j] = Tail(channel[j])
            => TuiFeed!Receive(j)
<1> HIDE DEF TuiLine
<1> QED BY DEF TuiFeed!Rest, TuiFeed!End, TuiFeed!Publish, TuiFeed!Subscribe, TuiFeed!Receive

\* A step that does not touch any channel, nor ends a scan.
LEMMA ViewRests ==
  ASSUME UNCHANGED <<sent, channel, subscribed, finished>>,
         \A j \in Job : scan'[j] = "done" <=> scan[j] = "done"
  PROVE  TuiFeed!Next
<1>1. ASSUME NEW j \in Job
      PROVE  TuiFeed!Rest(j)
  <2>1. TuiLine(j)' = TuiLine(j)
    BY DEF TuiLine
  <2> QED BY <2>1, FeedOfScan
<1> QED BY <1>1 DEF TuiFeed!Next

\* One step of the view or the engine, for the channel of each scan.
LEMMA ViewFeedStep ==
  ASSUME TuiTypeOK, LineInv, [TuiNext]_tuiVars
  PROVE  LineInv' /\ TuiFeed!Next
<1>1. CASE UNCHANGED <<engine, channel, busy>>
  <2>1. UNCHANGED <<scan, sent, channel, subscribed, finished, busy>>
    BY <1>1 DEF engine
  <2> QED BY <2>1, ViewRests DEF LineInv
<1>2. ASSUME NEW j \in Job, StartKey(j)
      PROVE  LineInv' /\ TuiFeed!Next
  <2>1. /\ UNCHANGED <<sent, channel, subscribed, finished>> /\ busy' = j
        /\ scan[j] = "none" /\ scan' = [scan EXCEPT ![j] = "running"]
    BY <1>2 DEF StartKey
  <2>2. LineInv'
    BY <2>1 DEF LineInv, TuiTypeOK
  <2>3. \A i \in Job : scan'[i] = "done" <=> scan[i] = "done"
    BY <2>1 DEF TuiTypeOK
  <2> QED BY <2>1, <2>2, <2>3, ViewRests
<1>3. ASSUME NEW j \in Job, SubscribeView(j)
      PROVE  LineInv' /\ TuiFeed!Next
  <2>1. /\ UNCHANGED <<sent, channel, scan, finished>> /\ busy = j /\ busy' = NoJob
        /\ subscribed' = subscribed \cup {j}
    BY <1>3 DEF SubscribeView
  <2>2. LineInv'
    BY <2>1, NoJobAssumption DEF LineInv, TuiTypeOK
  <2>3. ASSUME NEW i \in Job
        PROVE  TuiFeed!Subscribe(i) \/ TuiFeed!Rest(i)
    <3>1. CASE i = j
      <4>1. TuiLine(i) = "none" /\ TuiLine(i)' = "open"
        BY <2>1, <3>1 DEF LineInv, TuiLine
      <4> QED BY <2>1, <4>1, FeedOfScan
    <3>2. CASE i # j
      <4>1. TuiLine(i)' = TuiLine(i)
        BY <2>1, <3>2 DEF TuiLine
      <4> QED BY <2>1, <4>1, FeedOfScan
    <3> QED BY <3>1, <3>2
  <2> QED BY <2>2, <2>3 DEF TuiFeed!Next
<1>4. ASSUME NEW j \in Job, EndScan(j)
      PROVE  LineInv' /\ TuiFeed!Next
  <2>1. /\ UNCHANGED <<sent, channel, busy>> /\ scan[j] = "running"
        /\ scan' = [scan EXCEPT ![j] = "done"]
        /\ finished' = finished \cup ({j} \cap subscribed) /\ subscribed' = subscribed \ {j}
    BY <1>4 DEF EndScan, view
  <2>2. LineInv'
    BY <2>1 DEF LineInv, TuiTypeOK
  <2>3. ASSUME NEW i \in Job
        PROVE  TuiFeed!End(i) \/ TuiFeed!Rest(i)
    <3>1. CASE i = j
      <4>1. TuiLine(i)' = IF TuiLine(i) = "open" THEN "closed" ELSE TuiLine(i)
        BY <2>1, <3>1 DEF LineInv, TuiLine
      <4>2. scan[i] # "done" /\ scan'[i] = "done"
        BY <2>1, <3>1 DEF TuiTypeOK
      <4> QED BY <2>1, <4>1, <4>2, FeedOfScan
    <3>2. CASE i # j
      <4>1. TuiLine(i)' = TuiLine(i) /\ scan'[i] = scan[i]
        BY <2>1, <3>2 DEF TuiLine, TuiTypeOK
      <4> QED BY <2>1, <4>1, FeedOfScan
    <3> QED BY <3>1, <3>2
  <2> QED BY <2>2, <2>3 DEF TuiFeed!Next
<1>5. ASSUME NEW j \in Job, PublishResult(j)
      PROVE  LineInv' /\ TuiFeed!Next
  <2>1. /\ UNCHANGED <<scan, subscribed, finished, busy>> /\ scan[j] = "running"
        /\ sent' = [sent EXCEPT ![j] = @ + 1]
        /\ channel' = IF j \in subscribed /\ Len(channel[j]) < ChanCap
                      THEN [channel EXCEPT ![j] = Append(@, sent[j] + 1)] ELSE channel
    BY <1>5 DEF PublishResult, view
  <2>2. LineInv'
    BY <2>1 DEF LineInv
  <2>3. ASSUME NEW i \in Job
        PROVE  TuiFeed!Publish(i) \/ TuiFeed!Rest(i)
    <3>1. TuiLine(i)' = TuiLine(i)
      BY <2>1 DEF TuiLine
    <3>2. CASE i = j
      <4>1. /\ TuiLine(i) # "closed" /\ (TuiLine(i) = "open" <=> j \in subscribed)
            /\ scan[i] # "done" /\ scan'[i] # "done"
        BY <2>1, <3>2 DEF LineInv, TuiLine
      <4>2. sent'[i] = sent[i] + 1
        BY <2>1, <3>2 DEF TuiTypeOK
      <4>3. channel'[i] = IF TuiLine(i) = "open" /\ Len(channel[i]) < ChanCap
                          THEN Append(channel[i], sent'[i]) ELSE channel[i]
        BY <2>1, <3>2, <4>1, <4>2 DEF TuiTypeOK
      <4> QED BY <3>1, <4>1, <4>2, <4>3, FeedOfScan
    <3>3. CASE i # j
      <4>1. sent'[i] = sent[i] /\ channel'[i] = channel[i]
        BY <2>1, <3>3 DEF TuiTypeOK
      <4> QED BY <2>1, <3>1, <4>1, FeedOfScan
    <3> QED BY <3>2, <3>3
  <2> QED BY <2>2, <2>3 DEF TuiFeed!Next
<1>6. ASSUME NEW j \in Job, Pump(j)
      PROVE  LineInv' /\ TuiFeed!Next
  <2> DEFINE k == chain[j].on
  <2>1. UNCHANGED <<scan, sent, subscribed, finished, busy>>
    BY <1>6 DEF Pump, view, engine
  <2>2. CASE UNCHANGED channel
    BY <1>1, <2>1, <2>2 DEF engine
  <2>3. CASE channel[k] # << >> /\ channel' = [channel EXCEPT ![k] = Tail(@)]
    <3>1. k \in Job
      BY DEF TuiTypeOK, Command
    <3> HIDE DEF k
    <3>2. ASSUME NEW i \in Job
          PROVE  TuiFeed!Receive(i) \/ TuiFeed!Rest(i)
      <4>1. TuiLine(i)' = TuiLine(i)
        BY <2>1 DEF TuiLine
      <4>2. channel'[i] = IF i = k THEN Tail(channel[i]) ELSE channel[i]
        BY <2>3, <3>1 DEF TuiTypeOK
      <4> QED BY <2>1, <2>3, <4>1, <4>2, FeedOfScan
    <3>3. LineInv'
      BY <2>1 DEF LineInv
    <3> QED BY <3>2, <3>3 DEF TuiFeed!Next
  <2> QED BY <1>6, <2>2, <2>3 DEF Pump
<1>7. ASSUME NEW j \in Job, Handle(j)
      PROVE  LineInv' /\ TuiFeed!Next
  BY <1>1, <1>7 DEF Handle, ShowResult, FinishView, LoseMessage, view
<1>8. ASSUME NEW t \in Tab, SwitchTab(t)
      PROVE  LineInv' /\ TuiFeed!Next
  BY <1>1, <1>8 DEF SwitchTab, view
<1>9. ASSUME NEW m \in Mode, TableKey(m)
      PROVE  LineInv' /\ TuiFeed!Next
  BY <1>1, <1>9 DEF TableKey, view
<1>10. CASE CtrlC \/ KeyQ \/ FocusKey \/ StartFails \/ Escape \/ UNCHANGED tuiVars
  BY <1>1, <1>10 DEF CtrlC, KeyQ, FocusKey, StartFails, Escape, tuiVars, view
<1> QED BY <1>2, <1>3, <1>4, <1>5, <1>6, <1>7, <1>8, <1>9, <1>10 DEF TuiNext, Key

\* The dashboard's channels implement JobFeed as those of the registry's clients
\* do: the two models have one contract between engine and follower.
THEOREM TuiServesView == TuiSpec => ServesView
<1>1. TuiInit => LineInv /\ TuiFeed!Init
  BY DEF TuiInit, LineInv, TuiFeed!Init, TuiLine
<1>2. TuiInv => TuiTypeOK
  BY DEF TuiInv
<1>3. TuiTypeOK /\ LineInv /\ [TuiNext]_tuiVars => LineInv' /\ [TuiFeed!Next]_(TuiFeed!feed)
  BY ViewFeedStep
<1> QED BY <1>1, <1>2, <1>3, TuiInvariant, PTL DEF TuiSpec, ServesView, TuiFeed!Spec
=============================================================================
