------------------------------ MODULE JobFeed ------------------------------
(***************************************************************************)
(* What Engine.Subscribe promises everyone who follows a scan, over a      *)
(* WebSocket or on the dashboard: from then on every result of the job is  *)
(* put into the follower's channel as it is published, and left out only   *)
(* when the channel is full; the end of the scan closes the channel, and   *)
(* nothing comes after it.  A follower that subscribes after the end waits *)
(* on a channel that nobody closes.                                        *)
(***************************************************************************)
EXTENDS JobChannels

CONSTANT Follower

VARIABLES
  published,   \* published[f]: the results of the job that f is to follow
  over,        \* over[f]: the scan of that job has ended
  line,        \* line[f]: none, open or closed, the channel of f
  queue        \* queue[f]: what is in it

feed == <<published, over, line, queue>>

Init ==
  /\ published = [f \in Follower |-> 0]
  /\ over = [f \in Follower |-> FALSE]
  /\ line = [f \in Follower |-> "none"]
  /\ queue = [f \in Follower |-> << >>]

Publish(f) ==
  /\ ~over[f] /\ line[f] # "closed"
  /\ published'[f] = published[f] + 1
  /\ queue'[f] = IF line[f] = "open" /\ Len(queue[f]) < ChanCap
                 THEN Append(queue[f], published'[f]) ELSE queue[f]
  /\ over'[f] = over[f] /\ line'[f] = line[f]

End(f) ==
  /\ ~over[f] /\ over'[f]
  /\ line'[f] = IF line[f] = "open" THEN "closed" ELSE line[f]
  /\ published'[f] = published[f] /\ queue'[f] = queue[f]

Subscribe(f) ==
  /\ line[f] = "none" /\ line'[f] = "open"
  /\ published'[f] = published[f] /\ over'[f] = over[f] /\ queue'[f] = queue[f]

Receive(f) ==
  /\ queue[f] # << >> /\ queue'[f] = Tail(queue[f])
  /\ published'[f] = published[f] /\ over'[f] = over[f] /\ line'[f] = line[f]

Rest(f) ==
  /\ published'[f] = published[f] /\ over'[f] = over[f]
  /\ line'[f] = line[f] /\ queue'[f] = queue[f]

\* A step of the engine may concern several followers.
Next == \A f \in Follower : Publish(f) \/ End(f) \/ Subscribe(f) \/ Receive(f) \/ Rest(f)

Spec == Init /\ [][Next]_feed
=============================================================================
