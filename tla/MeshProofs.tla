----------------------------- MODULE MeshProofs ----------------------------
(***************************************************************************)
(* The safety properties of the gossip mesh hold for any number of nodes,  *)
(* shares, hops and packets in flight.  They follow from one invariant.    *)
(***************************************************************************)
EXTENDS Mesh, TLAPS

\* A packet that a node sends to itself is its own, and a share names the node
\* that broadcast it.
NetInv ==
  \A p \in net :
    /\ p.src = p.dst => p.node = p.src
    /\ p.type = "share" => p.id \in Share /\ origin[p.id] = p.node

\* As long as a share that a node has taken is in flight, the node remembers it.
Remembered(n, i) == i \in seen[n] \/ \A p \in net : p.type = "share" => p.id # i

DeliveredInv ==
  \A n \in Node, i \in Share :
    /\ delivered[n][i] \in {0, 1}
    /\ delivered[n][i] = 1 => origin[i] \notin {n, NoAddr} /\ Remembered(n, i)

MeshInv == TypeOK /\ NeverOwnPeer /\ NetInv /\ DeliveredInv

-----------------------------------------------------------------------------
\* sendTo adds at most the given packets.
LEMMA SendAdds ==
  ASSUME NEW kept, NEW packets, Send(kept, packets)
  PROVE  net' \subseteq kept \cup packets
BY DEF Send

\* The addresses of a peer table without the node are addresses of other nodes.
LEMMA AddressesOfOthers ==
  ASSUME NEW n \in Node, NEW table \in [Node -> Node \cup {NoAddr}],
         \A id \in Node : table[id] # n
  PROVE  Addresses(table) \subseteq Node \ {n}
BY DEF Addresses, Known

\* What forward sends: well-typed packets to other nodes that keep the
\* identifier of the message and of its origin.
LEMMA ForwardSends ==
  ASSUME NEW n \in Node, NEW table \in [Node -> Node \cup {NoAddr}],
         \A id \in Node : table[id] # n,
         NEW from \in Node, NEW i \in Share, NEW ttl \in 0 .. TTL, NEW except,
         NEW p \in Forward(n, table, from, i, ttl, except)
  PROVE  /\ p \in Packet
         /\ p.src # p.dst
         /\ p.type = "share" /\ p.id = i /\ p.node = from
<1>1. PICK a \in Addresses(table) \ {except} :
        p = [type |-> "share", node |-> from, id |-> i, ttl |-> ttl, src |-> n, dst |-> a]
  BY DEF Forward
<1>2. a \in Node /\ a # n
  BY <1>1, AddressesOfOthers
<1> QED BY <1>1, <1>2 DEF Packet

\* Hellos and heartbeats are well typed, carry no share and name their sender.
LEMMA GreetingSends ==
  ASSUME NEW n \in Node, NEW to \in Node, NEW p \in {Hello(n, to), Heartbeat(n, to)}
  PROVE  p \in Packet /\ p.node = p.src /\ p.type # "share"
BY TTLAssumption DEF Hello, Heartbeat, Packet

\* Packets that are no shares and name their sender disturb nothing.
LEMMA GreetingStep ==
  ASSUME MeshInv, NEW more, net' \subseteq net \cup more,
         \A p \in more : p \in Packet /\ p.node = p.src /\ p.type # "share",
         UNCHANGED <<peers, shares>>
  PROVE  MeshInv'
BY DEF MeshInv, TypeOK, NeverOwnPeer, NetInv, DeliveredInv, Remembered, shares

-----------------------------------------------------------------------------
\* The inductive step, one lemma per action: Join ...
LEMMA JoinStep ==
  ASSUME MeshInv, NEW n \in Node, NEW to \in Node, Join(n, to)
  PROVE  MeshInv'
BY SendAdds, GreetingSends, GreetingStep DEF Join

\* ... Broadcast: nobody has taken the new share, and no packet carries it ...
LEMMA BroadcastStep ==
  ASSUME MeshInv, NEW n \in Node, NEW i \in Share, Broadcast(n, i)
  PROVE  MeshInv'
<1> DEFINE new == Forward(n, peers[n], n, i, FirstTTL, NoAddr)
<1>1. net' \subseteq net \cup new
  BY SendAdds DEF Broadcast
<1>2. \A p \in new : p \in Packet /\ p.src # p.dst /\ p.type = "share" /\ p.id = i /\ p.node = n
  BY ForwardSends, TTLAssumption DEF MeshInv, TypeOK, NeverOwnPeer, FirstTTL
<1>3. origin[i] = NoAddr /\ origin' = [origin EXCEPT ![i] = n]
  BY DEF Broadcast
<1>4. \A p \in net : p.type = "share" => p.id # i
  BY <1>3, AddrAssumption DEF MeshInv, TypeOK, NetInv, Packet
<1>5. UNCHANGED <<peers, delivered>> /\ seen' = [seen EXCEPT ![n] = @ \cup {i}]
  BY DEF Broadcast
<1> HIDE DEF new
<1>6. TypeOK'
  BY <1>1, <1>2, <1>3, <1>5 DEF MeshInv, TypeOK
<1>7. NeverOwnPeer'
  BY <1>5 DEF MeshInv, NeverOwnPeer
<1>8. NetInv'
  BY <1>1, <1>2, <1>3, <1>4 DEF MeshInv, TypeOK, NetInv
<1>9. DeliveredInv'
  <2> SUFFICES ASSUME NEW m \in Node, NEW j \in Share
               PROVE  /\ delivered'[m][j] \in {0, 1}
                      /\ delivered'[m][j] = 1 =>
                           origin'[j] \notin {m, NoAddr} /\ Remembered(m, j)'
    BY DEF DeliveredInv
  <2>1. CASE j = i
    BY <2>1, <1>3, <1>5 DEF MeshInv, DeliveredInv
  <2>2. CASE j # i
    BY <2>2, <1>1, <1>2, <1>3, <1>5 DEF MeshInv, TypeOK, DeliveredInv, Remembered
  <2> QED BY <2>1, <2>2
<1> QED BY <1>6, <1>7, <1>8, <1>9 DEF MeshInv

\* ... TakeShare: the node did not have the share, and remembers it from now on ...
LEMMA TakeShareStep ==
  ASSUME MeshInv, NEW n \in Node, NEW p \in net, NEW kept \in SUBSET net,
         p.type = "share", p.node # n, Fresh(n, p), p.dst = n,
         peers' \in [Node -> [Node -> Node \cup {NoAddr}]], NeverOwnPeer',
         TakeShare(n, p, peers'[n], kept)
  PROVE  MeshInv'
<1> DEFINE new == IF HopsLeft(p) THEN Forward(n, peers'[n], p.node, p.id, p.ttl - 1, p.src) ELSE {}
<1>1. net' \subseteq net \cup new
  BY SendAdds DEF TakeShare
<1>2. p \in Packet /\ p.id \in Share /\ p.node \in Node /\ origin[p.id] = p.node
  BY DEF MeshInv, TypeOK, NetInv, Packet
<1>3. \A q \in new : q \in Packet /\ q.src # q.dst /\ q.type = "share" /\ q.id = p.id /\ q.node = p.node
  <2>1. CASE HopsLeft(p)
    <3>1. p.ttl - 1 \in 0 .. TTL
      BY <2>1, <1>2, TTLAssumption DEF HopsLeft, Packet
    <3>2. peers'[n] \in [Node -> Node \cup {NoAddr}] /\ \A id \in Node : peers'[n][id] # n
      BY DEF NeverOwnPeer
    <3> QED BY <2>1, <3>1, <3>2, <1>2, ForwardSends
  <2>2. CASE ~HopsLeft(p)
    BY <2>2
  <2> QED BY <2>1, <2>2
<1>4. /\ seen' = [seen EXCEPT ![n] = @ \cup {p.id}]
      /\ delivered' \in {delivered, [delivered EXCEPT ![n][p.id] = @ + 1]}
      /\ UNCHANGED origin
  BY DEF TakeShare
<1>5. delivered[n][p.id] = 0
  BY <1>2 DEF MeshInv, DeliveredInv, Remembered, Fresh
<1> HIDE DEF new
<1>6. TypeOK'
  <2>1. net' \subseteq Packet
    BY <1>1, <1>3 DEF MeshInv, TypeOK
  <2>2. seen' \in [Node -> SUBSET Share] /\ origin' \in [Share -> Node \cup {NoAddr}]
    BY <1>2, <1>4 DEF MeshInv, TypeOK
  <2>3. delivered' \in [Node -> [Share -> Nat]]
    <3> DEFINE row == [delivered[n] EXCEPT ![p.id] = @ + 1]
    <3>1. delivered \in [Node -> [Share -> Nat]]
      BY DEF MeshInv, TypeOK
    <3>2. row \in [Share -> Nat]
      BY <3>1, <1>2
    <3>3. delivered' = delivered \/ delivered' = [delivered EXCEPT ![n] = row]
      BY <1>4
    <3> HIDE DEF row
    <3> QED BY <3>1, <3>2, <3>3
  <2> QED BY <2>1, <2>2, <2>3 DEF TypeOK
<1>7. NetInv'
  BY <1>1, <1>2, <1>3, <1>4 DEF MeshInv, NetInv
<1>8. DeliveredInv'
  <2> SUFFICES ASSUME NEW m \in Node, NEW j \in Share
               PROVE  /\ delivered'[m][j] \in {0, 1}
                      /\ delivered'[m][j] = 1 =>
                           origin'[j] \notin {m, NoAddr} /\ Remembered(m, j)'
    BY DEF DeliveredInv
  <2>1. CASE m = n /\ j = p.id
    BY <2>1, <1>2, <1>4, <1>5, AddrAssumption DEF MeshInv, TypeOK, Remembered
  <2>2. CASE m # n \/ j # p.id
    <3>1. delivered'[m][j] = delivered[m][j] /\ seen[m] \subseteq seen'[m]
      BY <2>2, <1>2, <1>4 DEF MeshInv, TypeOK
    <3>2. j = p.id => ~ \A q \in net : q.type = "share" => q.id # j
      OBVIOUS
    <3> QED BY <3>1, <3>2, <1>1, <1>3, <1>4 DEF MeshInv, DeliveredInv, Remembered
  <2> QED BY <2>1, <2>2
<1> QED BY <1>6, <1>7, <1>8 DEF MeshInv

\* ... HandleMsg: the peer entered is another node, at another address ...
LEMMA HandleStep ==
  ASSUME MeshInv, NEW p \in net, NEW kept \in SUBSET net, HandleMsg(p.dst, p, kept)
  PROVE  MeshInv'
<1> DEFINE n == p.dst
<1>1. p \in Packet /\ n \in Node /\ p.node \in Node /\ p.src \in Node
  BY DEF MeshInv, TypeOK, Packet
<1>2. CASE IsOwn(n, p)
  <2>1. net' \subseteq net /\ UNCHANGED <<peers, shares>>
    BY <1>2 DEF HandleMsg
  <2> QED BY <2>1
          DEF MeshInv, TypeOK, NeverOwnPeer, NetInv, DeliveredInv, Remembered, shares
<1>3. CASE ~IsOwn(n, p)
  <2>1. peers' = [peers EXCEPT ![n][p.node] = p.src]
    BY <1>3 DEF HandleMsg
  <2>2. p.node # n /\ p.src # n
    BY <1>3 DEF IsOwn, MeshInv, NetInv
  <2>3. peers' \in [Node -> [Node -> Node \cup {NoAddr}]] /\ NeverOwnPeer'
    BY <2>1, <2>2, <1>1, AddrAssumption DEF MeshInv, TypeOK, NeverOwnPeer
  <2>4. CASE p.type = "hello" /\ Send(kept, {Hello(n, p.src)}) /\ UNCHANGED shares
    <3>1. net' \subseteq net \cup {Hello(n, p.src)}
      BY <2>4, SendAdds
    <3>2. Hello(n, p.src) \in Packet /\ Hello(n, p.src).node = Hello(n, p.src).src
            /\ Hello(n, p.src).type # "share"
      BY <1>1, GreetingSends
    <3> QED BY <3>1, <3>2, <2>3, <2>4
            DEF MeshInv, TypeOK, NetInv, DeliveredInv, Remembered, shares
  <2>5. CASE net' = kept /\ UNCHANGED shares
    BY <2>3, <2>5 DEF MeshInv, TypeOK, NetInv, DeliveredInv, Remembered, shares
  <2>6. CASE p.type = "share" /\ Fresh(n, p) /\ TakeShare(n, p, peers'[n], kept)
    BY <2>6, <2>2, <2>3, <1>1, TakeShareStep
  <2> QED BY <2>4, <2>5, <2>6, <1>3 DEF HandleMsg
<1> QED BY <1>2, <1>3

\* ... heartbeat, eviction and expiry: what is in flight is not forgotten ...
LEMMA TickStep ==
  ASSUME MeshInv, NEW n \in Node, Tick(n)
  PROVE  MeshInv'
<1> DEFINE more == {Heartbeat(n, a) : a \in Addresses(peers[n])}
<1>1. net' \subseteq net \cup more /\ UNCHANGED <<origin, delivered>>
  BY SendAdds DEF Tick
<1>2. \A p \in more : p \in Packet /\ p.node = p.src /\ p.type # "share"
  <2>1. Addresses(peers[n]) \subseteq Node
    BY AddressesOfOthers DEF MeshInv, TypeOK, NeverOwnPeer
  <2> QED BY <2>1, GreetingSends
<1>3. PICK silent \in SUBSET Known(peers[n]) :
        peers' = [peers EXCEPT ![n] = [id \in Node |-> IF id \in silent THEN NoAddr ELSE @[id]]]
  BY DEF Tick
<1>4. PICK old \in SUBSET {i \in seen[n] : \A p \in net : p.id # i} :
        seen' = [seen EXCEPT ![n] = @ \ old]
  BY DEF Tick
<1> HIDE DEF more
<1>5. TypeOK'
  <2>1. net' \subseteq Packet
    BY <1>1, <1>2 DEF MeshInv, TypeOK
  <2>2. peers' \in [Node -> [Node -> Node \cup {NoAddr}]]
    BY <1>3 DEF MeshInv, TypeOK
  <2>3. seen' \in [Node -> SUBSET Share]
    BY <1>4 DEF MeshInv, TypeOK
  <2> QED BY <2>1, <2>2, <2>3, <1>1 DEF MeshInv, TypeOK
<1>6. NeverOwnPeer'
  BY <1>3, AddrAssumption DEF MeshInv, TypeOK, NeverOwnPeer
<1>7. NetInv'
  BY <1>1, <1>2 DEF MeshInv, NetInv
<1>8. DeliveredInv'
  BY <1>1, <1>2, <1>4 DEF MeshInv, TypeOK, DeliveredInv, Remembered
<1> QED BY <1>5, <1>6, <1>7, <1>8 DEF MeshInv

\* ... and Restart, which forgets the deliveries together with the memory of them.
LEMMA RestartStep ==
  ASSUME MeshInv, NEW n \in Node, Restart(n)
  PROVE  MeshInv'
<1>1. TypeOK'
  BY DEF Restart, MeshInv, TypeOK
<1>2. NeverOwnPeer'
  BY AddrAssumption DEF Restart, MeshInv, TypeOK, NeverOwnPeer
<1>3. NetInv' /\ DeliveredInv'
  BY DEF Restart, MeshInv, TypeOK, NetInv, DeliveredInv, Remembered
<1> QED BY <1>1, <1>2, <1>3 DEF MeshInv

-----------------------------------------------------------------------------
\* The invariant holds in every reachable state.
THEOREM MeshInvariant == Spec => []MeshInv
<1>1. Init => MeshInv
  BY AddrAssumption DEF Init, MeshInv, TypeOK, NeverOwnPeer, NetInv, DeliveredInv
<1>2. MeshInv /\ [Next]_vars => MeshInv'
  <2> SUFFICES ASSUME MeshInv, [Next]_vars PROVE MeshInv'
    OBVIOUS
  <2>1. CASE \E n, to \in Node : Join(n, to)
    BY <2>1, JoinStep
  <2>2. CASE \E n \in Node, i \in Share : Broadcast(n, i)
    BY <2>2, BroadcastStep
  <2>3. CASE \E p \in net : Receive(p)
    BY <2>3, HandleStep DEF Receive
  <2>4. CASE \E n \in Node : Tick(n) \/ Restart(n)
    BY <2>4, TickStep, RestartStep
  <2>5. CASE UNCHANGED vars
    BY <2>5 DEF vars, shares, MeshInv, TypeOK, NeverOwnPeer, NetInv, DeliveredInv, Remembered
  <2> QED BY <2>1, <2>2, <2>3, <2>4, <2>5 DEF Next
<1> QED BY <1>1, <1>2, PTL DEF Spec

\* Every reachable state of the mesh is well typed: in particular no packet has
\* fewer than no hops left.
THEOREM MeshTypes == Spec => []TypeOK
BY MeshInvariant, PTL DEF MeshInv

\* A node never becomes a peer of itself, for any number of nodes and relays.
THEOREM MeshNotReflexive == Spec => []NeverOwnPeer
BY MeshInvariant, PTL DEF MeshInv

\* A share is delivered at most once to each node and never to its origin, for
\* any number of nodes, hops, repeated packets, expiries and restarts.
THEOREM MeshDeliversOnce == Spec => []DeliveredOnce
<1>1. MeshInv => DeliveredOnce
  BY DEF MeshInv, DeliveredInv, DeliveredOnce
<1> QED BY <1>1, MeshInvariant, PTL
=============================================================================
