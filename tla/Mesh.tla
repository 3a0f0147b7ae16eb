-------------------------------- MODULE Mesh -------------------------------
(***************************************************************************)
(* The gossip mesh of internal/mesh/mesh.go: hellos, heartbeats and shared *)
(* scan results over UDP between nodes that know each other by identifier  *)
(* and address.  The network loses, repeats and reorders packets; nodes    *)
(* restart and forget everything.  The identifier of a node stands for its *)
(* address too, and encryption is left out: every packet opens.            *)
(***************************************************************************)
EXTENDS Integers, FiniteSets

CONSTANTS
  Node,      \* the nodes: identifiers, and the addresses they are bound to
  NoAddr,    \* no entry in a peer table
  Share,     \* the identifiers of broadcast messages (randID)
  TTL,       \* defaultTTL, 3 in the code
  MaxNet     \* the bound of the packets in flight; others are lost

ASSUME AddrAssumption == NoAddr \notin Node
ASSUME TTLAssumption == TTL \in Nat
ASSUME NetAssumption == MaxNet \in Nat

NoShare == "no share"
Packet == [type : {"hello", "heartbeat", "share"}, node : Node, id : Share \cup {NoShare},
           ttl : 0 .. TTL, src : Node, dst : Node]

VARIABLES
  net,       \* the packets in flight
  peers,     \* peers[n][id]: the address n has for peer id
  seen,      \* seen[n]: the identifiers n remembers
  origin,    \* origin[i]: the node that broadcast i, or NoAddr
  delivered  \* delivered[n][i]: how often n put i into its incoming channel

shares == <<seen, origin, delivered>>
vars == <<net, peers, shares>>

Init ==
  /\ net = {}
  /\ peers = [n \in Node |-> [id \in Node |-> NoAddr]]
  /\ seen = [n \in Node |-> {}]
  /\ origin = [i \in Share |-> NoAddr]
  /\ delivered = [n \in Node |-> [i \in Share |-> 0]]

Known(table) == {id \in Node : table[id] # NoAddr}
Addresses(table) == {table[id] : id \in Known(table)}

\* sendTo: some of the packets get lost.
Send(kept, packets) ==
  \E arriving \in SUBSET packets :
    /\ Cardinality(kept \cup arriving) <= MaxNet
    /\ net' = kept \cup arriving

Hello(n, to) ==
  [type |-> "hello", node |-> n, id |-> NoShare, ttl |-> 0, src |-> n, dst |-> to]
Heartbeat(n, to) ==
  [type |-> "heartbeat", node |-> n, id |-> NoShare, ttl |-> 0, src |-> n, dst |-> to]

\* forward: to every address of the peer table but one.  The message keeps the
\* identifier of the node that broadcast it.
Forward(n, table, from, i, ttl, except) ==
  {[type |-> "share", node |-> from, id |-> i, ttl |-> ttl, src |-> n, dst |-> a]
     : a \in Addresses(table) \ {except}}

-----------------------------------------------------------------------------
\* The address to join may be the node's own, from a list common to all nodes.
Join(n, to) ==
  /\ Send(net, {Hello(n, to)})
  /\ UNCHANGED <<peers, shares>>

\* Fault OneMore: the hops are counted from one.
OneMore == TTL + 1
FirstTTL == TTL
Broadcast(n, i) ==
  /\ origin[i] = NoAddr
  /\ origin' = [origin EXCEPT ![i] = n]
  /\ seen' = [seen EXCEPT ![n] = @ \cup {i}]
  /\ Send(net, Forward(n, peers[n], n, i, FirstTTL, NoAddr))
  /\ UNCHANGED <<peers, delivered>>

\* handleMsg on a share that is not known yet: it is remembered, put into the
\* incoming channel unless that is full, and forwarded while it has hops left.
\* Fault FreshForRelay: only the direct way from the origin is checked.
FreshForRelay(n, p) == p.id \notin seen[n] \/ p.src # p.node
Fresh(n, p) == p.id \notin seen[n]
HopsLeft(p) == p.ttl > 0
TakeShare(n, p, table, kept) ==
  /\ seen' = [seen EXCEPT ![n] = @ \cup {p.id}]
  /\ delivered' \in {delivered, [delivered EXCEPT ![n][p.id] = @ + 1]}
  /\ Send(kept, IF HopsLeft(p) THEN Forward(n, table, p.node, p.id, p.ttl - 1, p.src) ELSE {})
  /\ UNCHANGED origin

\* handleMsg ignores what the node itself has sent, and otherwise enters the
\* peer named in the message with the address the packet came from.
\* Fault OwnShare: only shares are recognised as one's own.
OwnShare(n, p) == p.type = "share" /\ p.node = n
IsOwn(n, p) == p.node = n
HandleMsg(n, p, kept) ==
  IF IsOwn(n, p)
  THEN net' = kept /\ UNCHANGED <<peers, shares>>
  ELSE /\ peers' = [peers EXCEPT ![n][p.node] = p.src]
       /\ \/ /\ p.type = "hello"
             /\ Send(kept, {Hello(n, p.src)})
             /\ UNCHANGED shares
          \/ /\ p.type = "heartbeat" \/ (p.type = "share" /\ ~Fresh(n, p))
             /\ net' = kept
             /\ UNCHANGED shares
          \/ /\ p.type = "share" /\ Fresh(n, p)
             /\ TakeShare(n, p, peers'[n], kept)

\* readLoop receives a packet, which the network may repeat.
Receive(p) == HandleMsg(p.dst, p, net \ {p}) \/ HandleMsg(p.dst, p, net)

\* heartbeatLoop: a heartbeat to every peer, then the peers that were silent for
\* two minutes are evicted and the identifiers of five minutes ago forgotten.
\* The last message of a peer may have come at any time before; a packet is in
\* flight for less than five minutes.
Tick(n) ==
  /\ Send(net, {Heartbeat(n, a) : a \in Addresses(peers[n])})
  /\ \E silent \in SUBSET Known(peers[n]) :
       peers' = [peers EXCEPT ![n] = [id \in Node |-> IF id \in silent THEN NoAddr ELSE @[id]]]
  /\ \E old \in SUBSET {i \in seen[n] : \A p \in net : p.id # i} :
       seen' = [seen EXCEPT ![n] = @ \ old]
  /\ UNCHANGED <<origin, delivered>>

\* A node stops and starts again under its name, with empty tables.
Restart(n) ==
  /\ peers' = [peers EXCEPT ![n] = [id \in Node |-> NoAddr]]
  /\ seen' = [seen EXCEPT ![n] = {}]
  /\ delivered' = [delivered EXCEPT ![n] = [i \in Share |-> 0]]
  /\ UNCHANGED <<net, origin>>

Next ==
  \/ \E n, to \in Node : Join(n, to)
  \/ \E n \in Node, i \in Share : Broadcast(n, i)
  \/ \E p \in net : Receive(p)
  \/ \E n \in Node : Tick(n) \/ Restart(n)

Spec == Init /\ [][Next]_vars

-----------------------------------------------------------------------------
(***************************************************************************)
(* Properties                                                              *)
(***************************************************************************)

TypeOK ==
  /\ net \subseteq Packet
  /\ peers \in [Node -> [Node -> Node \cup {NoAddr}]]
  /\ seen \in [Node -> SUBSET Share]
  /\ origin \in [Share -> Node \cup {NoAddr}]
  /\ delivered \in [Node -> [Share -> Nat]]

\* Every share is delivered at most once to a node, and never to the node that
\* broadcast it, although packets are repeated, come back along other paths and
\* are forwarded by restarted nodes; expiry of the memory does not undo it.
DeliveredOnce ==
  \A n \in Node, i \in Share : delivered[n][i] <= IF origin[i] = n THEN 0 ELSE 1

\* A node never has itself as a peer, neither its identifier nor its address under
\* another's, although it may be told to join itself, its own messages come back
\* and others' come by relays: it would answer and feed itself for ever.
NeverOwnPeer == \A n, id \in Node : peers[n][id] # n /\ peers[n][n] = NoAddr
=============================================================================
