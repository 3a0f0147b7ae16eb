\* Three nodes, one share that may take two hops, at most two packets in flight.
SPECIFICATION Spec
CONSTANTS
  Node = {n1, n2, n3}
  NoAddr = NoAddr
  Share = {i1}
  TTL = 1
  MaxNet = 2
SYMMETRY Symmetry
INVARIANTS
  TypeOK
  DeliveredOnce
  NeverOwnPeer
CHECK_DEADLOCK FALSE
