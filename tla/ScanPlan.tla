------------------------------ MODULE ScanPlan ------------------------------
(***************************************************************************)
(* What a scan will probe: Engine.StartScan reads the target and the ports *)
(* of a request (pkg/iprange), and runScan, when asked to predict, gathers *)
(* what is known of each address (internal/osint) and puts the ports into  *)
(* the order of their scores before it starts the scanner.                 *)
(*                                                                         *)
(* The loops over addresses are stepped, since they may wrap round or run  *)
(* for ever, and so are the loop over the ports and the outer loop of the  *)
(* sort.  The three goroutines of Predict look things up and then change   *)
(* the profile under its mutex, in any order.                              *)
(***************************************************************************)
EXTENDS Naturals, Sequences, FiniteSets, SequencesExt

CONSTANTS
  Bits,         \* the width of an IPv4 address (32)
  Wide,         \* the width of an IPv6 address (128)
  MaxHosts,     \* the most addresses of a range (65536)
  Memory,       \* the addresses that fit into memory
  PortMax,      \* the largest port number (65535)
  Name,         \* the names that reverse DNS and certificate logs know
  Provider,     \* the cloud providers with scores of their own
  NoProvider,
  TopScore,     \* the highest score of the tables (95, in hundredths)
  HostScore,    \* HostScore[n][p]: what the keywords in the name n say of port p
  CloudScore,   \* CloudScore[c][p]: what the provider c says of port p
  Default,      \* Default[p]: the score of a port no source speaks of
  Request       \* the requests of an instance, see RequestAssumption

\* An address is the number of its bits, an IPv6 address with one bit more before
\* them.  The IPv6 addresses ::ffff:a.b.c.d, which Go takes for IPv4, are left out.
Addr == 0 .. 2 ^ Bits - 1 \cup 2 ^ Wide .. 2 ^ Wide + 2 ^ Wide - 1
Six(a) == a >= 2 ^ Wide
Width(a) == IF Six(a) THEN Wide ELSE Bits
Port == 0 .. PortMax
\* A part of a target, or of the ports, as its text says: to and ones are the
\* end of a range and the length of a prefix.  A range of IPv6 addresses is bad.
Part == {p \in [kind : {"single", "cidr", "range", "blank", "bad"}, from : Addr,
                to : Addr, ones : 0 .. Wide] :
           /\ p.ones <= Width(p.from)
           /\ p.kind = "range" => ~Six(p.from) /\ ~Six(p.to)}
PortPart == [kind : {"range", "blank", "bad"}, from : Port, to : Port]

ASSUME SizeAssumption ==
  /\ Bits \in Nat \ {0} /\ Wide \in Nat /\ Bits <= Wide
  /\ MaxHosts \in Nat /\ Memory \in Nat /\ PortMax \in Nat
\* Facts of arithmetic, stated because the proof system knows nothing of powers.
ASSUME PowersOfTwo ==
  \A width \in {Bits, Wide} : \A n \in 0 .. width :
    /\ 2 ^ n \in Nat \ {0}
    /\ 2 ^ width = 2 ^ n * 2 ^ (width - n)
    /\ n = 0 => 2 ^ n = 1
    /\ n = 1 => 2 ^ n = 2
    /\ n > 1 => 2 ^ n >= 4
\* Scores are percentages; no table has one above TopScore.
ASSUME ScoreAssumption ==
  /\ NoProvider \notin Provider /\ TopScore \in Nat
  /\ HostScore \in [Name -> [Port -> 0 .. TopScore]]
  /\ CloudScore \in [Provider -> [Port -> 0 .. TopScore]]
  /\ Default \in [Port -> 0 .. TopScore]
ASSUME RequestAssumption ==
  \A r \in Request : /\ r.target \in Seq(Part) /\ r.ports \in Seq(PortPart)
                     /\ r.predict \in BOOLEAN

VARIABLES
  request,   \* the ScanConfig of the scan
  stage,     \* parse, loop (in a part), ports, list (in a part), predict, gather,
             \* sort, scan; refused, abandoned, dead
  todo,      \* the parts of the target still to be read, the present one first
  cursor,    \* addr of the loop in parseCIDR and parseRange
  chunk,     \* the addresses of the present part
  addrs,     \* the addresses of the target
  spec,      \* the parts of the text of ports still to be read, the present one first
  port,      \* p of the loop in ParsePorts, which is wider than a port
  ports,     \* the ports of the scan
  place,     \* i of the sort in PrioritisePorts, counted from 1
  next,      \* the index of the address to predict for
  profile,   \* the profile being gathered: its names, provider and scores
  source,    \* source[g]: what goroutine g of Predict is doing
  profiles   \* profiles[a]: the profile of address a

parsing == <<todo, cursor, chunk>>
listing == <<spec, port, ports, place>>
osint == <<next, profile, source, profiles>>
planVars == <<request, stage, parsing, addrs, listing, osint>>

Source == {"dns", "asn", "ct"}
\* A score of 0 stands for no entry in PortScores: no source gives a score of 0.
NoScores == [p \in Port |-> 0]
NoProfile == [names |-> {}, provider |-> NoProvider, scores |-> NoScores]
Looking == [at |-> "looking", names |-> {}, provider |-> NoProvider]
Over == [at |-> "over", names |-> {}, provider |-> NoProvider]

PlanInit ==
  /\ request \in Request
  /\ stage = "parse"
  /\ todo = request.target
  /\ cursor = 0 /\ chunk = << >> /\ addrs = << >>
  /\ spec = request.ports /\ port = 0 /\ ports = << >> /\ place = 0
  /\ next = 1 /\ profile = NoProfile
  /\ source = [g \in Source |-> Over]
  /\ profiles = [a \in {} |-> NoProfile]

-----------------------------------------------------------------------------
(* pkg/iprange *)

\* Whether a prefix contains an address.
BlockSize(part) == 2 ^ (Width(part.from) - part.ones)
InBlock(part, a) == a \div BlockSize(part) = part.from \div BlockSize(part)
\* After the last address of its width comes the first one.
LastAddr(a) == IF Six(a) THEN 2 ^ Wide + 2 ^ Wide - 1 ELSE 2 ^ Bits - 1
IncrementIP(a) == IF a # LastAddr(a) THEN a + 1 ELSE IF Six(a) THEN 2 ^ Wide ELSE 0
FirstOf(part) ==
  IF part.kind = "cidr" THEN (part.from \div BlockSize(part)) * BlockSize(part) ELSE part.from

\* parseSingle: an address of its own is taken, a prefix and a range are walked.
BeginPart ==
  /\ stage = "parse" /\ todo # << >>
  /\ LET part == Head(todo) IN
     CASE part.kind = "bad" ->
            stage' = "refused" /\ UNCHANGED <<parsing, addrs>>
       [] part.kind = "blank" ->
            todo' = Tail(todo) /\ UNCHANGED <<stage, cursor, chunk, addrs>>
       [] part.kind = "single" ->
            /\ addrs' = Append(addrs, part.from) /\ todo' = Tail(todo)
            /\ UNCHANGED <<stage, cursor, chunk>>
       [] OTHER ->
            /\ stage' = "loop" /\ cursor' = FirstOf(part) /\ chunk' = << >>
            /\ UNCHANGED <<todo, addrs>>
  /\ UNCHANGED <<request, listing, osint>>

\* The condition of the loops: a prefix contains its end, a range is over after it.
InPart(part) == IF part.kind = "cidr" THEN InBlock(part, cursor) ELSE cursor <= part.to

\* Fault: the range has no limit either.
WalkPartFreely ==
  /\ stage = "loop" /\ InPart(Head(todo))
  /\ chunk' = Append(chunk, cursor)
  /\ cursor' = IncrementIP(cursor)
  /\ stage' = IF Len(addrs) + Len(chunk') >= Memory THEN "dead" ELSE stage
  /\ UNCHANGED <<request, todo, addrs, listing, osint>>

\* One turn of the loop.  Only a range has a limit: a block of more addresses than
\* there is room for gets the process killed for its memory, whatever its family,
\* and so does one that contains every address, since its loop never ends.
WalkPart ==
  /\ stage = "loop" /\ InPart(Head(todo))
  /\ chunk' = Append(chunk, cursor)
  /\ cursor' = IncrementIP(cursor)
  /\ stage' = IF Head(todo).kind = "range" /\ Len(chunk') > MaxHosts THEN "refused"
           ELSE IF Len(addrs) + Len(chunk') >= Memory THEN "dead" ELSE stage
  /\ UNCHANGED <<request, todo, addrs, listing, osint>>

\* parseCIDR leaves out the network and broadcast address of an IPv4 block above /31.
DropEnds(part, s) ==
  IF part.kind = "cidr" /\ ~Six(part.from) /\ part.ones < Bits - 1 /\ Len(s) > 2
  THEN SubSeq(s, 2, Len(s) - 1) ELSE s

EndPart ==
  /\ stage = "loop" /\ ~InPart(Head(todo))
  /\ addrs' = addrs \o DropEnds(Head(todo), chunk)
  /\ todo' = Tail(todo) /\ chunk' = << >> /\ cursor' = 0
  /\ stage' = "parse"
  /\ UNCHANGED <<request, listing, osint>>

\* Every part is read.
EndTarget ==
  /\ stage = "parse" /\ todo = << >>
  /\ stage' = IF addrs = << >> THEN "refused" ELSE "ports"
  /\ UNCHANGED <<request, parsing, addrs, listing, osint>>

\* ParsePorts lists every port once, where it is named first.
IsBad(part) == part.kind = "bad" \/ (part.kind = "range" /\ part.from > part.to)
BeginPorts ==
  /\ stage = "ports" /\ spec # << >>
  /\ LET part == Head(spec) IN
     CASE IsBad(part) ->
            stage' = "refused" /\ UNCHANGED <<spec, port>>
       [] part.kind = "blank" ->
            spec' = Tail(spec) /\ UNCHANGED <<stage, port>>
       [] OTHER ->
            stage' = "list" /\ port' = part.from /\ UNCHANGED spec
  /\ UNCHANGED <<request, parsing, addrs, ports, place, osint>>

AppendNew(s, p) == IF Contains(s, p) THEN s ELSE Append(s, p)
ListPort ==
  /\ stage = "list" /\ port <= Head(spec).to
  /\ ports' = AppendNew(ports, port)
  /\ port' = port + 1
  /\ UNCHANGED <<request, stage, parsing, addrs, spec, place, osint>>

EndList ==
  /\ stage = "list" /\ port > Head(spec).to
  /\ stage' = "ports" /\ spec' = Tail(spec)
  /\ UNCHANGED <<request, parsing, addrs, port, ports, place, osint>>

\* Every part is read.
EndPorts ==
  /\ stage = "ports" /\ spec = << >>
  /\ stage' = IF ports = << >> THEN "refused" ELSE IF request.predict THEN "predict" ELSE "scan"
  /\ UNCHANGED <<request, parsing, addrs, listing, osint>>

-----------------------------------------------------------------------------
(* internal/osint *)

\* Fault: the last source to speak wins.
Override(scores, new) == [p \in Port |-> IF new[p] > 0 THEN new[p] ELSE scores[p]]

\* boostIfHigher, for every port of a table.
Boost(scores, new) == [p \in Port |-> IF new[p] > scores[p] THEN new[p] ELSE scores[p]]

\* Predict starts its goroutines.
BeginPredict ==
  /\ stage = "predict" /\ next <= Len(addrs)
  /\ stage' = "gather"
  /\ profile' = NoProfile
  /\ source' = [g \in Source |-> Looking]
  /\ UNCHANGED <<request, parsing, addrs, listing, next, profiles>>

\* A lookup fails, or brings names or a provider.  The certificate log is asked
\* only when reverse DNS, which its goroutine asks for itself, knows a name.
ReverseLookup ==
  \E names \in SUBSET Name : source' = [source EXCEPT !["dns"] = [@ EXCEPT !.at = "found", !.names = names]]
LookupASN ==
  \E c \in Provider \cup {NoProvider} :
    source' = [source EXCEPT !["asn"] = [@ EXCEPT !.at = "found", !.provider = c]]
QueryCTLogs ==
  \E names \in SUBSET Name : source' = [source EXCEPT !["ct"] = [@ EXCEPT !.at = "found", !.names = names]]
LookUp(g) ==
  /\ stage = "gather" /\ source[g].at = "looking"
  /\ \/ source' = [source EXCEPT ![g] = Over]
     \/ g = "dns" /\ ReverseLookup
     \/ g = "asn" /\ LookupASN
     \/ g = "ct" /\ QueryCTLogs
  /\ UNCHANGED <<request, stage, parsing, addrs, listing, next, profile, profiles>>

\* What a goroutine does to the profile under the mutex: names are added and
\* scored.  The log's are left out when they are already there, and then they are
\* not scored again.
Best(S) == Max(S \cup {0})
Named(f, names) ==
  [f EXCEPT !.names = @ \cup names,
            !.scores = Boost(@, [p \in Port |-> Best({HostScore[n][p] : n \in names})])]
MergeDNS ==
  /\ source["dns"].at = "found"
  /\ profile' = Named(profile, source["dns"].names)
MergeASN ==
  /\ source["asn"].at = "found"
  /\ LET c == source["asn"].provider IN
     profile' = [profile EXCEPT !.provider = c,
                   !.scores = IF c = NoProvider THEN @ ELSE Boost(@, CloudScore[c])]
MergeCT ==
  /\ source["ct"].at = "found"
  /\ profile' = Named(profile, source["ct"].names \ profile.names)
Merge(g) ==
  /\ stage = "gather"
  /\ (g = "dns" /\ MergeDNS) \/ (g = "asn" /\ MergeASN) \/ (g = "ct" /\ MergeCT)
  /\ source' = [source EXCEPT ![g] = Over]
  /\ UNCHANGED <<request, stage, parsing, addrs, listing, next, profiles>>

ApplyDefaults(scores) == [p \in Port |-> IF scores[p] = 0 THEN Default[p] ELSE scores[p]]

\* The WaitGroup is released: the profile is complete.
EndPredict ==
  /\ stage = "gather" /\ \A g \in Source : source[g].at = "over"
  /\ profiles' = [a \in DOMAIN profiles \cup {addrs[next]} |->
                    IF a = addrs[next] THEN [profile EXCEPT !.scores = ApplyDefaults(@)]
                    ELSE profiles[a]]
  /\ next' = next + 1
  /\ stage' = "predict"
  /\ UNCHANGED <<request, parsing, addrs, listing, profile, source>>

\* The context is cancelled between two addresses: runScan returns.
Abandon ==
  /\ stage = "predict" /\ next <= Len(addrs)
  /\ stage' = "abandoned"
  /\ UNCHANGED <<request, parsing, addrs, listing, osint>>

\* The profile of the first address gives the order of the ports for all of them.
FirstScores == profiles[addrs[1]].scores
Prioritise ==
  /\ stage = "predict" /\ next > Len(addrs)
  /\ stage' = IF FirstScores = NoScores THEN "scan" ELSE "sort"
  /\ place' = 2
  /\ UNCHANGED <<request, parsing, addrs, spec, port, ports, osint>>

\* The sequence s with its element at i moved up to k.
MovedUp(s, i, k) ==
  [j \in 1 .. Len(s) |-> IF j < k \/ j > i THEN s[j] ELSE IF j = k THEN s[i] ELSE s[j - 1]]
\* PrioritisePorts, an insertion sort: a port moves up past those with a lower
\* score; a fault moves it past those with the same score too.
PlacePast(scores, s, i) ==
  MovedUp(s, i, 1 + Max({0} \cup {j \in 1 .. i - 1 : scores[s[j]] > scores[s[i]]}))
Place(scores, s, i) ==
  MovedUp(s, i, 1 + Max({0} \cup {j \in 1 .. i - 1 : scores[s[j]] >= scores[s[i]]}))
PlacePort ==
  /\ stage = "sort" /\ place <= Len(ports)
  /\ ports' = Place(FirstScores, ports, place)
  /\ place' = place + 1
  /\ UNCHANGED <<request, stage, parsing, addrs, spec, port, osint>>

EndSort ==
  /\ stage = "sort" /\ place > Len(ports)
  /\ stage' = "scan"
  /\ UNCHANGED <<request, parsing, addrs, listing, osint>>

PlanNext ==
  \/ BeginPart \/ WalkPart \/ EndPart \/ EndTarget
  \/ BeginPorts \/ ListPort \/ EndList \/ EndPorts
  \/ BeginPredict \/ EndPredict \/ Abandon
  \/ Prioritise \/ PlacePort \/ EndSort
  \/ \E g \in Source : LookUp(g) \/ Merge(g)

PlanSpec == PlanInit /\ [][PlanNext]_planVars

-----------------------------------------------------------------------------
(***************************************************************************)
(* Properties                                                              *)
(***************************************************************************)

\* The addresses that a part of a target stands for, in their order: all of a
\* range and of an IPv6 block; of an IPv4 block with a network and a broadcast
\* address the others.
Meant(part) ==
  LET from == CASE part.kind = "cidr" -> Min({a \in Addr : InBlock(part, a)})
                [] OTHER -> part.from
      to == CASE part.kind = "cidr" -> Max({a \in Addr : InBlock(part, a)})
              [] part.kind = "range" -> part.to
              [] OTHER -> part.from
      inner == IF part.kind = "cidr" /\ ~Six(part.from) /\ to - from >= 3 THEN 1 ELSE 0
  IN IF part.kind = "blank" \/ to < from THEN << >>
     ELSE [i \in 1 .. to - from + 1 - 2 * inner |-> from + inner + i - 1]

\* What a target means, part after part.
Asked(target) == FlattenSeq([i \in 1 .. Len(target) |-> Meant(target[i])])

\* The parts of a text of ports that name port p, and the order in which a text
\* names ports first.
Names(text, p) ==
  {i \in 1 .. Len(text) : text[i].kind = "range" /\ p \in text[i].from .. text[i].to}
Before(text, p, q) ==
  \E i \in Names(text, p) : \A j \in Names(text, q) : i < j \/ (i = j /\ p < q)

\* A scan that begins probes the addresses that the target means, part for part,
\* whatever the loops did at the ends of the address space, and each port that
\* was asked for, once: without a prediction in the order they were asked for,
\* with one by descending score of the first address, and of the same score in
\* the order asked for.  No part that is wrong was passed over.
ScansWhatWasAsked ==
  stage = "scan" =>
    LET score(p) == IF request.predict THEN FirstScores[p] ELSE 0
    IN /\ addrs = Asked(request.target)
       /\ \A i \in 1 .. Len(request.target) : request.target[i].kind # "bad"
       /\ \A i \in 1 .. Len(request.ports) : ~IsBad(request.ports[i])
       /\ ToSet(ports) = {p \in Port : Names(request.ports, p) # {}}
       /\ \A i \in 1 .. Len(ports), j \in 1 .. Len(ports) : i < j =>
            /\ ports[i] # ports[j]
            /\ \/ score(ports[i]) > score(ports[j])
               \/ /\ score(ports[i]) = score(ports[j])
                  /\ Before(request.ports, ports[i], ports[j])

\* What the names and the provider of a profile say of port p.
Evidence(f, p) ==
  {HostScore[n][p] : n \in f.names}
  \cup {CloudScore[c][p] : c \in {f.provider} \ {NoProvider}}

\* In whatever order its goroutines come to an end, a profile gives each port the
\* highest score that one of its names or its provider has for it, and the
\* default only where none has any.
ScoresAreEvidence ==
  \A a \in DOMAIN profiles, p \in Port :
    LET told == Evidence(profiles[a], p) \ {0}
    IN profiles[a].scores[p] = IF told = {} THEN Default[p] ELSE Max(told)

\* A request is refused for a part of its target that is no address, for a range
\* of more than MaxHosts addresses and, since the loop wraps round there, for a
\* range up to the last address; once the target is read, for meaning no address,
\* for a part of its ports that is wrong, or for naming no port.  And the memory
\* gives out over a range only when MaxHosts addresses more are too many, over a
\* block only when all of its own are, or when it is one that contains every
\* address.
RefusalsAreExplained ==
  LET part == Head(todo) IN
  /\ stage = "refused" /\ todo # << >> =>
       \/ part.kind = "bad"
       \/ /\ part.kind = "range" /\ part.from <= part.to
          /\ part.to - part.from >= MaxHosts \/ part.to = 2 ^ Bits - 1
  /\ stage = "refused" /\ todo = << >> =>
       \/ Asked(request.target) = << >>
       \/ \E i \in 1 .. Len(request.ports) : IsBad(request.ports[i])
       \/ \A p \in Port : Names(request.ports, p) = {}
  /\ stage = "dead" =>
       \/ part.kind = "cidr" /\ part.ones = 0
       \/ /\ part.kind \in {"cidr", "range"}
          /\ Len(addrs) + (IF part.kind = "range" THEN MaxHosts ELSE BlockSize(part)) >= Memory
=============================================================================
