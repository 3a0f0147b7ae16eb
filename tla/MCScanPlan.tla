----------------------------- MODULE MCScanPlan -----------------------------
(***************************************************************************)
(* Instances of ScanPlan for TLC: IPv4 addresses of three bits and IPv6    *)
(* addresses of four, ports up to 3, every target of one part and some of  *)
(* two, five texts of ports.                                               *)
(***************************************************************************)
EXTENDS ScanPlan

CONSTANTS n1, n2, aws

MCName == {n1, n2}
MCProvider == {aws}
\* Of equal scores, of different ones, and of ports without any.
MCHostScore == n1 :> <<0, 3, 2>> @@ n2 :> <<0, 1, 2>>
MCCloudScore == aws :> <<1, 1, 0>>
Table(t) == [p \in 0 .. 3 |-> IF p = 0 THEN 0 ELSE t[p]]
MCHostScores == [n \in MCName |-> Table(MCHostScore[n])]
MCCloudScores == [c \in MCProvider |-> Table(MCCloudScore[c])]
MCDefault == Table(<<2, 0, 1>>)

A(kind, from, to, ones) == [kind |-> kind, from |-> from, to |-> to, ones |-> ones]
Single(a) == A("single", a, 0, 0)
Parts ==
  {A("bad", 0, 0, 0), A("blank", 0, 0, 0)} \cup {Single(a) : a \in {0, 7, 20}}
  \cup {A("cidr", a, 0, n) : a \in 0 .. 7, n \in 0 .. 3}
  \cup {A("cidr", a, 0, n) : a \in {16, 23, 31}, n \in 0 .. 4}
  \cup {A("range", a, b, 0) : a \in 0 .. 7, b \in 0 .. 7}

P(from, to) == [kind |-> "range", from |-> from, to |-> to]
PortTexts == {<<P(3, 3), P(1, 2), P(2, 3)>>, <<P(2, 3), [kind |-> "blank", from |-> 0, to |-> 0]>>,
              <<P(2, 1)>>, <<[kind |-> "blank", from |-> 0, to |-> 0]>>,
              <<P(0, 1), [kind |-> "bad", from |-> 0, to |-> 0]>>}

MCRequest ==
  [target : {<<p>> : p \in Parts} \cup {<<Single(5), p>> : p \in Parts}
              \cup {<<p, Single(6)>> : p \in Parts},
   ports : PortTexts, predict : {FALSE}]
  \cup [target : {<<Single(4)>>, <<A("cidr", 6, 0, 2)>>, <<Single(2), Single(2)>>},
        ports : {<<P(3, 3), P(1, 2), P(2, 3)>>, <<P(2, 3)>>}, predict : {TRUE}]
=============================================================================
