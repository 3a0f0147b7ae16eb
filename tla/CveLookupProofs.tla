-------------------------- MODULE CveLookupProofs --------------------------
(***************************************************************************)
(* What a lookup is told is as fresh as AnswersAreFresh says and has one   *)
(* record per identifier, for any number of scans, services, names and     *)
(* vulnerabilities and every time to live and timeout.                     *)
(*                                                                         *)
(* The invariant gives each answer a horizon: the time before which it     *)
(* knows everything that the sources it heard knew.  What the sources      *)
(* learn is later than every horizon, so a horizon never fails by itself.  *)
(***************************************************************************)
EXTENDS CveLookup, FiniteSetTheorems, TLAPS

\* What an answer knows at the horizon t.
Good(a, t) == Knows(a, t) /\ OnlyNews(a, t)

\* An answer that is being made, in pc and with a request sent at began.
NvdInv(q) ==
  pc[q] = "nvd" =>
    /\ result[q] = Blank(want(q))
    /\ reply[q] # None =>
         /\ \A x \in reply[q].cves : x.from \in NvdId /\ x.id = x.from
         /\ \/ Cardinality(reply[q].cves) = NvdPage
            \/ \A t \in Time : t < began[q] =>
                 \A i \in NvdId : nvd[CPE[want(q)]][i] <= t => i \in Ids(reply[q].cves)
OsvInv(q) ==
  pc[q] = "osv" =>
    /\ \A x \in result[q].cves : x.from \in NvdId
    /\ "osv" \notin result[q].heard
    /\ "nvd" \notin result[q].heard => result[q].hole = began[q]
    /\ \A t \in Time : t + Timeout < began[q] => Knows(result[q], t)
    /\ reply[q] # None =>
         /\ \A x \in reply[q].cves : x.from \in Vuln
         /\ \/ Cardinality(OsvKnows(want(q))) > OsvPage
            \/ \A t \in Time : t < began[q] =>
                 \A v \in Vuln : osv[want(q)][v] <= t => Alias[v] \in Ids(reply[q].cves)
\* A source that was not heard failed the answer a so long ago at most.
HoleInv(a, age, now) ==
  a.heard # Source => a.hole # Never /\ now <= a.hole + age
TimeInv(q) == pc[q] \in Source => began[q] <= clock /\ clock <= began[q] + Timeout
ServiceInv(q) == /\ pc[q] # "idle" => want(q) \in Service
                 /\ pc[q] = "idle" => result[q] = Nothing
                 /\ Unique(result[q].cves)
PutInv(q) ==
  pc[q] = "put" =>
    /\ HoleInv(result[q], Timeout, clock)
    /\ \A t \in Time : t + 2 * Timeout < clock => Good(result[q], t)
DoneInv(q) ==
  pc[q] = "done" =>
    /\ HoleInv(result[q], TTL + Timeout, clock)
    /\ \A t \in Time : t + TTL + 2 * Timeout < clock => Good(result[q], t)
ScanInv(q) == NvdInv(q) /\ OsvInv(q) /\ TimeInv(q) /\ ServiceInv(q) /\ PutInv(q) /\ DoneInv(q)

CacheInv(c) ==
  cache[c] # None =>
    /\ cache[c].at <= clock
    /\ cache[c].answer.of \in Service
    /\ Unique(cache[c].answer.cves)
    /\ HoleInv(cache[c].answer, Timeout, cache[c].at)
    /\ \A t \in Time : t + 2 * Timeout < cache[c].at => Good(cache[c].answer, t)

LookupInv == (\A q \in Scan : ScanInv(q)) /\ (\A c \in Cpe : CacheInv(c))

-----------------------------------------------------------------------------
(* Types. *)

\* Every answer is a page of what the source knows, made into records.
LEMMA NvdPages ==
  ASSUME NEW c \in Cpe, NEW page \in FirstPages(NvdKnows(c), NvdPage)
  PROVE  /\ page \subseteq NvdId /\ Records(page) \subseteq Cve
         /\ page = NvdKnows(c) \/ Cardinality(page) = NvdPage
  <1>1. page \subseteq NvdId /\ (page = NvdKnows(c) \/ Cardinality(page) = NvdPage)
    BY DEF FirstPages, NvdKnows
  <1>2. Records(page) \subseteq Cve
    BY <1>1, ServiceAssumption DEF Records, Cve, Id
  <1> QED BY <1>1, <1>2

LEMMA OsvPages ==
  ASSUME NEW s \in Service, NEW page \in FirstPages(OsvKnows(s), OsvPage)
  PROVE  /\ page \subseteq Vuln /\ Records(page) \subseteq Cve
         /\ page = OsvKnows(s) \/ Cardinality(OsvKnows(s)) > OsvPage
  <1>1. page \subseteq Vuln
    BY DEF FirstPages, OsvKnows
  <1>2. Records(page) \subseteq Cve
    BY <1>1, ServiceAssumption DEF Records, Cve, Id
  <1>3. IsFiniteSet(OsvKnows(s))
    <2>1. OsvKnows(s) \subseteq Vuln
      BY DEF OsvKnows
    <2> QED BY <2>1, FS_Subset, PageAssumption
  <1>4. Cardinality(OsvKnows(s)) \in Nat
    BY <1>3, FS_CardinalityType
  <1>5. page = OsvKnows(s) \/ ~(Cardinality(OsvKnows(s)) <= OsvPage)
    BY DEF FirstPages
  <1> QED BY <1>1, <1>2, <1>4, <1>5, PageAssumption

\* There are as many records of NVD's as it has put on the page.
LEMMA RecordsCount ==
  ASSUME NEW page \in SUBSET NvdId
  PROVE  Cardinality(Records(page)) = Cardinality(page)
  <1> DEFINE f == [x \in page |-> [id |-> IF x \in Vuln THEN Alias[x] ELSE x, from |-> x]]
  <1>1. f \in Bijection(page, Records(page))
    <2>1. f \in [page -> Records(page)]
      BY DEF Records
    <2>2. \A x, y \in page : f[x] = f[y] => x = y
      OBVIOUS
    <2>3. \A z \in Records(page) : \E x \in page : f[x] = z
      BY DEF Records
    <2> HIDE DEF f
    <2>4. f \in Injection(page, Records(page)) /\ f \in Surjection(page, Records(page))
      BY <2>1, <2>2, <2>3 DEF Injection, IsInjective, Surjection
    <2> QED BY <2>4 DEF Bijection
  <1>2. IsFiniteSet(page)
    BY FS_Subset, PageAssumption
  <1> HIDE DEF f
  <1>3. ExistsBijection(page, Records(page))
    BY <1>1 DEF ExistsBijection
  <1> QED BY <1>2, <1>3, FS_Bijection

\* Answers, stored or under way, are about a service, and a reply is only on its way
\* to a lookup that waits for one.
Waits(q) == (pc[q] # "idle" => want(q) \in Service) /\ (reply[q] # None => pc[q] \in Source)
TypeInv ==
  /\ TypeOK
  /\ \A q \in Scan : Waits(q)
  /\ \A c \in Cpe : cache[c] # None => cache[c].answer.of \in Service

LEMMA InitTypes ==
  ASSUME Init PROVE TypeInv
  <1>1. clock \in Time /\ Never \notin Time
    BY TimeAssumption DEF Init, Time, Never
  <1>2. nvd \in [Cpe -> [NvdId -> Time \cup {Never}]]
    BY <1>1 DEF Init
  <1>3. osv \in [Service -> [Vuln -> Time \cup {Never}]]
    BY <1>1 DEF Init
  <1>4. result \in [Scan -> Answer] /\ cache \in [Cpe -> Entry \cup {None}]
    BY DEF Init, Nothing, Blank, Answer
  <1> QED BY <1>1, <1>2, <1>3, <1>4 DEF Init, TypeInv, TypeOK, Waits, Time

LEMMA NextTypes ==
  ASSUME TypeInv, [Next]_vars PROVE TypeInv'
  <1> USE DEF TypeInv, TypeOK, Waits, want
  <1>0. \A s \in Service : CPE[s] \in Cpe
    BY DEF Cpe
  <1>1. CASE Tick
    BY <1>1, TimeAssumption DEF Tick, Time, world
  <1>2. CASE Learn
    <2>1. clock \in Time \cup {Never}
      BY DEF Time
    <2>2. ASSUME NEW c \in Cpe, NEW i \in NvdId,
                 nvd' = [nvd EXCEPT ![c][i] = clock], UNCHANGED osv
          PROVE  TypeInv'
      <3>1. [nvd[c] EXCEPT ![i] = clock] \in [NvdId -> Time \cup {Never}]
        BY <2>1
      <3>2. nvd' \in [Cpe -> [NvdId -> Time \cup {Never}]]
        BY <2>2, <3>1
      <3> QED BY <1>2, <2>2, <3>2 DEF Learn
    <2>3. ASSUME NEW s \in Covered, NEW v \in Vuln,
                 osv' = [osv EXCEPT ![s][v] = clock], UNCHANGED nvd
          PROVE  TypeInv'
      <3>1. s \in Service
        BY ServiceAssumption
      <3>2. [osv[s] EXCEPT ![v] = clock] \in [Vuln -> Time \cup {Never}]
        BY <2>1, <3>1
      <3>3. osv' \in [Service -> [Vuln -> Time \cup {Never}]]
        BY <2>3, <3>1, <3>2
      <3> QED BY <1>2, <2>3, <3>3 DEF Learn
    <2> QED BY <1>2, <2>2, <2>3 DEF Learn
  <1>3. CASE Restart
    <2>1. Nothing \in Answer
      BY DEF Nothing, Blank, Answer
    <2> QED BY <1>3, <2>1, TimeAssumption DEF Restart, world, Time
  <1>4. ASSUME NEW q \in Scan, NEW s \in Service, Lookup(q, s) PROVE TypeInv'
    <2>2. Blank(s) \in Answer /\ Blank(s).of = s
      BY DEF Blank, Answer
    <2>3. CASE Hit(cache[CPE[s]]) /\ pc' = [pc EXCEPT ![q] = "done"]
               /\ result' = [result EXCEPT ![q] = cache[CPE[s]].answer] /\ UNCHANGED began
      <3>1. cache[CPE[s]] \in Entry /\ cache[CPE[s]] # None
        BY <1>0, <2>3 DEF Hit
      <3>2. cache[CPE[s]].answer \in Answer /\ cache[CPE[s]].answer.of \in Service
        BY <1>0, <3>1 DEF Entry
      <3>3. result' \in [Scan -> Answer] /\ result'[q].of \in Service
            /\ \A r \in Scan \ {q} : result'[r] = result[r]
        BY <2>3, <3>2
      <3>4. reply[q] = None
        BY <1>4 DEF Lookup, Source
      <3>5. pc' \in [Scan -> {"idle", "nvd", "osv", "put", "done"}]
            /\ \A r \in Scan : pc'[r] = IF r = q THEN "done" ELSE pc[r]
        BY <2>3
      <3> QED BY <1>4, <2>3, <3>3, <3>4, <3>5 DEF Lookup, world
    <2>4. CASE /\ pc' = [pc EXCEPT ![q] = "nvd"] /\ began' = [began EXCEPT ![q] = clock]
               /\ result' = [result EXCEPT ![q] = Blank(s)]
      BY <1>4, <2>2, <2>4 DEF Lookup, world, Source
    <2> QED BY <1>4, <2>3, <2>4 DEF Lookup
  <1>5. ASSUME NEW q \in Scan, Respond(q) PROVE TypeInv'
    <2>1. want(q) \in Service
      BY <1>5 DEF Respond, Source
    <2>2. PICK page \in IF pc[q] = "nvd" THEN FirstPages(NvdKnows(CPE[want(q)]), NvdPage)
                        ELSE FirstPages(OsvKnows(want(q)), OsvPage) :
                 reply' = [reply EXCEPT ![q] = [cves |-> Records(page)]]
      BY <1>5 DEF Respond
    <2>3. Records(page) \subseteq Cve
      BY <1>0, <2>1, NvdPages, OsvPages
    <2>4. [cves |-> Records(page)] \in Reply
      BY <2>3 DEF Reply
    <2> QED BY <1>5, <2>2, <2>4 DEF Respond, world
  <1>6. ASSUME NEW q \in Scan, GoOn(q), UNCHANGED <<clock, world, cache>>, pc[q] \in Source,
               \/ result' = [result EXCEPT ![q].hole = clock]
               \/ \E S \in SUBSET Cve : result' = [result EXCEPT ![q] = Added(@, S, pc[q])]
        PROVE  TypeInv'
    <2>1. result' \in [Scan -> Answer] /\ \A r \in Scan : result'[r].of = result[r].of
      <3>1. CASE result' = [result EXCEPT ![q].hole = clock]
        <4>1. /\ [result[q] EXCEPT !.hole = clock] \in Answer
              /\ [result[q] EXCEPT !.hole = clock].of = want(q)
          BY DEF Answer
        <4> QED BY <3>1, <4>1
      <3>2. ASSUME NEW S \in SUBSET Cve, result' = [result EXCEPT ![q] = Added(@, S, pc[q])]
            PROVE  result' \in [Scan -> Answer] /\ \A r \in Scan : result'[r].of = result[r].of
        <4>1. Added(result[q], S, pc[q]) \in Answer /\ Added(result[q], S, pc[q]).of = want(q)
          BY <1>6 DEF Answer, Added
        <4> QED BY <3>2, <4>1
      <3> QED BY <1>6, <3>1, <3>2
    <2>2. began' \in [Scan -> Time]
      BY <1>6, TimeAssumption DEF GoOn, Time
    <2> QED BY <1>6, <2>1, <2>2 DEF GoOn, world, Source
  <1>7. ASSUME NEW q \in Scan, Receive(q) PROVE TypeInv'
    <2>1. reply[q].cves \subseteq Cve
      BY <1>7 DEF Receive, Reply
    <2> QED BY <1>6, <1>7, <2>1 DEF Receive, Picks
  <1>8. ASSUME NEW q \in Scan, Fail(q) PROVE TypeInv'
    BY <1>6, <1>8 DEF Fail, Asks, Source
  <1>9. ASSUME NEW q \in Scan, Put(q) PROVE TypeInv'
    <2>1. [at |-> clock, answer |-> result[q]] \in Entry
      BY DEF Entry
    <2>2. want(q) \in Service
      BY <1>9 DEF Put
    <2>3. CASE cache' = [cache EXCEPT ![CPE[want(q)]] = [at |-> clock, answer |-> result[q]]]
      <3> DEFINE e == [at |-> clock, answer |-> result[q]]
      <3>1. e \in Entry /\ e.answer.of \in Service
        BY <2>1, <2>2
      <3>2. cache' = [cache EXCEPT ![CPE[want(q)]] = e]
        BY <2>3
      <3> HIDE DEF e
      <3>3. cache' \in [Cpe -> Entry \cup {None}]
            /\ \A c \in Cpe : cache'[c] # None => cache'[c].answer.of \in Service
        BY <1>0, <2>2, <3>1, <3>2
      <3> QED BY <1>9, <3>3 DEF Put, world, Source
    <2> QED BY <1>9, <2>3 DEF Put, world, Source
  <1>10. ASSUME NEW q \in Scan, Return(q) PROVE TypeInv'
    <2>1. Nothing \in Answer
      BY DEF Nothing, Blank, Answer
    <2> QED BY <1>10, <2>1 DEF Return, world, Source
  <1>11. CASE UNCHANGED vars
    BY <1>11 DEF vars, world
  <1> QED BY <1>1, <1>2, <1>3, <1>4, <1>5, <1>7, <1>8, <1>9, <1>10, <1>11 DEF Next

\* Every reachable state is well typed: what a lookup is told are records of the
\* two sources, and its request was sent at a time of the clock.
THEOREM CveTypes == Spec => []TypeOK
  <1>1. Init => TypeInv
    BY InitTypes
  <1>2. TypeInv /\ [Next]_vars => TypeInv'
    BY NextTypes
  <1>3. TypeInv => TypeOK
    BY DEF TypeInv
  <1> QED BY <1>1, <1>2, <1>3, PTL DEF Spec

-----------------------------------------------------------------------------
(* The invariant. *)

\* What the sources learn is later than every horizon before the present.
LEMMA LearnsLater ==
  ASSUME TypeInv, TypeInv', Learn, NEW t \in Time, t < clock
  PROVE  /\ \A c \in Cpe, i \in NvdId : nvd'[c][i] <= t <=> nvd[c][i] <= t
         /\ \A s \in Service, v \in Vuln : osv'[s][v] <= t <=> osv[s][v] <= t
  <1>0. Never > t /\ t \in Nat /\ clock \in Nat /\ Never \in Nat
    BY TimeAssumption DEF TypeInv, TypeOK, Time, Never
  <1>1. ASSUME NEW c \in Cpe, NEW i \in NvdId
        PROVE  nvd'[c][i] = nvd[c][i] \/ (nvd[c][i] = Never /\ nvd'[c][i] = clock)
    <2>1. ASSUME NEW d \in Cpe, NEW j \in NvdId,
                 nvd[d][j] = Never, nvd' = [nvd EXCEPT ![d][j] = clock]
          PROVE  nvd'[c][i] = nvd[c][i] \/ (nvd[c][i] = Never /\ nvd'[c][i] = clock)
      BY <2>1 DEF TypeInv, TypeOK
    <2> QED BY <2>1 DEF Learn
  <1>2. ASSUME NEW s \in Service, NEW v \in Vuln
        PROVE  osv'[s][v] = osv[s][v] \/ (osv[s][v] = Never /\ osv'[s][v] = clock)
    <2>1. ASSUME NEW d \in Covered, NEW u \in Vuln,
                 osv[d][u] = Never, osv' = [osv EXCEPT ![d][u] = clock]
          PROVE  osv'[s][v] = osv[s][v] \/ (osv[s][v] = Never /\ osv'[s][v] = clock)
      <3>1. d \in Service
        BY ServiceAssumption
      <3> QED BY <2>1, <3>1 DEF TypeInv, TypeOK
    <2> QED BY <2>1 DEF Learn
  <1> QED BY <1>0, <1>1, <1>2

\* Once OSV knows more than a page it always does.
LEMMA LearnFillsPages ==
  ASSUME TypeInv, TypeInv', Learn, NEW s \in Service, Cardinality(OsvKnows(s)) > OsvPage
  PROVE  Cardinality(OsvKnows(s)') > OsvPage
  <1>1. OsvKnows(s) \subseteq OsvKnows(s)' /\ OsvKnows(s)' \subseteq Vuln
    <2>1. Never # clock
      BY TimeAssumption DEF TypeInv, TypeOK, Time, Never
    <2>2. ASSUME NEW v \in Vuln, osv[s][v] # Never PROVE osv'[s][v] # Never
      <3>1. ASSUME NEW d \in Covered, NEW u \in Vuln, osv' = [osv EXCEPT ![d][u] = clock]
            PROVE  osv'[s][v] = osv[s][v] \/ osv'[s][v] = clock
        <4>1. d \in Service
          BY ServiceAssumption
        <4> QED BY <3>1, <4>1 DEF TypeInv, TypeOK
      <3> QED BY <2>1, <2>2, <3>1 DEF Learn
    <2> QED BY <2>2 DEF OsvKnows
  <1>2. IsFiniteSet(OsvKnows(s)') /\ IsFiniteSet(OsvKnows(s))
    BY <1>1, FS_Subset, PageAssumption
  <1>3. Cardinality(OsvKnows(s)) <= Cardinality(OsvKnows(s)')
    BY <1>1, <1>2, FS_Subset
  <1> QED BY <1>2, <1>3, FS_CardinalityType, PageAssumption

LEMMA LearnKeepsGood ==
  ASSUME TypeInv, TypeInv', Learn, NEW t \in Time, t < clock,
         NEW a \in Answer, a.of \in Service
  PROVE  (Knows(a, t) => Knows(a, t)') /\ (Good(a, t) => Good(a, t)')
  <1>1. CPE[a.of] \in Cpe
    BY DEF Cpe
  <1>2. \A i \in NvdId : nvd'[CPE[a.of]][i] <= t <=> nvd[CPE[a.of]][i] <= t
    BY <1>1, LearnsLater
  <1>3. \A v \in Vuln : osv'[a.of][v] <= t <=> osv[a.of][v] <= t
    BY LearnsLater
  <1>4. Knows(a, t) => Knows(a, t)'
    <2>1. NvdFull(a)' <=> NvdFull(a)
      BY DEF NvdFull
    <2>2. Cardinality(OsvKnows(a.of)) > OsvPage => Cardinality(OsvKnows(a.of)') > OsvPage
      BY LearnFillsPages
    <2> QED BY <1>2, <1>3, <2>1, <2>2 DEF Knows
  <1>5. \A n \in Time \cup {Never} : n > t <=> ~(n <= t)
    BY TimeAssumption DEF Time, Never
  <1>6. /\ nvd[CPE[a.of]] \in [NvdId -> Time \cup {Never}]
        /\ nvd'[CPE[a.of]] \in [NvdId -> Time \cup {Never}]
    BY <1>1 DEF TypeInv, TypeOK
  <1>7. \A i \in NvdId : nvd'[CPE[a.of]][i] > t <=> nvd[CPE[a.of]][i] > t
    BY <1>2, <1>5, <1>6
  <1>8. OnlyNews(a, t) => OnlyNews(a, t)'
    BY <1>7 DEF OnlyNews, NvdFull
  <1> QED BY <1>4, <1>8 DEF Good

\* A scan and an entry that a step does not touch.
LEMMA OthersKeep ==
  ASSUME NEW r \in Scan, ScanInv(r), UNCHANGED <<clock, world>>,
         pc'[r] = pc[r], began'[r] = began[r], reply'[r] = reply[r], result'[r] = result[r]
  PROVE  ScanInv(r)'
  BY DEF ScanInv, NvdInv, OsvInv, TimeInv, ServiceInv, PutInv, DoneInv, Good, Knows,
         OnlyNews, HoleInv, NvdFull, OsvKnows, want, world

LEMMA EntryKeeps ==
  ASSUME NEW c \in Cpe, CacheInv(c), UNCHANGED <<clock, world>>, cache'[c] = cache[c]
  PROVE  CacheInv(c)'
  BY DEF CacheInv, Good, Knows, OnlyNews, HoleInv, NvdFull, OsvKnows, world

LEMMA InitLookup ==
  ASSUME Init PROVE LookupInv
  <1>1. \A q \in Scan : ScanInv(q)
    BY DEF Init, ScanInv, NvdInv, OsvInv, TimeInv, ServiceInv, PutInv, DoneInv, Source,
           Nothing, Blank, Unique
  <1>2. \A c \in Cpe : CacheInv(c)
    BY DEF Init, CacheInv
  <1> QED BY <1>1, <1>2 DEF LookupInv

LEMMA TickLookup ==
  ASSUME TypeInv, LookupInv, Tick PROVE LookupInv'
  <1>0. clock \in Nat /\ clock' = clock + 1
    BY DEF Tick, TypeInv, TypeOK, Time
  <1>1. ASSUME NEW q \in Scan PROVE ScanInv(q)'
    <2>1. pc'[q] = pc[q] /\ pc[q] \in Source \cup {"idle"}
      BY DEF Tick, Asks, Source
    <2>2. TimeInv(q)'
      <3>1. began[q] \in Nat
        BY DEF TypeInv, TypeOK, Time
      <3>2. TimeInv(q)
        BY DEF LookupInv, ScanInv
      <3> QED BY <1>0, <3>1, <3>2, TimeAssumption DEF Tick, TimeInv, Asks, Source
    <2>3. NvdInv(q)' /\ OsvInv(q)' /\ ServiceInv(q)'
      BY DEF LookupInv, ScanInv, Tick, NvdInv, OsvInv, ServiceInv, Knows, NvdFull, OsvKnows,
             want, world
    <2> QED BY <2>1, <2>2, <2>3 DEF ScanInv, PutInv, DoneInv, Source
  <1>2. ASSUME NEW c \in Cpe PROVE CacheInv(c)'
    <2>1. CacheInv(c)
      BY DEF LookupInv
    <2>2. cache[c] # None => cache[c].at \in Nat
      BY DEF TypeInv, TypeOK, Entry, Time
    <2>3. cache' = cache /\ nvd' = nvd /\ osv' = osv
      BY DEF Tick, world
    <2>4. cache[c] # None => cache[c].at <= clock'
      BY <1>0, <2>1, <2>2 DEF CacheInv
    <2>5. ASSUME NEW t \in Time, Good(cache[c].answer, t) PROVE Good(cache[c].answer, t)'
      <3>1. Knows(cache[c].answer, t)'
        BY <2>3, <2>5 DEF Good, Knows, NvdFull, OsvKnows
      <3>2. OnlyNews(cache[c].answer, t)'
        BY <2>3, <2>5 DEF Good, OnlyNews, NvdFull
      <3> QED BY <3>1, <3>2 DEF Good
    <2> QED BY <2>1, <2>3, <2>4, <2>5 DEF CacheInv, HoleInv
  <1> QED BY <1>1, <1>2 DEF LookupInv

LEMMA LearnLookup ==
  ASSUME TypeInv, TypeInv', LookupInv, Learn PROVE LookupInv'
  <1>0. clock \in Nat /\ Timeout \in Nat /\ TTL \in Nat /\ Time \subseteq Nat
    BY TimeAssumption DEF TypeInv, TypeOK, Time
  <1>1. ASSUME NEW q \in Scan PROVE ScanInv(q)'
    <2>1. /\ UNCHANGED <<clock, pc, began, reply, result>> /\ ScanInv(q)
          /\ result[q] \in Answer /\ began[q] \in Nat
          /\ pc[q] # "idle" => want(q) \in Service
      BY DEF Learn, LookupInv, TypeInv, TypeOK, Waits, Time
    <2>2. pc[q] \in Source => began[q] <= clock
      BY <2>1 DEF ScanInv, TimeInv
    <2>3. NvdInv(q)'
      <3>1. ASSUME pc[q] = "nvd", NEW t \in Time, t < began[q],
                   NEW i \in NvdId, nvd'[CPE[want(q)]][i] <= t
            PROVE  nvd[CPE[want(q)]][i] <= t
        <4>1. t < clock /\ CPE[want(q)] \in Cpe
          BY <1>0, <2>1, <2>2, <3>1 DEF Source, Cpe
        <4> QED BY <3>1, <4>1, LearnsLater
      <3> QED BY <2>1, <3>1 DEF ScanInv, NvdInv, want
    <2>4. OsvInv(q)'
      <3>1. ASSUME pc[q] = "osv", NEW t \in Time, t + Timeout < began[q], Knows(result[q], t)
            PROVE  Knows(result[q], t)'
        <4>1. t < clock /\ want(q) \in Service
          BY <1>0, <2>1, <2>2, <3>1 DEF Source
        <4>2. PICK a \in Answer : a = result[q]
          BY <2>1
        <4>3. Knows(a, t)'
          BY <3>1, <4>1, <4>2, LearnKeepsGood DEF want
        <4> QED BY <2>1, <4>2, <4>3 DEF Knows, NvdFull, OsvKnows
      <3>2. ASSUME pc[q] = "osv", NEW t \in Time, t < began[q],
                   NEW v \in Vuln, osv'[want(q)][v] <= t
            PROVE  osv[want(q)][v] <= t
        <4>1. t < clock /\ want(q) \in Service
          BY <1>0, <2>1, <2>2, <3>2 DEF Source
        <4> QED BY <3>2, <4>1, LearnsLater
      <3>3. pc[q] = "osv" /\ Cardinality(OsvKnows(want(q))) > OsvPage =>
              Cardinality(OsvKnows(want(q))') > OsvPage
        <4>2. ASSUME NEW s \in Service, s = want(q), Cardinality(OsvKnows(s)) > OsvPage
              PROVE  Cardinality(OsvKnows(want(q))') > OsvPage
          <5>1. Cardinality(OsvKnows(s)') > OsvPage
            BY <4>2, LearnFillsPages
          <5>2. OsvKnows(want(q))' = OsvKnows(s)'
            BY <2>1, <4>2 DEF want, OsvKnows
          <5> QED BY <5>1, <5>2
        <4> QED BY <2>1, <4>2
      <3> QED BY <2>1, <3>1, <3>2, <3>3 DEF ScanInv, OsvInv, want
    <2>5. ASSUME NEW t \in Time, t < clock, Good(result[q], t), pc[q] # "idle"
          PROVE  Good(result[q], t)'
      <3>1. PICK a \in Answer : a = result[q]
        BY <2>1
      <3>2. Good(a, t)'
        BY <2>1, <2>5, <3>1, LearnKeepsGood DEF want
      <3> QED BY <2>1, <3>1, <3>2 DEF Good, Knows, OnlyNews, NvdFull, OsvKnows
    <2>6. PutInv(q)'
      <3>1. ASSUME NEW t \in Time, t + 2 * Timeout < clock PROVE t < clock
        BY <1>0, <3>1
      <3> QED BY <2>1, <2>5, <3>1 DEF ScanInv, PutInv, HoleInv
    <2>7. DoneInv(q)'
      <3>1. ASSUME NEW t \in Time, t + TTL + 2 * Timeout < clock PROVE t < clock
        BY <1>0, <3>1
      <3> QED BY <2>1, <2>5, <3>1 DEF ScanInv, DoneInv, HoleInv
    <2>8. TimeInv(q)' /\ ServiceInv(q)'
      BY <2>1 DEF ScanInv, TimeInv, ServiceInv, want
    <2> QED BY <2>3, <2>4, <2>6, <2>7, <2>8 DEF ScanInv
  <1>2. ASSUME NEW c \in Cpe PROVE CacheInv(c)'
    <2>1. CacheInv(c) /\ cache' = cache /\ clock' = clock
      BY DEF LookupInv, Learn
    <2>2. ASSUME cache[c] # None, NEW t \in Time, t + 2 * Timeout < cache[c].at
          PROVE  Good(cache[c].answer, t)'
      <3>1. cache[c].answer \in Answer /\ cache[c].at \in Nat
        BY <2>2 DEF TypeInv, TypeOK, Entry, Time
      <3>2. t < clock
        BY <1>0, <2>1, <2>2, <3>1 DEF CacheInv
      <3>3. PICK a \in Answer : a = cache[c].answer
        BY <3>1
      <3>4. Good(a, t)'
        BY <2>1, <2>2, <3>2, <3>3, LearnKeepsGood DEF CacheInv
      <3> QED BY <2>1, <3>3, <3>4 DEF Good, Knows, OnlyNews, NvdFull, OsvKnows
    <2> QED BY <2>1, <2>2 DEF CacheInv, HoleInv
  <1> QED BY <1>1, <1>2 DEF LookupInv

LEMMA LookupLookup ==
  ASSUME TypeInv, LookupInv, NEW q \in Scan, NEW s \in Service, Lookup(q, s) PROVE LookupInv'
  <1>0. /\ clock \in Nat /\ Timeout \in Nat /\ TTL \in Nat /\ Time \subseteq Nat
        /\ UNCHANGED <<clock, world, cache, reply>> /\ pc[q] = "idle"
        /\ reply[q] = None /\ CPE[s] \in Cpe
    BY TimeAssumption DEF TypeInv, TypeOK, Time, Lookup, Waits, Source, Cpe
  <1> DEFINE e == cache[CPE[s]]
  <1>1. CASE /\ Hit(e) /\ pc' = [pc EXCEPT ![q] = "done"]
             /\ result' = [result EXCEPT ![q] = e.answer] /\ UNCHANGED began
    <2>1. e # None /\ e \in Entry /\ clock <= e.at + TTL /\ CacheInv(CPE[s])
      BY <1>0, <1>1 DEF Hit, TypeInv, TypeOK, LookupInv
    <2>2. e.at \in Nat /\ e.answer \in Answer
      BY <2>1 DEF Entry, Time
    <2>3. pc'[q] = "done" /\ result'[q] = e.answer
      BY <1>1 DEF TypeInv, TypeOK
    <2>4. ASSUME NEW t \in Time, t + TTL + 2 * Timeout < clock PROVE Good(result[q], t)'
      <3>1. t + 2 * Timeout < e.at
        BY <1>0, <2>1, <2>2, <2>4
      <3>2. Good(e.answer, t)
        BY <2>1, <3>1 DEF CacheInv
      <3> QED BY <1>0, <2>3, <3>2 DEF Good, Knows, OnlyNews, NvdFull, OsvKnows, world
    <2>7. HoleInv(result[q], TTL + Timeout, clock)'
      <3>1. e.answer.hole \in Nat
        BY <2>2, TimeAssumption DEF Answer, Time, Never
      <3> QED BY <1>0, <2>1, <2>2, <2>3, <3>1 DEF CacheInv, HoleInv
    <2>5. ScanInv(q)'
      BY <1>0, <2>1, <2>3, <2>4, <2>7
      DEF ScanInv, NvdInv, OsvInv, TimeInv, ServiceInv, PutInv, DoneInv, CacheInv, Source, want
    <2>6. \A r \in Scan \ {q} : pc'[r] = pc[r] /\ began'[r] = began[r] /\ result'[r] = result[r]
      BY <1>1 DEF TypeInv, TypeOK
    <2> QED BY <1>0, <2>5, <2>6, OthersKeep, EntryKeeps DEF LookupInv
  <1>2. CASE /\ pc' = [pc EXCEPT ![q] = "nvd"] /\ began' = [began EXCEPT ![q] = clock]
             /\ result' = [result EXCEPT ![q] = Blank(s)]
    <2>1. pc'[q] = "nvd" /\ began'[q] = clock /\ result'[q] = Blank(s) /\ reply'[q] = None
      BY <1>0, <1>2 DEF TypeInv, TypeOK
    <2>2. ScanInv(q)'
      BY <1>0, <2>1
      DEF ScanInv, NvdInv, OsvInv, TimeInv, ServiceInv, PutInv, DoneInv, Blank, Unique, want
    <2>3. \A r \in Scan \ {q} : pc'[r] = pc[r] /\ began'[r] = began[r] /\ result'[r] = result[r]
      BY <1>2 DEF TypeInv, TypeOK
    <2> QED BY <1>0, <2>2, <2>3, OthersKeep, EntryKeeps DEF LookupInv
  <1> QED BY <1>1, <1>2 DEF Lookup

LEMMA RespondLookup ==
  ASSUME TypeInv, LookupInv, NEW q \in Scan, Respond(q) PROVE LookupInv'
  <1>0. /\ began[q] \in Nat /\ clock \in Nat /\ Time \subseteq Nat /\ ScanInv(q)
        /\ UNCHANGED <<clock, world, cache, pc, began, result>> /\ pc[q] \in Source
        /\ want(q) \in Service /\ CPE[want(q)] \in Cpe /\ MaxTime \in Nat
    BY TimeAssumption DEF TypeInv, TypeOK, Time, Respond, Waits, Source, Cpe, LookupInv
  <1>1. NvdInv(q)'
    <2>1. SUFFICES ASSUME pc[q] = "nvd" PROVE NvdInv(q)'
      BY <1>0 DEF NvdInv
    <2>2. PICK page \in FirstPages(NvdKnows(CPE[want(q)]), NvdPage) :
                 reply'[q].cves = Records(page)
      BY <2>1 DEF Respond, TypeInv, TypeOK
    <2>3. page \subseteq NvdId /\ (page = NvdKnows(CPE[want(q)]) \/ Cardinality(page) = NvdPage)
      BY <1>0, NvdPages
    <2>4. \A x \in Records(page) : x.from \in NvdId /\ x.id = x.from
      BY <2>3, ServiceAssumption DEF Records
    <2>5. CASE Cardinality(page) = NvdPage
      <3>1. Cardinality(reply'[q].cves) = NvdPage
        BY <2>2, <2>3, <2>5, RecordsCount
      <3> QED BY <1>0, <2>1, <2>2, <2>4, <3>1 DEF ScanInv, NvdInv, want, world
    <2>6. CASE page = NvdKnows(CPE[want(q)])
      <3>1. ASSUME NEW t \in Time, NEW i \in NvdId, nvd[CPE[want(q)]][i] <= t
            PROVE  i \in Ids(Records(page))
        <4>1. i \in page
          BY <1>0, <2>6, <3>1 DEF Never, Time, NvdKnows
        <4>2. [id |-> i, from |-> i] \in Records(page)
          BY <4>1, ServiceAssumption DEF Records
        <4> QED BY <4>2 DEF Ids
      <3> QED BY <1>0, <2>1, <2>2, <2>4, <3>1 DEF ScanInv, NvdInv, want, world
    <2> QED BY <2>3, <2>5, <2>6
  <1>2. OsvInv(q)'
    <2>1. SUFFICES ASSUME pc[q] = "osv" PROVE OsvInv(q)'
      BY <1>0 DEF OsvInv
    <2>2. PICK page \in FirstPages(OsvKnows(want(q)), OsvPage) :
                 reply'[q].cves = Records(page)
      BY <2>1 DEF Respond, TypeInv, TypeOK
    <2>3. /\ page \subseteq Vuln
          /\ page = OsvKnows(want(q)) \/ Cardinality(OsvKnows(want(q))) > OsvPage
      BY <1>0, OsvPages
    <2>4. \A x \in Records(page) : x.from \in Vuln
      BY <2>3 DEF Records
    <2>5. ASSUME page = OsvKnows(want(q)), NEW t \in Time, NEW v \in Vuln, osv[want(q)][v] <= t
          PROVE  Alias[v] \in Ids(Records(page))
      <3>1. v \in page
        BY <1>0, <2>5 DEF Never, Time, OsvKnows
      <3>2. [id |-> Alias[v], from |-> v] \in Records(page)
        BY <3>1 DEF Records
      <3> QED BY <3>2 DEF Ids
    <2> QED BY <1>0, <2>1, <2>2, <2>3, <2>4, <2>5
        DEF ScanInv, OsvInv, Knows, NvdFull, OsvKnows, want, world
  <1>3. ScanInv(q)'
    BY <1>0, <1>1, <1>2
    DEF ScanInv, TimeInv, ServiceInv, PutInv, DoneInv, HoleInv, Source, want
  <1>4. \A r \in Scan \ {q} : reply'[r] = reply[r]
    BY DEF Respond, TypeInv, TypeOK
  <1> QED BY <1>0, <1>3, <1>4, OthersKeep, EntryKeeps DEF LookupInv

\* What is put together of two answers of which each has no identifier twice.
LEMMA UniqueUnion ==
  ASSUME NEW known, NEW found, NEW S \in Picks(known, found), Unique(known)
  PROVE  Unique(known \cup S)
  BY DEF Picks, Unique, Ids

LEMMA IdsOfUnion ==
  ASSUME NEW known, NEW found, NEW S \in Picks(known, found)
  PROVE  Ids(found) \subseteq Ids(known \cup S) /\ Ids(known) \subseteq Ids(known \cup S)
  BY DEF Picks, Ids

\* Records that are made of identifiers of NVD's are told apart by them.
LEMMA PicksAll ==
  ASSUME NEW found, NEW S \in Picks({}, found), \A x \in found : x \in Cve /\ x.id = x.from
  PROVE  S = found
  <1>1. \A x, y \in found : x.id = y.id => x = y
    BY DEF Cve
  <1>2. Ids(S) = Ids(found) /\ S \subseteq found
    BY DEF Picks, Ids
  <1> QED BY <1>1, <1>2 DEF Ids

\* A lookup goes on to OSV, with or without the answer of NVD.
LEMMA AfterNvd ==
  ASSUME TypeInv, LookupInv, NEW q \in Scan, pc[q] = "nvd", GoOn(q),
         UNCHANGED <<clock, world, cache>>,
         \/ result' = [result EXCEPT ![q].hole = clock]
         \/ /\ reply[q] # None
            /\ \E S \in Picks(result[q].cves, reply[q].cves) :
                 result' = [result EXCEPT ![q] = Added(@, S, "nvd")]
  PROVE  ScanInv(q)'
  <1>0. /\ clock \in Nat /\ began[q] \in Nat /\ Timeout \in Nat /\ Time \subseteq Nat
        /\ NvdInv(q) /\ TimeInv(q) /\ ServiceInv(q)
    BY TimeAssumption DEF TypeInv, TypeOK, Time, LookupInv, ScanInv
  <1>1. pc'[q] = "osv" /\ began'[q] = clock /\ reply'[q] = None
    BY DEF GoOn, TypeInv, TypeOK
  <1>2. ASSUME NEW t \in Time, t + Timeout < clock PROVE t < began[q]
    BY <1>0, <1>2 DEF TimeInv, Source
  <1>3. CASE result' = [result EXCEPT ![q].hole = clock]
    <2>1. /\ result'[q].cves = {} /\ result'[q].heard = {}
          /\ result'[q].of = want(q) /\ result'[q].hole = clock
      BY <1>0, <1>3 DEF NvdInv, Blank, want, TypeInv, TypeOK
    <2>2. OsvInv(q)'
      BY <1>1, <2>1 DEF OsvInv, Knows
    <2>3. ServiceInv(q)' /\ TimeInv(q)'
      BY <1>0, <1>1, <2>1 DEF ServiceInv, TimeInv, Unique, want
    <2> QED BY <1>1, <2>2, <2>3 DEF ScanInv, NvdInv, PutInv, DoneInv
  <1>4. ASSUME reply[q] # None, NEW S \in Picks(result[q].cves, reply[q].cves),
               result' = [result EXCEPT ![q] = Added(@, S, "nvd")]
        PROVE  ScanInv(q)'
    <2>1. /\ result'[q].cves = S /\ result'[q].heard = {"nvd"} /\ result'[q].of = want(q)
          /\ result[q].cves = {}
      BY <1>0, <1>4 DEF NvdInv, Added, Blank, want, TypeInv, TypeOK
    <2>2. S = reply[q].cves
      <3>1. reply[q].cves \subseteq Cve
        BY <1>4 DEF TypeInv, TypeOK, Reply
      <3> QED BY <1>0, <1>4, <2>1, <3>1, PicksAll DEF NvdInv
    <2>3. Unique(S) /\ \A x \in S : x.from \in NvdId
      BY <1>0, <1>4, <2>2 DEF NvdInv, Picks
    <2>4. ASSUME NEW t \in Time, t + Timeout < clock PROVE Knows(result[q], t)'
      <3>1. t < began[q]
        BY <1>2, <2>4
      <3>2. CASE \A i \in NvdId : nvd[CPE[want(q)]][i] <= t => i \in Ids(S)
        BY <2>1, <3>2 DEF Knows, world
      <3>3. CASE Cardinality(S) = NvdPage
        <4>1. {x \in S : x.from \in NvdId} = S
          BY <2>3
        <4>2. NvdFull(result[q])'
          BY <2>1, <3>3, <4>1 DEF NvdFull
        <4> QED BY <2>1, <4>2 DEF Knows
      <3> QED BY <1>0, <1>4, <2>2, <3>1, <3>2, <3>3 DEF NvdInv
    <2>5. OsvInv(q)'
      BY <1>1, <2>1, <2>3, <2>4 DEF OsvInv
    <2>6. ServiceInv(q)'
      BY <1>0, <1>1, <2>1, <2>3 DEF ServiceInv, want
    <2>7. TimeInv(q)'
      BY <1>0, <1>1 DEF TimeInv
    <2> QED BY <1>1, <2>5, <2>6, <2>7 DEF ScanInv, NvdInv, PutInv, DoneInv
  <1> QED BY <1>3, <1>4

\* A lookup has finished with the sources.
LEMMA AfterOsv ==
  ASSUME TypeInv, LookupInv, NEW q \in Scan, pc[q] = "osv", GoOn(q),
         UNCHANGED <<clock, world, cache>>,
         \/ result' = [result EXCEPT ![q].hole = clock]
         \/ /\ reply[q] # None
            /\ \E S \in Picks(result[q].cves, reply[q].cves) :
                 result' = [result EXCEPT ![q] = Added(@, S, "osv")]
  PROVE  ScanInv(q)'
  <1>0. /\ clock \in Nat /\ began[q] \in Nat /\ Timeout \in Nat /\ Time \subseteq Nat
        /\ OsvInv(q) /\ TimeInv(q) /\ ServiceInv(q)
        /\ began[q] # Never /\ clock # Never
    BY TimeAssumption DEF TypeInv, TypeOK, Time, Never, LookupInv, ScanInv
  <1>1. pc'[q] = "put" /\ began'[q] = 0 /\ reply'[q] = None
    BY DEF GoOn, TypeInv, TypeOK
  <1>2. ASSUME NEW t \in Time, t + 2 * Timeout < clock
        PROVE  t + Timeout < began[q] /\ t < began[q]
    BY <1>0, <1>2 DEF TimeInv, Source
  <1>3. CASE result' = [result EXCEPT ![q].hole = clock]
    <2>0. /\ result'[q].cves = result[q].cves /\ result'[q].heard = result[q].heard
          /\ result'[q].of = want(q) /\ result'[q].hole = clock
      BY <1>3 DEF TypeInv, TypeOK, Answer, want
    <2>1. ASSUME NEW t \in Time, t + 2 * Timeout < clock PROVE Knows(result[q], t)'
      BY <1>0, <1>2, <2>0, <2>1 DEF OsvInv, Knows, NvdFull, OsvKnows, want, world
    <2>2. \A t \in Time : OnlyNews(result[q], t)'
      BY <1>0, <2>0, ServiceAssumption DEF OsvInv, OnlyNews
    <2>3. HoleInv(result[q], Timeout, clock)'
      BY <1>0, <2>0 DEF HoleInv
    <2>4. PutInv(q)'
      BY <2>1, <2>2, <2>3 DEF PutInv, Good, HoleInv
    <2>5. ServiceInv(q)'
      BY <1>0, <1>1, <2>0 DEF ServiceInv, want
    <2> QED BY <1>1, <2>4, <2>5 DEF ScanInv, NvdInv, OsvInv, TimeInv, DoneInv, Source
  <1>4. ASSUME reply[q] # None, NEW S \in Picks(result[q].cves, reply[q].cves),
               result' = [result EXCEPT ![q] = Added(@, S, "osv")]
        PROVE  ScanInv(q)'
    <2> DEFINE K == result[q].cves \cup S
    <2>1. /\ result'[q].cves = K /\ result'[q].heard = result[q].heard \cup {"osv"}
          /\ result'[q].of = want(q) /\ result'[q].hole = result[q].hole
      BY <1>4 DEF Added, want, TypeInv, TypeOK
    <2>2. Unique(K) /\ Ids(reply[q].cves) \subseteq Ids(K) /\ Ids(result[q].cves) \subseteq Ids(K)
      BY <1>0, <1>4, UniqueUnion, IdsOfUnion DEF ServiceInv
    <2>3. \A x \in S : x.id \notin Ids(result[q].cves) /\ x.from \notin NvdId
      BY <1>0, <1>4, ServiceAssumption DEF Picks, Ids, OsvInv
    <2>9. {x \in K : x.from \in NvdId} = {x \in result[q].cves : x.from \in NvdId}
      BY <2>3
    <2>10. \A x \in K : x.from \in Vuln => x \in S
      BY <1>0, ServiceAssumption DEF OsvInv
    <2> HIDE DEF K
    <2>11. NvdFull(result[q])' <=> NvdFull(result[q])
      BY <2>1, <2>9 DEF NvdFull
    <2>12. OsvKnows(result[q].of)' = OsvKnows(want(q))
      BY <2>1 DEF OsvKnows, world
    <2>4. ASSUME NEW t \in Time, t + 2 * Timeout < clock PROVE Good(result[q], t)'
      <3>1. Knows(result[q], t) /\ t < began[q]
        BY <1>0, <1>2, <2>4 DEF OsvInv
      <3>2. \/ Cardinality(OsvKnows(want(q))) > OsvPage
            \/ \A v \in Vuln : osv[want(q)][v] <= t => Alias[v] \in Ids(K)
        BY <1>0, <1>4, <2>2, <3>1 DEF OsvInv
      <3>3. "nvd" \in result[q].heard =>
              \/ NvdFull(result[q])
              \/ \A i \in NvdId : nvd[CPE[want(q)]][i] <= t => i \in Ids(result[q].cves)
        BY <3>1 DEF Knows, want
      <3>4. Knows(result[q], t)'
        BY <2>1, <2>2, <2>11, <2>12, <3>2, <3>3 DEF Knows, world
      <3>5. ASSUME NEW x \in K, x.from \in Vuln, x.id \in NvdId, "nvd" \in result[q].heard,
                   ~NvdFull(result[q])
            PROVE  nvd[CPE[want(q)]][x.id] > t
        <4>1. x \in S
          BY <2>10, <3>5
        <4>2. ~(nvd[CPE[want(q)]][x.id] <= t)
          BY <2>3, <3>3, <3>5, <4>1
        <4>3. want(q) \in Service /\ CPE[want(q)] \in Cpe
          BY DEF TypeInv, Waits, Cpe
        <4>4. nvd[CPE[want(q)]][x.id] \in Nat /\ t \in Nat
          BY <3>5, <4>3, TimeAssumption DEF TypeInv, TypeOK, Time, Never
        <4> QED BY <4>2, <4>4
      <3>6. OnlyNews(result[q], t)'
        BY <2>1, <2>11, <3>5 DEF OnlyNews, world
      <3> QED BY <3>4, <3>6 DEF Good
    <2>5. ServiceInv(q)'
      BY <1>0, <1>1, <2>1, <2>2 DEF ServiceInv, want
    <2>7. HoleInv(result[q], Timeout, clock)'
      <3>1. ASSUME result'[q].heard # Source PROVE result[q].hole = began[q]
        <4>1. result[q].heard \subseteq Source
          BY DEF TypeInv, TypeOK, Answer
        <4> QED BY <1>0, <2>1, <3>1, <4>1 DEF OsvInv, Source
      <3>2. clock <= began[q] + Timeout
        BY <1>0 DEF TimeInv, Source
      <3> QED BY <1>0, <2>1, <3>1, <3>2 DEF HoleInv
    <2>6. PutInv(q)'
      BY <1>0, <1>1, <2>4, <2>7 DEF PutInv, HoleInv
    <2> QED BY <1>1, <2>5, <2>6 DEF ScanInv, NvdInv, OsvInv, TimeInv, DoneInv, Source
  <1> QED BY <1>3, <1>4

LEMMA SourceLookup ==
  ASSUME TypeInv, LookupInv, NEW q \in Scan, Receive(q) \/ Fail(q) PROVE LookupInv'
  <1>1. ScanInv(q)'
    <2>1. CASE pc[q] = "nvd"
      BY <2>1, AfterNvd DEF Receive, Fail
    <2>2. CASE pc[q] = "osv"
      BY <2>2, AfterOsv DEF Receive, Fail
    <2> QED BY <2>1, <2>2 DEF Receive, Fail, Asks, Source
  <1>2. /\ UNCHANGED <<clock, world, cache>>
        /\ \A r \in Scan \ {q} : pc'[r] = pc[r] /\ began'[r] = began[r]
                                 /\ reply'[r] = reply[r] /\ result'[r] = result[r]
    BY DEF Receive, Fail, GoOn, TypeInv, TypeOK
  <1> QED BY <1>1, <1>2, OthersKeep, EntryKeeps DEF LookupInv

LEMMA PutLookup ==
  ASSUME TypeInv, LookupInv, NEW q \in Scan, Put(q) PROVE LookupInv'
  <1>0. /\ clock \in Nat /\ Timeout \in Nat /\ TTL \in Nat /\ Time \subseteq Nat /\ ScanInv(q)
        /\ UNCHANGED <<clock, world, began, reply, result>> /\ pc[q] = "put"
        /\ want(q) \in Service
    BY TimeAssumption DEF TypeInv, TypeOK, Time, Put, Waits, LookupInv
  <1>1. pc'[q] = "done" /\ \A r \in Scan \ {q} : pc'[r] = pc[r]
    BY DEF Put, TypeInv, TypeOK
  <1>2. ASSUME NEW t \in Time, t + 2 * Timeout < clock PROVE Good(result[q], t)'
    <2>1. Good(result[q], t)
      BY <1>0, <1>2 DEF ScanInv, PutInv
    <2> QED BY <1>0, <2>1 DEF Good, Knows, OnlyNews, NvdFull, OsvKnows, world
  <1>6. /\ HoleInv(result[q], Timeout, clock)
        /\ HoleInv(result[q], TTL + Timeout, clock)
    <2>1. result[q].hole \in Nat
      BY TimeAssumption DEF TypeInv, TypeOK, Answer, Time, Never
    <2> QED BY <1>0, <2>1 DEF ScanInv, PutInv, HoleInv
  <1>3. \A t \in Time : t + TTL + 2 * Timeout < clock => t + 2 * Timeout < clock
    BY <1>0
  <1>4. ScanInv(q)'
    BY <1>0, <1>1, <1>2, <1>3, <1>6
    DEF ScanInv, NvdInv, OsvInv, TimeInv, ServiceInv, PutInv, DoneInv, HoleInv, Source, want
  <1>5. ASSUME NEW c \in Cpe PROVE CacheInv(c)'
    <2>1. CASE cache'[c] = cache[c]
      BY <1>0, <2>1, EntryKeeps DEF LookupInv
    <2>2. CASE cache'[c] = [at |-> clock, answer |-> result[q]]
      <3>1. cache'[c].at = clock /\ cache'[c].answer = result[q] /\ result' = result /\ clock' = clock
        BY <1>0, <2>2
      <3>2. ASSUME NEW t \in Time, t + 2 * Timeout < clock PROVE Good(cache[c].answer, t)'
        BY <1>2, <3>1, <3>2 DEF Good, Knows, OnlyNews, NvdFull, OsvKnows
      <3>3. HoleInv(cache[c].answer, Timeout, cache[c].at)'
        BY <1>6, <3>1 DEF HoleInv
      <3>4. Unique(cache'[c].answer.cves) /\ cache'[c].answer.of \in Service
        BY <1>0, <3>1 DEF ScanInv, ServiceInv, want
      <3> QED BY <1>0, <3>1, <3>2, <3>3, <3>4 DEF CacheInv
    <2> QED BY <2>1, <2>2 DEF Put, TypeInv, TypeOK
  <1> QED BY <1>0, <1>1, <1>4, <1>5, OthersKeep DEF LookupInv

LEMMA NextLookup ==
  ASSUME TypeInv, TypeInv', LookupInv, [Next]_vars PROVE LookupInv'
  <1>1. ASSUME NEW q \in Scan, Return(q) PROVE LookupInv'
    <2>1. pc'[q] = "idle" /\ result'[q] = Nothing
      BY <1>1 DEF Return, TypeInv, TypeOK
    <2>2. ScanInv(q)'
      BY <2>1 DEF ScanInv, NvdInv, OsvInv, TimeInv, ServiceInv, PutInv, DoneInv, Source,
                  Nothing, Blank, Unique
    <2>3. /\ UNCHANGED <<clock, world, cache, began, reply>>
          /\ \A r \in Scan \ {q} : pc'[r] = pc[r] /\ result'[r] = result[r]
      BY <1>1 DEF Return, TypeInv, TypeOK
    <2> QED BY <2>2, <2>3, OthersKeep, EntryKeeps DEF LookupInv
  <1>2. CASE Restart
    <2>1. \A q \in Scan : ScanInv(q)'
      BY <1>2 DEF Restart, ScanInv, NvdInv, OsvInv, TimeInv, ServiceInv, PutInv, DoneInv,
                  Source, Nothing, Blank, Unique
    <2> QED BY <1>2, <2>1, EntryKeeps DEF Restart, LookupInv
  <1>3. CASE UNCHANGED vars
    BY <1>3, OthersKeep, EntryKeeps DEF vars, LookupInv
  <1> QED BY <1>1, <1>2, <1>3, TickLookup, LearnLookup, LookupLookup, RespondLookup,
             SourceLookup, PutLookup DEF Next

\* What every reachable state of the lookups satisfies.
LEMMA CveInvariant == Spec => [](TypeInv /\ LookupInv)
  <1>1. Init => TypeInv /\ LookupInv
    BY InitTypes, InitLookup
  <1>2. TypeInv /\ LookupInv /\ [Next]_vars => TypeInv' /\ LookupInv'
    BY NextTypes, NextLookup
  <1> QED BY <1>1, <1>2, PTL DEF Spec

\* However many scans look services up and whatever they share: what a scan is told
\* misses nothing that a source it heard knew longer ago than the time to live and
\* the timeouts of two requests, unless the source knew more than a page.
THEOREM AnswersFresh == Spec => []AnswersAreFresh
  <1>1. TypeInv /\ LookupInv => AnswersAreFresh
    BY DEF LookupInv, ScanInv, DoneInv, Good, AnswersAreFresh
  <1> QED BY <1>1, CveInvariant, PTL

\* An answer without a source's part is told no longer than the time to live and a
\* timeout after that source failed, for any number of lookups that share entries.
THEOREM HolesForgotten == Spec => []HolesAreForgotten
  <1>1. TypeInv /\ LookupInv => HolesAreForgotten
    <2>1. ASSUME TypeInv, LookupInv, NEW q \in Scan, pc[q] = "done", result[q].heard # Source
          PROVE  result[q].hole # Never /\ clock <= result[q].hole + TTL + Timeout
      <3>1. HoleInv(result[q], TTL + Timeout, clock)
        BY <2>1 DEF LookupInv, ScanInv, DoneInv
      <3>2. result[q].hole \in Nat /\ clock \in Nat
        BY <2>1, TimeAssumption DEF TypeInv, TypeOK, Answer, Time, Never
      <3> QED BY <2>1, <3>1, <3>2, TimeAssumption DEF HoleInv
    <2> QED BY <2>1 DEF HolesAreForgotten
  <1> QED BY <1>1, CveInvariant, PTL

\* Nobody is told of a vulnerability twice, and a record of OSV takes the place of
\* one of NVD only where NVD was not heard, did not know it yet, or had a full page.
THEOREM OneRecord == Spec => []OneRecordPerCve
  <1>1. TypeInv /\ LookupInv => OneRecordPerCve
    BY DEF LookupInv, ScanInv, ServiceInv, DoneInv, Good, OneRecordPerCve
  <1> QED BY <1>1, CveInvariant, PTL
=============================================================================
