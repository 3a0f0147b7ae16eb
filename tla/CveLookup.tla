----------------------------- MODULE CveLookup -----------------------------
(***************************************************************************)
(* The CVE correlator and its cache (internal/cve), as the result loops of *)
(* concurrent scans use them (internal/engine/engine.go).  A lookup reads  *)
(* the cache, asks NVD, asks OSV, and writes the cache, in steps of their  *)
(* own; the sources learn of vulnerabilities at any time, answer, or fail. *)
(* An answer is one page: the program never asks a source for a second.    *)
(*                                                                         *)
(* Time passes while a request is under way, but not for longer than the   *)
(* client's timeout; what the program does itself takes no time.           *)
(***************************************************************************)
EXTENDS Naturals, FiniteSets

CONSTANTS
  Scan,        \* the scans, each with one lookup at a time
  Service,     \* the services, each with one version
  CPE,         \* CPE[s]: buildCPE, several services may share a name
  Covered,     \* the services that mapServiceToEcosystem knows
  NvdId,       \* the identifiers of NVD
  Vuln,        \* the vulnerabilities of OSV
  Alias,       \* Alias[v]: the CVE alias of v, or v when it has none
  NvdPage,     \* resultsPerPage (20), the most records of an answer of NVD
  OsvPage,     \* the most records of an answer of OSV
  None,        \* no entry, no reply, no service
  TTL,         \* how long an entry of the cache is used
  Timeout,     \* of a request (20 s)
  MaxTime,     \* the bound of the clock
  MaxNews      \* the bound of what the sources know

Cpe == {CPE[s] : s \in Service}
Id == NvdId \cup {Alias[v] : v \in Vuln}
\* A record of a vulnerability: its identifier, and what it was made from.
Cve == [id : Id, from : NvdId \cup Vuln]
Source == {"nvd", "osv"}

ASSUME ServiceAssumption ==
  /\ CPE \in [Service -> {CPE[s] : s \in Service}]
  /\ Covered \subseteq Service
  /\ Alias \in [Vuln -> NvdId \cup Vuln]
  /\ NvdId \cap Vuln = {}
ASSUME PageAssumption ==
  /\ NvdPage \in Nat /\ OsvPage \in Nat
  /\ IsFiniteSet(NvdId) /\ IsFiniteSet(Vuln)
ASSUME TimeAssumption == TTL \in Nat /\ Timeout \in Nat /\ MaxTime \in Nat /\ MaxNews \in Nat
Never == MaxTime + 1
Time == 0 .. MaxTime

\* What is known of an answer: the records, and (not in the program) the sources
\* that had their say, the service that OSV was asked for, and when a source last
\* failed it.
Answer == [cves : SUBSET Cve, heard : SUBSET Source, of : Service \cup {None},
           hole : Time \cup {Never}]
Entry == [at : Time, answer : Answer]
Reply == [cves : SUBSET Cve]

ASSUME NoneAssumption == None \notin Service \cup Entry \cup Reply

VARIABLES
  clock,
  nvd,      \* nvd[c][i]: when NVD learned that i concerns the name c, or Never
  osv,      \* osv[s][v]: when OSV learned that v concerns the service s, or Never;
            \* it is not asked about a service it does not cover
  cache,    \* cache[c]: the bucket cve_cache
  pc,       \* pc[q]: idle, nvd, osv, put, done
  began,    \* began[q]: when the request under way was sent, or 0
  reply,    \* reply[q]: what the source has answered, still on its way
  result    \* result[q]: the answer of the lookup so far

world == <<nvd, osv>>
vars == <<clock, world, cache, pc, began, reply, result>>

\* An answer about s at its beginning.
Blank(s) == [cves |-> {}, heard |-> {}, of |-> s, hole |-> Never]
Nothing == Blank(None)
want(q) == result[q].of
Ids(cves) == {x.id : x \in cves}

\* What the sources know: the pairs of a name and a vulnerability of either.
News == Cardinality({x \in Cpe \X NvdId : nvd[x[1]][x[2]] # Never})
        + Cardinality({x \in Service \X Vuln : osv[x[1]][x[2]] # Never})

\* At the start they know one thing.
Init ==
  /\ clock = 0
  /\ nvd \in [Cpe -> [NvdId -> {0, Never}]]
  /\ osv \in [Service -> [Vuln -> {0, Never}]]
  /\ \A s \in Service \ Covered, v \in Vuln : osv[s][v] = Never
  /\ News = 1
  /\ cache = [c \in Cpe |-> None]
  /\ pc = [q \in Scan |-> "idle"]
  /\ began = [q \in Scan |-> 0]
  /\ reply = [q \in Scan |-> None]
  /\ result = [q \in Scan |-> Nothing]

\* A request is under way; OSV is not asked about a service it does not cover, and
\* that counts as an answer without records.
Asks(q) == pc[q] = "nvd" \/ (pc[q] = "osv" /\ want(q) \in Covered)

\* Time passes only while every lookup waits for a source, within its timeout.
Tick ==
  /\ clock < MaxTime
  /\ \A q \in Scan : pc[q] = "idle" \/ (Asks(q) /\ clock < began[q] + Timeout)
  /\ clock' = clock + 1
  /\ UNCHANGED <<world, cache, pc, began, reply, result>>

\* A source learns of a vulnerability.
Learn ==
  /\ News < MaxNews
  /\ \/ \E c \in Cpe, i \in NvdId :
          /\ nvd[c][i] = Never
          /\ nvd' = [nvd EXCEPT ![c][i] = clock]
          /\ UNCHANGED osv
     \/ \E s \in Covered, v \in Vuln :
          /\ osv[s][v] = Never
          /\ osv' = [osv EXCEPT ![s][v] = clock]
          /\ UNCHANGED nvd
  /\ UNCHANGED <<clock, cache, pc, began, reply, result>>

-----------------------------------------------------------------------------
\* Fault: an entry expires a moment late.
HitLate(e) ==
  IF e = None THEN FALSE ELSE e.answer.cves # {} /\ clock <= e.at + TTL + 1

\* Cache.Get: a missing and an expired entry are both nil, and so is an entry
\* without vulnerabilities, which was stored as null.
Hit(e) == IF e = None THEN FALSE ELSE e.answer.cves # {} /\ clock <= e.at + TTL

\* runScan looks a service with a version up: the cache answers, or (also when it
\* cannot be read) the sources are asked.
Lookup(q, s) ==
  LET e == cache[CPE[s]] IN
  /\ pc[q] = "idle"
  /\ \/ /\ Hit(e)
        /\ pc' = [pc EXCEPT ![q] = "done"]
        /\ result' = [result EXCEPT ![q] = e.answer]
        /\ UNCHANGED began
     \/ /\ pc' = [pc EXCEPT ![q] = "nvd"]
        /\ began' = [began EXCEPT ![q] = clock]
        /\ result' = [result EXCEPT ![q] = Blank(s)]
  /\ UNCHANGED <<clock, world, cache, reply>>

\* What NVD knows of a name, and what OSV knows of a service.
NvdKnows(c) == {i \in NvdId : nvd[c][i] # Never}
OsvKnows(s) == {v \in Vuln : osv[s][v] # Never}

\* The first page of what is known: all of it where it fits, or what the source
\* puts first.
FirstPages(known, size) ==
  IF Cardinality(known) <= size THEN {known}
  ELSE {page \in SUBSET known : Cardinality(page) = size}

\* The records that queryNVD and queryOSV make of an answer.
Records(page) == {[id |-> IF x \in Vuln THEN Alias[x] ELSE x, from |-> x] : x \in page}

\* A source answers with a page of what it knows now.
Respond(q) ==
  /\ pc[q] \in Source /\ reply[q] = None
  /\ \E page \in IF pc[q] = "nvd" THEN FirstPages(NvdKnows(CPE[want(q)]), NvdPage)
                 ELSE FirstPages(OsvKnows(want(q)), OsvPage) :
       reply' = [reply EXCEPT ![q] = [cves |-> Records(page)]]
  /\ UNCHANGED <<clock, world, cache, pc, began, result>>

GoOn(q) ==
  /\ pc' = [pc EXCEPT ![q] = IF @ = "nvd" THEN "osv" ELSE "put"]
  /\ began' = [began EXCEPT ![q] = IF pc[q] = "nvd" THEN clock ELSE 0]
  /\ reply' = [reply EXCEPT ![q] = None]

Unique(cves) == \A x, y \in cves : x.id = y.id => x = y

\* Fault: the records of a source are told apart among themselves only.
PicksOwn(known, found) == {S \in SUBSET found : Unique(S) /\ Ids(S) = Ids(found)}

\* One record for each identifier that is new: the first of the answer, whose order
\* is the source's.
Picks(known, found) ==
  {S \in SUBSET found : Unique(S) /\ Ids(S) = Ids(found) \ Ids(known)}

\* The answer a with the records S of a source.
Added(a, S, source) ==
  [cves |-> a.cves \cup S, heard |-> a.heard \cup {source}, of |-> a.of, hole |-> a.hole]

\* The answer arrives, and what is new in it is added.
Receive(q) ==
  /\ pc[q] \in Source /\ reply[q] # None
  /\ \E S \in Picks(result[q].cves, reply[q].cves) :
       result' = [result EXCEPT ![q] = Added(@, S, pc[q])]
  /\ GoOn(q)
  /\ UNCHANGED <<clock, world, cache>>

\* The request fails, or the scan is cancelled: the lookup goes on without.  An
\* answer that is lost on its way might as well not have been given.
Fail(q) ==
  /\ Asks(q) /\ reply[q] = None
  /\ result' = [result EXCEPT ![q].hole = clock]
  /\ GoOn(q)
  /\ UNCHANGED <<clock, world, cache>>

\* Cache.Put stamps the answer with the present time, whatever the sources said,
\* and replaces what another lookup stored meanwhile; it may fail unnoticed.
Put(q) ==
  /\ pc[q] = "put"
  /\ \/ cache' = [cache EXCEPT ![CPE[want(q)]] = [at |-> clock, answer |-> result[q]]]
     \/ UNCHANGED cache
  /\ pc' = [pc EXCEPT ![q] = "done"]
  /\ UNCHANGED <<clock, world, began, reply, result>>

\* The answer is attached to the result of the scan.
Return(q) ==
  /\ pc[q] = "done"
  /\ pc' = [pc EXCEPT ![q] = "idle"]
  /\ result' = [result EXCEPT ![q] = Nothing]
  /\ UNCHANGED <<clock, world, cache, began, reply>>

\* The process restarts; the cache is a file.
Restart ==
  /\ \E q \in Scan : pc[q] # "idle"
  /\ pc' = [q \in Scan |-> "idle"]
  /\ reply' = [q \in Scan |-> None]
  /\ began' = [q \in Scan |-> 0]
  /\ result' = [q \in Scan |-> Nothing]
  /\ UNCHANGED <<clock, world, cache>>

Next ==
  \/ Tick \/ Learn \/ Restart
  \/ \E q \in Scan :
       \/ \E s \in Service : Lookup(q, s)
       \/ Respond(q) \/ Receive(q) \/ Fail(q) \/ Put(q) \/ Return(q)

Spec == Init /\ [][Next]_vars

-----------------------------------------------------------------------------
(***************************************************************************)
(* Properties                                                              *)
(***************************************************************************)

TypeOK ==
  /\ clock \in Time
  /\ nvd \in [Cpe -> [NvdId -> Time \cup {Never}]]
  /\ osv \in [Service -> [Vuln -> Time \cup {Never}]]
  /\ cache \in [Cpe -> Entry \cup {None}]
  /\ pc \in [Scan -> {"idle", "nvd", "osv", "put", "done"}]
  /\ began \in [Scan -> Time]
  /\ reply \in [Scan -> Reply \cup {None}]
  /\ result \in [Scan -> Answer]

\* NVD's answer was a page full, so that there may be more.
NvdFull(a) == Cardinality({x \in a.cves : x.from \in NvdId}) = NvdPage

\* The answer a knows whatever the sources it heard knew by the time t, unless it
\* has a full page of NVD's, or OSV knows more than a page; of OSV, what was known
\* of the service it was made for.
Knows(a, t) ==
  /\ "nvd" \in a.heard =>
       \/ NvdFull(a)
       \/ \A i \in NvdId : nvd[CPE[a.of]][i] <= t => i \in Ids(a.cves)
  /\ "osv" \in a.heard =>
       \/ Cardinality(OsvKnows(a.of)) > OsvPage
       \/ \A v \in Vuln : osv[a.of][v] <= t => Alias[v] \in Ids(a.cves)

\* What a scan is told of a service misses nothing that a source it heard knew
\* longer ago than the time to live and the timeouts of two requests, as long as
\* that source's knowledge fits on a page: however lookups of other scans overtake
\* it, overwrite its entry or stamp an older answer anew, and across restarts.  It
\* may have been made for another service of the same name, and without a source
\* that failed.
AnswersAreFresh ==
  \A q \in Scan : pc[q] = "done" =>
    \A t \in Time : t + TTL + 2 * Timeout < clock => Knows(result[q], t)

\* An answer that a source had no part in is told no longer than the time to live,
\* and the timeout of the other source's request, after that source failed: the
\* cache keeps it like a whole one, but other lookups, entries overwritten and
\* restarts do not prolong it.
HolesAreForgotten ==
  \A q \in Scan : pc[q] = "done" /\ result[q].heard # Source =>
    result[q].hole # Never /\ clock <= result[q].hole + TTL + Timeout

\* The records of OSV that have an identifier of NVD were not known there by the
\* time t, if it was heard, or were not on its page.
OnlyNews(a, t) ==
  \A x \in a.cves :
    x.from \in Vuln /\ x.id \in NvdId /\ "nvd" \in a.heard =>
      NvdFull(a) \/ nvd[CPE[a.of]][x.id] > t

\* Nobody is told of a vulnerability twice, under the alias of OSV either, and a
\* record of OSV takes the place of one of NVD only where NVD was not heard, did
\* not know it yet, or knew more than the page it was asked for.
OneRecordPerCve ==
  \A q \in Scan :
    /\ Unique(result[q].cves)
    /\ pc[q] = "done" =>
         \A t \in Time : t + TTL + 2 * Timeout < clock => OnlyNews(result[q], t)
=============================================================================
