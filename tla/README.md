# Corvus: verification project

TLA+ models, TLC configurations and TLAPS proofs for the Corvus server side
(`src/`), a Go service that scans networks, stores the history of every port,
announces changes, shares results between nodes and sells a paid plan.

- [1. The system](#1-the-system)
- [2. Modules](#2-modules)
- [3. Runs](#3-runs)
- [4. Fairness](#4-fairness)
- [5. Proofs](#5-proofs)
- [6. Disagreements found](#6-disagreements-found)
- [7. Abstractions](#7-abstractions)
- [8. What is not modelled, and the plan](#8-what-is-not-modelled-and-the-plan)

Run a model with `tlc -config X.cfg M`, check a proof module with `tlapm M.tla`.

## 1. The system

The command's main package is not in the repository; how it wires the parts is
taken from how they use each other.

| component | state | operations | talks to |
|---|---|---|---|
| scan engine (`internal/engine`) | `jobs`, `subscribers`, under `mu` | StartScan, runScan (a goroutine per scan), Subscribe, the evictor | scanner, anomaly engine, store manager, usage log, clients |
| scanner (`internal/scanner`) | job and result channels, workers, limiter | Scan: feeder, workers, close | engine (result channel) |
| anomaly engine (`internal/anomaly`) | `seenPorts`, one engine per scan | Process, Flush, dispatch, diff | store, sinks |
| target, ports and their order (`pkg/iprange`, `internal/osint`) | an address space; a profile per scan, changed by three goroutines | Parse, ParsePorts, Predict, PrioritisePorts | engine; DNS, BGP and certificate services |
| temporal store (`internal/store`) | bbolt buckets of states and alerts, one file per user | WriteState, ReadLatestState, ReadOpenPorts, ReadHistory, WriteAlert, ... | anomaly engine, API, query engine |
| store manager (`internal/store/manager.go`) | map of open stores | GetStore, CloseAll | engine, API |
| query engine, LLM client (`internal/query`, `internal/llm`) | none of their own | Parse, Execute, Ask | store; a model provider |
| API and WebSocket (`internal/api`) | none of its own | StartScan, StreamScan, read handlers | engine, store |
| billing (`internal/billing`) | rows of users, subscriptions, payments, usage_logs | CreateCheckout, Webhook, VerifyPaystack, CryptoCheckout, VerifyCrypto, CancelSubscription, QuotaMiddleware, usage log | Paystack, chain explorer, PostgreSQL |
| authentication, API keys (`internal/auth`, `internal/apikey`) | rows, signed tokens | Login, Refresh, Forgot, Reset, key create and validate | PostgreSQL, mail |
| mesh (`internal/mesh`) | peers, seen identifiers, incoming channel | Join, Broadcast, readLoop, heartbeatLoop | other nodes (UDP) |
| CVE correlator (`internal/cve`) | cache with expiry | Lookup, Get, Put | NVD, OSV |
| mail (`internal/mail`) | bounded queue, workers | the Send functions, Close | SMTP |
| terminal UI (`internal/tui`) | tabs, focus, the running scan, its messages | Update, startScanJob, nextScanResult | engine, store |
| the rest | - | response rules, fingerprints, supply-chain table, Nmap import, commands | - |

`PROJECT.json` lists all of them, with their status, and the hazards at their
lines.  The behaviours that are hard here:

- **Scans of one user share one store.**  Nothing stops a second scan; `Process`
  reads the latest state and writes the new one in two transactions, and `Flush`
  works through a list it read before it began to write.
- **Cancellation** may strike between any two steps of feeder, workers, limiter,
  result loop and flush.
- **Channels** are bounded, are closed by one side, and are sent on by others.
- **Clients come and go** while the scan they follow ends and its job is evicted.
- **SQL statements without a transaction**: webhook and verification of one
  payment, the quota gate and a renewal interleave; any statement may fail and
  the server may restart between two.
- **Readers** of a store read host by host and port by port, in transactions of
  their own, while scans write.
- **One page**: NVD and OSV answer with the first records of what they know, and are
  not asked for more.
- **A cache** is read, filled from two services that may fail, and written, while
  others do the same for a service of the same name, and entries expire.
- **Copies age**: the plan in a token, a reset link in a mail queue.
- **Messages** of the dashboard go to whichever view is active, and the next one is
  asked for by the view that handles the last.
- **UDP** loses, repeats and reorders; relays pass messages on under the name of
  the node that broadcast them.

What makes each component correct:

- anomaly engine and store: every change is announced once, in order, and agrees
  with the store; nothing that answered is announced as closed; history does not
  go back in time;
- scanner: each port is probed at most once, no result is lost without a
  cancellation, nothing is sent on a closed channel, everybody terminates;
- job registry: the job of a running scan is registered; followers receive what
  they are owed, are told the end, and only then;
- billing: no upgrade without a charge, no charge without an upgrade, a bounded
  free quota, a cancelled plan that lasts to the end of the period;
- mesh: a share arrives at most once, nobody is a peer of itself, the table knows
  every peer by its own address;
- scan plan: what is scanned is what was asked for, in the order of the evidence,
  whoever of the three sources answers first;
- CVE lookups: an answer misses nothing that a source it heard knew long enough
  ago, as far as a page reaches, is not told for long without a source that failed,
  and reports every vulnerability once;
- readers and store manager: every row of an answer was true while it was read,
  nothing that was there all the time is missing, one handle is open on a file;
- accounts and mail: nobody is served with a plan that is too old, or without one
  but on a link just asked for, a password changes only after a recent request, and
  an accepted mail goes on while a worker has a server that answers;
- dashboard: the list shows the present scan, a message of one scan does not stop
  another, and the view ends.

## 2. Modules

| module | models | state and steps |
|---|---|---|
| `TemporalStore` | `store/store.go` | operators on a bucket.  `tsKey` makes the time the key, so `PutAt` replaces the value of the same time and the cursor order is the order of time |
| `AnomalyScan` | `runScan` from results to flush, `anomaly/engine.go` | per scan: phase, step, probes, results, `seen`, the record and its predecessor, events to dispatch, addresses and ports still to flush.  Every bbolt transaction is a step (`TakeResult` reads, `WriteState` writes, `Dispatch` stores and sends one alert, `FlushHost` and `FlushPort` read); a transaction may fail |
| `PortLifecycle` | what a reader of the store and the alerts is promised | abstract: a change is stored, then announced, before the next one |
| `ScanPool` | `scanner.go`, `syn.go`, `udp.go` (the same pool) and the `for range` of `runScan` | feeder, a program counter per worker, channels, cancellation |
| `ScanStream` | what `Scanner.Scan` promises | abstract: the open ports, each once, then the end; all of them unless cancelled |
| `JobChannels` | what registry and dashboard share | the jobs, the capacity of a channel, the bound of results |
| `JobFeed` | what `Engine.Subscribe` promises a follower | abstract, per follower: results published, the scan over or not, the channel none, open or closed, and what is in it |
| `JobRegistry` | `jobs` and `subscribers`, `runScan`, evictor, `Subscribe`, `StreamScan` | what runs under `Engine.mu` is one step; a channel per client with its buffer, `closed`, and the clients that missed results |
| `Billing` | checkouts, webhook, both verifications, cancellation, quota gate, usage log, token refresh, for one user among others | payments are the rows of all users (`foreign`: those of others), as anybody may have any reference verified; one SQL statement per step, `pc[q]` the next statement of request `q`; `Works`/`Fails` per statement; `Crash` ends every request where it stands; `usage` and `started` are the times of the log entries and of the free scans |
| `Mesh` | `mesh/mesh.go` | packets in flight, peer tables, seen identifiers, deliveries; `HandleMsg` is one step |
| `ScanPlan` | `iprange.go`, `osint/*.go`, the beginning of `runScan` | IPv4 and IPv6 addresses of a few bits that wrap round, and a memory for so many of them; `stage` is how far the plan has come, a part of the target and an address of it (`WalkPart`) are steps; the three sources answer (`LookUp`) and merge (`Merge`) in any order, or fail; the ports are listed (`ListPort`) and sorted (`PlacePort`) one by one |
| `CveLookup` | `cve/correlator.go`, `cve/cache.go` | per scan one lookup: cache, NVD, OSV, write of the cache; the sources learn (`Learn`), answer with a page (`Respond`), the answer arrives (`Receive`) or does not (`Fail`); entries expire with the clock; `Restart` keeps the cache |
| `Readers` | `query/engine.go`, `handlers/hosts.go`, `query.go`, `ask.go`, `tui/view_hosts.go`, `view_query.go`, `store/manager.go`, the reading half of `store.go` | a reader's transactions are steps (`ResolveHosts`, `OpenPorts`, `LatestState`, `History`), between which scans write (`WriteState`); `GetStore` and `OpenStore` are the two looks of the manager at its map |
| `Accounts` | `auth/*.go`, `apikey.go`, `mail/service.go`, the order of middlewares in `server.go` | rows, keys, tokens and links; a request reads in one step and acts in another; what the middlewares accept (`Bearer`) are tokens and the tokens of links; the mail queue, its workers, and servers that stop answering (`Stall`) |
| `TuiScan` | `tui/app.go`, `view_scan.go`, what takes keys in the other views | a key per action, guarded by tab, focus and detail page; one command per started scan, waiting on a channel or holding a message; `PublishResult` and `EndScan` are the engine |
| `AnomalyScanProofs`, `ScanPoolProofs` (pool and plan), `JobRegistryProofs` (registry and dashboard), `BillingProofs`, `MeshProofs`, `CveLookupProofs`, `ReadersProofs`, `AccountsProofs` | - | theorems and proofs |
| `MCAnomalyScan`, `MCBilling`, `MCMesh`, `MCScanPlan`, `MCCveLookup`, `MCReaders`, `MCAccounts` | - | the symmetry and the definitions of the instances |

Definitions carry the names of the code; `PROJECT.json` ("map") gives the lines
of each.  Operators with a comment that begins with "Fault" are not used by the
specifications: they are mutations of the definition below them, a plausible bug
each, that show that the properties can tell (`PROJECT.json`, "mutants").

How the models fit together: `ScanPool` implements `ScanStream`, and
`AnomalyScan` uses such a stream (its `ProbeUp`, `DropResult`, `EndCollect` are
the steps of a stream seen from the result loop).  `JobRegistry` follows the same
result loop from the side of the registry; that a started scan ends, which its
fairness assumes, is `ScanPool`'s `Terminates`.  `ScanPlan` ends where `ScanPool`
begins: its list of addresses and ports are the jobs.  `Readers` and `AnomalyScan`
use the same operators on buckets (`TemporalStore`): one module has the writers
in full, the other the readers.  `TuiScan` is a client of the registry that
`JobRegistry` has for WebSockets: both implement `JobFeed`, so what the dashboard
assumes of the engine with its `PublishResult` and `EndScan` is what the registry
gives each of its clients.  `Accounts` sees of `Billing` that a plan
changes at any time.

## 3. Runs

| run | instance | shows |
|---|---|---|
| `anomaly_serial` | 1 address, 2 ports, 1 scan at a time, repeated; one drifting text with two values; clock 0..1 | alerts implement `PortLifecycle`; at the end of an uncancelled scan the store says what was probed; drift only of ports announced as open; the inductive invariant `SerialInv` |
| `anomaly_overlap` | 1 port, 2 overlapping scans, failing transactions | what survives overlap: `AnsweringIsNotClosed`, `LatestNeverRewinds` |
| `scan_pool` | 4 jobs, 2 workers, channels of 1, rate limiter | no send after close, no double probe, refinement of `ScanStream`, termination |
| `jobs` | 2 scans with up to 2 results, 2 clients, channels of 1 | every follower is served as `JobFeed` says, registry and channel safety, complete streams, every early client is told the end |
| `billing` | four small accounts (below); 1 reference and 1 transaction, own or foreign, 1 fault, clock 0..2, up to 3 requests at a time and 4 scans, limit 1 | no upgrade without a charge, settled payments are applied without faults, bounded quota overshoot |
| `billing_cancel` | 1 payment, 1 request, no fault | violated: `LapsesAtPeriodEnd` |
| `mesh` | 3 nodes, 1 share, TTL 1 (two hops), 2 packets in flight | a share is delivered at most once, nobody is a peer of itself |
| `tui` | 2 scans of 2 results, one after the other, channel of 1 | the channels of the view are those of `JobFeed`, the list has results of the present scan, contexts are cancelled after the end of their scan, the view ends unless a message was lost |
| `scan_plan` | 8 IPv4 and 16 IPv6 addresses, targets of one part and many of two, ranges of at most 3, memory for less than 5 addresses, ports 0..3, with and without prediction | what is scanned is what was asked for; the scores are what the sources found, whoever was first; a refusal, or an exhausted memory, has a reason |
| `cve` | 2 scans, 2 services of one name, pages of 1, time to live and timeout of 1, clock 0..4, the sources know up to 2 things | bounded staleness (`AnswersAreFresh`) across expiry, overwriting, failures and restarts; an answer without a source is forgotten (`HolesAreForgotten`); one record per identifier |
| `accounts` | 1 user, key and request, 2 workers, tokens that live 2 and links that live 1, clock 0..2, queue of 1, 2 mails, 2 tokens | plans are recent, passwords change within the life of a link after a request, accepted mails go on |
| `readers` | 1 reader and 1 scan, 2 hosts with a port each, 2 records that may be late by 1, 2 openings of the file, 1 failing transaction | answers are true and complete, one handle |

Why these bounds are enough for the cases that matter:

- *Anomaly.*  Two ports of one address let a flush skip one and close the other;
  a scan that repeats for ever gives every sequence of appear, drift, disappear;
  two clock values give records of equal and of different time (equal times
  collide in the store).  Two scans on one port are the smallest overlap.
- *Pool.*  Channels of capacity one are full after one element, so each side
  waits for the other; with four jobs there are jobs that are delivered, probed,
  queued and not yet sent at the moment of a cancellation.
- *Jobs.*  With capacity one and two results a client is slow after one missed
  read; two scans show that closing the channels of one leaves the other alone.
- *Billing.*  Payments and scans together are far too many states, so the run has
  four small accounts at once, which a state constraint (`Scope` of `MCBilling`)
  keeps apart: payments only, with two requests at a time (a webhook racing a
  verification, the user racing another one) and a fault at every possible
  statement; a scan beside a request about a payment; periods that run out, are
  cancelled and renewed, with a scan, one request at a time; and the quota, with
  three requests, four scans and a window that moves on.  Period and window are one
  tick, so both can pass.  The limit is one instead of five.  The theorems have no
  such scope.
- *Mesh.*  Three nodes and one relay; two packets in flight can overtake each
  other.  Larger meshes are covered by the theorems.
- *Dashboard.*  A second scan is what a message of the first can be mistaken for;
  with a channel of one a result is dropped, and the first scan may end before,
  while and after its messages are handled.
- *Scan plan.*  Three bits put the last address, where the loop wraps round,
  within the reach of blocks and ranges; some ranges pass the limit of three
  and some do not; of the blocks, IPv4 and IPv6, some fit into the memory and some
  do not, and a long block after a short part does not where it would alone; the port texts overlap, are upside down, begin at 0, are bad or blank.
- *CVE.*  Two services of one name share an entry, two scans overtake each other;
  four units of time are enough for an answer to be made, to be stored, to be
  used at the last moment and to be missed at the next.  With pages of one and two
  things known, a page is full, and one record stays behind.
- *Accounts.*  A token is made and dies within the clock; a queue of one drops the
  second mail; a link comes too late; one of two workers is held up while the other
  goes on, or both are.  More users and requests are covered by the
  theorems.
- *Readers.*  Two hosts are the smallest reading that a write can fall into the
  middle of; the second record can be newer than the first, older, or of the same
  time; the second opening races the first or follows `CloseAll`.

Counters that the code does not bound are bounded in guards: `MaxTime`,
`MaxResults`, `MaxFaults`, `MaxScans`, `MaxNet`,
`MaxNews`, `MaxTokens`, `MaxMails`, `MaxWrites`, `MaxHandles`.  `MaxHosts` and
`QueueCap` are bounds of the code, `Memory` one of the machine.

Deadlock is not checked, because every one of these systems may stop: scans need
not be started, the clock has a bound, a finished pool has nothing left to do.
That nobody waits for ever is stated as liveness where it matters (`Terminates`,
`EarlyClientsComplete`, `ViewEnds`, `MailGoesOn`).

## 4. Fairness

- `ScanPool`: weak fairness of the feeder, of each worker and of the result loop.
  The Go scheduler runs every goroutine that can run, and probes and limiter
  waits are bounded by timeouts.  A cancellation is never forced.
- `JobRegistry`: weak fairness of a started scan and of the handler of an open
  connection.  Nobody has to start a scan, to connect or to disconnect.
- `TuiScan`: weak fairness of the rest of `startScanJob`, of the end of a scan, of a
  command that waits and of the delivery of its message: Bubble Tea runs every
  command as a goroutine and its loop takes every message.  No key need be
  pressed.
- `Accounts`: weak fairness of the mail workers, which loop over the channel.  A
  send ends, with or without success, as long as the server answers; it may stop
  answering at any time (`Stall`), since `smtp.SendMail` has no deadline, and then
  nothing is promised of the worker.
- The other modules state safety only and assume no fairness: payments, requests,
  packets and questions need not come.

## 5. Proofs

All theorems hold for every value of the constants, under the `ASSUME`s of the
modules only (non-empty finite set of workers, positive capacities, natural
bounds, `nil` distinct from records), unless said otherwise.  One assumption says
something of numbers: `PowersOfTwo` states the laws of `2^n` that the plan's blocks
need (it divides `2^Bits` and `2^Wide`; it is 1, 2 and 4 or more for 0, 1 and more),
because the proof system has no facts about powers (TLC evaluates it).  Nothing is
assumed of the size of the memory.

**`AnomalyScanProofs`.**  `TypeCorrect` comes with `HasLast` (a bucket with a
record has a last one): `ReadLatest` chooses a record, and its type needs that
one exists, which holds because `PutAt` never removes the last key without
putting one that is as late.  `KeysInv` (a bucket has one record of a time, and
neither it nor a record in flight is of the future) is an invariant that the others
rest on; it is not listed, since it restates the keys of the store.  `NeverRewinds`
follows from it and the lemmas about `PutAt`.  `AnswersCorrect` (any overlap, failing transactions) uses
`AnswersInv`: each answer is on its way, in `seen`, or its scan is cancelled, and
what a flush writes was not seen.

`SerialCorrect`, `LifecycleCorrect` and `DriftCorrect` assume `NoOverlap` (one
scan of a user at a time) and `~StoreMayFail`; without either they are false
(two overlapping scans announce one change twice, and a lost write is announced
again).  `PortLifecycle`'s
steps need to know, at `WriteState`, that the predecessor the scan read is still
the latest record and not younger than the new one, and, at `Dispatch`, that the
event to be sent is exactly the one by which listener and store differ.
`SerialInv` says so for each step of the scan (`ResultsInv`, `WriteInv`,
`DispatchInv`) and that nobody else differs (`Agreement`); it is inductive
together with `TypeOK`, `HasLast` and `KeysInv`, and is also checked by TLC.

`ReflectsCorrect` (the same two assumptions) needs what the store says while a scan
is under way: what the scan has seen answered it, and the store calls it open
unless its record is just being written; and during the flush an endpoint of a
scanned address that is open and was not seen is still ahead, with its address,
in the list of that address, or in the record being written (`ReflectInv`).  When
nothing is ahead any more, open and answered are the same.  With `AnswersInv`,
nothing that answered is missing in `seen`.

**`ScanPoolProofs`.**  `PoolInv`: a worker holds a job exactly between receiving
and sending it, two workers never hold the same, a job beyond `taken` is
untouched, and without a cancellation every open job that was taken is in the
channel, delivered or in some worker's hands.  `PoolIsStream`: when the loop ends
without a cancellation all workers are done, hence (there is at least one) all
jobs are taken, hence all open ones are delivered; every other step is a step of
`ScanStream` or does not change what it sees.

`PoolIsNeverStuck` and `PoolOnlyAdvances` prove what `Terminates` rests on, less
the fairness.  `SomeoneCanStep` spells out the guards of the goroutines (on the
instance of `ScanPool.cfg` TLC finds them equal to `ENABLED` of their steps).  Until
the loop has ended one of them holds: a full result channel can be emptied, an empty
one takes the result of a worker that waits, and when all workers wait for a job the
feeder can send one or close the channel; they cannot all have left while it feeds
unless it sees the cancellation too.  And each step takes a job, which happens
`Jobs` times at most, or moves the feeder, a worker within its job, the loop or the
cancellation forward and nothing back, so there are finitely many.  What remains for
TLC is that fairness turns "can step" into a step.

The module also has the properties of `ScanPlan`.  `PlanScores`: `GatherInv` says that the scores of the profile are, at every moment,
the best of what its names and its provider say, and that the provider is unknown
until its goroutine is over (each goroutine writes once, or a second provider
would leave the scores of the first behind).  The order of the goroutines then
does not matter, since `BestOfBoth` makes boosting the best of a union.  That a
set of scores has a greatest one (`MaxExists`) comes from the well-foundedness of
the natural numbers.  `PlanRefusals` and `PlanAsked` follow from one invariant, `PlanInv`, with a part for
each loop:

- `WalkInv` counts, in a range that does not end at the last address and in a block
  that is not everything, the addresses of the chunk from the first one to the
  cursor.  A block that is not everything is at most half of the addresses of its
  width, so that a loop that wraps round leaves it (`BlockTurn`); a range is refused
  when the count passes `MaxHosts`, memory is exhausted when the count and the
  addresses before it reach `Memory`, and the count is the size of what lies behind.
  `Families` keeps the two widths apart: no step leads from one to the other.
- `TargetInv`: the parts read are good ones, the addresses are what they mean
  (`Asked` of a prefix of the target), and the chunk is the addresses from the first
  one on (`Collected`).  When a loop ends it has collected all of its part
  (`CollectedIsMeant`): the loops that wrap round never end, a block is as long as
  its size (`BlockOf`), and it loses two addresses just if it has four or more.
- `PortsInv`: the ports listed are those that the parts read name, and those of the
  present part below `port`.
- `NextInv`: the first address has a profile when the sort begins.
- `OrderInv`: before the sort, the ports stand in the order in which they are named
  first; during it, those up to `place` by score and then by that order, and the
  rest after them as before.  `PlaceSorts` carries this over the move of one port;
  an order that is strict has no port twice.
- `ReadRefused`: why a request is refused once its target is read.

`FlattenSeq`, by which `Asked` is defined, is a recursive function of the community
modules.  What it does to a sequence that grows by one element (`FlattenAppend`) is
an induction over the length, which is done by hand here: the library's theorems
take an operator, so `FlattensExists` and `FlattensUnique` look at the least length
at which the claim fails (`LeastExists`).

**`JobRegistryProofs`.**  `JobInv` adds to the properties who is subscribed
(`ClientInv`) and, per channel, `Holds`: what is in it is increasing and no more
than is owed, and exactly what is owed for a client that missed nothing.
Lemmas about appending, missing and receiving a result carry `Holds` over the
steps.  `JobEndReachesClients` is what `EarlyClientsComplete` rests on: whichever
step ends a scan closes the channel of each client that streams it.  That needs the
invariant: a scan whose job was evicted would end without closing anything
(`Begin`), and `RunningIsRegistered` rules that out.

`JobsServeClients` and `TuiServesView` are refinements of `JobFeed`, step by step:
what a step of the registry or of the dashboard does to the channel of each
follower is one of publishing, ending, subscribing, receiving and resting.
Publishing and ending touch the followers of one scan only, which needs
`ChannelsAreOpen` and `ClientInv` in the registry, and in the dashboard `LineInv`:
a channel is closed only after the end of its scan, and nobody subscribes twice.

The dashboard's properties about its view follow from `TuiInv`.  As long as esc was
not pressed, only the command of the present scan is alive, and only while the
view runs (`CommandInv`); a message for the end is held only when the channel is
closed.  Then whatever is delivered is of the present scan, and what is shown,
what a command holds and what waits in the channel are in that order (`OrderInv`).
After esc a command of the old scan lives on, and takes results of the new one:
that is why both properties are about dashboards without it.

**`BillingProofs`.**  `ChargeInv`: a request past the question to Paystack, and a
webhook from the start, works on a reference that was charged, and a request that
upgrades works on one that was charged or on a transaction that was confirmed.  The
charge may be another user's.
`SettledUnlessFault` is inductive beside `TypeOK`: the request that settles a
payment stands between the mark and the subscription from then on, only a fault
takes it away from there, and a subscription never loses its row.  A payment that
another user had verified is marked without anything for its owner (`strayed`), and
is not covered.
`QuotaIsBounded` counts.  `StartsAreLogged` compares, for every time at once, the
free scans started and the entries logged since then: what is missing waits to be
logged or was lost by a fault, and a fault loses at most one entry of each
request.  All times, because the window moves: what was true of the old window
says nothing about the new one.  `QuotaInv` adds the requests that are past the
gate, each of which had found fewer than `Limit` entries in the window.

**`MeshProofs`.**  `MeshInv`: a packet that a node sends to itself is its own; a
share names the node that broadcast it; and as long as a share that a node took is
in flight, the node remembers it.  The last conjunct is why expiry is harmless.

**`CveLookupProofs`.**  The invariant `LookupInv` gives every answer a horizon, the
time before which it knows whatever the sources it heard knew and have on a page: the
time its request was sent for a reply, that less a timeout once the second request is
under way, the time of the entry less two timeouts in the cache, and the bound of
`AnswersAreFresh` once it is returned.  What the sources learn is later than all
horizons (`LearnsLater`), so they stay true by themselves; `Tick` may not pass a
timeout, which is what makes them advance.  A page that is full is an answer about
which nothing more is said: NVD's stays full once it is in the answer, as NVD is asked
first (`RecordsCount`), and what OSV knows only grows (`LearnFillsPages`).
`OneRecord` needs the same horizon: a record of OSV under an identifier of NVD is there
only because NVD did not know it, or had a full page.  `HolesForgotten` has a horizon
of the other kind (`HoleInv`): an answer without a source is stored at most a timeout
after that source failed, and told at most the time to live later.

**`ReadersProofs`.**  `ReadInv` says of a reading under way that its rows were seen
(`held`), that the present records have been seen, and that a port that has
matched all the time is in the answer, was lost with its host, or is still to be
read (`SteadyInv`).  `LatestOfPast` connects `ReadHistory` with the latest
record: the last record of the time range is the last record, if it has one.
`HandleInv` is the invariant of the double check in `GetStore`: `live` is empty
exactly if the map is.

**`AccountsProofs`.**  `TokenInv` dates the plan of a token: it is the present one,
or was lost so late that the token expires within its life after that.
`WorkInv` says that what a request has read is of this moment.  `LinkInv` bounds
the expiry of every link, in a queue, with a worker or in an inbox, by the last
request; so whoever is served without a plan, for the token of a link, has asked for
it within its life (`BearerHolds`), while a token that it was exchanged for has a plan
again, the present one.  `ResetsFollowForgot` is an action property: the invariant together with
the fact that, of the steps, only `Reset` changes a password of an account that
exists.

Only model-checked: the liveness properties (`Terminates`,
`EarlyClientsComplete`, `ViewEnds`, `MailGoesOn`), because the proof system has
no support for fairness here; for the first two, what they rest on besides fairness
is proved (`PoolIsNeverStuck`, `PoolOnlyAdvances`, `JobEndReachesClients`).  Every other property of a passing run is a theorem.
The types of `JobRegistry` and `TuiScan` are theorems only (`JobTypes`, `TuiTypes`).

## 6. Disagreements found

One has a run: a subscription cancelled at period end is taken for expired by the
quota gate at the next scan (`billing_cancel`, described with its lines under
"findings" in `PROJECT.json`).

The others were met while reading; the models follow the code in each, and the
properties above are stated so that they hold with them.

In the scans and the registry:

- A cancelled scan, or one with fewer ports than the last, announces ports as
  closed that it never probed: `Flush` takes what was not seen for closed.
- Overlapping scans of one user announce one change twice; hence `NoOverlap` in
  the theorems about announcements.
- A client that subscribes after its scan ended waits for ever (`Subscribe` does
  not look at the job); `EarlyClientsComplete` is about the others.  The same
  happens to the dashboard when a scan ends before it subscribed (`lost`).
- The status `failed` (`engine.go:44`) is never assigned; a scan that cannot open
  its store ends as completed.
- A message of a running scan that comes while another tab is active is given to
  that tab, which ignores it; nobody asks for the next one (`app.go:132-152`).
- A scan of the API is logged twice, by the middleware and at the end of the scan,
  so a quota of five lasts for three.

In billing and accounts:

- A payment is marked as successful before the plan and the subscription are
  written, and both handlers skip successful payments: after a failed statement
  or a restart in between, the customer never gets the plan
  (`SettledUnlessFault`).
- `VerifyPaystack` looks the status of a payment up by reference and user, and marks
  it by reference alone (`billing/handlers.go:236`, `:196`).  For a charged reference
  that is filed under another user, line 234 ("Already processed? Return success
  without hitting Paystack again.") never applies, every repetition starts the
  caller's period anew (210: "Idempotent — safe to retry."), and the webhook then
  skips the payment of its owner (`strayed`).  What is left is `ChargedBeforePro`: somebody
  was charged.
- A transaction is not checked for having been applied: `VerifyCrypto` files a payment
  under it in a statement that fails when the transaction is taken, ignores that, and
  upgrades (164-174).  The status `pending_review` is not among those the schema
  lists (`0001_initial.up.sql:28`).
- `VerifyCrypto` replaces the reference of a payment by the transaction before it
  is confirmed (`billing/handlers.go:153`), so that a second attempt under the
  reference finds nothing.
- `Forgot` looks for the address in lower case and without spaces
  (`auth/handlers.go:176-190`), `Signup` and `Login` use it as it is typed; an
  account with a capital letter never gets the link that line 173 promises.
- Tokens stay valid after a password is reset, and a link may be used again until
  it expires.
- The comment at `auth.go:57-59` has it that a session token is no reset token "(and
  vice-versa)".  The first half holds (`Reset` looks at the purpose); both
  middlewares ignore it (140-150, 168-178), so the token of a link is a session
  without a plan, and `Refresh` answers it with one that has the plan of the row.
  `PlanIsRecent` says how long: within the life of a link that the user asked for.
- `smtp.SendMail` (`mail/service.go:89`) has no deadline: a server that stops
  answering holds a worker, and five of them the queue (`HeldUp`).
- The comment at `server.go:181-182` has the rate limit after authentication; it
  is registered before it (198-204), so its keys are addresses and never users,
  and the global limit of 100 comes before the one of 200.

Elsewhere:

- The drifts of one result carry its time (`anomaly/engine.go:171`, `:186`, ...), and
  `WriteAlert` keeps an alert under its time alone (`store.go:163`): of a banner and a
  version drift the store keeps the second, although `docs/SYSTEM_DESIGN.md:188` has
  each alert written to the store.  The sinks are sent both.
- A block has no limit (`iprange.go:58`): a short IPv4 prefix or an IPv6 one lists its
  addresses until the memory is used up, before anything looks at their number;
  `RefusalsAreExplained` has this among its reasons.
- NVD is asked for 20 records (`correlator.go:101`) and never for the next, and the
  next page of OSV is not read: of a service with more, some are never told.
- A relayed share makes the receiver enter its origin under the address of the
  relay, and every hello is answered by a hello (`mesh.go:222`).
- `CountHosts` counts the keys of nested buckets too, and `stats.go` returns the
  number of alerts as `cves`.
- `query/engine.go:55` has "services with critical cves" as an example, which no
  condition covers: it lists all open ports.
- The answer of one source is cached as complete when the other failed, and told for
  the time to live (`HolesAreForgotten`); an entry
  without vulnerabilities is stored as `null` and is a miss each time; the key
  of an entry is the product of the name, OSV is asked about the service.

## 7. Abstractions

- *Anomaly.*  Banner, version, certificate are one text per drift type; only
  whether texts are blank or equal matters to `diff`.  The time of a result is
  the clock when it was probed.  Targets hold no address twice.  A sink is the
  last lifecycle alert it got.  The context may be cancelled at any time; no
  probe starts afterwards in the model, while answers already probed may still
  be delivered or dropped.
- *Pool.*  No property looks at the order of results, so the result channel is a
  set of bounded size.
- *Jobs.*  A result is its number.  Pings and the writing of messages are left
  out, except that a write may fail (`Disconnect`).
- *Billing.*  The plan and subscription of one user; of the others there are the
  payments they own and what they have verified.  The newest token is the one used,
  and one without a plan counts as free, as in the gate.  Mails and invoices are left
  out.  Amounts are not compared, as in the code.  A reference made up twice in one
  second is one reference.  On the chain a transaction is confirmed or not, and stays
  so; the statement after the question is in one step with it.
- *Mesh.*  An identifier stands for the address it is bound to; every packet
  opens (no encryption).  The three locked regions of a heartbeat are one step:
  what the read loop does in between can be moved before or after it.  Whether
  the incoming channel has room, whom a heartbeat evicts and what it forgets are
  open, except that a share is not forgotten while copies of it are in flight:
  the memory of five minutes outlives every packet.
- *Scan plan.*  IPv4 and IPv6 addresses of few bits, but for the IPv6 texts of IPv4
  addresses (`::ffff:a.b.c.d`).  The memory has room for `Memory` addresses; a loop that
  needs more, or never ends, leads to a state in which nothing more happens (`dead`).  The names of an address are
  a set: a name that is listed twice scores nothing new.  Scores are natural
  numbers up to `TopScore`, and 0 is no score.  A lookup that takes too long fails.
- *CVE.*  A vulnerability is its identifier and the record it was made from;
  severity and text are left out.  Which records a source puts on its page is its
  choice.  What the program does between two requests takes
  no time; an answer that is lost is a failure.
- *Readers.*  A plan is a value, from a constant set of those `Parse` yields; that
  `Ask` has the question translated after it got the store does not matter to
  what it reads.  A host has a row per port; two hosts of one name and the counters
  of `stats.go` are left out.  `since` is fixed when the request begins, and is 0 when it
  lies before the first moment; in the code a start before 1970, or a duration that
  overflows, wraps in `tsKey`, and such a question is answered with nothing.
- *Accounts.*  A token is accepted for what it says, and stands for its signature.  A
  request that fails or is refused is no step.  The rate limiter,
  the profile and `last_used_at` are left out; a request takes less than a unit
  of time.  Passwords are compared, not hashed.
- *Dashboard.*  The event loop handles one message at a time, as Bubble Tea does.
  Cursor positions, filters' texts and drawing are left out; the query tab's input
  always has the focus.  A result is its number.

## 8. What is not modelled, and the plan

Not modelled, and not planned: text formats and output, fingerprint and version
tables, prompts and providers of the LLM client, the Nmap import (a parser of
files), configuration, routing, and handlers that only count; the supply-chain
table, a constant; `response.Evaluate` and `mail.Close`, which nothing calls;
migrations other than the columns that the models use.

Planned, in this order:

1. Proofs: of `JobFeed` itself, what follows for every follower.
2. Two readers and two scans in `Readers`, two users in `Accounts`, with symmetry.
