------------------------------ MODULE TuiScan ------------------------------
(***************************************************************************)
(* The terminal dashboard (internal/tui): the four tabs of rootModel, the  *)
(* keys they take, and the scan of the scan tab, whose results reach the   *)
(* view through commands: nextScanResult waits for one result, the message *)
(* it returns is given to the active view only, and it is the scan view    *)
(* that asks for the next one.                                             *)
(*                                                                         *)
(* The event loop of the program (Bubble Tea) handles one message at a     *)
(* time; every command is a goroutine of its own.  The engine's side of a  *)
(* scan is Publish and EndScan; JobRegistry has it in full.                *)
(***************************************************************************)
EXTENDS JobChannels

CONSTANTS
  NoJob,
  Mode         \* what a table tab can show: its table, the filter, a detail page

ASSUME NoJobAssumption == NoJob \notin Job
ASSUME ModeAssumption == "table" \in Mode /\ Mode \subseteq {"table", "filter", "detail"}

VARIABLES
  tab,        \* rootModel.active, one of the four tabs below
  mode,       \* mode[t]: the table, its filter or a detail page, of hosts and alerts
  focus,      \* scanView.focusIndex: 0 and 1 are text inputs, 4 is the start button
  running,    \* scanView.running
  stream,     \* the scan whose channel scanView.scanChan is
  canceller,  \* the scan that scanView.cancelScan cancels
  shown,      \* scanView.results, as pairs of a scan and the number of the result
  busy,       \* the scan startScanJob has started and not yet subscribed to
  quit,       \* the program has ended, and with it the scans
  scan,       \* scan[j]: none, running, done
  sent,       \* sent[j]: the results published so far
  channel,    \* channel[j]: the results in the channel the view subscribed to
  subscribed, \* the scans that still have that channel among their subscribers
  finished,   \* the scans whose channel is closed
  cancelled,  \* the scans whose context is cancelled
  chain,      \* chain[j]: the command that startScanJob(j) began and its successors
  escaped,    \* the scans that were running in the view when esc was pressed
  lost        \* the scans with a message lost, or subscribed to after their end

view == <<running, stream, canceller, shown, busy>>
engine == <<scan, sent, subscribed, finished>>
keys == <<tab, mode, focus>>
tuiVars == <<keys, view, quit, engine, channel, cancelled, chain, escaped, lost>>

tabHosts == 0
tabAlerts == 1
tabScan == 2
tabQuery == 3
Tab == 0 .. 3

\* A command: it waits on the channel of the scan "on", or holds what it got from
\* there, a result or (0) the end of the channel, as a message for the program.
Command == [at : {"none", "waiting", "holding"}, on : Job, msg : 0 .. MaxResults]
Waiting(j) == [at |-> "waiting", on |-> j, msg |-> 0]
Ended(j) == [at |-> "none", on |-> j, msg |-> 0]

TuiInit ==
  /\ tab = tabHosts /\ focus = 0
  /\ mode = [t \in {tabHosts, tabAlerts} |-> "table"]
  /\ running = FALSE /\ stream = NoJob /\ canceller = NoJob
  /\ shown = << >> /\ busy = NoJob /\ quit = FALSE
  /\ scan = [j \in Job |-> "none"]
  /\ sent = [j \in Job |-> 0]
  /\ channel = [j \in Job |-> << >>]
  /\ subscribed = {} /\ finished = {} /\ cancelled = {} /\ escaped = {} /\ lost = {}
  /\ chain = [j \in Job |-> Ended(j)]

-----------------------------------------------------------------------------
(* Keys.  The event loop takes one when it is in no other handler. *)

Idle == busy = NoJob /\ ~quit
DetailShowing == tab \in {tabHosts, tabAlerts} /\ mode[tab] = "detail"
InputFocused ==
  \/ tab \in {tabHosts, tabAlerts} /\ mode[tab] = "filter"
  \/ tab = tabScan /\ focus \in {0, 1}
  \/ tab = tabQuery   \* its input has the focus from the start and never loses it

\* The scan view has the focus on its first input whenever it becomes active, so
\* where it was when the tab was left is forgotten at once here.
RefreshActiveTab == focus' = 0

\* tab and shift+tab, unless a detail page is shown; 1 to 4, unless a text input
\* has the focus too.
SwitchTab(t) ==
  /\ Idle /\ ~DetailShowing
  /\ t \in {(tab + 1) % 4, (tab + 3) % 4} \/ ~InputFocused
  /\ tab' = t
  /\ RefreshActiveTab
  /\ UNCHANGED <<mode, view, quit, engine, channel, cancelled, chain, escaped, lost>>

\* ctrl+c cancels the running scan and quits; q only quits.
CtrlC ==
  /\ Idle
  /\ quit' = TRUE
  /\ cancelled' = cancelled \cup (IF running THEN {canceller} \ {NoJob} ELSE {})
  /\ UNCHANGED <<keys, view, engine, channel, chain, escaped, lost>>
KeyQ ==
  /\ Idle /\ ~DetailShowing /\ ~InputFocused
  /\ quit' = TRUE
  /\ UNCHANGED <<keys, view, engine, channel, cancelled, chain, escaped, lost>>

\* hostsView and alertsView: / filters, enter opens a row, enter and esc (and, on
\* a detail page, q and backspace) go back to the table.
TableKey(m) ==
  /\ Idle /\ tab \in {tabHosts, tabAlerts}
  /\ m # mode[tab] /\ "table" \in {m, mode[tab]}
  /\ mode' = [mode EXCEPT ![tab] = m]
  /\ UNCHANGED <<tab, focus, view, quit, engine, channel, cancelled, chain, escaped, lost>>

\* Up and down move the focus of the form, which is not shown during a scan.
FocusKey ==
  /\ Idle /\ tab = tabScan /\ ~running
  /\ focus' \in {(focus + 1) % 5, (focus + 4) % 5}
  /\ UNCHANGED <<tab, mode, view, quit, engine, channel, cancelled, chain, escaped, lost>>

\* Fault: the results of the scan before stay in the list.
StartKeepsResults(j) ==
  /\ Idle /\ tab = tabScan /\ ~running /\ focus = 4
  /\ scan[j] = "none"
  /\ running' = TRUE /\ busy' = j /\ canceller' = j
  /\ scan' = [scan EXCEPT ![j] = "running"]
  /\ UNCHANGED <<keys, shown, quit, stream, sent, subscribed, finished, channel, cancelled, chain, escaped, lost>>

\* startScanJob, on the start button: the context and its cancel function are
\* new, and StartScan has begun the scan.
StartKey(j) ==
  /\ Idle /\ tab = tabScan /\ ~running /\ focus = 4
  /\ scan[j] = "none"
  /\ running' = TRUE /\ busy' = j /\ canceller' = j /\ shown' = << >>
  /\ scan' = [scan EXCEPT ![j] = "running"]
  /\ UNCHANGED <<keys, quit, stream, sent, subscribed, finished, channel, cancelled, chain, escaped, lost>>

\* startScanJob, when StartScan refuses the target or the ports: the cancel
\* function belongs to no scan.
StartFails ==
  /\ Idle /\ tab = tabScan /\ ~running /\ focus = 4
  /\ canceller' = NoJob /\ shown' = << >>
  /\ UNCHANGED <<keys, running, stream, busy, quit, engine, channel, cancelled, chain, escaped, lost>>

\* The rest of startScanJob: Subscribe does not look at the scan, which may have
\* ended; then nobody closes the channel.
SubscribeView(j) ==
  /\ busy = j
  /\ busy' = NoJob /\ stream' = j
  /\ subscribed' = subscribed \cup {j}
  /\ chain' = [chain EXCEPT ![j] = Waiting(j)]
  /\ lost' = IF scan[j] = "done" THEN lost \cup {j} ELSE lost
  /\ UNCHANGED <<keys, running, canceller, shown, quit, scan, sent, finished, channel, cancelled, escaped>>

\* esc cancels the scan; its channel and the command on it stay.
Escape ==
  /\ Idle /\ tab = tabScan /\ running
  /\ cancelled' = cancelled \cup {canceller}
  /\ running' = FALSE
  /\ escaped' = escaped \cup {canceller}
  /\ UNCHANGED <<keys, stream, canceller, shown, busy, quit, engine, channel, chain, lost>>

-----------------------------------------------------------------------------
(* The engine: a result for the subscriber, dropped when its channel is full;
   the end of the scan, which closes the channel. *)

PublishResult(j) ==
  /\ ~quit /\ scan[j] = "running" /\ sent[j] < MaxResults
  /\ sent' = [sent EXCEPT ![j] = @ + 1]
  /\ channel' = IF j \in subscribed /\ Len(channel[j]) < ChanCap
                THEN [channel EXCEPT ![j] = Append(@, sent[j] + 1)] ELSE channel
  /\ UNCHANGED <<keys, view, quit, scan, subscribed, finished, cancelled, chain, escaped, lost>>

\* Fault: the subscribers of a scan that ends are forgotten and not closed.
EndScanUnclosed(j) ==
  /\ ~quit /\ scan[j] = "running"
  /\ scan' = [scan EXCEPT ![j] = "done"]
  /\ subscribed' = subscribed \ {j}
  /\ UNCHANGED <<keys, view, quit, sent, finished, channel, cancelled, chain, escaped, lost>>

EndScan(j) ==
  /\ ~quit /\ scan[j] = "running"
  /\ scan' = [scan EXCEPT ![j] = "done"]
  /\ finished' = finished \cup ({j} \cap subscribed)
  /\ subscribed' = subscribed \ {j}
  /\ UNCHANGED <<keys, view, quit, sent, channel, cancelled, chain, escaped, lost>>

-----------------------------------------------------------------------------
\* nextScanResult receives from its channel, a result or its end.
Pump(j) ==
  LET k == chain[j].on IN
  /\ ~quit /\ chain[j].at = "waiting"
  /\ \/ /\ channel[k] # << >>
        /\ chain' = [chain EXCEPT ![j] = [at |-> "holding", on |-> k, msg |-> Head(channel[k])]]
        /\ channel' = [channel EXCEPT ![k] = Tail(@)]
     \/ /\ channel[k] = << >> /\ k \in finished
        /\ chain' = [chain EXCEPT ![j] = [at |-> "holding", on |-> k, msg |-> 0]]
        /\ UNCHANGED channel
  /\ UNCHANGED <<keys, view, quit, engine, cancelled, escaped, lost>>

\* Fault: the view does not ask for the next result.
ShowAndStop(j) ==
  /\ Idle /\ tab = tabScan
  /\ chain[j].at = "holding" /\ chain[j].msg # 0
  /\ shown' = Append(shown, <<chain[j].on, chain[j].msg>>)
  /\ chain' = [chain EXCEPT ![j] = Ended(j)]
  /\ UNCHANGED <<keys, running, stream, canceller, busy, quit, engine, channel, cancelled, escaped, lost>>

\* scanResultMsg: the view shows the result and asks for the next one of the
\* channel it has now.
ShowResult(j) ==
  /\ Idle /\ tab = tabScan
  /\ chain[j].at = "holding" /\ chain[j].msg # 0
  /\ shown' = Append(shown, <<chain[j].on, chain[j].msg>>)
  /\ chain' = [chain EXCEPT ![j] = Waiting(stream)]
  /\ UNCHANGED <<keys, running, stream, canceller, busy, quit, engine, channel, cancelled, escaped, lost>>

\* Fault: every message of the view, not just the last, cancels the scan.
FinishOnResult(j) ==
  /\ Idle /\ tab = tabScan
  /\ chain[j].at = "holding"
  /\ running' = FALSE
  /\ cancelled' = cancelled \cup ({canceller} \ {NoJob})
  /\ chain' = [chain EXCEPT ![j] = Ended(j)]
  /\ UNCHANGED <<keys, stream, canceller, shown, busy, quit, engine, channel, escaped, lost>>

\* scanFinishedMsg: the view is no longer running, and releases the context of
\* the scan it has now.
FinishView(j) ==
  /\ Idle /\ tab = tabScan
  /\ chain[j].at = "holding" /\ chain[j].msg = 0
  /\ running' = FALSE
  /\ cancelled' = cancelled \cup ({canceller} \ {NoJob})
  /\ chain' = [chain EXCEPT ![j] = Ended(j)]
  /\ UNCHANGED <<keys, stream, canceller, shown, busy, quit, engine, channel, escaped, lost>>

\* The views of the other tabs ignore both messages.
LoseMessage(j) ==
  /\ Idle /\ tab # tabScan
  /\ chain[j].at = "holding"
  /\ chain' = [chain EXCEPT ![j] = Ended(j)]
  /\ lost' = lost \cup {chain[j].on}
  /\ UNCHANGED <<keys, view, quit, engine, channel, cancelled, escaped>>

Handle(j) == ShowResult(j) \/ FinishView(j) \/ LoseMessage(j)

Key ==
  \/ \E t \in Tab : SwitchTab(t)
  \/ CtrlC \/ KeyQ \/ FocusKey \/ StartFails \/ Escape
  \/ \E m \in Mode : TableKey(m)
  \/ \E j \in Job : StartKey(j)

TuiNext ==
  \/ Key
  \/ \E j \in Job : SubscribeView(j) \/ PublishResult(j) \/ EndScan(j) \/ Pump(j) \/ Handle(j)

\* Goroutines run, the event loop takes every message in the end, and a scan ends
\* (ScanPool).  Nobody has to press a key.
TuiFairness ==
  \A j \in Job : /\ WF_tuiVars(SubscribeView(j)) /\ WF_tuiVars(EndScan(j))
                 /\ WF_tuiVars(Pump(j)) /\ WF_tuiVars(Handle(j))

TuiSpec == TuiInit /\ [][TuiNext]_tuiVars /\ TuiFairness

-----------------------------------------------------------------------------
(***************************************************************************)
(* Properties                                                              *)
(***************************************************************************)

TuiTypeOK ==
  /\ tab \in Tab /\ focus \in 0 .. 4
  /\ mode \in [{tabHosts, tabAlerts} -> Mode]
  /\ running \in BOOLEAN /\ quit \in BOOLEAN
  /\ stream \in Job \cup {NoJob} /\ canceller \in Job \cup {NoJob} /\ busy \in Job \cup {NoJob}
  /\ shown \in Seq(Job \X (1 .. MaxResults))
  /\ scan \in [Job -> {"none", "running", "done"}]
  /\ sent \in [Job -> 0 .. MaxResults]
  /\ channel \in [Job -> Seq(1 .. MaxResults)]
  /\ subscribed \subseteq Job /\ finished \subseteq Job /\ cancelled \subseteq Job
  /\ escaped \subseteq Job /\ lost \subseteq Job
  /\ chain \in [Job -> Command]

\* The dashboard is served by the same Subscribe as the clients of JobRegistry: on
\* the channel of each scan happens what JobFeed allows, whatever keys are pressed
\* and whichever commands wait on it.
TuiLine(j) == IF j \in finished THEN "closed" ELSE IF j \in subscribed THEN "open" ELSE "none"
TuiFeed == INSTANCE JobFeed WITH
             Follower <- Job,
             published <- sent,
             over <- [j \in Job |-> scan[j] = "done"],
             line <- [j \in Job |-> TuiLine(j)],
             queue <- channel
ServesView == TuiFeed!Spec

\* Unless a scan was given up with esc, the list shows results of the present
\* scan only, each once and in the order of their discovery: no command of an
\* earlier scan is left that could deliver into the list, however tabs were
\* switched and messages lost.
ShownOfCurrent ==
  escaped = {} =>
    \A i \in 1 .. Len(shown) :
      /\ shown[i][1] = IF busy = NoJob THEN stream ELSE busy
      /\ i > 1 => shown[i - 1][2] < shown[i][2]

\* Unless esc was pressed, the view releases a context only when its scan has
\* ended: the last message of a scan never stops another one.
CancelsOnlyEnded == escaped = {} /\ ~quit => cancelled \subseteq finished

\* A scan that runs in the view ends there, unless one of its messages came while
\* another tab was active, or it was over before startScanJob subscribed: these
\* are the only ways in which the view goes on waiting until esc is pressed.
ViewEnds ==
  \A j \in Job :
    running /\ stream = j /\ busy = NoJob ~> ~running \/ stream # j \/ j \in lost \/ quit
=============================================================================
