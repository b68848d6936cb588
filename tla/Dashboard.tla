------------------------------ MODULE Dashboard ------------------------------
(***************************************************************************)
(* RETEDashboard (dashboard.js) as the single event loop that runs it:    *)
(* construction on DOMContentLoaded, the push channel, the handlers of    *)
(* the three push message kinds, the history buffer, the chart fan-out,   *)
(* the KPI tiles and the startup REST refresh.  Every step is one task of *)
(* the browser's event loop and runs to completion.                       *)
(*                                                                         *)
(* A metric snapshot is its server sequence number.  A history entry      *)
(* also records whether its timestamp is a Date: addToHistory stamps      *)
(* entries with new Date(), entries of an initial_data history arrive     *)
(* from JSON, where a timestamp can only be a string or a number.         *)
(*                                                                         *)
(* The server (not in this repository) is the environment: it samples     *)
(* metrics, pushes them to an open socket, opens and drops connections    *)
(* and answers REST calls, in any order.                                  *)
(***************************************************************************)
EXTENDS Naturals, Sequences, SequencesExt, Bags, BagsExt

CONSTANTS
  MaxHistoryPoints,  \* this.maxHistoryPoints
  MaxSeq,            \* bound: snapshots the server produces in a behaviour
  MaxServerHistory,  \* bound: longest history an initial_data message carries
  MaxAlerts,         \* bound: alert messages the server pushes
  Canvases,          \* the chart canvases the page's HTML contains
  ChartJsLoaded,     \* whether the Chart.js script defined Chart
  TileSections       \* the snapshot sections updateMetrics may find

(* The charts updateCharts writes: each is created by a `new Chart` of   *)
(* setupCharts when its canvas is found (88-445; latency and alert       *)
(* history are created too but never written, so they keep their        *)
(* placeholder data and are left out).                                   *)
ChartNames == {"throughput", "memory", "goroutines", "performance", "cache"}

(* setupCharts (72-86): without Chart.js it logs and returns before any  *)
(* chart exists; otherwise a chart per canvas found.                      *)
SetupCharts == IF ChartJsLoaded THEN Canvases \cap ChartNames ELSE {}

(* this.charts after init.                                                *)
Charts == SetupCharts

ASSUME /\ MaxSeq \in Nat \ {0}
       /\ MaxServerHistory \in Nat
       /\ MaxAlerts \in Nat
       /\ ChartJsLoaded \in BOOLEAN

VARIABLES
  page,            \* "loading" until DOMContentLoaded has built the dashboard
  sockets, reconnectTimers, wsConnected, connStatus,   \* ReconnectingChannel
  metricsHistory,  \* HistoryBuffer
  chartView,       \* chart -> the snapshot ids its datasets were last set from
  lastUpdate,      \* id of the metrics_update whose time #lastUpdate shows
  kpi,             \* per section, id of the snapshot its tiles were last
                   \* set from
  toasts,          \* bag of the toasts shown, by kind
  refreshAll,      \* the Promise.all of refreshAllData
  serverSeq,       \* environment: id of the server's latest snapshot
  firstMessage,    \* environment: the open connection has sent nothing yet
  arrived          \* history variable: the entries fed to the buffer since
                   \* it was last replaced, in arrival order

chanVars == <<sockets, reconnectTimers, wsConnected, connStatus>>
viewVars == <<chartView, lastUpdate, kpi, toasts>>
vars == <<page, chanVars, metricsHistory, viewVars, refreshAll,
          serverSeq, firstMessage, arrived>>

Chan    == INSTANCE ReconnectingChannel
History == INSTANCE HistoryBuffer

Ids   == 1..MaxSeq
Entry == [id : Ids, dated : BOOLEAN]

-----------------------------------------------------------------------------
(* Chart fan-out: updateCharts (688-694) and the five chart updates.     *)

ChartOrder == <<"throughput", "memory", "goroutines", "performance", "cache">>
TimeSeriesCharts == {"throughput", "memory", "goroutines"}

(* A time-series chart maps every entry of the buffer (696-741).         *)
SeriesData(h) == [i \in DOMAIN h |-> h[i].id]

(* The radar and the doughnut read the latest entry (767-798).           *)
LatestData(h) == <<Last(h).id>>

(* The data chart c shows for buffer h.                                  *)
Projection(c, h) ==
  IF c \in TimeSeriesCharts THEN SeriesData(h) ELSE LatestData(h)

(* A time-series update calls h.timestamp.toLocaleTimeString() on every  *)
(* entry (701, 720, 735): a TypeError on an entry that is not a Date.    *)
Throws(c, h) == c \in TimeSeriesCharts /\ \E i \in DOMAIN h : ~h[i].dated

(* The charts updateCharts redraws before the first update that throws;  *)
(* a chart that was not created returns early.                           *)
Redrawn(h) ==
  { ChartOrder[j] : j \in { i \in 1..Len(ChartOrder) :
       \A k \in 1..i : ChartOrder[k] \in Charts => ~Throws(ChartOrder[k], h) } }
  \cap Charts

ChartsThrow(h) == Redrawn(h) # Charts

(* Variant of UpdateCharts that also writes charts that were not created. *)
UpdateChartsAll(h) ==
  chartView' = IF h = <<>> THEN chartView
               ELSE [c \in ChartNames |-> Projection(c, h)]

(* updateCharts on the buffer h; each update returns early on an empty   *)
(* buffer.                                                               *)
UpdateCharts(h) ==
  chartView' = IF h = <<>> THEN chartView
               ELSE [c \in Charts |-> IF c \in Redrawn(h) THEN Projection(c, h)
                                                          ELSE chartView[c]]

-----------------------------------------------------------------------------
(* The sinks other than charts.                                          *)

(* updateMetrics (605-617): the tiles of each section the snapshot        *)
(* carries are set from it (updateSystemMetrics, updateReteMetrics,      *)
(* updatePerformanceMetrics, 619-673); an absent section is skipped and  *)
(* its tiles keep what they showed.                                      *)
UpdateMetrics(id, present) ==
  kpi' = [s \in TileSections |-> IF s \in present THEN id ELSE kpi[s]]

(* updateTimestamp (544-549): #lastUpdate shows the time of this update. *)
UpdateTimestamp(id) == lastUpdate' = id

(* showToast (1058-1089): a toast that dismisses itself after 5 s.       *)
ShowToast(kind) == toasts' = BagAdd(toasts, kind)

-----------------------------------------------------------------------------
\* The three fetches of the refreshAllData batch.
Calls == {"metrics", "network", "alerts"}

Init ==
  /\ page = "loading"
  /\ Chan!Init
  /\ History!Init
  /\ chartView = [c \in Charts |-> <<>>]   \* the placeholder data of setupCharts
  /\ lastUpdate = 0
  /\ kpi = [s \in TileSections |-> 0]
  /\ toasts = EmptyBag
  /\ refreshAll = [phase |-> "idle", seq |-> 0, secs |-> {},
                    ok |-> [c \in Calls |-> TRUE]]
  /\ serverSeq = 0
  /\ firstMessage = FALSE
  /\ arrived = <<>>

(* setupWebSocket (448-453): ws: or wss: after the page's protocol, the  *)
(* page's host, then connectWebSocket with that fixed URL.               *)
SetupWebSocket == Chan!ConnectWebSocket

(* refreshAllData (855-861) up to the await of Promise.all: the three    *)
(* fetches are sent together.                                            *)
RefreshAllData == refreshAll' = [refreshAll EXCEPT !.phase = "inflight"]

(* DOMContentLoaded (1093-1095): new RETEDashboard() runs init (15-24):  *)
(* setupCharts, setupWebSocket, and startDataRefresh (841-853), whose    *)
(* first statement is refreshAllData.                                    *)
Construct ==
  /\ page = "loading"
  /\ page' = "ready"
  /\ SetupWebSocket
  /\ RefreshAllData
  /\ UNCHANGED <<reconnectTimers, wsConnected, connStatus, metricsHistory,
                 viewVars, serverSeq, firstMessage, arrived>>

ReconnectTimerFires ==
  /\ Chan!ReconnectTimerFires
  /\ UNCHANGED <<page, metricsHistory, viewVars, refreshAll, serverSeq,
                 firstMessage, arrived>>

SocketOpens ==
  /\ Chan!OnOpen
  /\ firstMessage' = TRUE
  /\ UNCHANGED <<page, metricsHistory, viewVars, refreshAll, serverSeq, arrived>>

SocketErrors ==
  /\ Chan!OnError
  /\ UNCHANGED <<page, metricsHistory, viewVars, refreshAll, serverSeq,
                 firstMessage, arrived>>

SocketCloses ==
  /\ Chan!OnClose
  /\ UNCHANGED <<page, metricsHistory, viewVars, refreshAll, serverSeq,
                 firstMessage, arrived>>

(* The server samples while no socket of this page is open: the sample   *)
(* is never pushed to this page.                                         *)
ServerSamples ==
  /\ ~Chan!HasOpenSocket
  /\ serverSeq < MaxSeq
  /\ serverSeq' = serverSeq + 1
  /\ UNCHANGED <<page, chanVars, metricsHistory, viewVars, refreshAll,
                 firstMessage, arrived>>

-----------------------------------------------------------------------------
(* Push messages: ws.onmessage (465-472) parses the frame and calls      *)
(* handleWebSocketMessage (496-510); an exception from either is caught  *)
(* and logged, so a handler that throws leaves what it already wrote.    *)

Receiving == page = "ready" /\ Chan!HasOpenSocket

(* The k most recent server snapshots, as initial_data carries them.     *)
ServerHistory(k) == [i \in 1..k |-> [id |-> serverSeq - k + i, dated |-> FALSE]]

(* Variant of HandleInitialData that replaces the buffer but does not    *)
(* redraw the charts.                                                    *)
HandleInitialDataNoRedraw(k, present) ==
  /\ Receiving /\ firstMessage
  /\ firstMessage' = FALSE
  /\ UpdateMetrics(serverSeq, present)
  /\ IF k > 0
       THEN /\ History!ReplaceHistory(ServerHistory(k))
            /\ arrived' = ServerHistory(k)
       ELSE UNCHANGED <<metricsHistory, arrived>>
  /\ UNCHANGED <<page, chanVars, chartView, lastUpdate, toasts, refreshAll,
                 serverSeq>>

(* handleInitialData (512-520), sent by the server as the first message  *)
(* of a connection: updateMetrics(data), then a non-empty history        *)
(* replaces the buffer and the charts are redrawn.                       *)
HandleInitialData(k, present) ==
  /\ Receiving /\ firstMessage
  /\ firstMessage' = FALSE
  /\ UpdateMetrics(serverSeq, present)
  /\ IF k > 0
       THEN /\ History!ReplaceHistory(ServerHistory(k))
            /\ UpdateCharts(ServerHistory(k))
            /\ arrived' = ServerHistory(k)
       ELSE UNCHANGED <<metricsHistory, chartView, arrived>>
  /\ UNCHANGED <<page, chanVars, lastUpdate, toasts, refreshAll, serverSeq>>

(* handleMetricsUpdate (522-527) for a fresh server sample: updateMetrics *)
(* sets the KPI tiles, addToHistory stamps it with new Date(), the charts *)
(* are redrawn, and updateTimestamp runs unless updateCharts threw.      *)
HandleMetricsUpdate(present) ==
  /\ Receiving
  /\ serverSeq < MaxSeq
  /\ LET e == [id |-> serverSeq + 1, dated |-> TRUE]
         h == History!Added(metricsHistory, e)
     IN /\ serverSeq' = e.id
        /\ UpdateMetrics(e.id, present)
        /\ History!AddToHistory(e)
        /\ arrived' = Append(arrived, e)
        /\ UpdateCharts(h)
        /\ IF ChartsThrow(h) THEN UNCHANGED lastUpdate ELSE UpdateTimestamp(e.id)
  /\ firstMessage' = FALSE
  /\ UNCHANGED <<page, chanVars, toasts, refreshAll>>

(* handleAlert (529-533): a toast; updateAlertsDisplay() is called       *)
(* without data and returns at once (916).                               *)
HandleAlert ==
  /\ Receiving
  /\ CopiesIn("alert", toasts) < MaxAlerts
  /\ ShowToast("alert")
  /\ firstMessage' = FALSE
  /\ UNCHANGED <<page, chanVars, metricsHistory, chartView, lastUpdate, kpi,
                 refreshAll, serverSeq, arrived>>

(* An unknown message type (507-508) or a frame JSON.parse rejects       *)
(* (469-471): logged only.                                               *)
HandleIgnored ==
  /\ Receiving
  /\ firstMessage' = FALSE
  /\ UNCHANGED <<page, chanVars, metricsHistory, viewVars, refreshAll,
                 serverSeq, arrived>>

-----------------------------------------------------------------------------
(* refreshAllData (855-875): Promise.all over /api/metrics,              *)
(* /api/network/status and /api/alerts.  The server answers at some      *)
(* point (the metrics it reads are its latest snapshot then, with the    *)
(* sections it has); each call succeeds or fails on its own; the         *)
(* continuation runs later.                                               *)

RestAnswers ==
  /\ refreshAll.phase = "inflight"
  /\ \E ok \in [Calls -> BOOLEAN], present \in SUBSET TileSections :
        refreshAll' = [phase |-> "answered", seq |-> serverSeq,
                       secs |-> present, ok |-> ok]
  /\ UNCHANGED <<page, chanVars, metricsHistory, viewVars, serverSeq,
                 firstMessage, arrived>>

\* The await of Promise.all (856-868): it rejects if any call failed, and
\* then the catch shows one error toast and the metrics answer is
\* dropped; otherwise updateMetrics gets the answer's sections.
RefreshAllDataResumes ==
  /\ refreshAll.phase = "answered"
  /\ refreshAll' = [refreshAll EXCEPT !.phase = "done"]
  /\ IF \A c \in Calls : refreshAll.ok[c]
       THEN UpdateMetrics(refreshAll.seq, refreshAll.secs) /\ UNCHANGED toasts
       ELSE ShowToast("error") /\ UNCHANGED kpi
  /\ UNCHANGED <<page, chanVars, metricsHistory, chartView, lastUpdate,
                 serverSeq, firstMessage, arrived>>

-----------------------------------------------------------------------------
Next ==
  \/ Construct
  \/ ReconnectTimerFires
  \/ SocketOpens
  \/ SocketErrors
  \/ SocketCloses
  \/ ServerSamples
  \/ \E k \in 0..Min({MaxServerHistory, serverSeq}), present \in SUBSET TileSections :
        HandleInitialData(k, present)
  \/ \E present \in SUBSET TileSections : HandleMetricsUpdate(present)
  \/ HandleAlert
  \/ HandleIgnored
  \/ RestAnswers
  \/ RefreshAllDataResumes

(* The browser runs a due timer; nothing else is assumed of the server   *)
(* or the network.                                                       *)
Fairness == WF_vars(ReconnectTimerFires)

Spec == Init /\ [][Next]_vars /\ Fairness

-----------------------------------------------------------------------------
TypeOK ==
  /\ page \in {"loading", "ready"}
  /\ Chan!ChanTypeOK
  /\ metricsHistory \in Seq(Entry)
  /\ chartView \in [Charts -> Seq(Ids)]
  /\ lastUpdate \in 0..MaxSeq
  /\ kpi \in [TileSections -> 0..MaxSeq]
  /\ IsABag(toasts) /\ BagToSet(toasts) \subseteq {"alert", "error"}
  /\ refreshAll \in [phase : {"idle", "inflight", "answered", "done"},
                     seq : 0..MaxSeq, secs : SUBSET TileSections,
                     ok : [Calls -> BOOLEAN]]
  /\ serverSeq \in 0..MaxSeq
  /\ firstMessage \in BOOLEAN
  /\ arrived \in Seq(Entry)

(* The buffer holds exactly the MaxHistoryPoints most recent entries fed *)
(* to it since it was last replaced, oldest first (spec section 8): the  *)
(* eviction in addToHistory and the replace in handleInitialData.        *)
HoldsMostRecent == metricsHistory = History!Recent(arrived, MaxHistoryPoints)

(* Fan-out contract (spec 4.4): once the buffer is non-empty, after every *)
(* handler every created chart shows the projection of the current      *)
(* buffer, and if its newest entry came from a metrics_update, the       *)
(* last-update time is that update's.                                    *)
FanOutConsistent ==
  metricsHistory # <<>> =>
     /\ \A c \in Charts : chartView[c] = Projection(c, metricsHistory)
     /\ Last(metricsHistory).dated => lastUpdate = Last(metricsHistory).id

(* The reconnect loop never forks or dies: from setupWebSocket on there  *)
(* is always exactly one live socket or one pending reconnect timer      *)
(* (onclose schedules one timer, the timer creates one socket).          *)
ReconnectLoopSingle ==
  page = "ready" => BagCardinality(sockets) + reconnectTimers = 1

(* The code implements the channel state machine of spec 4.1 with the    *)
(* status it emits on open, close and error, including that a            *)
(* disconnected channel eventually reconnects.                            *)
Channel == INSTANCE ChannelStates WITH phase <- Chan!ChannelPhase(page = "ready"),
                                       status <- Chan!ChannelStatus
ChannelRefinement == Channel!Spec

(* Spec 7 (b): a request fault never aborts the rest of its batch.  When *)
(* the /api/metrics call of refreshAllData succeeded, its metrics reach  *)
(* the KPI tiles, whether or not /api/network/status or /api/alerts      *)
(* failed beside it: every section the answer carries reaches its tiles. *)
MetricsAnswerApplied ==
  [][refreshAll.phase = "answered" /\ refreshAll'.phase = "done"
       /\ refreshAll.ok["metrics"]
       => \A s \in refreshAll.secs : kpi'[s] = refreshAll.seq]_vars

=============================================================================
