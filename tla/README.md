# TLA+ models of the RETE monitoring dashboard

This directory holds TLA+ models of `src/rete/assets/web/dashboard.js`, the browser
client that shows live metrics of the RETE rule engine. It also holds the TLC
configurations that check the models. `spec.md` describes the client as five
components. The code is one class, `RETEDashboard`. All of it runs on the
browser's single event loop.

## 1. Inventory

### Components and their state

| Component (spec.md) | Code (dashboard.js) | State |
|---|---|---|
| ReconnectingChannel | `setupWebSocket`, `connectWebSocket` and the `onopen`/`onmessage`/`onerror`/`onclose` handlers (448-494), `updateConnectionStatus` (535-542) | `this.ws`, `this.wsConnected`, the status dot, pending `setTimeout` reconnect callbacks, and every WebSocket object whose handlers can still fire |
| HistoryBuffer | `metricsHistory`, `maxHistoryPoints` (8-9), `addToHistory` (675-686), the replace in `handleInitialData` (516-517) | the sequence of entries `{timestamp, system, rete, performance}` |
| ScoreCalculator | `calculatePerformanceScore` (800-817), the score and ratio computations in `updatePerformanceRadarChart` and `updateCacheChart` (767-798) | none (pure) |
| MetricsController | constructor and `init` (4-24), `handleWebSocketMessage` and the handlers (496-533), `updateMetrics*` (605-673), `updateCharts` and the chart updates (688-741), `updateTimestamp`, `refreshAllData` (855-875), `showToast` (1058-1089) | the chart datasets, KPI tiles, `#lastUpdate`, the toasts |
| PollingScheduler | `setupTabNavigation`/`onTabChange` (27-69), the 30 s `setInterval` of `startDataRefresh` (841-853), `refreshNetworkData`, `refreshAlertsData`, `updateNetworkDisplay`, `updateAlertsDisplay` (877-935) | `this.currentTab`, the network and alerts panes, the in-flight fetches |
| Alert rule editor | `setupModals`, `showCreateAlertModal`, `createAlertRule` (576-602, 950-987) | the modal, the form, the in-flight POST |
| Formatting utilities | `formatNumber`, `formatBytes`, `formatDuration` (1032-1056), the memory percentage of `updateSystemMetrics` (619-627) | none (pure) |
| Network export | `exportNetworkData` (989-1004), the `exportNetwork` button | the in-flight GET, the downloaded file |
| Utilities | `fetchAPI` (1008-1019), `updateElement` | none |
| Charts and layout | `setupCharts` (72-445), `generateTimeLabels`, `resizeCharts`, the resize debounce (1098-1105) | Chart.js objects |

### How the components interact

- **Callbacks on one thread.** The browser delivers socket events, timer callbacks,
  clicks and fetch continuations as separate tasks. Each runs to completion. Nothing
  runs in parallel, but tasks interleave in any order. An `async` function is split
  at every `await`: the part after the `await` is a later task.
- **Push path.** `onmessage` parses the frame and dispatches on `type`:
  - `initial_data`: updates the tiles; a non-empty `history` replaces the buffer, then the charts are redrawn.
  - `metrics_update`: updates the tiles, appends to the buffer, redraws the charts and stamps `#lastUpdate`.
  - `alert`: shows a toast.
  - Any other type is logged. A parse error, or any exception a handler throws, is
    caught and logged by `onmessage`. Whatever the handler wrote before the
    exception stays written.
- **Fan-out.** `updateCharts` calls five chart updates in a fixed order: throughput,
  memory, goroutines, radar, doughnut. A chart whose canvas was missing returns
  early. The first exception ends the whole fan-out.
- **Reconnect loop.** `onclose` schedules one `connectWebSocket(url)` after 5 s. That
  call creates a new socket with the same handlers. Every handler writes to
  `this`, not to its own socket.
- **Pull path.** `refreshAllData` runs once at start-up. It puts the `/api/metrics`
  answer into the tiles, never into the buffer. The interval and tab switches
  refresh the network pane and the alerts pane. Creating a rule POSTs it and then
  refreshes the alerts pane. The export button GETs the node list and hands it
  to the browser as a file.

### Hard behaviours

- The order of events: socket events against fetch continuations, and two
  continuations of the same refresh against each other.
- A drop during the handshake or after an open, error before close, and reconnecting
  forever.
- An exception part-way through a handler, which leaves part of the fan-out done.
- The buffer at its capacity, and a server history longer than the capacity.
- Numeric edges in the scores and in the formatting: `NaN`, `|| default` on a real
  0, and rounding across a suffix boundary.

### What makes each component correct

- **ReconnectingChannel:** there is always exactly one live socket or one pending
  reconnect. Its states follow Idle, Connecting, Connected, Disconnected. It
  reconnects after every drop. The status shown follows the same sequence.
- **HistoryBuffer:** it never holds more than its capacity. It holds the most recent
  entries in arrival order. `initial_data` leaves min(len(history), capacity)
  entries.
- **MetricsController:** after every buffer change, every created chart and
  `#lastUpdate` show the current buffer. An alert leaves the buffer alone. Every
  section a message or the start-up answer carries reaches its tiles.
- **ScoreCalculator:** every score is in [0, 100]. A missing signal scores 0, never
  `NaN`.
- **PollingScheduler:** a later answer never overwrites the view with older data,
  or at least the visible section catches up with the server (the weaker
  property holds, the stronger does not). Each failure gives one
  notification. An alert refreshes the alerts list. Every rule submission and
  every export click ends in something the user sees.

The hazards behind these properties are listed, each at its line, under `hazards`
in `PROJECT.json`.

## 2. Plan

The modules are listed in the order they are built, most important behaviour first.

1. **`HistoryBuffer`** (done). The buffer variable, `Added`/`AddToHistory` and `ReplaceHistory`.
   It has no `Next` of its own: the controller drives it.
2. **`ReconnectingChannel`** (done). The socket bag, the reconnect timers, `wsConnected`, and
   the status, with one action per handler. `ChannelPhase` and `ChannelStatus`
   are the refinement mapping.
3. **`ChannelStates`** (done). The abstract state machine of spec 4.1 and the
   status it emits, with weak fairness on the retry.
4. **`Dashboard`** (done, push path). It composes 1 and 2 with `INSTANCE`. It adds
   construction, the message handlers, the fan-out, the tiles, the toasts, the
   start-up `refreshAllData`, and the server as environment. It checks
   `ChannelStates` as a property, through
   `INSTANCE ... WITH phase <- ChannelPhase, status <- ChannelStatus`.
5. **`ScoreCalculator`** (done). Pure operators for `calculatePerformanceScore`,
   the four radar scores and the doughnut split. They are checked against the
   reference definitions of spec 4.3 over every performance section built from
   small field values, missing fields included. The scores are not carried in
   `Dashboard`'s radar and doughnut projections. What the charts show is
   checked once per snapshot here, and `Dashboard` checks that the charts follow
   the snapshot.
6. **`PollingScheduler`** (done). The current tab, tab switches, the interval
   tick, the refresh buttons, `refreshNetworkData`/`refreshAlertsData` as a
   request that is answered or fails and later resumes, `createAlertRule` with
   the modal, and `handleAlert`'s call of the alerts view. It is checked on its
   own, with a server that holds one data version per section: the only state
   it shares with `Dashboard` is the toasts and the alert message.
7. **`Formatting`** (done). `formatNumber`, `formatBytes`, `formatDuration` and
   the memory percentage, as operators over exact rationals. They are checked
   for accuracy and for the `K`/`M` suffix.
8. **The `refreshAllData` batch** (done). Each of its three calls in `Dashboard`
   now succeeds or fails on its own, so the batch can be checked against
   spec 7 (b).
9. **`exportNetworkData`** (done). One more request kind of
   `PollingScheduler`, with the liveness of the user's two operations
   (`UserActionsAnswered`) checked on an instance of its own.
10. **Tile sections and chart construction** (done). `UpdateMetrics` keeps the
   per-section guards of `updateMetrics`: a message carries any subset of the
   sections. `SetupCharts` makes the set of charts follow from the page's
   canvases and from whether Chart.js loaded.
11. Open:
   - the two GETs of `refreshNetworkData` as separate requests (a torn
     network display), should the spec ask for one snapshot;
   - the server's snapshots with the sections each carries, so that the tiles
     of a section can be related to the newest entry that carried it;
   - checks of the doughnut's `|| 80`, of `formatBytes` past GB and of the
     memory bar without a total (hazards in `PROJECT.json`), which have no
     run of their own.

## 3. Modules

### HistoryBuffer

| TLA+ | Code |
|---|---|
| `metricsHistory` | `this.metricsHistory` |
| `MaxHistoryPoints` | `this.maxHistoryPoints` (50) |
| `Added(buf, e)`, `AddToHistory(e)` | `addToHistory`: push, then shift once if the length is over capacity |
| `ReplaceHistory(h)` | `this.metricsHistory = data.history` |
| `Recent(s, n)` | helper for the properties: the last n elements |

### ReconnectingChannel

| TLA+ | Code |
|---|---|
| `sockets` | A bag of the states of the WebSocket objects that have not closed yet. The handlers refer to `this`, so sockets are interchangeable. A bag can show a forked loop, which a single `ws` variable would hide. `"connectFailed"` and `"openFailed"` (`Failed(s)`) mean the error event has fired and the close event is still due, on a socket that had not opened or had. |
| `reconnectTimers` | The pending 5 s reconnect callbacks. |
| `wsConnected`, `connStatus` | `this.wsConnected`, which the handlers write and nothing in `dashboard.js` reads, and the class that `updateConnectionStatus` sets. |
| `ConnectWebSocket` | `connectWebSocket`, try branch. |
| `ReconnectTimerFires` | The `setTimeout` callback. |
| `OnOpen`, `OnError`, `OnClose` | The handlers. An error comes from a connecting or an open socket. A close comes from an open socket (clean close) or from a failed one. |
| `ChannelPhase(started)`, `ChannelStatus` | The refinement mapping to `ChannelStates`. A failed socket is Connected if it had opened, and Connecting otherwise; the status is `connStatus`, `"none"` before the first update. |

### Dashboard

| TLA+ | Code |
|---|---|
| `page` | whether `window.reteDashboard` exists yet |
| `Construct`, `SetupWebSocket`, `RefreshAllData` | `DOMContentLoaded` runs `new RETEDashboard()`, which runs `init`: `setupWebSocket` creates the socket and `startDataRefresh` starts `refreshAllData`, whose three fetches are then in flight. |
| `chartView[c]` | The snapshot ids the datasets of chart `c` were last set from: the whole buffer for the three time-series charts, the latest entry for the radar and the doughnut. The initial placeholder data is `<<>>`. |
| `Canvases`, `ChartJsLoaded`, `SetupCharts`, `Charts` | `setupCharts` and `this.charts`. Without Chart.js it returns before creating any chart. Otherwise it creates one chart per canvas found. A chart that was not created makes its update return early. The latency and alert-history charts are never updated, so they are left out. |
| `Projection(c, h)`, `SeriesData(h)`, `LatestData(h)` | What chart `c` is set from: every entry for the time-series charts, the latest for the radar and the doughnut. |
| `UpdateCharts(h)`, `Redrawn(h)`, `Throws(c, h)` | `updateCharts`. The time-series updates call `timestamp.toLocaleTimeString()`, which throws on an entry whose timestamp is not a `Date`. Only the charts before the first throw are redrawn. |
| `kpi`, `TileSections`, `UpdateMetrics(id, present)` | The tiles set by `updateMetrics`, per section, abstracted to the id of the snapshot they show. A message carries any subset `present` of the sections (spec 3 lets each be absent); `if (data.system)` and the two other guards skip an absent one, whose tiles keep what they showed. `MCDashboard` uses one section: the three are handled alike and independently. |
| `lastUpdate`, `UpdateTimestamp` | `#lastUpdate`. |
| `toasts`, `ShowToast` | The toasts shown, as a bag by kind. |
| `HandleInitialData(k, present)`, `HandleMetricsUpdate(present)`, `HandleAlert`, `HandleIgnored` | The branches of `handleWebSocketMessage`. Each message is delivered by `onmessage` on an open socket. |
| `refreshAll`, `Calls`, `RestAnswers`, `RefreshAllDataResumes` | `refreshAllData`. The server answers the batch at some point, reading its latest snapshot then, with the sections it has. Each of the three calls succeeds or fails on its own. The continuation runs in a later task. `Promise.all` rejects if any call failed: then the catch shows one error toast and drops the metrics. |
| `serverSeq`, `firstMessage`, `ServerSamples`, `ServerHistory(k)` | The environment, which is not in this repository. The server samples snapshots 1, 2, ... When no socket is open, a sample is never pushed to this page. `initial_data` is the first message of a connection and carries the k latest snapshots. |
| `arrived` | A history variable: the entries fed to the buffer since its last replace. |

A snapshot is abstracted to its server sequence number. Chart data, labels and
tile texts are abstracted to the ids they were computed from. An entry keeps one
more bit, `dated`: `addToHistory` stamps entries with `new Date()`, but JSON
carries a timestamp of an `initial_data` history entry as a string or a number.

### ScoreCalculator

| TLA+ | Code |
|---|---|
| `performance` | `data.performance_metrics` of a `metrics_update`, fixed for a behaviour; `Init` ranges over every section built from the input sets |
| `Num`, `Undefined`, `NaN` | A JavaScript number is an exact rational `<<p, q>>`. A field absent from the JSON is `Undefined`. `NaN` is what arithmetic on `undefined` gives. |
| `Or(x, d)` | `x \|\| d`: both `undefined` and `0` fall back to `d` |
| `Get(obj, f)` | `obj?.f` read through a stats object that may be missing |
| `HashJoinRate` | the hash-join line of `calculatePerformanceScore`: `hits / (hits + misses + 1) * 100`, without a `\|\| 0` guard |
| `CalculatePerformanceScore` | `calculatePerformanceScore`: `Math.min(100, ...)`, where `Math.min` with `NaN` gives `NaN` |
| `RadarScores` | the four data points of `updatePerformanceRadarChart` |
| `CacheChartData` | `updateCacheChart`: `hit_ratio \|\| 80` and `100 - hit` |
| `RefScores`, `Capped`, `RefField` | the reference definition of spec 4.3: every signal is capped at 100, and a missing signal is 0 |

`MCDisplay` uses percentages {0, 50, 100, 150}, which are the zero,
a middle value, the cap and a value above it. It uses hash-join counters
{0, 1, 2}, including the cold cache. The `_OrMissing` sets add `Undefined`.

### PollingScheduler

| TLA+ | Code |
|---|---|
| `currentTab`, `ClickTab(t)`, `RefreshOnShow(t)` | `this.currentTab`, the nav-button listener and `onTabChange`. Only the network and alerts tabs fetch. |
| `IntervalTick` | The `setInterval` callback. On other tabs it changes nothing, so it is left out there. |
| `ClickRefresh(p)` | The `refreshNetwork` and `refreshAlerts` buttons. |
| `requests` | A bag of fetches. Each is `"sent"`, then `"ok"` with the server version it read (`Payload`), or `"err"`. `"rule"` is the POST, `"export"` the GET of the export. |
| `ServerAnswers`, `ServerAddsRule`, `RequestFails` | `fetchAPI`. The server answers from its current data, or an accepted POST adds a rule, whose answer may still be lost on the way back. A rejected `fetch` or a status that is not ok throws. |
| `RefreshResumes(r)` | `refreshNetworkData`/`refreshAlertsData` after the `await`. `update*Display` rewrites the section on success; the catch logs on failure. |
| `view`, `server`, `ServerChanges` | The version a section shows (0 is the placeholder HTML), and the server's own version, which other clients change. |
| `modal`, `ShowCreateAlertModal`, `CloseModal`, `SubmitRule`, `CreateRuleResumes` | The alert-rule modal and `createAlertRule`. Nothing disables the form while its POST is out. |
| `ClickExport`, `ExportResumes(r)`, `exports`, `downloads` | `exportNetworkData`: the click sends `GET /api/network/nodes`; `.then` hands one file to the browser (its content and name are abstracted away), `.catch` shows an error toast. Nothing disables the button meanwhile. |
| `toasts`, `Toast`, `ErrorToasts` | The toasts shown, by message: the two of `createAlertRule`, the export's, and the alert's. |
| `HandleAlert` | `handleAlert`: a toast, then `updateAlertsDisplay()` with no data, which returns at once. |

Bounds of `polling`: `MaxVersion = 2` server versions per section,
`MaxPending = 3` fetches outstanding, `MaxSubmits = 2`, `MaxAlerts = 1` and
no export. These allow two refreshes of one section to overlap and to read
different versions, and also a double submit. `user_actions` checks the
user's operations on their own instance: one submission and one export,
which can both be outstanding with a poll, server versions up to 2 (the
server starts at 1, so the POST can be accepted, with its answer delivered
or lost, or refused), three tabs and no alerts. About 220,000 states, 2 min;
a second submission takes it to 405,000 states and 6 minutes, and both
properties on one instance took 25 minutes. The last slot below `MaxPending` is kept for the interval, so the bound
never stops the timer. The two GETs of `refreshNetworkData` are one request:
`Promise.all` fails as a whole, and the display needs both.

### Formatting

| TLA+ | Code |
|---|---|
| `FormatNumber(x)`, `Scaled`, `RoundTies` | `formatNumber`. It chooses `M`, `K` or nothing on the unrounded value, then calls `toFixed(1)`. The result is a set, because a decimal tie (999.95) can round either way depending on the double. |
| `FormatBytes(b)`, `Log1024`, `Unit`, `Sizes`, `MathRound` | `formatBytes` for `m * 1024^e` bytes. The unit index is `floor(log1024)`, and `sizes[i]` is undefined past GB. The value is `Math.round(... * 100) / 100`. |
| `FormatDuration(x)`, `FloorPart` | `formatDuration`, as the fields it shows. |
| `MemoryPercent`, `Or` | The memory bar of `updateSystemMetrics`, with the `\|\| 0` and `\|\| 1` fallbacks. |

The exact integer logarithm is faithful for integers below 1024^5: the double
quotient `Math.log(b) / Math.log(1024)` stays on the right side of each
integer there. `MCDisplay` takes:
- numbers on each side of 1000 and 1000000, a fraction, exact ties, and 999960
  and 999999999;
- byte counts on and just under powers of 1024, up to 1 TiB;
- uptimes at the minute and the hour, a fraction, and more than a day;
- memory fields that are zero, present or missing.

## 4. Runs

Each run uses `MCDashboard` with `MaxHistoryPoints = 2`, `MaxSeq = 4` and `MaxAlerts = 1`.
Two entries are enough for eviction. Four snapshots are enough for:
- a full buffer to evict twice;
- samples to be lost during a disconnect;
- a history to replace a buffer that already holds pushed entries;
- the start-up REST answer to be overtaken by pushes.

One tile section is enough for a message to carry it or not.

The channel has no counter, so its reconnect cycles are not bounded. One alert is
enough, because an alert changes only the toasts.

| Run | Expect | Properties | What it shows |
|---|---|---|---|
| `dashboard` (`MCDashboard.cfg`) | pass | `HoldsMostRecent`, `FanOutConsistent`, `ReconnectLoopSingle`, `ChannelRefinement` | The server history fits the buffer (`MaxServerHistory = 2`), and the page has only the radar and the doughnut. Messages and the start-up answer carry the tile section or not. Under these conditions, the buffer always holds exactly the most recent entries, and every chart and `#lastUpdate` follow every buffer change. From construction on there is exactly one live socket or one pending timer. The code implements `ChannelStates`: its phases, the status shown on open, error and close, and its weak fairness on retry. About 1,290,000 distinct states, 75 s. |
| `dashboard_history_overflow` | violation | `HoldsMostRecent` | An `initial_data` history of 3 entries with a capacity of 2 is kept whole. |
| `dashboard_fanout_abort` | violation | `FanOutConsistent` | With all five charts created, the first `initial_data` history makes the throughput update throw. The radar and the doughnut are never redrawn either. |
| `dashboard_batch_abort` | violation | `MetricsAnswerApplied` | A failed `/api/alerts` or `/api/network/status` call makes `refreshAllData` drop a successful `/api/metrics` answer. Spec 7 (b) says the other calls of the batch still complete. |
| `displays` (`MCDisplay.cfg`) | pass | `ScoresMatchReference`, `NumberDisplayAccurate`, `BytesDisplayAccurate`, `DurationDisplayAccurate` | With every field present, the four radar scores equal the capped reference scores of spec 4.3, the cold hash-join cache included. The inputs of the formatters include every threshold, tie and rollover, and at each of them the text read back is within half a last digit of the value: either rounding of a tie for `formatNumber`, wherever `formatBytes` names a unit, and the fields of `formatDuration`. About 10,000 states. |
| `radar_score_nan` | violation | `ScoresInRange` | Fields may be missing. A `hash_join_stats` object without `cache_hits` or `cache_misses` gives a `NaN` score. |
| `polling` (`MCPollingScheduler.cfg`) | pass | `VisibleSectionConverges` | Refreshes may overlap, fail or resolve out of order. Even so, a user who stays on the network or alerts tab eventually sees the server's data for good. About 300,000 distinct states, 2 min. |
| `polling_section_regress` | violation | `SectionNeverRegresses` | An older answer is applied after a newer one. |
| `poll_failure_silent` | violation | `PollFailureNotified` | A failed poll shows no notification. |
| `user_actions` (`MCPollingScheduler_user.cfg`) | pass | `UserActionsAnswered` | However the POST and the export's GET settle (the POST accepted and answered, accepted with its answer lost, or refused), and whatever polls are outstanding, the submission of the rule form ends in its success or error toast and the export click in a file or an error toast. About 220,000 states, 2 min. |
| `alert_no_refresh` | violation | `AlertRefreshesAlerts` | A pushed alert starts no refresh of the alerts list. |
| `number_suffix` | violation | `NumberSuffixCanonical` | 999950 is shown as `1000.0K`: `formatNumber` chooses the suffix before `toFixed(1)` rounds. |

The violated runs are the findings in `PROJECT.json`. Each passing property
has a mutant in `PROJECT.json`, a one-line plausible bug that TLC catches:
- evicting at `>=` instead of `>`;
- not redrawing after a replace;
- also retrying from `onerror`;
- an `onclose` that does not update the connection status;
- dividing by `hits + misses` without the `+ 1`;
- an interval that refreshes only the network tab;
- truncating instead of rounding in `formatNumber`;
- rounding `formatBytes` to whole units;
- minutes not taken modulo the hour in `formatDuration`;
- an export whose `.catch` only logs.

### Fairness

`Dashboard`, `ReconnectingChannel` and `ScoreCalculator` assume one kind of
fairness: weak fairness of `ReconnectTimerFires`. The browser eventually runs
a timer that is due. Nothing is assumed of the server or the network there.
Sockets may stay connecting, messages may never come, and answers may never
arrive. `ChannelStates` asks only that a disconnected channel retries, and the
code provides exactly that.

`PollingScheduler` makes a liveness claim about data, so it needs more:
- weak fairness of `IntervalTick`, because `setInterval` keeps firing;
- weak fairness, per group of requests, of settling a sent fetch and of running a
  settled continuation. Each section's fetches are a group; the POST and the
  export share one, as both are bounded by the user's clicks. The browser's transport fails a fetch that hangs, and
  the event loop runs every ready task.
- strong fairness of a successful GET per section. A server that could answer
  again and again eventually does, but it may fail in between.

Without the last assumption no client code could converge. User actions and
server changes are not fair. `UserActionsAnswered` needs only the weak
fairness of settling and resuming: a user action ends even if every request
fails.

`MCDisplay` checks `ScoreCalculator` and `Formatting` together. They share no
state, so a behaviour varies the inputs of one while the other's rest at an
input of its own set, and the states are the sum of the two input spaces.

## 5. Not modelled, and why

- **The connection status never shows Connecting.** `connectWebSocket` sets no
  status when it creates a socket, so after `onclose` the next status is
  `connected` or `error`, whereas spec 8's scenario 3 expects Connecting. The
  status is modelled (`connStatus`). No run checks this: it is the absence of
  one assignment, and a property about it would add nothing.

- **The catch branch of `connectWebSocket` (490-493).** It shows an error and
  schedules no retry. The URL is computed once from the page location, so the
  constructor throws on the first call or never. If it throws, the page has no
  channel at all, on the first page load, where a test sees it at once.
- **Teardown.** Spec section 5 asks that the timers be cleared and the socket
  closed on teardown. The code has no teardown, and the page's timers die with
  the page.
- **Rendering, layout and text.** These are chart options, `generateTimeLabels`
  and the number formatting in tiles. The values are modelled in `Formatting`;
  the DOM writes of `updateElement` are not.
- **`resizeCharts` and the resize debounce (755-765, 1097-1106).** The charts
  are created `responsive`, so Chart.js resizes them itself. The handler only
  repeats that, and the spec excludes layout.
- **Toast visibility.** The 100 ms timer of `showToast` adds the class `show`
  to a toast whatever happened to it before. What is visible depends on CSS
  that is not in this repository, and toasts are modelled as the messages
  shown.
- **The export's file.** `JSON.stringify`, the `Blob`, the object URL and the
  dated file name of `exportNetworkData` are a count of downloads.
- **The form contents of the alert rule** (`parseFloat` of the threshold and
  the other fields). The server counts accepted rules. The spec's inline
  validation of invalid input does not exist in the code.
- **Type invariants.** `Dashboard` and `PollingScheduler` state `TypeOK`,
  which documents the state's shape; no run checks it, since no plausible
  bug of this code gives a state of another type: a write to a chart that
  was never created throws, it does not write.
- **The two charts that are never updated** (latency, alert history), which keep
  their placeholder data.
