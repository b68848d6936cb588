----------------------------- MODULE MCDashboard -----------------------------
(***************************************************************************)
(* Dashboard instantiated for TLC.  A buffer of 2 entries is enough for   *)
(* eviction to happen, and 4 server snapshots let a full buffer evict     *)
(* twice, a reconnect drop samples, and an initial_data history replace  *)
(* a buffer that already holds pushed entries.                            *)
(***************************************************************************)
EXTENDS Dashboard

MCMaxHistoryPoints == 2
MCMaxSeq           == 4
MCMaxAlerts        == 1

(* A page without the three time-series canvases.                        *)
MCGaugeCharts == {"performance", "cache"}

(* A page with every chart canvas.                                       *)
MCAllCharts == {"throughput", "memory", "goroutines", "performance", "cache"}

(* updateMetrics treats its three sections alike and independently, so  *)
(* one section shows each case: a message with it and one without it.   *)
MCTileSections == {"system"}

(* A server whose initial_data history fits the buffer / exceeds it.     *)
MCHistoryFits == MCMaxHistoryPoints
MCHistoryLong == MCMaxHistoryPoints + 1

=============================================================================
