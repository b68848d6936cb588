CONSTANTS
  MaxHistoryPoints <- MCMaxHistoryPoints
  MaxSeq <- MCMaxSeq
  MaxServerHistory <- MCHistoryLong
  MaxAlerts <- MCMaxAlerts
  Canvases <- MCGaugeCharts
  ChartJsLoaded = TRUE
  TileSections <- MCTileSections

SPECIFICATION Spec


INVARIANT HoldsMostRecent
