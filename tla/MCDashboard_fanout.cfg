CONSTANTS
  MaxHistoryPoints <- MCMaxHistoryPoints
  MaxSeq <- MCMaxSeq
  MaxServerHistory <- MCHistoryFits
  MaxAlerts <- MCMaxAlerts
  Canvases <- MCAllCharts
  ChartJsLoaded = TRUE
  TileSections <- MCTileSections

SPECIFICATION Spec


INVARIANT FanOutConsistent
