CONSTANTS
  MaxHistoryPoints <- MCMaxHistoryPoints
  MaxSeq <- MCMaxSeq
  MaxServerHistory <- MCHistoryFits
  MaxAlerts <- MCMaxAlerts
  Canvases <- MCGaugeCharts
  ChartJsLoaded = TRUE
  TileSections <- MCTileSections
SPECIFICATION Spec
PROPERTY MetricsAnswerApplied
