CONSTANTS
    Tabs <- MCTabs
    MaxVersion <- MCMaxVersion
    MaxPending <- MCMaxPending
    MaxAlerts <- MCMaxAlerts
    MaxSubmits <- MCMaxSubmits
    MaxExports <- MCMaxExports
SPECIFICATION Spec
PROPERTY VisibleSectionConverges
