CONSTANTS
    Tabs <- MCUserTabs
    MaxVersion <- MCUserVersion
    MaxPending <- MCMaxPending
    MaxAlerts <- MCUserAlerts
    MaxSubmits <- MCUserSubmits
    MaxExports <- MCUserExports
SPECIFICATION Spec
PROPERTY UserActionsAnswered
