-------------------------- MODULE MCPollingScheduler --------------------------
EXTENDS PollingScheduler

\* Two tabs that fetch nothing stand for overview, performance and system.
MCTabs == {"overview", "system", "network", "alerts"}
MCMaxVersion == 2
MCMaxPending == 3
MCMaxAlerts == 1
MCMaxSubmits == 2
MCMaxExports == 0

\* The instance for the user's operations: a submission and an export,
\* both possibly outstanding with the polls (MaxPending leaves two slots
\* to the user); one tab that fetches nothing; no pushed alerts, which
\* touch neither.  The server starts at version 1, so a bound of 2 lets
\* the submission be accepted (its answer ok or lost); once another
\* client has changed the alerts, the bound leaves it only a failure.
MCUserTabs == {"overview", "network", "alerts"}
MCUserAlerts == 0
MCUserSubmits == 1
MCUserExports == 1
MCUserVersion == 2
=============================================================================
