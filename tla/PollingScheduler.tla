--------------------------- MODULE PollingScheduler ---------------------------
(***************************************************************************)
(* The pull side of the dashboard (dashboard.js): the tab bar, the 30 s    *)
(* interval that refreshes the visible network or alerts section, the      *)
(* refresh buttons, the alert-rule modal with its POST, the network      *)
(* export button, and the push "alert" message's handler.  Every fetch is an entry of the bag          *)
(* `requests`: it is sent, then the server answers it (reading the data    *)
(* version it holds at that moment) or it fails, and later the event loop  *)
(* runs the continuation after the await.  Nothing orders the answers of   *)
(* two requests, so continuations run in any order.                        *)
(*                                                                         *)
(* The server's data is a version number per section; the section shown    *)
(* on the page is the version of the answer the page applied last (0 is    *)
(* the placeholder HTML served with the page).                             *)
(***************************************************************************)
EXTENDS Naturals, Bags, BagsExt

CONSTANTS
    Tabs,         \* the data-tab values of the nav buttons
    MaxVersion,   \* bound on the server's data versions
    MaxPending,   \* bound on fetches outstanding at once
    MaxAlerts,    \* bound on pushed alert messages
    MaxSubmits,   \* bound on submissions of the alert-rule form
    MaxExports    \* bound on clicks of the export button

\* Sections refreshed by a fetch and shown from its answer.
Panes == {"network", "alerts"}

ASSUME Panes \subseteq Tabs /\ "overview" \in Tabs
ASSUME MaxVersion \in Nat \ {0} /\ MaxPending \in Nat \ {0, 1}

VARIABLES
    currentTab,   \* this.currentTab
    requests,     \* bag of fetches: [pane, phase, ver]
    view,         \* per pane, the server version the section shows
    server,       \* per pane, the server's current version
    modal,        \* alertRuleModal has class "show"
    toasts,       \* bag of toast types shown by showToast
    alertsPushed, \* alert messages delivered so far (bounded)
    submits,      \* form submissions so far (bounded)
    exports,      \* export clicks so far (bounded)
    downloads     \* JSON files handed to the browser by link.click()

vars == <<currentTab, requests, view, server, modal, toasts, alertsPushed,
          submits, exports, downloads>>

\* "rule" is the POST /api/alerts/rules of createAlertRule; "export" is the
\* GET /api/network/nodes of exportNetworkData.
Request == [pane : Panes \cup {"rule", "export"},
            phase : {"sent", "ok", "err"},
            ver : 0..MaxVersion]

\* The showToast calls of this part, by message: the two outcomes of
\* createAlertRule, the catch of exportNetworkData, and handleAlert.
Toast == {"ruleCreated", "ruleFailed", "exportFailed", "alert"}

\* The toasts of type 'error'.
ErrorToasts(b) == CopiesIn("ruleFailed", b) + CopiesIn("exportFailed", b)

TypeOK ==
    /\ currentTab \in Tabs
    /\ IsABag(requests) /\ BagToSet(requests) \subseteq Request
    /\ view \in [Panes -> 0..MaxVersion]
    /\ server \in [Panes -> 1..MaxVersion]
    /\ modal \in BOOLEAN
    /\ IsABag(toasts) /\ BagToSet(toasts) \subseteq Toast
    /\ alertsPushed \in 0..MaxAlerts
    /\ submits \in 0..MaxSubmits
    /\ exports \in 0..MaxExports
    /\ downloads \in 0..MaxExports

Init ==
    /\ currentTab = "overview"
    /\ requests = EmptyBag
    /\ view = [p \in Panes |-> 0]
    /\ server = [p \in Panes |-> 1]
    /\ modal = FALSE
    /\ toasts = EmptyBag
    /\ alertsPushed = 0
    /\ submits = 0
    /\ exports = 0
    /\ downloads = 0

-----------------------------------------------------------------------------
(* Sending a fetch. *)

\* A fetch started by the user may not take the last slot below the bound,
\* which is kept for the interval: the bound must never stop the timer
\* from firing, as nothing in the code does.
CanSend == BagCardinality(requests) < MaxPending - 1

TickCanSend == BagCardinality(requests) < MaxPending

Sent(p) == [pane |-> p, phase |-> "sent", ver |-> 0]

\* refreshNetworkData / refreshAlertsData up to their await.
Refresh(p) == requests' = BagAdd(requests, Sent(p))

\* onTabChange: only the network and alerts tabs fetch anything.
RefreshOnShow(t) ==
    IF t \in Panes THEN Refresh(t) ELSE UNCHANGED requests

\* The click listener of a nav button: set currentTab, then onTabChange.
ClickTab(t) ==
    /\ t \in Panes => CanSend
    /\ currentTab' = t
    /\ RefreshOnShow(t)
    /\ UNCHANGED <<view, server, modal, toasts, alertsPushed, submits, exports, downloads>>

\* Mutant of IntervalTick: the alerts branch of the if/else is lost.
IntervalTickNetworkOnly ==
    /\ currentTab = "network"
    /\ TickCanSend
    /\ Refresh(currentTab)
    /\ UNCHANGED <<currentTab, view, server, modal, toasts, alertsPushed, submits, exports, downloads>>

\* The setInterval callback of startDataRefresh.  On the other tabs it
\* changes nothing and is left out as a stuttering step.
IntervalTick ==
    /\ currentTab \in Panes
    /\ TickCanSend
    /\ Refresh(currentTab)
    /\ UNCHANGED <<currentTab, view, server, modal, toasts, alertsPushed, submits, exports, downloads>>

\* The refreshNetwork / refreshAlerts buttons (setupEventListeners).
ClickRefresh(p) ==
    /\ CanSend
    /\ Refresh(p)
    /\ UNCHANGED <<currentTab, view, server, modal, toasts, alertsPushed, submits, exports, downloads>>

\* showCreateAlertModal, from the createAlert button.
ShowCreateAlertModal ==
    /\ modal' = TRUE
    /\ UNCHANGED <<currentTab, requests, view, server, toasts, alertsPushed, submits, exports, downloads>>

\* The close button, the cancel button and a click outside the dialog.
CloseModal ==
    /\ modal
    /\ modal' = FALSE
    /\ UNCHANGED <<currentTab, requests, view, server, toasts, alertsPushed, submits, exports, downloads>>

\* The form's submit listener: createAlertRule up to its await.  Nothing
\* disables the form while the POST is outstanding.
SubmitRule ==
    /\ modal
    /\ CanSend /\ submits < MaxSubmits
    /\ submits' = submits + 1
    /\ requests' = BagAdd(requests, Sent("rule"))
    /\ UNCHANGED <<currentTab, view, server, modal, toasts, alertsPushed, exports, downloads>>

\* The exportNetwork button: exportNetworkData up to the fetch, whose
\* promise chain runs later.  Nothing disables the button meanwhile.
ClickExport ==
    /\ CanSend /\ exports < MaxExports
    /\ exports' = exports + 1
    /\ Refresh("export")
    /\ UNCHANGED <<currentTab, view, server, modal, toasts, alertsPushed, submits, downloads>>

-----------------------------------------------------------------------------
(* The server and the transport. *)

\* What an answer carries that the page uses: a section's version.  The
\* exported nodes go to a file whose content no property reads, and the
\* POST's answer is discarded.
Payload(q) == IF q \in Panes THEN server[q] ELSE 0

Settle(r, s) == requests' = BagAdd(BagRemove(requests, r), s)

\* Another client or the engine changes what a GET would return.
ServerChanges(p) ==
    /\ server[p] < MaxVersion
    /\ server' = [server EXCEPT ![p] = @ + 1]
    /\ UNCHANGED <<currentTab, requests, view, modal, toasts, alertsPushed, submits, exports, downloads>>

\* A GET is answered with the data the server holds now.
ServerAnswers(r) ==
    /\ r.pane \in Panes \cup {"export"} /\ r.phase = "sent"
    /\ Settle(r, [r EXCEPT !.phase = "ok", !.ver = Payload(r.pane)])
    /\ UNCHANGED <<currentTab, view, server, modal, toasts, alertsPushed, submits, exports, downloads>>

\* The POST is accepted: one more rule, so /api/alerts changes.  The
\* response may still be lost or refused on its way back (fetch rejects,
\* or a proxy answers with a status that is not ok): the rule then exists
\* although createAlertRule takes its catch.
ServerAddsRule(r) ==
    /\ r.pane = "rule" /\ r.phase = "sent"
    /\ server["alerts"] < MaxVersion
    /\ server' = [server EXCEPT !["alerts"] = @ + 1]
    /\ \E outcome \in {"ok", "err"} : Settle(r, [r EXCEPT !.phase = outcome])
    /\ UNCHANGED <<currentTab, view, modal, toasts, alertsPushed, submits, exports, downloads>>

\* fetch rejects, or fetchAPI throws on a status that is not ok.
RequestFails(r) ==
    /\ r.phase = "sent"
    /\ Settle(r, [r EXCEPT !.phase = "err"])
    /\ UNCHANGED <<currentTab, view, server, modal, toasts, alertsPushed, submits, exports, downloads>>

-----------------------------------------------------------------------------
(* Continuations after the await, run by the event loop one at a time. *)

\* refreshNetworkData / refreshAlertsData after the await: on success
\* updateNetworkDisplay / updateAlertsDisplay rewrite the section; on
\* failure the catch only logs.
RefreshResumes(r) ==
    /\ r.pane \in Panes /\ r.phase # "sent"
    /\ requests' = BagRemove(requests, r)
    /\ view' = IF r.phase = "ok" THEN [view EXCEPT ![r.pane] = r.ver] ELSE view
    /\ UNCHANGED <<currentTab, server, modal, toasts, alertsPushed, submits, exports, downloads>>

\* createAlertRule after the await: success toast, modal hidden, form
\* reset, and a refreshAlertsData that is not awaited; or an error toast.
CreateRuleResumes(r) ==
    /\ r.pane = "rule" /\ r.phase # "sent"
    /\ IF r.phase = "ok"
         THEN /\ toasts' = BagAdd(toasts, "ruleCreated")
              /\ modal' = FALSE
              /\ requests' = BagAdd(BagRemove(requests, r), Sent("alerts"))
         ELSE /\ toasts' = BagAdd(toasts, "ruleFailed")
              /\ requests' = BagRemove(requests, r)
              /\ UNCHANGED modal
    /\ UNCHANGED <<currentTab, view, server, alertsPushed, submits, exports, downloads>>

\* Mutant of ExportResumes: the .catch only logs, like the polls'.
ExportResumesSilent(r) ==
    /\ r.pane = "export" /\ r.phase # "sent"
    /\ requests' = BagRemove(requests, r)
    /\ downloads' = IF r.phase = "ok" THEN downloads + 1 ELSE downloads
    /\ UNCHANGED <<currentTab, view, server, modal, toasts, alertsPushed, submits, exports>>

\* exportNetworkData's .then (JSON.stringify, a Blob, an <a download>
\* clicked: one file) or its .catch (an error toast).
ExportResumes(r) ==
    /\ r.pane = "export" /\ r.phase # "sent"
    /\ requests' = BagRemove(requests, r)
    /\ \/ r.phase = "ok" /\ downloads' = downloads + 1 /\ UNCHANGED toasts
       \/ r.phase = "err" /\ toasts' = BagAdd(toasts, "exportFailed") /\ UNCHANGED downloads
    /\ UNCHANGED <<currentTab, view, server, modal, alertsPushed, submits, exports>>

\* handleAlert, for a pushed "alert" message: a toast of the alert's
\* severity, then updateAlertsDisplay() with no argument, which returns at
\* its `if (!alertsData)` guard.
HandleAlert ==
    /\ alertsPushed < MaxAlerts
    /\ alertsPushed' = alertsPushed + 1
    /\ toasts' = BagAdd(toasts, "alert")
    /\ UNCHANGED <<currentTab, requests, view, server, modal, submits, exports, downloads>>

-----------------------------------------------------------------------------

Next ==
    \/ \E t \in Tabs : ClickTab(t)
    \/ IntervalTick
    \/ \E p \in Panes : ClickRefresh(p) \/ ServerChanges(p)
    \/ ShowCreateAlertModal \/ CloseModal \/ SubmitRule \/ ClickExport
    \/ \E r \in BagToSet(requests) :
          \/ ServerAnswers(r) \/ ServerAddsRule(r) \/ RequestFails(r)
          \/ RefreshResumes(r) \/ CreateRuleResumes(r) \/ ExportResumes(r)
    \/ HandleAlert

\* The answer to GET /api/<p> that succeeds.
PollSucceeds(p) == \E r \in BagToSet(requests) : r.pane = p /\ ServerAnswers(r)

\* setInterval keeps firing; the event loop runs every settled
\* continuation; every fetch settles (the transport fails it at the
\* latest); and a server that can answer a section's GET again and again
\* eventually answers one (strong fairness: it may fail in between).
\* Fairness is per group of requests, so that one section's fetches cannot
\* be starved by the other's; the POST and the export share a group, as
\* both are bounded by the user's clicks.
RequestGroups == {{p} : p \in Panes} \cup {{"rule", "export"}}

Fairness ==
    /\ WF_vars(IntervalTick)
    /\ \A g \in RequestGroups :
          /\ WF_vars(\E r \in BagToSet(requests) :
                       r.pane \in g /\ (RefreshResumes(r) \/ CreateRuleResumes(r) \/ ExportResumes(r)))
          /\ WF_vars(\E r \in BagToSet(requests) :
                       r.pane \in g /\ (ServerAnswers(r) \/ ServerAddsRule(r) \/ RequestFails(r)))
    /\ \A p \in Panes : SF_vars(PollSucceeds(p))

Spec == Init /\ [][Next]_vars /\ Fairness

-----------------------------------------------------------------------------
(* Properties *)

\* Spec 4.5: the visible section is refreshed periodically.  Whatever
\* order the answers come back in (an older answer may overwrite a newer
\* one), if the user stays on the network or alerts tab, the section
\* eventually shows the server's data and keeps showing it -- the
\* interval in startDataRefresh repairs any stale overwrite.
VisibleSectionConverges ==
    \A p \in Panes : <>[](currentTab = p) => <>[](view[p] = server[p])

\* A section never goes back to older data than it shows: an answer
\* applied by refreshNetworkData / refreshAlertsData is never older than
\* the one applied before it.
SectionNeverRegresses ==
    [][\A p \in Panes : view'[p] >= view[p]]_view

\* Spec 4.4: a failed poll (refreshNetworkData / refreshAlertsData ending
\* in its catch) is surfaced as one transient notification.
PollFailureNotified ==
    [][\A r \in BagToSet(requests) :
          (r.pane \in Panes /\ r.phase = "err" /\ RefreshResumes(r))
             => ErrorToasts(toasts') = ErrorToasts(toasts) + 1]_vars

\* Spec 7(b) and 5: every form submission and every export click ends in
\* something the user sees -- createAlertRule's success or error toast,
\* exportNetworkData's downloaded file or error toast -- however the
\* POST or GET settles and whatever else is outstanding (k-th action ~>
\* k-th outcome, counted per operation).
UserActionsAnswered ==
    /\ \A k \in 1..MaxSubmits :
          submits >= k ~> CopiesIn("ruleCreated", toasts) + CopiesIn("ruleFailed", toasts) >= k
    /\ \A k \in 1..MaxExports :
          exports >= k ~> downloads + CopiesIn("exportFailed", toasts) >= k

\* Spec 4.4: a pushed alert goes to the notification sink AND to the
\* alerts-tab refresh path, i.e. handleAlert starts a refresh of the
\* alerts section.
AlertRefreshesAlerts ==
    [][alertsPushed' = alertsPushed + 1
         => CopiesIn(Sent("alerts"), requests') > CopiesIn(Sent("alerts"), requests)]_vars

=============================================================================
