------------------------ MODULE ReconnectingChannel ------------------------
(***************************************************************************)
(* The push channel of RETEDashboard: connectWebSocket and the four       *)
(* handlers it installs on each WebSocket (dashboard.js:455-494), with    *)
(* updateConnectionStatus (535-542) abstracted to the class it sets.      *)
(*                                                                         *)
(* Every handler closes over `this`, not over the socket, so the sockets  *)
(* are interchangeable: the state keeps a bag of the states of the        *)
(* sockets whose handlers can still fire, and the number of pending       *)
(* reconnect timers.  A socket leaves the bag when its close event fires. *)
(* this.wsConnected is written by onopen and onclose but read nowhere in  *)
(* dashboard.js; it is kept because the handlers write it.                *)
(* Each handler is one event-loop task and runs to completion.            *)
(*                                                                         *)
(* The catch branch of connectWebSocket (490-493) is not modelled: the    *)
(* URL is fixed for the page's lifetime, so the constructor throws on the *)
(* first call or never (see README).                                      *)
(***************************************************************************)
EXTENDS Naturals, Bags, BagsExt

VARIABLES
  sockets,          \* bag over SocketStates: the live WebSocket objects
  reconnectTimers,  \* pending setTimeout(() => connectWebSocket(url), 5000)
  wsConnected,      \* this.wsConnected
  connStatus        \* class given to #connectionStatus by the last update

chanVars == <<sockets, reconnectTimers, wsConnected, connStatus>>

(* After the error event the close event is still due; the socket keeps  *)
(* whether it had opened: "connectFailed" or "openFailed".               *)
SocketStates == {"connecting", "open", "connectFailed", "openFailed"}

(* The state onerror leaves a connecting or open socket in.               *)
Failed(s) == IF s = "open" THEN "openFailed" ELSE "connectFailed"

(* "page": whatever the page shows before the first status update.       *)
StatusValues == {"page", "connected", "disconnected", "error"}

Init ==
  /\ sockets = EmptyBag
  /\ reconnectTimers = 0
  /\ wsConnected = FALSE
  /\ connStatus = "page"

(* connectWebSocket(url), try branch: new WebSocket(url), handlers set.  *)
(* Used by setupWebSocket and by the reconnect timer.                    *)
ConnectWebSocket == sockets' = BagAdd(sockets, "connecting")

(* The reconnect timer fires and calls connectWebSocket(url).            *)
ReconnectTimerFires ==
  /\ reconnectTimers > 0
  /\ reconnectTimers' = reconnectTimers - 1
  /\ ConnectWebSocket
  /\ UNCHANGED <<wsConnected, connStatus>>

(* ws.onopen                                                             *)
OnOpen ==
  /\ BagIn("connecting", sockets)
  /\ sockets' = BagAdd(BagRemove(sockets, "connecting"), "open")
  /\ wsConnected' = TRUE
  /\ connStatus' = "connected"
  /\ UNCHANGED reconnectTimers

(* Variant of OnError that also schedules a reconnect.                   *)
OnErrorRetries ==
  /\ \E s \in {"connecting", "open"} :
        /\ BagIn(s, sockets)
        /\ sockets' = BagAdd(BagRemove(sockets, s), Failed(s))
  /\ connStatus' = "error"
  /\ reconnectTimers' = reconnectTimers + 1
  /\ UNCHANGED wsConnected

(* ws.onerror: the transport failed a connecting or open socket; it does *)
(* not close it here, the close event follows.                           *)
OnError ==
  /\ \E s \in {"connecting", "open"} :
        /\ BagIn(s, sockets)
        /\ sockets' = BagAdd(BagRemove(sockets, s), Failed(s))
  /\ connStatus' = "error"
  /\ UNCHANGED <<reconnectTimers, wsConnected>>

(* Variant of OnClose that does not update the connection status.       *)
OnCloseNoStatus ==
  /\ \E s \in {"open", "connectFailed", "openFailed"} :
        /\ BagIn(s, sockets)
        /\ sockets' = BagRemove(sockets, s)
  /\ wsConnected' = FALSE
  /\ reconnectTimers' = reconnectTimers + 1
  /\ UNCHANGED connStatus

(* ws.onclose: an open socket closed cleanly, or a failed one closes.    *)
(* Schedules exactly one reconnect.                                      *)
OnClose ==
  /\ \E s \in {"open", "connectFailed", "openFailed"} :
        /\ BagIn(s, sockets)
        /\ sockets' = BagRemove(sockets, s)
  /\ wsConnected' = FALSE
  /\ connStatus' = "disconnected"
  /\ reconnectTimers' = reconnectTimers + 1

HasOpenSocket == BagIn("open", sockets)

ChanTypeOK ==
  /\ IsABag(sockets) /\ BagToSet(sockets) \subseteq SocketStates
  /\ reconnectTimers \in Nat
  /\ wsConnected \in BOOLEAN
  /\ connStatus \in StatusValues

(* The phase of ChannelStates this state stands for, once setupWebSocket *)
(* has run.  A failed socket is still Connected if it had opened.        *)
ChannelPhase(started) ==
  CASE ~started                                                -> "Idle"
    [] HasOpenSocket \/ BagIn("openFailed", sockets)            -> "Connected"
    [] BagIn("connecting", sockets) \/ BagIn("connectFailed", sockets)
                                                               -> "Connecting"
    [] OTHER                                                   -> "Disconnected"

(* The status ChannelStates has emitted: the class of #connectionStatus, *)
(* none before the first update.                                         *)
ChannelStatus == IF connStatus = "page" THEN "none" ELSE connStatus

=============================================================================
