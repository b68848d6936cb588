--------------------------- MODULE ChannelStates ---------------------------
(***************************************************************************)
(* What the push channel promises (spec section 4.1): the state machine   *)
(* Idle -> Connecting -> Connected -> Disconnected -> Connecting -> ...   *)
(* with no terminal state, a disconnected channel always retries, and the *)
(* status shown to the user: connected on open, disconnected on close, an *)
(* error status on a protocol error that leaves the phase as it is.       *)
(***************************************************************************)
VARIABLES phase, status

Phases   == {"Idle", "Connecting", "Connected", "Disconnected"}
Statuses == {"none", "connected", "disconnected", "error"}

Init == phase = "Idle" /\ status = "none"

Connect == phase = "Idle"         /\ phase' = "Connecting" /\ UNCHANGED status
Opened  == phase = "Connecting"   /\ phase' = "Connected"  /\ status' = "connected"
Error   == phase \in {"Connecting", "Connected"} /\ status' = "error"
                                                 /\ UNCHANGED phase
Dropped == phase \in {"Connecting", "Connected"} /\ phase' = "Disconnected"
                                                 /\ status' = "disconnected"
Retry   == phase = "Disconnected" /\ phase' = "Connecting" /\ UNCHANGED status

Next == Connect \/ Opened \/ Error \/ Dropped \/ Retry

(* Reconnection is unconditional: a disconnected channel does not stay   *)
(* disconnected.                                                          *)
Spec == Init /\ [][Next]_<<phase, status>> /\ WF_<<phase, status>>(Retry)

=============================================================================
