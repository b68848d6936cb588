--------------------------- MODULE HistoryBuffer ---------------------------
(***************************************************************************)
(* RETEDashboard.metricsHistory (dashboard.js:8-9): the bounded series    *)
(* the time-series charts are drawn from.  The module owns the variable;  *)
(* the controller (Dashboard) drives it through the two writes the code   *)
(* makes: addToHistory and the wholesale replace of handleInitialData.    *)
(***************************************************************************)
EXTENDS Naturals, Sequences

CONSTANT MaxHistoryPoints   \* this.maxHistoryPoints, 50 in the code

ASSUME MaxHistoryPoints \in Nat \ {0}

VARIABLE metricsHistory

Init == metricsHistory = <<>>

(* Variant of Added that evicts one entry too early (>= for >). *)
AddedEvictEarly(buf, e) ==
  LET pushed == Append(buf, e)
  IN  IF Len(pushed) >= MaxHistoryPoints THEN Tail(pushed) ELSE pushed

(* addToHistory: push the entry, then shift once if over capacity.       *)
Added(buf, e) ==
  LET pushed == Append(buf, e)
  IN  IF Len(pushed) > MaxHistoryPoints THEN Tail(pushed) ELSE pushed

AddToHistory(e) == metricsHistory' = Added(metricsHistory, e)

(* handleInitialData: a non-empty data.history is assigned as it is.     *)
ReplaceHistory(h) == metricsHistory' = h

(* The most recent n elements of s, in order.                            *)
Recent(s, n) ==
  IF Len(s) <= n THEN s ELSE SubSeq(s, Len(s) - n + 1, Len(s))

=============================================================================
