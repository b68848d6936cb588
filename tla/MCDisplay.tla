------------------------------ MODULE MCDisplay ------------------------------
(***************************************************************************)
(* The pure display computations of one metrics_update, checked together: *)
(* the radar and cache charts of updatePerformanceMetrics                 *)
(* (ScoreCalculator) and the tile texts of updateReteMetrics,             *)
(* updatePerformanceMetrics and updateSystemMetrics (Formatting).  The    *)
(* two depend on disjoint fields and share no state, so a behaviour       *)
(* varies the inputs of one of them while the other's rest at an input   *)
(* of its own set: the states are the sum of the two input spaces, not    *)
(* their product.                                                          *)
(***************************************************************************)
EXTENDS Integers

CONSTANTS
    Undefined, NaN,
    PercentValues, CountValues,                            \* ScoreCalculator
    NumberInputs, ByteInputs, MemoryInputs, UptimeInputs   \* Formatting

VARIABLES performance, num, bytes, memory, uptime

vars == <<performance, num, bytes, memory, uptime>>

Scores == INSTANCE ScoreCalculator
Formats == INSTANCE Formatting

(* Percentages below, at and above the cap of 100 and the 0 that `|| 0`  *)
(* and `|| 80` treat as missing; hash-join counters from the cold cache  *)
(* (0, 0) up; and the same with fields the JSON may omit.                *)
MCPercents == {0, 50, 100, 150}
MCCounts   == {0, 1, 2}
MCPercentsOrMissing == MCPercents \cup {Undefined}
MCCountsOrMissing   == MCCounts \cup {Undefined}

(* Each side of the 1000 and 1000000 thresholds, a fraction, exact ties  *)
(* of toFixed(1), the last values before a suffix rolls over.            *)
MCNumbers ==
    { <<0, 1>>, <<7, 1>>, <<25, 2>>, <<999, 1>>, <<1999, 2>>, <<1000, 1>>,
      <<99995, 1>>, <<999949, 1>>, <<999950, 1>>, <<999960, 1>>,
      <<1000000, 1>>, <<1500000, 1>>, <<999999999, 1>> }

\* 0 B, 512 B, 1 KiB, 1.5 KiB, 1 MiB - 1 B, 1 GiB - 1 KiB, 1 GiB, 1 TiB.
MCBytes ==
    { [m |-> 0, e |-> 0], [m |-> 512, e |-> 0], [m |-> 1024, e |-> 0],
      [m |-> 1536, e |-> 0], [m |-> 1048575, e |-> 0],
      [m |-> 1048575, e |-> 1], [m |-> 1, e |-> 3], [m |-> 1, e |-> 4] }

\* Memory fields zero, present or missing.
MCMemory ==
    [used : {0, 512, 1024, Undefined}, total : {0, 1024, Undefined}]

\* 0 s, a fraction, each side of the minute and the hour, over a day.
MCUptimes ==
    { <<0, 1>>, <<119, 2>>, <<60, 1>>, <<3599, 1>>, <<3600, 1>>, <<3661, 1>>,
      <<90061, 1>> }

\* The tiles' inputs of a message whose metrics are all zero, and the
\* performance section of a message that carries none.
TilesAtRest ==
    /\ num = <<0, 1>> /\ bytes = [m |-> 0, e |-> 0]
    /\ memory = [used |-> 0, total |-> 0] /\ uptime = <<0, 1>>

Init ==
    \/ Scores!Init /\ TilesAtRest
    \/ Formats!Init /\ performance = Undefined

Spec == Init /\ [][UNCHANGED vars]_vars

-----------------------------------------------------------------------------
(* The properties of the two modules, stated there. *)

\* The radar shows exactly the scores of spec 4.3 (ScoreCalculator).
ScoresMatchReference == Scores!ScoresMatchReference

\* Every radar score of updatePerformanceRadarChart is a number in
\* 0..100, never NaN (ScoreCalculator).
ScoresInRange == Scores!ScoresInRange

\* formatNumber shows its value to within half its last digit (Formatting).
NumberDisplayAccurate == Formats!NumberDisplayAccurate

\* formatBytes shows its value to within half a hundredth of its unit
\* (Formatting).
BytesDisplayAccurate == Formats!BytesDisplayAccurate

\* formatDuration reads back to the uptime, to within its last field
\* (Formatting).
DurationDisplayAccurate == Formats!DurationDisplayAccurate

\* formatNumber never shows a mantissa of 1000 or more before K or M
\* (Formatting).
NumberSuffixCanonical == Formats!NumberSuffixCanonical

=============================================================================
