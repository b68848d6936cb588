------------------------------ MODULE Formatting ------------------------------
(***************************************************************************)
(* The number formatting of the KPI and system tiles (dashboard.js):       *)
(* formatNumber, formatBytes and the memory percentage of                  *)
(* updateSystemMetrics.  Each conversion is modelled by what it does:      *)
(*                                                                         *)
(*  - a number is an exact rational <<p, q>> (q > 0);                      *)
(*  - toFixed(1) rounds to the nearest tenth of the double it is given; at *)
(*    an exact decimal tie the double is slightly above or below the tie,  *)
(*    so both roundings are possible outcomes (999.95 gives "1000.0",      *)
(*    9.95 gives "9.9");                                                   *)
(*  - a byte count is m * 1024^e, so that the inputs can reach the         *)
(*    tebibyte without leaving TLC's integers;                             *)
(*  - Math.floor(Math.log(b) / Math.log(1024)) is the exact integer        *)
(*    logarithm: for integers below 1024^5 the double quotient falls on    *)
(*    the right side of every integer.                                     *)
(*                                                                         *)
(* A display is a record [val, unit]: the number the text shows (exactly,  *)
(* as a rational) and its suffix or unit.                                  *)
(***************************************************************************)
EXTENDS Integers, Sequences

CONSTANTS
    Undefined,      \* a field absent from the JSON
    NumberInputs,   \* rationals given to formatNumber
    ByteInputs,     \* [m, e] meaning m * 1024^e bytes
    MemoryInputs,   \* [used, total] fields of system_metrics
    UptimeInputs    \* rationals given to formatDuration (seconds)

VARIABLES num, bytes, memory, uptime

vars == <<num, bytes, memory, uptime>>

Pow(b, k) == IF k = 0 THEN 1 ELSE b ^ k

\* The possible n / d rounded to an integer, half away from zero, with an
\* exact tie resolved either way (n, d >= 0).
RoundTies(n, d) ==
    LET f == n \div d
        r == n % d
    IN  IF 2 * r < d THEN {f} ELSE IF 2 * r > d THEN {f + 1} ELSE {f, f + 1}

\* Math.round(n / d): half up, whatever the double (n, d >= 0).
MathRound(n, d) == (2 * n + d) \div (2 * d)

-----------------------------------------------------------------------------
(* formatNumber *)

\* The suffix thresholds of formatNumber, as (scale, suffix).
Million == [scale |-> 1000000, unit |-> "M"]
Thousand == [scale |-> 1000, unit |-> "K"]

\* (x / scale).toFixed(1) + unit, for x = <<p, q>>: the shown value is t/10,
\* t the rounding of p / (q * scale / 10).
Scaled(x, s) ==
    { [val |-> <<t, 10>>, unit |-> s.unit] : t \in RoundTies(x[1], x[2] * (s.scale \div 10)) }

\* Mutant of FormatNumber: the tenth is cut off (Math.floor-style
\* truncation) instead of rounded.
FormatNumberTruncating(x) ==
    LET Cut(s) == {[val |-> <<x[1] \div (x[2] * (s.scale \div 10)), 10>>, unit |-> s.unit]}
    IN  IF x[1] >= 1000000 * x[2] THEN Cut(Million)
        ELSE IF x[1] >= 1000 * x[2] THEN Cut(Thousand)
        ELSE {[val |-> x, unit |-> ""]}

\* formatNumber(num): the set of texts it can produce.  num.toString()
\* shows the number itself.
FormatNumber(x) ==
    IF x[1] >= 1000000 * x[2] THEN Scaled(x, Million)
    ELSE IF x[1] >= 1000 * x[2] THEN Scaled(x, Thousand)
    ELSE {[val |-> x, unit |-> ""]}

-----------------------------------------------------------------------------
(* formatBytes *)

Sizes == <<"B", "KB", "MB", "GB">>

\* floor(log1024(m)) for an integer m >= 1.
RECURSIVE Log1024(_)
Log1024(m) == IF m < 1024 THEN 0 ELSE 1 + Log1024(m \div 1024)

\* sizes[i], which is undefined past "GB".
Unit(i) == IF i < Len(Sizes) THEN Sizes[i + 1] ELSE Undefined

\* Mutant of FormatBytes: Math.round(bytes / 1024^i), whole units only.
FormatBytesWholeUnits(b) ==
    IF b.m = 0 THEN [val |-> <<0, 1>>, unit |-> "B"]
    ELSE LET i == b.e + Log1024(b.m)
             d == Pow(1024, i - b.e)
         IN  [val |-> <<100 * MathRound(b.m, d), 100>>, unit |-> Unit(i)]

\* formatBytes(bytes) for bytes = m * 1024^e: 0 is "0 B"; otherwise
\* i = floor(log1024(bytes)) and the value is rounded to hundredths with
\* Math.round(bytes / 1024^i * 100) / 100.
FormatBytes(b) ==
    IF b.m = 0 THEN [val |-> <<0, 1>>, unit |-> "B"]
    ELSE LET i == b.e + Log1024(b.m)
             d == Pow(1024, i - b.e)
         IN  [val |-> <<MathRound(100 * b.m, d), 100>>, unit |-> Unit(i)]

-----------------------------------------------------------------------------
(* updateSystemMetrics, memory *)

Or(x, dflt) == IF x \in {Undefined, 0} THEN dflt ELSE x

\* Math.round((memoryUsed / memoryTotal) * 100) with the || 0 and || 1
\* fallbacks.
MemoryPercent(mem) ==
    LET used == Or(mem.used, 0)
        total == Or(mem.total, 1)
    IN  MathRound(100 * used, total)

-----------------------------------------------------------------------------
(* formatDuration *)

\* Math.floor((x % r) / d) for x = <<p, q>> >= 0 (r = 0: no remainder).
FloorPart(x, r, d) ==
    LET n == IF r = 0 THEN x[1] ELSE x[1] % (r * x[2])
    IN  n \div (d * x[2])

\* Mutant of FormatDuration: the minutes are not taken modulo the hour.
FormatDurationNoModulo(x) ==
    LET h == FloorPart(x, 0, 3600)
        m == FloorPart(x, 0, 60)
        s == FloorPart(x, 60, 1)
    IN  IF h > 0 THEN <<h, m>> ELSE IF m > 0 THEN <<0, m, s>> ELSE <<0, 0, s>>

\* formatDuration(seconds): "Xh Ym", "Xm Ys" or "Xs", as the shown fields
\* <<h, m>> or <<h, m, s>> (the fields left out of the text are 0).
FormatDuration(x) ==
    LET h == FloorPart(x, 0, 3600)
        m == FloorPart(x, 3600, 60)
        s == FloorPart(x, 60, 1)
    IN  IF h > 0 THEN <<h, m>> ELSE IF m > 0 THEN <<0, m, s>> ELSE <<0, 0, s>>

-----------------------------------------------------------------------------

Init ==
    /\ num \in NumberInputs
    /\ bytes \in ByteInputs
    /\ memory \in MemoryInputs
    /\ uptime \in UptimeInputs

Next == UNCHANGED vars

Spec == Init /\ [][Next]_vars

-----------------------------------------------------------------------------
(* Properties *)

UnitScale(u) ==
    CASE u = "M" -> 1000000 [] u = "K" -> 1000 [] OTHER -> 1

\* formatNumber is faithful: the KPI text, read back with its suffix, is
\* within half of its last digit of the number (the rounding of toFixed(1)
\* after the division by 1000 or 1000000), whichever way a tie goes.
NumberDisplayAccurate ==
    \A d \in FormatNumber(num) :
        IF d.unit = "" THEN d.val = num
        ELSE LET tenth == UnitScale(d.unit) \div 10
                 err2 == 2 * (d.val[1] * tenth * num[2] - num[1])
             IN  -(tenth * num[2]) <= err2 /\ err2 <= tenth * num[2]

\* formatNumber never shows a mantissa that belongs to the next suffix:
\* below "K" and "M" the shown value stays under 1000.
NumberSuffixCanonical ==
    \A d \in FormatNumber(num) : d.unit \in {"K", "M"} => d.val[1] < 1000 * d.val[2]

\* formatDuration is faithful: each shown field is below 60 under the
\* hour, and the duration read back is at most the uptime and less than
\* one unit of the last shown field below it.
DurationDisplayAccurate ==
    LET f == FormatDuration(uptime)
        unit == IF Len(f) = 2 THEN 60 ELSE 1
        back == f[1] * 3600 + f[2] * 60 + (IF Len(f) = 3 THEN f[3] ELSE 0)
    IN  /\ \A i \in 2..Len(f) : f[i] < 60
        /\ back * uptime[2] <= uptime[1]
        /\ uptime[1] < (back + unit) * uptime[2]

\* formatBytes is faithful to two decimals: where it names a unit, the
\* text read back is within half a hundredth of that unit of the byte
\* count (the Math.round(... * 100) / 100 of formatBytes).
BytesDisplayAccurate ==
    LET d == FormatBytes(bytes)
        i == IF bytes.m = 0 THEN 0 ELSE Log1024(bytes.m)
        u == Pow(1024, i)
        err2 == 2 * (d.val[1] * u - 100 * bytes.m)
    IN  d.unit # Undefined => -u <= err2 /\ err2 <= u

=============================================================================
