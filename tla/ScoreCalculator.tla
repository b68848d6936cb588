--------------------------- MODULE ScoreCalculator ---------------------------
(***************************************************************************)
(* The performance scores of the radar chart and the hit/miss split of    *)
(* the cache doughnut (dashboard.js:767-817), as operators over the       *)
(* performance section of a snapshot.  The module's variable is only the  *)
(* input: Init enumerates the sections a snapshot can carry and the       *)
(* properties compare the code's operators with spec section 4.3.        *)
(*                                                                         *)
(* JavaScript numbers are exact rationals <<p, q>> (q > 0) or NaN; a      *)
(* field the JSON did not carry reads as Undefined.  Go omits absent      *)
(* sections, so null is not an input.                                     *)
(***************************************************************************)
EXTENDS Integers

CONSTANTS
  Undefined,       \* the value of a missing property
  NaN,             \* JavaScript NaN
  PercentValues,   \* values a percentage field may take (or Undefined)
  CountValues      \* values a counter field may take (or Undefined)

VARIABLE performance   \* latest.performance of the newest history entry

Num(v) == <<v, 1>>

(* x || d on a JSON number or a missing field.                           *)
Or(x, d) == IF x \in {Undefined, 0} THEN d ELSE x

(* obj.f where obj may be missing: the code's `|| {}` and `?.`.          *)
Get(obj, f) == IF obj = Undefined THEN Undefined ELSE obj[f]

(* Math.min(100, x).                                                     *)
MathMin100(x) ==
  CASE x = NaN              -> NaN
    [] x[1] <= 100 * x[2]   -> x
    [] OTHER                -> Num(100)

(* Variant of HashJoinRate without the +1 of the denominator.            *)
HashJoinRateUnguarded(stats) ==
  LET h == stats.cache_hits
      m == stats.cache_misses
  IN  CASE h = Undefined \/ m = Undefined -> NaN
        [] h + m = 0                      -> NaN          \* 0 / 0
        [] OTHER                          -> <<100 * h, h + m>>

(* cache_hits / (cache_hits + cache_misses + 1) * 100: arithmetic on a   *)
(* missing field is NaN.                                                 *)
HashJoinRate(stats) ==
  LET h == stats.cache_hits
      m == stats.cache_misses
  IN  IF h = Undefined \/ m = Undefined THEN NaN
      ELSE <<100 * h, h + m + 1>>

(* calculatePerformanceScore (800-817).                                  *)
CalculatePerformanceScore(component, stats) ==
  IF stats = Undefined THEN Num(0)
  ELSE CASE component = "indexedStorage" -> MathMin100(Num(Or(stats.cache_hit_ratio, 0)))
         [] component = "hashJoin"       -> MathMin100(HashJoinRate(stats))
         [] component = "evalCache"      -> MathMin100(Num(Or(stats.hit_ratio, 0)))
         [] component = "tokenProp"      -> MathMin100(Num(Or(stats.parallel_efficiency, 0)))
         [] OTHER                        -> Num(0)

(* updatePerformanceRadarChart (767-784): the four scores, in order.     *)
RadarScores(perf) ==
  << CalculatePerformanceScore("indexedStorage", Get(perf, "indexed_storage_stats")),
     CalculatePerformanceScore("hashJoin",       Get(perf, "hash_join_stats")),
     CalculatePerformanceScore("evalCache",      Get(perf, "evaluation_cache_stats")),
     CalculatePerformanceScore("tokenProp",      Get(perf, "token_propagation_stats")) >>

(* updateCacheChart (786-798): [hitRatio, 100 - hitRatio].               *)
CacheChartData(perf) ==
  LET hitRatio == Or(Get(Get(perf, "evaluation_cache_stats"), "hit_ratio"), 80)
  IN  <<Num(hitRatio), Num(100 - hitRatio)>>

-----------------------------------------------------------------------------
(* The inputs: a performance section, or none, whose four sub-sections   *)
(* may each be missing.                                                  *)
IndexStats == [cache_hit_ratio : PercentValues]
JoinStats  == [cache_hits : CountValues, cache_misses : CountValues]
EvalStats  == [hit_ratio : PercentValues]
TokenStats == [parallel_efficiency : PercentValues]

Sections ==
  [indexed_storage_stats   : IndexStats \cup {Undefined},
   hash_join_stats         : JoinStats  \cup {Undefined},
   evaluation_cache_stats  : EvalStats  \cup {Undefined},
   token_propagation_stats : TokenStats \cup {Undefined}]

Init == performance \in Sections \cup {Undefined}

Next == UNCHANGED performance

Spec == Init /\ [][Next]_performance

-----------------------------------------------------------------------------
(* Spec 4.3, the reference: a missing sub-section or field is no signal  *)
(* (0); otherwise min(100, ratio) or min(100, hits/(hits+misses+1)*100). *)
Capped(p, q) == IF p <= 100 * q THEN <<p, q>> ELSE Num(100)

RefField(stats, f) == IF Get(stats, f) = Undefined THEN 0 ELSE Get(stats, f)

RefScores(perf) ==
  LET idx == Get(perf, "indexed_storage_stats")
      jn  == Get(perf, "hash_join_stats")
      ev  == Get(perf, "evaluation_cache_stats")
      tk  == Get(perf, "token_propagation_stats")
      h   == RefField(jn, "cache_hits")
      m   == RefField(jn, "cache_misses")
  IN  << Capped(RefField(idx, "cache_hit_ratio"), 1),
         Capped(100 * h, h + m + 1),
         Capped(RefField(ev, "hit_ratio"), 1),
         Capped(RefField(tk, "parallel_efficiency"), 1) >>

SameNumber(a, b) == a # NaN /\ b # NaN /\ a[1] * b[2] = b[1] * a[2]

(* The radar shows the scores spec 4.3 defines for the newest snapshot,  *)
(* including 0 for a cold hash-join cache (hits = misses = 0, spec 8).   *)
ScoresMatchReference ==
  \A i \in 1..4 : SameNumber(RadarScores(performance)[i], RefScores(performance)[i])

(* Every radar score is a number in [0, 100], never NaN (spec 4.3, 8).  *)
ScoresInRange ==
  \A i \in 1..4 :
     LET s == RadarScores(performance)[i]
     IN  s # NaN /\ 0 <= s[1] /\ s[1] <= 100 * s[2]

=============================================================================
