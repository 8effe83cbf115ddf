-------------------------- MODULE OptimizerLandscape --------------------------
(***************************************************************************)
(* What the rows that evolutions already paid for say of the shape of a     *)
(* surface: the routing weights of the rows and the confidence in them, and *)
(* the descriptors of the landscape, each by the bucket it falls in.        *)
(*                                                                          *)
(* Numbers are integers: scores, distances and slopes in thousandths,       *)
(* weights in hundredths.  A hyperbolic tangent is compared with its bound  *)
(* by comparing its argument, rounded to thousandths.                       *)
(***************************************************************************)
EXTENDS EvolutionSearch, SequencesExt

CONSTANTS
    Capabilities,       \* the fields that choose a capability; the others are continuous
    Scale(_)            \* the width of the range of a continuous field

MinLandscapeRows == 4   \* _MIN_LANDSCAPE_ROWS, OPTIMIZER_OBSERVATION_MIN_EFFECTIVE_ROWS

Feasibility == {"yes", "no", "unknown"}

ASSUME LandscapeAssumption ==
    Capabilities \subseteq Fields /\ \A f \in Fields \ Capabilities : Scale(f) \in Nat \ {0}

\* A row: config, score, whether it met the constraints of its evaluation, and weight.
Total(rows) == MapThenSumSet(LAMBDA x : x.weight, rows)
WeightedSum(rows, V(_)) == MapThenSumSet(LAMBDA x : x.weight * V(x), rows)
WeightedMean(rows, V(_)) == WeightedSum(rows, V) \div Total(rows)

\* The sum of the values of f.
SumOf(f) == MapThenSumSet(LAMBDA x : f[x], DOMAIN f)

\* The root of n, rounded down.
Root(n) == CHOOSE r \in 0 .. n : r * r <= n /\ n < (r + 1) * (r + 1)

-----------------------------------------------------------------------------
(* Weights.                                                                 *)

\* A quarter more for every doubling of the sightings, at most twice; rows of the last
\* minutes lose nothing by their age.
EvidenceWeight(seen) ==
    CASE seen <= 1 -> 100 [] seen = 2 -> 125 [] seen = 3 -> 140 [] seen = 4 -> 150
      [] seen \in 5 .. 7 -> 160 [] seen \in 8 .. 15 -> 175 [] OTHER -> 200

\* optimizer_observation_weight_diagnostics, the bounds of staying: enough effective rows
\* (Kish), no more than their weight, and no single row that dominates.
MayStay(rows) ==
    LET total == Total(rows)
        squares == MapThenSumSet(LAMBDA x : x.weight * x.weight, rows)
    IN /\ Cardinality(rows) >= MinLandscapeRows
       /\ total * total * 100 >= 350 * squares
       /\ total >= 350
       /\ \A x \in rows : x.weight * 100 <= 55 * total

-----------------------------------------------------------------------------
(* Geometry.                                                                *)

\* The score below which so many percent of the weight lie.
Quantile(rows, percent) ==
    LET Below(v) == Total({x \in rows : x.score <= v})
    IN Min({x.score : x \in {y \in rows : 100 * Below(y.score) >= percent * Total(rows)}})

Magnitude(n) == IF n < 0 THEN -n ELSE n

\* _normalized_distance
Distance(c, d) ==
    LET Part(f) == IF f \in Capabilities THEN IF c[f] = d[f] THEN 0 ELSE 1000000
                   ELSE LET part == (Magnitude(c[f] - d[f]) * 1000) \div Scale(f)
                        IN part * part
    IN Root(MapThenSumSet(Part, Fields) \div Cardinality(Fields))

\* The slope from every row to a nearest neighbour, with the weight of the pair.
Slopes(rows, Level(_)) ==
    {LET others == {y \in rows : Distance(x.config, y.config) > 0}
         y == CHOOSE y \in others : \A z \in others :
                 Distance(x.config, y.config) <= Distance(x.config, z.config)
     IN [of |-> x.config, weight |-> Root(x.weight * y.weight),
         slope |-> (Magnitude(Level(x) - Level(y)) * 1000) \div Distance(x.config, y.config)] :
     x \in {x \in rows : \E y \in rows : Distance(x.config, y.config) > 0}}

\* How far the means of the levels lie apart over the choices of a capability.
Separation(rows, Level(_), f) ==
    LET means == {WeightedMean({x \in rows : x.config[f] = v}, Level) :
                     v \in {x.config[f] : x \in rows}}
    IN Max(means) - Min(means)

\* _bucket
Bucket(value, low, high, labels) ==
    IF value < low THEN labels[1] ELSE IF value < high THEN labels[2] ELSE labels[3]

RowsBucket(n) == IF n = 0 THEN "none" ELSE IF n < MinLandscapeRows THEN "sparse"
                 ELSE IF n < 8 THEN "moderate" ELSE "rich"

\* identity_dict: the names of the buckets.
Buckets == {"rows", "span", "roughness", "dispersion", "feasible", "categorical"}

\* The identity of a landscape that is not described.
Undescribed(n) == [rows |-> RowsBucket(n), span |-> "unknown", roughness |-> "unknown",
                   dispersion |-> "unknown", feasible |-> "unknown",
                   categorical |-> "unknown"]

Informative(landscape) == landscape.span # "unknown"

\* The landscape of rows whose scores span from low to high.
Geometry(rows, low, high) ==
    LET span == high - low
        Score_(x) == x.score
        base == LargerOf(50 * Total(rows), Magnitude(WeightedSum(rows, Score_)))
        Level(x) == IF span = 0 THEN 0
                    ELSE SmallerOf(1000, LargerOf(0, ((x.score - low) * 1000) \div span))
        slopes == Slopes(rows, Level)
        Slope(x) == x.slope
        mean == WeightedMean(slopes, Slope)
        Square(x) == LET off == (x.slope - mean) \div 10 IN off * off
        deviation == IF Cardinality(slopes) < 2 THEN 0
                     ELSE Root(100 * WeightedMean(slopes, Square))
        split == {f \in Capabilities : Cardinality({x.config[f] : x \in rows}) >= 2}
        good == {x \in rows : x.feasible = "yes"}
    IN [rows |-> RowsBucket(Cardinality(rows)),
        span |-> Bucket(span * Total(rows), base, 2 * base, <<"compact", "broad", "extreme">>),
        roughness |-> IF slopes = {} THEN "unknown"
                      ELSE Bucket(mean, 485, 1046, <<"smooth", "mixed", "rugged">>),
        dispersion |-> IF slopes = {} THEN "unknown"
                       ELSE Bucket((deviation * 1000) \div (mean + 250), 365, 549,
                                   <<"stable", "variable", "volatile">>),
        feasible |-> IF \E x \in rows : x.feasible = "unknown" THEN "unknown"
                     ELSE Bucket(Total(good) * 100, 35 * Total(rows), 75 * Total(rows),
                                 <<"sparse", "mixed", "dense">>),
        categorical |-> IF split = {} THEN "unknown"
                        ELSE Bucket(Max({Separation(rows, Level, f) : f \in split}), 200, 550,
                                    <<"weak", "moderate", "strong">>)]

\* describe_optimizer_landscape: every row counts alike.
Describe(rows) ==
    LET plain == {[x EXCEPT !.weight = 100] : x \in rows}
        scores == {x.score : x \in rows}
    IN IF Cardinality(rows) < MinLandscapeRows THEN Undescribed(Cardinality(rows))
       ELSE Geometry(plain, Min(scores), Max(scores))

\* describe_weighted_optimizer_landscape: the outer twentieths of the weight are clipped.
DescribeWeighted(rows) ==
    IF Cardinality(rows) < MinLandscapeRows THEN Undescribed(Cardinality(rows))
    ELSE Geometry(rows, Quantile(rows, 5), Quantile(rows, 95))
=============================================================================
