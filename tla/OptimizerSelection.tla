-------------------------- MODULE OptimizerSelection --------------------------
(***************************************************************************)
(* How the optimizer policy "auto" ranks the backends in a routing context: *)
(* a prior by context, corrected by the credit that backends earned in      *)
(* similar contexts, plus a bonus for what was tried little.                *)
(*                                                                          *)
(* Priors are hundredths, similarities, adjustments and scores              *)
(* ten-thousandths, utilities hundredths.                                   *)
(*                                                                          *)
(* Definitions commented "Mutant" are plausible bugs in the definition that *)
(* follows; nothing uses them but the sanity check of the properties.       *)
(***************************************************************************)
EXTENDS OptimizerLandscape

FixedBackends == <<"native", "optuna", "optuna_motpe", "qlognehvi">>

\* The two objectives and the two constraints that every routing context states.
Objectives  == 2
Constraints == 2

Continuous == Fields \ Capabilities

-----------------------------------------------------------------------------
(* The context.                                                             *)

\* _response_surface_capacity: two steps of a continuous field, every other choice of a
\* capability.
SurfaceCapacity(choices) ==
    2 * Cardinality(Continuous) + MapThenSumSet(LAMBDA f : choices[f] - 1, Capabilities)

\* _estimated_native_evaluation_budget: the first generation reuses seeds that the surface
\* measured, the later ones refill the places that parents leave.
EstimatedBudget(rows) ==
    LET cached == SmallerOf(SmallerOf(SurfaceSeeds, rows), PopulationSize)
    IN (PopulationSize - cached)
       + (Generations - 1) * (PopulationSize - SmallerOf(Parents, PopulationSize))

BudgetBucket(n) ==
    IF n <= 3 THEN "tiny" ELSE IF n <= 12 THEN "small"
    ELSE IF n <= 32 THEN "medium" ELSE "large"

CategoricalBucket(cardinality) ==
    IF cardinality <= 1 THEN "none" ELSE IF cardinality <= 8 THEN "small"
    ELSE IF cardinality <= 32 THEN "medium" ELSE "large"

Cardinalities(choices) == FoldSet(LAMBDA f, n : choices[f] * n, 1, Capabilities)

\* build_routing_context; strategies counts the concrete configs that are remembered.
RoutingContext(surface, route, choices, strategies, landscape) ==
    LET rows == SurfaceCapacity(choices)
    IN [surface |-> surface, route |-> route, budget |-> EstimatedBudget(rows),
        warm |-> rows + SmallerOf(strategies, PopulationSize),
        continuous |-> Cardinality(Continuous), cardinality |-> Cardinalities(choices),
        landscape |-> landscape]

\* context_key: a landscape that says nothing is no part of the identity.
ContextKey(c) ==
    IF Informative(c.landscape) THEN c ELSE [c EXCEPT !.landscape = Undescribed(0)]

-----------------------------------------------------------------------------
(* The prior.                                                               *)

\* What a feature of the context adds for each backend.
Adds(native, optuna, motpe, qlog) ==
    [native |-> native, optuna |-> optuna, optuna_motpe |-> motpe, qlognehvi |-> qlog]

None == Adds(0, 0, 0, 0)

\* _landscape_prior_adjustment
ClearGeometry(l) ==
    l.span = "compact" /\ l.dispersion = "stable" /\ l.categorical = "strong"
DifficultGeometry(l) == l.span = "extreme" \/ l.dispersion = "volatile"

LandscapePriors(c) ==
    LET l == c.landscape
        production == c.route = "production"
    IN << IF c.budget <= 12 /\ ClearGeometry(l) THEN Adds(46, -8, -7, -4) ELSE None,
          IF c.budget <= 12 /\ DifficultGeometry(l) THEN Adds(-10, 10, 4, -4) ELSE None,
          IF ~production /\ l.roughness = "rugged" THEN Adds(0, 2, 1, -3) ELSE None,
          IF /\ production /\ c.budget >= 13
             /\ l.span = "compact" /\ l.dispersion = "stable"
          THEN Adds(-2, 0, 2, 8) ELSE None,
          IF c.budget >= 13 /\ Objectives >= 2 /\ l.feasible = "sparse"
          THEN Adds(-3, 0, 4, 4) ELSE None >>

\* _prior_score, without the landscape.
BudgetPrior(n) ==
    CASE n <= 3        -> Adds(30, 2, -12, -34)
      [] n \in 4 .. 12  -> Adds(-2, 14, -2, 0)
      [] n \in 13 .. 32 -> Adds(-8, 5, 7, 12)
      [] OTHER              -> Adds(-12, 0, 6, 16)

ContinuousPrior(n) ==
    CASE n = 0       -> Adds(6, 10, 5, -25)
      [] n \in 1 .. 4 -> Adds(0, 3, 3, 4)
      [] n >= 9      -> Adds(-4, 6, 4, -5)
      [] OTHER       -> None

CardinalityPrior(n) ==
    CASE n > 32      -> Adds(0, 8, 5, -8)
      [] n \in 2 .. 8 -> Adds(0, 2, 2, 3)
      [] OTHER       -> None

WarmPrior(rows) ==
    CASE rows < 4  -> Adds(5, 3, -2, -18)
      [] rows >= 6 -> Adds(0, 2, 3, 5)
      [] OTHER     -> None

Priors(c) ==
    << Adds(40, 62, 61, 68), BudgetPrior(c.budget),
       IF Objectives >= 2 THEN Adds(-3, -3, 9, 8) ELSE None,
       IF Constraints > 0 THEN Adds(-3, -1, 4, 12) ELSE None,
       ContinuousPrior(c.continuous), CardinalityPrior(c.cardinality),
       IF c.route = "production" THEN Adds(-2, 1, 3, 12) ELSE Adds(3, 8, 2, -24),
       WarmPrior(c.warm) >>

PriorScore(b, c) ==
    LET priors == Priors(c)
        shapes == IF Informative(c.landscape) THEN LandscapePriors(c) ELSE <<>>
    IN SumOf([i \in DOMAIN priors |-> priors[i][b]]) + SumOf([i \in DOMAIN shapes |-> shapes[i][b]])

-----------------------------------------------------------------------------
(* The credit.  A row: context, backend, count of runs, sum of utility. *)

\* How alike the schemas and routes are, in hundredths.
BaseSimilarity(k, c) ==
    (IF k.surface = c.surface THEN 20 ELSE 0) + (IF k.route = c.route THEN 25 ELSE 0)
    + (IF BudgetBucket(k.budget) = BudgetBucket(c.budget) THEN 15 ELSE 0)
    + (IF k.continuous = c.continuous THEN 10 ELSE 0)
    + (IF CategoricalBucket(k.cardinality) = CategoricalBucket(c.cardinality) THEN 10 ELSE 0)
    + 20                \* both state the same objectives and constraints

KnownInBoth(k, c) ==
    {f \in Buckets : k.landscape[f] # "unknown" /\ c.landscape[f] # "unknown"}

\* Landscapes that differ in most of what is known of both make contexts less alike.
ScaledSimilarity(k, c) ==
    LET known == KnownInBoth(k, c)
        same == {f \in known : k.landscape[f] = c.landscape[f]}
    IN IF ~Informative(c.landscape) \/ Cardinality(known) < 2 THEN BaseSimilarity(k, c) * 100
       ELSE (BaseSimilarity(k, c) * (35 * Cardinality(known) + 65 * Cardinality(same)))
            \div Cardinality(known)

\* Mutant: a context that is not half alike still counts a little.
SimilarityUncut(k, c) == IF k = ContextKey(c) THEN 10000 ELSE ScaledSimilarity(k, c)
\* _history_similarity
Similarity(k, c) ==
    IF k = ContextKey(c) THEN 10000
    ELSE IF ScaledSimilarity(k, c) >= 5000 THEN ScaledSimilarity(k, c) ELSE 0

\* The natural logarithm of n > 1, in thousandths, by what the sum of the first n reciprocals
\* exceeds it by: Euler's constant, 1/2n and less.
Log(n) ==
    (SumOf([k \in 1 .. n |-> 1000000 \div k]) - 577216 - 500000 \div n + 83333 \div (n * n)
       - (8333 \div (n * n)) \div (n * n) + 500) \div 1000

\* _history_adjustment
HistoryAdjustment(b, c, history) ==
    LET mine == {x \in history : x.backend = b}
        all == SumOf([x \in history |-> x.count])
        weight == SumOf([x \in mine |-> Similarity(x.context, c) * x.count])
        utility == SumOf([x \in mine |-> (Similarity(x.context, c) * x.utility) \div 100])
        posterior == ((20000 + utility) * 10000) \div (40000 + weight)
    IN ((posterior - 5000) * 60) \div 100
       + SmallerOf(1200, Root((640000 * Log(all + 2)) \div ((40000 + weight) \div 10)))

BackendScore(b, c, history) == 100 * PriorScore(b, c) + HistoryAdjustment(b, c, history)

\* The first of the backends with the highest value; earlier ones are preferred.
BestOf(value) ==
    LET best == {i \in 1 .. 4 :
                    /\ FixedBackends[i] \in DOMAIN value
                    /\ \A b \in DOMAIN value : value[b] <= value[FixedBackends[i]]}
    IN FixedBackends[Min(best)]

\* rank_optimizer_backends: native is always available; its first backend is selected.
SelectedBackend(available, c, history) ==
    BestOf([b \in available \cup {"native"} |-> BackendScore(b, c, history)])

\* The backend that the prior alone prefers.
PriorFavourite(available, c) ==
    BestOf([b \in available \cup {"native"} |-> PriorScore(b, c)])

\* The backends whose dependencies are found.
Available(dependencies) ==
    {"native"} \cup (IF "optuna" \in dependencies THEN {"optuna", "optuna_motpe"} ELSE {})
               \cup (IF "botorch" \in dependencies THEN {"qlognehvi"} ELSE {})

\* The preflight of _select_auto_backend: the backends of the ranking are loaded in its order
\* until one loads, and those that did not are ranked no more.
PreflightFailures(found, loads, c, history) ==
    LET first == SelectedBackend(loads, c, history)
    IN {b \in found \ loads : SelectedBackend({b, first}, c, history) = b}

AutoBackend(found, loads, c, history) ==
    SelectedBackend(found \ PreflightFailures(found, loads, c, history), c, history)

\* optimizer_run_utility, in hundredths: quality and efficiency are at least one half each
\* for a search that lost nothing, and above for one that gained; latency adds up to 0.15.
\* Without a new evaluation there is no credit.
RunUtilities(improved, evaluations) ==
    IF evaluations = 0 THEN {} ELSE IF improved THEN 43 .. 100 ELSE 43 .. 57
=============================================================================
