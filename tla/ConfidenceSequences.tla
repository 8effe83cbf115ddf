-------------------------- MODULE ConfidenceSequences --------------------------
(***************************************************************************)
(* What the matured outcomes of one Bernoulli metric say at any time: the   *)
(* confidence sequence of an arm, inverted by bisection from the            *)
(* beta-binomial mixture e-process, the interval of the benefit of the      *)
(* candidate, and the decision of the metric.  With the Jeffreys prior the  *)
(* e-values are rational, so the arithmetic is exact; a fraction is a       *)
(* [num, den] with a positive den.                                          *)
(*                                                                          *)
(* Definitions commented "Mutant" are plausible bugs in the definition that *)
(* follows; nothing uses them but the sanity check of the properties.       *)
(***************************************************************************)
EXTENDS Integers, FiniteSets, Combinatorics, FiniteSetsExt

CONSTANTS
    Contract,       \* metric -> its direction, role and thresholds
    OutcomeAlpha,   \* outcome_alpha, a fraction
    Halvings,       \* iterations of _bisect_boundary
    Horizon,        \* bound on the outcomes over which coverage is checked
    Means           \* the true means for which it is checked, fractions

Frac(n, d)   == [num |-> n, den |-> d]
Minus(x, y)  == Frac(x.num * y.den - y.num * x.den, x.den * y.den)
AtMost(x, y) == x.num * y.den <= y.num * x.den

\* OnlineMetricSpec: thresholds on the benefit; positive means the candidate is better.
MetricSpecs ==
    {c \in [direction : {"higher_is_better", "lower_is_better"},
            role : {"primary", "guardrail"},
            advance : {Contract[m].advance : m \in DOMAIN Contract},
            rollback : {Contract[m].rollback : m \in DOMAIN Contract}] :
        AtMost(c.rollback, c.advance)}

\* The familywise alpha is split over the metrics and over the arms.
ArmAlpha == Frac(OutcomeAlpha.num, OutcomeAlpha.den * 2 * Cardinality(DOMAIN Contract))

\* Mutant: the likelihood of the count of hits under the mixture, of the order under the mean.
RejectedByCount(h, n, p) ==
    LET f == n - h IN
    choose(2 * h, h) * choose(2 * f, f) * p.den ^ n * ArmAlpha.num
       > 4 ^ n * p.num ^ h * (p.den - p.num) ^ f * ArmAlpha.den
\* After h hits among n values the e-value of the mean p exceeds 1 / ArmAlpha; the
\* likelihood under the mixture is choose(2h, h) choose(2f, f) / (4^n choose(n, h)).
Rejected(h, n, p) ==
    LET f == n - h IN
    choose(2 * h, h) * choose(2 * f, f) * p.den ^ n * ArmAlpha.num
       > 4 ^ n * choose(n, h) * p.num ^ h * (p.den - p.num) ^ f * ArmAlpha.den

\* _bisect_boundary between the means low / n and high / n, the first or the second of which
\* is rejected: the last bracket.
Bisected(h, n, low, high, lowRejected) ==
    LET Bracket[k \in 0 .. Halvings] ==
          IF k = 0 THEN [low |-> low, high |-> high, den |-> n]
          ELSE LET wide   == Bracket[k - 1]
                   middle == wide.low + wide.high
               IN IF Rejected(h, n, Frac(middle, 2 * wide.den)) <=> lowRejected
                  THEN [low |-> middle, high |-> 2 * wide.high, den |-> 2 * wide.den]
                  ELSE [low |-> 2 * wide.low, high |-> middle, den |-> 2 * wide.den]
    IN Bracket[Halvings]

\* bernoulli_mixture_confidence_sequence: the side of the bracket that is not rejected.
Lower(h, n) ==
    IF h = 0 THEN Frac(0, 1) ELSE LET b == Bisected(h, n, 0, h, TRUE) IN Frac(b.high, b.den)
Upper(h, n) ==
    IF h = n THEN Frac(1, 1) ELSE LET b == Bisected(h, n, h, n, FALSE) IN Frac(b.low, b.den)

Bounds(tally) ==
    [lower |-> Lower(tally.hits, tally.size), upper |-> Upper(tally.hits, tally.size)]

\* _effect_confidence_sequence: the better mean less the worse one, from bound to bound.
Benefit(m, control, candidate) ==
    LET higher == Contract[m].direction = "higher_is_better"
        better == Bounds(IF higher THEN candidate ELSE control)
        worse  == Bounds(IF higher THEN control ELSE candidate)
    IN [lower |-> Minus(better.lower, worse.upper), upper |-> Minus(better.upper, worse.lower)]

\* The decision of a metric with enough matured values in both arms.
Decision(m, control, candidate) ==
    LET benefit == Benefit(m, control, candidate)
        harmful == AtMost(benefit.upper, Contract[m].rollback)
    IN CASE harmful -> "harmful"
         [] ~harmful /\ AtMost(Contract[m].advance, benefit.lower) -> "passed"
         [] OTHER -> "inconclusive"

ASSUME ContractAssumption ==
    /\ \A m \in DOMAIN Contract : Contract[m] \in MetricSpecs
    /\ Cardinality({m \in DOMAIN Contract : Contract[m].role = "primary"}) = 1
    /\ OutcomeAlpha.num \in 1 .. (OutcomeAlpha.den - 1)
    /\ Halvings \in Nat \ {0} /\ Horizon \in Nat \ {0}
    /\ \A p \in Means : p.num \in 1 .. (p.den - 1)

-----------------------------------------------------------------------------
(* What the intervals promise.                                              *)

\* Some look at the outcomes w, the first n of them for any n, rejects the mean p.
EverRejected(w, p) ==
    \E n \in 1 .. Horizon : Rejected(Cardinality({k \in 1 .. n : w[k] = 1}), n, p)

\* How often, of p.den ^ Horizon, outcomes of mean p are w.
Weight(w, p) ==
    LET hits == Cardinality({k \in 1 .. Horizon : w[k] = 1})
    IN p.num ^ hits * (p.den - p.num) ^ (Horizon - hits)

\* Looking after every outcome instead of once, the true mean is ever rejected with
\* probability at most the alpha of the arm.
CoversAtAllTimes(p) ==
    LET rejecting == {w \in [1 .. Horizon -> {0, 1}] : EverRejected(w, p)}
    IN MapThenSumSet(LAMBDA w : Weight(w, p), rejecting) * ArmAlpha.den
          <= ArmAlpha.num * p.den ^ Horizon

\* The bounds enclose the observed mean and are not rejected, what is one halving further
\* out is.
Tight(tally) ==
    LET h == tally.hits  n == tally.size  low == Lower(h, n)  high == Upper(h, n)
        Outside(p) == p.num <= 0 \/ p.num >= p.den \/ Rejected(h, n, p)
    IN /\ AtMost(low, Frac(h, n)) /\ AtMost(Frac(h, n), high)
       /\ h > 0 => ~Rejected(h, n, low) /\ Outside(Frac(low.num - h, low.den))
       /\ h < n => ~Rejected(h, n, high) /\ Outside(Frac(high.num + n - h, high.den))

Valid == \A p \in Means : CoversAtAllTimes(p)
TightTallies ==
    {t \in [hits : 0 .. Horizon, size : 1 .. Horizon] : t.hits <= t.size /\ Tight(t)}
=============================================================================
