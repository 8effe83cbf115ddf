--------------------------- MODULE OnlineExperiment ---------------------------
(***************************************************************************)
(* The registry of one durable online experiment: delayed, duplicated and   *)
(* reordered evidence comes in batches, operators read an evaluation and    *)
(* apply its recommendation later.  Every action is one SQLite transaction  *)
(* (BEGIN IMMEDIATE ... COMMIT); a refused call is rolled back and changes  *)
(* nothing.                                                                 *)
(*                                                                          *)
(* The outcome statistics of a metric are abstracted to Verdict, a function *)
(* of the matured counts; sample-ratio mismatch is the exact e-process for  *)
(* the Dirichlet prior 1, whose e-values are rational.                      *)
(*                                                                          *)
(* Definitions commented "Mutant" are plausible bugs in the definition that *)
(* follows; nothing uses them but the sanity check of the properties.       *)
(***************************************************************************)
EXTENDS Naturals, Sequences, FiniteSets, Combinatorics

CONSTANTS
    Batches,        \* sets of observations the collectors may send in one call,
                    \* each valid by itself
    Fields,         \* metric and covariate names
    Metrics,        \* the decision metrics among them
    Missing,        \* a value that has not matured
    EpochIds,
    Stages,         \* number of ramp stages
    MinUnits,       \* minimum_randomized_units of each stage
    MinSamples,     \* minimum_samples_per_arm
    Fraction,       \* candidate_fraction of each stage, as [num, den]
    SrmAlpha,       \* as [num, den]
    Verdict(_, _, _),   \* of a metric and [hits, size] of both arms
    Clients,        \* operators and controllers that apply recommendations
    MaxVersion      \* bound on the evidence-changing calls

ASSUME StagesAssumption == Stages \in Nat \ {0}
ASSUME VersionsAssumption == MaxVersion \in Nat

VARIABLES
    status,         \* online_experiments.status; "none" before creation
    version,        \* online_experiments.version
    epochs,         \* the allocation epochs in order; the last is current
    obs,            \* online_experiment_observations
    reads           \* what each client last read

registryVars == <<status, version, epochs, obs, reads>>

Arms       == {"control", "candidate"}
Deliveries == UNION Batches
Units      == {o.unit : o \in Deliveries}

Observation == [unit : Units, seq : Nat, epoch : EpochIds, arm : Arms,
                values : [Fields -> {0, 1, Missing}]]

ASSUME DeliveriesAssumption ==
    Deliveries \subseteq Observation /\ \A B \in Batches : IsFiniteSet(B)
ASSUME MetricsAssumption == Metrics \subseteq Fields

Statuses == {"none", "running", "rollback_required", "promotion_review"}
Snapshot == [version : Nat, status : Statuses, epochs : Seq(EpochIds),
             obs : SUBSET Observation]
NoRead   == [version |-> 0, status |-> "none", epochs |-> <<>>, obs |-> {}]

TypeOK ==
    /\ status \in Statuses
    /\ version \in Nat
    /\ epochs \in Seq(EpochIds)
    /\ obs \subseteq Observation
    /\ reads \in [Clients -> Snapshot]

RegistryInit ==
    /\ status = "none" /\ version = 0 /\ epochs = <<>> /\ obs = {}
    /\ reads = [c \in Clients |-> NoRead]

Current      == epochs[Len(epochs)]
EpochSet     == {epochs[k] : k \in DOMAIN epochs}
In(e)        == {o \in obs : o.epoch = e}
UnitsOf(S)   == {o.unit : o \in S}

-----------------------------------------------------------------------------
(* evaluate_online_experiment.                                              *)

\* Outcome inference uses the current allocation epoch only.
CurrentRows == In(Current)

Matured(m, a) == {o \in CurrentRows : o.arm = a /\ o.values[m] # Missing}
Tally(m, a)   == [hits |-> Cardinality({o \in Matured(m, a) : o.values[m] = 1}),
                  size |-> Cardinality(Matured(m, a))]
Enough(m)     == \A a \in Arms : Cardinality(Matured(m, a)) >= MinSamples
Outcome(m)    == IF Enough(m) THEN Verdict(m, Tally(m, "control"), Tally(m, "candidate"))
                 ELSE "insufficient"

\* The e-value of the epochs' splits after the assignments up to sequence s: the product
\* over epochs of n0! n1! / (n0 + n1 + 1)! / (p0^n0 p1^n1), as a fraction.
Split(k, s, a) == Cardinality({o \in In(epochs[k]) : o.seq <= s /\ o.arm = a})
EValue(s) ==
    LET E[k \in 0 .. Len(epochs)] ==
          IF k = 0 THEN [num |-> 1, den |-> 1]
          ELSE LET n0 == Split(k, s, "control")  n1 == Split(k, s, "candidate")
                   p == Fraction[k] IN
               [num |-> E[k-1].num * factorial[n0] * factorial[n1] * p.den ^ (n0 + n1),
                den |-> E[k-1].den * factorial[n0 + n1 + 1]
                           * (p.den - p.num) ^ n0 * p.num ^ n1]
    IN E[Len(epochs)]

\* The e-process, rebuilt in assignment order, once reached 1 / srm_alpha.
SrmFailed ==
    \E o \in obs : EValue(o.seq).num * SrmAlpha.num >= EValue(o.seq).den * SrmAlpha.den

Harmful == SrmFailed \/ \E m \in Metrics : Outcome(m) = "harmful"
Passed  == /\ \A m \in Metrics : Outcome(m) = "passed"
           /\ Cardinality(CurrentRows) >= MinUnits[Len(epochs)]

Recommended ==
    CASE Harmful -> "rollback_recommended"
      [] ~Harmful /\ Passed /\ Len(epochs) = Stages -> "eligible_for_promotion_review"
      [] ~Harmful /\ Passed /\ Len(epochs) < Stages -> "advance_ramp"
      [] OTHER -> "hold"

-----------------------------------------------------------------------------
(* create_experiment and ingest_observations.                               *)

CreateExperiment(e) ==
    /\ status = "none"
    /\ status' = "running" /\ version' = 1 /\ epochs' = <<e>>
    /\ UNCHANGED <<obs, reads>>

\* Two observations agree: a unit has one assignment and owns its sequence, and
\* values that both carry are equal.
Agree(o, p) ==
    /\ o.unit = p.unit <=> o.seq = p.seq
    /\ o.unit = p.unit =>
          /\ o.epoch = p.epoch /\ o.arm = p.arm
          /\ \A f \in Fields : Missing \in {o.values[f], p.values[f]} \/ o.values[f] = p.values[f]

New(B) == {o \in B : o.unit \notin UnitsOf(obs)}

\* Mutant: a new epoch need not follow the sequences of the earlier ones.
AcceptsAnySequence(B) ==
    /\ \A o, p \in obs \cup B : Agree(o, p)
    /\ \A o \in New(B) : status = "running" /\ o.epoch = Current

\* New units only while running, only in the current epoch and after all that
\* earlier epochs assigned; known units may mature in any epoch and status.
\* The order of a batch does not matter to the loop.
Accepts(B) ==
    /\ \A o, p \in obs \cup B : Agree(o, p)
    /\ \A o \in New(B) :
          /\ status = "running" /\ o.epoch = Current
          /\ \A p \in obs \ In(Current) : p.seq < o.seq

\* What is known of field f of a unit after the observations S.
Value(S, u, f) ==
    LET known == {o.values[f] : o \in {p \in S : p.unit = u}} \ {Missing} IN
    IF known = {} THEN Missing ELSE CHOOSE v \in known : TRUE

\* Observations of the same unit become one row.
Merged(S) == {[o EXCEPT !.values = [f \in Fields |-> Value(S, o.unit, f)]] : o \in S}

\* Mutant: only new units are counted as new evidence.
IngestCountingUnits(B) ==
    /\ status # "none" /\ Accepts(B)
    /\ obs' = Merged(obs \cup B)
    /\ version' = IF New(B) # {} THEN version + 1 ELSE version
    /\ version' <= MaxVersion
    /\ UNCHANGED <<status, epochs, reads>>

\* ingest_observations, accepted: the whole batch or nothing, and one version for
\* whatever it adds.
Ingest(B) ==
    /\ status # "none" /\ Accepts(B)
    /\ obs' = Merged(obs \cup B)
    /\ version' = IF obs' # obs THEN version + 1 ELSE version
    /\ version' <= MaxVersion
    /\ UNCHANGED <<status, epochs, reads>>

-----------------------------------------------------------------------------
(* evaluate and apply_recommendation.                                       *)

\* A client reads the evaluation, in one read transaction.
Evaluate(c) ==
    /\ status # "none"
    /\ reads' = [reads EXCEPT ![c] =
           [version |-> version, status |-> status, epochs |-> epochs, obs |-> obs]]
    /\ UNCHANGED <<status, version, epochs, obs>>

\* The compare-and-set: the version the client read, and what the evidence says now.
Transitionable(c, action) ==
    /\ status = "running" /\ reads[c].version = version
    /\ Recommended = action

Advance(c, e) ==
    /\ Transitionable(c, "advance_ramp") /\ e \notin EpochSet /\ version < MaxVersion
    /\ epochs' = Append(epochs, e) /\ version' = version + 1
    /\ UNCHANGED <<status, obs, reads>>

MarkRollback(c) ==
    /\ Transitionable(c, "rollback_recommended") /\ version < MaxVersion
    /\ status' = "rollback_required" /\ version' = version + 1
    /\ UNCHANGED <<epochs, obs, reads>>

MarkPromotion(c) ==
    /\ Transitionable(c, "eligible_for_promotion_review") /\ version < MaxVersion
    /\ status' = "promotion_review" /\ version' = version + 1
    /\ UNCHANGED <<epochs, obs, reads>>

RegistryNext ==
    \/ \E e \in EpochIds : CreateExperiment(e)
    \/ \E B \in Batches : Ingest(B)
    \/ \E c \in Clients : Evaluate(c) \/ MarkRollback(c) \/ MarkPromotion(c)
    \/ \E c \in Clients, e \in EpochIds : Advance(c, e)

RegistrySpec == RegistryInit /\ [][RegistryNext]_registryVars

-----------------------------------------------------------------------------
(* Properties.                                                              *)

\* Whatever is stored can be evaluated: the validation of evaluate_online_experiment
\* (one row per unit and sequence, known and distinct epochs that never move
\* backward in assignment order) never refuses what ingestion and ramp accepted.
HistoryIsEvaluable ==
    /\ \A o, p \in obs : o.unit = p.unit \/ o.seq = p.seq => o = p
    /\ \A o \in obs : o.epoch \in EpochSet
    /\ \A i, j \in DOMAIN epochs :
          /\ epochs[i] = epochs[j] => i = j
          /\ \A o \in In(epochs[i]), p \in In(epochs[j]) : o.seq < p.seq => i <= j

\* The version names the evidence: a client that read this version read exactly
\* this evidence and state (the fence apply_recommendation relies on).
VersionIdentifiesEvidence ==
    \A c \in Clients : status # "none" /\ reads[c].version = version =>
        reads[c] = [version |-> version, status |-> status, epochs |-> epochs, obs |-> obs]

\* A transition acts on the evidence the client that asks for it has read, not on
\* evidence that arrived after its evaluation (DurableOnlineExperimentStore).
TransitionsUseReadEvidence ==
    [][status # "none" /\ <<status, epochs>>' # <<status, epochs>> =>
           \E c \in Clients : reads[c].obs = obs /\ reads[c].epochs = epochs]_registryVars

\* Assignment identity is immutable and matured values are never lost or changed,
\* in whatever order and however often deliveries arrive.
EvidenceOnlyGrows ==
    [][\A o \in obs : \E p \in obs' :
           /\ [p EXCEPT !.values = o.values] = o
           /\ \A f \in Fields : o.values[f] \in {Missing, p.values[f]}]_registryVars

\* A collector that lost the answer to its call may send the observation again, at
\* any later time: it is accepted and adds nothing.
Recorded(o) ==
    \E p \in obs : /\ [p EXCEPT !.values = o.values] = o
                   /\ \A f \in Fields : o.values[f] \in {Missing, p.values[f]}

RetriesAreHarmless ==
    \A o \in Deliveries : Recorded(o) => Accepts({o}) /\ Merged(obs \cup {o}) = obs

\* An experiment that was stopped or put up for promotion takes no new unit and
\* makes no further transition.
StoppedIsFinal ==
    [][status \notin {"none", "running"} =>
           /\ status' = status /\ epochs' = epochs
           /\ UnitsOf(obs)' = UnitsOf(obs)]_registryVars

=============================================================================
