---------------------------- MODULE EvolutionProofs ----------------------------
(***************************************************************************)
(* Proofs about evolve actions, for any configs, landscapes, evidence, runs *)
(* and segments, with and without the optimizer policy "auto", and an       *)
(* executor that may die between any two transactions.                      *)
(***************************************************************************)
EXTENDS AutoEvolution, FiniteSetTheorems, WellFoundedInduction, TLAPS

-----------------------------------------------------------------------------
(* The inductive invariant of a search.                                     *)

\* Places that a later generation refills, and what the native loop could evaluate.
Refilled == PopulationSize - Parents
NativeBudget == unseen + (Generations - 1) * Refilled
Modes == {"design", "pareto", "primary"}
Phases == {"idle", "measure", "seed", "generation", "refill", "trial", "design", "acquire", "done",
           "raised"}

SearchTypes ==
    /\ phase \in Phases /\ backend \in {"native", "optuna", "optuna_motpe", "qlognehvi"}
    /\ seeds \subseteq Configs /\ evaluated \subseteq Configs
    /\ generation \in Nat /\ budget \in Nat /\ fresh \in Nat /\ calls \in Nat /\ unseen \in Nat
    /\ acquired \in [Modes -> Nat]

\* Nothing was spent before the loop, and the surface is measured.
BeforeLoop ==
    /\ phase \in {"idle", "measure", "seed"} =>
          /\ fresh = 0 /\ calls = 0 /\ generation = 0 /\ unseen = 0
          /\ acquired = [m \in Modes |-> 0]
    /\ phase \in {"seed", "generation", "refill"} => Surface \subseteq evaluated

\* The native loop: the first generation has the unseen seeds, a later one the refilled places.
NativeLoop ==
    /\ phase \in {"generation", "refill"} =>
          backend = "native" /\ generation < Generations /\ fresh <= calls
    /\ phase = "generation" /\ generation = 0 =>
          calls = 0 /\ Cardinality(seeds \ evaluated) <= unseen
    /\ phase = "generation" /\ generation > 0 => Cardinality(seeds \ evaluated) <= Refilled
    /\ phase = "refill" => generation > 0
    /\ phase \in {"generation", "refill"} /\ generation > 0 =>
          calls <= unseen + (generation - 1) * Refilled

\* The loops of the other backends stay within the budget they were given.
BudgetedLoops ==
    /\ phase \in {"trial", "design", "acquire"} => fresh <= budget /\ budget = NativeBudget
    /\ phase = "trial" => LoopOf(backend) = "trial" /\ (Broken = {} => calls = fresh)
    /\ phase \in {"design", "acquire"} => backend = "qlognehvi" /\ calls = fresh

\* The acquisitions of a BoTorch search add up, and the exploration leaves the reserved share.
Acquisitions == budget - acquired["design"]
AcquisitionShares ==
    /\ phase = "design" => acquired["pareto"] = 0 /\ acquired["primary"] = 0
    /\ phase \in {"design", "acquire"} =>
          fresh = acquired["design"] + acquired["pareto"] + acquired["primary"]
    /\ phase = "acquire" =>
          \/ acquired["pareto"] = 0
          \/ Acquisitions > 1 /\ acquired["pareto"] <= Acquisitions - Exploitation(Acquisitions)

SearchInv == /\ SearchTypes /\ BeforeLoop /\ NativeLoop /\ BudgetedLoops /\ AcquisitionShares
             /\ BudgetParity /\ PrimaryIsReserved

-----------------------------------------------------------------------------
(* The inductive invariant of the pipeline and its ledgers.                 *)

Datum(d) == d.labels \in Nat /\ d.requests \in Nat /\ d.pairs \in Nat
BlockerNames == {"paired_uncertainty_unavailable", "probability_positive_below_threshold",
                 "paired_ci_crosses_noninferiority_margin", "paired_confidence_underpowered",
                 "domain_guardrail_holdout_unavailable", "recommend_relevance_regression"}
ResultType == [ready : BOOLEAN, safe : BOOLEAN, trusted : BOOLEAN, business : BOOLEAN,
               blockers : SUBSET BlockerNames]

\* The uncertainty certificate on evidence m and data d.
NoBlockers(m, d) ==
    LET e == CHOOSE x \in m : TRUE
    IN /\ m # {} /\ ~(PairedSamples(d) < 2)
       /\ ~(e.probability < 2) /\ e.bounded /\ (e.powered \/ ~(e.probability < 3))

\* A trusted result as the gates leave it, and as every later stage finds it.
Gated(res, d, m) ==
    /\ res.ready /\ res.safe
    /\ res.business <=> Route(d) = "production"
    /\ IF Route(d) = "production" THEN \A e \in m : e.holdout >= 2 ELSE Independent(d)
Certified(res, d, m) ==
    /\ res.ready /\ res.safe /\ Independent(d) /\ res.blockers = {}
    /\ res.business <=> Business(d)
    /\ Business(d) => NoBlockers(m, d) /\ \A e \in m : e.holdout >= 2

\* S holds the credit of every arm of the candidate that was selected on surface s.
Credited(S, s, candidate) ==
    \A arm \in candidate.arms : \E e \in S :
       /\ e.surface = s /\ e.segment = Whole /\ e.arm = arm /\ e.outcome = "accepted"
       /\ e.config = candidate.config

Later == {"relevance", "segments", "credit", "record", "report", "reported"}
Stages == Later \cup {"idle", "search", "gates", "certificate"}

PipelineInv ==
    /\ stage \in Stages /\ result \in ResultType /\ Datum(data)
    /\ \A x \in entries : x.segment \in Segments
    /\ stage = "idle" => ~result.trusted /\ result.blockers = {} /\ ~result.ready
    /\ stage = "certificate" => result.blockers = {} /\ (result.trusted => Gated(result, data, measured))
    /\ stage \in Later /\ result.trusted => Certified(result, data, measured)

\* The decision on result res of evidence m and data d, and all the credit that it owes with
\* candidate c and portfolio es on surface s.
DecisionOf(d, m, res) ==
    IF ~(res.ready /\ Independent(d)) \/ (Business(d) /\ PairedSamples(d) < 2) THEN "none"
    ELSE IF res.trusted THEN "accepted"
    ELSE IF (Business(d) /\ \E e \in m : e.holdout < 3) \/ ~res.safe THEN "rejected"
    ELSE "none"
CreditOf(s, seg, arm, outcome, config, basis) ==
    [surface |-> s, segment |-> seg, arm |-> arm, outcome |-> outcome, config |-> config,
     basis |-> basis]
CreditsOf(s, d, c, m, res, es) ==
    {CreditOf(s, Whole, arm, DecisionOf(d, m, res), c.config,
              [data |-> d, measured |-> m, trusted |-> res.trusted, safe |-> res.safe]) :
        arm \in IF DecisionOf(d, m, res) = "none" THEN {} ELSE c.arms}
    \cup UNION {{CreditOf(s, x.segment, arm, SegmentDecision(x), x.config, x.evidence) :
                    arm \in IF SegmentDecision(x) = "none" THEN {} ELSE Signature(Base, x.config)} :
                x \in es}
Due == CreditsOf(surface, data, selected, measured, result, entries)

LedgerInv ==
    /\ stage # "record" => owed = {}
    /\ stage = "record" => Due \subseteq owed \cup credits
    /\ stage \in {"report", "reported"} => Due \subseteq credits
    /\ stage = "record" /\ result.trusted => Credited(owed \cup credits, surface, selected)
    /\ stage \in {"report", "reported"} /\ result.trusted => Credited(credits, surface, selected)
    /\ LedgersAgreeOnSuccess

\* The stored result of an invocation is a certified one with its credit.
Stored(x) ==
    /\ x.result \in ResultType /\ Datum(x.data) /\ \A y \in x.entries : y.segment \in Segments
    /\ Certified(x.result, x.data, x.measured)
    /\ Credited(credits, x.surface, x.selected)
    /\ CreditsOf(x.surface, x.data, x.selected, x.measured, x.result, x.entries) \subseteq credits
LearnedInv == learned = [r \in Runs |-> learned[r]] /\ \A r \in Runs : \A x \in learned[r] : Stored(x)

EvolutionInv == PipelineInv /\ LedgerInv /\ LearnedInv /\ scenario \in DOMAIN Scenarios

-----------------------------------------------------------------------------
(* The inductive invariant of the policy "auto".                            *)

Decided == {"taken", "run", "surface", "data", "backend", "context", "loads", "replayed", "paid", "spent"}
DecisionInv ==
    /\ decision = [k \in Decided |-> decision[k]]
    /\ stage = "search" => Scope.searches
    /\ decision.taken =>
          /\ Scope.auto /\ stage \notin {"search", "reported"}
          /\ decision.run \in Runs /\ Datum(decision.data)
          /\ stage = "idle" => decision.spent = 0 /\ ~decision.replayed
          /\ stage # "idle" /\ ~decision.replayed /\ decision.spent # 0 =>
                selected.backend = decision.backend

-----------------------------------------------------------------------------
(* The search.                                                              *)

LEMMA Parameters ==
    /\ Generations \in Nat /\ Generations > 0 /\ Refilled \in Nat
    /\ PopulationSize \in Nat /\ Parents \in Nat /\ Refilled = PopulationSize - Parents
    /\ SmallerOf(Parents, PopulationSize) = Parents
    /\ IsFiniteSet(Configs) /\ Surface \subseteq Configs
BY SearchAssumption DEF Refilled, SmallerOf, Surface

\* What n generations after the first may refill.
LEMMA RefillProduct ==
    ASSUME NEW n \in Nat
    PROVE  /\ n * Refilled \in Nat /\ (n + 1) * Refilled = n * Refilled + Refilled
           /\ n < Generations => n * Refilled <= (Generations - 1) * Refilled
<1> DEFINE R == Refilled
<1>1. R \in Nat /\ Generations \in Nat
  BY Parameters
<1> HIDE DEF R
<1>2. n * R \in Nat /\ (n + 1) * R = n * R + R
  BY <1>1
<1>3. n < Generations => n * R <= (Generations - 1) * R
  BY <1>1
<1> QED BY <1>2, <1>3 DEF R

LEMMA SetSizes ==
    ASSUME NEW S \in SUBSET Configs
    PROVE  /\ IsFiniteSet(S) /\ Cardinality(S) \in Nat
           /\ \A T \in SUBSET S : Cardinality(T) <= Cardinality(S)
           /\ \A T \in SUBSET S : Cardinality(S \ T) = Cardinality(S) - Cardinality(T)
           /\ \A T : Cardinality(S \ T) \in Nat /\ Cardinality(S \ T) <= Cardinality(S)
<1>1. IsFiniteSet(S) /\ Cardinality(S) \in Nat
  BY Parameters, FS_Subset, FS_CardinalityType
<1>2. \A T \in SUBSET S : Cardinality(T) <= Cardinality(S)
  BY <1>1, FS_Subset
<1>3. ASSUME NEW T \in SUBSET S PROVE Cardinality(S \ T) = Cardinality(S) - Cardinality(T)
  <2>1. IsFiniteSet(S \ T) /\ IsFiniteSet(T)
    BY <1>1, FS_Subset
  <2>2. S = (S \ T) \cup T /\ (S \ T) \cap T = {}
    OBVIOUS
  <2>3. Cardinality(S) = Cardinality(S \ T) + Cardinality(T) - Cardinality((S \ T) \cap T)
    BY <2>1, <2>2, FS_Union
  <2>4. Cardinality(S \ T) \in Nat /\ Cardinality(T) \in Nat
    BY <2>1, FS_CardinalityType
  <2> QED BY <1>1, <2>2, <2>3, <2>4, FS_EmptySet
<1>4. ASSUME NEW T PROVE Cardinality(S \ T) \in Nat /\ Cardinality(S \ T) <= Cardinality(S)
  BY <1>1, FS_Subset, FS_CardinalityType
<1> QED BY <1>1, <1>2, <1>3, <1>4

LEMMA BudgetType ==
    ASSUME SearchTypes
    PROVE  NativeBudget \in Nat /\ unseen <= NativeBudget
<1>1. (Generations - 1) * Refilled \in Nat
  <2>1. Generations - 1 \in Nat
    BY Parameters
  <2> QED BY <2>1, RefillProduct
<1> QED BY <1>1 DEF SearchTypes, NativeBudget

\* The share of the exploitation is at least one evaluation and at most all of them.
LEMMA ExploitationShare ==
    ASSUME NEW b \in Nat, b > 0
    PROVE  Exploitation(b) \in 1 .. b
<1> DEFINE down == (3 * b) \div 10
           rest == (3 * b) % 10
           rounded == IF rest > 5 \/ (rest = 5 /\ down % 2 = 1) THEN down + 1 ELSE down
<1>1. down \in Int
  OBVIOUS
<1>2. rounded \in Int
  BY <1>1
<1>3. Exploitation(b) = SmallerOf(LargerOf(1, rounded), b)
  BY DEF Exploitation
<1> HIDE DEF rounded
<1> QED BY <1>2, <1>3 DEF SmallerOf, LargerOf

\* The frame of a search, before it began and after it is gone.
Unused == /\ phase = "idle" /\ backend = "native" /\ seeds = {} /\ evaluated = {} /\ generation = 0
          /\ budget = 0 /\ fresh = 0 /\ calls = 0 /\ unseen = 0 /\ acquired = [m \in Modes |-> 0]

LEMMA UnusedFrame == Unused => SearchInv
<1> SUFFICES ASSUME Unused PROVE SearchInv
  OBVIOUS
<1>1. SearchTypes
  BY DEF Unused, SearchTypes, Phases, Modes
<1>2. NativeBudget \in Nat
  BY <1>1, BudgetType
<1>3. BudgetParity
  BY <1>2 DEF Unused, BudgetParity, NativeBudget, Refilled
<1> QED BY <1>1, <1>3 DEF Unused, SearchInv, BeforeLoop, NativeLoop, BudgetedLoops,
                          AcquisitionShares, PrimaryIsReserved

LEMMA IdleSearch == Idle => SearchInv
BY UnusedFrame DEF Unused, Idle, Modes

LEMMA ForgottenSearch == Forget => SearchInv'
<1>1. Forget => Unused'
  BY DEF Forget, Unused, Modes
<1>2. Unused' => SearchInv'
  BY UnusedFrame, PTL
<1> QED BY <1>1, <1>2

LEMMA BeginSearch ==
    ASSUME SearchInv, NEW b, NEW l, Begin(b, l)
    PROVE  SearchInv'
<1>1. SearchTypes' /\ BeforeLoop'
  BY SearchAssumption DEF SearchInv, SearchTypes, BeforeLoop, Begin, Phases
<1>2. NativeLoop' /\ BudgetedLoops' /\ AcquisitionShares' /\ PrimaryIsReserved'
  BY DEF SearchInv, NativeLoop, BudgetedLoops, AcquisitionShares, PrimaryIsReserved, Begin
<1>3. BudgetParity'
  <2>1. NativeBudget \in Nat /\ NativeBudget' = NativeBudget
    BY BudgetType DEF SearchInv, Begin, NativeBudget
  <2>2. fresh' = 0 /\ calls' = 0
    BY DEF SearchInv, BeforeLoop, Begin
  <2> QED BY <2>1, <2>2 DEF BudgetParity, NativeBudget, Refilled
<1> QED BY <1>1, <1>2, <1>3 DEF SearchInv

LEMMA MeasureSearch ==
    ASSUME SearchInv, MeasureSurface
    PROVE  SearchInv'
<1>1. SearchTypes' /\ BeforeLoop'
  BY Parameters DEF SearchInv, SearchTypes, BeforeLoop, MeasureSurface, Phases
<1>2. NativeLoop' /\ BudgetedLoops' /\ AcquisitionShares' /\ PrimaryIsReserved'
  BY DEF SearchInv, NativeLoop, BudgetedLoops, AcquisitionShares, PrimaryIsReserved, MeasureSurface
<1>3. BudgetParity'
  <2>1. NativeBudget \in Nat /\ NativeBudget' = NativeBudget
    BY BudgetType DEF SearchInv, MeasureSurface, NativeBudget
  <2>2. fresh' = 0 /\ calls' = 0
    BY DEF SearchInv, BeforeLoop, MeasureSurface
  <2> QED BY <2>1, <2>2 DEF BudgetParity, NativeBudget, Refilled
<1> QED BY <1>1, <1>2, <1>3 DEF SearchInv

\* The population is seeded, and the budget of the loop is what the native loop may evaluate.
LEMMA SeedSearch ==
    ASSUME SearchInv, SeedPopulation
    PROVE  SearchInv'
<1>1. PICK S \in SUBSET Configs :
        seeds' = S /\ unseen' = Cardinality(S \ evaluated) /\ budget' = EvaluationBudget(S)
  BY DEF SeedPopulation, SeedSets
<1>2. /\ phase = "seed" /\ UNCHANGED <<backend, evaluated, generation, fresh, calls, acquired>>
      /\ phase' = IF LoopOf(backend) = "trial" /\ budget' <= 0 THEN "done" ELSE LoopOf(backend)
      /\ land' = land
  BY DEF SeedPopulation
<1>3. /\ fresh = 0 /\ calls = 0 /\ generation = 0 /\ acquired = [m \in Modes |-> 0]
      /\ Surface \subseteq evaluated
  BY <1>2 DEF SearchInv, BeforeLoop
<1>4. unseen' \in Nat
  BY <1>1, SetSizes
<1>5. budget' = NativeBudget' /\ budget' \in Nat /\ unseen' <= budget'
  <2>1. budget' = unseen' + (Generations - 1) * Refilled
    BY <1>1, Parameters DEF EvaluationBudget
  <2>2. (Generations - 1) * Refilled \in Nat
    <3>1. Generations - 1 \in Nat
      BY Parameters
    <3> QED BY <3>1, RefillProduct
  <2> QED BY <1>4, <2>1, <2>2 DEF NativeBudget
<1>6. backend \in {"native", "optuna", "optuna_motpe", "qlognehvi"}
  BY DEF SearchInv, SearchTypes
<1>7. \/ backend = "native" /\ phase' = "generation"
      \/ LoopOf(backend) = "trial" /\ phase' \in {"trial", "done"} /\ backend # "qlognehvi"
      \/ backend = "qlognehvi" /\ phase' = "design"
  BY <1>2, <1>6 DEF LoopOf
<1>8. SearchTypes'
  BY <1>1, <1>2, <1>4, <1>5, <1>7 DEF SearchInv, SearchTypes, Phases
<1>9. BeforeLoop'
  BY <1>2, <1>3, <1>7 DEF BeforeLoop, Surface
<1>10. NativeLoop'
  BY <1>1, <1>2, <1>3, <1>4, <1>7, Parameters DEF NativeLoop
<1>11. BudgetedLoops'
  <2>1. fresh' = 0 /\ calls' = 0 /\ fresh' <= budget' /\ budget' = NativeBudget'
    BY <1>2, <1>3, <1>5
  <2>2. phase' = "trial" => LoopOf(backend') = "trial"
    BY <1>2, <1>7
  <2>3. phase' \in {"design", "acquire"} => backend' = "qlognehvi"
    BY <1>2, <1>7
  <2> QED BY <2>1, <2>2, <2>3 DEF BudgetedLoops
<1>12. AcquisitionShares' /\ PrimaryIsReserved'
  BY <1>2, <1>3, <1>7 DEF AcquisitionShares, PrimaryIsReserved, Modes
<1>13. BudgetParity'
  BY <1>2, <1>3, <1>5 DEF BudgetParity, NativeBudget, Refilled
<1> QED BY <1>8, <1>9, <1>10, <1>11, <1>12, <1>13 DEF SearchInv

\* One generation of the native loop.
LEMMA GenerationSearch ==
    ASSUME SearchInv, Generation
    PROVE  SearchInv'
<1> DEFINE tried == seeds \ evaluated
<1>1. /\ phase = "generation" /\ evaluated' = evaluated \cup (seeds \ Broken)
      /\ fresh' = fresh + Cardinality(tried \ Broken) /\ calls' = calls + Cardinality(tried)
      /\ generation' = generation + 1
      /\ phase' \in {"done", "refill"} /\ (phase' = "refill" => generation + 1 < Generations)
      /\ UNCHANGED <<backend, land, seeds, budget, acquired, unseen>>
  <2>1. generation \in Nat /\ Generations \in Nat
    BY Parameters DEF SearchInv, SearchTypes
  <2> QED BY <2>1 DEF Generation
<1>2. /\ backend = "native" /\ generation < Generations /\ fresh <= calls
      /\ generation \in Nat /\ fresh \in Nat /\ calls \in Nat /\ unseen \in Nat
  BY <1>1 DEF SearchInv, NativeLoop, SearchTypes
<1>3. /\ Cardinality(tried) \in Nat /\ Cardinality(tried \ Broken) \in Nat
      /\ Cardinality(tried \ Broken) <= Cardinality(tried)
  <2>1. tried \in SUBSET Configs
    BY DEF SearchInv, SearchTypes
  <2> HIDE DEF tried
  <2> QED BY <2>1, SetSizes
<1>4. generation = 0 => calls = 0 /\ Cardinality(tried) <= unseen
  BY <1>1 DEF SearchInv, NativeLoop
<1>5. generation > 0 => Cardinality(tried) <= Refilled /\ calls <= unseen + (generation - 1) * Refilled
  BY <1>1 DEF SearchInv, NativeLoop
<1> HIDE DEF tried
<1>6. fresh' <= calls' /\ fresh' \in Nat /\ calls' \in Nat
  BY <1>1, <1>2, <1>3
<1>7. calls' <= unseen + generation * Refilled
  <2>1. CASE generation = 0
    BY <1>1, <1>2, <1>3, <1>4, <2>1, RefillProduct
  <2>2. CASE generation > 0
    <3> DEFINE n == generation - 1
    <3>1. n \in Nat /\ generation = n + 1
      BY <1>2, <2>2
    <3>2. n * Refilled \in Nat /\ generation * Refilled = n * Refilled + Refilled
      BY <3>1, RefillProduct
    <3>3. calls <= unseen + n * Refilled /\ Cardinality(tried) <= Refilled
      BY <1>5, <2>2
    <3> HIDE DEF n
    <3> QED BY <1>1, <1>2, <1>3, <3>2, <3>3, Parameters
  <2> QED BY <1>2, <2>1, <2>2
<1>8. calls' <= NativeBudget'
  <2>1. generation * Refilled \in Nat /\ generation * Refilled <= (Generations - 1) * Refilled
    BY <1>2, RefillProduct
  <2>2. (Generations - 1) * Refilled \in Int
    <3>1. Generations - 1 \in Nat
      BY Parameters
    <3> QED BY <3>1, RefillProduct
  <2>3. NativeBudget' = unseen + (Generations - 1) * Refilled
    BY <1>1 DEF NativeBudget
  <2> QED BY <1>2, <1>6, <1>7, <2>1, <2>2, <2>3
<1>9. SearchTypes'
  BY <1>1, <1>6 DEF SearchInv, SearchTypes, Phases
<1>10. BeforeLoop'
  BY <1>1 DEF SearchInv, BeforeLoop, Surface
<1>11. NativeLoop'
  <2>1. generation' > 0 /\ generation' - 1 = generation
    BY <1>1, <1>2
  <2>2. calls' <= unseen' + (generation' - 1) * Refilled
    BY <1>1, <1>7, <2>1
  <2>3. phase' = "refill" => generation' < Generations
    BY <1>1
  <2> QED BY <1>1, <1>2, <1>6, <2>1, <2>2, <2>3 DEF NativeLoop
<1>12. BudgetedLoops' /\ AcquisitionShares' /\ PrimaryIsReserved'
  BY <1>1, <1>2 DEF BudgetedLoops, AcquisitionShares, PrimaryIsReserved
<1>13. BudgetParity'
  <2>1. NativeBudget' \in Nat /\ NativeBudget' = unseen' + (Generations - 1) * (PopulationSize - Parents)
    <3>1. NativeBudget \in Nat /\ NativeBudget' = NativeBudget
      BY <1>1, BudgetType DEF SearchInv, NativeBudget
    <3> QED BY <1>1, <3>1 DEF NativeBudget, Refilled
  <2> QED BY <1>6, <1>8, <2>1 DEF BudgetParity
<1> QED BY <1>9, <1>10, <1>11, <1>12, <1>13 DEF SearchInv

\* The parents fill their places, because the surface has enough signatures.
LEMMA ParentsFill ==
    ASSUME SearchTypes, Surface \subseteq evaluated, NEW Q \in ParentSets
    PROVE  Q \subseteq evaluated /\ Cardinality(Q) = Parents
<1>1. Q \subseteq evaluated /\ Cardinality(Q) = SmallerOf(Parents, Cardinality(Signatures(evaluated)))
  BY DEF ParentSets, Archive
<1>2. Signatures(Surface) \subseteq Signatures(evaluated)
  BY DEF Signatures
<1>3. IsFiniteSet(Signatures(evaluated))
  <2>1. IsFiniteSet(evaluated)
    BY SetSizes DEF SearchTypes
  <2> DEFINE T == Signatures(evaluated)
             f == [c \in evaluated |-> Signature(Base, c)]
  <2>2. f \in Surjection(evaluated, T)
    BY DEF Signatures, Surjection
  <2> HIDE DEF T, f
  <2>3. IsFiniteSet(T)
    BY <2>1, <2>2, FS_Surjection
  <2> QED BY <2>3 DEF T
<1>4. /\ Cardinality(Signatures(Surface)) <= Cardinality(Signatures(evaluated))
      /\ Cardinality(Signatures(Surface)) \in Nat /\ Cardinality(Signatures(evaluated)) \in Nat
  BY <1>2, <1>3, FS_Subset, FS_CardinalityType
<1>5. Cardinality(Signatures(Surface)) >= Parents
  BY SearchAssumption DEF Surface
<1>6. Parents <= Cardinality(Signatures(evaluated))
  BY <1>4, <1>5, Parameters
<1> QED BY <1>1, <1>4, <1>6, Parameters DEF SmallerOf

LEMMA RefillSearch ==
    ASSUME SearchInv, Refill
    PROVE  SearchInv'
<1>1. /\ phase = "refill" /\ phase' = "generation"
      /\ UNCHANGED <<backend, land, evaluated, generation, budget, fresh, calls, acquired, unseen>>
  BY DEF Refill
<1>2. PICK Q \in ParentSets, M \in SUBSET Configs :
        Cardinality(Q \cup M) <= PopulationSize /\ seeds' = Q \cup M
  BY DEF Refill
<1>3. Q \subseteq evaluated /\ Cardinality(Q) = Parents
  BY <1>1, ParentsFill DEF SearchInv, BeforeLoop
<1>4. seeds' \in SUBSET Configs
  BY <1>2, <1>3 DEF SearchInv, SearchTypes
<1>5. Cardinality(seeds' \ evaluated') <= Refilled
  <2>1. seeds' \ evaluated \subseteq seeds' \ Q /\ Q \in SUBSET seeds' /\ seeds' \ Q \in SUBSET Configs
    BY <1>2, <1>3, <1>4
  <2>2. Cardinality(seeds' \ Q) = Cardinality(seeds') - Parents /\ Cardinality(seeds') \in Nat
    BY <1>3, <1>4, <2>1, SetSizes
  <2>3. Cardinality(seeds' \ evaluated) <= Cardinality(seeds' \ Q)
    BY <2>1, SetSizes
  <2>4. Cardinality(seeds' \ evaluated) \in Nat /\ Cardinality(seeds' \ Q) \in Nat
    BY <1>4, SetSizes
  <2>5. Cardinality(seeds') <= PopulationSize
    BY <1>2
  <2> QED BY <1>1, <2>2, <2>3, <2>4, <2>5, Parameters
<1>6. SearchTypes' /\ BeforeLoop'
  BY <1>1, <1>4 DEF SearchInv, SearchTypes, BeforeLoop, Phases, Surface
<1>7. NativeLoop'
  BY <1>1, <1>5 DEF SearchInv, NativeLoop
<1>8. BudgetedLoops' /\ AcquisitionShares' /\ PrimaryIsReserved'
  BY <1>1 DEF SearchInv, NativeLoop, BudgetedLoops, AcquisitionShares, PrimaryIsReserved
<1>9. BudgetParity'
  BY <1>1 DEF SearchInv, BudgetParity, LoopOf, Broken
<1> QED BY <1>6, <1>7, <1>8, <1>9 DEF SearchInv

\* A trial of an Optuna backend.
LEMMA TrialSearch ==
    ASSUME SearchInv, NEW c \in Configs, Trial(c)
    PROVE  SearchInv'
<1> DEFINE attempts == c \notin evaluated /\ fresh < budget
<1>1. /\ phase = "trial" /\ phase' \in {"trial", "done"}
      /\ UNCHANGED <<backend, land, seeds, generation, budget, acquired, unseen>>
      /\ calls' = calls + (IF attempts THEN 1 ELSE 0)
      /\ fresh' = fresh + (IF attempts /\ c \notin Broken THEN 1 ELSE 0)
      /\ evaluated' \in {evaluated, evaluated \cup {c}}
  BY DEF Trial, TrialTold
<1>2. /\ fresh <= budget /\ budget = NativeBudget /\ LoopOf(backend) = "trial"
      /\ (Broken = {} => calls = fresh)
      /\ fresh \in Nat /\ calls \in Nat /\ budget \in Nat /\ unseen \in Nat
  BY <1>1 DEF SearchInv, BudgetedLoops, SearchTypes
<1>3. backend # "qlognehvi" /\ NativeBudget' = NativeBudget /\ Broken' = Broken
  BY <1>1, <1>2 DEF LoopOf, NativeBudget, Broken
<1>4. fresh' \in Nat /\ calls' \in Nat /\ fresh' <= budget' /\ (Broken = {} => calls' = fresh')
  BY <1>1, <1>2
<1>5. SearchTypes' /\ BeforeLoop'
  BY <1>1, <1>4 DEF SearchInv, SearchTypes, BeforeLoop, Phases
<1>6. NativeLoop' /\ AcquisitionShares' /\ PrimaryIsReserved'
  BY <1>1, <1>3 DEF NativeLoop, AcquisitionShares, PrimaryIsReserved
<1>7. BudgetedLoops' /\ BudgetParity'
  <2>1. fresh' <= NativeBudget' /\ budget' = NativeBudget'
    BY <1>1, <1>2, <1>3, <1>4
  <2>2. LoopOf(backend') = "trial"
    BY <1>1, <1>2
  <2>3. (LoopOf(backend') # "trial" \/ Broken' = {}) => calls' <= NativeBudget'
    BY <1>3, <1>4, <2>1, <2>2
  <2>4. BudgetedLoops'
    BY <1>1, <1>3, <1>4, <2>1, <2>2 DEF BudgetedLoops
  <2> QED BY <2>1, <2>3, <2>4 DEF BudgetParity, NativeBudget, Refilled
<1> QED BY <1>5, <1>6, <1>7 DEF SearchInv

\* What the BoTorch loop has spent, in the initial design and in its acquisitions.
LEMMA AcquisitionTypes ==
    ASSUME SearchInv, phase \in {"design", "acquire"}
    PROVE  /\ fresh \in Nat /\ calls = fresh /\ fresh <= budget /\ budget \in Nat /\ unseen \in Nat
           /\ budget = NativeBudget /\ backend = "qlognehvi" /\ LoopOf(backend) # "trial"
           /\ acquired \in [Modes -> Nat]
           /\ acquired["design"] \in Nat /\ acquired["pareto"] \in Nat /\ acquired["primary"] \in Nat
           /\ fresh = acquired["design"] + acquired["pareto"] + acquired["primary"]
           /\ Acquisitions \in Nat
           /\ phase = "design" => acquired["pareto"] = 0 /\ acquired["primary"] = 0
           /\ phase = "acquire" =>
                 \/ acquired["pareto"] = 0
                 \/ Acquisitions > 1 /\ acquired["pareto"] <= Acquisitions - Exploitation(Acquisitions)
<1>1. /\ fresh \in Nat /\ budget \in Nat /\ unseen \in Nat /\ acquired \in [Modes -> Nat]
      /\ calls = fresh /\ fresh <= budget /\ budget = NativeBudget /\ backend = "qlognehvi"
      /\ fresh = acquired["design"] + acquired["pareto"] + acquired["primary"]
  BY DEF SearchInv, SearchTypes, BudgetedLoops, AcquisitionShares
<1>2. acquired["design"] \in Nat /\ acquired["pareto"] \in Nat /\ acquired["primary"] \in Nat
  BY <1>1 DEF Modes
<1>3. Acquisitions \in Nat
  BY <1>1, <1>2 DEF Acquisitions
<1> QED BY <1>1, <1>2, <1>3 DEF SearchInv, AcquisitionShares, LoopOf

\* A search that spent its budget kept the reserved share.
ShareKept == \/ acquired["pareto"] = 0
             \/ Acquisitions > 1 /\ acquired["pareto"] <= Acquisitions - Exploitation(Acquisitions)

LEMMA ShareIsReserved ==
    ASSUME budget \in Nat, acquired \in [Modes -> Nat], fresh <= budget, ShareKept,
           fresh = acquired["design"] + acquired["pareto"] + acquired["primary"]
    PROVE  fresh >= budget /\ Acquisitions > 0 => acquired["primary"] >= Exploitation(Acquisitions)
<1> SUFFICES ASSUME fresh >= budget, Acquisitions > 0
             PROVE  acquired["primary"] >= Exploitation(Acquisitions)
  OBVIOUS
<1>1. acquired["design"] \in Nat /\ acquired["pareto"] \in Nat /\ acquired["primary"] \in Nat
  BY DEF Modes
<1>2. fresh = budget /\ Acquisitions \in Nat /\ acquired["primary"] = Acquisitions - acquired["pareto"]
  BY <1>1 DEF Acquisitions
<1>3. Exploitation(Acquisitions) \in 1 .. Acquisitions
  BY <1>2, ExploitationShare
<1> QED BY <1>1, <1>2, <1>3 DEF ShareKept

\* A step of the BoTorch loop that evaluates nothing.
LEMMA ProposingSearch ==
    ASSUME SearchInv, phase \in {"design", "acquire"},
           UNCHANGED <<backend, land, seeds, evaluated, generation, budget, fresh, calls, acquired, unseen>>,
           phase' \in {"acquire", "raised", "done"}, phase' = "done" => phase = "acquire"
    PROVE  SearchInv'
<1>1. ShareKept
  BY AcquisitionTypes DEF ShareKept
<1>2. SearchTypes' /\ BeforeLoop' /\ NativeLoop'
  BY DEF SearchInv, SearchTypes, BeforeLoop, NativeLoop, Phases
<1>3. BudgetedLoops'
  BY AcquisitionTypes DEF BudgetedLoops, NativeBudget
<1>4. AcquisitionShares'
  BY <1>1, AcquisitionTypes DEF AcquisitionShares, ShareKept, Acquisitions
<1>5. BudgetParity'
  BY DEF SearchInv, BudgetParity, LoopOf, Broken
<1>6. fresh >= budget /\ Acquisitions > 0 => acquired["primary"] >= Exploitation(Acquisitions)
  BY <1>1, AcquisitionTypes, ShareIsReserved
<1>7. PrimaryIsReserved'
  BY <1>6 DEF PrimaryIsReserved, Acquisitions
<1> QED BY <1>2, <1>3, <1>4, <1>5, <1>7 DEF SearchInv

\* An evaluation of the BoTorch loop, which may raise.
LEMMA EvaluatingSearch ==
    ASSUME SearchInv, phase \in {"design", "acquire"}, fresh < budget, NEW c \in Configs, NEW mode,
           phase = "design" => mode = "design", phase = "acquire" => mode = AcquisitionMode,
           EvaluateAs(c, mode, phase),
           UNCHANGED <<backend, land, seeds, generation, budget, unseen>>
    PROVE  SearchInv'
<1>1. mode \in Modes
  BY DEF AcquisitionMode, Modes
<1>2. NativeBudget' = NativeBudget /\ calls' = calls + 1 /\ calls' <= budget /\ Broken' = Broken
  BY AcquisitionTypes DEF NativeBudget, EvaluateAs, Broken
<1>3. CASE phase' = "raised" /\ UNCHANGED <<evaluated, fresh, acquired>>
  <2>1. SearchTypes' /\ BeforeLoop' /\ NativeLoop' /\ BudgetedLoops' /\ AcquisitionShares'
        /\ PrimaryIsReserved'
    BY <1>2, <1>3, AcquisitionTypes DEF SearchInv, SearchTypes, BeforeLoop, NativeLoop,
       BudgetedLoops, AcquisitionShares, PrimaryIsReserved, Phases
  <2>2. BudgetParity'
    BY <1>2, <1>3, AcquisitionTypes DEF BudgetParity, NativeBudget, Refilled
  <2> QED BY <2>1, <2>2 DEF SearchInv
<1>4. CASE /\ phase' = phase /\ evaluated' = evaluated \cup {c} /\ fresh' = fresh + 1
           /\ acquired' = [acquired EXCEPT ![mode] = @ + 1]
  <2>1. /\ acquired' \in [Modes -> Nat] /\ fresh' \in Nat /\ calls' = fresh' /\ fresh' <= budget'
        /\ \A m \in Modes : acquired'[m] = IF m = mode THEN acquired[m] + 1 ELSE acquired[m]
    BY <1>1, <1>2, <1>4, AcquisitionTypes
  <2>2. SearchTypes' /\ BeforeLoop' /\ NativeLoop' /\ PrimaryIsReserved'
    BY <1>2, <1>4, <2>1, AcquisitionTypes DEF SearchInv, SearchTypes, BeforeLoop, NativeLoop,
       PrimaryIsReserved
  <2>3. BudgetedLoops'
    BY <1>2, <1>4, <2>1, AcquisitionTypes DEF BudgetedLoops
  <2>4. /\ acquired'["design"] = IF mode = "design" THEN acquired["design"] + 1 ELSE acquired["design"]
        /\ acquired'["pareto"] = IF mode = "pareto" THEN acquired["pareto"] + 1 ELSE acquired["pareto"]
        /\ acquired'["primary"] = IF mode = "primary" THEN acquired["primary"] + 1 ELSE acquired["primary"]
    BY <2>1 DEF Modes
  <2>5. AcquisitionShares'
    <3>1. CASE phase = "design"
      BY <1>4, <2>1, <2>4, <3>1, AcquisitionTypes DEF AcquisitionShares
    <3>2. CASE phase = "acquire"
      <4>1. mode \in {"pareto", "primary"} /\ Acquisitions' = Acquisitions
        BY <2>4, <3>2, AcquisitionTypes DEF AcquisitionMode, Acquisitions
      <4>2. mode = "pareto" => /\ Acquisitions > 1
                               /\ acquired["pareto"] + acquired["primary"]
                                     < Acquisitions - Exploitation(Acquisitions)
        BY <3>2 DEF AcquisitionMode, Acquisitions
      <4>3. Acquisitions > 1 => Exploitation(Acquisitions) \in 1 .. Acquisitions
        BY AcquisitionTypes, ExploitationShare
      <4>4. \/ acquired'["pareto"] = 0
            \/ Acquisitions' > 1 /\ acquired'["pareto"] <= Acquisitions' - Exploitation(Acquisitions')
        <5>1. CASE mode = "pareto"
          BY <2>4, <4>1, <4>2, <4>3, <5>1, AcquisitionTypes
        <5>2. CASE mode = "primary"
          BY <2>4, <3>2, <4>1, <5>2, AcquisitionTypes
        <5> QED BY <4>1, <5>1, <5>2
      <4>5. fresh' = acquired'["design"] + acquired'["pareto"] + acquired'["primary"]
        BY <1>4, <2>4, <4>1, AcquisitionTypes
      <4> QED BY <1>4, <3>2, <4>4, <4>5 DEF AcquisitionShares
    <3> QED BY <3>1, <3>2
  <2>6. BudgetParity'
    BY <1>2, <2>1, AcquisitionTypes DEF BudgetParity, NativeBudget, Refilled
  <2> QED BY <2>2, <2>3, <2>5, <2>6 DEF SearchInv
<1> QED BY <1>3, <1>4 DEF EvaluateAs

LEMMA SearchStepInv ==
    ASSUME SearchInv, SearchStep
    PROVE  SearchInv'
<1>1. CASE MeasureSurface \/ SeedPopulation \/ Generation \/ Refill \/ \E c \in Configs : Trial(c)
  BY <1>1, MeasureSearch, SeedSearch, GenerationSearch, RefillSearch, TrialSearch
<1>2. Unseen \subseteq Configs
  BY DEF Unseen, SearchInv, SearchTypes
<1>3. CASE \E c \in Configs : DesignPoint(c)
  <2>1. PICK c \in Configs : DesignPoint(c)
    BY <1>3
  <2>2. /\ phase = "design" /\ fresh < budget /\ EvaluateAs(c, "design", phase)
        /\ UNCHANGED <<backend, land, seeds, generation, budget, unseen>>
    BY <2>1 DEF DesignPoint, Designing
  <2> QED BY <2>2, EvaluatingSearch
<1>4. CASE \E c \in Configs : AcquireNew(c) \/ AcquireInstead(c)
  <2>1. PICK c \in Configs : AcquireNew(c) \/ AcquireInstead(c)
    BY <1>4
  <2>2. /\ phase = "acquire" /\ fresh < budget /\ EvaluateAs(c, AcquisitionMode, phase)
        /\ UNCHANGED <<backend, land, seeds, generation, budget, unseen>>
    BY <2>1 DEF AcquireNew, AcquireInstead
  <2> QED BY <2>2, EvaluatingSearch
<1>5. CASE DesignDone \/ AcquireNothing \/ AcquisitionFails \/ AcquireDone
  BY <1>5, ProposingSearch DEF DesignDone, EndDesign, AcquireNothing, AcquisitionFails, AcquireDone
<1>6. CASE AcquireDuplicate
  BY <1>6 DEF AcquireDuplicate, SearchInv, SearchTypes, BeforeLoop, NativeLoop, BudgetedLoops,
     AcquisitionShares, BudgetParity, PrimaryIsReserved, NativeBudget, Acquisitions, LoopOf, Broken,
     Surface
<1> QED BY <1>1, <1>3, <1>4, <1>5, <1>6 DEF SearchStep

-----------------------------------------------------------------------------
(* The pipeline.                                                            *)

\* A step of an evolve action, whatever chose its run, surface, evidence and backend.
Beginning(r) ==
    \/ Replay(r)
    \/ \E s, d, b, l, w : /\ Datum(d)
                          /\ \/ EvolveUnready(r, s, d) \/ Evolve(r, s, d, b, l)
                             \/ EvolveAtOnce(r, s, d, b, l, w)
Judging == Gates \/ Certificate \/ (\E regressed \in BOOLEAN : Relevance(regressed))
           \/ SegmentEntries \/ NoSegments
Crediting == OweCredit \/ (\E e \in owed : RecordCredit(e)) \/ Remember \/ ReportMechanisms
Leaving == EvolveFailed \/ EndRun \/ Crash
EvolutionStep == \/ \E r \in Runs : Beginning(r)
                 \/ Search \/ (\E w \in Configs : Select(w))
                 \/ Judging \/ Crediting \/ Leaving

LEMMA CertificateBlocks ==
    (StatisticalBlockers = {} <=> NoBlockers(measured, data)) /\ StatisticalBlockers \subseteq BlockerNames
BY DEF StatisticalBlockers, NoBlockers, BlockerNames

\* What the ledgers say stays true while events are added.
LEMMA LedgersStay ==
    ASSUME EvolutionInv, UNCHANGED <<learned, mechanisms>>, credits \subseteq credits'
    PROVE  LedgersAgreeOnSuccess' /\ LearnedInv'
<1>1. LedgersAgreeOnSuccess'
  BY DEF EvolutionInv, LedgerInv, LedgersAgreeOnSuccess, Events
<1>2. ASSUME NEW s, NEW candidate, Credited(credits, s, candidate)
      PROVE  Credited(credits', s, candidate)
  BY <1>2 DEF Credited
<1>3. \A r \in Runs : \A x \in learned[r] : Stored(x)'
  BY <1>2 DEF EvolutionInv, LearnedInv, Stored
<1> QED BY <1>1, <1>3 DEF EvolutionInv, LearnedInv

\* A step that neither writes to a ledger nor comes from or goes to one.
LEMMA LedgersUntouched ==
    ASSUME EvolutionInv, UNCHANGED <<credits, owed, learned, mechanisms>>,
           stage # "record", stage' \notin {"record", "report", "reported"}
    PROVE  LedgerInv' /\ LearnedInv'
<1>1. LedgersAgreeOnSuccess' /\ LearnedInv'
  BY LedgersStay
<1> QED BY <1>1 DEF EvolutionInv, LedgerInv

LEMMA BeginningInv ==
    ASSUME EvolutionInv, NEW r \in Runs, Beginning(r)
    PROVE  EvolutionInv'
<1>1. CASE Replay(r)
  <2>1. PICK stored \in learned[r] :
           /\ stage = "idle" /\ stage' = "report" /\ scenario' = scenario
           /\ surface' = stored.surface /\ data' = stored.data /\ selected' = stored.selected
           /\ measured' = stored.measured /\ result' = stored.result /\ entries' = stored.entries
           /\ UNCHANGED <<owed, credits, learned, mechanisms>>
    BY <1>1 DEF Replay, ledgers
  <2>2. Stored(stored)
    BY <2>1 DEF EvolutionInv, LearnedInv
  <2>3. PipelineInv'
    BY <2>1, <2>2 DEF PipelineInv, Stored, Stages, Later
  <2>4. LedgersAgreeOnSuccess' /\ LearnedInv'
    BY <2>1, LedgersStay
  <2>5. Due' \subseteq credits'
    BY <2>1, <2>2 DEF Due, Stored
  <2>6. Credited(credits', surface', selected')
    BY <2>1, <2>2 DEF Stored
  <2>7. LedgerInv'
    BY <2>1, <2>4, <2>5, <2>6 DEF EvolutionInv, LedgerInv
  <2> QED BY <2>1, <2>3, <2>4, <2>7 DEF EvolutionInv
<1>2. CASE \E s, d, b, l, w : /\ Datum(d)
                              /\ \/ EvolveUnready(r, s, d) \/ Evolve(r, s, d, b, l)
                                 \/ EvolveAtOnce(r, s, d, b, l, w)
  <2>1. /\ stage = "idle" /\ stage' \in {"certificate", "search", "gates"} /\ Datum(data')
        /\ UNCHANGED <<result, entries, measured, owed, credits, learned, mechanisms, scenario>>
    BY <1>2 DEF EvolveUnready, Evolve, EvolveAtOnce, Invocation, ledgers
  <2>2. PipelineInv'
    BY <2>1 DEF EvolutionInv, PipelineInv, Stages, Later
  <2>3. LedgerInv' /\ LearnedInv'
    BY <2>1, LedgersUntouched
  <2> QED BY <2>1, <2>2, <2>3 DEF EvolutionInv
<1> QED BY <1>1, <1>2 DEF Beginning

LEMMA SearchingInv ==
    ASSUME EvolutionInv, Search \/ \E w \in Configs : Select(w)
    PROVE  EvolutionInv'
<1>1. /\ stage = "search" /\ stage' \in {"search", "gates"}
      /\ UNCHANGED <<result, entries, data, owed, credits, learned, mechanisms, scenario>>
  BY DEF Search, Select, ledgers, pipeline
<1>2. PipelineInv'
  BY <1>1 DEF EvolutionInv, PipelineInv, Stages, Later
<1>3. LedgerInv' /\ LearnedInv'
  BY <1>1, LedgersUntouched
<1> QED BY <1>1, <1>2, <1>3 DEF EvolutionInv

LEMMA GatesInv ==
    ASSUME EvolutionInv, Gates
    PROVE  EvolutionInv'
<1>1. PICK e : /\ measured' = {e}
               /\ result' = [ready |-> TRUE, safe |-> Safe(e), trusted |-> Safe(e) /\ Trusted(e),
                             business |-> Route(data) = "production" /\ Safe(e) /\ Trusted(e),
                             blockers |-> {}]
  BY DEF Gates
<1>2. /\ stage = "gates" /\ stage' = "certificate"
      /\ UNCHANGED <<entries, data, owed, credits, learned, mechanisms, scenario>>
  BY DEF Gates, ledgers
<1>3. result' \in ResultType /\ result'.blockers = {}
  <2>1. Safe(e) \in BOOLEAN
    BY DEF Safe
  <2>2. (Safe(e) /\ Trusted(e)) \in BOOLEAN /\ (Route(data) = "production" /\ Safe(e) /\ Trusted(e)) \in BOOLEAN
    OBVIOUS
  <2> QED BY <1>1, <2>1, <2>2 DEF ResultType
<1>4. result'.trusted => Gated(result', data', measured')
  <2> SUFFICES ASSUME result'.trusted PROVE Gated(result', data', measured')
    OBVIOUS
  <2>1. Safe(e) /\ Trusted(e)
    BY <1>1
  <2>2. result'.ready /\ result'.safe /\ (result'.business <=> Route(data) = "production")
    BY <1>1, <2>1
  <2>3. IF Route(data) = "production" THEN \A x \in measured' : x.holdout >= 2 ELSE Independent(data)
    BY <1>1, <2>1 DEF Trusted
  <2> QED BY <1>2, <2>2, <2>3 DEF Gated
<1>5. PipelineInv'
  BY <1>2, <1>3, <1>4 DEF EvolutionInv, PipelineInv, Stages, Later
<1>6. LedgerInv' /\ LearnedInv'
  BY <1>2, LedgersUntouched
<1> QED BY <1>2, <1>5, <1>6 DEF EvolutionInv

\* The certificate: what keeps its trust is certified.
LEMMA CertificateInv ==
    ASSUME EvolutionInv, Certificate
    PROVE  EvolutionInv'
<1> DEFINE blockers == StatisticalBlockers \cup GuardrailBlockers
<1>1. /\ stage = "certificate" /\ stage' \in {"relevance", "segments"}
      /\ UNCHANGED <<entries, data, measured, owed, credits, learned, mechanisms, scenario>>
      /\ result' = IF ~Business(data) \/ blockers = {} THEN result
                   ELSE [result EXCEPT !.trusted = FALSE, !.business = FALSE, !.blockers = blockers]
  BY DEF Certificate, ledgers
<1>2. /\ result \in ResultType /\ result.blockers = {} /\ Datum(data)
      /\ result.trusted => Gated(result, data, measured)
  BY <1>1 DEF EvolutionInv, PipelineInv
<1>3. blockers \subseteq BlockerNames
  BY CertificateBlocks DEF GuardrailBlockers, BlockerNames
<1>4. result' \in ResultType
  BY <1>1, <1>2, <1>3 DEF ResultType
<1>5. ASSUME result'.trusted PROVE Certified(result', data', measured')
  <2>1. result' = result /\ (~Business(data) \/ blockers = {})
    BY <1>1, <1>2, <1>5 DEF ResultType
  <2>2. Gated(result, data, measured)
    BY <1>2, <1>5, <2>1
  <2>3. CASE ~Business(data)
    <3>1. Route(data) # "production"
      BY <2>3 DEF Business
    <3> QED BY <1>1, <1>2, <2>1, <2>2, <2>3, <3>1 DEF Gated, Certified
  <2>4. CASE Business(data) /\ blockers = {}
    <3>1. NoBlockers(measured, data) /\ Independent(data)
      BY <2>4, CertificateBlocks DEF GuardrailBlockers
    <3>2. Route(data) = "production"
      BY <1>2, <2>4, <3>1 DEF Datum, Independent, Business, Route, MinEvidence
    <3> QED BY <1>1, <1>2, <2>1, <2>2, <2>4, <3>1, <3>2 DEF Gated, Certified
  <2> QED BY <2>1, <2>3, <2>4
<1> HIDE DEF blockers
<1>6. PipelineInv'
  BY <1>1, <1>4, <1>5 DEF EvolutionInv, PipelineInv, Stages, Later
<1>7. LedgerInv' /\ LearnedInv'
  BY <1>1, LedgersUntouched
<1> QED BY <1>1, <1>6, <1>7 DEF EvolutionInv

LEMMA RelevanceInv ==
    ASSUME EvolutionInv, NEW regressed \in BOOLEAN, Relevance(regressed)
    PROVE  EvolutionInv'
<1>1. /\ stage = "relevance" /\ stage' = "segments"
      /\ UNCHANGED <<entries, data, measured, owed, credits, learned, mechanisms, scenario>>
      /\ result' = IF ~regressed THEN result
                   ELSE [result EXCEPT !.safe = FALSE, !.trusted = FALSE, !.business = FALSE,
                                       !.blockers = @ \cup {"recommend_relevance_regression"}]
  BY DEF Relevance, ledgers
<1>2. /\ result \in ResultType /\ Datum(data)
      /\ result.trusted => Certified(result, data, measured)
  BY <1>1 DEF EvolutionInv, PipelineInv, Later
<1>3. result' \in ResultType
  BY <1>1, <1>2 DEF ResultType, BlockerNames
<1>4. result'.trusted => Certified(result', data', measured')
  BY <1>1, <1>2 DEF ResultType, Certified
<1>5. PipelineInv'
  BY <1>1, <1>3, <1>4 DEF EvolutionInv, PipelineInv, Stages, Later
<1>6. LedgerInv' /\ LearnedInv'
  BY <1>1, LedgersUntouched
<1> QED BY <1>1, <1>5, <1>6 DEF EvolutionInv

LEMMA SegmentsInv ==
    ASSUME EvolutionInv, SegmentEntries \/ NoSegments
    PROVE  EvolutionInv'
<1>1. /\ stage = "segments" /\ stage' = "credit"
      /\ UNCHANGED <<data, measured, result, owed, credits, learned, mechanisms, scenario>>
  BY DEF SegmentEntries, NoSegments, ledgers, pipeline
<1>2. \A x \in entries' : x.segment \in Segments
  <2>1. CASE NoSegments
    BY <2>1 DEF NoSegments, pipeline, EvolutionInv, PipelineInv
  <2>2. CASE SegmentEntries
    BY <2>2 DEF SegmentEntries, Portfolio, Entry
  <2> QED BY <2>1, <2>2
<1>3. PipelineInv'
  BY <1>1, <1>2 DEF EvolutionInv, PipelineInv, Stages, Later
<1>4. LedgerInv' /\ LearnedInv'
  BY <1>1, LedgersUntouched
<1> QED BY <1>1, <1>3, <1>4 DEF EvolutionInv

LEMMA LeavingInv ==
    ASSUME EvolutionInv, Leaving
    PROVE  EvolutionInv'
<1>1. /\ stage' = "idle" /\ UNCHANGED <<credits, learned, mechanisms, scenario>>
      /\ owed' = {} /\ result' = NotReady /\ data' = NoData /\ entries' = {}
  BY DEF Leaving, EvolveFailed, EndRun, Crash, Release
<1>2. PipelineInv'
  BY <1>1 DEF PipelineInv, Stages, Later, NotReady, NoData, ResultType, Datum
<1>3. LedgersAgreeOnSuccess' /\ LearnedInv'
  BY <1>1, LedgersStay
<1>4. LedgerInv'
  BY <1>1, <1>3 DEF LedgerInv
<1> QED BY <1>1, <1>2, <1>3, <1>4 DEF EvolutionInv

-----------------------------------------------------------------------------
(* The ledgers.                                                             *)

LEMMA PairedType ==
    ASSUME NEW d, Datum(d)
    PROVE  PairedSamples(d) \in Int
BY DEF Datum, PairedSamples

\* A certified result is one the credit ledger accepts.
LEMMA CertifiedIsCredited ==
    ASSUME PipelineInv, stage \in Later
    PROVE  GlobalDecision = "accepted" <=> result.trusted
<1>1. result.trusted => HoldoutIndependent /\ ~(Business(data) /\ PairedSamples(data) < 2)
  BY DEF PipelineInv, Certified, NoBlockers, HoldoutIndependent
<1>2. PairedSamples(data) \in Int
  BY PairedType DEF PipelineInv
<1> QED BY <1>1, <1>2 DEF GlobalDecision

LEMMA CreditsAre == GlobalCredits \cup SegmentCredits = Due
BY Zenon DEF GlobalCredits, SegmentCredits, GlobalDecision, HoldoutIndependent, HoldoutRegressed, Event,
   Due, CreditsOf, CreditOf, DecisionOf

\* The events owed at the end of an evolution.
LEMMA OweCreditInv ==
    ASSUME EvolutionInv, OweCredit
    PROVE  EvolutionInv'
<1>1. /\ stage = "credit" /\ stage' = "record" /\ owed' = GlobalCredits \cup SegmentCredits
      /\ UNCHANGED <<surface, data, selected, measured, result, entries, credits, learned, mechanisms,
                     scenario>>
  BY DEF OweCredit, pipeline
<1>2. PipelineInv'
  BY <1>1 DEF EvolutionInv, PipelineInv, Stages, Later
<1>3. LedgersAgreeOnSuccess' /\ LearnedInv'
  BY <1>1, LedgersStay
<1>4. GlobalDecision = "accepted" <=> result.trusted
  BY <1>1, CertifiedIsCredited DEF EvolutionInv, Later
<1>5. Due' \subseteq owed' \cup credits'
  BY <1>1, CreditsAre DEF Due
<1>6. result.trusted => Credited(GlobalCredits, surface, selected)
  <2> SUFFICES ASSUME result.trusted, NEW arm \in selected.arms
               PROVE  \E e \in GlobalCredits :
                         /\ e.surface = surface /\ e.segment = Whole /\ e.arm = arm
                         /\ e.outcome = "accepted" /\ e.config = selected.config
    BY DEF Credited
  <2> DEFINE e == Event(Whole, arm, GlobalDecision, selected.config,
                        [data |-> data, measured |-> measured, trusted |-> result.trusted,
                         safe |-> result.safe])
  <2>1. GlobalDecision = "accepted"
    BY <1>4
  <2>2. e \in GlobalCredits
    BY <2>1 DEF GlobalCredits
  <2>3. /\ e.surface = surface /\ e.segment = Whole /\ e.arm = arm
        /\ e.outcome = "accepted" /\ e.config = selected.config
    BY <2>1 DEF Event
  <2> QED BY <2>2, <2>3
<1>7. LedgerInv'
  BY <1>1, <1>3, <1>5, <1>6 DEF LedgerInv, Credited
<1> QED BY <1>1, <1>2, <1>3, <1>7 DEF EvolutionInv

LEMMA RecordCreditInv ==
    ASSUME EvolutionInv, NEW e \in owed, RecordCredit(e)
    PROVE  EvolutionInv'
<1>1. /\ stage = "record" /\ owed' = owed \ {e} /\ credits' = credits \cup {e}
      /\ UNCHANGED <<stage, surface, data, selected, measured, result, entries, learned, mechanisms,
                     scenario>>
  BY DEF RecordCredit, pipeline
<1>2. PipelineInv'
  BY <1>1 DEF EvolutionInv, PipelineInv, Stages, Later
<1>3. LedgersAgreeOnSuccess' /\ LearnedInv'
  BY <1>1, LedgersStay
<1>4. owed' \cup credits' = owed \cup credits
  BY <1>1
<1>5. LedgerInv'
  BY <1>1, <1>3, <1>4 DEF EvolutionInv, LedgerInv, Credited, Due
<1> QED BY <1>1, <1>2, <1>3, <1>5 DEF EvolutionInv

\* A trusted result is remembered when all of its credit is written.
LEMMA RememberInv ==
    ASSUME EvolutionInv, Remember
    PROVE  EvolutionInv'
<1> DEFINE x == Result
<1>1. /\ stage = "record" /\ stage' = "report" /\ owed = {}
      /\ UNCHANGED <<surface, data, selected, measured, result, entries, owed, credits, mechanisms,
                     scenario>>
      /\ learned' = IF ~result.trusted THEN learned ELSE [learned EXCEPT ![run] = @ \cup {x}]
  BY DEF Remember, pipeline
<1>2. PipelineInv'
  BY <1>1 DEF EvolutionInv, PipelineInv, Stages, Later
<1>3. Due \subseteq credits /\ (result.trusted => Credited(credits, surface, selected))
  BY <1>1 DEF EvolutionInv, LedgerInv
<1>4. result.trusted => Stored(x)
  <2>1. /\ x.surface = surface /\ x.data = data /\ x.selected = selected /\ x.measured = measured
        /\ x.result = result /\ x.entries = entries
    BY DEF Result
  <2>2. /\ result \in ResultType /\ Datum(data) /\ \A y \in entries : y.segment \in Segments
        /\ result.trusted => Certified(result, data, measured)
    BY <1>1 DEF EvolutionInv, PipelineInv, Later
  <2> HIDE DEF x
  <2> QED BY <1>3, <2>1, <2>2 DEF Stored, Due
<1>5. \A r \in Runs : \A y \in learned'[r] : Stored(y)
  <2>1. CASE ~result.trusted
    BY <1>1, <2>1 DEF EvolutionInv, LearnedInv
  <2>2. CASE result.trusted
    <3>1. learned' = [learned EXCEPT ![run] = @ \cup {x}] /\ Stored(x)
      BY <1>1, <1>4, <2>2
    <3> HIDE DEF x
    <3> QED BY <3>1 DEF EvolutionInv, LearnedInv
  <2> QED BY <2>1, <2>2
<1>6. learned' = [r \in Runs |-> learned'[r]]
  BY <1>1 DEF EvolutionInv, LearnedInv
<1>7. LearnedInv'
  BY <1>1, <1>5, <1>6 DEF LearnedInv, Stored, Credited
<1>8. LedgerInv'
  BY <1>1, <1>3 DEF EvolutionInv, LedgerInv, Credited, Due, LedgersAgreeOnSuccess, Events
<1> QED BY <1>1, <1>2, <1>7, <1>8 DEF EvolutionInv

\* What the mechanism evidence calls accepted has its credit.
LEMMA ReportInv ==
    ASSUME EvolutionInv, ReportMechanisms
    PROVE  EvolutionInv'
<1>1. /\ stage = "report" /\ stage' = "reported" /\ mechanisms' \subseteq mechanisms \cup MechanismRows
      /\ UNCHANGED <<surface, data, selected, measured, result, entries, owed, credits, learned,
                     scenario>>
  BY DEF ReportMechanisms, pipeline
<1>2. PipelineInv'
  BY <1>1 DEF EvolutionInv, PipelineInv, Stages, Later
<1>3. LearnedInv'
  BY <1>1 DEF EvolutionInv, LearnedInv, Stored, Credited
<1>4. ASSUME NEW m \in MechanismRows, m.segment = Whole, m.outcome = "accepted"
      PROVE  \E e \in Events(m.surface, Whole, m.arm, "accepted") : e.config = m.config
  <2>1. ~\E x \in entries : m.segment = x.segment
    BY <1>4, ScenarioAssumption DEF EvolutionInv, PipelineInv
  <2>2. PICK arm \in selected.arms :
          m = Row(Whole, arm, GlobalOutcome, GlobalQualified, selected.config)
    <3>1. \/ \E arm \in selected.arms : m = Row(Whole, arm, GlobalOutcome, GlobalQualified, selected.config)
          \/ \E x \in entries : \E arm \in Signature(selected.config, x.config) :
                m = Row(x.segment, arm, SegmentOutcome(x), SegmentQualified(x), x.config)
      BY <1>4 DEF MechanismRows
    <3>2. \A x, arm : m = Row(x.segment, arm, SegmentOutcome(x), SegmentQualified(x), x.config)
                        => m.segment = x.segment
      BY DEF Row
    <3> QED BY <2>1, <3>1, <3>2
  <2>3. m.surface = surface /\ m.arm = arm /\ m.outcome = GlobalOutcome /\ m.config = selected.config
    BY <2>2 DEF Row
  <2>4. result.trusted
    BY <1>4, <2>3 DEF GlobalOutcome
  <2>5. Credited(credits, surface, selected)
    BY <1>1, <2>4 DEF EvolutionInv, LedgerInv
  <2> QED BY <2>2, <2>3, <2>5 DEF Credited, Events
<1>5. LedgersAgreeOnSuccess'
  BY <1>1, <1>4 DEF EvolutionInv, LedgerInv, LedgersAgreeOnSuccess, Events
<1>6. LedgerInv'
  BY <1>1, <1>5 DEF EvolutionInv, LedgerInv, Credited, Due
<1> QED BY <1>1, <1>2, <1>3, <1>6 DEF EvolutionInv

\* Every step of an evolve action keeps the invariant.
LEMMA EvolutionStepInv ==
    ASSUME EvolutionInv, EvolutionStep
    PROVE  EvolutionInv'
<1>1. CASE Judging
  BY <1>1, GatesInv, CertificateInv, RelevanceInv, SegmentsInv DEF Judging
<1>2. CASE Crediting
  BY <1>2, OweCreditInv, RecordCreditInv, RememberInv, ReportInv DEF Crediting
<1> QED BY <1>1, <1>2, BeginningInv, SearchingInv, LeavingInv DEF EvolutionStep

\* So does it that of its search.
LEMMA EvolutionStepSearch ==
    ASSUME SearchInv, EvolutionStep
    PROVE  SearchInv'
<1>1. CASE UNCHANGED searchVars
  BY <1>1 DEF searchVars, SearchInv, SearchTypes, BeforeLoop, NativeLoop, BudgetedLoops,
     AcquisitionShares, BudgetParity, PrimaryIsReserved, NativeBudget, Acquisitions, LoopOf, Broken,
     Surface
<1>2. CASE \E b, l : Begin(b, l)
  BY <1>2, BeginSearch
<1>3. CASE SearchStep
  BY <1>3, SearchStepInv
<1>4. CASE Forget
  BY <1>4, ForgottenSearch
<1>5. (\E r \in Runs : Beginning(r)) => UNCHANGED searchVars \/ \E b, l : Begin(b, l)
  BY DEF Beginning, Replay, EvolveUnready, Evolve, EvolveAtOnce
<1>6. Search => SearchStep
  BY DEF Search
<1>7. (\E w \in Configs : Select(w)) => Forget
  BY DEF Select
<1>8. Judging \/ Crediting => UNCHANGED searchVars
  BY DEF Judging, Crediting, Gates, Certificate, Relevance, SegmentEntries, NoSegments, OweCredit,
         RecordCredit, Remember, ReportMechanisms
<1>9. Leaving => Forget \/ UNCHANGED searchVars
  BY DEF Leaving, EvolveFailed, EndRun, Crash
<1> QED BY <1>1, <1>2, <1>3, <1>4, <1>5, <1>6, <1>7, <1>8, <1>9 DEF EvolutionStep

-----------------------------------------------------------------------------
(* The behaviours.                                                          *)

LEMMA InitInv == Init => SearchInv /\ EvolutionInv
<1> SUFFICES ASSUME Init PROVE SearchInv /\ EvolutionInv
  OBVIOUS
<1>1. SearchInv
  BY IdleSearch DEF Init
<1>2. PipelineInv
  BY DEF Init, PipelineInv, Stages, Later, NotReady, NoData, ResultType, Datum
<1>3. LedgerInv
  BY DEF Init, LedgerInv, LedgersAgreeOnSuccess
<1>4. LearnedInv
  BY DEF Init, LearnedInv
<1> QED BY <1>1, <1>2, <1>3, <1>4 DEF EvolutionInv, Init

\* A step of something else.
LEMMA StutterInv ==
    ASSUME SearchInv, EvolutionInv, UNCHANGED vars
    PROVE  SearchInv' /\ EvolutionInv'
<1>1. SearchInv'
  BY DEF vars, searchVars, SearchInv, SearchTypes, BeforeLoop, NativeLoop, BudgetedLoops,
     AcquisitionShares, BudgetParity, PrimaryIsReserved, NativeBudget, Acquisitions, LoopOf, Broken,
     Surface
<1>2. UNCHANGED <<scenario, stage, surface, data, selected, measured, result, entries, owed, credits,
                  learned, mechanisms>>
  BY DEF vars, pipeline, ledgers
<1>3. PipelineInv' /\ LedgerInv'
  BY <1>2 DEF EvolutionInv, PipelineInv, LedgerInv, Due, Credited, LedgersAgreeOnSuccess, Events
<1>4. LearnedInv'
  BY <1>2 DEF EvolutionInv, LearnedInv, Stored, Credited
<1> QED BY <1>1, <1>2, <1>3, <1>4 DEF EvolutionInv

\* What a scenario may offer.
LEMMA ScopeIsSound ==
    ASSUME EvolutionInv
    PROVE  Scope.runs \subseteq Runs /\ \A d \in Scope.data : Datum(d)
BY ScenarioAssumption DEF EvolutionInv, Scope, Datum

LEMMA StartBegins ==
    ASSUME EvolutionInv, Start
    PROVE  \E r \in Runs : Beginning(r)
<1>1. PICK r \in Scope.runs \ ended :
         \/ Replay(r)
         \/ \E s \in Scope.surfaces, d \in Scope.data :
                \/ EvolveUnready(r, s, d)
                \/ \E b \in Scope.backends, l \in Scope.landscapes :
                      Evolve(r, s, d, b, l) \/ \E w \in Configs : EvolveAtOnce(r, s, d, b, l, w)
  BY DEF Start
<1>2. r \in Runs
  BY <1>1, ScopeIsSound
<1>3. Beginning(r)
  BY <1>1, ScopeIsSound DEF Beginning
<1> QED BY <1>2, <1>3

LEMMA NextIsStep ==
    ASSUME EvolutionInv, Next
    PROVE  EvolutionStep
BY StartBegins DEF Next, EvolutionStep, Judging, Crediting, Leaving

\* Evolve actions without the policy keep the invariants of the search, the pipeline and the
\* ledgers.  (evolve, record_evolution_result, record_mechanism_evidence)
THEOREM EvolutionInvariant == Spec => [](SearchInv /\ EvolutionInv)
<1>1. SearchInv /\ EvolutionInv /\ [Next]_vars => (SearchInv /\ EvolutionInv)'
  BY NextIsStep, EvolutionStepInv, EvolutionStepSearch, StutterInv
<1> QED BY InitInv, <1>1, PTL DEF Spec

-----------------------------------------------------------------------------
(* The policy "auto".                                                       *)

AutoInv == SearchInv /\ EvolutionInv /\ DecisionInv /\ OptimizerCreditIsEarned

\* Every step under the policy is one of an evolve action, or none to it.
LEMMA AutoIsStep ==
    ASSUME EvolutionInv, DecisionInv, AutoNext
    PROVE  EvolutionStep \/ UNCHANGED vars
<1>1. CASE StartSelected
  <2>1. decision.run \in Runs /\ Datum(decision.data)
    BY <1>1 DEF StartSelected, DecisionInv
  <2>2. Beginning(decision.run)
    BY <1>1, <2>1 DEF StartSelected, Beginning
  <2> QED BY <2>1, <2>2 DEF EvolutionStep
<1>2. CASE StartPlain
  BY <1>2, StartBegins DEF StartPlain, EvolutionStep
<1>3. CASE AutoSearch
  BY <1>3 DEF AutoSearch, EvolutionStep
<1>4. CASE Judged
  BY <1>4 DEF Judged, EvolutionStep, Judging, Crediting, Leaving
<1>5. CASE RememberObserved \/ ReportRated \/ CrashAuto
  BY <1>5 DEF RememberObserved, ReportRated, CrashAuto, EvolutionStep, Crediting, Leaving
<1>6. CASE \E r \in Scope.runs, s \in Scope.surfaces, d \in Scope.data, install \in Scope.installs :
             SelectAuto(r, s, d, install)
  BY <1>6 DEF SelectAuto
<1>7. CASE Observe \/ RateOptimizer
  BY <1>7 DEF Observe, RateOptimizer
<1> QED BY <1>1, <1>2, <1>3, <1>4, <1>5, <1>6, <1>7 DEF AutoNext

\* A decision is taken before the action, and goes with its result or with its executor.
LEMMA DecisionStep ==
    ASSUME EvolutionInv, DecisionInv, AutoNext
    PROVE  DecisionInv'
<1> USE DEF Decided
<1>0. /\ scenario' = scenario
      /\ decision.taken => Scope.auto /\ ~Scope.searches /\ stage \notin {"search", "reported"}
  <2>1. scenario' = scenario
    BY AutoIsStep DEF EvolutionStep, Beginning, Judging, Crediting, Leaving, vars, Replay,
       EvolveUnready, Evolve, EvolveAtOnce, Search, Select, Gates, Certificate, Relevance,
       SegmentEntries, NoSegments, OweCredit, RecordCredit, Remember, ReportMechanisms,
       EvolveFailed, EndRun, Crash
  <2>2. Scope.auto => ~Scope.searches
    BY AutoAssumption DEF EvolutionInv, Scope
  <2> QED BY <2>1, <2>2 DEF DecisionInv
<1>1. ASSUME NEW r \in Scope.runs, NEW s \in Scope.surfaces, NEW d \in Scope.data,
             NEW install \in Scope.installs, SelectAuto(r, s, d, install)
      PROVE  DecisionInv'
  <2>1. PICK context, loads, chosen :
          decision' = [NoDecision EXCEPT !.taken = TRUE, !.run = r, !.surface = s, !.data = d,
                         !.context = context, !.loads = loads, !.backend = chosen]
    <3>1. PICK landscape \in RoutingLandscapes(s) :
            decision' = [NoDecision EXCEPT
               !.taken = TRUE, !.run = r, !.surface = s, !.data = d,
               !.context = AutoContext(s, d, landscape),
               !.loads = Available(install.found \ install.broken),
               !.backend = AutoBackend(Available(install.found),
                                       Available(install.found \ install.broken),
                                       AutoContext(s, d, landscape), History(s))]
      BY <1>1, Zenon DEF SelectAuto
    <3> QED BY <3>1, Zenon
  <2>2. /\ stage = "idle" /\ stage' = stage /\ Scope.auto
    BY <1>1 DEF SelectAuto, vars
  <2>3. r \in Runs /\ Datum(d)
    BY ScopeIsSound
  <2> QED BY <1>0, <2>1, <2>2, <2>3 DEF DecisionInv, NoDecision, Scope, Datum
<1>2. CASE StartSelected
  <2>1. CASE Replay(decision.run) /\ decision' = [decision EXCEPT !.replayed = TRUE]
    BY <1>0, <1>2, <2>1 DEF StartSelected, Replay, DecisionInv, Scope, Datum
  <2>2. CASE EvolveUnready(decision.run, decision.surface, decision.data) /\ UNCHANGED decision
    BY <1>0, <1>2, <2>2 DEF StartSelected, EvolveUnready, DecisionInv, Scope, Datum
  <2>3. ASSUME NEW l, NEW w, NEW rows, NEW n,
               EvolveAtOnce(decision.run, decision.surface, decision.data, decision.backend, l, w),
               decision' = [decision EXCEPT !.paid = rows, !.spent = n]
        PROVE  DecisionInv'
    <3>1. stage' = "gates" /\ selected'.backend = decision.backend
      BY <2>3 DEF EvolveAtOnce, Choice
    <3> QED BY <1>0, <1>2, <2>3, <3>1 DEF StartSelected, DecisionInv, Scope, Datum
  <2> QED BY <1>2, <2>1, <2>2, <2>3 DEF StartSelected
<1>3. CASE StartPlain
  <2>1. ~decision.taken /\ UNCHANGED decision /\ Start
    BY <1>0, <1>3 DEF StartPlain, optimizer
  <2>2. stage' = "search" => Scope.searches
    BY <2>1 DEF Start, Replay, EvolveUnready, Evolve, EvolveAtOnce
  <2> QED BY <1>0, <2>1, <2>2 DEF DecisionInv, Scope
<1>4. CASE AutoSearch
  BY <1>0, <1>4 DEF AutoSearch, Search, optimizer, DecisionInv, Scope, pipeline
<1>5. CASE Judged
  <2>1. UNCHANGED decision
    BY <1>5 DEF Judged, optimizer
  <2>2. CASE (\E w \in Configs : Select(w)) \/ EvolveFailed \/ EndRun
    <3>1. ~decision.taken /\ stage' # "search"
      BY <1>0, <2>2 DEF Select, EvolveFailed, EndRun, Release
    <3> QED BY <1>0, <2>1, <3>1 DEF DecisionInv
  <2>3. CASE Judging \/ OweCredit \/ \E e \in owed : RecordCredit(e)
    <3>1. /\ stage # "idle" /\ stage' \notin {"idle", "search", "reported"}
          /\ selected' = selected
      BY <2>3 DEF Judging, Gates, Certificate, Relevance, SegmentEntries, NoSegments, OweCredit,
         RecordCredit, pipeline
    <3> QED BY <1>0, <2>1, <3>1 DEF DecisionInv, Scope, Datum
  <2> QED BY <1>5, <2>2, <2>3 DEF Judged, Judging
<1>6. CASE Observe
  BY <1>0, <1>6 DEF Observe, vars, pipeline, DecisionInv, Scope, Datum
<1>7. CASE RememberObserved
  BY <1>0, <1>7 DEF RememberObserved, Remember, optimizer, pipeline, DecisionInv, Scope, Datum
<1>8. CASE RateOptimizer
  BY <1>0, <1>8 DEF RateOptimizer, vars, DecisionInv, NoDecision, Scope
<1>9. CASE ReportRated
  BY <1>0, <1>9 DEF ReportRated, ReportMechanisms, optimizer, DecisionInv, Scope
<1>10. CASE CrashAuto
  BY <1>0, <1>10 DEF CrashAuto, Crash, Release, DecisionInv, NoDecision, Scope
<1> QED BY <1>1, <1>2, <1>3, <1>4, <1>5, <1>6, <1>7, <1>8, <1>9, <1>10 DEF AutoNext

\* A credit of the policy is written once, for the backend that searched.
LEMMA OptimizerCreditStep ==
    ASSUME DecisionInv, OptimizerCreditIsEarned, AutoNext
    PROVE  OptimizerCreditIsEarned'
<1>1. CASE UNCHANGED optimizerEvents
  BY <1>1 DEF OptimizerCreditIsEarned
<1>2. ASSUME RateOptimizer, NEW u \in RunUtility, RecordOptimizerCredit(OptimizerEvent(u))
      PROVE  OptimizerCreditIsEarned'
  <2>1. ~decision.replayed /\ decision.spent # 0
    BY <1>2 DEF RunUtility, RunUtilities
  <2>2. selected.backend = decision.backend
    BY <1>2, <2>1 DEF RateOptimizer, DecisionInv
  <2> DEFINE e == OptimizerEvent(u)
  <2>3. e.backend = e.searched
    BY <2>2 DEF OptimizerEvent
  <2>4. RecordOptimizerCredit(e)
    BY <1>2
  <2> HIDE DEF e
  <2> QED BY <1>1, <2>3, <2>4 DEF RecordOptimizerCredit, SameEvent, OptimizerCreditIsEarned
<1>3. RateOptimizer => OptimizerCreditIsEarned'
  BY <1>1, <1>2 DEF RateOptimizer
<1>4. AutoNext => UNCHANGED optimizerEvents \/ RateOptimizer
  BY DEF AutoNext, SelectAuto, StartSelected, StartPlain, AutoSearch, Judged, Observe,
     RememberObserved, ReportRated, CrashAuto, optimizer
<1> QED BY <1>1, <1>3, <1>4

\* Every behaviour of the run, with the policy and without it, keeps the invariants of the
\* search, the pipeline, the ledgers and the decision.  (_run_auto, evolve)
THEOREM AutoInvariant == AutoSpec => []AutoInv
<1>1. AutoInit => AutoInv
  <2> SUFFICES ASSUME AutoInit PROVE AutoInv
    OBVIOUS
  <2>1. SearchInv /\ EvolutionInv
    BY InitInv DEF AutoInit
  <2>2. DecisionInv
    BY DEF AutoInit, Init, DecisionInv, NoDecision, Decided
  <2>3. OptimizerCreditIsEarned
    BY <2>1, AutoAssumption DEF AutoInit, OptimizerCreditIsEarned, EvolutionInv, Scope
  <2> QED BY <2>1, <2>2, <2>3 DEF AutoInv
<1>2. AutoInv /\ [AutoNext]_autoVars => AutoInv'
  <2> SUFFICES ASSUME AutoInv, [AutoNext]_autoVars PROVE AutoInv'
    OBVIOUS
  <2>1. CASE AutoNext
    BY <2>1, AutoIsStep, EvolutionStepInv, EvolutionStepSearch, StutterInv, DecisionStep,
       OptimizerCreditStep DEF AutoInv
  <2>2. CASE UNCHANGED autoVars
    <3>1. UNCHANGED vars /\ UNCHANGED <<decision, optimizerEvents>> /\ UNCHANGED <<stage, scenario, selected>>
      BY <2>2 DEF autoVars, optimizer, vars, pipeline
    <3>2. DecisionInv' /\ OptimizerCreditIsEarned'
      BY <3>1 DEF AutoInv, DecisionInv, OptimizerCreditIsEarned, Scope, Datum
    <3> QED BY <3>1, <3>2, StutterInv DEF AutoInv
  <2> QED BY <2>1, <2>2
<1> QED BY <1>1, <1>2, PTL DEF AutoSpec

\* Durable trust is certified, whatever the evidence of the candidate and wherever executors
\* died: an independent holdout, the safety gates, and on business evidence the uncertainty
\* certificate.  (_trust_evidence_gate, _recommend_relevance_gate)
THEOREM TrustNeedsACertificate == AutoSpec => []TrustedIsCertified
<1>1. AutoInv => TrustedIsCertified
  <2> SUFFICES ASSUME AutoInv, stage \in Later, result.trusted
               PROVE  /\ result.safe /\ HoldoutIndependent /\ result.blockers = {}
                      /\ result.business <=> Business(data)
                      /\ Business(data) => StatisticalBlockers = {} /\ \A e \in measured : e.holdout >= 2
    BY DEF TrustedIsCertified, Later
  <2> QED BY CertificateBlocks DEF AutoInv, EvolutionInv, PipelineInv, Certified, HoldoutIndependent
<1> QED BY <1>1, AutoInvariant, PTL

\* What an evolve action reports is in the credit ledger with every arm and segment that it
\* decided on, also when its executor died and the result is the stored one of an earlier
\* execution.  (record_evolution_result, remember_strategy, invocation_result)
THEOREM ReportsAreCredited == AutoSpec => []ResultsAreCredited
<1>1. AutoInv => ResultsAreCredited
  BY CreditsAre DEF AutoInv, EvolutionInv, LedgerInv, ResultsAreCredited
<1> QED BY <1>1, AutoInvariant, PTL

\* What the mechanism evidence of a run calls accepted has its credit of arms, across crashes
\* and replays.  (record_evolution_result, record_mechanism_evidence)
THEOREM LedgersAgree == AutoSpec => []LedgersAgreeOnSuccess
<1>1. AutoInv => LedgersAgreeOnSuccess
  BY DEF AutoInv, EvolutionInv, LedgerInv
<1> QED BY <1>1, AutoInvariant, PTL

\* An invocation is one trial of one backend on a surface, however often its executor died, and
\* the backend that searched has the credit.  (_run_auto, OptimizerMetaMemory.record)
THEOREM OptimizersEarnTheirCredit == AutoSpec => []OptimizerCreditIsEarned
<1>1. AutoInv => OptimizerCreditIsEarned
  BY DEF AutoInv
<1> QED BY <1>1, AutoInvariant, PTL

\* No backend evaluates more new configs than the native search of the same seeds.
\* (_optimizer_extra_budget, run_optuna, run_qlognehvi)
THEOREM BackendsShareTheBudget == AutoSpec => []BudgetParity
<1>1. AutoInv => BudgetParity
  BY DEF AutoInv, SearchInv
<1> QED BY <1>1, AutoInvariant, PTL

\* The exploration of a BoTorch search leaves the reserved acquisitions to the primary
\* objective.  (run_qlognehvi)
THEOREM ExplorationLeavesItsShare == AutoSpec => []PrimaryIsReserved
<1>1. AutoInv => PrimaryIsReserved
  BY DEF AutoInv, SearchInv
<1> QED BY <1>1, AutoInvariant, PTL

-----------------------------------------------------------------------------
(* Sums.                                                                    *)

\* A non-empty set of naturals has a least element.
LEMMA LeastExists ==
    ASSUME NEW S \in SUBSET Nat, S # {}
    PROVE  \E t \in S : \A u \in S : t <= u
<1> DEFINE R == OpToRel(<, Nat)
<1> HIDE DEF R
<1>1. IsWellFoundedOn(R, Nat)
  BY NatLessThanWellFounded DEF R
<1>2. PICK t \in S : \A u \in S : ~(<<u, t>> \in R)
  BY <1>1, WFMin
<1>3. \A u \in S : ~(u < t)
  BY <1>2 DEF OpToRel, R
<1> QED BY <1>3

\* h is what sums f up, over every set of its arguments.
Pick(s) == CHOOSE x \in s : TRUE
Step(f, h, s) == IF s = {} THEN 0 ELSE f[Pick(s)] + h[s \ {Pick(s)}]
Sums(f, h) == h = [s \in SUBSET DOMAIN f |-> Step(f, h, s)]

LEMMA OneLess ==
    ASSUME NEW S, IsFiniteSet(S), NEW s \in SUBSET S
    PROVE  /\ IsFiniteSet(s) /\ Cardinality(s) \in Nat /\ (s = {} <=> Cardinality(s) = 0)
           /\ s # {} => /\ Pick(s) \in s /\ s \ {Pick(s)} \in SUBSET S
                        /\ Cardinality(s \ {Pick(s)}) = Cardinality(s) - 1
<1>1. IsFiniteSet(s)
  BY FS_Subset
<1>2. Cardinality(s) \in Nat /\ (s = {} <=> Cardinality(s) = 0)
  BY <1>1, FS_CardinalityType, FS_EmptySet
<1>3. s # {} => Pick(s) \in s
  BY DEF Pick
<1> QED BY <1>1, <1>2, <1>3, FS_RemoveElement

LEMMA SumsExist ==
    ASSUME NEW S, IsFiniteSet(S), NEW f \in [S -> Int]
    PROVE  \E h \in [SUBSET S -> Int] : Sums(f, h)
<1> DEFINE Upto(n, h) == \A s \in SUBSET S : Cardinality(s) <= n => h[s] = Step(f, h, s)
           bad == {n \in Nat : ~ \E h \in [SUBSET S -> Int] : Upto(n, h)}
<1>0. ASSUME NEW s \in SUBSET S
      PROVE  /\ Cardinality(s) \in Nat /\ (s = {} <=> Cardinality(s) = 0)
             /\ s # {} => /\ Pick(s) \in s /\ s \ {Pick(s)} \in SUBSET S
                          /\ Cardinality(s \ {Pick(s)}) = Cardinality(s) - 1
  BY OneLess
<1>1. ASSUME bad # {} PROVE FALSE
  <2>1. PICK n \in bad : \A m \in bad : n <= m
    <3>1. bad \in SUBSET Nat
      OBVIOUS
    <3> HIDE DEF bad
    <3> QED BY <1>1, <3>1, LeastExists
  <2>2. n # 0
    <3> SUFFICES ASSUME n = 0 PROVE FALSE
      OBVIOUS
    <3> DEFINE z == [s \in SUBSET S |-> 0]
    <3>1. z \in [SUBSET S -> Int]
      OBVIOUS
    <3>2. ASSUME NEW s \in SUBSET S, Cardinality(s) <= 0 PROVE s = {}
      <4>0. Cardinality(s) \in Nat
        BY <1>0
      <4>1. Cardinality(s) = 0
        BY <3>2, <4>0
      <4> QED BY <1>0, <4>1
    <3>3. Upto(0, z)
      BY <3>2 DEF Step
    <3> HIDE DEF z
    <3> QED BY <3>1, <3>3
  <2>3. n \in Nat /\ n - 1 \in Nat /\ n - 1 \notin bad
    <3>1. n \in Nat
      BY <2>1
    <3>2. n - 1 \in Nat /\ ~(n <= n - 1)
      BY <2>2, <3>1
    <3> HIDE DEF bad
    <3> QED BY <2>1, <3>1, <3>2
  <2>4. PICK h \in [SUBSET S -> Int] : Upto(n - 1, h)
    BY <2>3
  <2> DEFINE g == [s \in SUBSET S |-> IF Cardinality(s) = n THEN Step(f, h, s) ELSE h[s]]
  <2>5. g \in [SUBSET S -> Int]
    <3>1. ASSUME NEW s \in SUBSET S PROVE Step(f, h, s) \in Int
      <4>1. CASE s = {}
        BY <4>1 DEF Step
      <4>2. CASE s # {}
        <5>1. Pick(s) \in S /\ s \ {Pick(s)} \in SUBSET S
          BY <1>0, <4>2
        <5>2. f[Pick(s)] \in Int /\ h[s \ {Pick(s)}] \in Int
          BY <5>1
        <5> QED BY <4>2, <5>2 DEF Step
      <4> QED BY <4>1, <4>2
    <3> QED BY <3>1
  <2>6. ASSUME NEW s \in SUBSET S, Cardinality(s) <= n
        PROVE  g[s] = Step(f, g, s)
    <3>1. CASE s = {}
      <4>1. Cardinality(s) = 0
        BY <1>0, <3>1
      <4>2. h[s] = Step(f, h, s)
        BY <2>3, <2>4, <4>1
      <4> QED BY <2>2, <3>1, <4>1, <4>2 DEF Step
    <3>2. CASE s # {}
      <4>1. /\ s \ {Pick(s)} \in SUBSET S /\ Cardinality(s) \in Nat
            /\ Cardinality(s \ {Pick(s)}) = Cardinality(s) - 1
        BY <3>2, <1>0
      <4>2. Cardinality(s \ {Pick(s)}) # n
        BY <2>3, <2>6, <4>1
      <4>3. g[s \ {Pick(s)}] = h[s \ {Pick(s)}]
        BY <4>1, <4>2
      <4>4. g[s] = Step(f, h, s)
        BY <2>3, <2>4, <2>6, <4>1
      <4> HIDE DEF g
      <4> QED BY <3>2, <4>3, <4>4 DEF Step
    <3> QED BY <3>1, <3>2
  <2> HIDE DEF g
  <2> QED BY <2>5, <2>6
<1>2. Cardinality(S) \in Nat /\ \A s \in SUBSET S : Cardinality(s) <= Cardinality(S)
  BY FS_CardinalityType, FS_Subset
<1>3. PICK h \in [SUBSET S -> Int] : Upto(Cardinality(S), h)
  BY <1>1, <1>2
<1>4. h = [s \in SUBSET S |-> Step(f, h, s)]
  BY <1>2, <1>3
<1> QED BY <1>4 DEF Sums

\* A sum of integers is one; of nothing but zeros it is zero; and of naturals it is no less
\* than each.
LEMMA SumIs ==
    ASSUME NEW S, IsFiniteSet(S), NEW f \in [S -> Int]
    PROVE  /\ SumOf(f) \in Int
           /\ (\A x \in S : f[x] = 0) => SumOf(f) = 0
           /\ (\A x \in S : f[x] >= 0) => SumOf(f) >= 0 /\ \A x \in S : SumOf(f) >= f[x]
<1> DEFINE g == CHOOSE h : Sums(f, h)
<1>1. SumOf(f) = g[S]
  BY DEF SumOf, MapThenSumSet, MapThenFoldSet, Sums, Step, Pick
<1>2. Sums(f, g)
  <2>1. \E h : Sums(f, h)
    BY SumsExist
  <2> QED BY <2>1
<1> HIDE DEF g
<1> DEFINE Good(s) == /\ g[s] \in Int
                      /\ (\A x \in S : f[x] = 0) => g[s] = 0
                      /\ (\A x \in S : f[x] >= 0) => g[s] >= 0 /\ \A x \in s : g[s] >= f[x]
           bad == {n \in Nat : \E s \in SUBSET S : Cardinality(s) = n /\ ~Good(s)}
<1>3. ASSUME bad # {} PROVE FALSE
  <2>1. PICK n \in bad : \A m \in bad : n <= m
    <3>1. bad \in SUBSET Nat
      OBVIOUS
    <3> HIDE DEF bad
    <3> QED BY <1>3, <3>1, LeastExists
  <2>2. PICK s \in SUBSET S : Cardinality(s) = n /\ ~Good(s)
    BY <2>1
  <2>3. g[s] = Step(f, g, s)
    BY <1>2 DEF Sums
  <2>4. s # {}
    BY <2>2, <2>3 DEF Step
  <2>5. PICK p \in s : p = Pick(s)
    BY <2>4, OneLess
  <2>6. s \ {p} \in SUBSET S /\ Cardinality(s \ {p}) = n - 1 /\ n - 1 \in Nat
    BY <2>2, <2>4, <2>5, OneLess
  <2>7. Good(s \ {p})
    <3>1. n - 1 \notin bad
      BY <2>1, <2>6
    <3> QED BY <2>6, <3>1
  <2>8. f[p] \in Int /\ g[s] = f[p] + g[s \ {p}] /\ \A x \in s : x = p \/ x \in s \ {p}
    BY <2>3, <2>4, <2>5 DEF Step
  <2>9. g[s] \in Int /\ ((\A x \in S : f[x] = 0) => g[s] = 0)
    BY <2>7, <2>8
  <2>10. ASSUME \A x \in S : f[x] >= 0
         PROVE  g[s] >= 0 /\ \A x \in s : g[s] >= f[x]
    <3>1. /\ f[p] >= 0 /\ g[s \ {p}] \in Int /\ g[s \ {p}] >= 0
          /\ \A x \in s \ {p} : g[s \ {p}] >= f[x]
      BY <2>7, <2>10
    <3>2. ASSUME NEW x \in s PROVE g[s] >= f[x]
      <4>1. f[x] \in Int
        OBVIOUS
      <4>2. CASE x = p
        BY <2>8, <3>1, <4>1, <4>2
      <4>3. CASE x \in s \ {p}
        BY <2>8, <3>1, <4>1, <4>3
      <4> QED BY <2>8, <4>2, <4>3
    <3>3. g[s] >= 0
      BY <2>8, <3>1
    <3> QED BY <3>2, <3>3
  <2> QED BY <2>2, <2>9, <2>10
<1>4. Good(S)
  BY <1>3, FS_CardinalityType
<1> QED BY <1>1, <1>4

-----------------------------------------------------------------------------
(* Quotients, roots and logarithms.                                         *)

LEMMA NatQuotient ==
    ASSUME NEW a \in Nat, NEW b \in Nat, b > 0
    PROVE  a \div b \in Nat /\ a \div b <= a /\ b * (a \div b) <= a
<1>1. a \div b \in Int /\ a \div b >= 0
  OBVIOUS
<1>2. a \div b <= a
  OBVIOUS
<1>3. b * (a \div b) <= a
  OBVIOUS
<1> QED BY <1>1, <1>2, <1>3

LEMMA RootIs == ASSUME NEW n \in Nat PROVE Root(n) \in Nat
<1> DEFINE over == {r \in Nat : n < (r + 1) * (r + 1)}
<1>1. over \in SUBSET Nat /\ n \in over
  <2>1. n < (n + 1) * (n + 1)
    OBVIOUS
  <2> QED BY <2>1
<1>2. PICK r \in over : \A q \in over : r <= q
  <2> HIDE DEF over
  <2> QED BY <1>1, LeastExists
<1>3. r \in Nat /\ n < (r + 1) * (r + 1) /\ r <= n
  BY <1>1, <1>2
<1>4. r * r <= n
  <2>1. CASE r = 0
    BY <2>1
  <2>2. CASE r # 0
    <3>1. r - 1 \in Nat /\ r - 1 \notin over
      BY <1>2, <1>3, <2>2
    <3>2. ~(n < ((r - 1) + 1) * ((r - 1) + 1))
      BY <3>1
    <3>3. (r - 1) + 1 = r
      BY <1>3
    <3> QED BY <1>3, <3>2, <3>3
  <2> QED BY <2>1, <2>2
<1>5. r \in 0 .. n
  BY <1>3
<1>6. Root(n) \in 0 .. n
  BY <1>3, <1>4, <1>5 DEF Root
<1> QED BY <1>6

LEMMA LogIs == ASSUME NEW n \in Nat, n > 1 PROVE Log(n) \in Nat
<1> DEFINE f == [k \in 1 .. n |-> 1000000 \div k]
<1>1. f \in [1 .. n -> Int] /\ f[1] = 1000000 /\ \A k \in 1 .. n : f[k] >= 0
  <2>1. ASSUME NEW k \in 1 .. n PROVE 1000000 \div k \in Nat
    BY NatQuotient
  <2>2. 1000000 \div 1 = 1000000
    OBVIOUS
  <2>3. 1 \in 1 .. n
    OBVIOUS
  <2> QED BY <2>1, <2>2, <2>3
<1>2. SumOf(f) \in Int /\ SumOf(f) >= 1000000
  <2>1. IsFiniteSet(1 .. n) /\ 1 \in 1 .. n
    BY FS_Interval
  <2> HIDE DEF f
  <2> QED BY <1>1, <2>1, SumIs
<1>3. 500000 \div n \in Nat /\ 500000 \div n <= 250000
  <2>1. PICK q \in Nat : q = 500000 \div n /\ n * q <= 500000
    BY NatQuotient
  <2>2. 2 * q <= n * q
    OBVIOUS
  <2>3. q <= 250000
    BY <2>1, <2>2
  <2> QED BY <2>1, <2>3
<1>4. n * n \in Nat /\ n * n > 0
  OBVIOUS
<1> DEFINE m == n * n
<1> HIDE DEF m
<1>5. 83333 \div m \in Nat /\ (8333 \div m) \div m \in Nat /\ (8333 \div m) \div m <= 8333
  <2>0. m \in Nat /\ m > 0
    BY <1>4 DEF m
  <2>1. PICK l \in Nat : l = 8333 \div m /\ l <= 8333
    BY <2>0, NatQuotient
  <2>2. l \div m \in Nat /\ l \div m <= l
    BY <2>0, NatQuotient
  <2>3. 83333 \div m \in Nat
    BY <2>0, NatQuotient
  <2> QED BY <2>1, <2>2, <2>3
<1> DEFINE s == SumOf(f)  h == 500000 \div n  i == 83333 \div m  j == (8333 \div m) \div m
<1>6. s \in Int /\ s >= 1000000 /\ h \in Nat /\ h <= 250000 /\ i \in Nat /\ j \in Nat /\ j <= 8333
  BY <1>2, <1>3, <1>5
<1> HIDE DEF f, s, h, i, j
<1>7. s - 577216 - h + i - j + 500 \in Nat
  BY <1>6
<1>8. (s - 577216 - h + i - j + 500) \div 1000 \in Nat
  BY <1>7, NatQuotient
<1> QED BY <1>8 DEF Log, f, s, h, i, j, m

-----------------------------------------------------------------------------
(* The best of the backends.                                                *)

Four == {"native", "optuna", "optuna_motpe", "qlognehvi"}
Place == [native |-> 1, optuna |-> 2, optuna_motpe |-> 3, qlognehvi |-> 4]

\* Under the values v, b is at least as good as o, and preferred when they are equal.
Beats(v, b, o) == v[o] < v[b] \/ (v[o] = v[b] /\ Place[b] <= Place[o])
Winner(S, v, b) == b \in S /\ \A o \in S : Beats(v, b, o)

LEMMA Places == /\ Place \in [Four -> 1 .. 4]
                /\ \A b \in Four : FixedBackends[Place[b]] = b
                /\ \A i \in 1 .. 4 : FixedBackends[i] \in Four /\ Place[FixedBackends[i]] = i
<1>1. \A i \in 1 .. 4 : i = 1 \/ i = 2 \/ i = 3 \/ i = 4
  OBVIOUS
<1>2. /\ Place["native"] = 1 /\ Place["optuna"] = 2 /\ Place["optuna_motpe"] = 3
      /\ Place["qlognehvi"] = 4
  BY DEF Place
<1>3. /\ FixedBackends[1] = "native" /\ FixedBackends[2] = "optuna"
      /\ FixedBackends[3] = "optuna_motpe" /\ FixedBackends[4] = "qlognehvi"
  BY DEF FixedBackends
<1>4. Place \in [Four -> 1 .. 4]
  BY DEF Place, Four
<1> QED BY <1>1, <1>2, <1>3, <1>4 DEF Four

LEMMA OneWinner ==
    ASSUME NEW S \in SUBSET Four, NEW v \in [Four -> Int], NEW a, NEW b, Winner(S, v, a), Winner(S, v, b)
    PROVE  a = b
<1>1. a \in Four /\ b \in Four /\ Beats(v, a, b) /\ Beats(v, b, a)
  BY DEF Winner
<1>2. v[a] \in Int /\ v[b] \in Int /\ Place[a] \in 1 .. 4 /\ Place[b] \in 1 .. 4
  BY <1>1, Places
<1>3. Place[a] = Place[b]
  BY <1>1, <1>2 DEF Beats
<1> QED BY <1>1, <1>3, Places

LEMMA BeatsOrder ==
    ASSUME NEW v \in [Four -> Int], NEW a \in Four, NEW b \in Four, NEW c \in Four
    PROVE  /\ Beats(v, a, a) /\ (Beats(v, a, b) \/ Beats(v, b, a))
           /\ Beats(v, a, b) /\ Beats(v, b, c) => Beats(v, a, c)
<1>1. /\ v[a] \in Int /\ v[b] \in Int /\ v[c] \in Int
      /\ Place[a] \in 1 .. 4 /\ Place[b] \in 1 .. 4 /\ Place[c] \in 1 .. 4
  BY Places
<1> QED BY <1>1 DEF Beats

LEMMA SomeWinner ==
    ASSUME NEW S \in SUBSET Four, "native" \in S, NEW v \in [Four -> Int]
    PROVE  \E b \in S : Winner(S, v, b)
<1> DEFINE Up(T) == \E b \in S \cap T : \A o \in S \cap T : Beats(v, b, o)
<1>1. ASSUME NEW T \in SUBSET Four, NEW x \in Four, Up(T) PROVE Up(T \cup {x})
  <2>1. PICK b \in S \cap T : \A o \in S \cap T : Beats(v, b, o)
    BY <1>1
  <2>2. CASE x \notin S
    <3>1. S \cap (T \cup {x}) = S \cap T
      BY <2>2
    <3> QED BY <1>1, <3>1
  <2>3. CASE x \in S /\ Beats(v, b, x)
    <3>1. b \in S \cap (T \cup {x})
      BY <2>1
    <3>2. \A o \in S \cap (T \cup {x}) : Beats(v, b, o)
      BY <2>1, <2>3
    <3> QED BY <3>1, <3>2
  <2>4. CASE x \in S /\ Beats(v, x, b)
    <3>1. x \in S \cap (T \cup {x})
      BY <2>4
    <3>2. \A o \in S \cap (T \cup {x}) : Beats(v, x, o)
      BY <2>1, <2>4, BeatsOrder
    <3> QED BY <3>1, <3>2
  <2>5. Beats(v, b, x) \/ Beats(v, x, b)
    BY <2>1, BeatsOrder
  <2> QED BY <2>2, <2>3, <2>4, <2>5
<1>2. Up({"native"})
  <2>1. Beats(v, "native", "native")
    BY BeatsOrder DEF Four
  <2> QED BY <2>1
<1> HIDE DEF Up
<1>3. Up({"native"} \cup {"optuna"})
  BY <1>1, <1>2 DEF Four
<1>4. Up(({"native"} \cup {"optuna"}) \cup {"optuna_motpe"})
  BY <1>1, <1>3 DEF Four
<1>5. Up((({"native"} \cup {"optuna"}) \cup {"optuna_motpe"}) \cup {"qlognehvi"})
  BY <1>1, <1>4 DEF Four
<1>6. S \cap ((({"native"} \cup {"optuna"}) \cup {"optuna_motpe"}) \cup {"qlognehvi"}) = S
  BY DEF Four
<1> QED BY <1>5, <1>6 DEF Up, Winner

\* What wins by the values is the best of them.
LEMMA WinnerIsBest ==
    ASSUME NEW S \in SUBSET Four, NEW v \in [Four -> Int], NEW b, Winner(S, v, b)
    PROVE  BestOf([x \in S |-> v[x]]) = b
<1> DEFINE value == [x \in S |-> v[x]]
           best == {i \in 1 .. 4 :
                      /\ FixedBackends[i] \in DOMAIN value
                      /\ \A x \in DOMAIN value : value[x] <= value[FixedBackends[i]]}
<1>1. b \in S /\ b \in Four /\ Place[b] \in 1 .. 4 /\ FixedBackends[Place[b]] = b
  BY Places DEF Winner
<1>2. \A x \in S : v[x] <= v[b]
  BY <1>1 DEF Winner, Beats
<1>3. Place[b] \in best
  BY <1>1, <1>2
<1>4. ASSUME NEW i \in best PROVE Place[b] <= i
  <2>1. FixedBackends[i] \in S /\ v[b] <= v[FixedBackends[i]] /\ i \in 1 .. 4
    BY <1>1
  <2>2. Beats(v, b, FixedBackends[i]) /\ v[b] \in Int /\ v[FixedBackends[i]] \in Int
    BY <1>1, <2>1 DEF Winner
  <2>3. Place[b] <= Place[FixedBackends[i]]
    BY <2>1, <2>2 DEF Beats
  <2> QED BY <2>1, <2>3, Places
<1>5. Min(best) = Place[b]
  <2>1. best \subseteq Int
    OBVIOUS
  <2> HIDE DEF best
  <2>2. \A x \in best : (\A y \in best : x <= y) => x = Place[b]
    BY <1>1, <1>3, <1>4, <2>1
  <2> QED BY <1>3, <1>4, <2>2 DEF Min
<1>6. BestOf(value) = FixedBackends[Min(best)]
  BY DEF BestOf
<1> HIDE DEF best
<1> QED BY <1>1, <1>5, <1>6

-----------------------------------------------------------------------------
(* The selection and its preflight.                                         *)

Scores(c, h) == [b \in Four |-> BackendScore(b, c, h)]
PriorScores(c) == [b \in Four |-> PriorScore(b, c)]

LEMMA SelectedWins ==
    ASSUME NEW S \in SUBSET Four, NEW c, NEW h, Scores(c, h) \in [Four -> Int]
    PROVE  Winner(S \cup {"native"}, Scores(c, h), SelectedBackend(S, c, h))
<1> DEFINE T == S \cup {"native"}
           v == Scores(c, h)
<1>1. T \in SUBSET Four /\ "native" \in T
  BY DEF Four
<1>2. SelectedBackend(S, c, h) = BestOf([x \in T |-> v[x]])
  <2>1. \A x \in T : v[x] = BackendScore(x, c, h)
    BY <1>1 DEF Scores
  <2>2. [x \in T |-> v[x]] = [x \in T |-> BackendScore(x, c, h)]
    BY <2>1
  <2> QED BY <2>2 DEF SelectedBackend
<1> HIDE DEF T, v
<1>3. v \in [Four -> Int]
  BY DEF v
<1>4. PICK b \in T : Winner(T, v, b)
  BY <1>1, <1>3, SomeWinner
<1>5. BestOf([x \in T |-> v[x]]) = b
  BY <1>1, <1>3, <1>4, WinnerIsBest
<1> QED BY <1>2, <1>4, <1>5 DEF T, v

LEMMA FavouriteWins ==
    ASSUME NEW S \in SUBSET Four, NEW c, PriorScores(c) \in [Four -> Int]
    PROVE  Winner(S \cup {"native"}, PriorScores(c), PriorFavourite(S, c))
<1> DEFINE T == S \cup {"native"}
           v == PriorScores(c)
<1>1. T \in SUBSET Four /\ "native" \in T
  BY DEF Four
<1>2. PriorFavourite(S, c) = BestOf([x \in T |-> v[x]])
  <2>1. \A x \in T : v[x] = PriorScore(x, c)
    BY <1>1 DEF PriorScores
  <2>2. [x \in T |-> v[x]] = [x \in T |-> PriorScore(x, c)]
    BY <2>1
  <2> QED BY <2>2 DEF PriorFavourite
<1> HIDE DEF T, v
<1>3. v \in [Four -> Int]
  BY DEF v
<1>4. PICK b \in T : Winner(T, v, b)
  BY <1>1, <1>3, SomeWinner
<1>5. BestOf([x \in T |-> v[x]]) = b
  BY <1>1, <1>3, <1>4, WinnerIsBest
<1> QED BY <1>2, <1>4, <1>5 DEF T, v

\* The preflight ends with the best of the backends that load, whatever is found besides.
LEMMA PreflightSelects ==
    ASSUME NEW found \in SUBSET Four, NEW loads \in SUBSET found, "native" \in loads,
           NEW c, NEW h, Scores(c, h) \in [Four -> Int]
    PROVE  AutoBackend(found, loads, c, h) = SelectedBackend(loads, c, h)
<1> DEFINE first == SelectedBackend(loads, c, h)
           failures == PreflightFailures(found, loads, c, h)
           v == Scores(c, h)
           Sel(S) == SelectedBackend(S, c, h)
<1>1. Winner(loads, v, first)
  <2>1. loads \in SUBSET Four /\ loads \cup {"native"} = loads
    OBVIOUS
  <2> QED BY <2>1, SelectedWins
<1>2. first \in loads /\ first \in Four /\ "native" \in Four
  BY <1>1 DEF Winner
<1>3. failures = {b \in found \ loads : Sel({b, first}) = b}
  BY DEF PreflightFailures
<1>4. v \in [Four -> Int]
  OBVIOUS
<1>5. \A S \in SUBSET Four : Winner(S \cup {"native"}, v, Sel(S))
  <2> TAKE S \in SUBSET Four
  <2> QED BY SelectedWins
<1>6. AutoBackend(found, loads, c, h) = Sel(found \ failures)
  BY DEF AutoBackend
<1>7. first = Sel(loads)
  OBVIOUS
<1> HIDE DEF first, failures, v, Sel
<1>8. ASSUME NEW b \in found \ loads, b \notin failures PROVE Beats(v, first, b)
  <2> DEFINE x == Sel({b, first})
  <2>1. Winner({b, first} \cup {"native"}, v, x) /\ x # b
    BY <1>2, <1>3, <1>5, <1>8
  <2>2. x = first \/ x = "native"
    BY <2>1 DEF Winner
  <2>3. Beats(v, x, b) /\ Beats(v, first, "native") /\ Beats(v, first, first)
    BY <1>1, <1>2, <2>1 DEF Winner
  <2> HIDE DEF x
  <2>4. x \in Four /\ b \in Four
    BY <1>2, <2>2
  <2>5. Beats(v, first, x)
    BY <2>2, <2>3
  <2> QED BY <1>2, <1>4, <2>3, <2>4, <2>5, BeatsOrder
<1>9. Winner(found \ failures, v, first)
  <2>1. first \in found \ failures
    BY <1>2, <1>3
  <2>2. ASSUME NEW o \in found \ failures PROVE Beats(v, first, o)
    BY <1>1, <1>8, <2>2 DEF Winner
  <2> QED BY <2>1, <2>2 DEF Winner
<1>10. Winner(found \ failures, v, Sel(found \ failures))
  <2>1. (found \ failures) \cup {"native"} = found \ failures
    BY <1>3
  <2>2. found \ failures \in SUBSET Four
    OBVIOUS
  <2> QED BY <1>5, <2>1, <2>2
<1>11. Sel(found \ failures) = first
  BY <1>4, <1>9, <1>10, OneWinner
<1> QED BY <1>11, <1>6, <1>7 DEF Sel

-----------------------------------------------------------------------------
(* The values of the backends.                                              *)

Ledger(h) == IsFiniteSet(h) /\ \A x \in h : x.count \in Nat /\ x.utility \in Nat

\* p adds an integer for every backend, and so does every member of the tuple g.
Valued(p) == \A b \in Four : p[b] \in Int
ValuedTuple(g, n) == DOMAIN g = 1 .. n /\ \A i \in 1 .. n : Valued(g[i])

LEMMA AddsIs ==
    ASSUME NEW m \in Int, NEW n \in Int, NEW o \in Int, NEW p \in Int
    PROVE  Valued(Adds(m, n, o, p))
<1> DEFINE a == Adds(m, n, o, p)
<1>1. a["native"] = m /\ a["optuna"] = n /\ a["optuna_motpe"] = o /\ a["qlognehvi"] = p
  BY DEF Adds
<1> HIDE DEF a
<1>2. \A b \in Four : a[b] \in {m, n, o, p}
  BY <1>1 DEF Four
<1>3. Valued(a)
  BY <1>2 DEF Valued
<1> QED BY <1>3 DEF a

LEMMA PriorIs == ASSUME NEW c PROVE PriorScores(c) \in [Four -> Int]
<1> DEFINE priors == Priors(c)
           shapes == IF Informative(c.landscape) THEN LandscapePriors(c) ELSE <<>>
<1>0. /\ -2 \in Int /\ -3 \in Int /\ -4 \in Int /\ -5 \in Int /\ -7 \in Int /\ -8 \in Int
      /\ -1 \in Int /\ -10 \in Int /\ -12 \in Int /\ -18 \in Int /\ -24 \in Int /\ -25 \in Int
      /\ -34 \in Int
  OBVIOUS
<1> DEFINE Table == {Adds(0, 0, 0, 0), Adds(30, 2, -12, -34), Adds(-2, 14, -2, 0), Adds(-8, 5, 7, 12),
                     Adds(-12, 0, 6, 16), Adds(6, 10, 5, -25), Adds(0, 3, 3, 4), Adds(-4, 6, 4, -5),
                     Adds(0, 8, 5, -8), Adds(0, 2, 2, 3), Adds(5, 3, -2, -18), Adds(0, 2, 3, 5),
                     Adds(40, 62, 61, 68), Adds(-3, -3, 9, 8), Adds(-3, -1, 4, 12),
                     Adds(-2, 1, 3, 12), Adds(3, 8, 2, -24), Adds(46, -8, -7, -4),
                     Adds(-10, 10, 4, -4), Adds(0, 2, 1, -3), Adds(-2, 0, 2, 8), Adds(-3, 0, 4, 4)}
<1>1. \A p \in Table : Valued(p)
  <2>1. Valued(Adds(0, 0, 0, 0))            BY <1>0, AddsIs
  <2>2. Valued(Adds(30, 2, -12, -34))       BY <1>0, AddsIs
  <2>3. Valued(Adds(-2, 14, -2, 0))         BY <1>0, AddsIs
  <2>4. Valued(Adds(-8, 5, 7, 12))          BY <1>0, AddsIs
  <2>5. Valued(Adds(-12, 0, 6, 16))         BY <1>0, AddsIs
  <2>6. Valued(Adds(6, 10, 5, -25))         BY <1>0, AddsIs
  <2>7. Valued(Adds(0, 3, 3, 4))            BY <1>0, AddsIs
  <2>8. Valued(Adds(-4, 6, 4, -5))          BY <1>0, AddsIs
  <2>9. Valued(Adds(0, 8, 5, -8))           BY <1>0, AddsIs
  <2>10. Valued(Adds(0, 2, 2, 3))           BY <1>0, AddsIs
  <2>11. Valued(Adds(5, 3, -2, -18))        BY <1>0, AddsIs
  <2>12. Valued(Adds(0, 2, 3, 5))           BY <1>0, AddsIs
  <2>13. Valued(Adds(40, 62, 61, 68))       BY <1>0, AddsIs
  <2>14. Valued(Adds(-3, -3, 9, 8))         BY <1>0, AddsIs
  <2>15. Valued(Adds(-3, -1, 4, 12))        BY <1>0, AddsIs
  <2>16. Valued(Adds(-2, 1, 3, 12))         BY <1>0, AddsIs
  <2>17. Valued(Adds(3, 8, 2, -24))         BY <1>0, AddsIs
  <2>18. Valued(Adds(46, -8, -7, -4))       BY <1>0, AddsIs
  <2>19. Valued(Adds(-10, 10, 4, -4))       BY <1>0, AddsIs
  <2>20. Valued(Adds(0, 2, 1, -3))          BY <1>0, AddsIs
  <2>21. Valued(Adds(-2, 0, 2, 8))          BY <1>0, AddsIs
  <2>22. Valued(Adds(-3, 0, 4, 4))          BY <1>0, AddsIs
  <2> QED BY <2>1, <2>2, <2>3, <2>4, <2>5, <2>6, <2>7, <2>8, <2>9, <2>10, <2>11, <2>12,
             <2>13, <2>14, <2>15, <2>16, <2>17, <2>18, <2>19, <2>20, <2>21, <2>22
<1>2. ValuedTuple(priors, 8)
  <2> DEFINE A == Adds(40, 62, 61, 68)  B == BudgetPrior(c.budget)
             C == IF Objectives >= 2 THEN Adds(-3, -3, 9, 8) ELSE None
             D == IF Constraints > 0 THEN Adds(-3, -1, 4, 12) ELSE None
             E == ContinuousPrior(c.continuous)  F == CardinalityPrior(c.cardinality)
             G == IF c.route = "production" THEN Adds(-2, 1, 3, 12) ELSE Adds(3, 8, 2, -24)
             H == WarmPrior(c.warm)
  <2>1. B \in Table
    BY DEF BudgetPrior
  <2>2. E \in Table
    BY DEF ContinuousPrior, None
  <2>3. F \in Table
    BY DEF CardinalityPrior, None
  <2>4. H \in Table
    BY DEF WarmPrior, None
  <2>5. A \in Table /\ C \in Table /\ D \in Table /\ G \in Table
    BY DEF None
  <2>7. priors = <<A, B, C, D, E, F, G, H>>
    BY DEF Priors
  <2> HIDE DEF A, B, C, D, E, F, G, H, priors, Table
  <2>8. DOMAIN priors = 1 .. 8
    BY <2>7
  <2>9. \A i \in 1 .. 8 : priors[i] \in {A, B, C, D, E, F, G, H}
    BY <2>7
  <2> QED BY <1>1, <2>1, <2>2, <2>3, <2>4, <2>5, <2>8, <2>9 DEF ValuedTuple
<1>3. PICK n \in Nat : ValuedTuple(shapes, n)
  <2>1. CASE ~Informative(c.landscape)
    <3>1. shapes = <<>>
      BY <2>1
    <3> HIDE DEF shapes
    <3>2. DOMAIN shapes = 1 .. 0
      BY <3>1
    <3> QED BY <3>2 DEF ValuedTuple
  <2>2. CASE Informative(c.landscape)
    <3> DEFINE l == c.landscape
               production == c.route = "production"
               A == IF c.budget <= 12 /\ ClearGeometry(l) THEN Adds(46, -8, -7, -4) ELSE None
               B == IF c.budget <= 12 /\ DifficultGeometry(l) THEN Adds(-10, 10, 4, -4) ELSE None
               C == IF ~production /\ l.roughness = "rugged" THEN Adds(0, 2, 1, -3) ELSE None
               D == IF /\ production /\ c.budget >= 13
                       /\ l.span = "compact" /\ l.dispersion = "stable"
                    THEN Adds(-2, 0, 2, 8) ELSE None
               E == IF c.budget >= 13 /\ Objectives >= 2 /\ l.feasible = "sparse"
                    THEN Adds(-3, 0, 4, 4) ELSE None
    <3>2. A \in Table /\ B \in Table /\ C \in Table /\ D \in Table /\ E \in Table
      BY DEF None
    <3>3. shapes = <<A, B, C, D, E>>
      BY <2>2 DEF LandscapePriors
    <3> HIDE DEF A, B, C, D, E, shapes, Table
    <3>4. DOMAIN shapes = 1 .. 5 /\ \A i \in 1 .. 5 : shapes[i] \in {A, B, C, D, E}
      BY <3>3
    <3>5. ValuedTuple(shapes, 5)
      BY <1>1, <3>2, <3>4 DEF ValuedTuple
    <3> QED BY <3>5
  <2> QED BY <2>1, <2>2
<1>4. ASSUME NEW b \in Four PROVE PriorScore(b, c) \in Int
  <2>1. PriorScore(b, c) = SumOf([i \in DOMAIN priors |-> priors[i][b]])
                           + SumOf([i \in DOMAIN shapes |-> shapes[i][b]])
    BY DEF PriorScore
  <2> HIDE DEF priors, shapes, Table
  <2>2. ASSUME NEW k \in Nat, NEW g, ValuedTuple(g, k)
        PROVE  SumOf([i \in DOMAIN g |-> g[i][b]]) \in Int
    <3>1. IsFiniteSet(1 .. k) /\ DOMAIN g = 1 .. k
      BY <2>2, FS_Interval DEF ValuedTuple
    <3>2. [i \in DOMAIN g |-> g[i][b]] \in [1 .. k -> Int]
      BY <2>2, <3>1 DEF ValuedTuple, Valued
    <3> QED BY <3>1, <3>2, SumIs
  <2>3. SumOf([i \in DOMAIN priors |-> priors[i][b]]) \in Int
    BY <1>2, <2>2
  <2>4. SumOf([i \in DOMAIN shapes |-> shapes[i][b]]) \in Int
    BY <1>3, <2>2
  <2> QED BY <2>1, <2>3, <2>4
<1> QED BY <1>4 DEF PriorScores

LEMMA BucketsAreFinite == IsFiniteSet(Buckets)
<1>1. /\ IsFiniteSet({})
      /\ Buckets = {} \cup {"rows"} \cup {"span"} \cup {"roughness"} \cup {"dispersion"}
                     \cup {"feasible"} \cup {"categorical"}
  BY FS_EmptySet DEF Buckets
<1> QED BY <1>1, FS_AddElement

LEMMA SimilarityIs == ASSUME NEW k, NEW c PROVE Similarity(k, c) \in Nat
<1>1. BaseSimilarity(k, c) \in Nat
  BY DEF BaseSimilarity
<1>2. ScaledSimilarity(k, c) \in Int
  <2> DEFINE known == KnownInBoth(k, c)
             same == {f \in known : k.landscape[f] = c.landscape[f]}
  <2>1. IsFiniteSet(known) /\ IsFiniteSet(same)
    <3>1. known \in SUBSET Buckets
      BY DEF KnownInBoth
    <3> HIDE DEF known
    <3>2. IsFiniteSet(known)
      BY <3>1, BucketsAreFinite, FS_Subset
    <3>3. same \in SUBSET known
      OBVIOUS
    <3> QED BY <3>2, <3>3, FS_Subset
  <2>2. Cardinality(known) \in Nat /\ Cardinality(same) \in Nat
    BY <2>1, FS_CardinalityType
  <2>3. PICK m \in Nat, n \in Nat, a \in Nat :
          m = Cardinality(known) /\ n = Cardinality(same) /\ a = BaseSimilarity(k, c)
    BY <1>1, <2>2
  <2>4. a * (35 * m + 65 * n) \in Nat /\ a * 100 \in Int
    OBVIOUS
  <2>5. m >= 2 => (a * (35 * m + 65 * n)) \div m \in Int
    BY <2>4, NatQuotient
  <2>6. ScaledSimilarity(k, c) = IF ~Informative(c.landscape) \/ m < 2 THEN a * 100
                                 ELSE (a * (35 * m + 65 * n)) \div m
    BY <2>3 DEF ScaledSimilarity
  <2> QED BY <2>4, <2>5, <2>6
<1> QED BY <1>2 DEF Similarity

\* A backend's adjustment, by its credited weight and utility and the number of all runs.
Adjusted(weight, utility, all) ==
    ((((20000 + utility) * 10000) \div (40000 + weight) - 5000) * 60) \div 100
    + SmallerOf(1200, Root((640000 * Log(all + 2)) \div ((40000 + weight) \div 10)))

LEMMA AdjustedIs ==
    ASSUME NEW weight \in Nat, NEW utility \in Nat, NEW all \in Nat
    PROVE  Adjusted(weight, utility, all) \in Int
<1>1. PICK p \in Nat : p = ((20000 + utility) * 10000) \div (40000 + weight)
  <2>1. (20000 + utility) * 10000 \in Nat /\ 40000 + weight \in Nat /\ 40000 + weight > 0
    OBVIOUS
  <2> QED BY <2>1, NatQuotient
<1>2. PICK q \in Nat : q = (40000 + weight) \div 10 /\ q > 0
  OBVIOUS
<1>3. PICK l \in Nat : l = Log(all + 2)
  <2>1. all + 2 \in Nat /\ all + 2 > 1
    OBVIOUS
  <2> QED BY <2>1, LogIs
<1>4. PICK r \in Nat : r = Root((640000 * Log(all + 2)) \div ((40000 + weight) \div 10))
  <2>1. 640000 * l \in Nat
    OBVIOUS
  <2>2. (640000 * l) \div q \in Nat
    BY <1>2, <2>1, NatQuotient
  <2> QED BY <1>2, <1>3, <2>2, RootIs
<1>5. SmallerOf(1200, r) \in Int
  BY DEF SmallerOf
<1>6. ((p - 5000) * 60) \div 100 \in Int
  OBVIOUS
<1>7. Adjusted(weight, utility, all) = ((p - 5000) * 60) \div 100 + SmallerOf(1200, r)
  BY <1>1, <1>4 DEF Adjusted
<1> QED BY <1>5, <1>6, <1>7

\* A backend without credit that counts is adjusted by the number of runs alone.
LEMMA HistoryIs ==
    ASSUME NEW b, NEW c, NEW h, Ledger(h)
    PROVE  \E all \in Nat :
             /\ all = SumOf([x \in h |-> x.count])
             /\ HistoryAdjustment(b, c, h) \in Int
             /\ (\A x \in h : x.backend = b => Similarity(x.context, c) = 0) =>
                   HistoryAdjustment(b, c, h) = Adjusted(0, 0, all)
<1> DEFINE mine == {x \in h : x.backend = b}
           counts == [x \in h |-> x.count]
           weights == [x \in mine |-> Similarity(x.context, c) * x.count]
           utilities == [x \in mine |-> (Similarity(x.context, c) * x.utility) \div 100]
<1>1. IsFiniteSet(h) /\ IsFiniteSet(mine) /\ mine \in SUBSET h
  <2>1. mine \in SUBSET h
    OBVIOUS
  <2> HIDE DEF mine
  <2> QED BY <2>1, FS_Subset DEF Ledger
<1>2. counts \in [h -> Int] /\ \A x \in h : counts[x] >= 0
  BY DEF Ledger
<1>3. ASSUME NEW x \in mine
      PROVE  /\ Similarity(x.context, c) * x.count \in Nat
             /\ (Similarity(x.context, c) * x.utility) \div 100 \in Nat
             /\ Similarity(x.context, c) = 0 =>
                   /\ Similarity(x.context, c) * x.count = 0
                   /\ (Similarity(x.context, c) * x.utility) \div 100 = 0
  <2>1. PICK m \in Nat, n \in Nat, u \in Nat :
          m = Similarity(x.context, c) /\ n = x.count /\ u = x.utility
    BY SimilarityIs DEF Ledger
  <2>2. m * n \in Nat /\ m * u \in Nat /\ (m = 0 => m * n = 0 /\ m * u = 0)
    OBVIOUS
  <2>3. (m * u) \div 100 \in Nat
    BY <2>2, NatQuotient
  <2>4. 0 \div 100 = 0
    OBVIOUS
  <2>5. m = 0 => (m * u) \div 100 = 0
    BY <2>2, <2>4
  <2> QED BY <2>1, <2>2, <2>3, <2>5
<1>4. /\ weights \in [mine -> Int] /\ \A x \in mine : weights[x] >= 0
      /\ utilities \in [mine -> Int] /\ \A x \in mine : utilities[x] >= 0
  BY <1>3
<1>5. (\A x \in h : x.backend = b => Similarity(x.context, c) = 0) =>
          (\A x \in mine : weights[x] = 0) /\ (\A x \in mine : utilities[x] = 0)
  BY <1>3
<1>6. HistoryAdjustment(b, c, h) = Adjusted(SumOf(weights), SumOf(utilities), SumOf(counts))
  BY DEF HistoryAdjustment, Adjusted
<1> HIDE DEF mine, counts, weights, utilities
<1>7. SumOf(counts) \in Nat /\ SumOf(weights) \in Nat /\ SumOf(utilities) \in Nat
  <2>1. SumOf(counts) \in Int /\ SumOf(counts) >= 0
    BY <1>1, <1>2, SumIs
  <2>2. SumOf(weights) \in Int /\ SumOf(weights) >= 0
    BY <1>1, <1>4, SumIs
  <2>3. SumOf(utilities) \in Int /\ SumOf(utilities) >= 0
    BY <1>1, <1>4, SumIs
  <2> QED BY <2>1, <2>2, <2>3
<1>8. (\A x \in h : x.backend = b => Similarity(x.context, c) = 0) =>
          SumOf(weights) = 0 /\ SumOf(utilities) = 0
  BY <1>1, <1>4, <1>5, SumIs
<1>9. HistoryAdjustment(b, c, h) \in Int
  BY <1>6, <1>7, AdjustedIs
<1> QED BY <1>6, <1>7, <1>8, <1>9 DEF counts

LEMMA ScoresAre ==
    ASSUME NEW c, NEW h, Ledger(h)
    PROVE  Scores(c, h) \in [Four -> Int]
<1>1. ASSUME NEW b \in Four PROVE BackendScore(b, c, h) \in Int
  <2>1. PriorScore(b, c) \in Int
    BY PriorIs DEF PriorScores
  <2>2. HistoryAdjustment(b, c, h) \in Int
    BY HistoryIs
  <2> QED BY <2>1, <2>2 DEF BackendScore
<1> QED BY <1>1 DEF Scores

\* The selection leaves the favourite of the prior only on credit of one of the two.
LEMMA SelectedOnCredit ==
    ASSUME NEW S \in SUBSET Four, NEW c, NEW h, Ledger(h),
           \A x \in h : x.backend \in {SelectedBackend(S, c, h), PriorFavourite(S, c)}
                        => Similarity(x.context, c) = 0
    PROVE  SelectedBackend(S, c, h) = PriorFavourite(S, c)
<1> DEFINE b == SelectedBackend(S, c, h)
           f == PriorFavourite(S, c)
           T == S \cup {"native"}
<1>1. Winner(T, Scores(c, h), b) /\ Winner(T, PriorScores(c), f)
  BY ScoresAre, PriorIs, SelectedWins, FavouriteWins
<1>2. T \in SUBSET Four /\ b \in T /\ f \in T
  BY <1>1 DEF Winner, Four
<1>3. PICK adjusted \in Int :
        HistoryAdjustment(b, c, h) = adjusted /\ HistoryAdjustment(f, c, h) = adjusted
  <2> DEFINE all == SumOf([x \in h |-> x.count])
  <2>1. /\ HistoryAdjustment(b, c, h) \in Int
        /\ HistoryAdjustment(b, c, h) = Adjusted(0, 0, all)
    <3> HIDE DEF b, f
    <3> QED BY HistoryIs DEF b
  <2>2. HistoryAdjustment(f, c, h) = Adjusted(0, 0, all)
    <3> HIDE DEF b, f
    <3> QED BY HistoryIs DEF f
  <2> HIDE DEF b, f, all
  <2> QED BY <2>1, <2>2
<1> HIDE DEF b, f, T
<1>4. PICK p \in Int, q \in Int : p = PriorScore(b, c) /\ q = PriorScore(f, c)
  BY <1>2, PriorIs DEF PriorScores
<1>5. /\ PriorScores(c)[b] = p /\ PriorScores(c)[f] = q
      /\ Scores(c, h)[b] = 100 * p + adjusted /\ Scores(c, h)[f] = 100 * q + adjusted
  BY <1>2, <1>3, <1>4 DEF PriorScores, Scores, BackendScore
<1>6. Place[b] \in 1 .. 4 /\ Place[f] \in 1 .. 4 /\ b \in Four /\ f \in Four
  BY <1>2, Places
<1>7. Beats(Scores(c, h), b, f) /\ Beats(PriorScores(c), f, b)
  BY <1>1, <1>2 DEF Winner
<1>8. Place[b] = Place[f]
  BY <1>5, <1>6, <1>7 DEF Beats
<1> QED BY <1>6, <1>8, Places DEF b, f

-----------------------------------------------------------------------------
(* Every switch rests on evidence.                                          *)

\* Every row of the credit sums up events of its surface, context and backend.
CreditInv ==
    /\ IsFiniteSet(optimizerCredit) /\ Ledger(optimizerCredit)
    /\ \A x \in optimizerCredit : \E e \in optimizerEvents : SameAggregate(x, e)

LEMMA CreditInit == EvolutionInv /\ AutoInit => CreditInv
<1> SUFFICES ASSUME EvolutionInv, AutoInit PROVE CreditInv
  OBVIOUS
<1> DEFINE Same(e) == {f \in optimizerEvents : SameAggregate(e, f)}
           Row_(e) == [surface |-> e.surface, context |-> e.context, backend |-> e.backend,
                       count |-> Cardinality(Same(e)),
                       utility |-> SumOf([f \in Same(e) |-> f.utility]), touched |-> 0]
           rows == [e \in optimizerEvents |-> Row_(e)]
<1>1. optimizerCredit = {rows[e] : e \in optimizerEvents}
  BY DEF AutoInit
<1>2. IsFiniteSet(optimizerEvents) /\ \A e \in optimizerEvents : e.utility \in Nat
  <2>1. optimizerEvents \in Scope.histories /\ scenario \in DOMAIN Scenarios
    BY DEF AutoInit, EvolutionInv
  <2>2. /\ IsFiniteSet(optimizerEvents) /\ \A e \in optimizerEvents : e.utility \in 0 .. 100
    BY <2>1, AutoAssumption DEF Scope
  <2> QED BY <2>2
<1>3. ASSUME NEW e \in optimizerEvents
      PROVE  /\ rows[e].count \in Nat /\ rows[e].utility \in Nat /\ SameAggregate(rows[e], e)
  <2>1. rows[e] = Row_(e)
    OBVIOUS
  <2>2. IsFiniteSet(Same(e)) /\ Same(e) \in SUBSET optimizerEvents
    BY <1>2, FS_Subset
  <2>3. Cardinality(Same(e)) \in Nat
    BY <2>2, FS_CardinalityType
  <2> DEFINE u == [f \in Same(e) |-> f.utility]
  <2>4. u \in [Same(e) -> Int] /\ \A f \in Same(e) : u[f] >= 0
    BY <1>2, <2>2
  <2>5. SumOf(u) \in Nat
    <3> HIDE DEF u, Same
    <3>1. SumOf(u) \in Int /\ SumOf(u) >= 0
      BY <2>2, <2>4, SumIs
    <3> QED BY <3>1
  <2>6. /\ rows[e].count = Cardinality(Same(e)) /\ rows[e].utility = SumOf(u)
        /\ rows[e].surface = e.surface /\ rows[e].context = e.context /\ rows[e].backend = e.backend
    BY <2>1
  <2> QED BY <2>3, <2>5, <2>6 DEF SameAggregate
<1> HIDE DEF rows
<1>4. IsFiniteSet(optimizerCredit)
  <2>1. rows \in Surjection(optimizerEvents, optimizerCredit)
    BY <1>1 DEF rows, Surjection
  <2> QED BY <1>2, <2>1, FS_Surjection
<1> QED BY <1>1, <1>3, <1>4 DEF CreditInv, Ledger

LEMMA CreditStep ==
    ASSUME CreditInv, NEW e, e.utility \in Nat, RecordOptimizerCredit(e)
    PROVE  CreditInv'
<1>1. CASE UNCHANGED <<optimizerEvents, optimizerCredit>>
  BY <1>1 DEF CreditInv, Ledger
<1>2. CASE /\ optimizerEvents' = optimizerEvents \cup {e}
           /\ optimizerCredit' = Aggregated(optimizerCredit, e, Cardinality(optimizerEvents) + 1)
  <2> DEFINE old == {x \in optimizerCredit : SameAggregate(x, e)}
             counts == [x \in old |-> x.count]
             utilities == [x \in old |-> x.utility]
             new == [surface |-> e.surface, context |-> e.context, backend |-> e.backend,
                     count |-> 1 + SumOf(counts), utility |-> e.utility + SumOf(utilities),
                     touched |-> Cardinality(optimizerEvents) + 1]
  <2>1. optimizerCredit' = (optimizerCredit \ old) \cup {new}
    BY <1>2 DEF Aggregated
  <2>2. IsFiniteSet(old) /\ IsFiniteSet(optimizerCredit \ old) /\ old \in SUBSET optimizerCredit
    <3>1. old \in SUBSET optimizerCredit /\ optimizerCredit \ old \in SUBSET optimizerCredit
      OBVIOUS
    <3> HIDE DEF old
    <3> QED BY <3>1, FS_Subset DEF CreditInv
  <2>3. /\ counts \in [old -> Int] /\ \A x \in old : counts[x] >= 0
        /\ utilities \in [old -> Int] /\ \A x \in old : utilities[x] >= 0
    BY <2>2 DEF CreditInv, Ledger
  <2>4. SumOf(counts) \in Nat /\ SumOf(utilities) \in Nat
    <3> HIDE DEF old, counts, utilities
    <3>1. SumOf(counts) \in Int /\ SumOf(counts) >= 0
      BY <2>2, <2>3, SumIs
    <3>2. SumOf(utilities) \in Int /\ SumOf(utilities) >= 0
      BY <2>2, <2>3, SumIs
    <3> QED BY <3>1, <3>2
  <2>5. new.count \in Nat /\ new.utility \in Nat /\ SameAggregate(new, e)
    BY <2>4 DEF SameAggregate
  <2> HIDE DEF new, old
  <2>6. IsFiniteSet(optimizerCredit')
    BY <2>1, <2>2, FS_AddElement
  <2>7. Ledger(optimizerCredit')
    BY <2>1, <2>5, <2>6 DEF CreditInv, Ledger
  <2>8. \A x \in optimizerCredit' : \E f \in optimizerEvents' : SameAggregate(x, f)
    BY <1>2, <2>1, <2>5 DEF CreditInv
  <2> QED BY <2>6, <2>7, <2>8 DEF CreditInv
<1> QED BY <1>1, <1>2 DEF RecordOptimizerCredit

\* Only the rating of a run touches the credit.
LEMMA CreditKept ==
    ASSUME CreditInv, AutoNext
    PROVE  CreditInv' /\ optimizerEvents \subseteq optimizerEvents'
<1>1. CASE UNCHANGED <<optimizerEvents, optimizerCredit>>
  BY <1>1 DEF CreditInv, Ledger
<1>2. ASSUME NEW u \in RunUtility, RecordOptimizerCredit(OptimizerEvent(u))
      PROVE  CreditInv' /\ optimizerEvents \subseteq optimizerEvents'
  <2> DEFINE e == OptimizerEvent(u)
  <2>1. e.utility \in Nat
    <3>1. u \in 43 .. 100 \/ u \in 43 .. 57
      BY DEF RunUtility, RunUtilities
    <3> QED BY <3>1 DEF OptimizerEvent
  <2>2. RecordOptimizerCredit(e)
    BY <1>2
  <2> HIDE DEF e
  <2>3. CreditInv'
    BY <2>1, <2>2, CreditStep
  <2> QED BY <2>2, <2>3 DEF RecordOptimizerCredit
<1>3. RateOptimizer => CreditInv' /\ optimizerEvents \subseteq optimizerEvents'
  BY <1>1, <1>2 DEF RateOptimizer
<1>4. AutoNext => UNCHANGED <<optimizerEvents, optimizerCredit>> \/ RateOptimizer
  BY DEF AutoNext, SelectAuto, StartSelected, StartPlain, AutoSearch, Judged, Observe,
     RememberObserved, ReportRated, CrashAuto, optimizer
<1> QED BY <1>1, <1>3, <1>4

LEMMA AvailableIs ==
    ASSUME NEW D, NEW E
    PROVE  /\ Available(D) \in SUBSET Four /\ "native" \in Available(D)
           /\ Available(D \ E) \subseteq Available(D)
BY DEF Available, Four

\* A selection that leaves the favourite has an event to rest on.
LEMMA SelectionRests ==
    ASSUME CreditInv, NEW r, NEW s, NEW d, NEW install, SelectAuto(r, s, d, install)
    PROVE  SwitchesRestOnEvidence'
<1>1. PICK landscape \in RoutingLandscapes(s) :
        decision' = [NoDecision EXCEPT
           !.taken = TRUE, !.run = r, !.surface = s, !.data = d,
           !.context = AutoContext(s, d, landscape),
           !.loads = Available(install.found \ install.broken),
           !.backend = AutoBackend(Available(install.found),
                                   Available(install.found \ install.broken),
                                   AutoContext(s, d, landscape), History(s))]
  BY Zenon DEF SelectAuto
<1> DEFINE c == AutoContext(s, d, landscape)
           found == Available(install.found)
           loads == Available(install.found \ install.broken)
           h == History(s)
           b == SelectedBackend(loads, c, h)
           f == PriorFavourite(loads, c)
<1>2. /\ h \in SUBSET optimizerCredit /\ Ledger(h)
      /\ \A x \in h : x.surface = s
  <2>1. h \in SUBSET optimizerCredit /\ \A x \in h : x.surface = s
    BY DEF History
  <2> HIDE DEF h
  <2>2. IsFiniteSet(h)
    BY <2>1, FS_Subset DEF CreditInv
  <2> QED BY <2>1, <2>2 DEF CreditInv, Ledger
<1>3. found \in SUBSET Four /\ loads \in SUBSET found /\ "native" \in loads /\ loads \in SUBSET Four
  BY AvailableIs
<1>4. /\ decision'.surface = s /\ decision'.context = c /\ decision'.loads = loads
      /\ decision'.backend = AutoBackend(found, loads, c, h)
  BY <1>1 DEF NoDecision
<1>5. optimizerEvents' = optimizerEvents
  BY DEF SelectAuto
<1> HIDE DEF c, found, loads, h
<1>6. AutoBackend(found, loads, c, h) = b
  BY <1>2, <1>3, ScoresAre, PreflightSelects
<1>7. b # f => \E x \in h : x.backend \in {b, f} /\ Similarity(x.context, c) # 0
  BY <1>2, <1>3, SelectedOnCredit
<1>8. ASSUME NEW x \in h, x.backend \in {b, f}, Similarity(x.context, c) # 0
      PROVE  \E e \in optimizerEvents :
                /\ e.surface = s /\ e.backend \in {b, f}
                /\ e.context = ContextKey(c) \/ ScaledSimilarity(e.context, c) >= 5000
  <2>1. PICK e \in optimizerEvents : SameAggregate(x, e)
    BY <1>2, <1>8 DEF CreditInv
  <2>2. e.surface = s /\ e.backend = x.backend /\ e.context = x.context
    BY <1>2, <1>8, <2>1 DEF SameAggregate
  <2>3. x.context = ContextKey(c) \/ ScaledSimilarity(x.context, c) >= 5000
    BY <1>8 DEF Similarity
  <2> HIDE DEF b, f
  <2> QED BY <1>8, <2>2, <2>3
<1> HIDE DEF b
<1>9. decision'.backend = b /\ PriorFavourite(decision'.loads, decision'.context) = f
  BY <1>4, <1>6
<1> HIDE DEF f
<1> QED BY <1>4, <1>5, <1>7, <1>8, <1>9 DEF SwitchesRestOnEvidence

\* Any other step leaves no decision that still waits for its action.
LEMMA DecisionsWait ==
    ASSUME DecisionInv, AutoNext, decision'.taken, stage' = "idle"
    PROVE  \E r, s, d, install : SelectAuto(r, s, d, install)
<1>1. decision.taken => stage \notin {"search", "reported"}
  BY DEF DecisionInv
<1>2. ~StartSelected
  BY DEF StartSelected, Replay, EvolveUnready, EvolveAtOnce, Invocation
<1>3. ~StartPlain
  BY DEF StartPlain, Start, Replay, EvolveUnready, Evolve, EvolveAtOnce, Invocation
<1>4. ~AutoSearch
  BY DEF AutoSearch, Search
<1>5. ~Judged
  <2>1. Judged => UNCHANGED decision
    BY DEF Judged, optimizer
  <2>2. Judged => stage' # "idle" \/ stage \in {"search", "reported"}
    BY DEF Judged, Select, EvolveFailed, Gates, Certificate, Relevance, SegmentEntries, NoSegments,
       OweCredit, RecordCredit, EndRun
  <2> QED BY <1>1, <2>1, <2>2
<1>6. ~Observe
  BY DEF Observe, vars
<1>7. ~RememberObserved
  BY DEF RememberObserved, Remember
<1>8. ~RateOptimizer /\ ~CrashAuto
  BY DEF RateOptimizer, CrashAuto, NoDecision
<1>9. ~ReportRated
  BY DEF ReportRated, ReportMechanisms
<1> QED BY <1>2, <1>3, <1>4, <1>5, <1>6, <1>7, <1>8, <1>9 DEF AutoNext

\* The policy leaves the favourite of the prior only on credit that one of the two earned on
\* the surface in a context at least half alike, whatever loads, whatever the credit and
\* wherever executors died.  (_history_adjustment, _history_similarity, _select_auto_backend)
THEOREM SwitchesAreEarned == AutoSpec => []SwitchesRestOnEvidence
<1>1. AutoInit => CreditInv /\ SwitchesRestOnEvidence
  <2> SUFFICES ASSUME AutoInit PROVE CreditInv /\ SwitchesRestOnEvidence
    OBVIOUS
  <2>1. EvolutionInv
    BY InitInv DEF AutoInit
  <2>2. ~decision.taken
    BY DEF AutoInit, NoDecision
  <2> QED BY <2>1, <2>2, CreditInit DEF SwitchesRestOnEvidence
<1>2. DecisionInv /\ CreditInv /\ SwitchesRestOnEvidence /\ [AutoNext]_autoVars
        => (CreditInv /\ SwitchesRestOnEvidence)'
  <2> SUFFICES ASSUME DecisionInv, CreditInv, SwitchesRestOnEvidence, [AutoNext]_autoVars
               PROVE  CreditInv' /\ SwitchesRestOnEvidence'
    OBVIOUS
  <2>1. CASE AutoNext
    <3>1. CASE decision'.taken /\ stage' = "idle"
      BY <2>1, <3>1, CreditKept, DecisionsWait, SelectionRests
    <3>2. CASE ~(decision'.taken /\ stage' = "idle")
      BY <2>1, <3>2, CreditKept DEF SwitchesRestOnEvidence
    <3> QED BY <3>1, <3>2
  <2>2. CASE UNCHANGED autoVars
    <3>1. UNCHANGED <<decision, optimizerEvents, optimizerCredit, stage>>
      BY <2>2 DEF autoVars, optimizer, vars
    <3> QED BY <3>1 DEF CreditInv, Ledger, SwitchesRestOnEvidence
  <2> QED BY <2>1, <2>2
<1>3. AutoInv => DecisionInv
  BY DEF AutoInv
<1> QED BY <1>1, <1>2, <1>3, AutoInvariant, PTL DEF AutoSpec
=============================================================================
