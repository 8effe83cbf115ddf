---------------------------- MODULE EvolutionSearch ----------------------------
(***************************************************************************)
(* One search for a better strategy of one surface: the response surface    *)
(* around the current config, the seeds of the population, and the loop of  *)
(* the selected optimizer backend, which evaluates configs on the discovery *)
(* slice until its budget is spent.                                         *)
(*                                                                          *)
(* A config gives every dimension a level; what evaluating it returns is a  *)
(* landscape: its score, and whether the evaluator raises on it.  Sampling  *)
(* (Beta draws, mutations, TPE, the acquisition optimizer) is any choice of *)
(* config the code leaves possible.                                         *)
(*                                                                          *)
(* Definitions commented "Mutant" are plausible bugs in the definition that *)
(* follows; nothing uses them but the sanity check of the properties.       *)
(***************************************************************************)
EXTENDS Integers, FiniteSets

CONSTANTS
    Fields,             \* dimensions of a strategy
    Configs, Base,      \* strategies, and the one the surface serves with
    Neighbours(_),      \* what one perturbation of one dimension of a config yields
    Landscapes,         \* name -> [score, broken] of the evaluators to consider
    Remembered,         \* projected configs of trusted strategies
    Backends,           \* optimizer backends: "native", "optuna", "optuna_motpe", "qlognehvi"
    PopulationSize,     \* POPULATION_SIZE
    Generations,        \* MAX_GENERATIONS
    Parents,            \* _NATIVE_ARCHIVE_PARENT_LIMIT
    SurfaceSeeds,       \* seeds taken from the top of the response surface
    JumpElites,         \* seeds a structural jump keeps
    ModelPoints,        \* MIN_MODEL_POINTS
    MaxDuplicates       \* MAX_DUPLICATE_PROPOSALS

SmallerOf(m, n) == IF m < n THEN m ELSE n
LargerOf(m, n) == IF m > n THEN m ELSE n

\* _config_signature: the arms in which config c departs from config b.
Signature(b, c) ==
    {[field |-> f, direction |-> IF c[f] > b[f] THEN "up" ELSE "down"] :
        f \in {g \in Fields : c[g] # b[g]}}

Signatures(S) == {Signature(Base, c) : c \in S}

\* The schema has enough dimensions that the surface alone holds a signature for every
\* parent the native loop keeps; _native_distinct_evaluation_budget counts on it.
ASSUME SearchAssumption ==
    /\ Base \in Configs /\ Remembered \subseteq Configs /\ IsFiniteSet(Configs)
    /\ Backends \subseteq {"native", "optuna", "optuna_motpe", "qlognehvi"}
    /\ \A c \in Configs : Neighbours(c) \subseteq Configs
    /\ \A n \in {PopulationSize, Generations, Parents, SurfaceSeeds, JumpElites, ModelPoints} :
          n \in Nat \ {0}
    /\ MaxDuplicates \in Nat /\ Parents <= PopulationSize /\ JumpElites <= SurfaceSeeds
    /\ Configs \subseteq [Fields -> Int] /\ Cardinality(Signatures(Neighbours(Base))) >= Parents
    /\ \A l \in DOMAIN Landscapes :
          Landscapes[l].score \in [Configs -> Int] /\ Landscapes[l].broken \subseteq Configs

VARIABLES
    phase,              \* where the search stands
    backend, land,      \* the selected backend, and the name of the landscape
    seeds,              \* the population
    evaluated,          \* configs with a row in the evaluation cache
    generation,         \* the native loop's counter
    budget,             \* evaluation_budget of the external backends
    fresh, calls,       \* evaluations that returned, evaluations that were attempted
    warm, trials,       \* enqueued trials left, trials told to the study
    streak,             \* duplicate proposals in a row
    acquired,           \* acquisition evaluations by mode
    unseen              \* seeds without a row when the loop began

searchVars == <<phase, backend, land, seeds, evaluated, generation, budget, fresh, calls,
                warm, trials, streak, acquired, unseen>>

Idle == /\ phase = "idle" /\ backend = "native" /\ land = CHOOSE l \in DOMAIN Landscapes : TRUE
        /\ seeds = {} /\ evaluated = {} /\ generation = 0 /\ budget = 0 /\ fresh = 0 /\ calls = 0
        /\ warm = {} /\ trials = 0 /\ streak = 0 /\ unseen = 0
        /\ acquired = [m \in {"design", "pareto", "primary"} |-> 0]

\* Everything the frame of a search held is gone once it returned or raised.
Forget == /\ phase' = "idle" /\ backend' = "native" /\ land' = CHOOSE l \in DOMAIN Landscapes : TRUE
          /\ seeds' = {} /\ evaluated' = {} /\ generation' = 0 /\ budget' = 0 /\ fresh' = 0
          /\ calls' = 0 /\ warm' = {} /\ trials' = 0 /\ streak' = 0 /\ unseen' = 0
          /\ acquired' = [m \in {"design", "pareto", "primary"} |-> 0]

\* The response surface: every single change of the current config.
Surface == Neighbours(Base)

Score == Landscapes[land].score
Broken == Landscapes[land].broken

BestDelta == CHOOSE d \in {Score[c] - Score[Base] : c \in Surface} :
                \A c \in Surface : Score[c] - Score[Base] <= d

\* The jump is taken when no single change gains a thousandth, the unit of the scores.
BasinJump == BestDelta < 1

\* _surface_seeds and _stagnation_aware_surface_seeds: the best of the surface, then the
\* combined gains, trusted memory, structural jumps and mutations, which are any configs;
\* mutation gives up after a number of attempts, so the population may stay small.
SeedSets ==
    {S \in SUBSET Configs :
        /\ Cardinality(S) <= PopulationSize
        /\ \E elites \in {SurfaceSeeds} \cup (IF BasinJump THEN {JumpElites} ELSE {}) :
              Cardinality(S \cap Surface) >= SmallerOf(elites, Cardinality(Surface))
        /\ \/ Remembered \subseteq S
           \/ Cardinality(S) = PopulationSize
           \/ BasinJump}

\* Mutant: counts the seeds that the surface already measured.
EvaluationBudgetOfSeeds(S) ==
    Cardinality(S) + (Generations - 1) * (PopulationSize - SmallerOf(Parents, PopulationSize))
EvaluationBudget(S) ==
    Cardinality(S \ evaluated)
       + (Generations - 1) * (PopulationSize - SmallerOf(Parents, PopulationSize))

\* _warm_start_study enqueues the base and the population; _trial_budget.
TrialBudget(S, evaluations) ==
    Cardinality({Base} \cup S) + LargerOf(PopulationSize * Generations, 4 * evaluations)

Begin(b, l) ==
    /\ phase = "idle" /\ b \in Backends /\ l \in DOMAIN Landscapes
    /\ phase' = "measure" /\ backend' = b /\ land' = l
    /\ UNCHANGED <<seeds, evaluated, generation, budget, fresh, calls, warm, trials, streak,
                   acquired, unseen>>

\* Every single change is evaluated, and nothing catches an evaluator that raises.
MeasureSurface ==
    /\ phase = "measure"
    /\ \/ Surface \cap Broken = {} /\ phase' = "seed" /\ evaluated' = Surface
       \/ Surface \cap Broken # {} /\ phase' = "raised" /\ UNCHANGED evaluated
    /\ UNCHANGED <<backend, land, seeds, generation, budget, fresh, calls, warm, trials, streak,
                   acquired, unseen>>

LoopOf(b) == CASE b = "native" -> "generation"
               [] b \in {"optuna", "optuna_motpe"} -> "trial"
               [] b = "qlognehvi" -> "design"

SeedPopulation ==
    /\ phase = "seed"
    /\ \E S \in SeedSets :
          /\ seeds' = S /\ unseen' = Cardinality(S \ evaluated)
          /\ budget' = EvaluationBudget(S)
          /\ warm' = IF LoopOf(backend) = "trial" THEN {Base} \cup S ELSE {}
    /\ phase' = IF LoopOf(backend) = "trial" /\ budget' <= 0 THEN "done" ELSE LoopOf(backend)
    /\ UNCHANGED <<backend, land, evaluated, generation, fresh, calls, trials, streak, acquired>>

-----------------------------------------------------------------------------
(* The native loop. *)

\* One generation: seeds without a row are evaluated, an evaluator that raises skips its seed.
Generation ==
    LET tried == seeds \ evaluated
        rows == seeds \ Broken
    IN /\ phase = "generation"
       /\ evaluated' = evaluated \cup rows
       /\ fresh' = fresh + Cardinality(tried \ Broken)
       /\ calls' = calls + Cardinality(tried)
       /\ generation' = generation + 1
       /\ phase' = IF rows = {} \/ generation + 1 >= Generations THEN "done" ELSE "refill"
       /\ UNCHANGED <<backend, land, seeds, budget, warm, trials, streak, acquired, unseen>>

\* The best row of every signature.
Archive(S) == {c \in S : \A d \in S : Signature(Base, d) = Signature(Base, c)
                                         => Score[d] <= Score[c]}

\* The parents are the head of the archive, at most one row of a signature.
ParentSets ==
    {Q \in SUBSET Archive(evaluated) :
        /\ Cardinality(Q) = SmallerOf(Parents, Cardinality(Signatures(evaluated)))
        /\ Cardinality(Signatures(Q)) = Cardinality(Q)
        /\ \A c \in Archive(evaluated) : \A q \in Q :
              Score[c] > Score[q] => Signature(Base, c) \in Signatures(Q)}

\* Fresh members are mutations, mixtures or memory: any configs.
Refill ==
    /\ phase = "refill"
    /\ \E Q \in ParentSets : \E M \in SUBSET (Configs \ Q) :
          Cardinality(Q \cup M) <= PopulationSize /\ seeds' = Q \cup M
    /\ phase' = "generation"
    /\ UNCHANGED <<backend, land, evaluated, generation, budget, fresh, calls, warm, trials,
                   streak, acquired, unseen>>

-----------------------------------------------------------------------------
(* The Optuna backends: TPE and multi-objective TPE differ in what they propose. *)

\* The objective of a trial: a known config is reused, a new one beyond the budget is pruned,
\* and one whose evaluator raises fails the trial without counting as a new evaluation.
TrialTold(c) ==
    LET attempts == c \notin evaluated /\ fresh < budget
        returns == attempts /\ c \notin Broken
    IN /\ calls' = calls + (IF attempts THEN 1 ELSE 0)
       /\ fresh' = fresh + (IF returns THEN 1 ELSE 0)
       /\ evaluated' = IF returns THEN evaluated \cup {c} ELSE evaluated
       /\ trials' = trials + 1

\* Enqueued trials come first, then whatever the sampler proposes; the callback stops the
\* study once the budget is spent.
Trial(c) ==
    /\ phase = "trial" /\ c \in Configs /\ (warm # {} => c \in warm)
    /\ TrialTold(c)
    /\ warm' = warm \ {c}
    /\ phase' = IF fresh' >= budget \/ trials' >= TrialBudget(seeds, budget)
                THEN "done" ELSE "trial"
    /\ UNCHANGED <<backend, land, seeds, generation, budget, streak, acquired, unseen>>

-----------------------------------------------------------------------------
(* The BoTorch backend. *)

\* An unseen seed, else an unseen mutation, which the attempts may fail to find.
Unseen == IF seeds \ evaluated # {} THEN seeds \ evaluated ELSE Configs \ evaluated
MayFindNone == seeds \ evaluated = {}

\* _evaluate_once on an unseen config; here nothing catches an evaluator that raises.
EvaluateAs(c, mode, next) ==
    /\ calls' = calls + 1
    /\ \/ /\ c \in Broken /\ phase' = "raised"
          /\ UNCHANGED <<evaluated, fresh, acquired>>
       \/ /\ c \notin Broken /\ phase' = next
          /\ evaluated' = evaluated \cup {c} /\ fresh' = fresh + 1
          /\ acquired' = [acquired EXCEPT ![mode] = @ + 1]

Designing == Cardinality(evaluated) < ModelPoints /\ fresh < budget

\* The initial design ends when the model has its points or nothing unseen is found.
EndDesign == phase' = IF Cardinality(evaluated) < 2 THEN "raised" ELSE "acquire"

DesignPoint(c) ==
    /\ phase = "design" /\ Designing /\ c \in Unseen
    /\ EvaluateAs(c, "design", "design")
    /\ UNCHANGED <<backend, land, seeds, generation, budget, warm, trials, streak, unseen>>

DesignDone ==
    /\ phase = "design" /\ (Designing => MayFindNone)
    /\ EndDesign
    /\ UNCHANGED <<backend, land, seeds, evaluated, generation, budget, fresh, calls, warm,
                   trials, streak, acquired, unseen>>

\* round(3 b / 10), halves to the even neighbour; at least one evaluation is exploitation.
Exploitation(b) ==
    LET down == (3 * b) \div 10
        rest == (3 * b) % 10
        rounded == IF rest > 5 \/ (rest = 5 /\ down % 2 = 1) THEN down + 1 ELSE down
    IN SmallerOf(LargerOf(1, rounded), b)

\* Mutant: divides the whole budget, as if the initial design had cost nothing.
AcquisitionModeOfBudget ==
    IF budget > 1 /\ acquired["pareto"] + acquired["primary"] < budget - Exploitation(budget)
    THEN "pareto" ELSE "primary"
AcquisitionMode ==
    LET acquisitions == budget - acquired["design"]
        spent == acquired["pareto"] + acquired["primary"]
    IN IF acquisitions > 1 /\ spent < acquisitions - Exploitation(acquisitions)
       THEN "pareto" ELSE "primary"

\* The acquisition proposes an unseen config, which is evaluated.
AcquireNew(c) ==
    /\ phase = "acquire" /\ fresh < budget /\ c \in Configs \ evaluated
    /\ EvaluateAs(c, AcquisitionMode, "acquire")
    /\ streak' = IF c \in Broken THEN streak ELSE 0
    /\ UNCHANGED <<backend, land, seeds, generation, budget, warm, trials, unseen>>

\* Mutant: the streak starts again instead of giving up.
AcquireDuplicateAgain ==
    /\ phase = "acquire" /\ fresh < budget /\ evaluated # {}
    /\ streak' = IF streak < MaxDuplicates THEN streak + 1 ELSE 0
    /\ UNCHANGED <<phase, backend, land, seeds, evaluated, generation, budget, fresh, calls,
                   warm, trials, acquired, unseen>>
\* It proposes a known one, which is asked again until the streak is too long.
AcquireDuplicate ==
    /\ phase = "acquire" /\ fresh < budget /\ evaluated # {} /\ streak < MaxDuplicates
    /\ streak' = streak + 1
    /\ UNCHANGED <<phase, backend, land, seeds, evaluated, generation, budget, fresh, calls,
                   warm, trials, acquired, unseen>>

\* Then an unseen seed or mutation takes its place, or the search ends with what it has.
AcquireInstead(c) ==
    /\ phase = "acquire" /\ fresh < budget /\ evaluated # {} /\ streak >= MaxDuplicates
    /\ c \in Unseen /\ streak' = 0
    /\ EvaluateAs(c, AcquisitionMode, "acquire")
    /\ UNCHANGED <<backend, land, seeds, generation, budget, warm, trials, unseen>>

AcquireNothing ==
    /\ phase = "acquire" /\ fresh < budget /\ streak >= MaxDuplicates /\ MayFindNone
    /\ phase' = "done" /\ streak' = 0
    /\ UNCHANGED <<backend, land, seeds, evaluated, generation, budget, fresh, calls, warm,
                   trials, acquired, unseen>>

\* Fitting the model or optimising the acquisition may fail at any step.
AcquisitionFails ==
    /\ phase = "acquire" /\ fresh < budget /\ phase' = "raised"
    /\ UNCHANGED <<backend, land, seeds, evaluated, generation, budget, fresh, calls, warm,
                   trials, streak, acquired, unseen>>

AcquireDone ==
    /\ phase = "acquire" /\ fresh >= budget /\ phase' = "done"
    /\ UNCHANGED <<backend, land, seeds, evaluated, generation, budget, fresh, calls, warm,
                   trials, streak, acquired, unseen>>

-----------------------------------------------------------------------------
\* rows[0] of every backend: a best row by the primary objective, whatever guided the search.
Winners == {c \in evaluated : \A d \in evaluated : Score[d] <= Score[c]}

SearchStep ==
    \/ MeasureSurface
    \/ SeedPopulation
    \/ Generation
    \/ Refill
    \/ \E c \in Configs : Trial(c)
    \/ \E c \in Configs : DesignPoint(c)
    \/ DesignDone
    \/ \E c \in Configs : AcquireNew(c)
    \/ AcquireDuplicate
    \/ \E c \in Configs : AcquireInstead(c)
    \/ AcquireNothing \/ AcquisitionFails \/ AcquireDone

-----------------------------------------------------------------------------
(* What the search promises. *)

\* No backend buys quality with evaluations the native loop would not have had: what every
\* loop evaluates anew stays within the unseen seeds plus the refilled places of the later
\* generations, and, where nothing is caught, so do the attempts.
\* (_native_distinct_evaluation_budget and the loops it bounds)
BudgetParity ==
    LET native == unseen + (Generations - 1) * (PopulationSize - Parents)
    IN /\ fresh <= native
       /\ (LoopOf(backend) # "trial" \/ Broken = {}) => calls <= native

\* A BoTorch search that spent its budget kept the reserved share of its acquisitions for the
\* primary objective, however many of the proposals were duplicates.  (_acquisition_mode)
PrimaryIsReserved ==
    LET acquisitions == budget - acquired["design"]
    IN phase = "done" /\ backend = "qlognehvi" /\ fresh >= budget /\ acquisitions > 0
          => acquired["primary"] >= Exploitation(acquisitions)

\* Every search returns or raises unless its executor dies, also when each proposal is a
\* duplicate and when every evaluation fails.  (the loops and their stop conditions)
SearchEnds == phase = "measure" ~> phase \in {"done", "raised", "idle"}
=============================================================================
