------------------------------- MODULE Evolution -------------------------------
(***************************************************************************)
(* An evolve action of a run, from the evidence it is given to the ledgers  *)
(* it leaves behind: the route to business replay or proxy metrics, the     *)
(* search (EvolutionSearch), the safety and trust gates, the uncertainty    *)
(* certificate, the relevance guardrail, the segment portfolio, the credit  *)
(* of single arms, the learned strategy, and, when the run has ended, the   *)
(* mechanism evidence.  The executor may die between any two transactions;  *)
(* the run is then executed again.                                          *)
(*                                                                          *)
(* Measured differences are kept as the interval between the thresholds of  *)
(* the code that they fall in.                                              *)
(*                                                                          *)
(* Definitions commented "Mutant" are plausible bugs in the definition that *)
(* follows; nothing uses them but the sanity check of the properties.       *)
(***************************************************************************)
EXTENDS EvolutionSearch

CONSTANTS
    Runs,               \* runs with one evolve action each
    Segments,           \* request segments of a surface
    Scenarios,          \* name -> what a behaviour may meet, see ScenarioAssumption
    NoRun

Surfaces == {"search", "recommend"}
Whole == "whole"        \* stands in place of a segment for all the traffic of a surface

\* What the guardrail audit of the candidate shows: "harmful" fails every gate, "wide" passes
\* only the production gate of search, "narrow" passes every gate.
Guards == {"harmful", "wide", "narrow"}
\* A holdout reward delta: below -0.02, from there below -0.003, from there below 0, from 0.
HoldoutDeltas == 0 .. 3
\* probability_positive: below 0.65, from there below 0.70, from there below 0.95, from 0.95.
Probabilities == 0 .. 3

Evidence == [guard : Guards,          \* deltas and robustness of the audits
             gain : BOOLEAN,          \* a domain metric gained
             full : BOOLEAN,          \* the reward of all events rose
             discovered : BOOLEAN,    \* the discovery reward rose by more than 0.001
             holdout : HoldoutDeltas,
             probability : Probabilities,
             bounded : BOOLEAN,       \* the interval stays above the non-inferiority margin
             powered : BOOLEAN]       \* the interval is narrow against the effect

\* The discovery reward of a segment's winner: no gain leaves the current config, a slight one
\* stays within 0.001.
SegmentEvidence == [enough : BOOLEAN, guarded : BOOLEAN, safe : BOOLEAN,
                    discovery : {"same", "slight", "more"}, holdout : HoldoutDeltas,
                    likely : BOOLEAN]

MinRequests == 4        \* MIN_BUSINESS_REQUESTS

\* temporal_request_split: a quarter of the requests, halves to even, at least one.
HoldoutRequests(n) ==
    LET quarter == n \div 4
        rest == n % 4
        rounded == IF rest = 3 \/ (rest = 2 /\ quarter % 2 = 1) THEN quarter + 1 ELSE quarter
    IN IF n < MinRequests THEN 0 ELSE LargerOf(1, SmallerOf(n - 2, rounded))

\* Labels are the labelled queries of search or the known users of recommend; requests are
\* the logged requests of the surface, none when the catalog has no RewardSpec; pairs are the
\* holdout requests that can be replayed, with a query or a user and a reward of some mass.
ASSUME ScenarioAssumption ==
    /\ NoRun \notin Runs /\ Whole \notin Segments
    /\ \A n \in DOMAIN Scenarios : LET s == Scenarios[n] IN
          /\ s.runs \subseteq Runs /\ s.crashes \in Nat /\ s.surfaces \subseteq Surfaces
          /\ s.backends \subseteq Backends /\ s.landscapes \subseteq DOMAIN Landscapes
          /\ s.evidence \subseteq Evidence /\ s.segments \subseteq SegmentEvidence
          /\ \A d \in s.data : /\ d.labels \in Nat /\ d.requests \in Nat
                              /\ d.pairs \in 0 .. HoldoutRequests(d.requests)

VARIABLES
    scenario,
    stage,              \* where the evolve action stands
    run, surface, data, \* whose action it is, and what it may learn from
    selected,           \* the winner of the search with its signature
    measured,           \* Evidence of the winner, as a set of at most one
    result,             \* the flags of the result
    entries,            \* the segment portfolio
    owed,               \* credit events still to be written
    credits,            \* agent_strategy_credit_events
    learned,            \* agent_skill_events: the stored results of a run's invocations
    mechanisms,         \* agent_mechanism_evidence
    ended,              \* runs that ended
    cycle,              \* the latest cycle in which a run came to its evolve action
    crashes

pipeline == <<run, surface, data, selected, measured, result, entries>>
ledgers == <<owed, credits, learned, mechanisms, ended>>
Scope == Scenarios[scenario]
vars == <<searchVars, scenario, stage, pipeline, ledgers, cycle, crashes>>

NotReady == [ready |-> FALSE, safe |-> FALSE, trusted |-> FALSE, business |-> FALSE,
             blockers |-> {}]
NoData == [labels |-> 0, requests |-> 0, pairs |-> 0]
Nothing == [config |-> Base, arms |-> {}, improved |-> FALSE, backend |-> "native"]

Init ==
    /\ Idle
    /\ scenario \in DOMAIN Scenarios
    /\ stage = "idle" /\ run = NoRun /\ surface = "search" /\ data = NoData
    /\ selected = Nothing /\ measured = {} /\ result = NotReady
    /\ entries = {} /\ owed = {}
    /\ credits = {} /\ learned = [r \in Runs |-> {}] /\ mechanisms = {} /\ ended = {}
    /\ cycle = [r \in Runs |-> 1] /\ crashes = 0

-----------------------------------------------------------------------------
(* Evidence. *)

MinEvidence == 3        \* MIN_SEARCH_EVIDENCE, MIN_RECOMMEND_EVIDENCE

\* _stable_split holds identities out only when there are four of them.
Independent(d) == d.labels >= 4

\* Both policies replay the same holdout requests and skip the same ones; one pair gives no
\* bootstrap interval.
PairedSamples(d) == d.pairs

Route(d) == IF d.requests < MinRequests THEN "proxy"
            ELSE IF d.labels < MinEvidence THEN "unguarded" ELSE "production"

\* business_validation.available
Business(d) == Route(d) \in {"unguarded", "production"}

-----------------------------------------------------------------------------
(* The evolve action up to its result. *)

\* A run that is resumed goes on after its last checkpoint, so an evolve action that left none
\* is executed again: in the cycle it was in, or in a later one if the learned bonuses of
\* the tools have changed meanwhile.  The cycle is part of the invocation id; of those that may
\* be told apart there is one more for every death of an executor.
Cycles(r) == cycle[r] .. crashes + 1
InCycle(r, k) == cycle' = [cycle EXCEPT ![r] = k]

\* What run r learned from its invocation in cycle k, at most one result.
Learned(r, k) == {x \in learned[r] : x.cycle = k}

\* An invocation that learned already gets its stored result back.
Replay(r) ==
    /\ stage = "idle" /\ r \notin ended
    /\ \E stored \in learned[r] :
          /\ stored.cycle \in Cycles(r) /\ InCycle(r, stored.cycle)
          /\ surface' = stored.surface /\ data' = stored.data /\ selected' = stored.selected
          /\ measured' = stored.measured /\ result' = stored.result /\ entries' = stored.entries
    /\ run' = r /\ stage' = "report"
    /\ UNCHANGED <<searchVars, scenario, ledgers, crashes>>

\* The invocation that comes to its search: in a cycle that learned nothing yet.
Invocation(r) ==
    /\ stage = "idle" /\ r \notin ended
    /\ \E k \in Cycles(r) : InCycle(r, k) /\ Learned(r, k) = {}

\* Too few labels or users: no search, and no candidate but the current config.
EvolveUnready(r, s, d) ==
    /\ Invocation(r) /\ d.labels < MinEvidence
    /\ run' = r /\ surface' = s /\ data' = d
    /\ stage' = "certificate"
    /\ UNCHANGED <<searchVars, scenario, selected, measured, result, entries, ledgers, crashes>>

Evolve(r, s, d, b, l) ==
    /\ Scope.searches /\ Invocation(r) /\ d.labels >= MinEvidence
    /\ Begin(b, l)
    /\ run' = r /\ surface' = s /\ data' = d
    /\ stage' = "search"
    /\ UNCHANGED <<scenario, selected, measured, result, entries, ledgers, crashes>>

\* What a search of backend b selects: config w, which gains so much over Base.
Choice(w, b, gain) ==
    [config |-> w, arms |-> Signature(Base, w), backend |-> b, improved |-> gain >= 1]

\* Where the search itself is not in question: all a search may return is a config that is
\* no worse than the surface it measured.
EvolveAtOnce(r, s, d, b, l, w) ==
    LET score == Landscapes[l].score IN
    /\ ~Scope.searches /\ Invocation(r) /\ d.labels >= MinEvidence
    /\ w \notin Landscapes[l].broken /\ \A c \in Surface : score[c] <= score[w]
    /\ selected' = Choice(w, b, score[w] - score[Base])
    /\ run' = r /\ surface' = s /\ data' = d
    /\ stage' = "gates"
    /\ UNCHANGED <<searchVars, scenario, measured, result, entries, ledgers, crashes>>

Search ==
    /\ stage = "search" /\ SearchStep
    /\ UNCHANGED <<scenario, stage, pipeline, ledgers, cycle, crashes>>

Select(w) ==
    /\ stage = "search" /\ phase = "done" /\ w \in Winners
    /\ selected' = Choice(w, backend, Score[w] - Score[Base])
    /\ stage' = "gates"
    /\ Forget
    /\ UNCHANGED <<scenario, run, surface, data, measured, result, entries, ledgers, cycle,
                   crashes>>

\* The safety gate: the proxy route and every recommend route take the narrow one.
Safe(e) ==
    IF Route(data) = "production"
    THEN /\ e.guard = "narrow" \/ (surface = "search" /\ e.guard = "wide")
         /\ e.holdout >= 1
    ELSE e.guard = "narrow"

\* The trust gate of the route.
Trusted(e) ==
    IF Route(data) = "production"
    THEN /\ e.full /\ e.discovered /\ e.holdout >= 2
         /\ PairedSamples(data) >= 2 /\ e.probability >= 1
    ELSE Independent(data) /\ selected.improved /\ e.gain

\* Without a pair there is no difference between the two holdout rewards.
Gates ==
    /\ stage = "gates"
    /\ \E e \in Scope.evidence :
          /\ Business(data) /\ PairedSamples(data) = 0 => e.holdout = 3
          /\ measured' = {e}
          /\ result' = [ready |-> TRUE, safe |-> Safe(e), trusted |-> Safe(e) /\ Trusted(e),
                        business |-> Route(data) = "production" /\ Safe(e) /\ Trusted(e),
                        blockers |-> {}]
    /\ stage' = "certificate"
    /\ UNCHANGED <<searchVars, scenario, run, surface, data, selected, entries, ledgers, cycle,
                   crashes>>

\* PairedTrustPolicy.assess; an unready result has no confidence to assess.
StatisticalBlockers ==
    IF measured = {} \/ PairedSamples(data) < 2 THEN {"paired_uncertainty_unavailable"}
    ELSE LET e == CHOOSE x \in measured : TRUE
         IN (IF e.probability < 2 THEN {"probability_positive_below_threshold"} ELSE {})
            \cup (IF ~e.bounded THEN {"paired_ci_crosses_noninferiority_margin"} ELSE {})
            \cup (IF ~e.powered /\ e.probability < 3 THEN {"paired_confidence_underpowered"}
                  ELSE {})

\* An unready result has no holdout, whatever the labels.
GuardrailBlockers ==
    IF result.ready /\ Independent(data) THEN {} ELSE {"domain_guardrail_holdout_unavailable"}

\* _trust_evidence_gate, on business evidence only: blockers take trust away and leave safety.
\* Mutant: forgets that the guardrail may have no holdout of its own.
CertificateOfPairsOnly ==
    /\ stage = "certificate"
    /\ result' = IF ~Business(data) \/ StatisticalBlockers = {} THEN result
                 ELSE [result EXCEPT !.trusted = FALSE, !.business = FALSE,
                                     !.blockers = StatisticalBlockers]
    /\ stage' = IF surface = "recommend" /\ result.ready THEN "relevance" ELSE "segments"
    /\ UNCHANGED <<searchVars, scenario, run, surface, data, selected, measured, entries,
                   ledgers, cycle, crashes>>
Certificate ==
    LET blockers == StatisticalBlockers \cup GuardrailBlockers
    IN /\ stage = "certificate"
       /\ result' = IF ~Business(data) \/ blockers = {} THEN result
                    ELSE [result EXCEPT !.trusted = FALSE, !.business = FALSE,
                                        !.blockers = blockers]
       /\ stage' = IF surface = "recommend" /\ result.ready THEN "relevance" ELSE "segments"
       /\ UNCHANGED <<searchVars, scenario, run, surface, data, selected, measured, entries,
                      ledgers, cycle, crashes>>

\* _recommend_relevance_gate: a material regression of warm relevance blocks the promotion,
\* whatever the reward says; too few slices block nothing.
Relevance(regressed) ==
    /\ stage = "relevance"
    /\ result' = IF ~regressed THEN result
                 ELSE [result EXCEPT !.safe = FALSE, !.trusted = FALSE, !.business = FALSE,
                                     !.blockers = @ \cup {"recommend_relevance_regression"}]
    /\ stage' = "segments"
    /\ UNCHANGED <<searchVars, scenario, run, surface, data, selected, measured, entries,
                   ledgers, cycle, crashes>>

-----------------------------------------------------------------------------
(* The segment portfolio. *)

Events(s, seg, arm, outcome) ==
    {e \in credits : e.surface = s /\ e.segment = seg /\ e.arm = arm /\ e.outcome = outcome}

\* Arms that failed in this segment at least twice more than they succeeded.
BlockedArms(s, seg) ==
    {arm \in UNION Signatures(Configs) :
        Cardinality(Events(s, seg, arm, "rejected"))
           - Cardinality(Events(s, seg, arm, "accepted")) >= 2}

\* The neighbourhood of the selected basin without the configs made of blocked arms only;
\* the current config always stays.
SegmentCandidates(s, seg) ==
    {c \in {Base, selected.config} \cup Neighbours(selected.config) :
        LET arms == Signature(Base, c)
        IN arms = {} \/ ~(arms \subseteq BlockedArms(s, seg))}

\* The entry of a segment: the candidate with the best discovery reward and what its holdout
\* shows; without a gain it is the current config.
Entry(seg, c, e) ==
    [segment |-> seg, config |-> c, evidence |-> e,
     safe |-> e.enough /\ e.guarded /\ e.safe,
     trusted |-> /\ e.enough /\ e.guarded /\ e.safe
                 /\ e.discovery = "more" /\ e.holdout >= 2 /\ e.likely]

Portfolio(chosen, e) ==
    {Entry(seg, chosen[seg], e[seg]) : seg \in Segments}

\* Every segment of the surface gets an entry when there is business evidence at all.
SegmentEntries ==
    /\ stage = "segments" /\ Business(data)
    /\ \E chosen \in [Segments -> Configs], e \in [Segments -> Scope.segments] :
          /\ \A seg \in Segments :
                /\ chosen[seg] \in SegmentCandidates(surface, seg)
                /\ e[seg].discovery = "same" <=> chosen[seg] = Base
          /\ entries' = Portfolio(chosen, e)
    /\ stage' = "credit"
    /\ UNCHANGED <<searchVars, scenario, run, surface, data, selected, measured, result, ledgers,
                   cycle, crashes>>

NoSegments ==
    /\ stage = "segments" /\ ~Business(data)
    /\ stage' = "credit"
    /\ UNCHANGED <<searchVars, scenario, pipeline, ledgers, cycle, crashes>>

-----------------------------------------------------------------------------
(* The credit of single arms. *)

\* The result names an independent holdout; an unready one names none.
HoldoutIndependent == result.ready /\ Independent(data)
HoldoutRegressed == Business(data) /\ \E e \in measured : e.holdout < 3

\* _global_credit_decision: trust is credited; a failed gate or any negative difference on the
\* holdout, however uncertain, is debited; the rest is neither.
GlobalDecision ==
    IF ~HoldoutIndependent \/ (Business(data) /\ PairedSamples(data) < 2) THEN "none"
    ELSE IF result.trusted THEN "accepted"
    ELSE IF HoldoutRegressed \/ ~result.safe THEN "rejected"
    ELSE "none"

SegmentDecision(x) ==
    IF ~x.evidence.enough \/ ~x.evidence.guarded THEN "none"
    ELSE IF x.trusted THEN "accepted"
    ELSE IF x.evidence.holdout < 3 \/ ~x.safe THEN "rejected"
    ELSE "none"

\* The key of a credit event is its content: the same evidence is the same event.
Event(seg, arm, outcome, config, basis) ==
    [surface |-> surface, segment |-> seg, arm |-> arm, outcome |-> outcome, config |-> config,
     basis |-> basis]

GlobalCredits ==
    {Event(Whole, arm, GlobalDecision, selected.config,
           [data |-> data, measured |-> measured, trusted |-> result.trusted,
            safe |-> result.safe]) :
        arm \in IF GlobalDecision = "none" THEN {} ELSE selected.arms}

SegmentCredits ==
    UNION {{Event(x.segment, arm, SegmentDecision(x), x.config, x.evidence) :
              arm \in IF SegmentDecision(x) = "none" THEN {} ELSE Signature(Base, x.config)} :
           x \in entries}

\* Mutant: done when the candidate of the whole surface earns nothing.
OweCreditOfTheWhole ==
    /\ stage = "credit"
    /\ owed' = IF GlobalCredits = {} THEN {} ELSE GlobalCredits \cup SegmentCredits
    /\ stage' = "record"
    /\ UNCHANGED <<searchVars, scenario, pipeline, credits, learned, mechanisms, ended, cycle,
                   crashes>>
\* record_evolution_result decides on everything the result says ...
OweCredit ==
    /\ stage = "credit"
    /\ owed' = GlobalCredits \cup SegmentCredits
    /\ stage' = "record"
    /\ UNCHANGED <<searchVars, scenario, pipeline, credits, learned, mechanisms, ended, cycle,
                   crashes>>

\* ... and writes one event per arm, the global ones first, each in a transaction of its own;
\* a known key is ignored.
RecordCredit(e) ==
    /\ stage = "record" /\ e \in owed
    /\ e.segment = Whole \/ \A x \in owed : x.segment # Whole
    /\ owed' = owed \ {e} /\ credits' = credits \cup {e}
    /\ UNCHANGED <<searchVars, scenario, stage, pipeline, learned, mechanisms, ended, cycle,
                   crashes>>

\* What a replay of the invocation finds.
Result == [cycle |-> cycle[run], surface |-> surface, data |-> data, selected |-> selected,
           measured |-> measured, result |-> result, entries |-> entries]

\* Mutant: remembers before the credit is written, so that a retry finds nothing to do.
RememberAtOnce ==
    /\ stage = "record"
    /\ learned' = IF ~result.trusted THEN learned
                  ELSE [learned EXCEPT ![run] = @ \cup {Result}]
    /\ stage' = IF owed = {} THEN "report" ELSE "record"
    /\ UNCHANGED <<searchVars, scenario, pipeline, owed, credits, mechanisms, ended, cycle,
                   crashes>>
\* A trusted result is remembered with the invocation, so that a retry gets it back.
Remember ==
    /\ stage = "record" /\ owed = {}
    /\ learned' = IF ~result.trusted THEN learned
                  ELSE [learned EXCEPT ![run] = @ \cup {Result}]
    /\ stage' = "report"
    /\ UNCHANGED <<searchVars, scenario, pipeline, owed, credits, mechanisms, ended, cycle,
                   crashes>>

-----------------------------------------------------------------------------
(* The mechanism evidence of the finished run. *)

GlobalOutcome ==
    IF result.trusted THEN "accepted"
    ELSE IF result.ready /\ (~result.safe \/ HoldoutRegressed \/ result.blockers # {})
    THEN "rejected" ELSE "inconclusive"

SegmentOutcome(x) ==
    IF x.trusted THEN "accepted"
    ELSE IF ~x.safe \/ x.evidence.holdout < 3 THEN "rejected" ELSE "inconclusive"

\* A third of the labels, at least one, is held out.
HoldoutLabels(n) == IF n < 4 THEN 0 ELSE LargerOf(1, SmallerOf(n \div 3, n - 2))

HoldoutEvidence == IF Business(data) THEN PairedSamples(data) ELSE HoldoutLabels(data.labels)

\* _qualified_for_transfer: rows that may teach later searches which pairs of arms to try.
GlobalQualified == GlobalOutcome # "inconclusive" /\ HoldoutIndependent /\ HoldoutEvidence >= 2
SegmentQualified(x) == /\ SegmentOutcome(x) # "inconclusive"
                       /\ x.evidence.enough /\ x.evidence.guarded

\* A row; its key is the invocation of the run, the segment, the context and the arm.  The arms
\* of a segment are those in which it departs from the selected candidate.
Row(seg, arm, outcome, qualified, config) ==
    [run |-> run, cycle |-> cycle[run], surface |-> surface, segment |-> seg, arm |-> arm,
     outcome |-> outcome, context |-> <<selected.backend, Route(data), data>>,
     qualified |-> qualified, config |-> config]

MechanismRows ==
    {Row(Whole, arm, GlobalOutcome, GlobalQualified, selected.config) : arm \in selected.arms}
    \cup UNION {{Row(x.segment, arm, SegmentOutcome(x), SegmentQualified(x), x.config) :
                    arm \in Signature(selected.config, x.config)} : x \in entries}

SameRow(m, n) == /\ m.run = n.run /\ m.cycle = n.cycle /\ m.surface = n.surface
                 /\ m.segment = n.segment /\ m.context = n.context /\ m.arm = n.arm

\* One transaction for the whole run; rows whose key is known are ignored.
ReportMechanisms ==
    /\ stage = "report"
    /\ mechanisms' = mechanisms \cup {m \in MechanismRows : \A n \in mechanisms : ~SameRow(m, n)}
    /\ stage' = "reported"
    /\ UNCHANGED <<searchVars, scenario, pipeline, owed, credits, learned, ended, cycle, crashes>>

\* The frame of the action is gone with the run, or with its executor.
Release == /\ run' = NoRun /\ surface' = "search" /\ data' = NoData /\ selected' = Nothing
           /\ measured' = {} /\ result' = NotReady /\ entries' = {} /\ owed' = {}
           /\ stage' = "idle"

\* The search raised: the tool call fails, and the run ends without an evolution result.
EvolveFailed ==
    /\ stage = "search" /\ phase = "raised"
    /\ ended' = ended \cup {run}
    /\ Release /\ Forget
    /\ UNCHANGED <<scenario, credits, learned, mechanisms, cycle, crashes>>

EndRun ==
    /\ stage = "reported"
    /\ ended' = ended \cup {run}
    /\ Release
    /\ UNCHANGED <<searchVars, scenario, credits, learned, mechanisms, cycle, crashes>>

Crash ==
    /\ stage # "idle" /\ crashes < Scope.crashes
    /\ crashes' = crashes + 1
    /\ Release /\ Forget
    /\ UNCHANGED <<scenario, credits, learned, mechanisms, ended, cycle>>

Start ==
    \E r \in Scope.runs \ ended :
       /\ stage = "idle"
       /\ \/ Replay(r)
          \/ \E s \in Scope.surfaces, d \in Scope.data :
                \/ EvolveUnready(r, s, d)
                \/ \E b \in Scope.backends, l \in Scope.landscapes :
                      Evolve(r, s, d, b, l) \/ \E w \in Configs : EvolveAtOnce(r, s, d, b, l, w)

Next ==
    \/ Start
    \/ Search
    \/ \E w \in Configs : Select(w)
    \/ EvolveFailed
    \/ Gates
    \/ Certificate
    \/ \E regressed \in BOOLEAN : Relevance(regressed)
    \/ SegmentEntries
    \/ NoSegments
    \/ OweCredit
    \/ \E e \in owed : RecordCredit(e)
    \/ Remember
    \/ ReportMechanisms
    \/ EndRun
    \/ Crash

\* An action in progress goes on: the loop is sequential code of one thread.
Spec == Init /\ [][Next]_vars /\ WF_vars(Search)

-----------------------------------------------------------------------------
(* What the pipeline and its ledgers promise. *)

\* Durable trust is granted on an independent holdout only, never to an unsafe candidate,
\* on business evidence only with the uncertainty certificate, and not against the relevance
\* guardrail, whose regression takes the safety away.  (_trust_evidence_gate,
\* _recommend_relevance_gate)
TrustedIsCertified ==
    stage \in {"segments", "credit", "record", "report", "reported"} /\ result.trusted
       => /\ result.safe /\ HoldoutIndependent /\ result.blockers = {}
          /\ result.business <=> Business(data)
          /\ Business(data) => StatisticalBlockers = {} /\ \A e \in measured : e.holdout >= 2

\* What an evolve action reports, at first hand or as the stored result after its executor
\* died, is in the credit ledger with every arm and segment that it decided on.
\* (record_evolution_result, remember_strategy, invocation_result)
ResultsAreCredited ==
    stage \in {"report", "reported"} => GlobalCredits \cup SegmentCredits \subseteq credits

\* The two ledgers agree on success: an arm the mechanism evidence of a run calls accepted has
\* the credit of that candidate, also after crashes and replays.  (record_evolution_result,
\* record_mechanism_evidence)
LedgersAgreeOnSuccess ==
    \A m \in mechanisms : m.segment = Whole /\ m.outcome = "accepted" =>
       \E e \in Events(m.surface, Whole, m.arm, "accepted") : e.config = m.config

\* docs/HARNESS_CONTRACT.md: an inconclusive low-confidence outcome is not mislabeled as failure;
\* a candidate that passed its gates is debited for its holdout only where the interval is
\* narrow against the difference.
LowConfidenceIsNoFailure ==
    \A e \in credits : e.segment = Whole /\ e.outcome = "rejected" /\ e.basis.safe =>
       \A x \in e.basis.measured : x.powered

\* The mechanism evidence that may block a pair of arms names only failures: what one run
\* calls rejected, the credit of arms calls rejected too.
FailuresAreFailures ==
    \A m \in mechanisms : m.segment = Whole /\ m.qualified /\ m.outcome = "rejected" =>
       \E e \in Events(m.surface, Whole, m.arm, "rejected") : e.config = m.config
=============================================================================
