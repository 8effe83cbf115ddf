----------------------------- MODULE AutoEvolution -----------------------------
(***************************************************************************)
(* An evolve action under the optimizer policy "auto": the backend is       *)
(* selected from the routing context and the credit of earlier runs before  *)
(* anything else, the action runs with it, the rows it paid for become      *)
(* observations, and what it cost and gained becomes credit of the backend. *)
(* In a scenario without the policy the action is that of Evolution.        *)
(*                                                                          *)
(* Definitions commented "Mutant" are plausible bugs in the definition that *)
(* follows; nothing uses them but the sanity check of the properties.       *)
(***************************************************************************)
EXTENDS Evolution, OptimizerSelection

CONSTANTS
    CapabilityChoices,  \* how many choices a capability has
    Feasible(_),        \* configs of a landscape that meet the discovery constraints
    Utilities,          \* utilities of a run to consider, in hundredths
    CreditReadBudget    \* READ_BUDGET

VARIABLES
    decision,           \* what _run_auto holds of the action under way
    observations,       \* surface -> agent_optimizer_observations
    optimizerEvents,    \* agent_optimizer_meta_events
    optimizerCredit     \* agent_optimizer_meta_credit

optimizer == <<decision, observations, optimizerEvents, optimizerCredit>>
autoVars == <<vars, optimizer>>

\* loads are the backends that would load; paid the rows of the search that still have to be
\* observed, fresh the number of those that were no part of the response surface.
NoDecision == [taken |-> FALSE, run |-> NoRun, surface |-> "search", data |-> NoData,
               backend |-> "native", context |-> {}, loads |-> {}, replayed |-> FALSE,
               paid |-> {}, spent |-> 0]

\* The key of an event: the invocation, of one cycle of a run, and its surface.
SameEvent(e, f) == e.run = f.run /\ e.cycle = f.cycle /\ e.surface = f.surface

\* policies: dependencies found and broken ones; histories: credit events that earlier runs
\* left, one for an invocation and surface; strategies: trusted strategies that they left, with their scores.
ASSUME AutoAssumption ==
    /\ CapabilityChoices \in [Capabilities -> Nat \ {0}] /\ CreditReadBudget \in Nat \ {0}
    /\ \A l \in DOMAIN Landscapes : Feasible(l) \subseteq Configs
    /\ \A n \in DOMAIN Scenarios : LET s == Scenarios[n] IN
          /\ s.auto \in BOOLEAN /\ (s.auto => ~s.searches)
          /\ \A i \in s.installs : i.broken \subseteq i.found
          /\ \A h \in s.histories :
                /\ IsFiniteSet(h)
                /\ \A e, f \in h : /\ e.backend = e.searched /\ e.utility \in 0 .. 100
                                   /\ SameEvent(e, f) => e = f

-----------------------------------------------------------------------------
(* The credit ledger. *)

SameAggregate(x, e) ==
    x.surface = e.surface /\ x.context = e.context /\ x.backend = e.backend

\* The row of an event with one more event in it, touched as the newest.
Aggregated(rows, e, now) ==
    LET old == {x \in rows : SameAggregate(x, e)}
    IN (rows \ old) \cup
       {[surface |-> e.surface, context |-> e.context, backend |-> e.backend,
         count |-> 1 + SumOf([x \in old |-> x.count]),
         utility |-> e.utility + SumOf([x \in old |-> x.utility]), touched |-> now]}

\* OptimizerMetaMemory.record, one transaction: a known event changes nothing.
RecordOptimizerCredit(e) ==
    IF \E f \in optimizerEvents : SameEvent(e, f)
    THEN UNCHANGED <<optimizerEvents, optimizerCredit>>
    ELSE /\ optimizerEvents' = optimizerEvents \cup {e}
         /\ optimizerCredit' = Aggregated(optimizerCredit, e, Cardinality(optimizerEvents) + 1)

\* OptimizerMetaMemory.read: the rows of the surface that were touched last.
History(s) ==
    LET rows == {x \in optimizerCredit : x.surface = s}
    IN {x \in rows : Cardinality({y \in rows : y.touched > x.touched}) < CreditReadBudget}

-----------------------------------------------------------------------------
(* The selection. *)

Weighted(rows) ==
    {[config |-> x.config, score |-> x.score, feasible |-> x.feasible,
      weight |-> EvidenceWeight(x.seen)] : x \in rows}

\* _landscape_observations: the trusted strategies, whose feasibility is not known; the score
\* of one that a run of the behaviour learned is that of its observation.
StrategyRows(s) ==
    LET mine == {x.selected.config : x \in {y \in UNION {learned[r] : r \in Runs} : y.surface = s}}
        new == {x \in observations[s] : x.config \in mine}
        Row_(x) == [config |-> x.config, score |-> x.score, feasible |-> "unknown",
                    weight |-> 100]
    IN {Row_(x) : x \in new}
       \cup {Row_(x) : x \in {y \in Scope.strategies : \A z \in new : z.config # y.config}}

\* The durable geometry, where the fences and the hysteresis of OptimizerRouting let it
\* through, else that of the strategies.
RoutingLandscapes(s) ==
    {Describe(StrategyRows(s))}
    \cup {l \in {DescribeWeighted(Weighted(observations[s]))} :
             MayStay(Weighted(observations[s])) /\ Informative(l)}

\* _business_ready asks for any logged request, not for as many as a replay needs.
EvidenceRoute(d) == IF d.requests > 0 THEN "production" ELSE "proxy"

\* _routing_context
AutoContext(s, d, landscape) ==
    RoutingContext(s, EvidenceRoute(d), CapabilityChoices, Cardinality(StrategyRows(s)), landscape)

\* _select_auto_backend, also for an action whose result will be a replay.
SelectAuto(r, s, d, install) ==
    /\ Scope.auto /\ stage = "idle" /\ ~decision.taken /\ r \notin ended
    /\ \A x \in learned[r] : x.surface = s /\ x.data = d
    /\ \E landscape \in RoutingLandscapes(s) :
          LET context == AutoContext(s, d, landscape)
              loads == Available(install.found \ install.broken)
          IN decision' = [NoDecision EXCEPT
                !.taken = TRUE, !.run = r, !.surface = s, !.data = d, !.context = context,
                !.loads = loads,
                !.backend = AutoBackend(Available(install.found), loads, context, History(s))]
    /\ UNCHANGED <<vars, observations, optimizerEvents, optimizerCredit>>

\* The rows of a search that chose w: the response surface and what was paid for beyond it,
\* at least w, at most every config.
PaidConfigs(l, w) ==
    {P \in {Surface \cup {w}, Configs \ Landscapes[l].broken} :
        \A c \in P : Landscapes[l].score[c] <= Landscapes[l].score[w]}

\* The action runs with the selected backend.
StartSelected ==
    LET r == decision.run
        s == decision.surface
        d == decision.data
    IN /\ decision.taken
       /\ \/ Replay(r) /\ decision' = [decision EXCEPT !.replayed = TRUE]
          \/ EvolveUnready(r, s, d) /\ UNCHANGED decision
          \/ \E l \in Scope.landscapes, w \in Configs :
                /\ EvolveAtOnce(r, s, d, decision.backend, l, w)
                /\ \E P \in PaidConfigs(l, w) :
                      decision' = [decision EXCEPT
                         !.paid = {[config |-> c, score |-> Landscapes[l].score[c],
                                    feasible |-> IF c \in Feasible(l) THEN "yes" ELSE "no"] :
                                   c \in P},
                         !.spent = Cardinality(P \ Surface)]
       /\ UNCHANGED <<observations, optimizerEvents, optimizerCredit>>

StartPlain == ~Scope.auto /\ Start /\ UNCHANGED optimizer

-----------------------------------------------------------------------------
(* After the search. *)

\* record_optimizer_observations, after the last credit of arms and before the strategy is
\* remembered: a known config has its latest score and is seen once more.
Observe ==
    LET s == decision.surface
        Seen(c) == MapThenSumSet(LAMBDA x : x.seen, {x \in observations[s] : x.config = c})
        configs == {x.config : x \in decision.paid}
    IN /\ stage = "record" /\ owed = {} /\ decision.paid # {}
       /\ observations' = [observations EXCEPT ![s] =
             {x \in @ : x.config \notin configs}
             \cup {[config |-> x.config, score |-> x.score, feasible |-> x.feasible,
                    seen |-> Seen(x.config) + 1] : x \in decision.paid}]
       /\ decision' = [decision EXCEPT !.paid = {}]
       /\ UNCHANGED <<vars, optimizerEvents, optimizerCredit>>

RememberObserved == decision.paid = {} /\ Remember /\ UNCHANGED optimizer

\* The event of the action under way; searched names the backend that found the result.
OptimizerEvent(utility) ==
    [run |-> run, cycle |-> cycle[run], surface |-> decision.surface,
     context |-> ContextKey(decision.context), backend |-> decision.backend,
     utility |-> utility, searched |-> selected.backend]

\* Mutant: the cost of a replayed search counts as the cost of the action.
UtilitiesOfReplay ==
    IF decision.replayed THEN Utilities \cap RunUtilities(selected.improved, 1)
    ELSE Utilities \cap RunUtilities(selected.improved, decision.spent)
\* A replay earns nothing, nor does a search without a new evaluation.
RunUtility ==
    IF decision.replayed THEN {}
    ELSE Utilities \cap RunUtilities(selected.improved, decision.spent)

\* The end of _run_auto: the backend is rated once the tool has its result.
RateOptimizer ==
    /\ stage = "report" /\ decision.taken
    /\ IF RunUtility = {} THEN UNCHANGED <<optimizerEvents, optimizerCredit>>
       ELSE \E u \in RunUtility : RecordOptimizerCredit(OptimizerEvent(u))
    /\ decision' = NoDecision
    /\ UNCHANGED <<vars, observations>>

ReportRated == ~decision.taken /\ ReportMechanisms /\ UNCHANGED optimizer

\* What _run_auto held is gone with the executor: a credit it did not record is lost.
CrashAuto == Crash /\ decision' = NoDecision
                   /\ UNCHANGED <<observations, optimizerEvents, optimizerCredit>>

AutoSearch == Search /\ UNCHANGED optimizer

Judged ==
    /\ \/ \E w \in Configs : Select(w)
       \/ EvolveFailed
       \/ Gates
       \/ Certificate
       \/ \E regressed \in BOOLEAN : Relevance(regressed)
       \/ SegmentEntries
       \/ NoSegments
       \/ OweCredit
       \/ \E e \in owed : RecordCredit(e)
       \/ EndRun
    /\ UNCHANGED optimizer

AutoInit ==
    /\ Init
    /\ decision = NoDecision /\ observations = [s \in Surfaces |-> {}]
    /\ optimizerEvents \in Scope.histories
    /\ optimizerCredit = {[surface |-> e.surface, context |-> e.context, backend |-> e.backend,
                           count |-> Cardinality({f \in optimizerEvents : SameAggregate(e, f)}),
                           utility |-> SumOf([f \in {f \in optimizerEvents : SameAggregate(e, f)} |->
                                                f.utility]),
                           touched |-> 0] : e \in optimizerEvents}

AutoNext ==
    \/ \E r \in Scope.runs, s \in Scope.surfaces, d \in Scope.data, install \in Scope.installs :
          SelectAuto(r, s, d, install)
    \/ StartSelected
    \/ StartPlain
    \/ AutoSearch
    \/ Judged
    \/ Observe
    \/ RememberObserved
    \/ RateOptimizer
    \/ ReportRated
    \/ CrashAuto

AutoSpec == AutoInit /\ [][AutoNext]_autoVars /\ WF_autoVars(AutoSearch)

-----------------------------------------------------------------------------
(* What the policy promises. *)

\* An invocation is one trial on a surface, however often the run came to it, and its credit
\* goes to the backend whose search found the result, also when the executor died and another
\* backend was selected for the execution that got the stored result back.  (_run_auto)
OptimizerCreditIsEarned ==
    \A e \in optimizerEvents :
       /\ e.backend = e.searched
       /\ \A f \in optimizerEvents : SameEvent(e, f) => e = f

\* docs/HARNESS_CONTRACT.md: adaptive writes are idempotent under replay, so that a run is one
\* trial on a surface, in whatever cycle its evolve action is executed again.
RunsAreOneTrial ==
    \A e, f \in optimizerEvents : e.run = f.run /\ e.surface = f.surface => e = f

\* The policy leaves the backend that the prior prefers among those that load only on credit
\* that one of the two earned in a context at least half alike.  (_history_adjustment,
\* _history_similarity, _select_auto_backend)
SwitchesRestOnEvidence ==
    LET favourite == PriorFavourite(decision.loads, decision.context)
    IN decision.taken /\ stage = "idle" /\ decision.backend # favourite =>
          \E e \in optimizerEvents :
             /\ e.surface = decision.surface /\ e.backend \in {decision.backend, favourite}
             /\ \/ e.context = ContextKey(decision.context)
                \/ ScaledSimilarity(e.context, decision.context) >= 5000
=============================================================================
