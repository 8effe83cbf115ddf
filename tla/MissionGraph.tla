----------------------------- MODULE MissionGraph -----------------------------
(***************************************************************************)
(* The agent's reasoning loop (runtime/harness.py) over one run: a mission  *)
(* graph compiled from the capability contracts, the deliberation that      *)
(* picks a tool for an open requirement, the reflection that settles        *)
(* requirements, hypotheses and contradictions from its observation, the    *)
(* checkpoint after every reflection and the resume from it.                *)
(*                                                                          *)
(* An observation is the set of facts the rules read from a tool's result:  *)
(*   "seen"              the tool returned a result at all                  *)
(*   "rows"              it showed rows (they become evidence)              *)
(*   "poor"              a weak search or a cold / empty slate              *)
(*   "gap", "collapse"   an audit below its first / second threshold        *)
(*   "thin"              an audit below an evolution's gate                 *)
(*   "evaluation_ready"  an evolution had data to evaluate                  *)
(* Scores are in 1/100000; the learned bonus of a tool is anything within   *)
(* MaxBonus of zero at each decision, because every finishing run of every  *)
(* worker moves it in the shared memory.                                    *)
(*                                                                          *)
(* Definitions commented "Mutant" are plausible bugs in the definition that *)
(* follows; nothing uses them but the sanity check of the properties.       *)
(***************************************************************************)
EXTENDS Integers, FiniteSets, FiniteSetsExt

CONSTANTS
    Tools,          \* registered capability names
    Contracts,      \* [Tools -> capability contract]
    Outcomes,       \* [Tools -> the sets of facts its result may show]
    Plans,          \* the plans the policy may have made of the user's text
    MaxTools,       \* RunBudget.max_tools
    MaxCost,        \* RunBudget.max_cost
    MaxBonus,       \* the clamp of policy_bonus
    MaxCrashes,     \* bound: crashes of the worker during the run
    MaxFailures,    \* bound: failed actions of one run
    NoTool          \* no tool is executing; no action was taken yet

ASSUME ToolsAssumption == NoTool \notin Tools /\ IsFiniteSet(Tools)
ASSUME BudgetAssumption == MaxTools \in Nat /\ MaxCost \in Nat /\ MaxBonus \in Nat
ASSUME BoundAssumption == MaxCrashes \in Nat /\ MaxFailures \in Nat
ASSUME ContractAssumption == \A t \in Tools : Contracts[t].cost \in Nat
ASSUME OutcomeAssumption == \A t \in Tools : \A facts \in Outcomes[t] : "seen" \in facts

VARIABLES
    plan,           \* mode, explore, net: "denied", "permitted" or "requested"
    configured,     \* the tools registered in this runtime
    state,          \* the RunState in memory
    saved,          \* the last checkpoint
    pending,        \* the tool executing now
    journal,        \* agent_skill_events: invocation ids with a strategy written
    outcome,        \* how the loop ended
    crashes

vars == <<plan, configured, state, saved, pending, journal, outcome, crashes>>

(* CapabilityRegistry: the contracts by name, and by the requirement they    *)
(* serve; the registry refuses alternatives that disagree about it.          *)
Registry == [t \in Tools |-> Contracts[t]]

Keys == {Registry[t].key : t \in Tools}

Requirement == [k \in Keys |-> Registry[CHOOSE t \in Tools : Registry[t].key = k]]

Prerequisites(k) == Requirement[k].requires

Terminal == {"satisfied", "blocked"}
Statuses == Terminal \cup {"absent", "dormant", "open"}

ASSUME RegistryAssumption ==
    \A t, u \in Tools : Registry[t].key = Registry[u].key =>
        \A f \in {"domain", "priority", "requires", "dormant"} :
            Registry[t][f] = Registry[u][f]

-----------------------------------------------------------------------------
(* Mission compilation. *)

EnabledFor(t) ==
    /\ Registry[t].risk = "network" => plan.net # "denied"
    /\ \/ plan.mode \in Registry[t].base
       \/ plan.explore /\ plan.mode \in Registry[t].explore

Capable(k) == {t \in Tools : Registry[t].key = k /\ EnabledFor(t)}

MissionKeys == {k \in Keys : Capable(k) # {}}


CompiledStatus(k) ==
    IF k \notin MissionKeys THEN "absent"
    ELSE IF Requirement[k].dormant THEN "dormant"
    ELSE IF Prerequisites(k) \subseteq MissionKeys THEN "open" ELSE "blocked"

FreshState ==
    [status         |-> [k \in Keys |-> CompiledStatus(k)],
     belief         |-> [t \in Tools |-> "open"],
     contradictions |-> {},
     cycle          |-> 0,
     spent          |-> 0,
     actions        |-> [t \in Tools |-> "none"],
     observations   |-> [t \in Tools |-> {}],
     evidence       |-> {},
     last           |-> NoTool,
     stagnation     |-> 0]

Init ==
    /\ plan \in Plans
    /\ configured \in {Tools, {t \in Tools : Registry[t].risk # "network"}}
    /\ state = FreshState
    /\ saved = state
    /\ pending = NoTool
    /\ journal = {}
    /\ outcome = "running"
    /\ crashes = 0

-----------------------------------------------------------------------------
(* The trajectory critic. *)

\* Mutant: only high requirements hold a close back.
SeriousIfHigh(k) == Requirement[k].priority = "high"

Serious(k) == Requirement[k].priority \in {"critical", "high"}

DiagnosisOf(d) ==
    {k \in MissionKeys : /\ Requirement[k].domain = d
                         /\ Requirement[k].profile = "diagnosis"}

Investigated(s, d) == \E k \in DiagnosisOf(d) : s.status[k] \in Terminal

Ready(s) ==
    /\ \A k \in Keys : s.status[k] = "open" => ~Serious(k)
    /\ \A d \in s.contradictions : Investigated(s, d)

-----------------------------------------------------------------------------
(* Deliberation. *)

Unlocked(s, k) == \A p \in Prerequisites(k) : p \in Keys /\ s.status[p] = "satisfied"

GatePasses(s, t) == \A g \in Registry[t].gates : "thin" \notin s.observations[g]

Hopeless(s, k) ==
    \/ Capable(k) \cap configured = {}
    \/ Unlocked(s, k) /\ \A t \in Capable(k) \cap configured : ~GatePasses(s, t)

RefreshBlocked(s) ==
    [s EXCEPT !.status =
        [k \in Keys |-> IF s.status[k] = "open" /\ Hopeless(s, k)
                          THEN "blocked" ELSE s.status[k]]]

Candidate(s, t) ==
    LET k == Registry[t].key
    IN /\ s.status[k] = "open"
       /\ Unlocked(s, k)
       /\ t \in Capable(k) \cap configured
       /\ GatePasses(s, t)
       /\ s.actions[t] # "completed"

Candidates(s) == {t \in Tools : Candidate(s, t)}

Confidence(s, t) ==
    CASE s.belief[t] = "dismissed" -> 0
      [] s.belief[t] = "open"      -> Registry[t].prior
      [] s.belief[t] = "mild"      -> Registry[t].mild
      [] s.belief[t] = "strong"    -> Registry[t].strong

HypothesisPressure(s, d) ==
    Max({200} \cup {Confidence(s, t) : t \in {u \in Tools : /\ EnabledFor(u)
                                                           /\ Registry[u].domain = d}})

PriorityWeight == [critical |-> 1000, high |-> 820, medium |-> 620]
RiskPressure == [read |-> 0, simulation |-> 50, network |-> 100, adaptive |-> 160]

Novel(s, t) == s.last # NoTool /\ Registry[s.last].domain # Registry[t].domain

If(condition, value) == IF condition THEN value ELSE 0

Score(s, t) ==
    LET c == Registry[t]
        stale == Min({120, 40 * s.stagnation})
    IN 48 * PriorityWeight[c.priority]      \* 0.30 priority + 0.18 evidence gap
         + 22 * c.gain
         + 12 * HypothesisPressure(s, c.domain)
         + If(c.domain \in s.contradictions, 8000)
         + If(Novel(s, t), 5000)
         - (7000 * c.cost) \div 650
         - 5 * RiskPressure[c.risk]
         - If(s.actions[t] = "failed", 16000)
         - stale * (IF Novel(s, t) THEN 50 ELSE 100)

(* The tools some learned bonuses let win: one gets the largest, its rivals   *)
(* the smallest.  Equal scores are ordered by name, which is left open here. *)
Winners(s) ==
    LET score == [t \in Candidates(s) |-> Score(s, t)]
    IN {t \in Candidates(s) :
            \A u \in Candidates(s) \ {t} : score[t] + MaxBonus >= score[u] - MaxBonus}

Failed(s) == {t \in Tools : s.actions[t] = "failed"}

LocalEvidence(s) ==
    \/ "local" \in s.evidence
    \/ \E t \in Tools : Registry[t].profile = "audit" /\ s.actions[t] = "completed"

LocalEvidenceCanClose(s) == Ready(s) /\ Failed(s) = {} /\ LocalEvidence(s)

(* The policy's veto reads the critic's verdict of before RefreshBlocked.    *)
Declined(t) ==
    /\ Registry[t].risk = "network"
    /\ plan.net = "permitted"
    /\ LocalEvidenceCanClose(state)

-----------------------------------------------------------------------------
(* The loop. *)

AtLoopHead == outcome = "running" /\ pending = NoTool

Stop(why, s) ==
    /\ outcome' = why
    /\ state' = s
    /\ UNCHANGED <<plan, configured, saved, pending, journal, crashes>>

(* The tool or the time budget is used up.                                   *)
OutOfTime == AtLoopHead /\ Stop("budget", state)

(* decide() refreshes the blocked requirements first.  It never blocks one    *)
(* that has a candidate, so the candidates are those of the state before.    *)
Close ==
    /\ AtLoopHead
    /\ state.cycle < MaxTools
    /\ Candidates(state) = {}
    /\ Stop("closed", RefreshBlocked(state))

(* The winner is a request to the network that nobody asked for.             *)
Decline ==
    /\ AtLoopHead
    /\ state.cycle < MaxTools
    /\ \E t \in Winners(state) : Declined(t)
    /\ Stop("closed", RefreshBlocked(state))

CostExceeded ==
    /\ AtLoopHead
    /\ state.cycle < MaxTools
    /\ \E t \in Winners(state) :
          ~Declined(t) /\ state.spent + Registry[t].cost > MaxCost
    /\ Stop("budget", RefreshBlocked(state))

Decide ==
    /\ AtLoopHead
    /\ state.cycle < MaxTools
    /\ \E t \in Winners(state) :
          /\ ~Declined(t)
          /\ state.spent + Registry[t].cost <= MaxCost
          /\ pending' = t
    /\ state' = [RefreshBlocked(state) EXCEPT !.cycle = @ + 1]
    /\ UNCHANGED <<plan, configured, saved, journal, outcome, crashes>>

-----------------------------------------------------------------------------
(* Execution and reflection. *)

(* An evolution that found a trusted strategy remembers it under the         *)
(* invocation id run:cycle:tool, once per id.                                *)
Invocation == <<state.cycle, pending>>

RememberStrategy ==
    /\ pending # NoTool
    /\ Registry[pending].risk = "adaptive"
    /\ Invocation \notin journal
    /\ journal' = journal \cup {Invocation}
    /\ UNCHANGED <<plan, configured, state, saved, pending, outcome, crashes>>

Shown(t, facts) ==
    IF "rows" \notin facts THEN {}
    ELSE IF Registry[t].risk = "network" THEN {"external"} ELSE {"local"}

Consumed(s, t, facts) ==
    [s EXCEPT !.observations[t] = facts,
              !.spent = @ + Registry[t].cost,
              !.evidence = @ \cup Shown(t, facts)]

(* A collapsed audit contradicts a reproduction that looked fine before it.  *)
Contradicts(s, t, facts) ==
    /\ Registry[t].profile = "audit"
    /\ "collapse" \in facts
    /\ \E u \in Tools : /\ Registry[u].profile = "reproduction"
                        /\ Registry[u].domain = Registry[t].domain
                        /\ "seen" \in s.observations[u]
                        /\ "poor" \notin s.observations[u]

\* Mutant: only a poor reproduction calls for a diagnosis.
OpensDiagnosisIfPoor(s, t, facts) ==
    Registry[t].profile = "reproduction" /\ "poor" \in facts

OpensDiagnosis(s, t, facts) ==
    \/ Registry[t].profile = "reproduction" /\ "poor" \in facts
    \/ Contradicts(s, t, facts)

SettledAs(t, completed, facts) ==
    IF completed /\ Registry[t].needs \subseteq facts THEN "satisfied" ELSE "blocked"

StatusAfter(s, t, completed, facts) ==
    [k \in Keys |->
        IF k = Registry[t].key /\ s.status[k] = "open"
          THEN SettledAs(t, completed, facts)
        ELSE IF /\ completed
                /\ k \in DiagnosisOf(Registry[t].domain)
                /\ s.status[k] = "dormant"
                /\ OpensDiagnosis(s, t, facts)
          THEN "open"
        ELSE s.status[k]]

BeliefOn(facts) ==
    IF "collapse" \in facts THEN "strong"
    ELSE IF facts \cap {"poor", "gap"} # {} THEN "mild" ELSE "dismissed"

BeliefAfter(s, t, facts) ==
    IF Registry[t].profile \in {"reproduction", "audit"}
      THEN [s.belief EXCEPT ![t] = BeliefOn(facts)] ELSE s.belief

ContradictionsAfter(s, t, facts) ==
    LET d == Registry[t].domain
    IN IF Registry[t].profile = "diagnosis" THEN s.contradictions \ {d}
       ELSE s.contradictions \cup (IF Contradicts(s, t, facts) THEN {d} ELSE {})

Reflected(s, t, completed, facts) ==
    LET status == StatusAfter(s, t, completed, facts)
        belief == IF completed THEN BeliefAfter(s, t, facts) ELSE s.belief
        contradictions == IF completed THEN ContradictionsAfter(s, t, facts)
                                       ELSE s.contradictions
        progress == \/ status # s.status
                    \/ belief # s.belief
                    \/ ~(contradictions \subseteq s.contradictions)
    IN [s EXCEPT !.status = status, !.belief = belief,
                 !.contradictions = contradictions,
                 !.actions[t] = IF completed THEN "completed" ELSE "failed",
                 !.last = t,
                 !.stagnation = IF progress THEN 0 ELSE @ + 1]

(* The action is recorded, reflected on and checkpointed.                    *)
Record(s, completed, facts) ==
    /\ state' = Reflected(s, pending, completed, facts)
    /\ saved' = state'
    /\ pending' = NoTool
    /\ UNCHANGED <<plan, configured, journal, outcome, crashes>>

Complete ==
    /\ pending # NoTool
    /\ \E facts \in Outcomes[pending] :
        /\ Invocation \in journal => "evaluation_ready" \in facts
        /\ Record(Consumed(state, pending, facts), TRUE, facts)

MayFail == pending # NoTool /\ Cardinality(Failed(state)) < MaxFailures

ToolFails == MayFail /\ Record(state, FALSE, {})

(* The tool returned, but reading its result raised: the observation and     *)
(* the cost stay, the evidence may not.                                      *)
ConsumeFails ==
    /\ MayFail
    /\ \E facts \in Outcomes[pending] :
        LET s == Consumed(state, pending, facts)
        IN \E evidence \in {state.evidence, s.evidence} :
              Record([s EXCEPT !.evidence = evidence], FALSE, {})

(* The worker dies; another resumes from the checkpoint.                     *)
Crash ==
    /\ outcome = "running"
    /\ crashes < MaxCrashes
    /\ crashes' = crashes + 1
    /\ state' = saved
    /\ pending' = NoTool
    /\ UNCHANGED <<plan, configured, saved, journal, outcome>>

Next ==
    \/ OutOfTime
    \/ Close
    \/ Decline
    \/ CostExceeded
    \/ Decide
    \/ RememberStrategy
    \/ Complete
    \/ ToolFails
    \/ ConsumeFails
    \/ Crash

Spec == Init /\ [][Next]_vars

-----------------------------------------------------------------------------
(* What the shipped contracts keep to, and the registry does not enforce: the  *)
(* theorems about contradictions and critical facts are about registries that  *)
(* do.                                                                         *)

(* Every mission that takes in tool t takes in u too, and can run it.          *)
OfferedWith(u, t) ==
    /\ Registry[u].risk # "network"
    /\ Registry[t].base \subseteq Registry[u].base
    /\ Registry[t].explore \subseteq Registry[u].explore

(* The reflection rules are about one reproduction and one audit of a domain,  *)
(* and about its diagnosis, which waits dormant and ungated wherever a         *)
(* reproduction may call for it.                                               *)
DiagnosisContracts ==
    /\ \A t, u \in Tools : Registry[t].key = Registry[u].key =>
            Registry[t].profile = Registry[u].profile
    /\ \A t, u \in Tools :
            /\ Registry[t].profile \in {"reproduction", "audit"}
            /\ Registry[t].profile = Registry[u].profile
            /\ Registry[t].domain = Registry[u].domain
            => t = u
    /\ \A t \in Tools : Registry[t].profile = "diagnosis" =>
            /\ Registry[t].dormant
            /\ Registry[t].gates = {}
            /\ Registry[t].priority \in {"critical", "high"}
            /\ Registry[t].risk # "network"
    /\ \A t \in Tools : Registry[t].profile = "reproduction" =>
            \E u \in Tools : /\ Registry[u].profile = "diagnosis"
                             /\ Registry[u].domain = Registry[t].domain
                             /\ OfferedWith(u, t)

(* A critical fact is a matter of running its tool: nothing gates it, nothing  *)
(* is asked of its result, and a mission that has it has what it rests on.     *)
CriticalContracts ==
    \A t \in Tools : Registry[t].priority = "critical" =>
        /\ ~Registry[t].dormant
        /\ Registry[t].gates = {}
        /\ Registry[t].needs = {}
        /\ Registry[t].risk # "network"
        /\ \A p \in Registry[t].requires :
              \E u \in Tools : Registry[u].key = p /\ OfferedWith(u, t)

-----------------------------------------------------------------------------
(* Properties. *)

RunState ==
    [status         : [Keys -> Statuses],
     belief         : [Tools -> {"open", "mild", "strong", "dismissed"}],
     contradictions : SUBSET {Registry[t].domain : t \in Tools},
     cycle          : 0 .. MaxTools,
     spent          : Nat,
     actions        : [Tools -> {"none", "completed", "failed"}],
     observations   : [Tools -> (UNION {Outcomes[t] : t \in Tools}) \cup {{}}],
     evidence       : SUBSET {"local", "external"},
     last           : Tools \cup {NoTool},
     stagnation     : Nat]

(* The mission state has the shape the checkpoint serialises.                *)
TypeOK ==
    /\ plan \in Plans
    /\ configured \subseteq Tools
    /\ state \in RunState
    /\ saved \in RunState
    /\ pending \in Tools \cup {NoTool}
    /\ journal \subseteq (1 .. MaxTools) \X Tools
    /\ outcome \in {"running", "closed", "budget"}
    /\ crashes \in 0 .. MaxCrashes

Acted(s) == {t \in Tools : s.actions[t] # "none"}

(* No evidence is gathered, and none counted, before the evidence it rests   *)
(* on: prerequisites are satisfied when a tool runs and stay so, across a    *)
(* crash, a failed action and the opening of a dormant diagnosis.            *)
EvidenceInOrder ==
    \A k \in Keys : \A p \in Prerequisites(k) :
        \/ state.status[k] = "satisfied"
        \/ \E t \in Acted(state) \cup ({pending} \ {NoTool}) : Registry[t].key = k
        => p \in Keys /\ state.status[p] = "satisfied"

(* Each recorded action used another tool and settled its requirement, so a  *)
(* resumed run never replays one (HARNESS_CONTRACT H12) and a run cannot     *)
(* spin: it ends after as many actions as the mission has requirements.      *)
NoActionRepeated ==
    /\ state.cycle = Cardinality(Acted(state)) + (IF pending = NoTool THEN 0 ELSE 1)
    /\ pending \notin Acted(state)
    /\ \A t \in Acted(state) : state.status[Registry[t].key] \in Terminal
    /\ state.stagnation = 0

(* A material contradiction is retained with its diagnosis open or visibly   *)
(* blocked (HARNESS_CONTRACT H7): it never waits on a dormant requirement    *)
(* and never survives the diagnosis that answered it.                        *)
ContradictionOpensDiagnosis ==
    \A d \in state.contradictions :
        \E k \in DiagnosisOf(d) : state.status[k] \in {"open", "blocked"}

(* ResultVerifier.final: the checks that depend on the trajectory.           *)
Verified(s) ==
    /\ Acted(s) # {}
    /\ Failed(s) = {}
    /\ LocalEvidence(s)
    /\ Ready(s)

(* A run that ends verified established every critical fact of its mission,  *)
(* and left no contradiction without the diagnosis that investigates it.     *)
VerifiedMeansEstablished ==
    outcome # "running" /\ Verified(state) =>
        /\ \A k \in MissionKeys :
               Requirement[k].priority = "critical" => state.status[k] = "satisfied"
        /\ state.contradictions = {}

(* A requirement a checkpoint recorded as settled stays settled the same way *)
(* for the rest of the run, on this worker and on the one that resumes it.   *)
SettledStaysSettled ==
    [][\A k \in Keys : saved.status[k] \in Terminal =>
            /\ state'.status[k] = saved.status[k]
            /\ saved'.status[k] = saved.status[k]]_vars

=============================================================================
