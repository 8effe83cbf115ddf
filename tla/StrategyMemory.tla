----------------------------- MODULE StrategyMemory -----------------------------
(***************************************************************************)
(* The durable strategy memory of one surface and the executors that share *)
(* it: agent_skills with its trusted, active and retired rows, the replay   *)
(* rows of agent_skill_events, and the idempotent credit ledger.            *)
(*                                                                          *)
(* An executor loads the active strategies (global and per segment), checks *)
(* the stale ones, evolves once, remembers what the evolution trusted and   *)
(* finishes its run; a run whose executor died is executed again.  Each     *)
(* action is one transaction, so that executors of different runs           *)
(* interleave between the reads, the writes and the credit of a rollback.   *)
(* Of an evaluation only what memory does with it is kept (Results).        *)
(*                                                                          *)
(* Definitions commented "Mutant" are plausible bugs in the definition that *)
(* follows; nothing uses them but the sanity check of the properties.       *)
(***************************************************************************)
EXTENDS Naturals, FiniteSets

CONSTANTS
    Configs,            \* strategies an evolution may find
    Default,            \* the config of the surface without memory
    Obsolete,           \* configs that the current schema would canonicalise
    Segments,           \* request segments
    Global,             \* the domain of the global strategy
    Results,            \* what an evaluation may conclude
    Seeds,              \* the strategies an older process may have left active
    Runs, Executors,    \* runs, and attempts to execute them
    RunOf,              \* the run of an attempt
    Builders,           \* attempts whose registry is built anew, not forked
    Activating,         \* runs whose evolve action asks to activate
    LastCycle,          \* bound on the cycle in which a run executes its evolve action
    TrustedBudget,      \* TRUSTED_SKILL_BUDGET
    RetiredBudget,      \* RETIRED_SKILL_BUDGET
    MaxLapses           \* bound on the times the validation TTL passes

Domains == Segments \cup {Global}

\* A result: the candidate, whether it is trusted, the credit it earns, and per segment
\* that was decided its candidate and whether that one is trusted.
ASSUME ResultsAssumption ==
    \A res \in Results :
       /\ res.config \in Configs \ Obsolete
       /\ res.trusted \in BOOLEAN /\ res.outcome \in {"accepted", "rejected", "none"}
       /\ res.trusted => res.outcome = "accepted"
       /\ DOMAIN res.entries \subseteq Segments
       /\ \A s \in DOMAIN res.entries :
             /\ res.entries[s].config \in Configs \ Obsolete
             /\ res.entries[s].trusted \in BOOLEAN
ASSUME SeedsAssumption ==
    \A seed \in Seeds : \A d \in Domains :
       seed[d] \subseteq Configs /\ \A b, c \in seed[d] : b = c
ASSUME RunsAssumption ==
    /\ RunOf \in [Executors -> Runs] /\ Activating \subseteq Runs
    /\ LastCycle \in [Runs -> Nat \ {0}]
ASSUME DomainsAssumption == Global \notin Segments /\ Default \notin Obsolete
ASSUME BudgetsAssumption ==
    TrustedBudget \in Nat \ {0} /\ RetiredBudget \in Nat /\ MaxLapses \in Nat

VARIABLES
    skills,             \* agent_skills: per domain the rows, by config
    events,             \* agent_skill_events
    credits,            \* agent_strategy_credit_events
    finished,           \* runs whose final checkpoint is durable
    ex,                 \* what every executor holds in memory
    cycle,              \* the latest cycle in which a run came to its evolve action
    counted,            \* how often an invocation counted a win in a domain
    lapses

vars == <<skills, events, credits, finished, ex, cycle, counted, lapses>>

\* A row; base is the global strategy its last measurement was made against.
Row == [status : {"trusted", "active", "retired"}, wins : Nat, fresh : BOOLEAN,
        rolled : BOOLEAN, base : Configs \cup {Default}]

\* The invocation id of the evolve action of run r in cycle k, and of what it remembers in d.
Cycles(r) == 1 .. LastCycle[r]
Invocation(r, k, d) == [run |-> r, cycle |-> k, domain |-> d]
Credit(d, c, outcome) == [domain |-> d, config |-> c, outcome |-> outcome]

With(f, k, v) == [x \in DOMAIN f \cup {k} |-> IF x = k THEN v ELSE f[x]]
Without(f, S) == [x \in DOMAIN f \ S |-> f[x]]

\* active_skill: the active row of a domain, as a set of at most one config.
Those(t, d, status) == {c \in DOMAIN t[d] : t[d][c].status = status}
ActiveSkill(d) == IF Those(skills, d, "active") = {} THEN {}
                  ELSE {CHOOSE c \in Those(skills, d, "active") : TRUE}

-----------------------------------------------------------------------------
(* remember_strategy: one transaction.                                      *)

Written(t, d, c, row) == [t EXCEPT ![d] = With(@, c, row)]

\* Mutant: the strategy that was active stays active.
DemotedNever(t, d) == t[d]

\* update ... set status='trusted' where status='active'
Demoted(t, d) ==
    [x \in DOMAIN t[d] |->
       IF t[d][x].status = "active" THEN [t[d][x] EXCEPT !.status = "trusted"] ELSE t[d][x]]

\* The row after insert ... on conflict do update: a row keeps its status unless the
\* strategy is activated; the payload, with its validation time, is always replaced.
Upserted(f, c, status, base) ==
    LET old == IF c \in DOMAIN f THEN f[c].wins ELSE 0
    IN [status |-> IF c \in DOMAIN f /\ status # "active" THEN f[c].status ELSE status,
        wins |-> old + 1, fresh |-> status = "active", rolled |-> FALSE, base |-> base]

\* The tables where the trusted rows of d beyond the budget are retired; the order by score
\* may keep any of them.
TrustedCuts(t, d) ==
    LET trusted == Those(t, d, "trusted")
    IN {[t EXCEPT ![d] = [c \in DOMAIN t[d] |->
            IF c \in trusted \ keep THEN [t[d][c] EXCEPT !.status = "retired"] ELSE t[d][c]]] :
          keep \in {S \in SUBSET trusted :
                      Cardinality(S) = IF Cardinality(trusted) < TrustedBudget
                                       THEN Cardinality(trusted) ELSE TrustedBudget}}

\* Mutant: a replay row is not looked for.
SeenNever(r, k, d) == FALSE

\* The invocation has a replay row whose strategy is still there.
Seen(r, k, d) ==
    \E v \in events : v.key = Invocation(r, k, d) /\ v.config \in DOMAIN skills[d]

\* Remembering c in domain d for the evolve action of run r; res is what a replay will return
\* (base, the engine it was measured against, is not stored: it is kept for the properties).
Remember(r, d, c, activate, base, res) ==
    IF Seen(r, cycle[r], d) THEN UNCHANGED <<skills, events, counted>>
    ELSE LET id == Invocation(r, cycle[r], d)
             status == IF activate THEN "active" ELSE "trusted"
             t1 == IF activate THEN [skills EXCEPT ![d] = Demoted(skills, d)] ELSE skills
             t2 == Written(t1, d, c, Upserted(t1[d], c, status, base))
         IN /\ skills' \in TrustedCuts(t2, d)
            /\ events' = IF \E v \in events : v.key = id THEN events
                         ELSE events \cup {[key |-> id, config |-> c, base |-> base,
                                             result |-> res]}
            /\ counted' = [counted EXCEPT ![r][cycle[r]][d] = @ + 1]

-----------------------------------------------------------------------------
(* Loading the active strategies.                                           *)

None == [config |-> Default, trusted |-> FALSE, outcome |-> "none", entries |-> <<>>]
NoJob == [domain |-> Global, outer |-> {}, inner |-> {}, back |-> "idle"]
Idle == [pc |-> "idle", engine |-> Default, portfolio |-> <<>>, todo |-> {}, stale |-> <<>>,
         judged |-> {}, due |-> FALSE, result |-> None, base |-> Default, activated |-> FALSE,
         after |-> "check", job |-> NoJob]

\* An executor goes on when it has loaded, checked or judged every segment.
Settled(x) ==
    LET loaded  == IF x.pc = "segments" /\ x.todo = {}
                   THEN [x EXCEPT !.pc = x.after,
                           !.todo = IF x.after = "check" THEN DOMAIN x.portfolio ELSE {}]
                   ELSE x
        checked == IF loaded.pc = "check" /\ loaded.todo = {}
                   THEN [loaded EXCEPT !.pc = "judge"] ELSE loaded
    IN IF checked.pc = "judge" /\ checked.stale = <<>>
       THEN [checked EXCEPT !.pc = "ready"] ELSE checked

Become(e, x)  == ex' = [ex EXCEPT ![e] = Settled(x)]
Goto(e, pc)   == Become(e, [ex[e] EXCEPT !.pc = pc])
\* Calling retire_active on domain d, to continue at back with the executor state x.
Retire(e, x, d, back) ==
    ex' = [ex EXCEPT ![e] = [x EXCEPT !.pc = "outer",
                               !.job = [NoJob EXCEPT !.domain = d, !.back = back]]]
Wants(e) == RunOf[e] \in Activating

\* The run is not finished and its earlier executors are dead.
MayStart(e) ==
    /\ ex[e].pc = "idle"
    /\ RunOf[e] \notin finished
    /\ \A f \in Executors \ {e} : RunOf[f] = RunOf[e] => ex[f].pc \in {"idle", "dead"}

\* _load_config: a registry is forked, or built anew, in which case its global strategy
\* is validated as well.
Start(e) ==
    /\ MayStart(e)
    /\ LET a     == ActiveSkill(Global)
           first == IF e \in Builders THEN "business" ELSE "segments"
           x     == [ex[e] EXCEPT !.pc = first, !.todo = Segments]
       IN IF a \cap Obsolete # {} THEN Retire(e, x, Global, first)
          ELSE ex' = [ex EXCEPT ![e] =
                        [x EXCEPT !.engine = IF a = {} THEN Default ELSE CHOOSE c \in a : TRUE]]
    /\ UNCHANGED <<skills, events, credits, finished, cycle, counted, lapses>>

Due(a) == \E c \in a : ~skills[Global][c].fresh

\* The business check runs before the core check and never refreshes a strategy itself; a
\* strategy it passes is remembered in judged.
ValidateBusiness(e) ==
    LET a == ActiveSkill(Global)
        x == [ex[e] EXCEPT !.pc = "core", !.due = Due(a)]
    IN /\ ex[e].pc = "business"
       /\ \/ ex' = [ex EXCEPT ![e] = x]                   \* fresh, or no evidence
          \/ Due(a) /\ ex' = [ex EXCEPT ![e] = [x EXCEPT !.judged = a]]
          \/ Due(a) /\ Retire(e, [x EXCEPT !.engine = Default], Global, "core")
       /\ UNCHANGED <<skills, events, credits, finished, cycle, counted, lapses>>

\* mark_skill_validation on the row that was read; the measurement was made with the
\* engine's own config against the default.
Marked(t, d, c, measured, base) ==
    IF c \notin DOMAIN t[d] THEN t
    ELSE [t EXCEPT ![d][c].fresh = TRUE, ![d][c].base = IF measured THEN base ELSE @]

\* The core check reads the active strategy, then judges the engine ("coreJudge").
ReadCore(e) ==
    LET a == ActiveSkill(Global)
    IN /\ ex[e].pc = "core"
       /\ IF Due(a) THEN ex' = [ex EXCEPT ![e].pc = "coreJudge",
                                          ![e].stale = [d \in {Global} |-> a]]
          ELSE Goto(e, "relevance")
       /\ UNCHANGED <<skills, events, credits, finished, cycle, counted, lapses>>

JudgeCore(e) ==
    LET x == [ex[e] EXCEPT !.stale = <<>>]
        c == CHOOSE y \in ex[e].stale[Global] : TRUE
    IN /\ ex[e].pc = "coreJudge"
       /\ \/ Retire(e, [x EXCEPT !.engine = Default], Global, "relevance") /\ UNCHANGED skills
          \/ /\ skills' = Marked(skills, Global, c, FALSE, Default)
             /\ ex' = [ex EXCEPT ![e] = [x EXCEPT !.pc = "relevance"]]
       /\ UNCHANGED <<events, credits, finished, cycle, counted, lapses>>

\* The relevance check of a recommendation strategy, due if the whole validation was due.
ValidateRelevance(e) ==
    LET a == ActiveSkill(Global)
        x == [ex[e] EXCEPT !.pc = "merge"]
    IN /\ ex[e].pc = "relevance"
       /\ \/ ex' = [ex EXCEPT ![e] = x] /\ UNCHANGED skills       \* the search surface
          \/ /\ ex[e].due /\ a # {} /\ UNCHANGED skills
             /\ Retire(e, [x EXCEPT !.engine = Default], Global, "merge")
          \/ /\ ex[e].due /\ a # {} /\ ex[e].judged = {}
             /\ skills' = Marked(skills, Global, CHOOSE c \in a : TRUE, FALSE, Default)
             /\ ex' = [ex EXCEPT ![e] = x]
       /\ UNCHANGED <<events, credits, finished, cycle, counted, lapses>>

\* A strategy that also passed the business check is marked once more, if still active.
MergeValidation(e) ==
    LET a == ActiveSkill(Global)
    IN /\ ex[e].pc = "merge"
       /\ skills' = IF ex[e].judged # {} /\ a = ex[e].judged
                    THEN Marked(skills, Global, CHOOSE c \in a : TRUE, FALSE, Default)
                    ELSE skills
       /\ Become(e, [ex[e] EXCEPT !.pc = "segments", !.judged = {}, !.due = FALSE])
       /\ UNCHANGED <<events, credits, finished, cycle, counted, lapses>>

\* _load_segment_config, one segment at a time.
LoadSegment(e, s) ==
    LET a == ActiveSkill(s)
        x == [ex[e] EXCEPT !.todo = @ \ {s}, !.portfolio = Without(@, {s})]
    IN /\ ex[e].pc = "segments" /\ s \in ex[e].todo
       /\ IF a \cap Obsolete # {} THEN Retire(e, x, s, "segments")
          ELSE Become(e, IF a = {} THEN x
                         ELSE [x EXCEPT !.portfolio = With(@, s, CHOOSE c \in a : TRUE)])
       /\ UNCHANGED <<skills, events, credits, finished, cycle, counted, lapses>>

\* _validate_active_portfolio first reads which loaded segments have a stale strategy ...
CheckSegment(e, s) ==
    LET a == ActiveSkill(s)
        due == \E c \in a : ~skills[s][c].fresh
    IN /\ ex[e].pc = "check" /\ s \in ex[e].todo
       /\ Become(e, [ex[e] EXCEPT !.todo = @ \ {s},
                                  !.stale = IF due THEN With(@, s, a) ELSE @])
       /\ UNCHANGED <<skills, events, credits, finished, cycle, counted, lapses>>

\* ... then measures the loaded config of each against the global engine.
JudgeSegment(e, s) ==
    LET c == CHOOSE y \in ex[e].stale[s] : TRUE
        x == [ex[e] EXCEPT !.stale = Without(@, {s})]
    IN /\ ex[e].pc = "judge" /\ s \in DOMAIN ex[e].stale
       /\ \/ /\ Retire(e, [x EXCEPT !.portfolio = Without(@, {s})], s, "judge")
             /\ UNCHANGED skills
          \/ /\ skills' = Marked(skills, s, c, c = ex[e].portfolio[s], ex[e].engine)
             /\ Become(e, x)
       /\ UNCHANGED <<events, credits, finished, cycle, counted, lapses>>

-----------------------------------------------------------------------------
(* retire_active: the credited memory reads the active strategy, the plain  *)
(* memory below it reads it again and retires what it read, and the credit  *)
(* goes to what was read first.                                             *)

ReadOuter(e) ==
    /\ ex[e].pc = "outer"
    /\ ex' = [ex EXCEPT ![e].pc = "inner", ![e].job.outer = ActiveSkill(ex[e].job.domain)]
    /\ UNCHANGED <<skills, events, credits, finished, cycle, counted, lapses>>

ReadInner(e) ==
    LET a == ActiveSkill(ex[e].job.domain)
    IN /\ ex[e].pc = "inner"
       /\ Become(e, IF a = {} THEN [ex[e] EXCEPT !.pc = ex[e].job.back, !.job = NoJob]
                    ELSE [ex[e] EXCEPT !.pc = "retire", !.job.inner = a])
       /\ UNCHANGED <<skills, events, credits, finished, cycle, counted, lapses>>

\* update ... set status='retired' where fingerprint=?, whatever the status is now.
WriteRetired(e) ==
    LET j == ex[e].job
    IN /\ ex[e].pc = "retire"
       /\ skills' = [skills EXCEPT ![j.domain] =
                       [c \in DOMAIN @ |-> IF c \in j.inner
                          THEN [@[c] EXCEPT !.status = "retired", !.rolled = TRUE] ELSE @[c]]]
       /\ Become(e, IF j.outer = {} THEN [ex[e] EXCEPT !.pc = j.back, !.job = NoJob]
                    ELSE [ex[e] EXCEPT !.pc = "credit", !.job.inner = {}])
       /\ UNCHANGED <<events, credits, finished, cycle, counted, lapses>>

CreditRollback(e) ==
    LET j == ex[e].job
    IN /\ ex[e].pc = "credit"
       /\ credits' = credits \cup {Credit(j.domain, c, "rollback") : c \in j.outer}
       /\ Become(e, [ex[e] EXCEPT !.pc = j.back, !.job = NoJob])
       /\ UNCHANGED <<skills, events, finished, cycle, counted, lapses>>

-----------------------------------------------------------------------------
(* The evolve action of a run.                                              *)

\* A run that is resumed goes on after its last checkpoint, so an evolve action that left none
\* is executed again: in the cycle it was in, or in a later one if the learned bonuses of
\* the tools have changed meanwhile.  A cycle that left no replay row is not told apart from
\* a later one, since nothing in the tables bears its id.
InCycle(e, k) ==
    /\ k \in Cycles(RunOf[e]) /\ k >= cycle[RunOf[e]]
    /\ k > cycle[RunOf[e]] =>
          \E v \in events : v.key.run = RunOf[e] /\ v.key.cycle = cycle[RunOf[e]]
    /\ cycle' = [cycle EXCEPT ![RunOf[e]] = k]

\* invocation_result: the run evolved in this cycle before and its strategy is still there.
Replay(e) ==
    /\ ex[e].pc = "ready"
    /\ \E v \in events :
          /\ InCycle(e, v.key.cycle)
          /\ v.key = Invocation(RunOf[e], v.key.cycle, Global)
          /\ v.config \in DOMAIN skills[Global]
          /\ LET active == skills[Global][v.config].status = "active"
             IN ex' = [ex EXCEPT ![e].pc = "remember", ![e].todo = DOMAIN v.result.entries,
                  ![e].result = v.result, ![e].activated = active, ![e].base = v.base,
                  ![e].engine = IF active THEN v.result.config ELSE @]
    /\ UNCHANGED <<skills, events, credits, finished, counted, lapses>>

\* The evaluation, against the engine as it is now.
Evolve(e) ==
    /\ ex[e].pc = "ready"
    /\ \E k \in Cycles(RunOf[e]) : InCycle(e, k) /\ ~Seen(RunOf[e], k, Global)
    /\ \E res \in Results :
          ex' = [ex EXCEPT ![e].pc = "learn", ![e].result = res, ![e].base = ex[e].engine]
    /\ UNCHANGED <<skills, events, credits, finished, counted, lapses>>

\* record_evolution_result: the credit of the candidate and of its decided segments.
Earned(res) ==
    {Credit(Global, c, res.outcome) : c \in IF res.outcome = "none" THEN {} ELSE {res.config}}
    \cup {Credit(s, res.entries[s].config,
                 IF res.entries[s].trusted THEN "accepted" ELSE "rejected") :
            s \in DOMAIN res.entries}

\* Several events, each in its own transaction and idempotent by its key.
RecordCredit(e) ==
    LET x == ex[e]
    IN /\ x.pc = "learn"
       /\ IF Earned(x.result) \subseteq credits
          THEN /\ UNCHANGED credits
               /\ ex' = [ex EXCEPT ![e].pc = IF x.result.trusted THEN "global" ELSE "remember",
                                   ![e].todo = DOMAIN x.result.entries]
          ELSE /\ \E k \in Earned(x.result) \ credits : credits' = credits \cup {k}
               /\ UNCHANGED ex
       /\ UNCHANGED <<skills, events, finished, cycle, counted, lapses>>

RememberGlobal(e) ==
    LET x == ex[e]
    IN /\ x.pc = "global"
       /\ Remember(RunOf[e], Global, x.result.config, Wants(e), x.base, x.result)
       /\ ex' = [ex EXCEPT ![e].pc = "remember", ![e].activated = Wants(e),
                           ![e].engine = IF Wants(e) THEN x.result.config ELSE @]
       /\ UNCHANGED <<credits, finished, cycle, lapses>>

\* A trusted segment becomes active only when the global strategy was left alone.
RememberSegment(e, s) ==
    LET x == ex[e]
    IN /\ x.pc = "remember" /\ s \in x.todo
       /\ IF x.result.entries[s].trusted
          THEN Remember(RunOf[e], s, x.result.entries[s].config, Wants(e) /\ ~x.activated,
                        x.base, None)
          ELSE UNCHANGED <<skills, events, counted>>
       /\ ex' = [ex EXCEPT ![e].todo = @ \ {s}]
       /\ UNCHANGED <<credits, finished, cycle, lapses>>

\* _refresh_portfolio after an activation: the segments are loaded, not validated.
Evolved(e) ==
    LET x == ex[e]
        learned == \E s \in DOMAIN x.result.entries : x.result.entries[s].trusted
        refresh == x.activated \/ (Wants(e) /\ learned)
    IN /\ x.pc = "remember" /\ x.todo = {}
       /\ Become(e, [x EXCEPT !.after = "serve", !.result = None, !.base = Default,
                      !.pc = IF refresh THEN "segments" ELSE "serve",
                      !.todo = IF refresh THEN Segments ELSE {}])
       /\ UNCHANGED <<skills, events, credits, finished, cycle, counted, lapses>>

-----------------------------------------------------------------------------
(* The end of a run, and its maintenance.                                   *)

\* The rest of the run serves with engine and portfolio; then its last checkpoint.
Finish(e) ==
    /\ ex[e].pc = "serve"
    /\ finished' = finished \cup {RunOf[e]}
    /\ ex' = [ex EXCEPT ![e] = [Idle EXCEPT !.pc = "discard"]]
    /\ UNCHANGED <<skills, events, credits, cycle, counted, lapses>>

\* discard_completed_run_invocations
Discard(e) ==
    /\ ex[e].pc = "discard"
    /\ events' = {v \in events : v.key.run # RunOf[e]}
    /\ Goto(e, "prune")
    /\ UNCHANGED <<skills, credits, finished, cycle, counted, lapses>>

\* Mutant: every retired row beyond the budget may go.
PrunableAll(t, d) == Those(t, d, "retired")

\* Retired rows that no replay row refers to.
Prunable(t, d) ==
    {c \in Those(t, d, "retired") :
       \A v \in events : ~(v.key.domain = d /\ v.config = c)}

\* prune_retired_strategy_history: the newest retired rows of a domain are kept.
Prune(e) ==
    /\ ex[e].pc = "prune"
    /\ \E keep \in [Domains -> SUBSET Configs] :
          /\ \A d \in Domains :
                /\ keep[d] \subseteq Those(skills, d, "retired")
                /\ Cardinality(keep[d]) =
                     IF Cardinality(Those(skills, d, "retired")) < RetiredBudget
                     THEN Cardinality(Those(skills, d, "retired")) ELSE RetiredBudget
          /\ skills' = [d \in Domains |-> Without(skills[d], Prunable(skills, d) \ keep[d])]
    /\ Goto(e, "end")
    /\ UNCHANGED <<events, credits, finished, cycle, counted, lapses>>

\* An executor may die between any two steps; what it held in memory is gone.  (The last
\* attempt at a run need not die: it may as well stop for ever.)
Crash(e) ==
    /\ ex[e].pc \notin {"idle", "dead", "end"}
    /\ \E f \in Executors : RunOf[f] = RunOf[e] /\ ex[f].pc = "idle"
    /\ ex' = [ex EXCEPT ![e] = [Idle EXCEPT !.pc = "dead"]]
    /\ UNCHANGED <<skills, events, credits, finished, cycle, counted, lapses>>

\* ACTIVE_VALIDATION_TTL passes.
Lapse ==
    /\ lapses < MaxLapses
    /\ lapses' = lapses + 1
    /\ skills' = [d \in Domains |-> [c \in DOMAIN skills[d] |->
                    [skills[d][c] EXCEPT !.fresh = FALSE]]]
    /\ UNCHANGED <<events, credits, finished, ex, cycle, counted>>

Init ==
    /\ \E seed \in Seeds :
          /\ skills = [d \in Domains |-> [c \in seed[d] |->
                         [status |-> "active", wins |-> 1, fresh |-> FALSE, rolled |-> FALSE,
                          base |-> Default]]]
          /\ credits = UNION {{Credit(d, c, "accepted") : c \in seed[d]} : d \in Domains}
    /\ events = {} /\ finished = {}
    /\ ex = [e \in Executors |-> Idle]
    /\ cycle = [r \in Runs |-> 1]
    /\ counted = [r \in Runs |-> [k \in Cycles(r) |-> [d \in Domains |-> 0]]]
    /\ lapses = 0

Step(e) ==
    \/ Start(e) \/ ValidateBusiness(e) \/ ReadCore(e) \/ JudgeCore(e)
    \/ ValidateRelevance(e) \/ MergeValidation(e)
    \/ \E s \in Segments :
          LoadSegment(e, s) \/ CheckSegment(e, s) \/ JudgeSegment(e, s) \/ RememberSegment(e, s)
    \/ ReadOuter(e) \/ ReadInner(e) \/ WriteRetired(e) \/ CreditRollback(e)
    \/ Replay(e) \/ Evolve(e) \/ RecordCredit(e) \/ RememberGlobal(e) \/ Evolved(e)
    \/ Finish(e) \/ Discard(e) \/ Prune(e) \/ Crash(e)

Next == Lapse \/ \E e \in Executors : Step(e)

Spec == Init /\ [][Next]_vars

-----------------------------------------------------------------------------
(* Properties.                                                              *)

TypeOK ==
    /\ \A d \in Domains : DOMAIN skills[d] \subseteq Configs
    /\ \A d \in Domains : \A c \in DOMAIN skills[d] : skills[d][c] \in Row
    /\ \A v \in events : /\ v.key \in [run : Runs, cycle : Nat, domain : Domains]
                          /\ v.config \in Configs
    /\ credits \subseteq [domain : Domains, config : Configs,
                          outcome : {"accepted", "rejected", "rollback"}]
    /\ finished \subseteq Runs /\ lapses \in 0 .. MaxLapses
    /\ \A r \in Runs : cycle[r] \in Cycles(r) /\ counted[r] \in [Cycles(r) -> [Domains -> Nat]]
    /\ \A e \in Executors : ex[e].engine \in Configs \cup {Default}

\* Whatever executors activate, retire and validate concurrently, a domain has at most one
\* active strategy, and no more trusted ones than the budget.
LiveStrategiesAreBounded ==
    \A d \in Domains :
       /\ Cardinality(Those(skills, d, "active")) <= 1
       /\ Cardinality(Those(skills, d, "trusted")) <= TrustedBudget

\* The strategy of a replay row is never deleted: a run that is executed again finds what
\* its first execution learned, although maintenance ran for other runs in between.
ReplaysHaveTheirStrategy ==
    \A v \in events : v.config \in DOMAIN skills[v.key.domain]

\* However often a run dies and executes its evolve action again, an invocation (of one cycle)
\* counts at most one win in a domain: the replay row is written with the win, no maintenance
\* of other runs takes it or its strategy away, and it outlives the run.
InvocationsCountOnce ==
    \A r \in Runs, d \in Domains : \A k \in Cycles(r) : counted[r][k][d] <= 1

\* docs/HARNESS_CONTRACT.md: adaptive writes are idempotent under replay, so that a run counts
\* at most one win for a strategy it found, in whatever cycle it is executed again.
RunsCountOnce ==
    \A r \in Runs, d \in Domains :
       \A j, k \in Cycles(r) : j # k => counted[r][j][d] = 0 \/ counted[r][k][d] = 0

\* docs/ARCHITECTURE.md: when the global strategy has just changed, a segment strategy that
\* was validated against the old one is not an active override.
OverridesMatchTheirGlobal ==
    \A e \in Executors : ex[e].pc = "serve" =>
       \A s \in DOMAIN ex[e].portfolio :
          ex[e].portfolio[s] \in DOMAIN skills[s] /\ ex[e].activated
             => skills[s][ex[e].portfolio[s]].base = ex[e].engine

\* docs/ARCHITECTURE.md: a rollback enters the durable negative credit.
RollbacksAreCredited ==
    \A d \in Domains : \A c \in DOMAIN skills[d] :
       skills[d][c].rolled =>
          \/ Credit(d, c, "rollback") \in credits
          \/ \E e \in Executors : ex[e].pc = "credit" /\ ex[e].job.domain = d
=============================================================================
