-------------------------- MODULE StrategyMemoryProofs --------------------------
(***************************************************************************)
(* Proofs about the durable strategy memory, for any number of executors,   *)
(* runs, segments and strategies, any results an evaluation may conclude,   *)
(* any budgets, and an executor that may die between any two transactions.  *)
(***************************************************************************)
EXTENDS StrategyMemory, FiniteSetTheorems, TLAPS

-----------------------------------------------------------------------------
(* The inductive invariant.                                                 *)

Configurations == Configs \cup {Default}
Alive(e) == ex[e].pc \notin {"idle", "dead"}
Closing == {"discard", "prune", "end"}
Backs == {"business", "segments", "core", "relevance", "merge", "judge"}
Calls == {"outer", "inner", "retire", "credit"}
Steps == Backs \cup Calls \cup Closing
         \cup {"idle", "dead", "check", "coreJudge", "ready", "learn", "global", "remember", "serve"}
Jobs == [domain : Domains, outer : SUBSET Configs, inner : SUBSET Configs, back : Backs \cup {"idle"}]

\* What an executor holds: a record of these fields, with the types the proofs need.
Held == {"pc", "engine", "portfolio", "todo", "stale", "judged", "due", "result", "base",
         "activated", "after", "job"}
Shape(x) == x = [k \in Held |-> x[k]]
ExecutorOK(x) ==
    /\ Shape(x)
    /\ x.pc \in Steps /\ x.after \in {"check", "serve"} /\ x.job \in Jobs
    /\ x.engine \in Configurations /\ x.base \in Configurations
    /\ x.pc \in Calls => x.job.back \in Backs
    /\ x.pc \in {"learn", "global", "remember"} => x.result \in Results
    /\ x.pc = "global" => x.result.trusted
    /\ x.pc \in {"global", "remember"} => x.todo \subseteq DOMAIN x.result.entries

\* The rows of a domain: finitely many strategies, each with a row.
Table(f) == /\ DOMAIN f \subseteq Configs /\ IsFiniteSet(DOMAIN f)
            /\ f = [c \in DOMAIN f |-> f[c]]
            /\ \A c \in DOMAIN f : f[c] \in Row

SkillsOK == skills = [d \in Domains |-> skills[d]] /\ \A d \in Domains : Table(skills[d])
EventsOK ==
    \A v \in events :
       /\ v.key \in [run : Runs, cycle : Nat, domain : Domains] /\ v.config \in Configs
       /\ v.base \in Configurations
       /\ v.key.domain = Global => v.result \in Results
ExecutorsOK == ex = [e \in Executors |-> ex[e]] /\ \A e \in Executors : ExecutorOK(ex[e])
CreditsOK == credits \subseteq [domain : Domains, config : Configs,
                                outcome : {"accepted", "rejected", "rollback"}]
CountsOK ==
    /\ counted = [r \in Runs |-> counted[r]]
    /\ \A r \in Runs : counted[r] \in [Cycles(r) -> [Domains -> Nat]]
CycleOK == cycle \in [Runs -> Nat] /\ \A r \in Runs : cycle[r] \in Cycles(r)

\* At most one strategy of a domain is active, and the budget of trusted ones is kept.
Live(t, d) == /\ \A b, c \in Those(t, d, "active") : b = c
              /\ Cardinality(Those(t, d, "trusted")) <= TrustedBudget
LiveInv == \A d \in Domains : Live(skills, d)

\* A run has one executor that is alive, and when it has finished none that evolves.
AloneInv == \A e, f \in Executors : e # f /\ RunOf[e] = RunOf[f] => ~Alive(e) \/ ~Alive(f)
FinishedInv ==
    /\ finished \subseteq Runs
    /\ \A e \in Executors :
          /\ ex[e].pc \in Closing => RunOf[e] \in finished
          /\ RunOf[e] \in finished => ex[e].pc \in Closing \cup {"idle", "dead"}

\* A counted win left its replay row behind, which goes away with the finished run only.
Recorded(r, k, d) == \E v \in events : v.key = Invocation(r, k, d)
CountedInv ==
    \A r \in Runs, d \in Domains : \A k \in Cycles(r) :
       \/ counted[r][k][d] = 0
       \/ counted[r][k][d] = 1 /\ (Recorded(r, k, d) \/ r \in finished)

StoreInv == /\ SkillsOK /\ EventsOK /\ LiveInv /\ ReplaysHaveTheirStrategy /\ CountsOK /\ CountedInv
HoldersInv == ExecutorsOK /\ AloneInv /\ FinishedInv
IInv == StoreInv /\ HoldersInv /\ CreditsOK /\ CycleOK /\ lapses \in 0 .. MaxLapses

-----------------------------------------------------------------------------
(* Executors.                                                               *)

LEMMA IdleOK == ExecutorOK(Idle)
<1>1. Shape(Idle)
  BY DEF Shape, Held, Idle
<1>2. Idle.job \in Jobs
  BY DEF Idle, NoJob, Jobs, Domains
<1>3. /\ Idle.pc = "idle" /\ Idle.after = "check"
      /\ Idle.engine = Default /\ Idle.base = Default
  BY DEF Idle
<1> QED BY <1>1, <1>2, <1>3 DEF ExecutorOK, Steps, Calls, Configurations

\* Going on when a step has nothing left to do keeps what is held well formed.
LEMMA SettledOK ==
    ASSUME NEW x, ExecutorOK(x)
    PROVE  /\ ExecutorOK(Settled(x))
           /\ \/ Settled(x).pc = x.pc
              \/ Settled(x).pc \in {"check", "judge", "ready", "serve"}
<1> DEFINE loaded  == IF x.pc = "segments" /\ x.todo = {}
                      THEN [x EXCEPT !.pc = x.after,
                              !.todo = IF x.after = "check" THEN DOMAIN x.portfolio ELSE {}]
                      ELSE x
           checked == IF loaded.pc = "check" /\ loaded.todo = {}
                      THEN [loaded EXCEPT !.pc = "judge"] ELSE loaded
           OK(y) == ExecutorOK(y) /\ (y.pc = x.pc \/ y.pc \in {"check", "judge", "ready", "serve"})
<1>1. OK(loaded)
  BY DEF ExecutorOK, Shape, Held, Steps, Calls
<1> HIDE DEF loaded
<1>2. OK(checked)
  BY <1>1 DEF ExecutorOK, Shape, Held, Steps, Backs, Calls
<1> HIDE DEF checked
<1>3. OK(IF checked.pc = "judge" /\ checked.stale = <<>>
         THEN [checked EXCEPT !.pc = "ready"] ELSE checked)
  BY <1>2 DEF ExecutorOK, Shape, Held, Steps, Calls
<1>4. Settled(x) = IF checked.pc = "judge" /\ checked.stale = <<>>
                   THEN [checked EXCEPT !.pc = "ready"] ELSE checked
  BY DEF Settled, loaded, checked
<1> QED BY <1>3, <1>4

\* A step of an executor that is alive and not closing keeps its run unfinished and alone.
LEMMA ExecutorStep ==
    ASSUME HoldersInv, NEW e \in Executors, NEW y, ExecutorOK(y), y.pc \notin Closing,
           Alive(e), ex[e].pc \notin Closing,
           ex' = [ex EXCEPT ![e] = y], finished' = finished
    PROVE  HoldersInv' /\ RunOf[e] \notin finished
<1>1. ExecutorsOK'
  BY DEF HoldersInv, ExecutorsOK
<1>2. RunOf[e] \notin finished
  BY DEF HoldersInv, FinishedInv, Alive
<1>3. AloneInv'
  BY DEF HoldersInv, ExecutorsOK, AloneInv, Alive
<1>4. FinishedInv'
  BY <1>2 DEF HoldersInv, ExecutorsOK, FinishedInv
<1> QED BY <1>1, <1>2, <1>3, <1>4 DEF HoldersInv

\* The active strategy that a transaction reads is a row of its domain.
LEMMA ActiveSkillType ==
    ASSUME SkillsOK, NEW d \in Domains
    PROVE  /\ ActiveSkill(d) \subseteq DOMAIN skills[d] /\ ActiveSkill(d) \subseteq Configs
           /\ \A c \in ActiveSkill(d) : skills[d][c].status = "active"
BY DEF SkillsOK, Table, ActiveSkill, Those

\* Calling retire_active.
LEMMA RetireStep ==
    ASSUME HoldersInv, NEW e \in Executors, NEW x, ExecutorOK(x), NEW d \in Domains, NEW back \in Backs,
           Alive(e), ex[e].pc \notin Closing, Retire(e, x, d, back), finished' = finished
    PROVE  HoldersInv'
<1> DEFINE y == [x EXCEPT !.pc = "outer", !.job = [NoJob EXCEPT !.domain = d, !.back = back]]
<1>1. [NoJob EXCEPT !.domain = d, !.back = back] \in Jobs
  BY DEF NoJob, Jobs
<1>2. ExecutorOK(y) /\ y.pc \notin Closing
  BY <1>1 DEF ExecutorOK, Shape, Held, Steps, Calls, Closing, Jobs, Backs
<1>3. ex' = [ex EXCEPT ![e] = y]
  BY DEF Retire
<1> HIDE DEF y
<1> QED BY <1>2, <1>3, ExecutorStep

\* Going on with the executor state x.
LEMMA BecomeStep ==
    ASSUME HoldersInv, NEW e \in Executors, NEW x, ExecutorOK(x), x.pc \notin Closing,
           Alive(e), ex[e].pc \notin Closing, Become(e, x), finished' = finished
    PROVE  HoldersInv'
<1>1. ExecutorOK(Settled(x)) /\ Settled(x).pc \notin Closing
  BY SettledOK DEF Closing
<1>2. ex' = [ex EXCEPT ![e] = Settled(x)]
  BY DEF Become
<1> QED BY <1>1, <1>2, ExecutorStep

LEMMA ValidateBusinessHolders ==
    ASSUME HoldersInv, SkillsOK, NEW e \in Executors, ValidateBusiness(e)
    PROVE  HoldersInv'
<1> DEFINE a == ActiveSkill(Global)
           x == [ex[e] EXCEPT !.pc = "core", !.due = Due(a)]
<1>1. ExecutorOK(ex[e]) /\ ex[e].pc = "business" /\ finished' = finished
  BY DEF HoldersInv, ExecutorsOK, ValidateBusiness
<1>2. Alive(e) /\ ex[e].pc \notin Closing
  BY <1>1 DEF Alive, Closing
<1>3. ExecutorOK(x) /\ x.pc = "core"
  BY <1>1 DEF ExecutorOK, Shape, Held, Steps, Backs, Calls
<1>4. \/ ex' = [ex EXCEPT ![e] = x]
      \/ ex' = [ex EXCEPT ![e] = [x EXCEPT !.judged = a]]
      \/ Retire(e, [x EXCEPT !.engine = Default], Global, "core")
  BY DEF ValidateBusiness
<1> HIDE DEF x, a
<1>5. /\ ExecutorOK([x EXCEPT !.judged = a]) /\ [x EXCEPT !.judged = a].pc = "core"
      /\ ExecutorOK([x EXCEPT !.engine = Default])
  BY <1>3 DEF ExecutorOK, Shape, Held, Calls, Configurations
<1>6. Global \in Domains /\ "core" \in Backs /\ "core" \notin Closing
  BY DEF Domains, Backs, Closing
<1> QED BY <1>1, <1>2, <1>3, <1>4, <1>5, <1>6, ExecutorStep, RetireStep

LEMMA CoreHolders ==
    ASSUME HoldersInv, SkillsOK, NEW e \in Executors, ReadCore(e) \/ JudgeCore(e)
    PROVE  HoldersInv'
<1>1. ExecutorOK(ex[e]) /\ ex[e].pc \in {"core", "coreJudge"} /\ finished' = finished
  BY DEF HoldersInv, ExecutorsOK, ReadCore, JudgeCore
<1>2. Alive(e) /\ ex[e].pc \notin Closing
  BY <1>1 DEF Alive, Closing
<1>3. CASE ReadCore(e)
  <2> DEFINE y == [ex[e] EXCEPT !.pc = "coreJudge", !.stale = [d \in {Global} |-> ActiveSkill(Global)]]
             z == [ex[e] EXCEPT !.pc = "relevance"]
  <2>1. ex' = [ex EXCEPT ![e] = y] \/ Become(e, z)
    BY <1>3 DEF ReadCore, Goto
  <2>2. ExecutorOK(y) /\ ExecutorOK(z) /\ y.pc \notin Closing /\ z.pc \notin Closing
    BY <1>1 DEF ExecutorOK, Shape, Held, Steps, Backs, Calls, Closing
  <2> HIDE DEF y, z
  <2> QED BY <1>1, <1>2, <2>1, <2>2, ExecutorStep, BecomeStep
<1>4. CASE JudgeCore(e)
  <2> DEFINE x == [ex[e] EXCEPT !.stale = <<>>]
             y == [x EXCEPT !.engine = Default]
             z == [x EXCEPT !.pc = "relevance"]
  <2>1. Retire(e, y, Global, "relevance") \/ ex' = [ex EXCEPT ![e] = z]
    BY <1>4 DEF JudgeCore
  <2>2. ExecutorOK(x)
    BY <1>1 DEF ExecutorOK, Shape, Held, Calls
  <2> HIDE DEF x
  <2>3. ExecutorOK(y) /\ ExecutorOK(z) /\ z.pc \notin Closing
    BY <2>2 DEF ExecutorOK, Shape, Held, Steps, Backs, Calls, Closing, Configurations
  <2> HIDE DEF y, z
  <2>4. Global \in Domains /\ "relevance" \in Backs
    BY DEF Domains, Backs
  <2> QED BY <1>1, <1>2, <2>1, <2>3, <2>4, ExecutorStep, RetireStep
<1> QED BY <1>3, <1>4

LEMMA RelevanceHolders ==
    ASSUME HoldersInv, SkillsOK, NEW e \in Executors, ValidateRelevance(e) \/ MergeValidation(e)
    PROVE  HoldersInv'
<1>1. ExecutorOK(ex[e]) /\ ex[e].pc \in {"relevance", "merge"} /\ finished' = finished
  BY DEF HoldersInv, ExecutorsOK, ValidateRelevance, MergeValidation
<1>2. Alive(e) /\ ex[e].pc \notin Closing
  BY <1>1 DEF Alive, Closing
<1>3. CASE ValidateRelevance(e)
  <2> DEFINE x == [ex[e] EXCEPT !.pc = "merge"]
             y == [x EXCEPT !.engine = Default]
  <2>1. ex' = [ex EXCEPT ![e] = x] \/ Retire(e, y, Global, "merge")
    BY <1>3 DEF ValidateRelevance
  <2>2. ExecutorOK(x) /\ x.pc \notin Closing
    BY <1>1 DEF ExecutorOK, Shape, Held, Steps, Backs, Calls, Closing
  <2> HIDE DEF x
  <2>3. ExecutorOK(y)
    BY <2>2 DEF ExecutorOK, Shape, Held, Configurations
  <2> HIDE DEF y
  <2>4. Global \in Domains /\ "merge" \in Backs
    BY DEF Domains, Backs
  <2> QED BY <1>1, <1>2, <2>1, <2>2, <2>3, <2>4, ExecutorStep, RetireStep
<1>4. CASE MergeValidation(e)
  <2> DEFINE y == [ex[e] EXCEPT !.pc = "segments", !.judged = {}, !.due = FALSE]
  <2>1. Become(e, y)
    BY <1>4 DEF MergeValidation
  <2>2. ExecutorOK(y) /\ y.pc \notin Closing
    BY <1>1 DEF ExecutorOK, Shape, Held, Steps, Backs, Calls, Closing
  <2> HIDE DEF y
  <2> QED BY <1>1, <1>2, <2>1, <2>2, BecomeStep
<1> QED BY <1>3, <1>4

LEMMA SegmentHolders ==
    ASSUME HoldersInv, SkillsOK, NEW e \in Executors, NEW s \in Segments,
           LoadSegment(e, s) \/ CheckSegment(e, s) \/ JudgeSegment(e, s)
    PROVE  HoldersInv'
<1>1. ExecutorOK(ex[e]) /\ ex[e].pc \in {"segments", "check", "judge"} /\ finished' = finished
  BY DEF HoldersInv, ExecutorsOK, LoadSegment, CheckSegment, JudgeSegment
<1>2. Alive(e) /\ ex[e].pc \notin Closing
  BY <1>1 DEF Alive, Closing
<1>3. s \in Domains /\ "segments" \in Backs /\ "judge" \in Backs
  BY DEF Domains, Backs
<1>4. CASE LoadSegment(e, s)
  <2> DEFINE x == [ex[e] EXCEPT !.todo = @ \ {s}, !.portfolio = Without(@, {s})]
             y == [x EXCEPT !.portfolio = With(@, s, CHOOSE c \in ActiveSkill(s) : TRUE)]
  <2>1. Retire(e, x, s, "segments") \/ Become(e, x) \/ Become(e, y)
    BY <1>4 DEF LoadSegment
  <2>2. ExecutorOK(x) /\ x.pc = "segments"
    BY <1>1, <1>4 DEF ExecutorOK, Shape, Held, Calls, LoadSegment
  <2> HIDE DEF x
  <2>3. ExecutorOK(y) /\ y.pc = "segments"
    BY <2>2 DEF ExecutorOK, Shape, Held, Calls
  <2> HIDE DEF y
  <2> QED BY <1>1, <1>2, <1>3, <2>1, <2>2, <2>3, BecomeStep, RetireStep DEF Closing
<1>5. CASE CheckSegment(e, s)
  <2> DEFINE due == \E c \in ActiveSkill(s) : ~skills[s][c].fresh
             y == [ex[e] EXCEPT !.todo = @ \ {s},
                     !.stale = IF due THEN With(@, s, ActiveSkill(s)) ELSE @]
  <2>1. Become(e, y)
    BY <1>5 DEF CheckSegment
  <2>2. ExecutorOK(y) /\ y.pc = "check"
    BY <1>1, <1>5 DEF ExecutorOK, Shape, Held, Calls, CheckSegment
  <2> HIDE DEF y
  <2> QED BY <1>1, <1>2, <2>1, <2>2, BecomeStep DEF Closing
<1>6. CASE JudgeSegment(e, s)
  <2> DEFINE x == [ex[e] EXCEPT !.stale = Without(@, {s})]
             y == [x EXCEPT !.portfolio = Without(@, {s})]
  <2>1. Retire(e, y, s, "judge") \/ Become(e, x)
    BY <1>6 DEF JudgeSegment
  <2>2. ExecutorOK(x) /\ x.pc = "judge"
    BY <1>1, <1>6 DEF ExecutorOK, Shape, Held, Calls, JudgeSegment
  <2> HIDE DEF x
  <2>3. ExecutorOK(y) /\ y.pc = "judge"
    BY <2>2 DEF ExecutorOK, Shape, Held, Calls
  <2> HIDE DEF y
  <2> QED BY <1>1, <1>2, <1>3, <2>1, <2>2, <2>3, BecomeStep, RetireStep DEF Closing
<1> QED BY <1>4, <1>5, <1>6

LEMMA RollbackHolders ==
    ASSUME HoldersInv, SkillsOK, NEW e \in Executors,
           ReadOuter(e) \/ ReadInner(e) \/ WriteRetired(e) \/ CreditRollback(e)
    PROVE  HoldersInv'
<1> DEFINE x == ex[e]
           a == ActiveSkill(x.job.domain)
           back == [x EXCEPT !.pc = x.job.back, !.job = NoJob]
<1>1. ExecutorOK(x) /\ x.pc \in Calls /\ finished' = finished
  BY DEF HoldersInv, ExecutorsOK, ReadOuter, ReadInner, WriteRetired, CreditRollback, Calls
<1>2. Alive(e) /\ x.pc \notin Closing
  BY <1>1 DEF Alive, Closing, Calls
<1>3. x.job.domain \in Domains /\ a \subseteq Configs /\ x.job \in Jobs /\ x.job.back \in Backs
  BY <1>1, ActiveSkillType DEF ExecutorOK, Jobs
<1>4. NoJob \in Jobs
  BY DEF NoJob, Jobs, Domains
<1>5. ExecutorOK(back) /\ back.pc \notin Closing
  BY <1>1, <1>3, <1>4 DEF ExecutorOK, Shape, Held, Steps, Backs, Calls, Closing
<1>6. CASE ReadOuter(e)
  <2> DEFINE y == [x EXCEPT !.pc = "inner", !.job = [x.job EXCEPT !.outer = a]]
  <2>1. ex' = [ex EXCEPT ![e] = y]
    BY <1>6 DEF ReadOuter
  <2>2. [x.job EXCEPT !.outer = a] \in Jobs /\ [x.job EXCEPT !.outer = a].back = x.job.back
    BY <1>3 DEF Jobs
  <2>3. ExecutorOK(y) /\ y.pc \notin Closing
    BY <1>1, <1>3, <2>2 DEF ExecutorOK, Shape, Held, Steps, Calls, Closing
  <2> HIDE DEF y
  <2> QED BY <1>1, <1>2, <2>1, <2>3, ExecutorStep
<1>7. CASE ReadInner(e)
  <2> DEFINE y == [x EXCEPT !.pc = "retire", !.job = [x.job EXCEPT !.inner = a]]
  <2>1. Become(e, back) \/ Become(e, y)
    BY <1>7 DEF ReadInner
  <2>2. [x.job EXCEPT !.inner = a] \in Jobs /\ [x.job EXCEPT !.inner = a].back = x.job.back
    BY <1>3 DEF Jobs
  <2>3. ExecutorOK(y) /\ y.pc \notin Closing
    BY <1>1, <1>3, <2>2 DEF ExecutorOK, Shape, Held, Steps, Calls, Closing
  <2> HIDE DEF y, back
  <2> QED BY <1>1, <1>2, <1>5, <2>1, <2>3, BecomeStep
<1>8. CASE WriteRetired(e)
  <2> DEFINE y == [x EXCEPT !.pc = "credit", !.job = [x.job EXCEPT !.inner = {}]]
  <2>1. Become(e, back) \/ Become(e, y)
    BY <1>8 DEF WriteRetired
  <2>2. [x.job EXCEPT !.inner = {}] \in Jobs /\ [x.job EXCEPT !.inner = {}].back = x.job.back
    BY <1>3 DEF Jobs
  <2>3. ExecutorOK(y) /\ y.pc \notin Closing
    BY <1>1, <1>3, <2>2 DEF ExecutorOK, Shape, Held, Steps, Calls, Closing
  <2> HIDE DEF y, back
  <2> QED BY <1>1, <1>2, <1>5, <2>1, <2>3, BecomeStep
<1>9. CASE CreditRollback(e)
  <2>1. Become(e, back)
    BY <1>9 DEF CreditRollback
  <2> HIDE DEF back
  <2> QED BY <1>1, <1>2, <1>5, <2>1, BecomeStep
<1> QED BY <1>6, <1>7, <1>8, <1>9

\* The evolve action of a run, from its replay row or from a new evaluation.
LEMMA EvolveHolders ==
    ASSUME HoldersInv, EventsOK, NEW e \in Executors, Replay(e) \/ Evolve(e) \/ RecordCredit(e)
    PROVE  HoldersInv'
<1> DEFINE x == ex[e]
<1>1. ExecutorOK(x) /\ x.pc \in {"ready", "learn"} /\ finished' = finished
  BY DEF HoldersInv, ExecutorsOK, Replay, Evolve, RecordCredit
<1>2. Alive(e) /\ x.pc \notin Closing
  BY <1>1 DEF Alive, Closing
<1>3. CASE Replay(e)
  <2>1. PICK v :
          /\ v \in events /\ v.key = Invocation(RunOf[e], v.key.cycle, Global)
          /\ LET active == skills[Global][v.config].status = "active"
             IN ex' = [ex EXCEPT ![e].pc = "remember", ![e].todo = DOMAIN v.result.entries,
                  ![e].result = v.result, ![e].activated = active, ![e].base = v.base,
                  ![e].engine = IF active THEN v.result.config ELSE @]
    BY <1>3 DEF Replay
  <2>2. v.result \in Results /\ v.base \in Configurations
    <3>1. v.key.domain = Global
      BY <2>1 DEF Invocation
    <3> QED BY <2>1, <3>1 DEF EventsOK
  <2>3. v.result.config \in Configs
    BY <2>2, ResultsAssumption
  <2> DEFINE active == skills[Global][v.config].status = "active"
             y == [x EXCEPT !.pc = "remember", !.todo = DOMAIN v.result.entries,
                     !.result = v.result, !.activated = active, !.base = v.base,
                     !.engine = IF active THEN v.result.config ELSE @]
  <2>4. ex' = [ex EXCEPT ![e] = y]
    BY <2>1
  <2> HIDE DEF active
  <2>5. ExecutorOK(y) /\ y.pc = "remember"
    BY <1>1, <2>2, <2>3 DEF ExecutorOK, Shape, Held, Steps, Calls, Configurations
  <2> HIDE DEF y
  <2> QED BY <1>1, <1>2, <2>4, <2>5, ExecutorStep DEF Closing
<1>4. CASE Evolve(e)
  <2>1. PICK res \in Results : ex' = [ex EXCEPT ![e].pc = "learn", ![e].result = res,
                                                ![e].base = ex[e].engine]
    BY <1>4 DEF Evolve
  <2> DEFINE y == [x EXCEPT !.pc = "learn", !.result = res, !.base = x.engine]
  <2>2. ex' = [ex EXCEPT ![e] = y]
    BY <2>1
  <2>3. ExecutorOK(y) /\ y.pc = "learn"
    BY <1>1 DEF ExecutorOK, Shape, Held, Steps, Calls
  <2> HIDE DEF y
  <2> QED BY <1>1, <1>2, <2>2, <2>3, ExecutorStep DEF Closing
<1>5. CASE RecordCredit(e)
  <2> DEFINE y == [x EXCEPT !.pc = IF x.result.trusted THEN "global" ELSE "remember",
                            !.todo = DOMAIN x.result.entries]
  <2>1. ex' = ex \/ ex' = [ex EXCEPT ![e] = y]
    BY <1>5 DEF RecordCredit
  <2>2. ExecutorOK(y) /\ y.pc \notin Closing
    BY <1>1, <1>5 DEF ExecutorOK, Shape, Held, Steps, Calls, Closing, RecordCredit
  <2> HIDE DEF y
  <2>3. ex' = ex => HoldersInv'
    BY <1>1 DEF HoldersInv, ExecutorsOK, AloneInv, FinishedInv, Alive
  <2> QED BY <1>1, <1>2, <2>1, <2>2, <2>3, ExecutorStep
<1> QED BY <1>3, <1>4, <1>5

\* Remembering what the evaluation trusted, and going on with it.
LEMMA RememberHolders ==
    ASSUME HoldersInv, NEW e \in Executors,
           RememberGlobal(e) \/ (\E s \in Segments : RememberSegment(e, s)) \/ Evolved(e)
    PROVE  HoldersInv'
<1> DEFINE x == ex[e]
<1>1. ExecutorOK(x) /\ x.pc \in {"global", "remember"} /\ finished' = finished
  BY DEF HoldersInv, ExecutorsOK, RememberGlobal, RememberSegment, Evolved
<1>2. Alive(e) /\ x.pc \notin Closing
  BY <1>1 DEF Alive, Closing
<1>3. x.result \in Results /\ x.result.config \in Configs
  BY <1>1, ResultsAssumption DEF ExecutorOK
<1>4. CASE RememberGlobal(e)
  <2> DEFINE y == [x EXCEPT !.pc = "remember", !.activated = Wants(e),
                            !.engine = IF Wants(e) THEN x.result.config ELSE @]
  <2>1. ex' = [ex EXCEPT ![e] = y]
    BY <1>4 DEF RememberGlobal
  <2>2. x.todo \subseteq DOMAIN x.result.entries
    BY <1>1, <1>4 DEF RememberGlobal, ExecutorOK
  <2>3. ExecutorOK(y) /\ y.pc = "remember"
    BY <1>1, <1>3, <2>2 DEF ExecutorOK, Shape, Held, Steps, Calls, Configurations
  <2> HIDE DEF y
  <2> QED BY <1>1, <1>2, <2>1, <2>3, ExecutorStep DEF Closing
<1>5. CASE \E s \in Segments : RememberSegment(e, s)
  <2>1. PICK s \in Segments : RememberSegment(e, s)
    BY <1>5
  <2> DEFINE y == [x EXCEPT !.todo = @ \ {s}]
  <2>2. ex' = [ex EXCEPT ![e] = y]
    BY <2>1 DEF RememberSegment
  <2>3. ExecutorOK(y) /\ y.pc = "remember"
    BY <1>1, <2>1 DEF ExecutorOK, Shape, Held, Calls, RememberSegment
  <2> HIDE DEF y
  <2> QED BY <1>1, <1>2, <2>2, <2>3, ExecutorStep DEF Closing
<1>6. CASE Evolved(e)
  <2> DEFINE refresh == \/ x.activated
                        \/ Wants(e) /\ \E s \in DOMAIN x.result.entries : x.result.entries[s].trusted
             y == [x EXCEPT !.after = "serve", !.result = None, !.base = Default,
                      !.pc = IF refresh THEN "segments" ELSE "serve",
                      !.todo = IF refresh THEN Segments ELSE {}]
  <2>1. Become(e, y)
    BY <1>6 DEF Evolved
  <2> HIDE DEF refresh
  <2>2. ExecutorOK(y) /\ y.pc \notin Closing
    BY <1>1 DEF ExecutorOK, Shape, Held, Steps, Backs, Calls, Closing, Configurations
  <2> HIDE DEF y
  <2> QED BY <1>1, <1>2, <2>1, <2>2, BecomeStep
<1> QED BY <1>4, <1>5, <1>6

\* Start, and the closing of a run.
LEMMA StartHolders ==
    ASSUME HoldersInv, SkillsOK, NEW e \in Executors, Start(e)
    PROVE  HoldersInv'
<1> DEFINE a == ActiveSkill(Global)
           first == IF e \in Builders THEN "business" ELSE "segments"
           x == [ex[e] EXCEPT !.pc = first, !.todo = Segments]
           y == [x EXCEPT !.pc = "outer", !.job = [NoJob EXCEPT !.domain = Global, !.back = first]]
           z == [x EXCEPT !.engine = IF a = {} THEN Default ELSE CHOOSE c \in a : TRUE]
<1>1. /\ ExecutorOK(ex[e]) /\ ex[e].pc = "idle" /\ finished' = finished /\ RunOf[e] \notin finished
      /\ \A f \in Executors \ {e} : RunOf[f] = RunOf[e] => ~Alive(f)
  BY DEF HoldersInv, ExecutorsOK, Start, MayStart, Alive
<1>2. first \in {"business", "segments"}
  OBVIOUS
<1>3. ex' = [ex EXCEPT ![e] = y] \/ ex' = [ex EXCEPT ![e] = z]
  BY DEF Start, Retire
<1>4. (IF a = {} THEN Default ELSE CHOOSE c \in a : TRUE) \in Configurations
  <2>1. a \subseteq Configs
    BY ActiveSkillType DEF Domains
  <2> HIDE DEF a
  <2> QED BY <2>1 DEF Configurations
<1>5. [NoJob EXCEPT !.domain = Global, !.back = first] \in Jobs
  BY <1>2 DEF NoJob, Jobs, Domains, Backs
<1> HIDE DEF first, a
<1>6. ExecutorOK(y) /\ y.pc \notin Closing
  BY <1>1, <1>2, <1>5 DEF ExecutorOK, Shape, Held, Steps, Backs, Calls, Closing, Jobs
<1>7. ExecutorOK(z) /\ z.pc \notin Closing
  BY <1>1, <1>2, <1>4 DEF ExecutorOK, Shape, Held, Steps, Backs, Calls, Closing
<1> HIDE DEF y, z
<1>8. PICK w : ex' = [ex EXCEPT ![e] = w] /\ ExecutorOK(w) /\ w.pc \notin Closing
  BY <1>3, <1>6, <1>7
<1>9. ExecutorsOK'
  BY <1>8 DEF HoldersInv, ExecutorsOK
<1>10. AloneInv'
  BY <1>1, <1>8 DEF HoldersInv, ExecutorsOK, AloneInv, Alive
<1>11. FinishedInv'
  BY <1>1, <1>8 DEF HoldersInv, ExecutorsOK, FinishedInv
<1> QED BY <1>9, <1>10, <1>11 DEF HoldersInv

LEMMA ClosingHolders ==
    ASSUME HoldersInv, NEW e \in Executors, Finish(e) \/ Discard(e) \/ Prune(e)
    PROVE  HoldersInv'
<1> DEFINE x == ex[e]
<1>1. ExecutorOK(x) /\ x.pc \in {"serve"} \cup Closing /\ Alive(e)
  BY DEF HoldersInv, ExecutorsOK, Alive, Finish, Discard, Prune, Closing
<1>2. RunOf[e] \in Runs
  BY RunsAssumption
<1>3. CASE Finish(e)
  <2> DEFINE y == [Idle EXCEPT !.pc = "discard"]
  <2>1. ex' = [ex EXCEPT ![e] = y] /\ finished' = finished \cup {RunOf[e]}
    BY <1>3 DEF Finish
  <2>2. ExecutorOK(y) /\ y.pc = "discard"
    BY IdleOK DEF ExecutorOK, Shape, Held, Steps, Calls, Closing
  <2> HIDE DEF y
  <2>3. ExecutorsOK'
    BY <2>1, <2>2 DEF HoldersInv, ExecutorsOK
  <2>4. AloneInv'
    BY <1>1, <2>1, <2>2 DEF HoldersInv, ExecutorsOK, AloneInv, Alive
  <2>5. FinishedInv'
    BY <1>1, <1>2, <2>1, <2>2 DEF HoldersInv, ExecutorsOK, AloneInv, FinishedInv, Alive, Closing
  <2> QED BY <2>3, <2>4, <2>5 DEF HoldersInv
<1>4. CASE Discard(e) \/ Prune(e)
  <2> DEFINE y == [x EXCEPT !.pc = IF x.pc = "discard" THEN "prune" ELSE "end"]
  <2>1. Become(e, y) /\ finished' = finished /\ x.pc \in Closing
    BY <1>4 DEF Discard, Prune, Goto, Closing
  <2>2. ExecutorOK(y) /\ y.pc \in {"prune", "end"}
    BY <1>1, <2>1 DEF ExecutorOK, Shape, Held, Steps, Calls, Closing
  <2>3. Settled(y) = y
    BY <2>2 DEF Settled
  <2>4. ex' = [ex EXCEPT ![e] = y]
    BY <2>1, <2>3 DEF Become
  <2> HIDE DEF y
  <2>5. ExecutorsOK'
    BY <2>2, <2>4 DEF HoldersInv, ExecutorsOK
  <2>6. AloneInv'
    BY <1>1, <2>2, <2>4 DEF HoldersInv, ExecutorsOK, AloneInv, Alive
  <2>7. FinishedInv'
    BY <2>1, <2>2, <2>4 DEF HoldersInv, ExecutorsOK, FinishedInv, Closing
  <2> QED BY <2>5, <2>6, <2>7 DEF HoldersInv
<1> QED BY <1>3, <1>4

LEMMA CrashHolders ==
    ASSUME HoldersInv, NEW e \in Executors, Crash(e)
    PROVE  HoldersInv'
<1> DEFINE y == [Idle EXCEPT !.pc = "dead"]
<1>1. ex' = [ex EXCEPT ![e] = y] /\ finished' = finished
  BY DEF Crash
<1>2. ExecutorOK(y) /\ y.pc = "dead"
  BY IdleOK DEF ExecutorOK, Shape, Held, Steps, Calls
<1> HIDE DEF y
<1>3. ExecutorsOK'
  BY <1>1, <1>2 DEF HoldersInv, ExecutorsOK
<1>4. AloneInv'
  BY <1>1, <1>2 DEF HoldersInv, ExecutorsOK, AloneInv, Alive
<1>5. FinishedInv'
  BY <1>1, <1>2 DEF HoldersInv, ExecutorsOK, FinishedInv, Closing
<1> QED BY <1>3, <1>4, <1>5 DEF HoldersInv

-----------------------------------------------------------------------------
(* The strategies.                                                          *)

\* A table that only loses rows, or has rows of the other retired, keeps its bounds.
Lowered(f, g) == /\ Table(g) /\ DOMAIN g \subseteq DOMAIN f
                 /\ \A c \in DOMAIN g : g[c].status \in {f[c].status, "retired"}

LEMMA LoweredIsLive ==
    ASSUME SkillsOK, LiveInv, skills' = [d \in Domains |-> skills'[d]],
           \A d \in Domains : Lowered(skills[d], skills'[d])
    PROVE  SkillsOK' /\ LiveInv'
<1>1. SkillsOK'
  BY DEF SkillsOK, Lowered
<1>2. ASSUME NEW d \in Domains PROVE Live(skills', d)
  <2>1. /\ Those(skills', d, "active") \subseteq Those(skills, d, "active")
        /\ Those(skills', d, "trusted") \subseteq Those(skills, d, "trusted")
    BY DEF Those, Lowered
  <2>2. IsFiniteSet(Those(skills, d, "trusted"))
    BY FS_Subset DEF SkillsOK, Table, Those
  <2>3. /\ Cardinality(Those(skills', d, "trusted")) <= Cardinality(Those(skills, d, "trusted"))
        /\ Cardinality(Those(skills', d, "trusted")) \in Nat
        /\ Cardinality(Those(skills, d, "trusted")) \in Nat
    BY <2>1, <2>2, FS_Subset, FS_CardinalityType
  <2>4. Cardinality(Those(skills, d, "trusted")) <= TrustedBudget
    BY DEF LiveInv, Live
  <2>5. \A b, c \in Those(skills', d, "active") : b = c
    BY <2>1 DEF LiveInv, Live
  <2>6. Cardinality(Those(skills', d, "trusted")) <= TrustedBudget
    BY <2>3, <2>4, BudgetsAssumption
  <2> QED BY <2>5, <2>6 DEF Live
<1> QED BY <1>1, <1>2 DEF LiveInv

\* What cutting the trusted rows of a domain leaves.
LEMMA TrustedCutsEffect ==
    ASSUME NEW t, t = [d \in Domains |-> t[d]], \A d \in Domains : Table(t[d]),
           NEW d \in Domains, NEW u \in TrustedCuts(t, d)
    PROVE  /\ u = [x \in Domains |-> u[x]] /\ \A x \in Domains : Table(u[x])
           /\ \A x \in Domains \ {d} : u[x] = t[x]
           /\ DOMAIN u[d] = DOMAIN t[d]
           /\ Those(u, d, "active") = Those(t, d, "active")
           /\ Cardinality(Those(u, d, "trusted")) <= TrustedBudget
<1> DEFINE trusted == Those(t, d, "trusted")
<1>1. PICK keep \in SUBSET trusted :
        /\ Cardinality(keep) = IF Cardinality(trusted) < TrustedBudget
                               THEN Cardinality(trusted) ELSE TrustedBudget
        /\ u = [t EXCEPT ![d] = [c \in DOMAIN t[d] |->
                  IF c \in trusted \ keep THEN [t[d][c] EXCEPT !.status = "retired"] ELSE t[d][c]]]
  BY DEF TrustedCuts
<1>2. u[d] = [c \in DOMAIN t[d] |->
                IF c \in trusted \ keep THEN [t[d][c] EXCEPT !.status = "retired"] ELSE t[d][c]]
  BY <1>1
<1>3. \A c \in DOMAIN t[d] : t[d][c] \in Row
  BY DEF Table
<1>4. /\ DOMAIN u[d] = DOMAIN t[d] /\ u[d] = [c \in DOMAIN u[d] |-> u[d][c]]
      /\ \A c \in DOMAIN t[d] : u[d][c] \in Row
  BY <1>2, <1>3 DEF Row
<1>5. Table(u[d])
  BY <1>4 DEF Table
<1>6. \A x \in Domains \ {d} : u[x] = t[x]
  BY <1>1
<1>7. Those(u, d, "active") = Those(t, d, "active")
  BY <1>2, <1>3 DEF Those, Row
<1>8. Those(u, d, "trusted") = keep
  BY <1>2, <1>3 DEF Those, Row
<1>9. IsFiniteSet(trusted) /\ Cardinality(trusted) \in Nat
  BY FS_Subset, FS_CardinalityType DEF Table, Those
<1>10. Cardinality(keep) <= TrustedBudget
  BY <1>1, <1>9, BudgetsAssumption
<1>11. u = [x \in Domains |-> u[x]]
  BY <1>1
<1> QED BY <1>4, <1>5, <1>6, <1>7, <1>8, <1>10, <1>11

\* The table that remembering writes before the cut: the strategy that was active is demoted
\* when another is activated, and the strategy has its row.
Demoting(d, activate) == IF activate THEN [skills EXCEPT ![d] = Demoted(skills, d)] ELSE skills
Recording(d, c, activate, base) ==
    Written(Demoting(d, activate), d, c,
            Upserted(Demoting(d, activate)[d], c, IF activate THEN "active" ELSE "trusted", base))

LEMMA WrittenEffect ==
    ASSUME SkillsOK, LiveInv, NEW d \in Domains, NEW c \in Configs, NEW activate \in BOOLEAN,
           NEW base \in Configurations, NEW t2, t2 = Recording(d, c, activate, base)
    PROVE  /\ t2 = [x \in Domains |-> t2[x]] /\ \A x \in Domains : Table(t2[x])
           /\ \A x \in Domains \ {d} : t2[x] = skills[x]
           /\ DOMAIN t2[d] = DOMAIN skills[d] \cup {c}
           /\ \A a, b \in Those(t2, d, "active") : a = b
<1> DEFINE t1 == Demoting(d, activate)
           status == IF activate THEN "active" ELSE "trusted"
           row == Upserted(t1[d], c, status, base)
<1>1. Table(skills[d]) /\ \A a, b \in Those(skills, d, "active") : a = b
  BY DEF SkillsOK, LiveInv, Live
<1>0. t1 = IF activate THEN [skills EXCEPT ![d] = Demoted(skills, d)] ELSE skills
  BY DEF Demoting
<1>a. t2 = Written(t1, d, c, row)
  BY DEF Recording
<1> HIDE DEF t1
<1>2. /\ t1 = [x \in Domains |-> t1[x]] /\ Table(t1[d]) /\ DOMAIN t1[d] = DOMAIN skills[d]
      /\ \A x \in Domains \ {d} : t1[x] = skills[x]
      /\ activate => \A a \in DOMAIN t1[d] : t1[d][a].status # "active"
      /\ ~activate => t1 = skills
  <2>1. CASE activate
    <3>1. t1 = [skills EXCEPT ![d] = Demoted(skills, d)]
      BY <1>0, <2>1
    <3>2. t1[d] = Demoted(skills, d)
      BY <3>1 DEF SkillsOK
    <3>a. t1[d] = [a \in DOMAIN skills[d] |-> IF skills[d][a].status = "active"
                     THEN [skills[d][a] EXCEPT !.status = "trusted"] ELSE skills[d][a]]
      BY <3>2 DEF Demoted
    <3>b. \A a \in DOMAIN skills[d] : skills[d][a] \in Row
      BY <1>1 DEF Table
    <3>3. /\ DOMAIN t1[d] = DOMAIN skills[d] /\ t1[d] = [a \in DOMAIN t1[d] |-> t1[d][a]]
          /\ \A a \in DOMAIN t1[d] : t1[d][a] \in Row /\ t1[d][a].status # "active"
      BY <3>a, <3>b DEF Row
    <3>4. Table(t1[d])
      BY <1>1, <3>3 DEF Table
    <3> QED BY <2>1, <3>1, <3>3, <3>4 DEF SkillsOK
  <2>2. CASE ~activate
    BY <1>0, <1>1, <2>2 DEF SkillsOK
  <2> QED BY <2>1, <2>2
<1>3. row \in Row /\ row.status \in {"trusted", "active", "retired"}
      /\ (activate => row.status = "active")
      /\ (~activate => \/ c \in DOMAIN t1[d] /\ row.status = t1[d][c].status
                       \/ c \notin DOMAIN t1[d] /\ row.status = "trusted")
  <2>1. \A a \in DOMAIN t1[d] : t1[d][a] \in Row
    BY <1>2 DEF Table
  <2>2. status \in {"trusted", "active"} /\ (activate <=> status = "active")
    OBVIOUS
  <2> HIDE DEF status
  <2>3. CASE c \in DOMAIN t1[d]
    <3>1. t1[d][c].wins + 1 \in Nat
      BY <2>1, <2>3 DEF Row
    <3>2. row = [status |-> IF status # "active" THEN t1[d][c].status ELSE status,
                 wins |-> t1[d][c].wins + 1, fresh |-> status = "active", rolled |-> FALSE,
                 base |-> base]
      BY <2>3 DEF Upserted
    <3> HIDE DEF row
    <3>3. (status = "active") \in BOOLEAN
      OBVIOUS
    <3> QED BY <2>1, <2>2, <2>3, <3>1, <3>2, <3>3 DEF Row, Configurations
  <2>4. CASE c \notin DOMAIN t1[d]
    <3>1. row = [status |-> status, wins |-> 0 + 1, fresh |-> status = "active",
                 rolled |-> FALSE, base |-> base]
      BY <2>4 DEF Upserted
    <3> HIDE DEF row
    <3>2. (status = "active") \in BOOLEAN /\ 0 + 1 \in Nat
      OBVIOUS
    <3> QED BY <2>2, <2>4, <3>1, <3>2 DEF Row, Configurations
  <2> QED BY <2>3, <2>4
<1> HIDE DEF status
<1>4. t2 = [t1 EXCEPT ![d] = With(t1[d], c, row)]
  BY <1>2, <1>a DEF Written
<1> HIDE DEF row
<1>5. t2[d] = [a \in DOMAIN t1[d] \cup {c} |-> IF a = c THEN row ELSE t1[d][a]]
  BY <1>2, <1>4 DEF With
<1>6. DOMAIN t2[d] = DOMAIN skills[d] \cup {c} /\ IsFiniteSet(DOMAIN t2[d])
  BY <1>1, <1>2, <1>5, FS_AddElement DEF Table
<1>7. Table(t2[d])
  <2>1. DOMAIN t2[d] \subseteq Configs
    BY <1>1, <1>6 DEF Table
  <2>2. t2[d] = [a \in DOMAIN t2[d] |-> t2[d][a]]
    <3> DEFINE F(a) == IF a = c THEN row ELSE t1[d][a]
               D == DOMAIN t1[d] \cup {c}
    <3>1. t2[d] = [a \in D |-> F(a)]
      BY <1>5
    <3> HIDE DEF F, D
    <3> QED BY <3>1
  <2>3. \A a \in DOMAIN t2[d] : t2[d][a] \in Row
    BY <1>2, <1>3, <1>5 DEF Table
  <2> QED BY <1>6, <2>1, <2>2, <2>3 DEF Table
<1>8. \A a, b \in Those(t2, d, "active") : a = b
  <2>1. CASE activate
    BY <1>2, <1>3, <1>5, <2>1 DEF Those
  <2>2. CASE ~activate
    BY <1>1, <1>2, <1>3, <1>5, <2>2 DEF Those
  <2> QED BY <2>1, <2>2
<1> QED BY <1>2, <1>4, <1>6, <1>7, <1>8 DEF SkillsOK

LEMMA CountUp ==
    ASSUME NEW C, NEW D, NEW h \in [C -> [D -> Nat]], NEW k \in C, NEW d \in D
    PROVE  LET f == [h EXCEPT ![k] = [h[k] EXCEPT ![d] = @ + 1]]
           IN /\ f \in [C -> [D -> Nat]]
              /\ \A i \in C, x \in D : f[i][x] = IF i = k /\ x = d THEN h[i][x] + 1 ELSE h[i][x]
<1> DEFINE g == [h[k] EXCEPT ![d] = @ + 1]
<1>1. h[k] \in [D -> Nat]
  OBVIOUS
<1>2. g \in [D -> Nat] /\ \A x \in D : g[x] = IF x = d THEN h[k][x] + 1 ELSE h[k][x]
  <2> DEFINE n == h[k]
  <2>1. n \in [D -> Nat]
    OBVIOUS
  <2> HIDE DEF n
  <2>2. /\ [n EXCEPT ![d] = @ + 1] \in [D -> Nat]
        /\ \A x \in D : [n EXCEPT ![d] = @ + 1][x] = IF x = d THEN n[x] + 1 ELSE n[x]
    BY <2>1
  <2> QED BY <2>2 DEF n
<1> HIDE DEF g
<1>3. /\ [h EXCEPT ![k] = g] \in [C -> [D -> Nat]]
      /\ \A i \in C : [h EXCEPT ![k] = g][i] = IF i = k THEN g ELSE h[i]
  BY <1>2
<1>4. ASSUME NEW i \in C, NEW x \in D
      PROVE  [h EXCEPT ![k] = g][i][x] = IF i = k /\ x = d THEN h[i][x] + 1 ELSE h[i][x]
  BY <1>2, <1>3
<1> QED BY <1>3, <1>4 DEF g

LEMMA RememberStore ==
    ASSUME StoreInv, CycleOK, NEW e \in Executors, RunOf[e] \notin finished, NEW d \in Domains,
           NEW c \in Configs, NEW activate \in BOOLEAN, NEW base \in Configurations, NEW res,
           d = Global => res \in Results,
           Remember(RunOf[e], d, c, activate, base, res), finished' = finished
    PROVE  StoreInv'
<1>1. CASE Seen(RunOf[e], cycle[RunOf[e]], d)
  <2>1. UNCHANGED <<skills, events, counted, finished>>
    BY <1>1 DEF Remember
  <2>2. SkillsOK' /\ LiveInv'
    BY <2>1 DEF StoreInv, SkillsOK, LiveInv, Live, Those
  <2>3. EventsOK' /\ ReplaysHaveTheirStrategy'
    BY <2>1 DEF StoreInv, EventsOK, ReplaysHaveTheirStrategy
  <2>4. CountsOK' /\ CountedInv'
    BY <2>1 DEF StoreInv, CountsOK, CountedInv, Recorded
  <2> QED BY <2>2, <2>3, <2>4 DEF StoreInv
<1>2. CASE ~Seen(RunOf[e], cycle[RunOf[e]], d)
  <2>0. PICK k : k = cycle[RunOf[e]]
    OBVIOUS
  <2> DEFINE t2 == Recording(d, c, activate, base)
             v == [key |-> Invocation(RunOf[e], k, d), config |-> c, base |-> base, result |-> res]
  <2>1. /\ skills' \in TrustedCuts(t2, d)
        /\ events' = IF \E w \in events : w.key = Invocation(RunOf[e], k, d) THEN events
                     ELSE events \cup {v}
        /\ counted' = [counted EXCEPT ![RunOf[e]][k][d] = @ + 1]
    BY <1>2, <2>0 DEF Remember, Recording, Demoting
  <2>2. ~Recorded(RunOf[e], k, d)
    BY <1>2, <2>0 DEF StoreInv, ReplaysHaveTheirStrategy, Seen, Recorded, Invocation
  <2>3. events' = events \cup {v}
    BY <2>1, <2>2 DEF Recorded
  <2>4. RunOf[e] \in Runs /\ k \in Cycles(RunOf[e]) /\ k \in Nat
    BY <2>0, RunsAssumption DEF CycleOK
  <2>5. /\ t2 = [x \in Domains |-> t2[x]] /\ \A x \in Domains : Table(t2[x])
        /\ \A x \in Domains \ {d} : t2[x] = skills[x]
        /\ DOMAIN t2[d] = DOMAIN skills[d] \cup {c}
        /\ \A a, b \in Those(t2, d, "active") : a = b
    BY WrittenEffect DEF StoreInv
  <2> HIDE DEF t2
  <2>6. /\ skills' = [x \in Domains |-> skills'[x]] /\ \A x \in Domains : Table(skills'[x])
        /\ \A x \in Domains \ {d} : skills'[x] = t2[x]
        /\ DOMAIN skills'[d] = DOMAIN t2[d]
        /\ Those(skills', d, "active") = Those(t2, d, "active")
        /\ Cardinality(Those(skills', d, "trusted")) <= TrustedBudget
    BY <2>1, <2>5, TrustedCutsEffect
  <2>7. SkillsOK'
    BY <2>6 DEF SkillsOK
  <2>8. LiveInv'
    <3>1. Live(skills', d)
      BY <2>5, <2>6 DEF Live
    <3>2. ASSUME NEW x \in Domains \ {d} PROVE Live(skills', x)
      <4>1. skills'[x] = skills[x] /\ Live(skills, x)
        BY <2>5, <2>6 DEF StoreInv, LiveInv
      <4> QED BY <4>1 DEF Live, Those
    <3> QED BY <3>1, <3>2 DEF LiveInv
  <2>9. EventsOK'
    BY <2>3, <2>4 DEF StoreInv, EventsOK, Invocation
  <2>10. ReplaysHaveTheirStrategy'
    <3>1. \A x \in Domains : DOMAIN skills[x] \subseteq DOMAIN skills'[x]
      BY <2>5, <2>6
    <3>2. c \in DOMAIN skills'[d]
      BY <2>5, <2>6
    <3>3. \A w \in events : w.key.domain \in Domains /\ w.config \in DOMAIN skills[w.key.domain]
      BY DEF StoreInv, EventsOK, ReplaysHaveTheirStrategy
    <3> QED BY <2>3, <3>1, <3>2, <3>3 DEF ReplaysHaveTheirStrategy, Invocation
  <2>11. CountsOK' /\ \A r \in Runs, x \in Domains : \A i \in Cycles(r) :
           counted'[r][i][x] = IF r = RunOf[e] /\ i = k /\ x = d THEN counted[r][i][x] + 1
                               ELSE counted[r][i][x]
    <3> DEFINE R == RunOf[e]
               f == [counted[R] EXCEPT ![k] = [counted[R][k] EXCEPT ![d] = @ + 1]]
    <3>1. counted' = [counted EXCEPT ![R] = f]
      BY <2>1
    <3>2. counted[R] \in [Cycles(R) -> [Domains -> Nat]] /\ counted[R][k] \in [Domains -> Nat]
      BY <2>4 DEF StoreInv, CountsOK
    <3>3. /\ f \in [Cycles(R) -> [Domains -> Nat]]
          /\ \A i \in Cycles(R), x \in Domains :
                f[i][x] = IF i = k /\ x = d THEN counted[R][i][x] + 1 ELSE counted[R][i][x]
      <4>1. k \in Cycles(R)
        BY <2>4
      <4> QED BY <3>2, <4>1, CountUp
    <3> HIDE DEF f
    <3>4. counted'[R] = f /\ \A r \in Runs \ {R} : counted'[r] = counted[r]
      <4>1. counted = [r \in Runs |-> counted[r]] /\ R \in Runs
        BY <2>4 DEF StoreInv, CountsOK
      <4> HIDE DEF R
      <4> QED BY <3>1, <4>1
    <3>5. counted' = [r \in Runs |-> counted'[r]]
      BY <3>1 DEF StoreInv, CountsOK
    <3>6. CountsOK'
      <4>1. R \in Runs
        BY <2>4
      <4> HIDE DEF R
      <4> QED BY <3>3, <3>4, <3>5, <4>1 DEF StoreInv, CountsOK
    <3> QED BY <3>3, <3>4, <3>6
  <2>12. CountedInv'
    <3>1. counted[RunOf[e]][k][d] = 0
      BY <2>2, <2>4 DEF StoreInv, CountedInv
    <3>2. \A r \in Runs, x \in Domains : \A i \in Cycles(r) : Recorded(r, i, x) => Recorded(r, i, x)'
      BY <2>3 DEF Recorded
    <3>3. Recorded(RunOf[e], k, d)'
      <4>1. v \in events' /\ v.key = Invocation(RunOf[e], k, d)
        BY <2>3
      <4> QED BY <4>1 DEF Recorded
    <3> QED BY <2>11, <3>1, <3>2, <3>3 DEF StoreInv, CountedInv
  <2> QED BY <2>7, <2>8, <2>9, <2>10, <2>11, <2>12 DEF StoreInv
<1> QED BY <1>1, <1>2

\* A step that writes no replay row and keeps or lowers every table.
LEMMA LoweredStore ==
    ASSUME StoreInv, skills' = [d \in Domains |-> skills'[d]],
           \A d \in Domains : Lowered(skills[d], skills'[d]),
           events' \subseteq events, UNCHANGED counted, finished \subseteq finished',
           \A v \in events' : v.config \in DOMAIN skills'[v.key.domain],
           \A v \in events \ events' : v.key.run \in finished'
    PROVE  StoreInv'
<1>1. SkillsOK' /\ LiveInv'
  BY LoweredIsLive DEF StoreInv
<1>2. EventsOK' /\ ReplaysHaveTheirStrategy'
  BY DEF StoreInv, EventsOK, ReplaysHaveTheirStrategy
<1>3. CountsOK' /\ CountedInv'
  <2>1. ASSUME NEW r \in Runs, NEW d \in Domains, NEW k \in Cycles(r)
        PROVE  Recorded(r, k, d) => Recorded(r, k, d)' \/ r \in finished'
    BY DEF Recorded, Invocation
  <2> QED BY <2>1 DEF StoreInv, CountsOK, CountedInv
<1> QED BY <1>1, <1>2, <1>3 DEF StoreInv

\* A transaction that changes no row leaves every table lowered, in the weak sense.
LEMMA SameIsLowered ==
    ASSUME SkillsOK, skills' = skills
    PROVE  skills' = [d \in Domains |-> skills'[d]] /\ \A d \in Domains : Lowered(skills[d], skills'[d])
BY DEF SkillsOK, Lowered, Table

\* A validation mark changes neither the status of a row nor its strategies.
LEMMA MarkedIsLowered ==
    ASSUME SkillsOK, NEW x \in Domains, NEW c, NEW measured, NEW base \in Configurations,
           skills' = Marked(skills, x, c, measured, base)
    PROVE  /\ skills' = [d \in Domains |-> skills'[d]]
           /\ \A d \in Domains : Lowered(skills[d], skills'[d]) /\ DOMAIN skills'[d] = DOMAIN skills[d]
<1>1. CASE c \notin DOMAIN skills[x]
  BY <1>1, SameIsLowered DEF Marked
<1>2. CASE c \in DOMAIN skills[x]
  <2> DEFINE row == [skills[x][c] EXCEPT !.fresh = TRUE, !.base = IF measured THEN base ELSE @]
  <2>1. skills' = [skills EXCEPT ![x] = [skills[x] EXCEPT ![c] = row]]
    BY <1>2 DEF Marked, SkillsOK
  <2>2. Table(skills[x]) /\ skills[x][c] \in Row
    BY <1>2 DEF SkillsOK, Table
  <2>3. row \in Row /\ row.status = skills[x][c].status
    <3>1. (IF measured THEN base ELSE skills[x][c].base) \in Configurations
      BY <2>2 DEF Row, Configurations
    <3> QED BY <2>2, <3>1 DEF Row, Configurations
  <2> HIDE DEF row
  <2>4. skills'[x] = [skills[x] EXCEPT ![c] = row] /\ \A d \in Domains \ {x} : skills'[d] = skills[d]
    BY <2>1 DEF SkillsOK
  <2>5. DOMAIN skills'[x] = DOMAIN skills[x] /\ Lowered(skills[x], skills'[x])
    BY <2>2, <2>3, <2>4 DEF Lowered, Table
  <2>6. skills' = [d \in Domains |-> skills'[d]]
    BY <2>1 DEF SkillsOK
  <2> QED BY <2>4, <2>5, <2>6 DEF SkillsOK, Lowered
<1> QED BY <1>1, <1>2

\* Steps that keep the rows and write no replay row.
LEMMA MarkingStore ==
    ASSUME StoreInv, UNCHANGED <<events, finished, counted>>,
           \/ skills' = skills
           \/ \E c : \E x \in Domains, measured \in BOOLEAN, base \in Configurations :
                 skills' = Marked(skills, x, c, measured, base)
    PROVE  StoreInv'
<1>1. /\ skills' = [d \in Domains |-> skills'[d]]
      /\ \A d \in Domains : Lowered(skills[d], skills'[d]) /\ DOMAIN skills'[d] = DOMAIN skills[d]
  BY SameIsLowered, MarkedIsLowered DEF StoreInv
<1>2. \A v \in events' : v.config \in DOMAIN skills'[v.key.domain]
  BY <1>1 DEF StoreInv, ReplaysHaveTheirStrategy, EventsOK
<1> QED BY <1>1, <1>2, LoweredStore

\* A function with the rows of a table under the same strategies is one too.
LEMMA TableAgain ==
    ASSUME NEW f, NEW g, Table(f), DOMAIN g = DOMAIN f, g = [c \in DOMAIN g |-> g[c]],
           \A c \in DOMAIN g : g[c] \in Row
    PROVE  Table(g)
BY DEF Table

\* The write of a rollback retires rows whatever their status is now.
LEMMA WriteRetiredStore ==
    ASSUME StoreInv, ExecutorsOK, NEW e \in Executors, WriteRetired(e)
    PROVE  StoreInv'
<1> DEFINE j == ex[e].job
           D == j.domain
           F(c) == IF c \in j.inner
                   THEN [skills[D][c] EXCEPT !.status = "retired", !.rolled = TRUE] ELSE skills[D][c]
<1>1. D \in Domains
  BY DEF ExecutorsOK, ExecutorOK, Jobs
<1>2. Table(skills[D])
  BY <1>1 DEF StoreInv, SkillsOK
<1>3. /\ skills' = [skills EXCEPT ![D] = [c \in DOMAIN skills[D] |-> F(c)]]
      /\ UNCHANGED <<events, finished, counted>>
  BY DEF WriteRetired
<1>4. \A c \in DOMAIN skills[D] : F(c) \in Row /\ F(c).status \in {skills[D][c].status, "retired"}
  BY <1>2 DEF Table, Row
<1> HIDE DEF F
<1>5. skills'[D] = [c \in DOMAIN skills[D] |-> F(c)] /\ \A d \in Domains \ {D} : skills'[d] = skills[d]
  BY <1>1, <1>3 DEF StoreInv, SkillsOK
<1>6. Lowered(skills[D], skills'[D]) /\ DOMAIN skills'[D] = DOMAIN skills[D]
  <2>1. skills'[D] = [c \in DOMAIN skills'[D] |-> skills'[D][c]] /\ DOMAIN skills'[D] = DOMAIN skills[D]
    BY <1>5
  <2>2. \A c \in DOMAIN skills'[D] : skills'[D][c] = F(c)
    BY <1>5
  <2>3. \A c \in DOMAIN skills'[D] : skills'[D][c] \in Row
    BY <1>4, <2>1, <2>2
  <2>4. Table(skills'[D])
    <3> HIDE DEF j
    <3> QED BY <1>2, <2>1, <2>3, TableAgain
  <2> QED BY <1>4, <2>1, <2>2, <2>4 DEF Lowered
<1>7. \A d \in Domains : Lowered(skills[d], skills'[d]) /\ DOMAIN skills'[d] = DOMAIN skills[d]
  BY <1>5, <1>6 DEF StoreInv, SkillsOK, Lowered
<1>8. skills' = [d \in Domains |-> skills'[d]]
  BY <1>3 DEF StoreInv, SkillsOK
<1>9. \A v \in events' : v.config \in DOMAIN skills'[v.key.domain]
  BY <1>3, <1>7 DEF StoreInv, ReplaysHaveTheirStrategy, EventsOK
<1> HIDE DEF j
<1> QED BY <1>3, <1>7, <1>8, <1>9, LoweredStore

LEMMA LapseStore ==
    ASSUME StoreInv, Lapse
    PROVE  StoreInv'
<1>1. /\ skills' = [d \in Domains |-> [c \in DOMAIN skills[d] |-> [skills[d][c] EXCEPT !.fresh = FALSE]]]
      /\ UNCHANGED <<events, finished, counted>>
  BY DEF Lapse
<1>2. ASSUME NEW d \in Domains
      PROVE  Lowered(skills[d], skills'[d]) /\ DOMAIN skills'[d] = DOMAIN skills[d]
  <2>1. Table(skills[d]) /\ \A c \in DOMAIN skills[d] : skills[d][c] \in Row
    BY DEF StoreInv, SkillsOK, Table
  <2>2. skills'[d] = [c \in DOMAIN skills[d] |-> [skills[d][c] EXCEPT !.fresh = FALSE]]
    BY <1>1
  <2>3. ASSUME NEW c \in DOMAIN skills[d]
        PROVE  skills'[d][c] \in Row /\ skills'[d][c].status = skills[d][c].status
    <3>1. skills'[d][c] = [skills[d][c] EXCEPT !.fresh = FALSE] /\ skills[d][c] \in Row
      BY <2>1, <2>2
    <3> QED BY <3>1 DEF Row
  <2>4. DOMAIN skills'[d] = DOMAIN skills[d] /\ skills'[d] = [c \in DOMAIN skills'[d] |-> skills'[d][c]]
    BY <2>2
  <2> QED BY <2>1, <2>3, <2>4 DEF Lowered, Table
<1>3. skills' = [d \in Domains |-> skills'[d]]
  BY <1>1
<1>4. \A v \in events' : v.config \in DOMAIN skills'[v.key.domain]
  BY <1>1, <1>2 DEF StoreInv, ReplaysHaveTheirStrategy, EventsOK
<1> QED BY <1>1, <1>2, <1>3, <1>4, LoweredStore

\* Maintenance: the replay rows of a finished run go, then retired rows that none refers to.
LEMMA DiscardStore ==
    ASSUME StoreInv, HoldersInv, NEW e \in Executors, Discard(e)
    PROVE  StoreInv'
<1>1. /\ UNCHANGED <<skills, finished, counted>> /\ events' = {v \in events : v.key.run # RunOf[e]}
      /\ ex[e].pc = "discard"
  BY DEF Discard
<1>2. RunOf[e] \in finished
  BY <1>1 DEF HoldersInv, FinishedInv, Closing
<1>3. \A v \in events' : v.config \in DOMAIN skills'[v.key.domain]
  BY <1>1 DEF StoreInv, ReplaysHaveTheirStrategy
<1>4. \A v \in events \ events' : v.key.run \in finished'
  BY <1>1, <1>2
<1> QED BY <1>1, <1>3, <1>4, SameIsLowered, LoweredStore DEF StoreInv

LEMMA PruneStore ==
    ASSUME StoreInv, NEW e \in Executors, Prune(e)
    PROVE  StoreInv'
<1>1. UNCHANGED <<events, finished, counted>>
  BY DEF Prune
<1>2. PICK keep : skills' = [d \in Domains |-> Without(skills[d], Prunable(skills, d) \ keep[d])]
  BY DEF Prune
<1>3. ASSUME NEW d \in Domains
      PROVE  Lowered(skills[d], skills'[d]) /\ DOMAIN skills[d] \ Prunable(skills, d) \subseteq DOMAIN skills'[d]
  <2> DEFINE gone == Prunable(skills, d) \ keep[d]
  <2>1. Table(skills[d])
    BY DEF StoreInv, SkillsOK
  <2>2. skills'[d] = Without(skills[d], gone)
    BY <1>2
  <2> HIDE DEF gone
  <2>3. /\ DOMAIN skills'[d] = DOMAIN skills[d] \ gone
        /\ \A c \in DOMAIN skills'[d] : skills'[d][c] = skills[d][c]
        /\ skills'[d] = [c \in DOMAIN skills'[d] |-> skills'[d][c]]
    BY <2>2 DEF Without
  <2>4. IsFiniteSet(DOMAIN skills'[d])
    BY <2>1, <2>3, FS_Subset DEF Table
  <2> QED BY <2>1, <2>3, <2>4 DEF Lowered, Table, gone
<1>4. skills' = [d \in Domains |-> skills'[d]]
  BY <1>2
<1>5. ASSUME NEW v \in events' PROVE v.config \in DOMAIN skills'[v.key.domain]
  <2>1. v \in events /\ v.key.domain \in Domains /\ v.config \in DOMAIN skills[v.key.domain]
    BY <1>1 DEF StoreInv, EventsOK, ReplaysHaveTheirStrategy
  <2>2. v.config \notin Prunable(skills, v.key.domain)
    BY <2>1 DEF Prunable
  <2> QED BY <1>3, <2>1, <2>2
<1> QED BY <1>1, <1>3, <1>4, <1>5, LoweredStore

-----------------------------------------------------------------------------
(* The invariant holds.                                                     *)

LEMMA InitIInv == Init => IInv
<1> SUFFICES ASSUME Init PROVE IInv
  OBVIOUS
<1>1. PICK seed \in Seeds :
        /\ skills = [d \in Domains |-> [c \in seed[d] |->
                       [status |-> "active", wins |-> 1, fresh |-> FALSE, rolled |-> FALSE,
                        base |-> Default]]]
        /\ credits = UNION {{Credit(d, c, "accepted") : c \in seed[d]} : d \in Domains}
  BY DEF Init
<1>2. ASSUME NEW d \in Domains PROVE Table(skills[d]) /\ Live(skills, d)
  <2> DEFINE row == [status |-> "active", wins |-> 1, fresh |-> FALSE, rolled |-> FALSE, base |-> Default]
  <2>1. seed[d] \subseteq Configs /\ \A a, b \in seed[d] : a = b
    BY SeedsAssumption
  <2>2. IsFiniteSet(seed[d])
    <3>1. CASE seed[d] = {}
      BY <3>1, FS_EmptySet
    <3>2. CASE seed[d] # {}
      <4>1. PICK a \in seed[d] : seed[d] = {a}
        BY <2>1, <3>2
      <4> QED BY <4>1, FS_Singleton
    <3> QED BY <3>1, <3>2
  <2>3. row \in Row /\ row.status = "active"
    BY DEF Row
  <2>4. skills[d] = [c \in seed[d] |-> row]
    BY <1>1
  <2> HIDE DEF row
  <2>5. /\ DOMAIN skills[d] = seed[d] /\ skills[d] = [c \in DOMAIN skills[d] |-> skills[d][c]]
        /\ \A c \in seed[d] : skills[d][c] = row
    BY <2>4
  <2>6. Table(skills[d])
    BY <2>1, <2>2, <2>3, <2>5 DEF Table
  <2>7. \A a, b \in Those(skills, d, "active") : a = b
    BY <2>1, <2>5 DEF Those
  <2>8. Those(skills, d, "trusted") = {}
    BY <2>3, <2>5 DEF Those
  <2>9. Cardinality(Those(skills, d, "trusted")) <= TrustedBudget
    BY <2>8, FS_EmptySet, BudgetsAssumption
  <2> QED BY <2>6, <2>7, <2>9 DEF Live
<1>3. SkillsOK
  BY <1>1, <1>2 DEF SkillsOK
<1>4. LiveInv
  BY <1>2 DEF LiveInv
<1>5. EventsOK /\ ReplaysHaveTheirStrategy
  BY DEF Init, EventsOK, ReplaysHaveTheirStrategy
<1>6. CountsOK /\ CountedInv
  BY DEF Init, CountsOK, CountedInv
<1>7. HoldersInv
  <2>1. ExecutorsOK
    BY IdleOK DEF Init, ExecutorsOK
  <2>2. \A e \in Executors : ex[e].pc = "idle"
    BY DEF Init, Idle
  <2> QED BY <2>1, <2>2 DEF Init, HoldersInv, AloneInv, FinishedInv, Alive, Closing
<1>8. CreditsOK /\ CycleOK
  BY <1>1, SeedsAssumption, RunsAssumption DEF CreditsOK, Credit, Init, CycleOK, Cycles
<1>9. lapses \in 0 .. MaxLapses
  BY BudgetsAssumption DEF Init
<1> QED BY <1>3, <1>4, <1>5, <1>6, <1>7, <1>8, <1>9 DEF IInv, StoreInv

LEMMA StepHolders ==
    ASSUME IInv, NEW e \in Executors, Step(e)
    PROVE  HoldersInv'
<1>1. HoldersInv /\ SkillsOK /\ EventsOK
  BY DEF IInv, StoreInv
<1>2. CASE Start(e) \/ ValidateBusiness(e) \/ ReadCore(e) \/ JudgeCore(e)
  BY <1>1, <1>2, StartHolders, ValidateBusinessHolders, CoreHolders
<1>3. CASE ValidateRelevance(e) \/ MergeValidation(e)
  BY <1>1, <1>3, RelevanceHolders
<1>4. CASE \E s \in Segments : LoadSegment(e, s) \/ CheckSegment(e, s) \/ JudgeSegment(e, s)
  BY <1>1, <1>4, SegmentHolders
<1>5. CASE ReadOuter(e) \/ ReadInner(e) \/ WriteRetired(e) \/ CreditRollback(e)
  BY <1>1, <1>5, RollbackHolders
<1>6. CASE Replay(e) \/ Evolve(e) \/ RecordCredit(e)
  BY <1>1, <1>6, EvolveHolders
<1>7. CASE RememberGlobal(e) \/ (\E s \in Segments : RememberSegment(e, s)) \/ Evolved(e)
  BY <1>1, <1>7, RememberHolders
<1>8. CASE Finish(e) \/ Discard(e) \/ Prune(e)
  BY <1>1, <1>8, ClosingHolders
<1>9. CASE Crash(e)
  BY <1>1, <1>9, CrashHolders
<1> QED BY <1>2, <1>3, <1>4, <1>5, <1>6, <1>7, <1>8, <1>9 DEF Step

LEMMA StepStore ==
    ASSUME IInv, NEW e \in Executors, Step(e)
    PROVE  StoreInv'
<1>1. StoreInv /\ HoldersInv /\ SkillsOK /\ ExecutorsOK /\ ExecutorOK(ex[e])
  BY DEF IInv, StoreInv, HoldersInv, ExecutorsOK
<1>2. Global \in Domains /\ Default \in Configurations /\ ex[e].engine \in Configurations
  BY <1>1 DEF Domains, Configurations, ExecutorOK
<1>3. CASE /\ UNCHANGED <<events, finished, counted>>
           /\ \/ skills' = skills
              \/ \E c : \E x \in Domains, measured \in BOOLEAN, base \in Configurations :
                    skills' = Marked(skills, x, c, measured, base)
  BY <1>1, <1>3, MarkingStore
<1>4. CASE Start(e) \/ ValidateBusiness(e) \/ ReadCore(e)
  BY <1>3, <1>4 DEF Start, ValidateBusiness, ReadCore
<1>5. CASE JudgeCore(e) \/ ValidateRelevance(e) \/ MergeValidation(e)
  <2>1. UNCHANGED <<events, finished, counted>>
    BY <1>5 DEF JudgeCore, ValidateRelevance, MergeValidation
  <2>2. skills' = skills \/ \E c : skills' = Marked(skills, Global, c, FALSE, Default)
    BY <1>5 DEF JudgeCore, ValidateRelevance, MergeValidation
  <2> QED BY <1>2, <1>3, <2>1, <2>2
<1>6. CASE \E s \in Segments : LoadSegment(e, s) \/ CheckSegment(e, s)
  BY <1>3, <1>6 DEF LoadSegment, CheckSegment
<1>7. CASE \E s \in Segments : JudgeSegment(e, s)
  <2>1. PICK s \in Segments : JudgeSegment(e, s)
    BY <1>7
  <2> DEFINE c == CHOOSE y \in ex[e].stale[s] : TRUE
             m == c = ex[e].portfolio[s]
  <2>2. s \in Domains /\ m \in BOOLEAN
    BY DEF Domains
  <2>3. UNCHANGED <<events, finished, counted>>
    BY <2>1 DEF JudgeSegment
  <2>4. skills' = skills \/ skills' = Marked(skills, s, c, m, ex[e].engine)
    BY <2>1 DEF JudgeSegment
  <2> HIDE DEF c, m
  <2> QED BY <1>2, <1>3, <2>2, <2>3, <2>4
<1>8. CASE ReadOuter(e) \/ ReadInner(e) \/ CreditRollback(e)
  BY <1>3, <1>8 DEF ReadOuter, ReadInner, CreditRollback
<1>9. CASE WriteRetired(e)
  BY <1>1, <1>9, WriteRetiredStore
<1>10. CASE Replay(e) \/ Evolve(e) \/ RecordCredit(e) \/ Evolved(e) \/ Crash(e)
  BY <1>3, <1>10 DEF Replay, Evolve, RecordCredit, Evolved, Crash
<1>11. CASE RememberGlobal(e)
  <2> DEFINE x == ex[e]
  <2>1. /\ x.pc = "global" /\ finished' = finished
        /\ Remember(RunOf[e], Global, x.result.config, Wants(e), x.base, x.result)
    BY <1>11 DEF RememberGlobal
  <2>2. x.result \in Results /\ x.base \in Configurations /\ x.result.config \in Configs
    BY <1>1, <2>1, ResultsAssumption DEF ExecutorOK
  <2>3. RunOf[e] \notin finished /\ Wants(e) \in BOOLEAN
    BY <1>1, <2>1 DEF HoldersInv, FinishedInv, Closing, Wants
  <2> HIDE DEF x
  <2> QED BY <1>1, <1>2, <2>1, <2>2, <2>3, RememberStore DEF IInv
<1>12. CASE \E s \in Segments : RememberSegment(e, s)
  <2>1. PICK s \in Segments : RememberSegment(e, s)
    BY <1>12
  <2> DEFINE x == ex[e]
             c == x.result.entries[s].config
             a == Wants(e) /\ ~x.activated
  <2>2. /\ x.pc = "remember" /\ finished' = finished /\ s \in x.todo
        /\ \/ Remember(RunOf[e], s, c, a, x.base, None)
           \/ UNCHANGED <<skills, events, counted>>
    BY <2>1 DEF RememberSegment
  <2>3. x.result \in Results /\ x.base \in Configurations /\ s \in DOMAIN x.result.entries
    BY <1>1, <2>2 DEF ExecutorOK
  <2>4. c \in Configs
    BY <2>3, ResultsAssumption
  <2>5. RunOf[e] \notin finished /\ a \in BOOLEAN
    BY <1>1, <2>2 DEF HoldersInv, FinishedInv, Closing
  <2>6. s \in Domains /\ s # Global
    BY DomainsAssumption DEF Domains
  <2> HIDE DEF x, c, a
  <2> QED BY <1>1, <1>3, <2>2, <2>3, <2>4, <2>5, <2>6, RememberStore DEF IInv
<1>13. CASE Finish(e)
  <2>1. UNCHANGED <<skills, events, counted>> /\ finished \subseteq finished'
    BY <1>13 DEF Finish
  <2> QED BY <1>1, <2>1, SameIsLowered, LoweredStore DEF StoreInv, ReplaysHaveTheirStrategy
<1>14. CASE Discard(e)
  BY <1>1, <1>14, DiscardStore
<1>15. CASE Prune(e)
  BY <1>1, <1>15, PruneStore
<1> QED BY <1>4, <1>5, <1>6, <1>7, <1>8, <1>9, <1>10, <1>11, <1>12, <1>13, <1>14, <1>15 DEF Step

LEMMA StepCredits ==
    ASSUME IInv, NEW e \in Executors, Step(e)
    PROVE  CreditsOK' /\ lapses' = lapses
<1>1. ExecutorOK(ex[e]) /\ CreditsOK
  BY DEF IInv, HoldersInv, ExecutorsOK
<1>2. CASE RecordCredit(e)
  <2> DEFINE res == ex[e].result
  <2>1. res \in Results
    BY <1>1, <1>2 DEF RecordCredit, ExecutorOK
  <2>2. Earned(res) \subseteq [domain : Domains, config : Configs,
                               outcome : {"accepted", "rejected", "rollback"}]
    BY <2>1, ResultsAssumption DEF Earned, Credit, Domains
  <2>3. credits' \subseteq credits \cup Earned(res) /\ lapses' = lapses
    BY <1>2 DEF RecordCredit
  <2> QED BY <1>1, <2>2, <2>3 DEF CreditsOK
<1>3. CASE CreditRollback(e)
  <2>1. ex[e].job.domain \in Domains /\ ex[e].job.outer \subseteq Configs
    BY <1>1 DEF ExecutorOK, Jobs
  <2>2. /\ credits' = credits \cup {Credit(ex[e].job.domain, c, "rollback") : c \in ex[e].job.outer}
        /\ lapses' = lapses
    BY <1>3 DEF CreditRollback
  <2> QED BY <1>1, <2>1, <2>2 DEF CreditsOK, Credit
<1>4. CASE UNCHANGED <<credits, lapses>>
  BY <1>1, <1>4 DEF CreditsOK
<1>5. Step(e) => RecordCredit(e) \/ CreditRollback(e) \/ UNCHANGED <<credits, lapses>>
  BY DEF Step, Start, ValidateBusiness, ReadCore, JudgeCore, ValidateRelevance, MergeValidation,
         LoadSegment, CheckSegment, JudgeSegment, RememberSegment, ReadOuter, ReadInner,
         WriteRetired, Replay, Evolve, RememberGlobal, Evolved, Finish, Discard, Prune, Crash
<1> QED BY <1>2, <1>3, <1>4, <1>5

\* A run comes to its evolve action in one of its cycles.
LEMMA StepCycle ==
    ASSUME CycleOK, NEW e \in Executors, Step(e)
    PROVE  CycleOK'
<1>1. CASE \E k : InCycle(e, k)
  <2>1. PICK k : k \in Cycles(RunOf[e]) /\ cycle' = [cycle EXCEPT ![RunOf[e]] = k]
    BY <1>1 DEF InCycle
  <2>2. k \in Nat
    BY <2>1, RunsAssumption DEF Cycles
  <2> QED BY <2>1, <2>2, RunsAssumption DEF CycleOK
<1>2. CASE cycle' = cycle
  BY <1>2 DEF CycleOK
<1>3. Step(e) => (\E k : InCycle(e, k)) \/ cycle' = cycle
  BY DEF Step, Start, ValidateBusiness, ReadCore, JudgeCore, ValidateRelevance, MergeValidation,
         LoadSegment, CheckSegment, JudgeSegment, RememberSegment, ReadOuter, ReadInner,
         WriteRetired, CreditRollback, Replay, Evolve, RecordCredit, RememberGlobal, Evolved,
         Finish, Discard, Prune, Crash
<1> QED BY <1>1, <1>2, <1>3

LEMMA NextIInv == IInv /\ [Next]_vars => IInv'
<1> SUFFICES ASSUME IInv, [Next]_vars PROVE IInv'
  OBVIOUS
<1>1. CASE Lapse
  <2>1. StoreInv'
    BY <1>1, LapseStore DEF IInv
  <2>2. HoldersInv' /\ CreditsOK' /\ CycleOK'
    BY <1>1 DEF Lapse, IInv, HoldersInv, ExecutorsOK, AloneInv, FinishedInv, Alive, CreditsOK,
                CycleOK
  <2>3. lapses' \in 0 .. MaxLapses
    BY <1>1, BudgetsAssumption DEF Lapse, IInv
  <2> QED BY <2>1, <2>2, <2>3 DEF IInv
<1>2. CASE \E e \in Executors : Step(e)
  BY <1>2, StepHolders, StepStore, StepCredits, StepCycle DEF IInv
<1>3. CASE UNCHANGED vars
  <2>1. StoreInv'
    BY <1>3, MarkingStore DEF vars, IInv
  <2> QED BY <1>3, <2>1 DEF vars, IInv, HoldersInv, ExecutorsOK, AloneInv, FinishedInv, Alive,
                            CreditsOK, CycleOK
<1> QED BY <1>1, <1>2, <1>3 DEF Next

\* Every behaviour of the strategy memory satisfies the inductive invariant.
THEOREM StrategyInvariant == Spec => []IInv
BY InitIInv, NextIInv, PTL DEF Spec

\* The strategies, replay rows, credits and executors keep their types.  (agent_skills,
\* agent_skill_events, agent_strategy_credit_events)
THEOREM StrategyTypes == Spec => []TypeOK
<1>1. IInv => TypeOK
  BY DEF IInv, StoreInv, HoldersInv, CreditsOK, CycleOK, CountsOK, SkillsOK, Table, EventsOK, ExecutorsOK,
         ExecutorOK, FinishedInv, Configurations, TypeOK
<1> QED BY <1>1, StrategyInvariant, PTL

\* Whatever executors activate, retire and validate concurrently, a domain has at most one
\* active strategy, and no more trusted ones than the budget.  (remember_strategy,
\* retire_active)
THEOREM LiveStrategies == Spec => []LiveStrategiesAreBounded
<1>1. ASSUME IInv, NEW d \in Domains
      PROVE  /\ Cardinality(Those(skills, d, "active")) <= 1
             /\ Cardinality(Those(skills, d, "trusted")) <= TrustedBudget
  <2> DEFINE A == Those(skills, d, "active")
  <2>1. (\A a, b \in A : a = b) /\ Cardinality(Those(skills, d, "trusted")) <= TrustedBudget
    BY <1>1 DEF IInv, StoreInv, LiveInv, Live
  <2> HIDE DEF A
  <2>2. Cardinality(A) <= 1
    <3>1. CASE A = {}
      BY <3>1, FS_EmptySet
    <3>2. CASE A # {}
      <4>1. PICK a \in A : A = {a}
        BY <2>1, <3>2
      <4> QED BY <4>1, FS_Singleton
    <3> QED BY <3>1, <3>2
  <2> QED BY <2>1, <2>2 DEF A
<1>2. IInv => LiveStrategiesAreBounded
  BY <1>1 DEF LiveStrategiesAreBounded
<1> QED BY <1>2, StrategyInvariant, PTL

\* The strategy of a replay row is never deleted, whatever maintenance runs for other runs.
\* (invocation_result, prune_retired_strategy_history)
THEOREM Replays == Spec => []ReplaysHaveTheirStrategy
<1>1. IInv => ReplaysHaveTheirStrategy
  BY DEF IInv, StoreInv
<1> QED BY <1>1, StrategyInvariant, PTL

\* However often a run dies and executes its evolve action again, an invocation counts at
\* most one win in a domain, although executors of other runs prune and write the same rows.
\* (remember_strategy with the invocation's replay row, whose key holds the cycle)
THEOREM WinsAreCountedOnce == Spec => []InvocationsCountOnce
<1>1. IInv => InvocationsCountOnce
  BY DEF IInv, StoreInv, CountedInv, InvocationsCountOnce
<1> QED BY <1>1, StrategyInvariant, PTL
=============================================================================
