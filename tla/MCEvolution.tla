------------------------------ MODULE MCEvolution ------------------------------
(* Two dimensions with their single changes, a combination and a second step; one segment.   *)
(* The scenarios keep the questions apart: every backend on every landscape, every kind of    *)
(* evidence through the gates, two runs with a crash through the ledgers, and the same with a*)
(* backend that the policy "auto" selects.                                                   *)
EXTENDS AutoEvolution, TLC

CONSTANTS r1, r2, s1

At(m, n) == [f \in {"x", "y"} |-> IF f = "x" THEN m ELSE n]

MCFields  == {"x", "y"}
MCBase    == At(0, 0)
MCConfigs == {MCBase, At(1, 0), At(-1, 0), At(0, 1), At(1, 1), At(2, 0), At(-1, 1)}

\* The configs one step away along one dimension.
MCNeighbours(c) ==
    {d \in MCConfigs : \E f \in MCFields : /\ d[f] - c[f] \in {-1, 1}
                                         /\ \A g \in MCFields \ {f} : d[g] = c[g]}

Land(score, broken) == [score |-> score, broken |-> broken]
Ridge       == [c \in MCConfigs |-> IF c = At(2, 0) THEN 3 ELSE c["x"] + c["y"]]
Flat        == [c \in MCConfigs |-> IF c = MCBase THEN 0 ELSE -1]
Knoll       == [c \in MCConfigs |-> IF c = At(1, 0) THEN 1 ELSE 0]
Hill        == [c \in MCConfigs |-> IF c = At(1, 1) THEN 3 ELSE IF c = At(1, 0) THEN 1 ELSE 0]

Steep       == [c \in MCConfigs |-> IF c = At(2, 0) THEN 200 ELSE 0]
Gentle      == [c \in MCConfigs |-> 900 + 30 * c["x"]]

MCLandscapes == [ridge   |-> Land(Ridge, {At(1, 1)}),
                 hill    |-> Land(Hill, {}),
                 knoll   |-> Land(Knoll, {}),
                 stuck   |-> Land(Flat, {At(2, 0), At(1, 1), At(-1, 1)}),
                 raising |-> Land(Flat, {At(0, 1)}),
                 steep   |-> Land(Steep, {}),
                 gentle  |-> Land(Gentle, {})]
MCBackends   == {"native", "optuna", "optuna_motpe", "qlognehvi"}
MCRuns       == {r1, r2}
MCSegments   == {s1}

\* A positive share of 0.65 and more goes with a holdout mean that is not negative.  Rewards
\* that both rise and bounds that both fail are asked for together only, so one of each is
\* missing at most.
Consistent(e) == /\ e.probability >= 1 <=> e.holdout = 3
                 /\ e.guard = "harmful" => ~e.gain
                 /\ e.full \/ e.discovered
                 /\ e.bounded \/ e.powered

Firm == [guard |-> "narrow", gain |-> TRUE, full |-> TRUE, discovered |-> TRUE, holdout |-> 3,
         probability |-> 3, bounded |-> TRUE, powered |-> TRUE]
Weak == [Firm EXCEPT !.probability = 2, !.powered = FALSE]
Worse == [Firm EXCEPT !.holdout = 0, !.probability = 0, !.guard = "harmful", !.gain = FALSE]

SegmentFirm == [enough |-> TRUE, guarded |-> TRUE, safe |-> TRUE, discovery |-> "more",
                holdout |-> 3, likely |-> TRUE]
SegmentWorse == [SegmentFirm EXCEPT !.holdout = 0, !.likely = FALSE]
SegmentFew == [SegmentFirm EXCEPT !.enough = FALSE, !.discovery = "slight", !.likely = FALSE]
SegmentSame == [SegmentFirm EXCEPT !.discovery = "same", !.likely = FALSE]

\* Every holdout request is a pair, or only some are.
Data(m, n) == [labels |-> m, requests |-> n, pairs |-> HoldoutRequests(n)]
Skipping(m, n, k) == [Data(m, n) EXCEPT !.pairs = k]

\* What a scenario without the policy leaves out.
Plain(s) == s @@ [auto |-> FALSE, installs |-> {}, histories |-> {{}}, strategies |-> {}]

Searching == [searches |-> TRUE, runs |-> {r1}, crashes |-> 0, surfaces |-> {"search"},
              data |-> {Data(4, 0)}, backends |-> MCBackends,
              landscapes |-> {"ridge", "hill", "stuck", "raising"},
              evidence |-> {Firm}, segments |-> {SegmentFirm}]
Judging   == [searches |-> FALSE, runs |-> {r1}, crashes |-> 0, surfaces |-> Surfaces,
              data |-> {Data(m, n) : m \in 2 .. 4, n \in {0, 6}}
                       \cup {Data(4, 4), Data(6, 0), Skipping(4, 6, 0)},
              backends |-> {"native"}, landscapes |-> {"hill", "stuck"},
              evidence |-> {e \in Evidence : Consistent(e)}, segments |-> {SegmentSame}]
Learning  == [searches |-> FALSE, runs |-> MCRuns, crashes |-> 1, surfaces |-> {"search"},
              data |-> {Data(6, 6)}, backends |-> {"qlognehvi"}, landscapes |-> {"knoll"},
              evidence |-> {Firm, Worse}, segments |-> {SegmentWorse}]
Routing   == [Learning EXCEPT !.runs = {r1}, !.surfaces = {"recommend"}, !.landscapes = {"hill"},
                              !.evidence = {Firm, Weak},
                              !.segments = {SegmentFirm, SegmentWorse, SegmentFew}]
\* The policy "auto", and what earlier runs earned in a context.
MCCapabilities == {"y"}
MCScale(f)     == 3
MCChoices      == [f \in MCCapabilities |-> 2]
MCFeasible(l)  == IF l = "steep" THEN {MCBase, At(2, 0)} ELSE MCConfigs

\* What DescribeWeighted says of every config of the gentle landscape.
GentleShape == [rows |-> "moderate", span |-> "compact", roughness |-> "rugged",
                dispersion |-> "stable", feasible |-> "dense", categorical |-> "weak"]

\* The identity of the instance's context on the production route.
KeyOf(landscape) ==
    [surface |-> "search", route |-> "production", budget |-> 4, warm |-> 3, continuous |-> 1,
     cardinality |-> 2, landscape |-> landscape]
Earned(n, context, name, utility) ==
    {[run |-> i, cycle |-> 1, surface |-> context.surface, context |-> context, backend |-> name,
      utility |-> utility, searched |-> name] : i \in 1 .. n}

GentleKey == KeyOf(GentleShape)
PlainKey  == KeyOf([f \in DOMAIN GentleShape |-> IF f = "rows" THEN "none" ELSE "unknown"])

Installed == [found |-> {"optuna", "botorch"}, broken |-> {}]

\* One run that may have to be executed again, two runs that learn from each other, a run in a
\* context unlike those that earned credit, and one with strategies to describe the landscape
\* by, or without enough labels.
AutoRetrying ==
    [searches |-> FALSE, runs |-> {r1}, crashes |-> 1, surfaces |-> {"search"},
     data |-> {Data(6, 6)}, backends |-> MCBackends, landscapes |-> {"gentle"},
     evidence |-> {Firm, Worse}, segments |-> {SegmentSame}, auto |-> TRUE,
     installs |-> {Installed, [Installed EXCEPT !.broken = {"botorch"}]},
     histories |-> {Earned(4, GentleKey, "qlognehvi", 100)}, strategies |-> {}]
AutoLearning ==
    [AutoRetrying EXCEPT !.runs = MCRuns, !.crashes = 0, !.installs = {Installed},
                         !.landscapes = {"steep"},
                         !.histories = {{}, Earned(2, PlainKey, "qlognehvi", 100)}]
AutoUnlike == [AutoRetrying EXCEPT !.landscapes = {"steep"}, !.installs = {Installed},
                                   !.evidence = {Worse}]
AutoWarm ==
    [AutoRetrying EXCEPT !.crashes = 0, !.data = {Data(6, 6), Data(2, 0)}, !.histories = {{}},
        !.landscapes = {"steep", "gentle"},
        !.strategies = {[config |-> c, score |-> MCLandscapes["steep"].score[c]] :
                           c \in MCNeighbours(MCBase) \cup {At(2, 0)}}]

MCScenarios == [searching |-> Plain(Searching), judging |-> Plain(Judging),
                learning |-> Plain(Learning), routing |-> Plain(Routing),
                autoRetrying |-> AutoRetrying, autoLearning |-> AutoLearning,
                autoUnlike |-> AutoUnlike, autoWarm |-> AutoWarm]
=============================================================================
