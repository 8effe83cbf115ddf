-------------------------- MODULE MCOnlineExperiment --------------------------
(* A small instance of ExperimentControl: two ramp stages of three units in each *)
(* arm, the fewest that decide a metric at the alpha chosen here.                *)
EXTENDS ExperimentControl, TLC

CONSTANTS ea, eb, click, operator, dashboard

MCFields   == {click}
MCEpochIds == {ea, eb}
MCClients  == {operator}
MCReaders  == {dashboard}

MCObs(u, e, arm, v) ==
    [unit |-> u, seq |-> u, epoch |-> e, arm |-> arm, values |-> (click :> v)]

\* The three units of an arm in a stage, in assignment order, that all miss, all hit or have
\* not matured.
MCPack(e, arm, v) ==
    LET first == (IF e = ea THEN 0 ELSE 6) + (IF arm = "control" THEN 0 ELSE 3)
    IN {MCObs(first + k, e, arm, v) : k \in 1 .. 3}
MCBoth(e, v, w) == MCPack(e, "control", v) \cup MCPack(e, "candidate", w)

\* A stage at once with the candidate better or worse, packs that come alone and mature
\* later, a unit of the first stage that is delivered late, a unit whose sequence belongs to
\* the first stage, and two that contradict what was assigned.
MCBatches ==
    {MCBoth(e, 0, 1) : e \in MCEpochIds} \cup {MCBoth(e, 1, 0) : e \in MCEpochIds}
    \cup {MCPack(ea, arm, Missing) : arm \in Arms} \cup {MCPack(eb, "control", 0)}
    \cup {{MCObs(7, ea, "control", 0)}, {MCObs(0, eb, "control", Missing)},
          {MCObs(1, ea, "candidate", Missing)},
          {[MCObs(4, ea, "candidate", 1) EXCEPT !.seq = 2]}}

MCContract == click :> [direction |-> "higher_is_better", role |-> "primary",
                        advance |-> Frac(0, 1), rollback |-> Frac(0, 1)]
MCFraction == <<Frac(1, 3), Frac(1, 2)>>
MCMinUnits == <<6, 6>>
MCAlpha    == Frac(5, 6)
MCSrm      == Frac(1, 4)
MCMeans    == {Frac(k, 8) : k \in 1 .. 7}
=============================================================================
