--------------------------- MODULE MCStrategyMemory ---------------------------
(* Two runs, one of which dies once and one of which activates what it learns; one segment, *)
(* two strategies and the results that differ in what memory does with them.              *)
EXTENDS StrategyMemory

CONSTANTS confA, confB, confO, conf0, whole, seg1, r1, r2, e1, e2, e3

Entry(c, t) == [x \in {seg1} |-> [config |-> c, trusted |-> t]]
Result(c, t, out, entries) == [config |-> c, trusted |-> t, outcome |-> out, entries |-> entries]

MCConfigs    == {confA, confB, confO}
MCSegments   == {seg1}
MCResults    == {Result(confB, TRUE, "accepted", Entry(confB, TRUE)),
                 Result(confA, FALSE, "rejected", Entry(confB, TRUE))}
MCSeeds      == {[d \in {whole, seg1} |-> {confA}], [d \in {whole, seg1} |-> {confO}]}
MCRuns       == {r1, r2}
MCExecutors  == {e1, e2, e3}
MCRunOf      == [e \in MCExecutors |-> IF e = e3 THEN r2 ELSE r1]
MCBuilders   == {e2}
MCActivating == {r1}
MCLastCycle  == [r \in MCRuns |-> IF r = r1 THEN 2 ELSE 1]
MCObsolete   == {confO}
=============================================================================
