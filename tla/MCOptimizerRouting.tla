-------------------------- MODULE MCOptimizerRouting --------------------------
(* A small instance of OptimizerRouting: two processes and a clock that is set back once. *)
EXTENDS OptimizerRouting, TLC

CONSTANTS p1, p2

MCConfigs  == {1, 2}
MCProcs    == {p1, p2}

\* Nothing yet, or the weighted regime that was entered on one observation at time 1.
Entered == [regime |-> "weighted", updated |-> 1, seen |-> 1, rows |-> 1, epoch |-> 0,
            started |-> 0, decision |-> 1, expires |-> 2]
MCSeeds == {[obs |-> <<>>, ckpt |-> NoRow],
            [obs |-> <<[config |-> 1, at |-> 1]>>, ckpt |-> Entered]}

MCSymmetry == Permutations(MCProcs)
=============================================================================
