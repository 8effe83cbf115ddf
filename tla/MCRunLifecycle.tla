---------------------------- MODULE MCRunLifecycle ----------------------------
(* Small instances of RunLifecycle: two workers and one run. *)
EXTENDS RunLifecycle, TLC

CONSTANTS r1, r2, w1, w2, e1, e2, e3, c1

MCOneRun == {r1}
MCWorkers == {w1, w2}
MCThreeExecutors == {e1, e2, e3}
MCConversations == {c1}
MCConvOfOne == (r1 :> c1)

Budget(s, p, c, d, f) ==
    ("stalls" :> s) @@ ("pauses" :> p) @@ ("crashes" :> c) @@ ("drains" :> d) @@ ("faults" :> f)

\* One stalled lease, or a crash and a drain, but not a stall with a restart.
MCSeparate == {Budget(1, 0, 0, 0, 0), Budget(0, 0, 1, 1, 0)}
MCMixed    == {Budget(1, 1, 1, 1, 1)}
\* A lease that expires between the renewals and the sweep.
MCPause    == {Budget(1, 1, 0, 0, 0)}

\* Workers start alike and executors are slots; no property names one.
MCSymmetry == Permutations(MCWorkers) \cup Permutations(MCThreeExecutors)
=============================================================================
