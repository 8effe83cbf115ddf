------------------------------ MODULE MCRunStore ------------------------------
(* Three runs of two conversations and two workers: two runs compete for one *)
(* conversation while the third is independent of them.                      *)
EXTENDS RunStore, TLC

CONSTANTS r1, r2, r3, w1, w2, c1, c2

MCRuns == {r1, r2, r3}
MCWorkers == {w1, w2}
MCConversations == {c1, c2}
MCConvOf == (r1 :> c1) @@ (r2 :> c1) @@ (r3 :> c2)
MCSymmetry == Permutations(MCWorkers)
=============================================================================
