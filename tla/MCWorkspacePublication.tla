------------------------ MODULE MCWorkspacePublication ------------------------
(* Two workers, one task, and an import by each worker: of a catalog, and of the one before. *)
EXTENDS WorkspacePublication, TLC

CONSTANTS w1, w2, i1, i2, t1, v0, v1

MCWorkers == {w1, w2}
MCImports == {i1, i2}
MCServedBy == (i1 :> w1 @@ i2 :> w2)
MCRevOf == (i1 :> v1 @@ i2 :> v0)
MCRevisions == {v0, v1}
MCTasks == {t1}
=============================================================================
